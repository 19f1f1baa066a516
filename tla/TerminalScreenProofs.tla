------------------------- MODULE TerminalScreenProofs -------------------------
(***************************************************************************)
(* Proofs about the screen of a view (TerminalScreen), for any number of   *)
(* attachments and any output.  ScreenInv is inductive: it says where the  *)
(* credit of each attachment is, what of an attachment host and webview    *)
(* still have, and which attachment the view has or waits for.             *)
(***************************************************************************)
EXTENDS MCTerminals, SequenceTheorems, FiniteSetTheorems, TLAPS

\* The elements of a sequence.
LEMMA ElementFacts ==
  ASSUME NEW S, NEW s \in Seq(S)
  PROVE  DOMAIN s = 1..Len(s) /\ Len(s) \in Nat /\ \A k \in DOMAIN s : s[k] \in S /\ k \in Nat
  OBVIOUS

\* What follows the head of a sequence.
LEMMA TailFacts ==
  ASSUME NEW S, NEW s \in Seq(S), s # << >>
  PROVE  /\ Tail(s) \in Seq(S) /\ 1 \in DOMAIN s /\ Head(s) = s[1] /\ s[1] \in S
         /\ Len(Tail(s)) = Len(s) - 1
         /\ \A k \in DOMAIN Tail(s) :
              k \in Nat /\ k >= 1 /\ k + 1 \in DOMAIN s /\ Tail(s)[k] = s[k + 1]
         /\ \A k \in DOMAIN s \ {1} : k - 1 \in DOMAIN Tail(s) /\ Tail(s)[k - 1] = s[k]
  OBVIOUS

\* A sequence with one more element.
LEMMA AppendFacts ==
  ASSUME NEW S, NEW s \in Seq(S), NEW x \in S
  PROVE  /\ Append(s, x) \in Seq(S) /\ Len(Append(s, x)) = Len(s) + 1 /\ Len(s) \in Nat
         /\ DOMAIN Append(s, x) = DOMAIN s \cup {Len(s) + 1} /\ DOMAIN s = 1..Len(s)
         /\ \A k \in DOMAIN s : Append(s, x)[k] = s[k] /\ k < Len(s) + 1 /\ k \in Nat
         /\ Append(s, x)[Len(s) + 1] = x
  OBVIOUS

-----------------------------------------------------------------------------
(***************************************************************************)
(* The screen of a view.                                                   *)
(***************************************************************************)
NativeType ==
  [seq : 0..MaxOutput + 1, rev : Nat, screen : 0..MaxOutput, screenRev : Nat, exited : BOOLEAN]
SubType == [live : BOOLEAN, inflight : Nat, credit : BOOLEAN, last : Nat]
WireType == Seq([seq : Nat, rev : Nat])
CommandType == [op : {"attach", "credit", "detach"}, a : Screen!Attachment, seq : Nat]
AttType ==
  [prev : 0..MaxAttach, live : BOOLEAN, seq : Nat, rev : Nat, screen : Nat, awaiting : BOOLEAN,
   phase : {"none", "waiting", "asked", "replied", "open", "closed", "failed"}]
ViewType ==
  [gone : BOOLEAN, demand : BOOLEAN, starting : BOOLEAN, opening : 0..MaxAttach,
   lease : 0..MaxAttach, attached : BOOLEAN, ended : BOOLEAN, credit : BOOLEAN]
AttsType == [Screen!Attachment -> AttType]
SubsType == [Screen!Attachment -> SubType]
WiresType == [Screen!Attachment -> WireType]

\* No command is sent twice; while the terminal runs, attachments are asked for in turn.
Once(cs) == \A i, j \in DOMAIN cs : cs[i].op = cs[j].op /\ cs[i].a = cs[j].a => i = j
InTurn(cs) ==
  \A i, j \in DOMAIN cs : i < j /\ cs[i].op = "attach" /\ cs[j].op = "attach" => cs[i].a < cs[j].a
\* The commands of an attachment that are on their way.
Own(cs, a) == {c \in CommandType : c.a = a /\ \E i \in DOMAIN cs : cs[i] = c}
On(q, op) == \E c \in q : c.op = op

\* What the actor knows of itself.
Shows(nat) ==
  /\ nat.screen <= nat.seq /\ nat.screenRev <= nat.rev
  /\ nat.exited \/ nat.seq <= MaxOutput

\* The commands of an attachment, its subscriber s and its lease on the host, and its phase
\* in the webview.
Unserved == {"none", "waiting", "asked"}
Hosted(a, nat, s, t, ls, q) ==
  /\ On(q, "attach") <=> t.phase = "asked"
  /\ On(q, "detach") => t.phase = "closed"
  /\ s.live => a \in ls /\ ~ nat.exited /\ s.last <= nat.seq
  /\ t.phase \in Unserved => s = Screen!NoSub /\ a \notin ls /\ ~ t.awaiting
  /\ a \in ls => t.phase \in {"replied", "open"} \/ On(q, "detach")
  /\ t.phase \in {"replied", "open"} => s.live \/ nat.exited
  /\ t.phase = "replied" => ~ t.awaiting /\ (nat.exited \/ (t.live /\ s.inflight = t.seq))
  /\ t.phase # "failed"

\* The credit of an attachment is in one place: with the view, in a command, with the actor or
\* in a screen on its way; w is what is on its way to the webview, and re are the attachments with
\* a credit that was refused.
Credited(a, nat, s, t, w, re, q) ==
  /\ On(q, "credit") =>
       /\ w = << >> /\ ~ s.credit /\ t.phase \in {"open", "closed"}
       /\ t.phase = "open" => t.awaiting /\ a \notin re
  /\ \A c \in q : c.op = "credit" /\ t.phase = "open" => s.inflight = c.seq \/ nat.exited
  /\ s.credit => /\ s.live /\ w = << >> /\ t.phase \in {"open", "closed"}
                 /\ t.phase = "open" => t.awaiting
  /\ w # << >> =>
       /\ Len(w) = 1 /\ t.phase \in {"open", "closed"}
       /\ t.phase = "open" =>
            /\ t.awaiting /\ a \notin re /\ w[1].seq >= t.seq /\ w[1].rev > t.rev
            /\ s.live => /\ s.inflight = w[1].seq /\ s.last = w[1].seq /\ w[1].rev <= nat.rev
                         /\ nat.screen > w[1].seq => nat.screenRev > w[1].rev
  /\ a \in re => /\ t.phase \in {"open", "closed"}
                 /\ t.phase = "open" => nat.exited /\ t.awaiting
  /\ t.phase \in {"replied", "open"} /\ s.live /\ w = << >> =>
       /\ t.rev <= nat.rev /\ t.seq <= s.last
       /\ nat.screen > s.last => nat.screenRev > t.rev

\* The attachments 1 to n were made.  The view waits for the last one or has it, and the last
\* one that the host attached may resize.
Viewed(n, nat, sb, au, at, vw) ==
  /\ \A a \in Screen!Attachment : at[a].phase # "none" <=> a <= n
  /\ vw.opening # 0 => /\ vw.opening = n /\ vw.lease = 0 /\ ~ vw.gone
                       /\ at[n].phase \in Unserved \cup {"replied"}
  /\ vw.lease # 0 => /\ vw.lease = n /\ ~ vw.gone
                     /\ at[n].phase \in {"open", "closed"} /\ (at[n].phase = "closed" => vw.ended)
  /\ vw.attached <=> vw.lease # 0
  /\ \A a \in Screen!Attachment : at[a].phase = "open" => vw.lease = a
  /\ nat.exited \/ \A a \in Screen!Attachment : at[a].phase # "waiting"
  /\ nat.exited \/ \A b, c \in Screen!Attachment :
                     b < c /\ c <= n /\ at[b].phase = "asked" => at[c].phase = "asked"
  /\ vw.credit /\ vw.lease # 0 /\ ~ vw.ended =>
       /\ ~ at[vw.lease].awaiting
       /\ nat.exited \/ sb[vw.lease].inflight = at[vw.lease].seq
  /\ au # 0 => sb[au].live
  /\ \A a \in Screen!Attachment : a = n /\ sb[a].live => au = a

ScreenTypes ==
  /\ native \in NativeType /\ subscriber \in SubsType /\ authority \in 0..MaxAttach
  /\ leases \subseteq Screen!Attachment /\ refused \subseteq Screen!Attachment
  /\ events \in WiresType /\ calls \in Seq(CommandType) /\ att \in AttsType
  /\ view \in ViewType /\ screen \in Nat /\ exitSeen \in BOOLEAN
ScreenOf(nat, sb, ls, wi, re, cs, at) ==
  \A a \in Screen!Attachment :
    /\ Hosted(a, nat, sb[a], at[a], ls, Own(cs, a))
    /\ Credited(a, nat, sb[a], at[a], wi[a], re, Own(cs, a))
ScreenInv ==
  /\ ScreenTypes /\ Shows(native) /\ (exitSeen => native.exited)
  /\ Once(calls) /\ (native.exited \/ InTurn(calls))
  /\ ScreenOf(native, subscriber, leases, events, refused, calls, att)
  /\ \E n \in 0..MaxAttach : Viewed(n, native, subscriber, authority, att, view)

\* One more command of an attachment is on its way.
LEMMA AppendOwn ==
  ASSUME NEW cs \in Seq(CommandType), NEW c \in CommandType
  PROVE  /\ Append(cs, c) \in Seq(CommandType)
         /\ Own(Append(cs, c), c.a) = Own(cs, c.a) \cup {c}
         /\ \A b : b # c.a => Own(Append(cs, c), b) = Own(cs, b)
<1>1. /\ Append(cs, c) \in Seq(CommandType) /\ DOMAIN Append(cs, c) = DOMAIN cs \cup {Len(cs) + 1}
      /\ \A k \in DOMAIN cs : Append(cs, c)[k] = cs[k]
      /\ Append(cs, c)[Len(cs) + 1] = c
  BY AppendFacts
<1>2. \A d : (\E i \in DOMAIN Append(cs, c) : Append(cs, c)[i] = d) <=> (d = c \/ \E i \in DOMAIN cs : cs[i] = d)
  <2> TAKE d
  <2>1. ASSUME NEW i \in DOMAIN Append(cs, c), Append(cs, c)[i] = d
        PROVE  d = c \/ \E k \in DOMAIN cs : cs[k] = d
    <3>1. CASE i \in DOMAIN cs
      BY <1>1, <2>1, <3>1
    <3>2. CASE i = Len(cs) + 1
      BY <1>1, <2>1, <3>2
    <3> QED
      BY <1>1, <3>1, <3>2
  <2>2. ASSUME NEW i \in DOMAIN cs, cs[i] = d PROVE \E k \in DOMAIN Append(cs, c) : Append(cs, c)[k] = d
    BY <1>1, <2>2
  <2>3. ASSUME d = c PROVE \E k \in DOMAIN Append(cs, c) : Append(cs, c)[k] = d
    BY <1>1, <2>3
  <2> QED
    BY <2>1, <2>2, <2>3
<1>3. \A b : Own(Append(cs, c), b) = {d \in CommandType : d.a = b /\ (d = c \/ \E i \in DOMAIN cs : cs[i] = d)}
  BY <1>2 DEF Own
<1>4. Own(Append(cs, c), c.a) = Own(cs, c.a) \cup {c}
  BY <1>3 DEF Own
<1>5. \A b : b # c.a => Own(Append(cs, c), b) = Own(cs, b)
  BY <1>3 DEF Own
<1> QED
  BY <1>1, <1>4, <1>5

\* A command that was not sent yet is sent in turn.
LEMMA AppendOnce ==
  ASSUME NEW cs \in Seq(CommandType), NEW c \in CommandType, Once(cs), ~ On(Own(cs, c.a), c.op)
  PROVE  /\ Once(Append(cs, c))
         /\ InTurn(cs) /\ (c.op = "attach" => \A b \in Screen!Attachment : On(Own(cs, b), "attach") => b < c.a)
              => InTurn(Append(cs, c))
<1>1. /\ DOMAIN Append(cs, c) = DOMAIN cs \cup {Len(cs) + 1} /\ Len(cs) \in Nat
      /\ \A k \in DOMAIN cs : Append(cs, c)[k] = cs[k] /\ k < Len(cs) + 1 /\ k \in Nat
      /\ Append(cs, c)[Len(cs) + 1] = c
  BY AppendFacts
<1>2. \A k \in DOMAIN cs : cs[k] \in CommandType
  BY ElementFacts
<1>3. \A k \in DOMAIN cs : cs[k] \in Own(cs, cs[k].a)
  BY <1>2 DEF Own
<1>4. \A k \in DOMAIN cs : ~ (cs[k].op = c.op /\ cs[k].a = c.a)
  BY <1>3 DEF On
<1>5. Once(Append(cs, c))
  BY <1>1, <1>4 DEF Once
<1>6. ASSUME InTurn(cs), c.op = "attach" => \A b \in Screen!Attachment : On(Own(cs, b), "attach") => b < c.a
      PROVE  InTurn(Append(cs, c))
  <2> SUFFICES ASSUME NEW i \in DOMAIN Append(cs, c), NEW j \in DOMAIN Append(cs, c), i < j,
                      Append(cs, c)[i].op = "attach", Append(cs, c)[j].op = "attach"
               PROVE  Append(cs, c)[i].a < Append(cs, c)[j].a
    BY DEF InTurn
  <2>1. i \in DOMAIN cs
    BY <1>1
  <2>2. CASE j \in DOMAIN cs
    BY <1>1, <1>6, <2>1, <2>2 DEF InTurn
  <2>3. CASE j = Len(cs) + 1
    <3>1. c.op = "attach" /\ cs[i].op = "attach" /\ cs[i].a \in Screen!Attachment
      BY <1>1, <1>2, <2>1, <2>3 DEF CommandType
    <3>2. On(Own(cs, cs[i].a), "attach")
      BY <1>3, <2>1, <3>1 DEF On
    <3> QED
      BY <1>1, <1>6, <2>1, <2>3, <3>1, <3>2
  <2> QED
    BY <1>1, <2>2, <2>3
<1> QED
  BY <1>5, <1>6

\* The first command is served: it was the only one of its kind, and of the attachments that
\* are asked for in turn it has the first.
LEMMA TailOwn ==
  ASSUME NEW cs \in Seq(CommandType), cs # << >>, Once(cs), NEW c, c = Head(cs)
  PROVE  /\ c \in CommandType /\ c \in Own(cs, c.a) /\ Tail(cs) \in Seq(CommandType)
         /\ Once(Tail(cs)) /\ (InTurn(cs) => InTurn(Tail(cs)))
         /\ \A b : b # c.a => Own(Tail(cs), b) = Own(cs, b)
         /\ Own(Tail(cs), c.a) \subseteq Own(cs, c.a)
         /\ ~ On(Own(Tail(cs), c.a), c.op)
         /\ \A op : op # c.op => (On(Own(Tail(cs), c.a), op) <=> On(Own(cs, c.a), op))
         /\ InTurn(cs) /\ c.op = "attach" =>
              \A b \in Screen!Attachment : On(Own(cs, b), "attach") => c.a <= b
<1>1. /\ Tail(cs) \in Seq(CommandType) /\ 1 \in DOMAIN cs /\ c = cs[1] /\ c \in CommandType
      /\ \A k \in DOMAIN Tail(cs) :
           k \in Nat /\ k >= 1 /\ k + 1 \in DOMAIN cs /\ Tail(cs)[k] = cs[k + 1]
      /\ \A k \in DOMAIN cs \ {1} : k - 1 \in DOMAIN Tail(cs) /\ Tail(cs)[k - 1] = cs[k]
  BY TailFacts
<1>2. c \in Own(cs, c.a)
  BY <1>1 DEF Own
<1>3. Once(Tail(cs))
  BY <1>1 DEF Once
<1>4. ASSUME InTurn(cs) PROVE InTurn(Tail(cs))
  <2> SUFFICES ASSUME NEW i \in DOMAIN Tail(cs), NEW j \in DOMAIN Tail(cs), i < j,
                      Tail(cs)[i].op = "attach", Tail(cs)[j].op = "attach"
               PROVE  Tail(cs)[i].a < Tail(cs)[j].a
    BY DEF InTurn
  <2>1. i + 1 \in DOMAIN cs /\ j + 1 \in DOMAIN cs /\ i + 1 < j + 1
        /\ Tail(cs)[i] = cs[i + 1] /\ Tail(cs)[j] = cs[j + 1]
    BY <1>1
  <2> QED
    BY <1>4, <2>1 DEF InTurn
<1>5. \A d : (\E i \in DOMAIN Tail(cs) : Tail(cs)[i] = d) => \E i \in DOMAIN cs : cs[i] = d
  BY <1>1
<1>6. \A d : d # c /\ (\E i \in DOMAIN cs : cs[i] = d) => \E i \in DOMAIN Tail(cs) : Tail(cs)[i] = d
  <2> SUFFICES ASSUME NEW d, d # c, NEW i \in DOMAIN cs, cs[i] = d
               PROVE  \E k \in DOMAIN Tail(cs) : Tail(cs)[k] = d
    OBVIOUS
  <2>1. i # 1
    BY <1>1
  <2> QED
    BY <1>1, <2>1
<1>7. \A b : b # c.a => Own(Tail(cs), b) = Own(cs, b)
  BY <1>5, <1>6 DEF Own
<1>8. Own(Tail(cs), c.a) \subseteq Own(cs, c.a)
  BY <1>5 DEF Own
<1>9. ~ On(Own(Tail(cs), c.a), c.op)
  <2> SUFFICES ASSUME NEW i \in DOMAIN Tail(cs), Tail(cs)[i].op = c.op, Tail(cs)[i].a = c.a PROVE FALSE
    BY DEF On, Own
  <2>1. i + 1 \in DOMAIN cs /\ cs[i + 1] = Tail(cs)[i] /\ i + 1 # 1
    BY <1>1
  <2> QED
    BY <1>1, <2>1 DEF Once
<1>10. \A op : op # c.op => (On(Own(Tail(cs), c.a), op) <=> On(Own(cs, c.a), op))
  BY <1>5, <1>6 DEF On, Own
<1>11. ASSUME InTurn(cs), c.op = "attach", NEW b \in Screen!Attachment, On(Own(cs, b), "attach")
       PROVE  c.a <= b
  <2>1. PICK i \in DOMAIN cs : cs[i].op = "attach" /\ cs[i].a = b
    BY <1>11 DEF On, Own
  <2>2. CASE i = 1
    BY <1>1, <2>1, <2>2 DEF CommandType, Screen!Attachment
  <2>3. CASE i # 1
    <3>1. i \in Nat /\ 1 < i
      BY <2>3, ElementFacts
    <3>2. c.a < b /\ c.a \in Int /\ b \in Int
      BY <1>1, <1>11, <2>1, <3>1, TerminalsAssumption DEF InTurn, CommandType, Screen!Attachment
    <3> QED
      BY <3>2
  <2> QED
    BY <2>2, <2>3
<1> QED
  BY <1>1, <1>2, <1>3, <1>4, <1>7, <1>8, <1>9, <1>10, <1>11

-----------------------------------------------------------------------------
\* A state of the webview, with the commands that it sent.
W(v, at, cs, sh) == [view |-> v, att |-> at, calls |-> cs, shown |-> sh]
Command(op, a, n) == [op |-> op, a |-> a, seq |-> n]
Phased(t, phase) == [t EXCEPT !.phase = phase]
Awaits(t) == [t EXCEPT !.awaiting = TRUE]
Put(at, a, x) == [at EXCEPT ![a] = x]

\* What is made of an attachment keeps the type.
LEMMA AttFacts ==
  ASSUME NEW at \in AttsType, NEW a \in Screen!Attachment, NEW x \in AttType
  PROVE  /\ Put(at, a, x) \in AttsType /\ Put(at, a, x)[a] = x
         /\ \A b \in Screen!Attachment : b # a => Put(at, a, x)[b] = at[b]
         /\ at[a] \in AttType
  BY DEF AttsType, Put

\* So do a phase and a wait for a screen.
LEMMA PhasedFacts ==
  ASSUME NEW t \in AttType,
         NEW phase \in {"none", "waiting", "asked", "replied", "open", "closed", "failed"}
  PROVE  /\ Phased(t, phase) \in AttType /\ Phased(t, phase).phase = phase
         /\ Phased(t, phase).prev = t.prev /\ Phased(t, phase).live = t.live
         /\ Phased(t, phase).seq = t.seq /\ Phased(t, phase).rev = t.rev
         /\ Phased(t, phase).screen = t.screen /\ Phased(t, phase).awaiting = t.awaiting
         /\ Awaits(t) \in AttType /\ Awaits(t).awaiting = TRUE /\ Awaits(t).phase = t.phase
         /\ Awaits(t).prev = t.prev /\ Awaits(t).live = t.live /\ Awaits(t).seq = t.seq
         /\ Awaits(t).rev = t.rev /\ Awaits(t).screen = t.screen
  BY DEF Phased, Awaits, AttType

\* A command that is sent.
LEMMA CommandFacts ==
  ASSUME NEW op \in {"attach", "credit", "detach"}, NEW a \in Screen!Attachment, NEW n \in Nat
  PROVE  /\ Command(op, a, n) \in CommandType
         /\ Command(op, a, n).op = op /\ Command(op, a, n).a = a /\ Command(op, a, n).seq = n
  BY DEF Command, CommandType

\* Another view of the same webview.
LEMMA ViewIs ==
  ASSUME NEW v, NEW at, NEW cs, NEW sh, NEW w, w = W(v, at, cs, sh), NEW x
  PROVE  [w EXCEPT !.view = x] = W(x, at, cs, sh) /\ w.view = v /\ w.att = at
  BY DEF W

\* The webview asks for something.
LEMMA AskedIs ==
  ASSUME NEW v, NEW at, NEW cs, NEW sh, NEW op, NEW a, NEW n
  PROVE  Screen!Asked(W(v, at, cs, sh), op, a, n) = W(v, at, Append(cs, Command(op, a, n)), sh)
  BY DEF Screen!Asked, W, Command

\* A lease is closed if it is open.
LEMMA ClosedIs ==
  ASSUME NEW v, NEW at, NEW cs, NEW sh, NEW a \in Screen!Attachment, at[a].phase \in {"open", "replied"}
  PROVE  Screen!Closed(W(v, at, cs, sh), a) =
           W(v, Put(at, a, Phased(at[a], "closed")), Append(cs, Command("detach", a, 0)), sh)
<1>1. a # 0 /\ W(v, at, cs, sh).att = at
  BY TerminalsAssumption DEF W, Screen!Attachment
<1>2. [W(v, at, cs, sh) EXCEPT !.att[a].phase = "closed"]
        = W(v, Put(at, a, Phased(at[a], "closed")), cs, sh)
  BY DEF W, Phased, Put
<1> QED
  BY <1>1, <1>2, AskedIs DEF Screen!Closed

\* It is not closed twice.
LEMMA ClosedNot ==
  ASSUME NEW v, NEW at, NEW cs, NEW sh, NEW a, at[a].phase \notin {"open", "replied"}
  PROVE  Screen!Closed(W(v, at, cs, sh), a) = W(v, at, cs, sh)
<1>1. W(v, at, cs, sh).att = at
  BY DEF W
<1> QED
  BY <1>1 DEF Screen!Closed

\* No lease, nothing to close.
LEMMA ClosedNone ==
  ASSUME NEW w PROVE Screen!Closed(w, 0) = w
  BY DEF Screen!Closed

\* A view that stops.
Halted(v) == [[v EXCEPT !.ended = TRUE] EXCEPT !.credit = FALSE]
\* It is all that changes.
LEMMA HaltedFacts ==
  ASSUME NEW v \in ViewType
  PROVE  /\ Halted(v) \in ViewType /\ Halted(v).ended = TRUE /\ Halted(v).credit = FALSE
         /\ Halted(v).gone = v.gone /\ Halted(v).opening = v.opening /\ Halted(v).lease = v.lease
         /\ Halted(v).attached = v.attached /\ Halted(v).demand = v.demand
  BY DEF Halted, ViewType

\* The webview stops its view.
LEMMA StoppedIs ==
  ASSUME NEW v, NEW at, NEW cs, NEW sh
  PROVE  Screen!Stopped(W(v, at, cs, sh)) = W(Halted(v), at, cs, sh)
<1>1. PICK w : w = W(v, at, cs, sh)
  OBVIOUS
<1>2. PICK x : x = [v EXCEPT !.ended = TRUE]
  OBVIOUS
<1>3. PICK y : y = [x EXCEPT !.credit = FALSE]
  OBVIOUS
<1>4. Screen!Stopped(w) = [[w EXCEPT !.view.ended = TRUE] EXCEPT !.view.credit = FALSE]
  BY DEF Screen!Stopped
<1>5. [w EXCEPT !.view.ended = TRUE] = [w EXCEPT !.view = [w.view EXCEPT !.ended = TRUE]]
  OBVIOUS
<1>6. [w EXCEPT !.view = x] = W(x, at, cs, sh) /\ w.view = v
  BY <1>1, ViewIs
<1>7. PICK z : z = W(x, at, cs, sh)
  OBVIOUS
<1>8. [z EXCEPT !.view.credit = FALSE] = [z EXCEPT !.view = [z.view EXCEPT !.credit = FALSE]]
  OBVIOUS
<1>9. [z EXCEPT !.view = y] = W(y, at, cs, sh) /\ z.view = x
  BY <1>7, ViewIs
<1>10. y = Halted(v)
  BY <1>2, <1>3 DEF Halted
<1>11. [w EXCEPT !.view.ended = TRUE] = z
  BY <1>2, <1>5, <1>6, <1>7
<1>12. Screen!Stopped(w) = [z EXCEPT !.view.credit = FALSE]
  BY <1>4, <1>11
<1>13. [z EXCEPT !.view.credit = FALSE] = W(y, at, cs, sh)
  BY <1>3, <1>8, <1>9
<1> QED
  BY <1>1, <1>10, <1>12, <1>13

\* A view that gives its credit back.
Grants(v) == v.credit /\ v.demand /\ ~ v.ended /\ v.lease # 0
Given(v) == [v EXCEPT !.credit = FALSE]
\* That is all that changes.
LEMMA GivenFacts ==
  ASSUME NEW v \in ViewType
  PROVE  /\ Given(v) \in ViewType /\ Given(v).credit = FALSE /\ Given(v).ended = v.ended
         /\ Given(v).gone = v.gone /\ Given(v).opening = v.opening /\ Given(v).lease = v.lease
         /\ Given(v).attached = v.attached
  BY DEF Given, ViewType

\* A view that does not give credit stays.
LEMMA GrantedNot ==
  ASSUME NEW v \in ViewType, NEW at, NEW cs, NEW sh, ~ Grants(v)
  PROVE  Screen!Granted(W(v, at, cs, sh)) = W(v, at, cs, sh)
<1>1. W(v, at, cs, sh).view = v
  BY DEF W
<1> QED
  BY <1>1 DEF Screen!Granted, Grants

\* It gives it for the screen that its attachment has.
LEMMA GrantedIs ==
  ASSUME NEW v \in ViewType, NEW at, NEW cs, NEW sh, NEW a, a = v.lease, Grants(v)
  PROVE  Screen!Granted(W(v, at, cs, sh)) =
           W(Given(v), Put(at, a, Awaits(at[a])), Append(cs, Command("credit", a, at[a].seq)), sh)
<1>1. W(v, at, cs, sh).view = v /\ W(v, at, cs, sh).att = at
  BY DEF W
<1>2. [W(v, at, cs, sh) EXCEPT !.view.credit = FALSE, !.att[a].awaiting = TRUE]
        = W(Given(v), Put(at, a, Awaits(at[a])), cs, sh)
  <2>1. [W(v, at, cs, sh) EXCEPT !.view.credit = FALSE] = W(Given(v), at, cs, sh)
    <3>1. PICK w : w = W(v, at, cs, sh)
      OBVIOUS
    <3>2. PICK x : x = Given(v)
      OBVIOUS
    <3>3. [w EXCEPT !.view.credit = FALSE] = [w EXCEPT !.view = [w.view EXCEPT !.credit = FALSE]]
      OBVIOUS
    <3>4. [w EXCEPT !.view = x] = W(x, at, cs, sh) /\ w.view = v
      BY <3>1, ViewIs
    <3> QED
      BY <3>1, <3>2, <3>3, <3>4 DEF Given
  <2>2. [W(Given(v), at, cs, sh) EXCEPT !.att[a].awaiting = TRUE]
          = W(Given(v), Put(at, a, Awaits(at[a])), cs, sh)
    BY DEF W, Awaits, Put
  <2>3. [W(v, at, cs, sh) EXCEPT !.view.credit = FALSE, !.att[a].awaiting = TRUE]
          = [[W(v, at, cs, sh) EXCEPT !.view.credit = FALSE] EXCEPT !.att[a].awaiting = TRUE]
    OBVIOUS
  <2> QED
    BY <2>1, <2>2, <2>3
<1>3. Screen!Granted(W(v, at, cs, sh)) =
        Screen!Asked([W(v, at, cs, sh) EXCEPT !.view.credit = FALSE, !.att[a].awaiting = TRUE],
                     "credit", a, at[a].seq)
  BY <1>1 DEF Screen!Granted, Grants
<1> QED
  BY <1>2, <1>3, AskedIs

\* What the webview becomes.
LEMMA BecomesIs ==
  ASSUME NEW v, NEW at, NEW cs, NEW sh, NEW w, w = W(v, at, cs, sh), Screen!Becomes(w)
  PROVE  view' = v /\ att' = at /\ calls' = cs /\ screen' = sh
  BY DEF Screen!Becomes, W

\* What it is.
LEMMA WebIs == Screen!Web = W(view, att, calls, screen)
  BY DEF Screen!Web, W

-----------------------------------------------------------------------------
\* The fields of what the host and the webview keep.
LEMMA RecordFacts ==
  /\ \A nat \in NativeType : /\ nat.seq \in Nat /\ nat.rev \in Nat /\ nat.screen \in Nat
                             /\ nat.screenRev \in Nat /\ nat.exited \in BOOLEAN
  /\ \A s \in SubType : s.live \in BOOLEAN /\ s.credit \in BOOLEAN /\ s.inflight \in Nat /\ s.last \in Nat
  /\ \A t \in AttType : t.seq \in Nat /\ t.rev \in Nat /\ t.awaiting \in BOOLEAN
  /\ Screen!NoSub \in SubType /\ ~ Screen!NoSub.live /\ ~ Screen!NoSub.credit
  BY TerminalsAssumption DEF NativeType, SubType, AttType, Screen!NoSub

\* What is on its way to the webview.
LEMMA WireFacts ==
  ASSUME NEW w \in WireType
  PROVE  /\ Len(w) \in Nat
         /\ w # << >> => /\ w[1].seq \in Nat /\ w[1].rev \in Nat /\ Head(w) = w[1]
                         /\ Tail(w) \in WireType /\ (Len(w) = 1 => Tail(w) = << >>)
         /\ \A e \in [seq : Nat, rev : Nat] :
              /\ Append(w, e) \in WireType /\ Append(w, e) # << >>
              /\ w = << >> => Len(Append(w, e)) = 1 /\ Append(w, e)[1] = e
<1>1. w \in Seq([seq : Nat, rev : Nat]) /\ Len(w) \in Nat
  BY DEF WireType
<1>2. ASSUME w # << >>
      PROVE  /\ w[1].seq \in Nat /\ w[1].rev \in Nat /\ Head(w) = w[1]
             /\ Tail(w) \in WireType /\ (Len(w) = 1 => Tail(w) = << >>)
  <2>1. Tail(w) \in WireType /\ w[1] \in [seq : Nat, rev : Nat] /\ Head(w) = w[1]
        /\ Len(Tail(w)) = Len(w) - 1
    BY <1>1, <1>2, TailFacts DEF WireType
  <2>2. w[1].seq \in Nat /\ w[1].rev \in Nat
    BY <2>1
  <2>3. Len(w) = 1 => Tail(w) = << >>
    <3>1. \A x \in Seq([seq : Nat, rev : Nat]) : Len(x) = 0 => x = << >>
      OBVIOUS
    <3>2. Tail(w) \in Seq([seq : Nat, rev : Nat])
      BY <2>1 DEF WireType
    <3>3. Len(w) = 1 => Len(Tail(w)) = 0
      BY <1>1, <2>1
    <3> QED
      BY <3>1, <3>2, <3>3
  <2> QED
    BY <2>1, <2>2, <2>3
<1>3. ASSUME NEW e \in [seq : Nat, rev : Nat]
      PROVE  /\ Append(w, e) \in WireType /\ Append(w, e) # << >>
             /\ w = << >> => Len(Append(w, e)) = 1 /\ Append(w, e)[1] = e
  <2>1. /\ Append(w, e) \in WireType /\ Len(Append(w, e)) = Len(w) + 1
        /\ Append(w, e)[Len(w) + 1] = e
    BY <1>1, AppendFacts DEF WireType
  <2>2. Len(<< >>) = 0
    OBVIOUS
  <2>3. Append(w, e) # << >>
    BY <1>1, <2>1, <2>2
  <2>4. w = << >> => Len(Append(w, e)) = 1 /\ Append(w, e)[1] = e
    BY <2>1, <2>2
  <2> QED
    BY <2>1, <2>3, <2>4
<1> QED
  BY <1>1, <1>2, <1>3

\* The actor advances: its screen stays, or is of a later revision than any before it.
LEMMA AdvanceKeeps ==
  ASSUME NEW a, NEW nat \in NativeType, NEW nat2 \in NativeType, NEW s \in SubType, NEW t \in AttType,
         NEW w \in WireType, NEW ls, NEW re, NEW q \in SUBSET CommandType,
         nat2.exited = nat.exited, nat2.seq >= nat.seq, nat2.rev >= nat.rev,
         \/ nat2.screen = nat.screen /\ nat2.screenRev = nat.screenRev
         \/ nat2.screenRev > nat.rev,
         Hosted(a, nat, s, t, ls, q), Credited(a, nat, s, t, w, re, q)
  PROVE  Hosted(a, nat2, s, t, ls, q) /\ Credited(a, nat2, s, t, w, re, q)
<1>1. Hosted(a, nat2, s, t, ls, q)
  BY RecordFacts DEF Hosted
<1>2. Credited(a, nat2, s, t, w, re, q)
  BY RecordFacts, WireFacts DEF Credited
<1> QED
  BY <1>1, <1>2

\* An attachment with credit is sent a screen that it did not see.
Shown(nat, s) ==
  [[[s EXCEPT !.credit = FALSE] EXCEPT !.inflight = nat.screen] EXCEPT !.last = nat.screen]
Screened(nat) == [seq |-> nat.screen, rev |-> nat.screenRev]
\* Its credit is on the way with the screen.
LEMMA PublishKeeps ==
  ASSUME NEW a, NEW nat \in NativeType, NEW s \in SubType, NEW t \in AttType,
         NEW w \in WireType, NEW ls, NEW re, NEW q \in SUBSET CommandType, Shows(nat),
         s.live, s.credit, s.last < nat.screen,
         Hosted(a, nat, s, t, ls, q), Credited(a, nat, s, t, w, re, q)
  PROVE  /\ Shown(nat, s) \in SubType /\ Append(w, Screened(nat)) \in WireType
         /\ Hosted(a, nat, Shown(nat, s), t, ls, q)
         /\ Credited(a, nat, Shown(nat, s), t, Append(w, Screened(nat)), re, q)
         /\ Shown(nat, s).live /\ (t.phase = "open" => t.awaiting)
<1>1. PICK s2 : s2 = Shown(nat, s)
  OBVIOUS
<1>2. /\ s2 \in SubType /\ s2.live = s.live /\ s2.credit = FALSE /\ s2.inflight = nat.screen
      /\ s2.last = nat.screen
  BY <1>1, RecordFacts DEF Shown, SubType
<1>3. w = << >> /\ t.phase \in {"open", "closed"} /\ (t.phase = "open" => t.awaiting)
  BY DEF Credited
<1>4. PICK w2 : w2 = Append(w, Screened(nat))
  OBVIOUS
<1>5. Screened(nat) \in [seq : Nat, rev : Nat] /\ Screened(nat).seq = nat.screen
      /\ Screened(nat).rev = nat.screenRev
  BY RecordFacts DEF Screened
<1>6. w2 \in WireType /\ w2 # << >> /\ Len(w2) = 1 /\ w2[1].seq = nat.screen /\ w2[1].rev = nat.screenRev
  BY <1>3, <1>4, <1>5, WireFacts
<1>7. ~ nat.exited /\ nat.screen <= nat.seq /\ nat.screenRev <= nat.rev
  BY DEF Hosted, Shows
<1>8. Hosted(a, nat, s2, t, ls, q)
  BY <1>2, <1>3, <1>7 DEF Hosted, Unserved
<1>9. ~ On(q, "credit") /\ (t.phase = "open" => a \notin re)
  BY <1>7 DEF Credited
<1>10. t.phase = "open" => t.seq <= nat.screen /\ nat.screenRev > t.rev
  BY <1>3, RecordFacts DEF Credited
<1>11. Credited(a, nat, s2, t, w2, re, q)
  BY <1>2, <1>3, <1>6, <1>7, <1>9, <1>10, RecordFacts DEF Credited, On
<1> QED
  BY <1>1, <1>2, <1>3, <1>4, <1>6, <1>8, <1>11

\* The exit takes the subscriber of an attachment.
LEMMA ExitKeeps ==
  ASSUME NEW a, NEW nat \in NativeType, NEW nat2 \in NativeType, NEW s \in SubType, NEW t \in AttType,
         NEW w \in WireType, NEW ls, NEW re, NEW q \in SUBSET CommandType, nat2.exited,
         Hosted(a, nat, s, t, ls, q), Credited(a, nat, s, t, w, re, q)
  PROVE  Hosted(a, nat2, Screen!NoSub, t, ls, q) /\ Credited(a, nat2, Screen!NoSub, t, w, re, q)
<1>1. Hosted(a, nat2, Screen!NoSub, t, ls, q)
  BY RecordFacts DEF Hosted
<1>2. Credited(a, nat2, Screen!NoSub, t, w, re, q)
  BY RecordFacts DEF Credited
<1> QED
  BY <1>1, <1>2

-----------------------------------------------------------------------------
\* The host serves the command to attach: a terminal that runs gets a subscriber, and its
\* baseline is what the actor shows.
LEMMA ServeAttachKeeps ==
  ASSUME NEW a, NEW nat \in NativeType, NEW s \in SubType, NEW s2 \in SubType, NEW t \in AttType,
         NEW t2 \in AttType, NEW w \in WireType, NEW ls, NEW ls2, NEW re,
         NEW q \in SUBSET CommandType, NEW q2 \in SUBSET CommandType, Shows(nat),
         Hosted(a, nat, s, t, ls, q), Credited(a, nat, s, t, w, re, q),
         On(q, "attach"), q2 \subseteq q, ~ On(q2, "attach"),
         t2.phase = "replied", t2.awaiting = t.awaiting, t2.seq = nat.seq, t2.rev = nat.rev,
         t2.live <=> ~ nat.exited,
         nat.exited => s2 = s /\ ls2 = ls,
         ~ nat.exited => /\ s2.live /\ s2.inflight = nat.seq /\ s2.credit = FALSE /\ s2.last = nat.seq
                         /\ a \in ls2
  PROVE  Hosted(a, nat, s2, t2, ls2, q2) /\ Credited(a, nat, s2, t2, w, re, q2)
<1>1. /\ t.phase = "asked" /\ s = Screen!NoSub /\ a \notin ls /\ ~ t.awaiting
      /\ ~ On(q, "detach") /\ ~ On(q, "credit") /\ w = << >> /\ a \notin re
  <2>1. /\ t.phase = "asked" /\ s = Screen!NoSub /\ a \notin ls /\ ~ t.awaiting
        /\ ~ On(q, "detach")
    BY DEF Hosted, Unserved
  <2>2. t.phase \notin {"open", "closed"}
    BY <2>1
  <2>3. ~ On(q, "credit")
    BY <2>2 DEF Credited
  <2>4. w = << >>
    BY <2>2 DEF Credited
  <2>5. a \notin re
    BY <2>2 DEF Credited
  <2> QED
    BY <2>1, <2>3, <2>4, <2>5
<1>2. ~ On(q2, "detach") /\ ~ On(q2, "credit") /\ \A c \in q2 : c.op # "credit"
  BY <1>1 DEF On
<1>3. Hosted(a, nat, s2, t2, ls2, q2)
  BY <1>1, <1>2, RecordFacts DEF Hosted, Unserved
<1>4. Credited(a, nat, s2, t2, w, re, q2)
  BY <1>1, <1>2, RecordFacts DEF Credited, Shows
<1> QED
  BY <1>3, <1>4

\* The host serves a credit: it releases the screen in flight, or it refuses the credit of an
\* attachment that the exit ended.
Credit(s) == [[s EXCEPT !.inflight = 0] EXCEPT !.credit = TRUE]
\* The credit is with the actor, or it was refused.
LEMMA ServeCreditKeeps ==
  ASSUME NEW a, NEW nat \in NativeType, NEW s \in SubType, NEW t \in AttType,
         NEW w \in WireType, NEW ls, NEW re, NEW c \in CommandType,
         NEW q \in SUBSET CommandType, NEW q2 \in SUBSET CommandType,
         Hosted(a, nat, s, t, ls, q), Credited(a, nat, s, t, w, re, q),
         c \in q, c.op = "credit", q2 \subseteq q, ~ On(q2, "credit"),
         \A op : op # "credit" => (On(q2, op) <=> On(q, op))
  PROVE  /\ Credit(s) \in SubType /\ Credit(s).live = s.live
         /\ w = << >> /\ t.phase \in {"open", "closed"} /\ (t.phase = "open" => t.awaiting)
         /\ a \in ls /\ s.live /\ s.inflight = c.seq =>
              Hosted(a, nat, Credit(s), t, ls, q2) /\ Credited(a, nat, Credit(s), t, w, re, q2)
         /\ ~ (a \in ls /\ s.live /\ s.inflight = c.seq) =>
              Hosted(a, nat, s, t, ls, q2) /\ Credited(a, nat, s, t, w, re \cup {a}, q2)
<1>1. PICK s2 : s2 = Credit(s)
  OBVIOUS
<1>2. s2 \in SubType /\ s2.live = s.live /\ s2.credit = TRUE /\ s2.inflight = 0 /\ s2.last = s.last
  BY <1>1 DEF Credit, SubType
<1>3. On(q, "credit") /\ ~ On(q2, "credit") /\ \A x \in q2 : x.op # "credit"
  BY DEF On
<1>4. w = << >> /\ ~ s.credit /\ t.phase \in {"open", "closed"} /\ (t.phase = "open" => t.awaiting)
  BY <1>3 DEF Credited
<1>5. ASSUME a \in ls, s.live, s.inflight = c.seq
      PROVE  Hosted(a, nat, s2, t, ls, q2) /\ Credited(a, nat, s2, t, w, re, q2)
  <2>1. Hosted(a, nat, s2, t, ls, q2)
    BY <1>2, <1>3, <1>4, <1>5, RecordFacts DEF Hosted, Unserved
  <2>2. Credited(a, nat, s2, t, w, re, q2)
    BY <1>2, <1>3, <1>4, <1>5, RecordFacts DEF Credited
  <2> QED
    BY <2>1, <2>2
<1>6. ASSUME ~ (a \in ls /\ s.live /\ s.inflight = c.seq)
      PROVE  Hosted(a, nat, s, t, ls, q2) /\ Credited(a, nat, s, t, w, re \cup {a}, q2)
  <2>1. t.phase = "open" => nat.exited
    BY <1>6 DEF Hosted, Credited
  <2>2. Hosted(a, nat, s, t, ls, q2)
    BY <1>3, <1>4 DEF Hosted, Unserved
  <2>3. Credited(a, nat, s, t, w, re \cup {a}, q2)
    BY <1>3, <1>4, <2>1, RecordFacts DEF Credited
  <2> QED
    BY <2>2, <2>3
<1> QED
  BY <1>1, <1>2, <1>4, <1>5, <1>6

\* The host serves the command to detach.
LEMMA ServeDetachKeeps ==
  ASSUME NEW a, NEW nat \in NativeType, NEW s \in SubType, NEW t \in AttType,
         NEW w \in WireType, NEW ls, NEW ls2, NEW re, a \notin ls2,
         NEW q \in SUBSET CommandType, NEW q2 \in SUBSET CommandType,
         Hosted(a, nat, s, t, ls, q), Credited(a, nat, s, t, w, re, q),
         On(q, "detach"), q2 \subseteq q, ~ On(q2, "detach")
  PROVE  /\ t.phase = "closed"
         /\ Hosted(a, nat, Screen!NoSub, t, ls2, q2) /\ Credited(a, nat, Screen!NoSub, t, w, re, q2)
<1>1. t.phase = "closed" /\ ~ On(q, "attach")
  BY DEF Hosted
<1>2. ~ On(q2, "attach") /\ (On(q2, "credit") => On(q, "credit"))
  BY <1>1 DEF On
<1>3. Hosted(a, nat, Screen!NoSub, t, ls2, q2)
  BY <1>1, <1>2, RecordFacts DEF Hosted, Unserved
<1>4. Credited(a, nat, Screen!NoSub, t, w, re, q2)
  BY <1>1, <1>2, RecordFacts DEF Credited
<1> QED
  BY <1>1, <1>3, <1>4

\* The webview asks to attach, or waits until it may.
LEMMA AskKeeps ==
  ASSUME NEW a, NEW nat \in NativeType, NEW s \in SubType, NEW t \in AttType, NEW t2 \in AttType,
         NEW w \in WireType, NEW ls, NEW re, NEW c \in CommandType,
         NEW q \in SUBSET CommandType, NEW q2 \in SUBSET CommandType,
         Hosted(a, nat, s, t, ls, q), Credited(a, nat, s, t, w, re, q),
         t.phase \in {"none", "waiting"}, t2.awaiting = t.awaiting,
         \/ t2.phase = "asked" /\ c.op = "attach" /\ q2 = q \cup {c}
         \/ t2.phase = "waiting" /\ q2 = q
  PROVE  Hosted(a, nat, s, t2, ls, q2) /\ Credited(a, nat, s, t2, w, re, q2)
<1>1. /\ s = Screen!NoSub /\ a \notin ls /\ ~ t.awaiting /\ w = << >> /\ a \notin re
      /\ ~ On(q, "attach") /\ ~ On(q, "detach") /\ ~ On(q, "credit")
  <2>1. /\ s = Screen!NoSub /\ a \notin ls /\ ~ t.awaiting
        /\ ~ On(q, "attach") /\ ~ On(q, "detach")
    BY DEF Hosted, Unserved
  <2>2. t.phase \notin {"open", "closed"}
    OBVIOUS
  <2>3. ~ On(q, "credit")
    BY <2>2 DEF Credited
  <2>4. w = << >>
    BY <2>2 DEF Credited
  <2>5. a \notin re
    BY <2>2 DEF Credited
  <2> QED
    BY <2>1, <2>3, <2>4, <2>5
<1>2. /\ On(q2, "attach") <=> t2.phase = "asked"
      /\ ~ On(q2, "detach") /\ ~ On(q2, "credit") /\ \A x \in q2 : x.op # "credit"
  BY <1>1 DEF On
<1>3. Hosted(a, nat, s, t2, ls, q2)
  BY <1>1, <1>2, RecordFacts DEF Hosted, Unserved
<1>4. Credited(a, nat, s, t2, w, re, q2)
  BY <1>1, <1>2, RecordFacts DEF Credited
<1> QED
  BY <1>3, <1>4

\* The webview closes an attachment that it has, or that it no longer waits for.
LEMMA CloseKeeps ==
  ASSUME NEW a, NEW nat \in NativeType, NEW s \in SubType, NEW t \in AttType, NEW t2 \in AttType,
         NEW w \in WireType, NEW ls, NEW re, NEW re2, NEW c \in CommandType,
         NEW q \in SUBSET CommandType, NEW q2 \in SUBSET CommandType,
         Hosted(a, nat, s, t, ls, q), Credited(a, nat, s, t, w, re, q), a \in re2 => a \in re,
         t.phase \in {"open", "replied"}, t2.phase = "closed", c.op = "detach", q2 = q \cup {c}
  PROVE  Hosted(a, nat, s, t2, ls, q2) /\ Credited(a, nat, s, t2, w, re2, q2)
<1>1. ~ On(q, "attach") /\ t.phase \notin Unserved
  BY DEF Hosted, Unserved
<1>2. /\ ~ On(q2, "attach") /\ On(q2, "detach") /\ (On(q2, "credit") <=> On(q, "credit"))
  BY <1>1 DEF On
<1>3. Hosted(a, nat, s, t2, ls, q2)
  BY <1>1, <1>2 DEF Hosted, Unserved
<1>4. Credited(a, nat, s, t2, w, re2, q2)
  BY <1>1, <1>2, RecordFacts DEF Credited
<1> QED
  BY <1>3, <1>4

\* The baseline of an attachment is installed; its credit is with the view.
LEMMA BaselineKeeps ==
  ASSUME NEW a, NEW nat \in NativeType, NEW s \in SubType, NEW t \in AttType, NEW t2 \in AttType,
         NEW w \in WireType, NEW ls, NEW re, NEW q \in SUBSET CommandType,
         Hosted(a, nat, s, t, ls, q), Credited(a, nat, s, t, w, re, q),
         t.phase = "replied", t2.phase = "open", t2.awaiting = t.awaiting, t2.live = t.live,
         t2.seq = t.seq, t2.rev = t.rev
  PROVE  /\ Hosted(a, nat, s, t2, ls, q) /\ Credited(a, nat, s, t2, w, re, q)
         /\ ~ t2.awaiting /\ (nat.exited \/ (t2.live /\ s.inflight = t2.seq))
<1>1. Hosted(a, nat, s, t2, ls, q)
  BY DEF Hosted, Unserved
<1>2. Credited(a, nat, s, t2, w, re, q)
  <2>a. t.phase \notin {"open", "closed"}
    OBVIOUS
  <2>b. ~ On(q, "credit")
    BY <2>a DEF Credited
  <2>c. w = << >>
    BY <2>a DEF Credited
  <2>d. a \notin re
    BY <2>a DEF Credited
  <2>e. ~ s.credit
    BY <2>a DEF Credited
  <2>1. ~ On(q, "credit") /\ w = << >> /\ a \notin re /\ ~ s.credit
    BY <2>b, <2>c, <2>d, <2>e
  <2>2. \A c \in q : c.op # "credit"
    BY <2>1 DEF On
  <2>3. s.live => /\ t.rev <= nat.rev /\ t.seq <= s.last
                  /\ nat.screen > s.last => nat.screenRev > t.rev
    BY <2>1 DEF Credited
  <2> QED
    BY <2>1, <2>2, <2>3 DEF Credited
<1>3. ~ t2.awaiting /\ (nat.exited \/ (t2.live /\ s.inflight = t2.seq))
  BY DEF Hosted
<1> QED
  BY <1>1, <1>2, <1>3

\* The view gives the credit of its attachment back.
LEMMA GrantKeeps ==
  ASSUME NEW a, NEW nat \in NativeType, NEW s \in SubType, NEW t \in AttType, NEW t2 \in AttType,
         NEW w \in WireType, NEW ls, NEW re, NEW c \in CommandType,
         NEW q \in SUBSET CommandType, NEW q2 \in SUBSET CommandType,
         Hosted(a, nat, s, t, ls, q), Credited(a, nat, s, t, w, re, q),
         t.phase = "open", ~ t.awaiting, nat.exited \/ s.inflight = t.seq,
         t2.phase = "open", t2.awaiting, t2.live = t.live, t2.seq = t.seq, t2.rev = t.rev,
         c.op = "credit", c.seq = t.seq, q2 = q \cup {c}
  PROVE  Hosted(a, nat, s, t2, ls, q2) /\ Credited(a, nat, s, t2, w, re, q2) /\ ~ On(q, "credit")
<1>1. ~ On(q, "credit") /\ w = << >> /\ ~ s.credit /\ a \notin re
  BY DEF Credited
<1>2. /\ On(q2, "attach") <=> On(q, "attach")
      /\ On(q2, "detach") <=> On(q, "detach")
      /\ \A x \in q2 : x.op = "credit" => x = c
  BY <1>1 DEF On
<1>3. Hosted(a, nat, s, t2, ls, q2)
  BY <1>2 DEF Hosted, Unserved
<1>4. Credited(a, nat, s, t2, w, re, q2)
  BY <1>1, <1>2, RecordFacts DEF Credited
<1> QED
  BY <1>1, <1>3, <1>4

\* An attachment that received a screen.
Received(t, e) == [[[t EXCEPT !.awaiting = FALSE] EXCEPT !.seq = e.seq] EXCEPT !.rev = e.rev]
\* It keeps the rest.
LEMMA ReceivedFacts ==
  ASSUME NEW t \in AttType, NEW e, e.seq \in Nat, e.rev \in Nat
  PROVE  /\ Received(t, e) \in AttType /\ Received(t, e).phase = t.phase /\ Received(t, e).live = t.live
         /\ Received(t, e).awaiting = FALSE /\ Received(t, e).seq = e.seq /\ Received(t, e).rev = e.rev
  BY DEF Received, AttType

\* An attachment that is closed does not take the screen.
Took(t, e) == IF t.phase = "open" THEN Received(t, e) ELSE t
\* A screen is received: the attachment asked for it, and it is later than the one it has.
LEMMA ReceiveKeeps ==
  ASSUME NEW a, NEW nat \in NativeType, NEW s \in SubType, NEW t \in AttType,
         NEW w \in WireType, w # << >>, NEW ls, NEW re, NEW q \in SUBSET CommandType,
         Hosted(a, nat, s, t, ls, q), Credited(a, nat, s, t, w, re, q),
         NEW e, e = w[1], NEW w2, w2 = Tail(w), NEW t2, t2 = Took(t, e)
  PROVE  /\ t2 \in AttType /\ t2.phase = t.phase
         /\ Hosted(a, nat, s, t2, ls, q) /\ Credited(a, nat, s, t2, w2, re, q)
         /\ t.phase = "open" => /\ t.awaiting /\ e.seq >= t.seq /\ e.rev > t.rev
                                /\ nat.exited \/ s.inflight = t2.seq
<1>1. Len(w) = 1 /\ t.phase \in {"open", "closed"} /\ w2 = << >> /\ ~ s.credit /\ ~ On(q, "credit")
  BY WireFacts DEF Credited
<1>2. e.seq \in Nat /\ e.rev \in Nat
  BY WireFacts
<1>a. /\ t2 \in AttType
      /\ t.phase = "open" => /\ t2.phase = "open" /\ t2.live = t.live /\ t2.awaiting = FALSE
                             /\ t2.seq = e.seq /\ t2.rev = e.rev
      /\ t.phase # "open" => t2 = t
  BY <1>2, ReceivedFacts DEF Took
<1>3. Hosted(a, nat, s, t2, ls, q)
  BY <1>1, <1>a DEF Hosted, Unserved
<1>4. \A c \in q : c.op # "credit"
  BY <1>1 DEF On
<1>5. Credited(a, nat, s, t2, w2, re, q)
  BY <1>1, <1>2, <1>4, <1>a, RecordFacts DEF Credited
<1>6. t.phase = "open" => /\ t.awaiting /\ e.seq >= t.seq /\ e.rev > t.rev
                          /\ nat.exited \/ s.inflight = t2.seq
  BY <1>a DEF Credited, Hosted
<1>7. t2.phase = t.phase
  BY <1>a
<1> QED
  BY <1>a, <1>3, <1>5, <1>6, <1>7

\* One attachment changes, and the others keep what is theirs.
LEMMA AttachmentChanges ==
  ASSUME NEW nat, NEW sb, NEW sb2, NEW ls, NEW ls2, NEW wi, NEW wi2, NEW re, NEW re2, NEW cs, NEW cs2,
         NEW at, NEW at2, ScreenOf(nat, sb, ls, wi, re, cs, at), NEW a \in Screen!Attachment,
         \A b \in Screen!Attachment : b # a =>
           /\ sb2[b] = sb[b] /\ wi2[b] = wi[b] /\ at2[b] = at[b] /\ Own(cs2, b) = Own(cs, b)
           /\ b \in ls2 <=> b \in ls
           /\ b \in re2 <=> b \in re,
         Hosted(a, nat, sb2[a], at2[a], ls2, Own(cs2, a)),
         Credited(a, nat, sb2[a], at2[a], wi2[a], re2, Own(cs2, a))
  PROVE  ScreenOf(nat, sb2, ls2, wi2, re2, cs2, at2)
<1> SUFFICES ASSUME NEW b \in Screen!Attachment, b # a
             PROVE  /\ Hosted(b, nat, sb2[b], at2[b], ls2, Own(cs2, b))
                    /\ Credited(b, nat, sb2[b], at2[b], wi2[b], re2, Own(cs2, b))
  BY DEF ScreenOf
<1>1. /\ Hosted(b, nat, sb[b], at[b], ls, Own(cs, b))
      /\ Credited(b, nat, sb[b], at[b], wi[b], re, Own(cs, b))
  BY DEF ScreenOf
<1>2. /\ Hosted(b, nat, sb2[b], at2[b], ls, Own(cs2, b))
      /\ Credited(b, nat, sb2[b], at2[b], wi2[b], re, Own(cs2, b))
  BY <1>1
<1>3. (b \in ls2 <=> b \in ls) /\ (b \in re2 <=> b \in re)
  OBVIOUS
<1>4. Hosted(b, nat, sb2[b], at2[b], ls2, Own(cs2, b))
  BY <1>2, <1>3 DEF Hosted
<1>5. Credited(b, nat, sb2[b], at2[b], wi2[b], re2, Own(cs2, b))
  BY <1>2, <1>3 DEF Credited
<1> QED
  BY <1>4, <1>5

-----------------------------------------------------------------------------
\* What the invariant says of one attachment.
LEMMA ScreenFacts ==
  ASSUME ScreenInv
  PROVE  /\ native \in NativeType /\ Shows(native) /\ calls \in Seq(CommandType) /\ Once(calls)
         /\ subscriber \in SubsType /\ events \in WiresType /\ att \in AttsType /\ view \in ViewType
         /\ \A cs, a : Own(cs, a) \in SUBSET CommandType
         /\ \A a \in Screen!Attachment :
              /\ subscriber[a] \in SubType /\ events[a] \in WireType /\ att[a] \in AttType
              /\ Hosted(a, native, subscriber[a], att[a], leases, Own(calls, a))
              /\ Credited(a, native, subscriber[a], att[a], events[a], refused, Own(calls, a))
  BY DEF ScreenInv, ScreenTypes, ScreenOf, SubsType, WiresType, AttsType, Own

\* The view does not notice what the actor does for attachments that it waits for.
LEMMA ViewedKept ==
  ASSUME NEW n, NEW nat, NEW nat2, NEW sb, NEW sb2, NEW au, NEW at, NEW vw \in ViewType,
         Viewed(n, nat, sb, au, at, vw), nat2.exited = nat.exited, au \in 0..MaxAttach,
         \A a \in Screen!Attachment :
           /\ sb2[a].live = sb[a].live
           /\ at[a].phase = "open" /\ ~ at[a].awaiting => sb2[a].inflight = sb[a].inflight
  PROVE  Viewed(n, nat2, sb2, au, at, vw)
<1>1. vw.lease \in 0..MaxAttach /\ (vw.lease # 0 => vw.lease \in Screen!Attachment)
      /\ (au # 0 => au \in Screen!Attachment)
  BY TerminalsAssumption DEF ViewType, Screen!Attachment
<1>2. vw.credit /\ vw.lease # 0 /\ ~ vw.ended =>
        /\ ~ at[vw.lease].awaiting
        /\ nat2.exited \/ sb2[vw.lease].inflight = at[vw.lease].seq
  <2>1. vw.lease # 0 /\ ~ vw.ended => at[vw.lease].phase = "open"
    BY DEF Viewed
  <2> QED
    BY <1>1, <2>1 DEF Viewed
<1>3. /\ au # 0 => sb2[au].live
      /\ \A a \in Screen!Attachment : a = n /\ sb2[a].live => au = a
  BY <1>1 DEF Viewed
<1> QED
  BY <1>2, <1>3 DEF Viewed

\* The actor sends its screen to every attachment with credit for it.
LEMMA PublishedKeeps ==
  ASSUME NEW nat \in NativeType, Shows(nat), NEW sb \in SubsType, events \in WiresType,
         att \in AttsType, NEW cs,
         ScreenOf(nat, sb, leases, events, refused, cs, att), Screen!Published(nat, sb)
  PROVE  /\ subscriber' \in SubsType /\ events' \in WiresType
         /\ ScreenOf(nat, subscriber', leases, events', refused, cs, att)
         /\ \A a \in Screen!Attachment :
              /\ subscriber'[a].live = sb[a].live
              /\ att[a].phase = "open" /\ ~ att[a].awaiting => subscriber'[a].inflight = sb[a].inflight
<1> DEFINE Due(a) == sb[a].live /\ sb[a].credit /\ sb[a].last < nat.screen
<1>1. /\ subscriber' = [a \in Screen!Attachment |-> IF Due(a) THEN Shown(nat, sb[a]) ELSE sb[a]]
      /\ events' = [a \in Screen!Attachment |->
                      IF Due(a) THEN Append(events[a], Screened(nat)) ELSE events[a]]
  BY DEF Screen!Published, Shown, Screened
<1>2. \A a \in Screen!Attachment :
        /\ subscriber'[a] = IF Due(a) THEN Shown(nat, sb[a]) ELSE sb[a]
        /\ events'[a] = IF Due(a) THEN Append(events[a], Screened(nat)) ELSE events[a]
  BY <1>1
<1>3. ASSUME NEW a \in Screen!Attachment
      PROVE  /\ subscriber'[a] \in SubType /\ events'[a] \in WireType
             /\ Hosted(a, nat, subscriber'[a], att[a], leases, Own(cs, a))
             /\ Credited(a, nat, subscriber'[a], att[a], events'[a], refused, Own(cs, a))
             /\ subscriber'[a].live = sb[a].live
             /\ att[a].phase = "open" /\ ~ att[a].awaiting => subscriber'[a].inflight = sb[a].inflight
  <2>1. /\ sb[a] \in SubType /\ events[a] \in WireType /\ att[a] \in AttType
        /\ Own(cs, a) \in SUBSET CommandType
        /\ Hosted(a, nat, sb[a], att[a], leases, Own(cs, a))
        /\ Credited(a, nat, sb[a], att[a], events[a], refused, Own(cs, a))
    BY DEF SubsType, WiresType, AttsType, Own, ScreenOf
  <2>2. CASE ~ Due(a)
    BY <1>2, <2>1, <2>2
  <2>3. CASE Due(a)
    <3>1. sb[a].live /\ sb[a].credit /\ sb[a].last < nat.screen
      BY <2>3
    <3>2. subscriber'[a] = Shown(nat, sb[a]) /\ events'[a] = Append(events[a], Screened(nat))
      BY <1>2, <2>3
    <3>3. Shown(nat, sb[a]).live = sb[a].live
      BY <2>1 DEF Shown, SubType
    <3>4. /\ Shown(nat, sb[a]) \in SubType /\ Append(events[a], Screened(nat)) \in WireType
          /\ Hosted(a, nat, Shown(nat, sb[a]), att[a], leases, Own(cs, a))
          /\ Credited(a, nat, Shown(nat, sb[a]), att[a], Append(events[a], Screened(nat)), refused,
                      Own(cs, a))
          /\ (att[a].phase = "open" => att[a].awaiting)
      BY <2>1, <3>1, PublishKeeps
    <3> QED
      BY <3>2, <3>3, <3>4
  <2> QED
    BY <2>2, <2>3
<1>4. subscriber' \in SubsType /\ events' \in WiresType
  BY <1>1, <1>3 DEF SubsType, WiresType
<1> QED
  BY <1>3, <1>4 DEF ScreenOf

\* The actor advances, by output or by a revision that leaves its screen.
LEMMA OutputKeeps ==
  ASSUME ScreenInv, Screen!Output \/ Screen!Revise
  PROVE  ScreenInv'
<1>1. UNCHANGED << authority, leases, calls, refused, att, view, screen, exitSeen >>
  BY DEF Screen!Output, Screen!Revise, Screen!webVars
<1>2. native \in NativeType /\ Shows(native)
  BY ScreenFacts
<1>3. /\ native.seq \in Nat /\ native.rev \in Nat /\ native.screen \in Nat /\ native.screenRev \in Nat
      /\ native.screen \in 0..MaxOutput /\ native.seq \in 0..MaxOutput + 1
  BY <1>2, RecordFacts DEF NativeType
<1>4. /\ native' \in NativeType /\ Shows(native') /\ native'.exited = native.exited
      /\ native'.seq >= native.seq /\ native'.rev >= native.rev
      /\ \/ native'.screen = native.screen /\ native'.screenRev = native.screenRev
         \/ native'.screenRev > native.rev
  <2>1. CASE Screen!Output
    <3>1. /\ ~ native.exited /\ native.seq < MaxOutput
          /\ native' = [[[[native EXCEPT !.seq = native.seq + 1] EXCEPT !.rev = native.rev + 1]
                          EXCEPT !.screen = native.seq + 1] EXCEPT !.screenRev = native.rev + 1]
      BY <2>1 DEF Screen!Output
    <3>2. native.seq + 1 \in 0..MaxOutput + 1 /\ native.seq + 1 \in 0..MaxOutput /\ native.rev + 1 \in Nat
          /\ native.seq + 1 <= MaxOutput
      BY <1>3, <3>1, TerminalsAssumption
    <3>3. /\ native' \in NativeType /\ native'.exited = native.exited
          /\ native'.seq = native.seq + 1 /\ native'.rev = native.rev + 1
          /\ native'.screen = native.seq + 1 /\ native'.screenRev = native.rev + 1
      BY <1>2, <3>1, <3>2 DEF NativeType
    <3> QED
      BY <1>3, <3>2, <3>3 DEF Shows
  <2>2. CASE Screen!Revise
    <3>1. native' = [native EXCEPT !.rev = native.rev + 1]
      BY <2>2 DEF Screen!Revise
    <3>2. /\ native' \in NativeType /\ native'.exited = native.exited
          /\ native'.seq = native.seq /\ native'.rev = native.rev + 1
          /\ native'.screen = native.screen /\ native'.screenRev = native.screenRev
      BY <1>2, <1>3, <3>1 DEF NativeType
    <3> QED
      BY <1>2, <1>3, <3>2 DEF Shows
  <2> QED
    BY <2>1, <2>2
<1>5. ScreenOf(native', subscriber, leases, events, refused, calls, att)
  <2> SUFFICES ASSUME NEW a \in Screen!Attachment
               PROVE  /\ Hosted(a, native', subscriber[a], att[a], leases, Own(calls, a))
                      /\ Credited(a, native', subscriber[a], att[a], events[a], refused, Own(calls, a))
    BY DEF ScreenOf
  <2> QED
    BY <1>2, <1>4, ScreenFacts, AdvanceKeeps
<1>6. /\ subscriber' \in SubsType /\ events' \in WiresType
      /\ ScreenOf(native', subscriber', leases, events', refused, calls, att)
      /\ \A a \in Screen!Attachment :
           /\ subscriber'[a].live = subscriber[a].live
           /\ att[a].phase = "open" /\ ~ att[a].awaiting =>
                subscriber'[a].inflight = subscriber[a].inflight
  <2>1. CASE Screen!Output
    <3>1. Screen!Published(native', subscriber)
      BY <2>1 DEF Screen!Output
    <3> QED
      BY <1>4, <1>5, <3>1, ScreenFacts, PublishedKeeps
  <2>2. CASE Screen!Revise
    <3>1. UNCHANGED << subscriber, events >>
      BY <2>2 DEF Screen!Revise
    <3> QED
      BY <1>5, <3>1, ScreenFacts
  <2> QED
    BY <2>1, <2>2
<1>7. PICK n \in 0..MaxAttach : Viewed(n, native, subscriber, authority, att, view)
  BY DEF ScreenInv
<1>8. Viewed(n, native', subscriber', authority, att, view)
  BY <1>4, <1>6, <1>7, ViewedKept DEF ScreenInv, ScreenTypes
<1>9. ScreenTypes'
  BY <1>1, <1>4, <1>6 DEF ScreenInv, ScreenTypes
<1> QED
  BY <1>1, <1>4, <1>6, <1>8, <1>9 DEF ScreenInv

\* The terminal exits, and the webview sees it.
LEMMA EndKeeps ==
  ASSUME ScreenInv, Screen!Exit \/ Screen!SeeExit
  PROVE  ScreenInv'
<1>1. PICK n \in 0..MaxAttach : Viewed(n, native, subscriber, authority, att, view)
  BY DEF ScreenInv
<1>2. CASE Screen!Exit
  <2>1. /\ ~ native.exited
        /\ native' = [[[native EXCEPT !.exited = TRUE] EXCEPT !.seq = native.seq + 1]
                        EXCEPT !.rev = native.rev + 1]
        /\ subscriber' = [a \in Screen!Attachment |-> Screen!NoSub] /\ authority' = 0
        /\ UNCHANGED << leases, events, calls, refused, att, view, screen, exitSeen >>
    BY <1>2 DEF Screen!Exit, Screen!webVars
  <2>2. native \in NativeType /\ Shows(native)
    BY ScreenFacts
  <2>3. /\ native.seq \in Nat /\ native.rev \in Nat /\ native.screen \in Nat /\ native.screenRev \in Nat
        /\ native.seq <= MaxOutput
    BY <2>1, <2>2, RecordFacts DEF Shows
  <2>4. native.seq + 1 \in 0..MaxOutput + 1 /\ native.rev + 1 \in Nat
    BY <2>3, TerminalsAssumption
  <2>5. /\ native' \in NativeType /\ native'.exited /\ native'.seq = native.seq + 1
        /\ native'.rev = native.rev + 1 /\ native'.screen = native.screen
        /\ native'.screenRev = native.screenRev
    BY <2>1, <2>2, <2>4 DEF NativeType
  <2>6. Shows(native')
    BY <2>2, <2>3, <2>5 DEF Shows
  <2>7. subscriber' \in SubsType /\ \A a \in Screen!Attachment : subscriber'[a] = Screen!NoSub
    BY <2>1, RecordFacts DEF SubsType
  <2>8. ScreenOf(native', subscriber', leases, events, refused, calls, att)
    BY <2>2, <2>5, <2>7, ScreenFacts, ExitKeeps DEF ScreenOf
  <2>9. Viewed(n, native', subscriber', authority', att, view)
    BY <1>1, <2>1, <2>5, <2>7, RecordFacts DEF Viewed
  <2>10. ScreenTypes'
    BY <2>1, <2>5, <2>7, TerminalsAssumption DEF ScreenInv, ScreenTypes
  <2> QED
    BY <2>1, <2>5, <2>6, <2>8, <2>9, <2>10 DEF ScreenInv
<1>3. CASE Screen!SeeExit
  <2>1. /\ native.exited /\ exitSeen' = TRUE
        /\ UNCHANGED << native, subscriber, authority, leases, events, calls, refused, att, view, screen >>
    BY <1>3 DEF Screen!SeeExit, Screen!hostVars, Screen!webVars
  <2>2. ScreenTypes'
    BY <2>1 DEF ScreenInv, ScreenTypes
  <2> QED
    BY <1>1, <2>1, <2>2 DEF ScreenInv
<1> QED
  BY <1>2, <1>3

-----------------------------------------------------------------------------
\* A command is served: it is the first, and of its attachment the only one of its kind.
LEMMA ServedFacts ==
  ASSUME ScreenInv, NEW op, NEW a \in Screen!Attachment, Screen!Served(op, a)
  PROVE  /\ calls # << >> /\ calls' = Tail(calls) /\ Head(calls) \in Own(calls, a)
         /\ Head(calls).op = op /\ On(Own(calls, a), op)
         /\ calls' \in Seq(CommandType) /\ Once(calls') /\ (InTurn(calls) => InTurn(calls'))
         /\ \A b \in Screen!Attachment : b # a => Own(calls', b) = Own(calls, b)
         /\ Own(calls', a) \subseteq Own(calls, a) /\ ~ On(Own(calls', a), op)
         /\ \A x : x # op => (On(Own(calls', a), x) <=> On(Own(calls, a), x))
         /\ InTurn(calls) /\ op = "attach" =>
              \A b \in Screen!Attachment : On(Own(calls, b), "attach") => a <= b
<1>1. PICK c : c = Head(calls)
  OBVIOUS
<1>2. calls # << >> /\ c.op = op /\ c.a = a /\ calls' = Tail(calls)
  BY <1>1 DEF Screen!Served
<1>3. calls \in Seq(CommandType) /\ Once(calls)
  BY ScreenFacts
<1>4. /\ c \in Own(calls, a) /\ calls' \in Seq(CommandType)
      /\ Once(calls') /\ (InTurn(calls) => InTurn(calls'))
      /\ \A b : b # a => Own(calls', b) = Own(calls, b)
      /\ Own(calls', a) \subseteq Own(calls, a)
      /\ ~ On(Own(calls', a), op)
      /\ \A x : x # op => (On(Own(calls', a), x) <=> On(Own(calls, a), x))
      /\ InTurn(calls) /\ op = "attach" =>
           \A b \in Screen!Attachment : On(Own(calls, b), "attach") => a <= b
  BY <1>1, <1>2, <1>3, TailOwn
<1>5. On(Own(calls, a), op)
  BY <1>2, <1>4 DEF On
<1> QED
  BY <1>1, <1>2, <1>4, <1>5

\* The host attaches.
LEMMA ServeAttachStep ==
  ASSUME ScreenInv, NEW a \in Screen!Attachment, Screen!ServeAttach(a)
  PROVE  ScreenInv'
<1>1. /\ Screen!Served("attach", a)
      /\ att' = [att EXCEPT ![a] = [att[a] EXCEPT !.phase = "replied", !.live = ~ native.exited,
                   !.seq = native.seq, !.rev = native.rev, !.screen = native.screen]]
      /\ native.exited => UNCHANGED << subscriber, authority, leases >>
      /\ ~ native.exited =>
           /\ subscriber' = [subscriber EXCEPT ![a] =
                [live |-> TRUE, inflight |-> native.seq, credit |-> FALSE, last |-> native.seq]]
           /\ authority' = a /\ leases' = leases \cup {a}
      /\ UNCHANGED << native, events, refused, view, screen, exitSeen >>
  BY DEF Screen!ServeAttach
<1>2. /\ native \in NativeType /\ Shows(native) /\ subscriber \in SubsType /\ att \in AttsType
      /\ native.seq \in Nat /\ native.rev \in Nat /\ native.screen \in Nat /\ native.exited \in BOOLEAN
  BY ScreenFacts, RecordFacts
<1>3. PICK t : t = [att[a] EXCEPT !.phase = "replied", !.live = ~ native.exited,
                      !.seq = native.seq, !.rev = native.rev, !.screen = native.screen]
  OBVIOUS
<1>4. PICK s : s = [live |-> TRUE, inflight |-> native.seq, credit |-> FALSE, last |-> native.seq]
  OBVIOUS
<1>5. att[a] \in AttType /\ subscriber[a] \in SubType
  BY ScreenFacts
<1>6. /\ t \in AttType /\ t.phase = "replied" /\ t.awaiting = att[a].awaiting /\ t.seq = native.seq
      /\ t.rev = native.rev /\ (t.live <=> ~ native.exited)
  <2>1. t.phase = "replied" /\ t.awaiting = att[a].awaiting /\ t.seq = native.seq
        /\ t.rev = native.rev /\ t.prev = att[a].prev /\ t.screen = native.screen
    BY <1>3, <1>5 DEF AttType
  <2>2. t.live = ~ native.exited
    BY <1>3, <1>5 DEF AttType
  <2>3. t \in AttType
    BY <1>2, <1>3, <1>5 DEF AttType
  <2> QED
    BY <2>1, <2>2, <2>3
<1>7. /\ s \in SubType /\ s.live /\ s.inflight = native.seq /\ s.credit = FALSE /\ s.last = native.seq
  BY <1>2, <1>4 DEF SubType
<1>8. /\ att' \in AttsType /\ att'[a] = t
      /\ \A b \in Screen!Attachment : b # a => att'[b] = att[b]
  <2>1. att' = [att EXCEPT ![a] = t]
    BY <1>1, <1>3
  <2> QED
    BY <1>2, <1>6, <2>1 DEF AttsType
<1>9. /\ subscriber' \in SubsType /\ \A b \in Screen!Attachment : b # a => subscriber'[b] = subscriber[b]
      /\ native.exited => subscriber'[a] = subscriber[a] /\ leases' = leases
      /\ ~ native.exited => subscriber'[a] = s /\ leases' = leases \cup {a}
  BY <1>1, <1>2, <1>4, <1>7 DEF SubsType
<1>10. /\ calls' \in Seq(CommandType) /\ Once(calls') /\ (InTurn(calls) => InTurn(calls'))
       /\ \A b \in Screen!Attachment : b # a => Own(calls', b) = Own(calls, b)
       /\ Own(calls', a) \subseteq Own(calls, a) /\ ~ On(Own(calls', a), "attach")
       /\ On(Own(calls, a), "attach")
       /\ InTurn(calls) => \A b \in Screen!Attachment : On(Own(calls, b), "attach") => a <= b
  BY <1>1, ServedFacts
<1>11. \A b \in Screen!Attachment : (att[b].phase = "asked" <=> On(Own(calls, b), "attach"))
  BY ScreenFacts DEF Hosted
<1>12. /\ Hosted(a, native, subscriber'[a], att'[a], leases', Own(calls', a))
       /\ Credited(a, native, subscriber'[a], att'[a], events[a], refused, Own(calls', a))
  <2>1. PICK s2 : s2 = subscriber'[a]
    OBVIOUS
  <2>2. s2 \in SubType
    BY <1>9, <2>1 DEF SubsType
  <2>3. /\ native.exited => s2 = subscriber[a] /\ leases' = leases
        /\ ~ native.exited => /\ s2.live /\ s2.inflight = native.seq /\ s2.credit = FALSE
                              /\ s2.last = native.seq /\ a \in leases'
    BY <1>7, <1>9, <2>1
  <2>4. /\ events[a] \in WireType
        /\ Own(calls, a) \in SUBSET CommandType /\ Own(calls', a) \in SUBSET CommandType
        /\ Hosted(a, native, subscriber[a], att[a], leases, Own(calls, a))
        /\ Credited(a, native, subscriber[a], att[a], events[a], refused, Own(calls, a))
    BY ScreenFacts
  <2>5. /\ Hosted(a, native, s2, t, leases', Own(calls', a))
        /\ Credited(a, native, s2, t, events[a], refused, Own(calls', a))
    BY <1>2, <1>5, <1>6, <1>10, <2>2, <2>3, <2>4, ServeAttachKeeps
  <2> QED
    BY <1>8, <2>1, <2>5
<1>13. ScreenOf(native', subscriber', leases', events', refused', calls', att')
  <2>1. \A b \in Screen!Attachment : b # a => (b \in leases' <=> b \in leases)
    BY <1>9
  <2>2. ScreenOf(native, subscriber, leases, events, refused, calls, att)
    BY DEF ScreenInv
  <2>3. ScreenOf(native, subscriber', leases', events, refused, calls', att')
    BY <1>8, <1>9, <1>10, <1>12, <2>1, <2>2, AttachmentChanges
  <2> QED
    BY <1>1, <2>3
<1>14. PICK n \in 0..MaxAttach : Viewed(n, native, subscriber, authority, att, view)
  BY DEF ScreenInv
<1>15. n \in Int /\ a \in Int /\ \A b \in Screen!Attachment : b \in Int
  BY TerminalsAssumption DEF Screen!Attachment
<1>16. att[a].phase = "asked" /\ ~ subscriber[a].live
  BY <1>10, <1>11, ScreenFacts, RecordFacts DEF Hosted, Unserved
<1>17. view.lease # a /\ a <= n
  <2>1. a # 0
    BY TerminalsAssumption DEF Screen!Attachment
  <2>2. a <= n
    BY <1>14, <1>16 DEF Viewed
  <2>3. view.lease # 0 => view.lease = n /\ att[n].phase \in {"open", "closed"}
    BY <1>14 DEF Viewed
  <2> QED
    BY <1>16, <2>1, <2>2, <2>3
<1>18. view.lease # 0 => view.lease \in Screen!Attachment
  BY ScreenFacts, TerminalsAssumption DEF ViewType, Screen!Attachment
<1>19. Viewed(n, native, subscriber', authority', att', view)
  <2>1. \A b \in Screen!Attachment : att'[b].phase # "none" <=> b <= n
    BY <1>6, <1>8, <1>14, <1>17 DEF Viewed
  <2>2. view.opening # 0 => /\ view.opening = n /\ view.lease = 0 /\ ~ view.gone
                            /\ att'[n].phase \in Unserved \cup {"replied"}
    <3>1. view.opening # 0 => n \in Screen!Attachment
      BY <1>14, TerminalsAssumption DEF Viewed, Screen!Attachment
    <3> QED
      BY <1>6, <1>8, <1>14, <3>1 DEF Viewed
  <2>3. view.lease # 0 =>
          /\ view.lease = n /\ ~ view.gone
          /\ att'[n].phase \in {"open", "closed"} /\ (att'[n].phase = "closed" => view.ended)
    BY <1>8, <1>14, <1>17, <1>18 DEF Viewed
  <2>4. \A b \in Screen!Attachment : att'[b].phase = "open" => view.lease = b
    BY <1>6, <1>8, <1>14 DEF Viewed
  <2>5. native.exited \/ \A b \in Screen!Attachment : att'[b].phase # "waiting"
    BY <1>6, <1>8, <1>14 DEF Viewed
  <2>6. ASSUME ~ native.exited, NEW b \in Screen!Attachment, NEW c \in Screen!Attachment,
               b < c, c <= n, att'[b].phase = "asked"
        PROVE  att'[c].phase = "asked"
    <3>1. b # a /\ att[b].phase = "asked"
      BY <1>6, <1>8, <2>6
    <3>2. att[c].phase = "asked"
      BY <1>14, <2>6, <3>1 DEF Viewed
    <3>3. a <= b
      BY <1>10, <1>11, <2>6, <3>1 DEF ScreenInv
    <3>4. c # a
      BY <1>15, <2>6, <3>3
    <3> QED
      BY <1>8, <3>2, <3>4
  <2>7. view.credit /\ view.lease # 0 /\ ~ view.ended =>
          /\ ~ att'[view.lease].awaiting
          /\ native.exited \/ subscriber'[view.lease].inflight = att'[view.lease].seq
    BY <1>8, <1>9, <1>14, <1>17, <1>18 DEF Viewed
  <2>8. authority' # 0 => subscriber'[authority'].live
    <3>1. CASE native.exited
      BY <1>1, <1>14, <3>1 DEF Viewed
    <3>2. CASE ~ native.exited
      BY <1>1, <1>7, <1>9, <3>2
    <3> QED
      BY <3>1, <3>2
  <2>9. ASSUME NEW b \in Screen!Attachment, b = n, subscriber'[b].live PROVE authority' = b
    <3>1. CASE native.exited
      BY <1>1, <1>14, <2>9, <3>1 DEF Viewed
    <3>2. CASE ~ native.exited
      <4>1. CASE b = a
        BY <1>1, <3>2, <4>1
      <4>2. CASE b # a
        <5>1. att[b].phase = "asked"
          BY <1>14, <1>15, <1>16, <1>17, <2>9, <3>2, <4>2 DEF Viewed
        <5>2. ~ subscriber[b].live
          BY <5>1, ScreenFacts, RecordFacts DEF Hosted, Unserved
        <5> QED
          BY <1>9, <2>9, <4>2, <5>2
      <4> QED
        BY <4>1, <4>2
    <3> QED
      BY <3>1, <3>2
  <2> QED
    BY <1>14, <2>1, <2>2, <2>3, <2>4, <2>5, <2>6, <2>7, <2>8, <2>9 DEF Viewed
<1>20. ScreenTypes'
  <2>1. authority' \in 0..MaxAttach /\ leases' \subseteq Screen!Attachment
    BY <1>1, TerminalsAssumption DEF ScreenInv, ScreenTypes, Screen!Attachment
  <2> QED
    BY <1>1, <1>8, <1>9, <1>10, <2>1 DEF ScreenInv, ScreenTypes
<1> QED
  BY <1>1, <1>2, <1>10, <1>13, <1>19, <1>20 DEF ScreenInv

\* The host takes a credit, or refuses it.
LEMMA ServeCreditStep ==
  ASSUME ScreenInv, NEW a \in Screen!Attachment, Screen!ServeCredit(a)
  PROVE  ScreenInv'
<1> DEFINE taken == a \in leases /\ subscriber[a].live /\ subscriber[a].inflight = Head(calls).seq
           sb == [subscriber EXCEPT ![a] = Credit(subscriber[a])]
<1>1. PICK c : c = Head(calls)
  OBVIOUS
<1>2. /\ Screen!Served("credit", a)
      /\ taken => Screen!Published(native, sb) /\ UNCHANGED refused
      /\ ~ taken => refused' = refused \cup {a} /\ UNCHANGED << subscriber, events >>
      /\ UNCHANGED << native, authority, leases, att, view, screen, exitSeen >>
  <2>1. [subscriber EXCEPT ![a].inflight = 0, ![a].credit = TRUE] = sb
    BY ScreenFacts DEF Credit, SubsType
  <2> QED
    BY <2>1 DEF Screen!ServeCredit, Screen!webVars
<1>3. /\ c \in Own(calls, a) /\ c.op = "credit" /\ c \in CommandType
      /\ calls' \in Seq(CommandType) /\ Once(calls') /\ (InTurn(calls) => InTurn(calls'))
      /\ \A b \in Screen!Attachment : b # a => Own(calls', b) = Own(calls, b)
      /\ Own(calls', a) \subseteq Own(calls, a) /\ ~ On(Own(calls', a), "credit")
      /\ \A x : x # "credit" => (On(Own(calls', a), x) <=> On(Own(calls, a), x))
  BY <1>1, <1>2, ServedFacts DEF Own
<1>4. /\ native \in NativeType /\ Shows(native) /\ subscriber \in SubsType /\ att \in AttsType
      /\ events \in WiresType
  BY ScreenFacts
<1>5. /\ Credit(subscriber[a]) \in SubType /\ Credit(subscriber[a]).live = subscriber[a].live
      /\ att[a].phase = "open" => att[a].awaiting
      /\ taken => /\ Hosted(a, native, Credit(subscriber[a]), att[a], leases, Own(calls', a))
                  /\ Credited(a, native, Credit(subscriber[a]), att[a], events[a], refused, Own(calls', a))
      /\ ~ taken => /\ Hosted(a, native, subscriber[a], att[a], leases, Own(calls', a))
                    /\ Credited(a, native, subscriber[a], att[a], events[a], refused \cup {a},
                                Own(calls', a))
  <2>1. /\ subscriber[a] \in SubType /\ events[a] \in WireType /\ att[a] \in AttType
        /\ Own(calls, a) \in SUBSET CommandType /\ Own(calls', a) \in SUBSET CommandType
        /\ Hosted(a, native, subscriber[a], att[a], leases, Own(calls, a))
        /\ Credited(a, native, subscriber[a], att[a], events[a], refused, Own(calls, a))
    BY ScreenFacts
  <2>2. taken <=> a \in leases /\ subscriber[a].live /\ subscriber[a].inflight = c.seq
    BY <1>1
  <2>3. \A op : op # "credit" => (On(Own(calls', a), op) <=> On(Own(calls, a), op))
    BY <1>3
  <2> HIDE DEF taken
  <2>4. PICK s : s = subscriber[a]
    OBVIOUS
  <2>5. PICK t : t = att[a]
    OBVIOUS
  <2>6. PICK w : w = events[a]
    OBVIOUS
  <2>7. PICK q \in SUBSET CommandType : q = Own(calls, a)
    BY <2>1
  <2>8. PICK q2 \in SUBSET CommandType : q2 = Own(calls', a)
    BY <2>1
  <2>9. /\ Hosted(a, native, s, t, leases, q) /\ Credited(a, native, s, t, w, refused, q)
        /\ s \in SubType /\ t \in AttType /\ w \in WireType /\ c \in q /\ q2 \subseteq q
        /\ ~ On(q2, "credit") /\ \A op : op # "credit" => (On(q2, op) <=> On(q, op))
    BY <1>3, <2>1, <2>3, <2>4, <2>5, <2>6, <2>7, <2>8
  <2>10. /\ Credit(s) \in SubType /\ Credit(s).live = s.live
         /\ w = << >> /\ t.phase \in {"open", "closed"} /\ (t.phase = "open" => t.awaiting)
         /\ a \in leases /\ s.live /\ s.inflight = c.seq =>
              Hosted(a, native, Credit(s), t, leases, q2) /\ Credited(a, native, Credit(s), t, w, refused, q2)
         /\ ~ (a \in leases /\ s.live /\ s.inflight = c.seq) =>
              Hosted(a, native, s, t, leases, q2) /\ Credited(a, native, s, t, w, refused \cup {a}, q2)
    BY <1>3, <1>4, <2>9, ServeCreditKeeps, ZenonT(60)
  <2> QED
    BY <2>2, <2>4, <2>5, <2>6, <2>8, <2>10
<1>6. /\ sb \in SubsType /\ sb[a] = Credit(subscriber[a])
      /\ \A b \in Screen!Attachment : b # a => sb[b] = subscriber[b]
  BY <1>4, <1>5 DEF SubsType
<1>7. ScreenOf(native, subscriber, leases, events, refused, calls, att)
  BY DEF ScreenInv
<1>8. /\ subscriber' \in SubsType /\ events' \in WiresType
      /\ ScreenOf(native, subscriber', leases, events', refused', calls', att)
      /\ \A b \in Screen!Attachment :
           /\ subscriber'[b].live = subscriber[b].live
           /\ att[b].phase = "open" /\ ~ att[b].awaiting =>
                subscriber'[b].inflight = subscriber[b].inflight
  <2>1. CASE taken
    <3> HIDE DEF taken, sb
    <3>1. ScreenOf(native, sb, leases, events, refused, calls', att)
      BY <1>3, <1>5, <1>6, <1>7, <2>1, AttachmentChanges
    <3>2. /\ subscriber' \in SubsType /\ events' \in WiresType
          /\ ScreenOf(native, subscriber', leases, events', refused, calls', att)
          /\ \A b \in Screen!Attachment :
               /\ subscriber'[b].live = sb[b].live
               /\ att[b].phase = "open" /\ ~ att[b].awaiting => subscriber'[b].inflight = sb[b].inflight
      BY <1>2, <1>4, <1>6, <2>1, <3>1, PublishedKeeps
    <3> QED
      BY <1>2, <1>5, <1>6, <2>1, <3>2
  <2>2. CASE ~ taken
    <3> HIDE DEF taken, sb
    <3>1. UNCHANGED << subscriber, events >> /\ refused' = refused \cup {a}
      BY <1>2, <2>2
    <3>2. ScreenOf(native, subscriber, leases, events, refused \cup {a}, calls', att)
      BY <1>3, <1>5, <1>7, <2>2, AttachmentChanges
    <3> QED
      BY <1>4, <3>1, <3>2
  <2> QED
    BY <2>1, <2>2
<1> HIDE DEF taken, sb
<1>9. PICK n \in 0..MaxAttach : Viewed(n, native, subscriber, authority, att, view)
  BY DEF ScreenInv
<1>10. Viewed(n, native, subscriber', authority, att, view)
  BY <1>8, <1>9, ViewedKept DEF ScreenInv, ScreenTypes
<1>11. ScreenTypes'
  <2>1. refused' \subseteq Screen!Attachment
    BY <1>2 DEF ScreenInv, ScreenTypes
  <2> QED
    BY <1>2, <1>3, <1>8, <2>1 DEF ScreenInv, ScreenTypes
<1> QED
  BY <1>2, <1>3, <1>4, <1>8, <1>10, <1>11 DEF ScreenInv

\* The host detaches.
LEMMA ServeDetachStep ==
  ASSUME ScreenInv, NEW a \in Screen!Attachment, Screen!ServeDetach(a)
  PROVE  ScreenInv'
<1>1. /\ Screen!Served("detach", a)
      /\ subscriber' = [subscriber EXCEPT ![a] = Screen!NoSub] /\ leases' = leases \ {a}
      /\ authority' = IF authority = a THEN 0 ELSE authority
      /\ UNCHANGED << native, events, refused, att, view, screen, exitSeen >>
  BY DEF Screen!ServeDetach, Screen!webVars
<1>2. /\ native \in NativeType /\ Shows(native) /\ subscriber \in SubsType /\ att \in AttsType
  BY ScreenFacts
<1>3. /\ On(Own(calls, a), "detach")
      /\ calls' \in Seq(CommandType) /\ Once(calls') /\ (InTurn(calls) => InTurn(calls'))
      /\ \A b \in Screen!Attachment : b # a => Own(calls', b) = Own(calls, b)
      /\ Own(calls', a) \subseteq Own(calls, a) /\ ~ On(Own(calls', a), "detach")
  BY <1>1, ServedFacts
<1>4. /\ subscriber' \in SubsType /\ subscriber'[a] = Screen!NoSub
      /\ \A b \in Screen!Attachment : b # a => subscriber'[b] = subscriber[b]
  BY <1>1, <1>2, RecordFacts DEF SubsType
<1>5. /\ att[a].phase = "closed"
      /\ Hosted(a, native, subscriber'[a], att[a], leases', Own(calls', a))
      /\ Credited(a, native, subscriber'[a], att[a], events[a], refused, Own(calls', a))
  <2>1. /\ subscriber[a] \in SubType /\ events[a] \in WireType /\ att[a] \in AttType
        /\ Own(calls, a) \in SUBSET CommandType /\ Own(calls', a) \in SUBSET CommandType
        /\ Hosted(a, native, subscriber[a], att[a], leases, Own(calls, a))
        /\ Credited(a, native, subscriber[a], att[a], events[a], refused, Own(calls, a))
    BY ScreenFacts
  <2>2. a \notin leases'
    BY <1>1
  <2> QED
    BY <1>2, <1>3, <1>4, <2>1, <2>2, ServeDetachKeeps
<1>6. ScreenOf(native, subscriber', leases', events, refused, calls', att)
  <2>1. \A b \in Screen!Attachment : b # a => (b \in leases' <=> b \in leases)
    BY <1>1
  <2>2. ScreenOf(native, subscriber, leases, events, refused, calls, att)
    BY DEF ScreenInv
  <2> QED
    BY <1>3, <1>4, <1>5, <2>1, <2>2, AttachmentChanges
<1>7. PICK n \in 0..MaxAttach : Viewed(n, native, subscriber, authority, att, view)
  BY DEF ScreenInv
<1>8. Viewed(n, native, subscriber', authority', att, view)
  <2>1. authority \in 0..MaxAttach /\ view \in ViewType /\ a # 0
    BY TerminalsAssumption DEF ScreenInv, ScreenTypes, Screen!Attachment
  <2>2. /\ authority # 0 => authority \in Screen!Attachment
        /\ view.lease # 0 => view.lease \in Screen!Attachment
    BY <2>1, TerminalsAssumption DEF Screen!Attachment, ViewType
  <2>3. authority' # 0 => subscriber'[authority'].live
    BY <1>1, <1>4, <1>7, <2>2 DEF Viewed
  <2>4. \A b \in Screen!Attachment : b = n /\ subscriber'[b].live => authority' = b
    BY <1>1, <1>4, <1>7, RecordFacts DEF Viewed
  <2>5. view.credit /\ view.lease # 0 /\ ~ view.ended =>
          /\ ~ att[view.lease].awaiting
          /\ native.exited \/ subscriber'[view.lease].inflight = att[view.lease].seq
    <3>1. view.lease # 0 /\ ~ view.ended => view.lease # a
      BY <1>5, <1>7 DEF Viewed
    <3> QED
      BY <1>4, <1>7, <2>2, <3>1 DEF Viewed
  <2> QED
    BY <1>7, <2>3, <2>4, <2>5 DEF Viewed
<1>9. ScreenTypes'
  <2>1. authority' \in 0..MaxAttach /\ leases' \subseteq Screen!Attachment
    BY <1>1, TerminalsAssumption DEF ScreenInv, ScreenTypes
  <2> QED
    BY <1>1, <1>3, <1>4, <2>1 DEF ScreenInv, ScreenTypes
<1> QED
  BY <1>1, <1>2, <1>3, <1>6, <1>8, <1>9 DEF ScreenInv

-----------------------------------------------------------------------------
\* The commands on their way, as the actor's state orders them.
Calm(nat, cs) == cs \in Seq(CommandType) /\ Once(cs) /\ (nat.exited \/ InTurn(cs))

\* A step of the webview leaves the host alone.
LEMMA WebKeeps ==
  ASSUME ScreenInv, UNCHANGED << native, subscriber, authority, leases, exitSeen >>,
         events' \in WiresType, refused' \subseteq Screen!Attachment, view' \in ViewType,
         att' \in AttsType, screen' \in Nat, Calm(native, calls'),
         ScreenOf(native, subscriber, leases, events', refused', calls', att'),
         NEW n \in 0..MaxAttach, Viewed(n, native, subscriber, authority, att', view')
  PROVE  ScreenInv'
<1>1. ScreenTypes'
  BY DEF ScreenInv, ScreenTypes, Calm
<1>2. \E m \in 0..MaxAttach : Viewed(m, native', subscriber', authority', att', view')
  OBVIOUS
<1> QED
  BY <1>1, <1>2 DEF ScreenInv, Calm

\* The webview changes one attachment, and the others keep what is theirs.
LEMMA WebChanges ==
  ASSUME NEW nat, NEW sb, NEW ls, NEW wi, NEW re, NEW re2, NEW cs, NEW cs2, NEW at, NEW at2,
         ScreenOf(nat, sb, ls, wi, re, cs, at), NEW a \in Screen!Attachment,
         \A b \in Screen!Attachment : b # a => at2[b] = at[b],
         \A b \in Screen!Attachment : b # a => Own(cs2, b) = Own(cs, b),
         \A b \in Screen!Attachment : b # a => (b \in re2 <=> b \in re),
         Hosted(a, nat, sb[a], at2[a], ls, Own(cs2, a)),
         Credited(a, nat, sb[a], at2[a], wi[a], re2, Own(cs2, a))
  PROVE  ScreenOf(nat, sb, ls, wi, re2, cs2, at2)
<1> SUFFICES ASSUME NEW b \in Screen!Attachment, b # a
             PROVE  /\ Hosted(b, nat, sb[b], at2[b], ls, Own(cs2, b))
                    /\ Credited(b, nat, sb[b], at2[b], wi[b], re2, Own(cs2, b))
  BY DEF ScreenOf
<1>1. /\ Hosted(b, nat, sb[b], at[b], ls, Own(cs, b))
      /\ Credited(b, nat, sb[b], at[b], wi[b], re, Own(cs, b))
  BY DEF ScreenOf
<1>2. at2[b] = at[b] /\ Own(cs2, b) = Own(cs, b) /\ (b \in re2 <=> b \in re)
  OBVIOUS
<1>3. /\ Hosted(b, nat, sb[b], at2[b], ls, Own(cs2, b))
      /\ Credited(b, nat, sb[b], at2[b], wi[b], re, Own(cs2, b))
  BY <1>1, <1>2
<1>4. Credited(b, nat, sb[b], at2[b], wi[b], re2, Own(cs2, b))
  BY <1>2, <1>3 DEF Credited
<1> QED
  BY <1>3, <1>4

\* An attachment is closed.
LEMMA CloseChange ==
  ASSUME NEW nat \in NativeType, NEW sb \in SubsType, NEW ls, NEW wi \in WiresType, NEW re, NEW re2,
         NEW cs, NEW at \in AttsType, NEW at2 \in AttsType, Calm(nat, cs),
         ScreenOf(nat, sb, ls, wi, re, cs, at), NEW a \in Screen!Attachment,
         at[a].phase \in {"open", "replied"}, at2[a].phase = "closed", a \in re2 => a \in re,
         \A b \in Screen!Attachment : b # a => at2[b] = at[b] /\ (b \in re2 <=> b \in re)
  PROVE  /\ Calm(nat, Append(cs, Command("detach", a, 0)))
         /\ ScreenOf(nat, sb, ls, wi, re2, Append(cs, Command("detach", a, 0)), at2)
<1>1. PICK c : c = Command("detach", a, 0)
  OBVIOUS
<1>2. c \in CommandType /\ c.op = "detach" /\ c.a = a
  BY <1>1, CommandFacts
<1>3. cs \in Seq(CommandType) /\ Once(cs) /\ (nat.exited \/ InTurn(cs))
  BY DEF Calm
<1>4. PICK cs2 : cs2 = Append(cs, c)
  OBVIOUS
<1>5. /\ cs2 \in Seq(CommandType) /\ Own(cs2, a) = Own(cs, a) \cup {c}
      /\ \A b \in Screen!Attachment : b # a => Own(cs2, b) = Own(cs, b)
  BY <1>2, <1>3, <1>4, AppendOwn
<1>6. /\ sb[a] \in SubType /\ at[a] \in AttType /\ at2[a] \in AttType /\ wi[a] \in WireType
      /\ Own(cs, a) \in SUBSET CommandType /\ Own(cs2, a) \in SUBSET CommandType
      /\ Hosted(a, nat, sb[a], at[a], ls, Own(cs, a))
      /\ Credited(a, nat, sb[a], at[a], wi[a], re, Own(cs, a))
  BY DEF ScreenOf, SubsType, AttsType, WiresType, Own
<1>7. ~ On(Own(cs, a), "detach")
  BY <1>6 DEF Hosted
<1>8. Calm(nat, cs2)
  BY <1>2, <1>3, <1>4, <1>5, <1>7, AppendOnce DEF Calm
<1>9. /\ Hosted(a, nat, sb[a], at2[a], ls, Own(cs2, a))
      /\ Credited(a, nat, sb[a], at2[a], wi[a], re2, Own(cs2, a))
  <2>1. PICK s : s = sb[a]
    OBVIOUS
  <2>2. PICK t : t = at[a]
    OBVIOUS
  <2>3. PICK t2 : t2 = at2[a]
    OBVIOUS
  <2>4. PICK w : w = wi[a]
    OBVIOUS
  <2>5. PICK q : q = Own(cs, a)
    OBVIOUS
  <2>6. PICK q2 : q2 = Own(cs2, a)
    OBVIOUS
  <2>7. /\ s \in SubType /\ t \in AttType /\ t2 \in AttType /\ w \in WireType
        /\ q \in SUBSET CommandType /\ q2 \in SUBSET CommandType
        /\ Hosted(a, nat, s, t, ls, q) /\ Credited(a, nat, s, t, w, re, q)
        /\ t.phase \in {"open", "replied"} /\ t2.phase = "closed" /\ q2 = q \cup {c}
    BY <1>5, <1>6, <2>1, <2>2, <2>3, <2>4, <2>5, <2>6
  <2>8. Hosted(a, nat, s, t2, ls, q2) /\ Credited(a, nat, s, t2, w, re2, q2)
    BY <1>2, <2>7, CloseKeeps
  <2> QED
    BY <2>1, <2>3, <2>4, <2>6, <2>8
<1>10. ScreenOf(nat, sb, ls, wi, re2, cs2, at2)
  <2>1. \A b \in Screen!Attachment : b # a => at2[b] = at[b]
    OBVIOUS
  <2>2. \A b \in Screen!Attachment : b # a => Own(cs2, b) = Own(cs, b)
    BY <1>5
  <2>3. \A b \in Screen!Attachment : b # a => (b \in re2 <=> b \in re)
    OBVIOUS
  <2>4. Hosted(a, nat, sb[a], at2[a], ls, Own(cs2, a))
    BY <1>9
  <2>5. Credited(a, nat, sb[a], at2[a], wi[a], re2, Own(cs2, a))
    BY <1>9
  <2> QED
    BY <2>1, <2>2, <2>3, <2>4, <2>5, WebChanges
<1> QED
  BY <1>1, <1>4, <1>8, <1>10

\* An attachment is asked for: after any other, or of a terminal that exited.
LEMMA AskChange ==
  ASSUME NEW nat \in NativeType, NEW sb \in SubsType, NEW ls, NEW wi \in WiresType, NEW re,
         NEW cs, NEW at \in AttsType, NEW at2 \in AttsType, Calm(nat, cs),
         ScreenOf(nat, sb, ls, wi, re, cs, at), NEW a \in Screen!Attachment,
         at[a].phase \in {"none", "waiting"}, at2[a].phase = "asked", at2[a].awaiting = at[a].awaiting,
         \A b \in Screen!Attachment : b # a => at2[b] = at[b],
         nat.exited \/ \A b \in Screen!Attachment : at[b].phase = "asked" => b < a
  PROVE  /\ Calm(nat, Append(cs, Command("attach", a, 0)))
         /\ ScreenOf(nat, sb, ls, wi, re, Append(cs, Command("attach", a, 0)), at2)
<1>1. PICK c : c = Command("attach", a, 0)
  OBVIOUS
<1>2. c \in CommandType /\ c.op = "attach" /\ c.a = a
  BY <1>1, CommandFacts
<1>3. cs \in Seq(CommandType) /\ Once(cs) /\ (nat.exited \/ InTurn(cs))
  BY DEF Calm
<1>4. PICK cs2 : cs2 = Append(cs, c)
  OBVIOUS
<1>5. /\ cs2 \in Seq(CommandType) /\ Own(cs2, a) = Own(cs, a) \cup {c}
      /\ \A b \in Screen!Attachment : b # a => Own(cs2, b) = Own(cs, b)
  BY <1>2, <1>3, <1>4, AppendOwn
<1>6. /\ sb[a] \in SubType /\ at[a] \in AttType /\ at2[a] \in AttType /\ wi[a] \in WireType
      /\ Own(cs, a) \in SUBSET CommandType /\ Own(cs2, a) \in SUBSET CommandType
      /\ Hosted(a, nat, sb[a], at[a], ls, Own(cs, a))
      /\ Credited(a, nat, sb[a], at[a], wi[a], re, Own(cs, a))
  BY DEF ScreenOf, SubsType, AttsType, WiresType, Own
<1>7. \A b \in Screen!Attachment : On(Own(cs, b), "attach") <=> at[b].phase = "asked"
  BY DEF ScreenOf, Hosted
<1>8. Calm(nat, cs2)
  <2>1. Once(cs2)
    BY <1>2, <1>3, <1>4, <1>7, AppendOnce
  <2>2. nat.exited \/ InTurn(cs2)
    BY <1>2, <1>3, <1>4, <1>7, AppendOnce
  <2> QED
    BY <1>5, <2>1, <2>2 DEF Calm
<1>9. /\ Hosted(a, nat, sb[a], at2[a], ls, Own(cs2, a))
      /\ Credited(a, nat, sb[a], at2[a], wi[a], re, Own(cs2, a))
  BY <1>2, <1>5, <1>6, AskKeeps
<1>10. ScreenOf(nat, sb, ls, wi, re, cs2, at2)
  <2>1. \A b \in Screen!Attachment : b # a => at2[b] = at[b]
    OBVIOUS
  <2>2. \A b \in Screen!Attachment : b # a => Own(cs2, b) = Own(cs, b)
    BY <1>5
  <2>3. \A b \in Screen!Attachment : b # a => (b \in re <=> b \in re)
    OBVIOUS
  <2>4. Hosted(a, nat, sb[a], at2[a], ls, Own(cs2, a))
    BY <1>9
  <2>5. Credited(a, nat, sb[a], at2[a], wi[a], re, Own(cs2, a))
    BY <1>9
  <2> QED
    BY <2>1, <2>2, <2>3, <2>4, <2>5, WebChanges
<1> QED
  BY <1>1, <1>4, <1>8, <1>10

\* A view that gives its credit back still has the screen that the actor has in flight.
LEMMA GrantChange ==
  ASSUME NEW nat \in NativeType, NEW sb \in SubsType, NEW ls, NEW wi \in WiresType, NEW re,
         NEW cs, NEW at \in AttsType, Calm(nat, cs), NEW v \in ViewType, NEW sh, NEW n, NEW au,
         ScreenOf(nat, sb, ls, wi, re, cs, at), Viewed(n, nat, sb, au, at, v),
         Screen!Becomes(Screen!Granted(W(v, at, cs, sh)))
  PROVE  /\ view' \in ViewType /\ att' \in AttsType /\ screen' = sh /\ Calm(nat, calls')
         /\ ScreenOf(nat, sb, ls, wi, re, calls', att') /\ Viewed(n, nat, sb, au, att', view')
<1> DEFINE w == Screen!Granted(W(v, at, cs, sh))
<1>0. Screen!Becomes(w)
  OBVIOUS
<1>a. ~ Grants(v) => w = W(v, at, cs, sh)
  BY GrantedNot
<1>b. Grants(v) => \E a : a = v.lease /\ w = W(Given(v), Put(at, a, Awaits(at[a])),
                                               Append(cs, Command("credit", a, at[a].seq)), sh)
  BY GrantedIs
<1> HIDE DEF w
<1>1. CASE ~ Grants(v)
  <2>0. w = W(v, at, cs, sh)
    BY <1>a, <1>1
  <2>1. view' = v /\ att' = at /\ calls' = cs /\ screen' = sh
    BY <1>0, <2>0, BecomesIs
  <2> QED
    BY <2>1
<1>2. CASE Grants(v)
  <2>1. PICK a : a = v.lease /\ w = W(Given(v), Put(at, a, Awaits(at[a])),
                                       Append(cs, Command("credit", a, at[a].seq)), sh)
    BY <1>2, <1>b
  <2>2. v.credit /\ ~ v.ended /\ a # 0 /\ a \in Screen!Attachment
    BY <1>2, <2>1, TerminalsAssumption DEF Grants, ViewType, Screen!Attachment
  <2>3. PICK c : c = Command("credit", a, at[a].seq)
    OBVIOUS
  <2>4. PICK t2 : t2 = Awaits(at[a])
    OBVIOUS
  <2>a. w = W(Given(v), Put(at, a, t2), Append(cs, c), sh)
    BY <2>1, <2>3, <2>4
  <2>b. view' = Given(v) /\ att' = Put(at, a, t2) /\ calls' = Append(cs, c) /\ screen' = sh
    BY <1>0, <2>a, BecomesIs
  <2>5. /\ view' = Given(v) /\ att' = Put(at, a, t2) /\ calls' = Append(cs, c) /\ screen' = sh
        /\ Given(v) \in ViewType /\ Given(v).credit = FALSE /\ Given(v).ended = v.ended
        /\ Given(v).gone = v.gone /\ Given(v).opening = v.opening /\ Given(v).lease = v.lease
        /\ Given(v).attached = v.attached
    BY <2>b, GivenFacts
  <2>6. at[a] \in AttType /\ at[a].seq \in Nat
    BY <2>2, RecordFacts DEF AttsType
  <2>7. /\ t2 \in AttType /\ t2.awaiting = TRUE /\ t2.phase = at[a].phase /\ t2.live = at[a].live
        /\ t2.seq = at[a].seq /\ t2.rev = at[a].rev
    BY <2>4, <2>6, PhasedFacts
  <2>8. /\ att' \in AttsType /\ att'[a] = t2 /\ \A b \in Screen!Attachment : b # a => att'[b] = at[b]
    BY <2>2, <2>5, <2>7, AttFacts
  <2>9. at[a].phase = "open" /\ ~ at[a].awaiting /\ (nat.exited \/ sb[a].inflight = at[a].seq)
    BY <2>1, <2>2 DEF Viewed
  <2>10. c \in CommandType /\ c.op = "credit" /\ c.a = a /\ c.seq = at[a].seq
    BY <2>2, <2>3, <2>6, CommandFacts
  <2>11. cs \in Seq(CommandType) /\ Once(cs) /\ (nat.exited \/ InTurn(cs))
    BY DEF Calm
  <2>12. /\ calls' \in Seq(CommandType) /\ Own(calls', a) = Own(cs, a) \cup {c}
         /\ \A b \in Screen!Attachment : b # a => Own(calls', b) = Own(cs, b)
    BY <2>5, <2>10, <2>11, AppendOwn
  <2>13. /\ sb[a] \in SubType /\ wi[a] \in WireType
         /\ Own(cs, a) \in SUBSET CommandType /\ Own(calls', a) \in SUBSET CommandType
         /\ Hosted(a, nat, sb[a], at[a], ls, Own(cs, a))
         /\ Credited(a, nat, sb[a], at[a], wi[a], re, Own(cs, a))
    BY <2>2 DEF ScreenOf, SubsType, WiresType, Own
  <2>14. /\ Hosted(a, nat, sb[a], t2, ls, Own(calls', a))
         /\ Credited(a, nat, sb[a], t2, wi[a], re, Own(calls', a))
         /\ ~ On(Own(cs, a), "credit")
    <3>1. PICK s : s = sb[a]
      OBVIOUS
    <3>2. PICK t : t = at[a]
      OBVIOUS
    <3>4. PICK x : x = wi[a]
      OBVIOUS
    <3>5. PICK q : q = Own(cs, a)
      OBVIOUS
    <3>6. PICK q2 : q2 = Own(calls', a)
      OBVIOUS
    <3>7. /\ s \in SubType /\ t \in AttType /\ t2 \in AttType /\ x \in WireType
          /\ q \in SUBSET CommandType /\ q2 \in SUBSET CommandType
          /\ Hosted(a, nat, s, t, ls, q) /\ Credited(a, nat, s, t, x, re, q)
          /\ t.phase = "open" /\ ~ t.awaiting /\ (nat.exited \/ s.inflight = t.seq)
          /\ t2.phase = "open" /\ t2.awaiting /\ t2.live = t.live /\ t2.seq = t.seq /\ t2.rev = t.rev
          /\ c.op = "credit" /\ c.seq = t.seq /\ q2 = q \cup {c}
      BY <2>6, <2>7, <2>9, <2>10, <2>12, <2>13, <3>1, <3>2, <3>4, <3>5, <3>6
    <3>8. Hosted(a, nat, s, t2, ls, q2) /\ Credited(a, nat, s, t2, x, re, q2) /\ ~ On(q, "credit")
      BY <2>10, <3>7, GrantKeeps
    <3> QED
      BY <3>1, <3>4, <3>5, <3>6, <3>8
  <2>15. Calm(nat, calls')
    BY <2>5, <2>10, <2>11, <2>12, <2>14, AppendOnce DEF Calm
  <2>16. ScreenOf(nat, sb, ls, wi, re, calls', att')
    <3>1. \A b \in Screen!Attachment : b # a => att'[b] = at[b]
      BY <2>8
    <3>2. \A b \in Screen!Attachment : b # a => Own(calls', b) = Own(cs, b)
      BY <2>12
    <3>3. \A b \in Screen!Attachment : b # a => (b \in re <=> b \in re)
      OBVIOUS
    <3>4. Hosted(a, nat, sb[a], att'[a], ls, Own(calls', a))
      BY <2>8, <2>14
    <3>5. Credited(a, nat, sb[a], att'[a], wi[a], re, Own(calls', a))
      BY <2>8, <2>14
    <3> QED
      BY <2>2, <3>1, <3>2, <3>3, <3>4, <3>5, WebChanges
  <2>17. \A b \in Screen!Attachment : att'[b].phase = at[b].phase
    BY <2>7, <2>8
  <2>18. /\ v.opening # 0 => v.opening \in Screen!Attachment
         /\ v.lease # 0 => v.lease \in Screen!Attachment
    BY TerminalsAssumption DEF ViewType, Screen!Attachment
  <2>19. Viewed(n, nat, sb, au, att', view')
    BY <2>5, <2>17, <2>18 DEF Viewed
  <2> QED
    BY <2>5, <2>8, <2>15, <2>16, <2>19
<1> QED
  BY <1>1, <1>2

-----------------------------------------------------------------------------
\* An attachment that follows another, and one that no longer waits for a screen.
Follows(t, prev) == [t EXCEPT !.prev = prev]
Silent(t) == [t EXCEPT !.awaiting = FALSE]
\* They keep the rest.
LEMMA FollowFacts ==
  ASSUME NEW t \in AttType, NEW prev \in 0..MaxAttach
  PROVE  /\ Follows(t, prev) \in AttType /\ Follows(t, prev).phase = t.phase
         /\ Follows(t, prev).awaiting = t.awaiting
         /\ Silent(t) \in AttType /\ Silent(t).phase = t.phase /\ Silent(t).awaiting = FALSE
         /\ Silent(t).live = t.live /\ Silent(t).seq = t.seq /\ Silent(t).rev = t.rev
  BY DEF Follows, Silent, AttType

\* A view that opens an attachment.
Opening(v, a) ==
  [[[[v EXCEPT !.opening = a] EXCEPT !.lease = 0] EXCEPT !.attached = FALSE] EXCEPT !.ended = FALSE]
\* It has none meanwhile.
LEMMA OpeningFacts ==
  ASSUME NEW v \in ViewType, NEW a \in 0..MaxAttach
  PROVE  /\ Opening(v, a) \in ViewType /\ Opening(v, a).opening = a /\ Opening(v, a).lease = 0
         /\ Opening(v, a).attached = FALSE /\ Opening(v, a).ended = FALSE /\ Opening(v, a).gone = v.gone
<1>1. 0 \in 0..MaxAttach
  BY TerminalsAssumption
<1> QED
  BY <1>1 DEF Opening, ViewType

\* The attachment of a view is installed.
Installed(v, a, ended) ==
  [[[[[v EXCEPT !.opening = 0] EXCEPT !.lease = a] EXCEPT !.attached = TRUE] EXCEPT !.ended = ended]
    EXCEPT !.credit = TRUE]
\* The view has it and the credit for its next screen.
LEMMA InstalledFacts ==
  ASSUME NEW v \in ViewType, NEW a \in 0..MaxAttach, NEW ended \in BOOLEAN
  PROVE  /\ Installed(v, a, ended) \in ViewType /\ Installed(v, a, ended).opening = 0
         /\ Installed(v, a, ended).lease = a /\ Installed(v, a, ended).attached = TRUE
         /\ Installed(v, a, ended).ended = ended /\ Installed(v, a, ended).credit = TRUE
         /\ Installed(v, a, ended).gone = v.gone
<1>1. 0 \in 0..MaxAttach
  BY TerminalsAssumption
<1> QED
  BY <1>1 DEF Installed, ViewType

\* The phases of an attachment.
PhaseType == {"none", "waiting", "asked", "replied", "open", "closed", "failed"}
\* An attachment in another phase.
LEMMA PhasedAt ==
  ASSUME NEW at \in AttsType, NEW a \in Screen!Attachment, NEW phase \in PhaseType,
         NEW at2, at2 = Put(at, a, Phased(at[a], phase))
  PROVE  /\ at2 \in AttsType /\ at2[a].phase = phase /\ at2[a].awaiting = at[a].awaiting
         /\ at2[a].live = at[a].live /\ at2[a].seq = at[a].seq /\ at2[a].rev = at[a].rev
         /\ at2[a] \in AttType /\ at[a] \in AttType
         /\ \A b \in Screen!Attachment : b # a => at2[b] = at[b]
<1>1. at[a] \in AttType
  BY DEF AttsType
<1>2. PICK t : t = Phased(at[a], phase)
  OBVIOUS
<1>3. /\ t \in AttType /\ t.phase = phase /\ t.awaiting = at[a].awaiting /\ t.live = at[a].live
      /\ t.seq = at[a].seq /\ t.rev = at[a].rev
  BY <1>1, <1>2, PhasedFacts, ZenonT(60) DEF PhaseType
<1>4. /\ at2 \in AttsType /\ at2[a] = t /\ \A b \in Screen!Attachment : b # a => at2[b] = at[b]
  BY <1>2, <1>3, AttFacts
<1> QED
  BY <1>1, <1>3, <1>4

\* What the webview makes of it.
InPhase(w, a, phase) == [w EXCEPT !.att[a].phase = phase]
Silenced(w, a) == [w EXCEPT !.att[a].awaiting = FALSE]
Preceded(w, x, a, prev) == [w EXCEPT !.view = x, !.att[a].prev = prev]
\* Another phase of one attachment.
LEMMA PhaseIs ==
  ASSUME NEW v, NEW at, NEW cs, NEW sh, NEW w, w = W(v, at, cs, sh), NEW a, NEW phase
  PROVE  InPhase(w, a, phase) = W(v, Put(at, a, Phased(at[a], phase)), cs, sh)
  BY DEF W, Phased, Put, InPhase

\* It waits for no screen.
LEMMA SilentIs ==
  ASSUME NEW v, NEW at, NEW cs, NEW sh, NEW w, w = W(v, at, cs, sh), NEW a
  PROVE  Silenced(w, a) = W(v, Put(at, a, Silent(at[a])), cs, sh)
<1>1. PICK t : t = Silent(at[a])
  OBVIOUS
<1>2. [w EXCEPT !.att[a].awaiting = FALSE] = [w EXCEPT !.att[a] = [w.att[a] EXCEPT !.awaiting = FALSE]]
  OBVIOUS
<1>3. w.att = at
  BY DEF W
<1>4. [w EXCEPT !.att[a] = t] = W(v, Put(at, a, t), cs, sh)
  BY DEF W, Put
<1> QED
  BY <1>1, <1>2, <1>3, <1>4 DEF Silent, Silenced

\* It follows another.
LEMMA FollowsIs ==
  ASSUME NEW v, NEW at, NEW cs, NEW sh, NEW w, w = W(v, at, cs, sh), NEW a, NEW x, NEW prev
  PROVE  Preceded(w, x, a, prev) = W(x, Put(at, a, Follows(at[a], prev)), cs, sh)
<1>1. PICK t : t = Follows(at[a], prev)
  OBVIOUS
<1>2. PICK y : y = W(x, at, cs, sh)
  OBVIOUS
<1>3. [w EXCEPT !.view = x] = y
  BY <1>2, ViewIs
<1>4. [w EXCEPT !.view = x, !.att[a].prev = prev] = [[w EXCEPT !.view = x] EXCEPT !.att[a].prev = prev]
  OBVIOUS
<1>5. [y EXCEPT !.att[a].prev = prev] = [y EXCEPT !.att[a] = [y.att[a] EXCEPT !.prev = prev]]
  OBVIOUS
<1>6. y.att = at
  BY <1>2 DEF W
<1>7. [y EXCEPT !.att[a] = t] = W(x, Put(at, a, t), cs, sh)
  BY <1>2 DEF W, Put
<1> QED
  BY <1>1, <1>3, <1>4, <1>5, <1>6, <1>7 DEF Follows, Preceded

\* Attachments are made in turn, so that their number is the last one.
LEMMA UsedIs ==
  ASSUME NEW n \in 0..MaxAttach, \A a \in Screen!Attachment : att[a].phase # "none" <=> a <= n
  PROVE  Screen!Used = n
<1>1. {a \in Screen!Attachment : att[a].phase # "none"} = 1..n
  BY TerminalsAssumption DEF Screen!Attachment
<1>2. n \in Int /\ n >= 0 /\ 1 \in Int
  BY TerminalsAssumption
<1>3. Cardinality(1..n) = IF 1 > n THEN 0 ELSE n - 1 + 1
  BY <1>2, FS_Interval
<1>4. Cardinality(1..n) = n
  BY <1>2, <1>3
<1>5. Screen!Used = Cardinality({a \in Screen!Attachment : att[a].phase # "none"})
  BY DEF Screen!Used, Screen!Cardinality, Cardinality
<1> QED
  BY <1>1, <1>4, <1>5

-----------------------------------------------------------------------------
\* A state of the webview that fits what the host has, when n attachments were made.
Fits(wi, re, v, at, cs, n) ==
  /\ v \in ViewType /\ at \in AttsType /\ Calm(native, cs)
  /\ ScreenOf(native, subscriber, leases, wi, re, cs, at)
  /\ Viewed(n, native, subscriber, authority, at, v)

\* The invariant says so of the one that there is.
LEMMA FitsNow ==
  ASSUME ScreenInv
  PROVE  \E n \in 0..MaxAttach : Fits(events, refused, view, att, calls, n)
  BY DEF ScreenInv, ScreenTypes, Fits, Calm

\* A step of the webview to such a state keeps the invariant.
LEMMA FitsKeeps ==
  ASSUME ScreenInv, UNCHANGED << native, subscriber, authority, leases, exitSeen >>,
         events' \in WiresType, refused' \subseteq Screen!Attachment, screen' \in Nat,
         NEW n \in 0..MaxAttach, Fits(events', refused', view', att', calls', n)
  PROVE  ScreenInv'
  BY WebKeeps DEF Fits

\* What a view shows and gives is its own affair.
LEMMA ViewFits ==
  ASSUME NEW wi, NEW re, NEW v, NEW v2 \in ViewType, NEW at, NEW cs, NEW n, Fits(wi, re, v, at, cs, n),
         v2.gone = v.gone, v2.opening = v.opening, v2.lease = v.lease, v2.attached = v.attached,
         v.ended => v2.ended, v2.credit /\ ~ v2.ended => v.credit /\ ~ v.ended
  PROVE  Fits(wi, re, v2, at, cs, n)
<1>1. Viewed(n, native, subscriber, authority, at, v)
  BY DEF Fits
<1>2. Viewed(n, native, subscriber, authority, at, v2)
  BY <1>1 DEF Viewed
<1> QED
  BY <1>2 DEF Fits

\* A view that gives its credit back fits.
LEMMA GrantFits ==
  ASSUME ScreenInv, NEW wi \in WiresType, NEW re, NEW v, NEW at, NEW cs, NEW sh, NEW n,
         Fits(wi, re, v, at, cs, n), NEW w, w = W(v, at, cs, sh), Screen!Becomes(Screen!Granted(w))
  PROVE  Fits(wi, re, view', att', calls', n) /\ screen' = sh
<1>1. /\ v \in ViewType /\ at \in AttsType /\ Calm(native, cs) /\ native \in NativeType
      /\ subscriber \in SubsType /\ ScreenOf(native, subscriber, leases, wi, re, cs, at)
      /\ Viewed(n, native, subscriber, authority, at, v)
  BY DEF Fits, ScreenInv, ScreenTypes
<1>2. Screen!Becomes(Screen!Granted(W(v, at, cs, sh)))
  OBVIOUS
<1>3. /\ view' \in ViewType /\ att' \in AttsType /\ screen' = sh /\ Calm(native, calls')
      /\ ScreenOf(native, subscriber, leases, wi, re, calls', att')
      /\ Viewed(n, native, subscriber, authority, att', view')
  BY <1>1, <1>2, GrantChange
<1> QED
  BY <1>3 DEF Fits

\* The view is shown.
LEMMA RevealKeeps ==
  ASSUME ScreenInv, Screen!Reveal
  PROVE  ScreenInv'
<1>1. /\ ~ view.gone /\ ~ view.demand
      /\ Screen!Becomes(Screen!Granted([Screen!Web EXCEPT !.view.demand = TRUE, !.view.starting = TRUE]))
      /\ UNCHANGED << native, subscriber, authority, leases, events, refused, exitSeen >>
  BY DEF Screen!Reveal, Screen!hostVars
<1>2. PICK n \in 0..MaxAttach : Fits(events, refused, view, att, calls, n)
  BY FitsNow
<1>3. view \in ViewType /\ events \in WiresType /\ refused \subseteq Screen!Attachment /\ screen \in Nat
  BY DEF ScreenInv, ScreenTypes
<1>4. PICK v1 : v1 = [view EXCEPT !.demand = TRUE]
  OBVIOUS
<1>5. PICK v2 : v2 = [v1 EXCEPT !.starting = TRUE]
  OBVIOUS
<1>6. /\ v2 \in ViewType /\ v2.gone = view.gone /\ v2.opening = view.opening /\ v2.lease = view.lease
      /\ v2.attached = view.attached /\ v2.ended = view.ended /\ v2.credit = view.credit
  BY <1>3, <1>4, <1>5 DEF ViewType
<1>7. [Screen!Web EXCEPT !.view.demand = TRUE, !.view.starting = TRUE] = W(v2, att, calls, screen)
  <2>1. PICK w : w = W(view, att, calls, screen)
    OBVIOUS
  <2>2. [w EXCEPT !.view.demand = TRUE, !.view.starting = TRUE]
          = [[w EXCEPT !.view.demand = TRUE] EXCEPT !.view.starting = TRUE]
    OBVIOUS
  <2>3. [w EXCEPT !.view.demand = TRUE] = [w EXCEPT !.view = [w.view EXCEPT !.demand = TRUE]]
    OBVIOUS
  <2>4. [w EXCEPT !.view = v1] = W(v1, att, calls, screen) /\ w.view = view
    BY <2>1, ViewIs
  <2>5. PICK z : z = W(v1, att, calls, screen)
    OBVIOUS
  <2>6. [z EXCEPT !.view.starting = TRUE] = [z EXCEPT !.view = [z.view EXCEPT !.starting = TRUE]]
    OBVIOUS
  <2>7. [z EXCEPT !.view = v2] = W(v2, att, calls, screen) /\ z.view = v1
    BY <2>5, ViewIs
  <2>8. [w EXCEPT !.view.demand = TRUE] = z
    BY <1>4, <2>3, <2>4, <2>5
  <2> QED
    BY <1>5, <2>1, <2>2, <2>6, <2>7, <2>8, WebIs
<1>8. Fits(events, refused, v2, att, calls, n)
  BY <1>2, <1>6, ViewFits
<1>9. Screen!Becomes(Screen!Granted(W(v2, att, calls, screen)))
  BY <1>1, <1>7
<1>10. Fits(events, refused, view', att', calls', n) /\ screen' = screen
  BY <1>3, <1>8, <1>9, GrantFits
<1> QED
  BY <1>1, <1>3, <1>10, FitsKeeps

\* The view is hidden.
LEMMA ConcealKeeps ==
  ASSUME ScreenInv, Screen!Conceal
  PROVE  ScreenInv'
<1>1. /\ ~ view.gone /\ view.demand
      /\ Screen!Becomes([Screen!Web EXCEPT !.view.demand = FALSE, !.view.starting = FALSE])
      /\ UNCHANGED << native, subscriber, authority, leases, events, refused, exitSeen >>
  BY DEF Screen!Conceal, Screen!hostVars
<1>2. PICK n \in 0..MaxAttach : Fits(events, refused, view, att, calls, n)
  BY FitsNow
<1>3. view \in ViewType /\ events \in WiresType /\ refused \subseteq Screen!Attachment /\ screen \in Nat
  BY DEF ScreenInv, ScreenTypes
<1>4. PICK v1 : v1 = [view EXCEPT !.demand = FALSE]
  OBVIOUS
<1>5. PICK v2 : v2 = [v1 EXCEPT !.starting = FALSE]
  OBVIOUS
<1>6. /\ v2 \in ViewType /\ v2.gone = view.gone /\ v2.opening = view.opening /\ v2.lease = view.lease
      /\ v2.attached = view.attached /\ v2.ended = view.ended /\ v2.credit = view.credit
  BY <1>3, <1>4, <1>5 DEF ViewType
<1>7. view' = v2 /\ UNCHANGED << att, calls, screen >>
  <2>1. PICK w : w = [Screen!Web EXCEPT !.view.demand = FALSE, !.view.starting = FALSE]
    OBVIOUS
  <2>2. w.view = v2 /\ w.att = att /\ w.calls = calls /\ w.shown = screen
    BY <1>4, <1>5, <2>1 DEF Screen!Web
  <2>3. Screen!Becomes(w)
    BY <1>1, <2>1
  <2> QED
    BY <2>2, <2>3 DEF Screen!Becomes
<1>8. Fits(events, refused, view', att', calls', n)
  BY <1>2, <1>6, <1>7, ViewFits
<1> QED
  BY <1>1, <1>3, <1>7, <1>8, FitsKeeps

\* The view is mounted again.
LEMMA MountKeeps ==
  ASSUME ScreenInv, Screen!Mount
  PROVE  ScreenInv'
<1>1. /\ view.gone /\ view' = Screen!NewView
      /\ UNCHANGED << native, subscriber, authority, leases, events, refused, exitSeen, calls, att, screen >>
  BY DEF Screen!Mount, Screen!hostVars
<1>2. PICK n \in 0..MaxAttach : Fits(events, refused, view, att, calls, n)
  BY FitsNow
<1>3. view \in ViewType /\ events \in WiresType /\ refused \subseteq Screen!Attachment /\ screen \in Nat
  BY DEF ScreenInv, ScreenTypes
<1>4. /\ view' \in ViewType /\ ~ view'.gone /\ view'.opening = 0 /\ view'.lease = 0
      /\ ~ view'.attached /\ ~ view'.credit
  BY <1>1, TerminalsAssumption DEF Screen!NewView, ViewType
<1>5. Viewed(n, native, subscriber, authority, att, view)
  BY <1>2 DEF Fits
<1>6. view.lease = 0
  BY <1>1, <1>5 DEF Viewed
<1>7. Viewed(n, native, subscriber, authority, att, view')
  BY <1>4, <1>5, <1>6 DEF Viewed
<1>8. Fits(events', refused', view', att', calls', n)
  BY <1>1, <1>2, <1>4, <1>7 DEF Fits
<1> QED
  BY <1>1, <1>3, <1>8, FitsKeeps

\* An attachment that waited is asked for.
LEMMA AskAttachKeeps ==
  ASSUME ScreenInv, NEW a \in Screen!Attachment, Screen!AskAttach(a)
  PROVE  ScreenInv'
<1>1. /\ att[a].phase = "waiting"
      /\ Screen!Becomes(Screen!Asked([Screen!Web EXCEPT !.att[a].phase = "asked"], "attach", a, 0))
      /\ UNCHANGED << native, subscriber, authority, leases, events, refused, exitSeen >>
  BY DEF Screen!AskAttach, Screen!hostVars
<1>2. PICK n \in 0..MaxAttach : Fits(events, refused, view, att, calls, n)
  BY FitsNow
<1>3. /\ view \in ViewType /\ events \in WiresType /\ refused \subseteq Screen!Attachment /\ screen \in Nat
      /\ att \in AttsType /\ native \in NativeType /\ subscriber \in SubsType
  BY DEF ScreenInv, ScreenTypes
<1>4. /\ Calm(native, calls) /\ ScreenOf(native, subscriber, leases, events, refused, calls, att)
      /\ Viewed(n, native, subscriber, authority, att, view)
  BY <1>2 DEF Fits
<1>5. PICK at : at = Put(att, a, Phased(att[a], "asked"))
  OBVIOUS
<1>6. "asked" \in PhaseType
  BY DEF PhaseType
<1>7. /\ at \in AttsType /\ at[a].phase = "asked" /\ at[a].awaiting = att[a].awaiting
      /\ \A b \in Screen!Attachment : b # a => at[b] = att[b]
  BY <1>3, <1>5, <1>6, PhasedAt
<1>8. view' = view /\ att' = at /\ calls' = Append(calls, Command("attach", a, 0)) /\ screen' = screen
  <2>1. PICK w : w = W(view, att, calls, screen)
    OBVIOUS
  <2>2. InPhase(w, a, "asked") = W(view, at, calls, screen)
    BY <1>5, <2>1, PhaseIs
  <2>3. Screen!Becomes(Screen!Asked(W(view, at, calls, screen), "attach", a, 0))
    BY <1>1, <2>1, <2>2, WebIs DEF InPhase
  <2>4. PICK x : x = W(view, at, Append(calls, Command("attach", a, 0)), screen)
    OBVIOUS
  <2>5. Screen!Becomes(x)
    BY <2>3, <2>4, AskedIs
  <2> QED
    BY <2>4, <2>5, BecomesIs
<1>9. native.exited
  BY <1>1, <1>4 DEF Viewed
<1>10. /\ Calm(native, calls')
       /\ ScreenOf(native, subscriber, leases, events, refused, calls', at)
  BY <1>1, <1>3, <1>4, <1>7, <1>8, <1>9, AskChange
<1>11. Viewed(n, native, subscriber, authority, at, view)
  <2>1. \A b \in Screen!Attachment :
          \/ at[b] = att[b]
          \/ b = a /\ at[b].phase = "asked" /\ att[b].phase = "waiting"
    BY <1>1, <1>7
  <2>2. /\ view.opening # 0 => view.opening \in Screen!Attachment
        /\ view.lease # 0 => view.lease \in Screen!Attachment
    BY <1>3, TerminalsAssumption DEF ViewType, Screen!Attachment
  <2>3. view.lease # 0 => at[view.lease] = att[view.lease]
    BY <1>4, <2>1, <2>2 DEF Viewed
  <2> QED
    BY <1>4, <1>9, <2>1, <2>2, <2>3 DEF Viewed, Unserved
<1>12. Fits(events', refused', view', att', calls', n)
  BY <1>1, <1>3, <1>7, <1>8, <1>10, <1>11 DEF Fits
<1> QED
  BY <1>1, <1>3, <1>8, <1>12, FitsKeeps

\* An attachment of a state that fits is closed: nobody has it, or its view ended.
LEMMA CloseFits ==
  ASSUME ScreenInv, NEW wi \in WiresType, NEW re, NEW re2, NEW v, NEW at, NEW cs, NEW n,
         NEW a \in Screen!Attachment,
         Fits(wi, re, v, at, cs, n), at[a].phase \in {"open", "replied"}, v.opening # a,
         v.lease = a => v.ended, a \in re2 => a \in re,
         \A b \in Screen!Attachment : b # a => (b \in re2 <=> b \in re),
         NEW at2, at2 = Put(at, a, Phased(at[a], "closed")),
         NEW cs2, cs2 = Append(cs, Command("detach", a, 0))
  PROVE  Fits(wi, re2, v, at2, cs2, n)
<1>1. /\ v \in ViewType /\ at \in AttsType /\ Calm(native, cs) /\ native \in NativeType
      /\ subscriber \in SubsType /\ ScreenOf(native, subscriber, leases, wi, re, cs, at)
      /\ Viewed(n, native, subscriber, authority, at, v)
  BY DEF Fits, ScreenInv, ScreenTypes
<1>2. "closed" \in PhaseType
  BY DEF PhaseType
<1>3. /\ at2 \in AttsType /\ at2[a].phase = "closed"
      /\ \A b \in Screen!Attachment : b # a => at2[b] = at[b]
  BY <1>1, <1>2, PhasedAt
<1>4. Calm(native, cs2) /\ ScreenOf(native, subscriber, leases, wi, re2, cs2, at2)
  BY <1>1, <1>3, CloseChange
<1>5. Viewed(n, native, subscriber, authority, at2, v)
  <2>1. \A b \in Screen!Attachment :
          \/ at2[b] = at[b]
          \/ b = a /\ at2[b].phase = "closed" /\ at[b].phase \in {"open", "replied"}
    BY <1>3
  <2>2. /\ v.opening # 0 => v.opening \in Screen!Attachment
        /\ v.lease # 0 => v.lease \in Screen!Attachment
    BY <1>1, TerminalsAssumption DEF ViewType, Screen!Attachment
  <2>3. v.opening # 0 => at2[v.opening] = at[v.opening]
    BY <2>1, <2>2
  <2>4. v.lease # 0 => /\ v.lease = n /\ ~ v.gone
                       /\ at2[v.lease].phase \in {"open", "closed"}
                       /\ at2[v.lease].phase = "closed" => v.ended
                       /\ ~ v.ended => at2[v.lease] = at[v.lease]
    BY <1>1, <2>1, <2>2 DEF Viewed
  <2>5. \A b, c \in Screen!Attachment :
          at2[b].phase = "asked" /\ at[c].phase = "asked" => at[b].phase = "asked" /\ at2[c] = at[c]
    BY <2>1
  <2> QED
    BY <1>1, <2>1, <2>2, <2>3, <2>4, <2>5 DEF Viewed, Unserved
<1> QED
  BY <1>1, <1>3, <1>4, <1>5 DEF Fits

\* The view ends.
LEMMA HaltFits ==
  ASSUME NEW wi, NEW re, NEW v, NEW at, NEW cs, NEW n, Fits(wi, re, v, at, cs, n)
  PROVE  Fits(wi, re, Halted(v), at, cs, n) /\ Halted(v).ended = TRUE /\ Halted(v).lease = v.lease
         /\ Halted(v).opening = v.opening /\ Halted(v).gone = v.gone
<1>1. v \in ViewType
  BY DEF Fits
<1>2. PICK v2 : v2 = Halted(v)
  OBVIOUS
<1>3. /\ v2 \in ViewType /\ v2.ended = TRUE /\ v2.credit = FALSE /\ v2.gone = v.gone
      /\ v2.opening = v.opening /\ v2.lease = v.lease /\ v2.attached = v.attached
  BY <1>1, <1>2, HaltedFacts
<1>4. Fits(wi, re, v2, at, cs, n)
  BY <1>3, ViewFits
<1> QED
  BY <1>2, <1>3, <1>4

\* The view installs the baseline of its attachment.
LEMMA BaselineIs ==
  ASSUME NEW v \in ViewType, NEW at, NEW cs, NEW sh, NEW w, w = W(v, at, cs, sh), NEW a,
         NEW at2, at2 = Put(at, a, Phased(at[a], "open")),
         NEW ended, ended = (~ at[a].live)
  PROVE  Screen!Baseline(w, a) = W(Installed(v, a, ended), at2, cs, at[a].screen)
<1>1. PICK x : x = InPhase(w, a, "open")
  OBVIOUS
<1>2. x = W(v, at2, cs, sh)
  BY <1>1, PhaseIs
<1>3. PICK s : s = at[a].screen
  OBVIOUS
<1>4. PICK y : y = W(v, at2, cs, s)
  OBVIOUS
<1>5. [x EXCEPT !.shown = s] = y
  BY <1>2, <1>4 DEF W
<1>6. PICK z : z = Installed(v, a, ended)
  OBVIOUS
<1>7. [y EXCEPT !.view = z] = W(z, at2, cs, s) /\ y.view = v
  BY <1>4, ViewIs
<1>8. w.att = at
  BY DEF W
<1>9. Screen!Baseline(w, a) =
        [w EXCEPT !.att[a].phase = "open", !.shown = s,
                  !.view = [@ EXCEPT !.opening = 0, !.lease = a, !.attached = TRUE,
                                     !.ended = ended, !.credit = TRUE]]
  BY <1>3, <1>8 DEF Screen!Baseline
<1>10. Screen!Baseline(w, a) =
         [[[w EXCEPT !.att[a].phase = "open"] EXCEPT !.shown = s] EXCEPT !.view =
            [y.view EXCEPT !.opening = 0, !.lease = a, !.attached = TRUE, !.ended = ended,
                           !.credit = TRUE]]
  BY <1>1, <1>5, <1>9, ZenonT(60) DEF InPhase
<1>11. Screen!Baseline(w, a) =
         [y EXCEPT !.view = [v EXCEPT !.opening = 0, !.lease = a, !.attached = TRUE,
                                      !.ended = ended, !.credit = TRUE]]
  BY <1>1, <1>5, <1>7, <1>10 DEF InPhase
<1>12. [v EXCEPT !.opening = 0, !.lease = a, !.attached = TRUE, !.ended = ended,
                 !.credit = TRUE] = z
  BY <1>6 DEF Installed
<1> QED
  BY <1>3, <1>6, <1>7, <1>11, <1>12

\* A view that has its attachment fits.
LEMMA InstallFits ==
  ASSUME ScreenInv, NEW wi \in WiresType, NEW re, NEW v, NEW at, NEW cs, NEW n,
         NEW a \in Screen!Attachment,
         Fits(wi, re, v, at, cs, n), at[a].phase = "replied", v.opening = a,
         NEW at2, at2 = Put(at, a, Phased(at[a], "open")),
         NEW ended, ended = (~ at[a].live),
         NEW v2, v2 = Installed(v, a, ended)
  PROVE  Fits(wi, re, v2, at2, cs, n)
<1>1. /\ v \in ViewType /\ at \in AttsType /\ Calm(native, cs) /\ native \in NativeType
      /\ subscriber \in SubsType /\ ScreenOf(native, subscriber, leases, wi, re, cs, at)
      /\ Viewed(n, native, subscriber, authority, at, v)
  BY DEF Fits, ScreenInv, ScreenTypes
<1>2. "open" \in PhaseType /\ a # 0 /\ a \in 0..MaxAttach
  BY TerminalsAssumption DEF PhaseType, Screen!Attachment
<1>3. /\ at2 \in AttsType /\ at2[a].phase = "open" /\ at2[a].awaiting = at[a].awaiting
      /\ at2[a].live = at[a].live /\ at2[a].seq = at[a].seq /\ at2[a].rev = at[a].rev
      /\ at2[a] \in AttType /\ at[a] \in AttType
      /\ \A b \in Screen!Attachment : b # a => at2[b] = at[b]
  BY <1>1, <1>2, PhasedAt
<1>4. ended \in BOOLEAN
  OBVIOUS
<1>5. /\ v2 \in ViewType /\ v2.opening = 0 /\ v2.lease = a /\ v2.attached = TRUE
      /\ v2.ended = ended /\ v2.gone = v.gone
  BY <1>1, <1>2, <1>4, InstalledFacts
<1>6. /\ Hosted(a, native, subscriber[a], at2[a], leases, Own(cs, a))
      /\ Credited(a, native, subscriber[a], at2[a], wi[a], re, Own(cs, a))
      /\ ~ at2[a].awaiting /\ (native.exited \/ subscriber[a].inflight = at2[a].seq)
  <2>1. PICK s : s = subscriber[a]
    OBVIOUS
  <2>2. PICK t : t = at[a]
    OBVIOUS
  <2>3. PICK t2 : t2 = at2[a]
    OBVIOUS
  <2>4. PICK w : w = wi[a]
    OBVIOUS
  <2>5. PICK q : q = Own(cs, a)
    OBVIOUS
  <2>6. /\ s \in SubType /\ t \in AttType /\ t2 \in AttType /\ w \in WireType
        /\ q \in SUBSET CommandType
        /\ Hosted(a, native, s, t, leases, q) /\ Credited(a, native, s, t, w, re, q)
    BY <1>1, <1>3, <2>1, <2>2, <2>3, <2>4, <2>5 DEF ScreenOf, SubsType, WiresType, Own
  <2>7. /\ t.phase = "replied" /\ t2.phase = "open" /\ t2.awaiting = t.awaiting /\ t2.live = t.live
        /\ t2.seq = t.seq /\ t2.rev = t.rev
    BY <1>3, <2>2, <2>3
  <2>8. /\ Hosted(a, native, s, t2, leases, q) /\ Credited(a, native, s, t2, w, re, q)
        /\ ~ t2.awaiting /\ (native.exited \/ s.inflight = t2.seq)
    <3>1. native \in NativeType
      BY <1>1
    <3>2. PICK nat : nat = native
      OBVIOUS
    <3>3. /\ Hosted(a, nat, s, t2, leases, q) /\ Credited(a, nat, s, t2, w, re, q)
          /\ ~ t2.awaiting /\ (nat.exited \/ (t2.live /\ s.inflight = t2.seq))
      BY <2>6, <2>7, <3>1, <3>2, BaselineKeeps
    <3> QED
      BY <3>2, <3>3
  <2> QED
    BY <2>1, <2>3, <2>4, <2>5, <2>8
<1>7. ScreenOf(native, subscriber, leases, wi, re, cs, at2)
  <2>1. \A b \in Screen!Attachment : b # a => at2[b] = at[b]
    BY <1>3
  <2>2. \A b \in Screen!Attachment : b # a => Own(cs, b) = Own(cs, b)
    OBVIOUS
  <2>3. \A b \in Screen!Attachment : b # a => (b \in re <=> b \in re)
    OBVIOUS
  <2>4. Hosted(a, native, subscriber[a], at2[a], leases, Own(cs, a))
    BY <1>6
  <2>5. Credited(a, native, subscriber[a], at2[a], wi[a], re, Own(cs, a))
    BY <1>6
  <2> QED
    BY <1>1, <2>1, <2>2, <2>3, <2>4, <2>5, WebChanges
<1>8. Viewed(n, native, subscriber, authority, at2, v2)
  <2>1. a = n /\ v.lease = 0 /\ ~ v.gone
    BY <1>1, <1>2 DEF Viewed
  <2>2. \A b \in Screen!Attachment : at2[b] = at[b] \/ (b = a /\ at2[b].phase = "open")
    BY <1>3
  <2>3. \A b \in Screen!Attachment : at2[b].phase = "open" => b = a
    BY <1>1, <1>3, <2>1, TerminalsAssumption DEF Viewed, Screen!Attachment
  <2>4. \A b, c \in Screen!Attachment :
          at2[b].phase = "asked" /\ at[c].phase = "asked" => at[b].phase = "asked" /\ at2[c] = at[c]
    BY <2>2
  <2> QED
    <3>1. /\ \A b \in Screen!Attachment : at2[b].phase # "none" <=> b <= n
          /\ native.exited \/ \A b \in Screen!Attachment : at2[b].phase # "waiting"
          /\ \A b \in Screen!Attachment : at2[b].phase = "open" => v2.lease = b
      BY <1>1, <1>3, <1>5, <2>2, <2>3 DEF Viewed
    <3>2. native.exited \/ \A b, c \in Screen!Attachment :
                              b < c /\ c <= n /\ at2[b].phase = "asked" => at2[c].phase = "asked"
      <4>1. CASE native.exited
        BY <4>1
      <4>2. CASE ~ native.exited
        <5>1. \A b, c \in Screen!Attachment :
                b < c /\ c <= n /\ at[b].phase = "asked" => at[c].phase = "asked"
          BY <1>1, <4>2 DEF Viewed
        <5> QED
          BY <2>4, <5>1, <2>2
      <4> QED
        BY <4>1, <4>2
    <3>3. /\ authority # 0 => subscriber[authority].live
          /\ \A b \in Screen!Attachment : b = n /\ subscriber[b].live => authority = b
      BY <1>1 DEF Viewed
    <3>4. at2[n].phase = "open" /\ v2.lease = n /\ v2.opening = 0 /\ v2.attached /\ ~ v2.gone
      BY <1>3, <1>5, <2>1
    <3>5. ~ at2[v2.lease].awaiting
          /\ (native.exited \/ subscriber[v2.lease].inflight = at2[v2.lease].seq)
      BY <1>5, <1>6
    <3> QED
      BY <1>2, <2>1, <3>1, <3>2, <3>3, <3>4, <3>5 DEF Viewed
<1> QED
  BY <1>1, <1>3, <1>5, <1>7, <1>8 DEF Fits

\* An attachment is answered.
LEMMA AttachReplyKeeps ==
  ASSUME ScreenInv, NEW a \in Screen!Attachment, Screen!AttachReply(a)
  PROVE  ScreenInv'
<1>1. /\ att[a].phase = "replied"
      /\ Screen!Becomes(IF view.opening # a THEN Screen!Closed(Screen!Web, a)
                        ELSE IF att[a].live THEN Screen!Granted(Screen!Baseline(Screen!Web, a))
                        ELSE Screen!Closed(Screen!Stopped(Screen!Baseline(Screen!Web, a)), a))
      /\ UNCHANGED << native, subscriber, authority, leases, events, refused, exitSeen >>
  BY DEF Screen!AttachReply, Screen!hostVars
<1>2. PICK n \in 0..MaxAttach : Fits(events, refused, view, att, calls, n)
  BY FitsNow
<1>3. /\ view \in ViewType /\ events \in WiresType /\ refused \subseteq Screen!Attachment /\ screen \in Nat
      /\ att \in AttsType /\ native \in NativeType /\ subscriber \in SubsType
  BY DEF ScreenInv, ScreenTypes
<1>4. att[a] \in AttType /\ att[a].screen \in Nat
  BY <1>3 DEF AttsType, AttType
<1>5. a \in 0..MaxAttach /\ a # 0
  BY TerminalsAssumption DEF Screen!Attachment
<1>6. CASE view.opening # a
  <2>1. PICK at : at = Put(att, a, Phased(att[a], "closed"))
    OBVIOUS
  <2>2. PICK cs : cs = Append(calls, Command("detach", a, 0))
    OBVIOUS
  <2>3. PICK w : w = W(view, at, cs, screen)
    OBVIOUS
  <2>4. Screen!Closed(Screen!Web, a) = w
    BY <1>1, <2>1, <2>2, <2>3, ClosedIs, WebIs
  <2>5. Screen!Becomes(w)
    BY <1>1, <1>6, <2>4
  <2>6. view' = view /\ att' = at /\ calls' = cs /\ screen' = screen
    BY <2>3, <2>5, BecomesIs
  <2>7. view.lease # a
    BY <1>1, <1>2, <1>5 DEF Fits, Viewed
  <2>8. Fits(events, refused, view, at, cs, n)
    BY <1>1, <1>2, <1>3, <1>6, <2>1, <2>2, <2>7, CloseFits
  <2>9. Fits(events', refused', view', att', calls', n)
    BY <1>1, <2>6, <2>8 DEF Fits
  <2> QED
    BY <1>1, <1>3, <2>6, <2>9, FitsKeeps
<1>7. CASE view.opening = a
  <2>1. PICK at : at = Put(att, a, Phased(att[a], "open"))
    OBVIOUS
  <2>2. PICK ended \in BOOLEAN : ended = (~ att[a].live)
    OBVIOUS
  <2>v. PICK v : v = Installed(view, a, ended)
    OBVIOUS
  <2>3. PICK sh : sh = att[a].screen
    OBVIOUS
  <2>4. PICK w : w = W(v, at, calls, sh)
    OBVIOUS
  <2>5. Screen!Baseline(Screen!Web, a) = w
    <3>1. PICK x : x = W(view, att, calls, screen)
      OBVIOUS
    <3>2. Screen!Baseline(x, a) = w
      BY <1>3, <2>1, <2>2, <2>v, <2>3, <2>4, <3>1, BaselineIs
    <3> QED
      BY <3>1, <3>2, WebIs
  <2>6. Fits(events, refused, v, at, calls, n)
    BY <1>1, <1>2, <1>3, <1>7, <2>1, <2>2, <2>v, InstallFits
  <2>7. CASE att[a].live
    <3>1. Screen!Becomes(Screen!Granted(w))
      BY <1>1, <1>7, <2>5, <2>7
    <3>2. Fits(events, refused, view', att', calls', n) /\ screen' = sh
      BY <1>3, <2>4, <2>6, <3>1, GrantFits
    <3> QED
      BY <1>1, <1>3, <1>4, <2>3, <3>2, FitsKeeps
  <2>8. CASE ~ att[a].live
    <3>1. PICK v2 : v2 = Halted(v)
      OBVIOUS
    <3>2. v \in ViewType /\ v.opening = 0 /\ at \in AttsType /\ at[a].phase = "open"
      <4>1. "open" \in PhaseType
        BY DEF PhaseType
      <4>2. v \in ViewType /\ v.opening = 0
        BY <1>3, <1>5, <2>v, <4>1, InstalledFacts
      <4>3. at \in AttsType /\ at[a].phase = "open"
        BY <1>3, <2>1, <4>1, PhasedAt
      <4> QED
        BY <4>2, <4>3
    <3>3. Fits(events, refused, v2, at, calls, n) /\ v2.ended = TRUE /\ v2.opening = 0
      BY <2>6, <3>1, <3>2, HaltFits
    <3>4. PICK at2 : at2 = Put(at, a, Phased(at[a], "closed"))
      OBVIOUS
    <3>5. PICK cs : cs = Append(calls, Command("detach", a, 0))
      OBVIOUS
    <3>6. PICK w2 : w2 = W(v2, at2, cs, sh)
      OBVIOUS
    <3>7. Screen!Closed(Screen!Stopped(w), a) = w2
      <4>1. Screen!Stopped(w) = W(v2, at, calls, sh)
        BY <2>4, <3>1, StoppedIs
      <4>2. Screen!Closed(W(v2, at, calls, sh), a) = w2
        BY <3>2, <3>4, <3>5, <3>6, ClosedIs
      <4> QED
        BY <4>1, <4>2
    <3>8. Screen!Becomes(w2)
      BY <1>1, <1>7, <2>5, <2>8, <3>7
    <3>9. view' = v2 /\ att' = at2 /\ calls' = cs /\ screen' = sh
      BY <3>6, <3>8, BecomesIs
    <3>10. Fits(events, refused, v2, at2, cs, n)
      BY <1>3, <1>5, <3>2, <3>3, <3>4, <3>5, CloseFits
    <3>11. Fits(events', refused', view', att', calls', n)
      BY <1>1, <3>9, <3>10 DEF Fits
    <3> QED
      BY <1>1, <1>3, <1>4, <2>3, <3>9, <3>11, FitsKeeps
  <2> QED
    BY <2>7, <2>8
<1> QED
  BY <1>6, <1>7

\* A view that has credit for the next screen.
Credits(v) == [v EXCEPT !.credit = TRUE]
\* It keeps the rest.
LEMMA CreditsFacts ==
  ASSUME NEW v \in ViewType
  PROVE  /\ Credits(v) \in ViewType /\ Credits(v).credit = TRUE /\ Credits(v).gone = v.gone
         /\ Credits(v).opening = v.opening /\ Credits(v).lease = v.lease
         /\ Credits(v).attached = v.attached /\ Credits(v).ended = v.ended
  BY DEF Credits, ViewType

\* The webview takes a screen that came.
Gets(w, a, e) == [w EXCEPT !.att[a] = [@ EXCEPT !.awaiting = FALSE, !.seq = e.seq, !.rev = e.rev]]
Takes(w, a, e) ==
  [w EXCEPT !.shown = e.seq, !.view.credit = TRUE,
            !.att[a] = [@ EXCEPT !.awaiting = FALSE, !.seq = e.seq, !.rev = e.rev]]
\* It has the screen, and its view the credit.
LEMMA ReceivedIs ==
  ASSUME NEW v, NEW at, NEW cs, NEW sh, NEW w, w = W(v, at, cs, sh), NEW a, NEW e
  PROVE  Takes(w, a, e) = W(Credits(v), Put(at, a, Received(at[a], e)), cs, e.seq)
<1>1. PICK s : s = e.seq
  OBVIOUS
<1>2. PICK x : x = W(v, at, cs, s)
  OBVIOUS
<1>3. [w EXCEPT !.shown = s] = x
  BY <1>2 DEF W
<1>4. PICK v2 : v2 = Credits(v)
  OBVIOUS
<1>5. PICK y : y = W(v2, at, cs, s)
  OBVIOUS
<1>6. [x EXCEPT !.view.credit = TRUE] = [x EXCEPT !.view = [x.view EXCEPT !.credit = TRUE]]
  OBVIOUS
<1>7. [x EXCEPT !.view = v2] = y /\ x.view = v
  BY <1>2, <1>5, ViewIs
<1>8. PICK t : t = Received(at[a], e)
  OBVIOUS
<1>9. [y EXCEPT !.att[a] = t] = W(v2, Put(at, a, t), cs, s) /\ y.att = at
  BY <1>5 DEF W, Put
<1>10. [x EXCEPT !.view.credit = TRUE] = y
  BY <1>4, <1>6, <1>7 DEF Credits
<1>11. Takes(w, a, e) = Gets([[w EXCEPT !.shown = s] EXCEPT !.view.credit = TRUE], a, e)
  BY <1>1 DEF Takes, Gets
<1>12. Takes(w, a, e) = Gets(y, a, e)
  BY <1>3, <1>10, <1>11
<1>13. Gets(y, a, e) = [y EXCEPT !.att[a] = [y.att[a] EXCEPT !.awaiting = FALSE, !.seq = e.seq, !.rev = e.rev]]
  BY DEF Gets
<1>14. [y.att[a] EXCEPT !.awaiting = FALSE, !.seq = e.seq, !.rev = e.rev] = t
  BY <1>8, <1>9 DEF Received
<1>15. Gets(y, a, e) = W(v2, Put(at, a, t), cs, s)
  BY <1>9, <1>13, <1>14
<1> QED
  BY <1>1, <1>4, <1>8, <1>12, <1>15

\* A screen is received.
LEMMA ReceiveStep ==
  ASSUME ScreenInv, NEW a \in Screen!Attachment, Screen!Receive(a)
  PROVE  ScreenInv'
<1> DEFINE e == Head(events[a])
           expected == att[a].awaiting /\ e.seq >= att[a].seq /\ e.rev > att[a].rev
           next == [Screen!Web EXCEPT !.shown = e.seq, !.view.credit = TRUE,
                      !.att[a] = [@ EXCEPT !.awaiting = FALSE, !.seq = e.seq, !.rev = e.rev]]
           lost == [Screen!Closed(Screen!Stopped(Screen!Web), a) EXCEPT !.att[a].phase = "failed"]
<1>1. /\ events[a] # << >> /\ events' = [events EXCEPT ![a] = Tail(events[a])]
      /\ Screen!Becomes(IF att[a].phase # "open" THEN Screen!Web
                        ELSE IF ~ expected THEN lost ELSE Screen!Granted(next))
      /\ UNCHANGED << native, subscriber, authority, leases, refused, exitSeen >>
  BY DEF Screen!Receive
<1> HIDE DEF e, expected, next, lost
<1>2. PICK n \in 0..MaxAttach : Fits(events, refused, view, att, calls, n)
  BY FitsNow
<1>3. /\ view \in ViewType /\ events \in WiresType /\ refused \subseteq Screen!Attachment /\ screen \in Nat
      /\ att \in AttsType /\ native \in NativeType /\ subscriber \in SubsType
  BY DEF ScreenInv, ScreenTypes
<1>4. PICK w : w = events[a]
  OBVIOUS
<1>5. PICK t : t = att[a]
  OBVIOUS
<1>6. PICK s : s = subscriber[a]
  OBVIOUS
<1>7. PICK q : q = Own(calls, a)
  OBVIOUS
<1>8. /\ s \in SubType /\ t \in AttType /\ w \in WireType /\ w # << >> /\ q \in SUBSET CommandType
      /\ Hosted(a, native, s, t, leases, q) /\ Credited(a, native, s, t, w, refused, q)
  BY <1>1, <1>4, <1>5, <1>6, <1>7, ScreenFacts
<1>9. PICK m : m = w[1]
  OBVIOUS
<1>a. m.seq \in Nat /\ m.rev \in Nat /\ e = m
  BY <1>4, <1>8, <1>9, WireFacts DEF e
<1>b. PICK w2 : w2 = Tail(w)
  OBVIOUS
<1>10. PICK t2 : t2 = Took(t, m)
  OBVIOUS
<1>12. PICK nat : nat = native
  OBVIOUS
<1>13. /\ t2 \in AttType /\ t2.phase = t.phase
       /\ Hosted(a, nat, s, t2, leases, q) /\ Credited(a, nat, s, t2, w2, refused, q)
       /\ t.phase = "open" => /\ t.awaiting /\ m.seq >= t.seq /\ m.rev > t.rev
                              /\ nat.exited \/ s.inflight = t2.seq
  <2>1. /\ nat \in NativeType /\ Hosted(a, nat, s, t, leases, q)
        /\ Credited(a, nat, s, t, w, refused, q)
    BY <1>3, <1>8, <1>12
  <2>2. s \in SubType /\ t \in AttType /\ w \in WireType /\ w # << >> /\ q \in SUBSET CommandType
    BY <1>8
  <2>3. t2 \in AttType /\ t2.phase = t.phase
    BY <1>9, <1>b, <1>10, <2>1, <2>2, ReceiveKeeps
  <2>4. Hosted(a, nat, s, t2, leases, q)
    BY <1>9, <1>b, <1>10, <2>1, <2>2, ReceiveKeeps
  <2>5. Credited(a, nat, s, t2, w2, refused, q)
    BY <1>9, <1>b, <1>10, <2>1, <2>2, ReceiveKeeps
  <2>6. t.phase = "open" => /\ t.awaiting /\ m.seq >= t.seq /\ m.rev > t.rev
                            /\ nat.exited \/ s.inflight = t2.seq
    BY <1>9, <1>b, <1>10, <2>1, <2>2, ReceiveKeeps
  <2> QED
    BY <2>3, <2>4, <2>5, <2>6
<1>11. /\ t.phase = "open" => t2 = Received(t, m) /\ t2.awaiting = FALSE
       /\ t.phase # "open" => t2 = t
  BY <1>8, <1>a, <1>10, ReceivedFacts DEF Took
<1>14. PICK wi : wi = events'
  OBVIOUS
<1>15. /\ wi \in WiresType /\ wi[a] = w2
       /\ \A b \in Screen!Attachment : b # a => wi[b] = events[b]
  BY <1>1, <1>3, <1>4, <1>8, <1>b, <1>14, WireFacts DEF WiresType
<1>16. PICK at : at = Put(att, a, t2)
  OBVIOUS
<1>17. /\ at \in AttsType /\ at[a] = t2 /\ \A b \in Screen!Attachment : b # a => at[b] = att[b]
  BY <1>3, <1>13, <1>16, AttFacts
<1>18. ScreenOf(native, subscriber, leases, wi, refused, calls, at)
  <2>1. \A b \in Screen!Attachment : b # a =>
          /\ subscriber[b] = subscriber[b] /\ wi[b] = events[b] /\ at[b] = att[b]
          /\ Own(calls, b) = Own(calls, b)
          /\ b \in leases <=> b \in leases
          /\ b \in refused <=> b \in refused
    BY <1>15, <1>17
  <2>2. Hosted(a, native, subscriber[a], at[a], leases, Own(calls, a))
    BY <1>6, <1>7, <1>12, <1>13, <1>17
  <2>3. Credited(a, native, subscriber[a], at[a], wi[a], refused, Own(calls, a))
    BY <1>6, <1>7, <1>12, <1>13, <1>15, <1>17
  <2>4. ScreenOf(native, subscriber, leases, events, refused, calls, att)
    BY DEF ScreenInv
  <2> QED
    BY <2>1, <2>2, <2>3, <2>4, AttachmentChanges
<1>19. CASE t.phase # "open"
  <2>1. Screen!Becomes(Screen!Web)
    BY <1>1, <1>5, <1>19
  <2>2. UNCHANGED << view, att, calls, screen >>
    BY <2>1, WebIs, BecomesIs
  <2>3. at = att
    BY <1>3, <1>5, <1>11, <1>16, <1>19 DEF Put, AttsType
  <2>4. Fits(events', refused', view', att', calls', n)
    BY <1>1, <1>2, <1>14, <1>18, <2>2, <2>3 DEF Fits
  <2> QED
    BY <1>1, <1>3, <1>14, <1>15, <2>2, <2>4, FitsKeeps
<1>20. CASE t.phase = "open"
  <2>1. expected
    BY <1>5, <1>a, <1>13, <1>20 DEF expected
  <2>2. Screen!Becomes(Screen!Granted(next))
    BY <1>1, <1>5, <1>20, <2>1
  <2>3. PICK v : v = Credits(view)
    OBVIOUS
  <2>4. PICK sh : sh = e.seq
    OBVIOUS
  <2>5. next = W(v, at, calls, sh)
    <3>1. PICK x : x = W(view, att, calls, screen)
      OBVIOUS
    <3>2. next = Takes(x, a, e)
      BY <3>1, WebIs DEF next, Takes
    <3>3. next = W(Credits(view), Put(att, a, Received(att[a], e)), calls, e.seq)
      BY <3>1, <3>2, ReceivedIs
    <3>4. t2 = Received(att[a], e)
      BY <1>5, <1>a, <1>11, <1>20
    <3> QED
      BY <1>16, <2>3, <2>4, <3>3, <3>4
  <2>6. /\ v \in ViewType /\ v.credit = TRUE /\ v.gone = view.gone /\ v.opening = view.opening
        /\ v.lease = view.lease /\ v.attached = view.attached /\ v.ended = view.ended
    BY <1>3, <2>3, CreditsFacts
  <2>7. Viewed(n, native, subscriber, authority, at, v)
    <3>1. Viewed(n, native, subscriber, authority, att, view)
      BY <1>2 DEF Fits
    <3>2. \A b \in Screen!Attachment : at[b].phase = att[b].phase
      BY <1>5, <1>13, <1>17, <1>20
    <3>3. view.lease = a
      BY <1>5, <1>20, <3>1 DEF Viewed
    <3>4. ~ at[a].awaiting /\ (native.exited \/ subscriber[a].inflight = at[a].seq)
      BY <1>6, <1>11, <1>12, <1>13, <1>17, <1>20
    <3>5. view.opening # 0 => view.opening \in Screen!Attachment
      BY <1>3, TerminalsAssumption DEF ViewType, Screen!Attachment
    <3> QED
      BY <2>6, <3>1, <3>2, <3>3, <3>4, <3>5 DEF Viewed
  <2>8. Fits(wi, refused, v, at, calls, n)
    BY <1>2, <1>17, <1>18, <2>6, <2>7 DEF Fits
  <2>9. Fits(wi, refused, view', att', calls', n) /\ screen' = sh
    BY <1>15, <2>2, <2>5, <2>8, GrantFits
  <2>10. sh \in Nat
    BY <1>a, <2>4
  <2>11. Fits(events', refused', view', att', calls', n)
    BY <1>1, <1>14, <2>9 DEF Fits
  <2> QED
    BY <1>1, <1>3, <1>14, <1>15, <2>9, <2>10, <2>11, FitsKeeps
<1> QED
  BY <1>19, <1>20

\* A view without an attachment fits when none is open.
LEMMA BareFits ==
  ASSUME NEW wi, NEW re, NEW v, NEW v2 \in ViewType, NEW at, NEW cs, NEW n, Fits(wi, re, v, at, cs, n),
         \A b \in Screen!Attachment : at[b].phase # "open",
         v2.opening = 0, v2.lease = 0, ~ v2.attached
  PROVE  Fits(wi, re, v2, at, cs, n)
<1>1. Viewed(n, native, subscriber, authority, at, v)
  BY DEF Fits
<1>2. Viewed(n, native, subscriber, authority, at, v2)
  BY <1>1 DEF Viewed
<1> QED
  BY <1>2 DEF Fits

\* The next attachment was not made.
LEMMA NextIsNew ==
  ASSUME ScreenInv, NEW wi, NEW re, NEW v, NEW at, NEW cs, NEW n \in 0..MaxAttach,
         Fits(wi, re, v, at, cs, n), NEW m \in Screen!Attachment, m = n + 1
  PROVE  /\ at[m].phase = "none" /\ ~ subscriber[m].live
         /\ \A b \in Screen!Attachment : at[b].phase # "none" <=> b < m
<1>1. n \in Int /\ \A b \in Screen!Attachment : b \in Int
  BY TerminalsAssumption DEF Screen!Attachment
<1>2. \A b \in Screen!Attachment : at[b].phase # "none" <=> b <= n
  BY DEF Fits, Viewed
<1>3. \A b \in Screen!Attachment : at[b].phase # "none" <=> b < m
  BY <1>1, <1>2
<1>4. at[m].phase = "none"
  BY <1>1, <1>2
<1>5. Hosted(m, native, subscriber[m], at[m], leases, Own(cs, m))
  BY DEF Fits, ScreenOf
<1>6. subscriber[m] = Screen!NoSub
  BY <1>4, <1>5 DEF Hosted, Unserved
<1> QED
  BY <1>3, <1>4, <1>6, RecordFacts

\* A new attachment that is asked for, or waits until a terminal that exited let go of the last.
LEMMA NextFits ==
  ASSUME ScreenInv, NEW wi \in WiresType, NEW re, NEW v, NEW at, NEW cs, NEW n \in 0..MaxAttach,
         Fits(wi, re, v, at, cs, n), NEW m \in Screen!Attachment, m = n + 1,
         \A b \in Screen!Attachment : at[b].phase # "open",
         NEW v2 \in ViewType, v2.opening = m, v2.lease = 0, ~ v2.attached, ~ v2.gone,
         NEW at2 \in AttsType, at2[m].awaiting = at[m].awaiting,
         \A b \in Screen!Attachment : b # m => at2[b] = at[b],
         NEW cs2,
         \/ at2[m].phase = "asked" /\ cs2 = Append(cs, Command("attach", m, 0))
         \/ native.exited /\ at2[m].phase = "waiting" /\ cs2 = cs
  PROVE  Fits(wi, re, v2, at2, cs2, m)
<1>1. /\ v \in ViewType /\ at \in AttsType /\ Calm(native, cs) /\ native \in NativeType
      /\ subscriber \in SubsType /\ ScreenOf(native, subscriber, leases, wi, re, cs, at)
      /\ Viewed(n, native, subscriber, authority, at, v)
  BY DEF Fits, ScreenInv, ScreenTypes
<1>2. /\ at[m].phase = "none" /\ ~ subscriber[m].live
      /\ \A b \in Screen!Attachment : at[b].phase # "none" <=> b < m
  BY NextIsNew
<1>3. Calm(native, cs2) /\ ScreenOf(native, subscriber, leases, wi, re, cs2, at2)
  <2>1. CASE at2[m].phase = "asked" /\ cs2 = Append(cs, Command("attach", m, 0))
    <3>1. \A b \in Screen!Attachment : at[b].phase = "asked" => b < m
      BY <1>2
    <3>a. at[m].phase \in {"none", "waiting"} /\ at2[m].phase = "asked"
      BY <1>2, <2>1
    <3>b. /\ native \in NativeType /\ subscriber \in SubsType /\ at \in AttsType /\ Calm(native, cs)
          /\ ScreenOf(native, subscriber, leases, wi, re, cs, at)
      BY <1>1
    <3>2. /\ Calm(native, Append(cs, Command("attach", m, 0)))
          /\ ScreenOf(native, subscriber, leases, wi, re, Append(cs, Command("attach", m, 0)), at2)
      BY <3>1, <3>a, <3>b, AskChange
    <3> QED
      BY <2>1, <3>2
  <2>2. CASE native.exited /\ at2[m].phase = "waiting" /\ cs2 = cs
    <3>1. PICK c : c = Command("attach", m, 0)
      OBVIOUS
    <3>2. c \in CommandType
      BY <3>1, CommandFacts
    <3>3. PICK s : s = subscriber[m]
      OBVIOUS
    <3>4. PICK t : t = at[m]
      OBVIOUS
    <3>5. PICK t2 : t2 = at2[m]
      OBVIOUS
    <3>6. PICK w : w = wi[m]
      OBVIOUS
    <3>7. PICK q : q = Own(cs, m)
      OBVIOUS
    <3>8. /\ s \in SubType /\ t \in AttType /\ t2 \in AttType /\ w \in WireType
          /\ q \in SUBSET CommandType
          /\ Hosted(m, native, s, t, leases, q) /\ Credited(m, native, s, t, w, re, q)
      BY <1>1, <3>3, <3>4, <3>5, <3>6, <3>7 DEF ScreenOf, SubsType, AttsType, WiresType, Own
    <3>9. t.phase \in {"none", "waiting"} /\ t2.awaiting = t.awaiting /\ t2.phase = "waiting"
      BY <1>2, <2>2, <3>4, <3>5
    <3>10. Hosted(m, native, s, t2, leases, q)
      BY <1>1, <3>2, <3>8, <3>9, AskKeeps
    <3>11. Credited(m, native, s, t2, w, re, q)
      BY <1>1, <3>2, <3>8, <3>9, AskKeeps
    <3>12. \A b \in Screen!Attachment : b # m => Own(cs, b) = Own(cs, b)
      OBVIOUS
    <3>13. \A b \in Screen!Attachment : b # m => (b \in re <=> b \in re)
      OBVIOUS
    <3>14. Hosted(m, native, subscriber[m], at2[m], leases, Own(cs, m))
      BY <3>3, <3>5, <3>7, <3>10
    <3>15. Credited(m, native, subscriber[m], at2[m], wi[m], re, Own(cs, m))
      BY <3>3, <3>5, <3>6, <3>7, <3>11
    <3>16. ScreenOf(native, subscriber, leases, wi, re, cs, at2)
      BY <1>1, <3>12, <3>13, <3>14, <3>15, WebChanges
    <3> QED
      BY <1>1, <2>2, <3>16
  <2> QED
    BY <2>1, <2>2
<1>4. Viewed(m, native, subscriber, authority, at2, v2)
  <2>1. at2[m].phase \in {"asked", "waiting"} /\ (at2[m].phase = "waiting" => native.exited)
    OBVIOUS
  <2>2. \A b \in Screen!Attachment : at2[b] = at[b] \/ b = m
    OBVIOUS
  <2>3. m \in Int /\ \A b \in Screen!Attachment : b \in Int
    BY TerminalsAssumption DEF Screen!Attachment
  <2>4. \A b \in Screen!Attachment : at2[b].phase # "none" <=> b <= m
    BY <1>2, <2>1, <2>2, <2>3
  <2>5. \A b \in Screen!Attachment : at2[b].phase # "open"
    BY <2>1, <2>2
  <2>6. native.exited \/ \A b \in Screen!Attachment : at2[b].phase # "waiting"
    BY <1>1, <2>1, <2>2 DEF Viewed
  <2>7. native.exited \/ \A b, c \in Screen!Attachment :
                           b < c /\ c <= m /\ at2[b].phase = "asked" => at2[c].phase = "asked"
    <3>1. CASE native.exited
      BY <3>1
    <3>2. CASE ~ native.exited
      <4>1. \A b, c \in Screen!Attachment :
              b < c /\ c <= n /\ at[b].phase = "asked" => at[c].phase = "asked"
        BY <1>1, <3>2 DEF Viewed
      <4>2. at2[m].phase = "asked"
        BY <2>1, <3>2
      <4> SUFFICES ASSUME NEW b \in Screen!Attachment, NEW c \in Screen!Attachment,
                          b < c, c <= m, at2[b].phase = "asked"
                   PROVE  at2[c].phase = "asked"
        OBVIOUS
      <4>3. CASE c = m
        BY <4>2, <4>3
      <4>4. CASE c # m
        <5>1. n \in Int
          BY TerminalsAssumption
        <5>a. b \in Int /\ c \in Int /\ m \in Int
          BY <2>3
        <5>2. c <= n /\ b # m
          BY <4>4, <5>1, <5>a
        <5>3. at2[b] = at[b] /\ at2[c] = at[c]
          BY <2>2, <4>4, <5>2
        <5> QED
          BY <4>1, <5>2, <5>3
      <4> QED
        BY <4>3, <4>4
    <3> QED
      BY <3>1, <3>2
  <2>8. /\ authority # 0 => subscriber[authority].live
        /\ \A b \in Screen!Attachment : b = m /\ subscriber[b].live => authority = b
    BY <1>1, <1>2 DEF Viewed
  <2> QED
    BY <2>1, <2>4, <2>5, <2>6, <2>7, <2>8 DEF Viewed, Unserved
<1> QED
  BY <1>3, <1>4 DEF Fits

\* What the webview becomes when it opens an attachment.
Opens(w, m, last, v) ==
  IF last # 0 THEN InPhase(Preceded(Screen!Closed(w, last), v, m, last), m, "waiting")
  ELSE Screen!Asked(InPhase(Preceded(Screen!Closed(w, last), v, m, last), m, "asked"), "attach", m, 0)
\* The attachment is the next one, and the view has none.
LEMMA OpenedIs ==
  ASSUME NEW v, NEW at, NEW cs, NEW sh, NEW w, w = W(v, at, cs, sh), NEW n,
         Screen!Used = n, ~ exitSeen, ~ v.gone, v.opening = 0, NEW m, m = n + 1
  PROVE  Screen!Opened(w) = Opens(w, m, v.lease, Opening(v, m))
<1>1. w.view = v
  BY DEF W
<1>2. ~ (w.view.gone \/ w.view.opening # 0) /\ Screen!Running
  BY <1>1 DEF Screen!Running
<1>3. Screen!Opened(w) =
        Opens(w, Screen!Used + 1, w.view.lease,
              [w.view EXCEPT !.opening = Screen!Used + 1, !.lease = 0, !.attached = FALSE, !.ended = FALSE])
  BY <1>2 DEF Screen!Opened, Opens, InPhase, Preceded
<1>4. Screen!Used + 1 = m
  OBVIOUS
<1>5. [w.view EXCEPT !.opening = Screen!Used + 1, !.lease = 0, !.attached = FALSE, !.ended = FALSE]
        = Opening(v, m)
  BY <1>1, <1>4 DEF Opening
<1> QED
  BY <1>1, <1>3, <1>4, <1>5

\* The record of an attachment that follows another.
LEMMA FollowsAt ==
  ASSUME NEW at \in AttsType, NEW m \in Screen!Attachment, NEW prev \in 0..MaxAttach, NEW phase \in PhaseType,
         NEW at1, at1 = Put(at, m, Follows(at[m], prev)), NEW at2, at2 = Put(at1, m, Phased(at1[m], phase))
  PROVE  /\ at2 \in AttsType /\ at2[m].phase = phase /\ at2[m].awaiting = at[m].awaiting
         /\ \A b \in Screen!Attachment : b # m => at2[b] = at[b]
<1>1. at[m] \in AttType
  BY DEF AttsType
<1>2. PICK t : t = Follows(at[m], prev)
  OBVIOUS
<1>3. t \in AttType /\ t.awaiting = at[m].awaiting
  BY <1>1, <1>2, FollowFacts
<1>4. /\ at1 \in AttsType /\ at1[m] = t /\ \A b \in Screen!Attachment : b # m => at1[b] = at[b]
  BY <1>2, <1>3, AttFacts
<1>5. /\ at2 \in AttsType /\ at2[m].phase = phase /\ at2[m].awaiting = at1[m].awaiting
      /\ \A b \in Screen!Attachment : b # m => at2[b] = at1[b]
  BY <1>4, PhasedAt
<1> QED
  BY <1>3, <1>4, <1>5

\* A frame after the view was shown, the controller starts.
LEMMA StartKeeps ==
  ASSUME ScreenInv, Screen!Start
  PROVE  ScreenInv'
<1> DEFINE next == [Screen!Web EXCEPT !.view.starting = FALSE]
<1>1. /\ view.attached \/ Screen!Used < MaxAttach
      /\ Screen!Becomes(IF view.attached THEN next
                        ELSE IF exitSeen THEN Screen!Stopped(next) ELSE Screen!Opened(next))
      /\ UNCHANGED << native, subscriber, authority, leases, events, refused, exitSeen >>
  BY DEF Screen!Start, Screen!hostVars, Screen!Running
<1> HIDE DEF next
<1>2. PICK n \in 0..MaxAttach : Fits(events, refused, view, att, calls, n)
  BY FitsNow
<1>3. /\ view \in ViewType /\ events \in WiresType /\ refused \subseteq Screen!Attachment /\ screen \in Nat
      /\ att \in AttsType
  BY DEF ScreenInv, ScreenTypes
<1>4. PICK v : v = [view EXCEPT !.starting = FALSE]
  OBVIOUS
<1>5. /\ v \in ViewType /\ v.gone = view.gone /\ v.opening = view.opening /\ v.lease = view.lease
      /\ v.attached = view.attached /\ v.ended = view.ended /\ v.credit = view.credit
  BY <1>3, <1>4 DEF ViewType
<1>6. PICK w : w = W(v, att, calls, screen)
  OBVIOUS
<1>7. next = w
  <2>1. PICK x : x = W(view, att, calls, screen)
    OBVIOUS
  <2>2. [x EXCEPT !.view.starting = FALSE] = [x EXCEPT !.view = [x.view EXCEPT !.starting = FALSE]]
    OBVIOUS
  <2>3. [x EXCEPT !.view = v] = w /\ x.view = view
    BY <1>6, <2>1, ViewIs
  <2> QED
    BY <1>4, <2>1, <2>2, <2>3, WebIs DEF next
<1>8. Fits(events, refused, v, att, calls, n)
  BY <1>2, <1>5, ViewFits
<1>9. CASE Screen!Becomes(w)
  <2>1. view' = v /\ att' = att /\ calls' = calls /\ screen' = screen
    BY <1>6, <1>9, BecomesIs
  <2>2. Fits(events', refused', view', att', calls', n)
    BY <1>1, <1>8, <2>1 DEF Fits
  <2> QED
    BY <1>1, <1>3, <2>1, <2>2, FitsKeeps
<1>10. CASE ~ view.attached /\ exitSeen
  <2>1. PICK v2 : v2 = Halted(v)
    OBVIOUS
  <2>2. PICK w2 : w2 = W(v2, att, calls, screen)
    OBVIOUS
  <2>3. Screen!Becomes(w2)
    BY <1>1, <1>6, <1>7, <1>10, <2>1, <2>2, StoppedIs
  <2>4. view' = v2 /\ att' = att /\ calls' = calls /\ screen' = screen
    BY <2>2, <2>3, BecomesIs
  <2>5. Fits(events, refused, v2, att, calls, n)
    BY <1>8, <2>1, HaltFits
  <2>6. Fits(events', refused', view', att', calls', n)
    BY <1>1, <2>4, <2>5 DEF Fits
  <2> QED
    BY <1>1, <1>3, <2>4, <2>6, FitsKeeps
<1>11. CASE ~ view.attached /\ ~ exitSeen
  <2>1. Screen!Becomes(Screen!Opened(w))
    BY <1>1, <1>7, <1>11
  <2>2. w.view = v
    BY <1>6 DEF W
  <2>3. CASE v.gone \/ v.opening # 0
    <3>1. Screen!Opened(w) = w
      BY <2>2, <2>3 DEF Screen!Opened
    <3> QED
      BY <1>9, <2>1, <3>1
  <2>4. CASE ~ v.gone /\ v.opening = 0
    <3>1. /\ \A a \in Screen!Attachment : att[a].phase # "none" <=> a <= n
          /\ v.lease = 0 /\ \A b \in Screen!Attachment : att[b].phase # "open"
      <4>1. Viewed(n, native, subscriber, authority, att, view)
        BY <1>2 DEF Fits
      <4>2. view.lease = 0
        BY <1>11, <4>1 DEF Viewed
      <4>3. \A b \in Screen!Attachment : b # 0
        BY TerminalsAssumption DEF Screen!Attachment
      <4> QED
        BY <1>5, <4>1, <4>2, <4>3 DEF Viewed
    <3>2. Screen!Used = n
      BY <3>1, UsedIs
    <3>3. PICK m : m = n + 1
      OBVIOUS
    <3>4. m \in Screen!Attachment /\ m \in 0..MaxAttach
      BY <1>1, <1>11, <3>2, <3>3, TerminalsAssumption DEF Screen!Attachment
    <3>5. PICK v2 : v2 = Opening(v, m)
      OBVIOUS
    <3>6. /\ v2 \in ViewType /\ v2.opening = m /\ v2.lease = 0 /\ v2.attached = FALSE /\ v2.gone = v.gone
      BY <1>5, <3>4, <3>5, OpeningFacts
    <3>7. PICK at1 : at1 = Put(att, m, Follows(att[m], 0))
      OBVIOUS
    <3>8. PICK at2 : at2 = Put(at1, m, Phased(at1[m], "asked"))
      OBVIOUS
    <3>9. "asked" \in PhaseType /\ 0 \in 0..MaxAttach
      BY TerminalsAssumption DEF PhaseType
    <3>10. /\ at2 \in AttsType /\ at2[m].phase = "asked" /\ at2[m].awaiting = att[m].awaiting
           /\ \A b \in Screen!Attachment : b # m => at2[b] = att[b]
      <4>1. PICK phase \in PhaseType : phase = "asked"
        BY <3>9
      <4>2. PICK prev \in 0..MaxAttach : prev = 0
        BY <3>9
      <4>3. at1 = Put(att, m, Follows(att[m], prev)) /\ at2 = Put(at1, m, Phased(at1[m], phase))
        BY <3>7, <3>8, <4>1, <4>2
      <4>4. /\ at2 \in AttsType /\ at2[m].phase = phase /\ at2[m].awaiting = att[m].awaiting
            /\ \A b \in Screen!Attachment : b # m => at2[b] = att[b]
        BY <1>3, <3>4, <4>3, FollowsAt
      <4> QED
        BY <4>1, <4>4
    <3>11. PICK cs : cs = Append(calls, Command("attach", m, 0))
      OBVIOUS
    <3>12. PICK w2 : w2 = W(v2, at2, cs, screen)
      OBVIOUS
    <3>13. Screen!Becomes(w2)
      <4>1. Screen!Opened(w) = Opens(w, m, 0, v2)
        BY <1>6, <1>11, <2>4, <3>1, <3>2, <3>3, <3>5, OpenedIs
      <4>2. Opens(w, m, 0, v2) = Screen!Asked(InPhase(Preceded(w, v2, m, 0), m, "asked"), "attach", m, 0)
        BY ClosedNone DEF Opens
      <4>3. PICK x : x = W(v2, at1, calls, screen)
        OBVIOUS
      <4>4. Preceded(w, v2, m, 0) = x
        BY <1>6, <3>7, <4>3, FollowsIs
      <4>5. InPhase(x, m, "asked") = W(v2, at2, calls, screen)
        BY <3>8, <4>3, PhaseIs
      <4>6. Screen!Asked(W(v2, at2, calls, screen), "attach", m, 0) = w2
        BY <3>11, <3>12, AskedIs
      <4> QED
        BY <2>1, <4>1, <4>2, <4>4, <4>5, <4>6
    <3>14. view' = v2 /\ att' = at2 /\ calls' = cs /\ screen' = screen
      BY <3>12, <3>13, BecomesIs
    <3>15. Fits(events, refused, v2, at2, cs, m)
      <4>1. v2.opening = m /\ v2.lease = 0 /\ ~ v2.attached /\ ~ v2.gone /\ v2 \in ViewType
        BY <2>4, <3>6
      <4>2. \/ at2[m].phase = "asked" /\ cs = Append(calls, Command("attach", m, 0))
            \/ native.exited /\ at2[m].phase = "waiting" /\ cs = calls
        BY <3>10, <3>11
      <4>3. events \in WiresType /\ \A b \in Screen!Attachment : att[b].phase # "open"
        BY <1>3, <3>1
      <4> QED
        BY <1>8, <3>3, <3>4, <3>10, <4>1, <4>2, <4>3, NextFits
    <3>16. Fits(events', refused', view', att', calls', m)
      BY <1>1, <3>14, <3>15 DEF Fits
    <3> QED
      BY <1>1, <1>3, <3>4, <3>14, <3>16, FitsKeeps
  <2> QED
    BY <2>3, <2>4
<1> QED
  BY <1>1, <1>7, <1>9, <1>10, <1>11

\* The view goes with its model.
LEMMA DisposeKeeps ==
  ASSUME ScreenInv, Screen!Dispose
  PROVE  ScreenInv'
<1> DEFINE left == Screen!Closed(Screen!Web, view.lease)
           bare == [Screen!NewView EXCEPT !.gone = TRUE]
<1>1. /\ Screen!Becomes([left EXCEPT !.view = bare, !.shown = 0])
      /\ UNCHANGED << native, subscriber, authority, leases, events, refused, exitSeen >>
  BY DEF Screen!Dispose, Screen!hostVars
<1>2. bare \in ViewType /\ bare.opening = 0 /\ bare.lease = 0 /\ ~ bare.attached
  <2>1. 0 \in 0..MaxAttach
    BY TerminalsAssumption
  <2>2. PICK v : v = Screen!NewView
    OBVIOUS
  <2>3. v \in ViewType /\ v.opening = 0 /\ v.lease = 0 /\ v.attached = FALSE
    BY <2>1, <2>2 DEF Screen!NewView, ViewType
  <2> QED
    BY <2>2, <2>3 DEF ViewType
<1> HIDE DEF left, bare
<1>3. PICK n \in 0..MaxAttach : Fits(events, refused, view, att, calls, n)
  BY FitsNow
<1>4. /\ view \in ViewType /\ events \in WiresType /\ refused \subseteq Screen!Attachment /\ screen \in Nat
      /\ att \in AttsType
  BY DEF ScreenInv, ScreenTypes
<1>5. Viewed(n, native, subscriber, authority, att, view)
  BY <1>3 DEF Fits
<1>6. ASSUME NEW x, NEW v, NEW at, NEW cs, left = W(x, at, cs, screen), Fits(events, refused, v, at, cs, n),
             \A b \in Screen!Attachment : at[b].phase # "open"
      PROVE  ScreenInv'
  <2>1. PICK w : w = [left EXCEPT !.view = bare, !.shown = 0]
    OBVIOUS
  <2>2. w.view = bare /\ w.att = at /\ w.calls = cs /\ w.shown = 0
    BY <1>6, <2>1 DEF W
  <2>3. Screen!Becomes(w)
    BY <1>1, <2>1
  <2>4. view' = bare /\ att' = at /\ calls' = cs /\ screen' = 0
    BY <2>2, <2>3 DEF Screen!Becomes
  <2>5. Fits(events, refused, bare, at, cs, n)
    BY <1>2, <1>6, BareFits
  <2>6. Fits(events', refused', view', att', calls', n)
    BY <1>1, <2>4, <2>5 DEF Fits
  <2> QED
    BY <1>1, <1>4, <2>4, <2>6, FitsKeeps
<1>7. \A b \in Screen!Attachment : b # 0
  BY TerminalsAssumption DEF Screen!Attachment
<1>8. CASE view.lease = 0
  <2>1. left = W(view, att, calls, screen)
    BY <1>8, ClosedNone, WebIs DEF left
  <2>2. \A b \in Screen!Attachment : att[b].phase # "open"
    BY <1>5, <1>7, <1>8 DEF Viewed
  <2> QED
    BY <1>3, <1>6, <2>1, <2>2
<1>9. CASE view.lease # 0
  <2>1. PICK a \in Screen!Attachment : a = view.lease
    BY <1>4, <1>9, TerminalsAssumption DEF ViewType, Screen!Attachment
  <2>2. /\ att[a].phase \in {"open", "closed"} /\ view.opening = 0
        /\ \A b \in Screen!Attachment : att[b].phase = "open" => a = b
    BY <1>5, <1>9, <2>1 DEF Viewed
  <2>3. CASE att[a].phase = "closed"
    <3>1. left = W(view, att, calls, screen)
      BY <2>1, <2>3, ClosedNot, WebIs DEF left
    <3> QED
      BY <1>3, <1>6, <2>2, <2>3, <3>1
  <2>4. CASE att[a].phase = "open"
    <3>1. PICK at : at = Put(att, a, Phased(att[a], "closed"))
      OBVIOUS
    <3>2. PICK cs : cs = Append(calls, Command("detach", a, 0))
      OBVIOUS
    <3>3. left = W(view, at, cs, screen)
      BY <2>1, <2>4, <3>1, <3>2, ClosedIs, WebIs DEF left
    <3>4. PICK v : v = Halted(view)
      OBVIOUS
    <3>5. Fits(events, refused, v, att, calls, n) /\ v.ended = TRUE /\ v.opening = 0
      BY <1>3, <2>2, <3>4, HaltFits
    <3>6. Fits(events, refused, v, at, cs, n)
      BY <1>4, <1>7, <2>4, <3>1, <3>2, <3>5, CloseFits
    <3>7. "closed" \in PhaseType
      BY DEF PhaseType
    <3>8. at[a].phase = "closed" /\ \A b \in Screen!Attachment : b # a => at[b] = att[b]
      BY <1>4, <3>1, <3>7, PhasedAt
    <3>9. \A b \in Screen!Attachment : at[b].phase # "open"
      BY <2>2, <3>8
    <3> QED
      BY <1>6, <3>3, <3>6, <3>9
  <2> QED
    BY <2>2, <2>3, <2>4
<1> QED
  BY <1>8, <1>9

\* A refused credit is forgotten; an attachment that is open waits no more.
LEMMA SilentFits ==
  ASSUME ScreenInv, NEW n, Fits(events, refused, view, att, calls, n), NEW a \in Screen!Attachment,
         a \in refused, NEW re, re = refused \ {a},
         NEW at, at = IF att[a].phase = "open" THEN Put(att, a, Silent(att[a])) ELSE att
  PROVE  /\ Fits(events, re, view, at, calls, n)
         /\ att[a].phase = "open" => native.exited /\ at[a].phase = "open"
<1>1. /\ view \in ViewType /\ att \in AttsType /\ Calm(native, calls) /\ native \in NativeType
      /\ subscriber \in SubsType /\ events \in WiresType
      /\ ScreenOf(native, subscriber, leases, events, refused, calls, att)
      /\ Viewed(n, native, subscriber, authority, att, view)
  BY DEF Fits, ScreenInv, ScreenTypes
<1>2. PICK t : t = att[a]
  OBVIOUS
<1>3. PICK t2 : t2 = IF t.phase = "open" THEN Silent(t) ELSE t
  OBVIOUS
<1>4. t \in AttType
  BY <1>1, <1>2 DEF AttsType
<1>5. /\ t2 \in AttType /\ t2.phase = t.phase /\ t2.live = t.live /\ t2.seq = t.seq /\ t2.rev = t.rev
      /\ t.phase = "open" => t2.awaiting = FALSE
      /\ t.phase # "open" => t2 = t
  <2>1. CASE t.phase = "open"
    <3>1. 0 \in 0..MaxAttach /\ t2 = Silent(t)
      BY <1>3, <2>1, TerminalsAssumption
    <3> QED
      BY <1>4, <2>1, <3>1, FollowFacts
  <2>2. CASE t.phase # "open"
    BY <1>3, <1>4, <2>2
  <2> QED
    BY <2>1, <2>2
<1>6. /\ at \in AttsType /\ at[a] = t2 /\ \A b \in Screen!Attachment : b # a => at[b] = att[b]
  <2>1. CASE t.phase = "open"
    <3>1. at = Put(att, a, t2)
      BY <1>2, <1>3, <2>1
    <3> QED
      BY <1>1, <1>5, <3>1, AttFacts
  <2>2. CASE t.phase # "open"
    BY <1>1, <1>2, <1>5, <2>2
  <2> QED
    BY <2>1, <2>2
<1>7. PICK s : s = subscriber[a]
  OBVIOUS
<1>8. PICK w : w = events[a]
  OBVIOUS
<1>9. PICK q : q = Own(calls, a)
  OBVIOUS
<1>10. /\ s \in SubType /\ w \in WireType /\ q \in SUBSET CommandType
       /\ Hosted(a, native, s, t, leases, q) /\ Credited(a, native, s, t, w, refused, q)
  BY <1>1, <1>2, <1>7, <1>8, <1>9 DEF ScreenOf, SubsType, WiresType, Own
<1>11. t.phase \in {"open", "closed"} /\ (t.phase = "open" => native.exited)
  BY <1>10 DEF Credited
<1>12. t.phase = "open" => ~ On(q, "credit") /\ w = << >> /\ ~ s.live
  <2>1. t.phase = "open" => ~ On(q, "credit")
    BY <1>10 DEF Credited
  <2>2. t.phase = "open" => w = << >>
    BY <1>10 DEF Credited
  <2>3. t.phase = "open" => ~ s.live
    BY <1>10, <1>11 DEF Hosted
  <2> QED
    BY <2>1, <2>2, <2>3
<1>13. a \notin re
  OBVIOUS
<1>14. Hosted(a, native, s, t2, leases, q)
  BY <1>5, <1>10, <1>11 DEF Hosted, Unserved
<1>15. Credited(a, native, s, t2, w, re, q)
  <2>1. CASE t.phase = "open"
    <3>1. ~ s.credit
      BY <1>10, <1>12, <2>1 DEF Credited
    <3>2. \A c \in q : c.op # "credit"
      BY <1>12, <2>1 DEF On
    <3> QED
      BY <1>5, <1>12, <1>13, <2>1, <3>1, <3>2 DEF Credited
  <2>2. CASE t.phase # "open"
    BY <1>5, <1>10, <1>11, <1>13, <2>2 DEF Credited
  <2> QED
    BY <2>1, <2>2
<1>16. ScreenOf(native, subscriber, leases, events, re, calls, at)
  <2>1. \A b \in Screen!Attachment : b # a => at[b] = att[b]
    BY <1>6
  <2>2. \A b \in Screen!Attachment : b # a => Own(calls, b) = Own(calls, b)
    OBVIOUS
  <2>3. \A b \in Screen!Attachment : b # a => (b \in re <=> b \in refused)
    OBVIOUS
  <2>4. Hosted(a, native, subscriber[a], at[a], leases, Own(calls, a))
    BY <1>6, <1>7, <1>9, <1>14
  <2>5. Credited(a, native, subscriber[a], at[a], events[a], re, Own(calls, a))
    BY <1>6, <1>7, <1>8, <1>9, <1>15
  <2> QED
    BY <1>1, <2>1, <2>2, <2>3, <2>4, <2>5, WebChanges
<1>17. Viewed(n, native, subscriber, authority, at, view)
  <2>1. \A b \in Screen!Attachment : at[b].phase = att[b].phase
    BY <1>2, <1>5, <1>6
  <2>2. \A b \in Screen!Attachment :
          /\ ~ att[b].awaiting => ~ at[b].awaiting
          /\ at[b].seq = att[b].seq
    <3>1. ~ t.awaiting => ~ t2.awaiting
      BY <1>5
    <3> QED
      BY <1>2, <1>5, <1>6, <3>1
  <2>3. /\ view.opening # 0 => view.opening \in Screen!Attachment
        /\ view.lease # 0 => view.lease \in Screen!Attachment
    BY <1>1, TerminalsAssumption DEF ViewType, Screen!Attachment
  <2> QED
    BY <1>1, <2>1, <2>2, <2>3 DEF Viewed
<1>18. t.phase = "open" => native.exited /\ at[a].phase = "open"
  BY <1>5, <1>6, <1>11
<1> QED
  BY <1>1, <1>2, <1>6, <1>16, <1>17, <1>18 DEF Fits

\* The view recovers from a credit that was refused.
LEMMA CreditRefusedKeeps ==
  ASSUME ScreenInv, NEW a \in Screen!Attachment, Screen!CreditRefused(a)
  PROVE  ScreenInv'
<1> DEFINE silent == [Screen!Web EXCEPT !.att[a].awaiting = FALSE]
<1>1. /\ a \in refused /\ Screen!Used < MaxAttach /\ refused' = refused \ {a}
      /\ Screen!Becomes(IF att[a].phase # "open" THEN Screen!Web
                        ELSE Screen!Closed(Screen!Recovered(silent), a))
      /\ UNCHANGED << native, subscriber, authority, leases, events, exitSeen >>
  BY DEF Screen!CreditRefused, Screen!hostVars
<1> HIDE DEF silent
<1>2. PICK n \in 0..MaxAttach : Fits(events, refused, view, att, calls, n)
  BY FitsNow
<1>3. /\ view \in ViewType /\ events \in WiresType /\ refused \subseteq Screen!Attachment /\ screen \in Nat
      /\ att \in AttsType
  BY DEF ScreenInv, ScreenTypes
<1>4. PICK re : re = refused \ {a}
  OBVIOUS
<1>5. PICK at : at = IF att[a].phase = "open" THEN Put(att, a, Silent(att[a])) ELSE att
  OBVIOUS
<1>6. Fits(events, re, view, at, calls, n)
  BY <1>1, <1>2, <1>4, <1>5, SilentFits
<1>7. att[a].phase = "open" => native.exited /\ at[a].phase = "open"
  BY <1>1, <1>2, <1>4, <1>5, SilentFits
<1>8. refused' = re /\ re \subseteq Screen!Attachment
  BY <1>1, <1>3, <1>4
<1>9. ASSUME NEW v, NEW at2, NEW cs, NEW w, w = W(v, at2, cs, screen), Screen!Becomes(w),
             NEW m \in 0..MaxAttach, Fits(events, re, v, at2, cs, m)
      PROVE  ScreenInv'
  <2>1. view' = v /\ att' = at2 /\ calls' = cs /\ screen' = screen
    BY <1>9, BecomesIs
  <2>2. Fits(events', refused', view', att', calls', m)
    BY <1>1, <1>8, <1>9, <2>1 DEF Fits
  <2> QED
    BY <1>1, <1>3, <1>8, <2>1, <2>2, FitsKeeps
<1>10. CASE att[a].phase # "open"
  <2>1. at = att
    BY <1>5, <1>10
  <2>2. PICK w : w = W(view, att, calls, screen)
    OBVIOUS
  <2>3. Screen!Becomes(w)
    BY <1>1, <1>10, <2>2, WebIs
  <2>4. Fits(events, re, view, att, calls, n)
    BY <1>6, <2>1
  <2> QED
    BY <1>9, <2>2, <2>3, <2>4
<1>11. CASE att[a].phase = "open"
  <2>1. PICK w : w = W(view, at, calls, screen)
    OBVIOUS
  <2>2. silent = w
    <3>1. PICK x : x = W(view, att, calls, screen)
      OBVIOUS
    <3>2. silent = Silenced(x, a)
      BY <3>1, WebIs DEF silent, Silenced
    <3>3. Silenced(x, a) = W(view, Put(att, a, Silent(att[a])), calls, screen)
      BY <3>1, SilentIs
    <3> QED
      BY <1>5, <1>11, <2>1, <3>2, <3>3
  <2>3. Screen!Becomes(Screen!Closed(Screen!Recovered(w), a))
    BY <1>1, <1>11, <2>2
  <2>4. w.view = view
    BY <2>1 DEF W
  <2>5. Viewed(n, native, subscriber, authority, at, view) /\ at \in AttsType
    BY <1>6 DEF Fits
  <2>6. /\ at[a].phase = "open" /\ native.exited /\ a \in 0..MaxAttach /\ a # 0
    BY <1>7, <1>11, TerminalsAssumption DEF Screen!Attachment
  <2>7. view.lease = a /\ a = n /\ ~ view.gone /\ view.opening = 0
    BY <2>5, <2>6 DEF Viewed
  <2>8. PICK at1 : at1 = Put(at, a, Phased(at[a], "closed"))
    OBVIOUS
  <2>9. PICK cs : cs = Append(calls, Command("detach", a, 0))
    OBVIOUS
  <2>10. PICK h : h = Halted(view)
    OBVIOUS
  <2>11. Fits(events, re, h, at, calls, n)
    BY <1>6, <2>10, HaltFits
  <2>12. h.ended = TRUE /\ h.lease = a /\ h.opening = 0
    <3>1. view \in ViewType
      BY <1>6 DEF Fits
    <3> QED
      BY <2>7, <2>10, <3>1 DEF Halted, ViewType
  <2>13. Fits(events, re, h, at1, cs, n)
    BY <1>3, <2>6, <2>8, <2>9, <2>11, <2>12, CloseFits
  <2>14. CASE view.ended
    <3>1. Screen!Recovered(w) = w
      BY <2>4, <2>14 DEF Screen!Recovered
    <3>2. PICK w2 : w2 = W(view, at1, cs, screen)
      OBVIOUS
    <3>3. Screen!Closed(w, a) = w2
      BY <2>1, <2>6, <2>8, <2>9, <3>2, ClosedIs
    <3>4. Fits(events, re, view, at1, cs, n)
      BY <1>3, <1>6, <2>6, <2>7, <2>8, <2>9, <2>14, CloseFits
    <3>5. Screen!Becomes(w2)
      BY <2>3, <3>1, <3>3
    <3> QED
      BY <1>9, <3>2, <3>4, <3>5
  <2>15. CASE ~ view.ended /\ exitSeen
    <3>1. Screen!Recovered(w) = W(h, at, calls, screen)
      <4>1. Screen!Recovered(w) = Screen!Stopped(w)
        BY <2>4, <2>7, <2>15 DEF Screen!Recovered, Screen!Running
      <4> QED
        BY <2>1, <2>10, <4>1, StoppedIs
    <3>2. PICK w2 : w2 = W(h, at1, cs, screen)
      OBVIOUS
    <3>3. Screen!Closed(W(h, at, calls, screen), a) = w2
      BY <2>6, <2>8, <2>9, <3>2, ClosedIs
    <3>4. Screen!Becomes(w2)
      BY <2>3, <3>1, <3>3
    <3> QED
      BY <1>9, <2>13, <3>2, <3>4
  <2>16. CASE ~ view.ended /\ ~ exitSeen
    <3>1. PICK v : v = Given(view)
      OBVIOUS
    <3>2. /\ v \in ViewType /\ v.gone = view.gone /\ v.opening = view.opening /\ v.lease = view.lease
      BY <1>3, <3>1, GivenFacts
    <3>3. PICK w1 : w1 = W(v, at, calls, screen)
      OBVIOUS
    <3>4. Screen!Recovered(w) = Screen!Opened(w1)
      <4>1. Screen!Recovered(w) = Screen!Opened([w EXCEPT !.view.credit = FALSE])
        BY <2>4, <2>7, <2>16 DEF Screen!Recovered, Screen!Running
      <4>2. [w EXCEPT !.view.credit = FALSE] = [w EXCEPT !.view = [w.view EXCEPT !.credit = FALSE]]
        OBVIOUS
      <4>3. [w EXCEPT !.view = v] = w1
        BY <2>1, <3>3, ViewIs
      <4> QED
        BY <2>4, <3>1, <4>1, <4>2, <4>3 DEF Given
    <3>5. Screen!Used = n
      <4>1. \A b \in Screen!Attachment : att[b].phase # "none" <=> b <= n
        BY <1>2 DEF Fits, Viewed
      <4> QED
        BY <4>1, UsedIs
    <3>6. PICK m : m = n + 1
      OBVIOUS
    <3>7. m \in Screen!Attachment /\ m \in 0..MaxAttach /\ m # a
      BY <1>1, <2>7, <3>5, <3>6, TerminalsAssumption DEF Screen!Attachment
    <3>8. PICK v2 : v2 = Opening(v, m)
      OBVIOUS
    <3>9. /\ v2 \in ViewType /\ v2.opening = m /\ v2.lease = 0 /\ v2.attached = FALSE /\ v2.gone = v.gone
      BY <3>2, <3>7, <3>8, OpeningFacts
    <3>10. PICK phase \in PhaseType : phase = "waiting"
      BY DEF PhaseType
    <3>11. PICK at2 : at2 = Put(at1, m, Follows(at1[m], a))
      OBVIOUS
    <3>12. PICK at3 : at3 = Put(at2, m, Phased(at2[m], phase))
      OBVIOUS
    <3>13. PICK shut \in PhaseType : shut = "closed"
      BY DEF PhaseType
    <3>14. /\ at1 \in AttsType /\ at1[a].phase = "closed"
           /\ \A b \in Screen!Attachment : b # a => at1[b] = at[b]
      <4>1. at1 = Put(at, a, Phased(at[a], shut))
        BY <2>8, <3>13
      <4> QED
        BY <2>5, <3>13, <4>1, PhasedAt
    <3>15. /\ at3 \in AttsType /\ at3[m].phase = "waiting" /\ at3[m].awaiting = at1[m].awaiting
           /\ \A b \in Screen!Attachment : b # m => at3[b] = at1[b]
      <4>1. m \in Screen!Attachment /\ a \in 0..MaxAttach /\ at1 \in AttsType /\ phase \in PhaseType
        BY <2>6, <3>7, <3>10, <3>14
      <4>2. /\ at3 \in AttsType /\ at3[m].phase = phase /\ at3[m].awaiting = at1[m].awaiting
            /\ \A b \in Screen!Attachment : b # m => at3[b] = at1[b]
        BY <3>11, <3>12, <4>1, FollowsAt, SMTT(60)
      <4> QED
        BY <3>10, <4>2
    <3>16. \A b \in Screen!Attachment : at1[b].phase # "open"
      <4>1. \A b \in Screen!Attachment : at[b].phase = "open" => b = a
        BY <2>5, <2>7 DEF Viewed
      <4> QED
        BY <3>14, <4>1
    <3>17. Fits(events, re, v2, at3, cs, m)
      <4>1. v2.opening = m /\ v2.lease = 0 /\ ~ v2.attached /\ ~ v2.gone /\ v2 \in ViewType
        BY <2>7, <3>2, <3>9
      <4>2. \/ at3[m].phase = "asked" /\ cs = Append(cs, Command("attach", m, 0))
            \/ native.exited /\ at3[m].phase = "waiting" /\ cs = cs
        BY <2>6, <3>15
      <4> QED
        BY <1>3, <2>13, <3>6, <3>7, <3>15, <3>16, <4>1, <4>2, NextFits, SMTT(60)
    <3>18. PICK w2 : w2 = W(v2, at3, cs, screen)
      OBVIOUS
    <3>19. Screen!Opened(w1) = w2
      <4>1. Screen!Opened(w1) = Opens(w1, m, a, v2)
        BY <2>7, <2>16, <3>2, <3>3, <3>5, <3>6, <3>8, OpenedIs
      <4>2. PICK y : y = W(v, at1, cs, screen)
        OBVIOUS
      <4>3. Screen!Closed(w1, a) = y
        BY <2>6, <2>8, <2>9, <3>3, <4>2, ClosedIs
      <4>4. Opens(w1, m, a, v2) = InPhase(Preceded(y, v2, m, a), m, phase)
        BY <2>6, <3>10, <4>3 DEF Opens
      <4>5. PICK x : x = W(v2, at2, cs, screen)
        OBVIOUS
      <4>6. Preceded(y, v2, m, a) = x
        BY <3>11, <4>2, <4>5, FollowsIs
      <4>7. InPhase(x, m, phase) = w2
        BY <3>12, <3>18, <4>5, PhaseIs
      <4> QED
        BY <4>1, <4>4, <4>6, <4>7
    <3>20. Screen!Closed(w2, a) = w2
      <4>1. at3[a].phase \notin {"open", "replied"}
        BY <3>7, <3>14, <3>15
      <4> QED
        BY <3>18, <4>1, ClosedNot
    <3>21. Screen!Becomes(w2)
      BY <2>3, <3>4, <3>19, <3>20
    <3> QED
      BY <1>9, <3>7, <3>17, <3>18, <3>21
  <2> QED
    BY <2>14, <2>15, <2>16
<1> QED
  BY <1>10, <1>11

\* Before anything happened, the invariant holds.
LEMMA ScreenStarts == Screen!Init => ScreenInv
<1> SUFFICES ASSUME Screen!Init PROVE ScreenInv
  OBVIOUS
<1>1. /\ native = [seq |-> 0, rev |-> 1, screen |-> 0, screenRev |-> 1, exited |-> FALSE]
      /\ authority = 0 /\ leases = {} /\ calls = << >> /\ refused = {}
      /\ subscriber = [a \in Screen!Attachment |-> Screen!NoSub]
      /\ events = [a \in Screen!Attachment |-> << >>]
      /\ att = [a \in Screen!Attachment |-> Screen!NoAtt]
      /\ view = Screen!NewView /\ screen = 0 /\ exitSeen = FALSE
  BY DEF Screen!Init
<1>2. MaxAttach \in Nat /\ MaxOutput \in Nat /\ 0 \in 0..MaxAttach
  BY TerminalsAssumption
<1>3. native \in NativeType /\ Shows(native) /\ ~ native.exited
  BY <1>1, <1>2 DEF NativeType, Shows
<1>4. subscriber \in SubsType
  BY <1>1 DEF SubsType, SubType, Screen!NoSub
<1>5. events \in WiresType
  <2>1. << >> \in WireType
    BY DEF WireType
  <2> QED
    BY <1>1, <2>1 DEF WiresType
<1>6. att \in AttsType
  <2>1. Screen!NoAtt \in AttType
    BY <1>2 DEF AttType, Screen!NoAtt
  <2> QED
    BY <1>1, <2>1 DEF AttsType
<1>7. view \in ViewType
  BY <1>1, <1>2 DEF ViewType, Screen!NewView
<1>8. calls \in Seq(CommandType)
  BY <1>1
<1>9. ScreenTypes
  BY <1>1, <1>2, <1>3, <1>4, <1>5, <1>6, <1>7, <1>8 DEF ScreenTypes
<1>10. Once(calls) /\ InTurn(calls)
  BY <1>1 DEF Once, InTurn
<1>11. ScreenOf(native, subscriber, leases, events, refused, calls, att)
  <2> SUFFICES ASSUME NEW a \in Screen!Attachment
               PROVE  /\ Hosted(a, native, subscriber[a], att[a], leases, Own(calls, a))
                      /\ Credited(a, native, subscriber[a], att[a], events[a], refused, Own(calls, a))
    BY DEF ScreenOf
  <2>1. Own(calls, a) = {}
    BY <1>1 DEF Own
  <2>2. subscriber[a] = Screen!NoSub /\ att[a] = Screen!NoAtt /\ events[a] = << >>
    BY <1>1
  <2>3. /\ Screen!NoAtt.phase = "none" /\ Screen!NoAtt.awaiting = FALSE
        /\ Screen!NoSub.live = FALSE /\ Screen!NoSub.credit = FALSE
    BY DEF Screen!NoAtt, Screen!NoSub
  <2>4. ~ On({}, "attach") /\ ~ On({}, "detach") /\ ~ On({}, "credit")
    BY DEF On
  <2>5. Hosted(a, native, subscriber[a], att[a], leases, Own(calls, a))
    BY <1>1, <2>1, <2>2, <2>3, <2>4 DEF Hosted, Unserved
  <2>6. Credited(a, native, subscriber[a], att[a], events[a], refused, Own(calls, a))
    BY <1>1, <2>1, <2>2, <2>3, <2>4 DEF Credited
  <2> QED
    BY <2>5, <2>6
<1>12. Viewed(0, native, subscriber, authority, att, view)
  <2>1. \A a \in Screen!Attachment :
          /\ att[a].phase = "none" /\ att[a].awaiting = FALSE /\ subscriber[a].live = FALSE
          /\ ~ a <= 0
    BY <1>1, <1>2 DEF Screen!NoAtt, Screen!NoSub, Screen!Attachment
  <2>2. view.opening = 0 /\ view.lease = 0 /\ view.attached = FALSE /\ view.credit = FALSE
    BY <1>1 DEF Screen!NewView
  <2> QED
    BY <1>1, <2>1, <2>2 DEF Viewed
<1> QED
  BY <1>1, <1>2, <1>3, <1>9, <1>10, <1>11, <1>12 DEF ScreenInv

\* Every step keeps it.
LEMMA ScreenKept ==
  ASSUME ScreenInv, Screen!Next \/ UNCHANGED screenVars
  PROVE  ScreenInv'
<1>1. CASE Screen!Next
  <2>1. CASE Screen!Output \/ Screen!Revise
    BY <2>1, OutputKeeps
  <2>2. CASE Screen!Exit \/ Screen!SeeExit
    BY <2>2, EndKeeps
  <2>3. CASE Screen!Serving
    BY <2>3, ServeAttachStep, ServeCreditStep, ServeDetachStep DEF Screen!Serving
  <2>4. CASE Screen!Reacting
    BY <2>4, AskAttachKeeps, AttachReplyKeeps, ReceiveStep, CreditRefusedKeeps
       DEF Screen!Reacting
  <2>5. CASE Screen!Reveal \/ Screen!Start
    BY <2>5, RevealKeeps, StartKeeps
  <2>6. CASE Screen!Conceal \/ Screen!Dispose \/ Screen!Mount
    BY <2>6, ConcealKeeps, DisposeKeeps, MountKeeps
  <2> QED
    BY <1>1, <2>1, <2>2, <2>3, <2>4, <2>5, <2>6 DEF Screen!Next
<1>2. CASE UNCHANGED screenVars
  BY <1>2 DEF screenVars, ScreenInv, ScreenTypes
<1> QED
  BY <1>1, <1>2

\* The types of the invariant are those of the module.
LEMMA ScreenTyped == ScreenInv => Screen!TypeOK
  BY DEF ScreenInv, ScreenTypes, NativeType, SubsType, SubType, WiresType, WireType,
        CommandType,
     AttsType, AttType, ViewType, Screen!TypeOK

\* The adapter and the actor count the same credit.
LEMMA CreditAgrees == ScreenInv => Screen!ProtocolHolds
<1> SUFFICES ASSUME ScreenInv, NEW a \in Screen!Attachment
             PROVE  att[a].phase # "failed" /\ Len(events[a]) <= 1
  BY DEF Screen!ProtocolHolds
<1>1. /\ Hosted(a, native, subscriber[a], att[a], leases, Own(calls, a))
      /\ Credited(a, native, subscriber[a], att[a], events[a], refused, Own(calls, a))
  BY DEF ScreenInv, ScreenOf
<1>2. att[a].phase # "failed"
  BY <1>1 DEF Hosted
<1>3. PICK w : w = events[a]
  OBVIOUS
<1>4. w # << >> => Len(w) = 1
  <2>1. Credited(a, native, subscriber[a], att[a], w, refused, Own(calls, a))
    BY <1>1, <1>3
  <2> QED
    BY <2>1 DEF Credited
<1>5. Len(w) <= 1
  <2>1. CASE w = << >>
    BY <2>1
  <2>2. CASE w # << >>
    <3>1. Len(w) = 1
      BY <1>4, <2>2
    <3>2. \A k : k = 1 => k <= 1
      OBVIOUS
    <3> QED
      BY <3>1, <3>2
  <2> QED
    BY <2>1, <2>2
<1> QED
  BY <1>2, <1>3, <1>5

\* When all is settled, what the host keeps is the view's.
LEMMA NothingOfViewsLeft == ScreenInv => Screen!NothingLeft
<1> SUFFICES ASSUME ScreenInv, Screen!Settled, NEW a \in Screen!Attachment
             PROVE  /\ subscriber[a].live \/ a \in leases \/ authority = a => view.lease = a
                    /\ view.lease = a /\ subscriber[a].live => authority = a
  BY DEF Screen!NothingLeft
<1>1. Hosted(a, native, subscriber[a], att[a], leases, Own(calls, a))
  BY DEF ScreenInv, ScreenOf
<1>2. PICK n \in 0..MaxAttach : Viewed(n, native, subscriber, authority, att, view)
  BY DEF ScreenInv
<1>3. a # 0
  BY TerminalsAssumption DEF Screen!Attachment
<1>4. ~ On(Own(calls, a), "detach")
  <2>1. Own(calls, a) = {}
    BY DEF Screen!Settled, Own
  <2> QED
    BY <2>1 DEF On
<1>5. att[a].phase # "replied"
  BY DEF Screen!Settled
<1>6. a \in leases => att[a].phase = "open"
  BY <1>1, <1>4, <1>5 DEF Hosted
<1>7. subscriber[a].live => a \in leases
  BY <1>1 DEF Hosted
<1>8. authority = a => subscriber[a].live
  BY <1>2, <1>3 DEF Viewed
<1>9. att[a].phase = "open" => view.lease = a
  BY <1>2 DEF Viewed
<1>10. view.lease = a => a = n
  BY <1>2, <1>3 DEF Viewed
<1>11. a = n /\ subscriber[a].live => authority = a
  BY <1>2 DEF Viewed
<1> QED
  BY <1>6, <1>7, <1>8, <1>9, <1>10, <1>11

\* The screen of a view keeps its invariant.
THEOREM ScreenInvariant == Screen!Spec => []ScreenInv
<1>1. Screen!Init => ScreenInv
  BY ScreenStarts
<1>2. ScreenInv /\ [Screen!Next]_(Screen!vars) => ScreenInv'
  BY ScreenKept DEF Screen!vars, screenVars
<1> QED
  BY <1>1, <1>2, PTL DEF Screen!Spec

\* Every variable keeps its type, and the actor and the adapter count the same credit: one
\* screen at a time is on its way, and none that the adapter takes for a failure of the
\* protocol (semanticTerminals.ts:494-515).
THEOREM CreditsAgree == Screen!Spec => []ProtocolHolds
<1>1. ScreenInv => ProtocolHolds
  BY ScreenTyped, CreditAgrees DEF ProtocolHolds
<1> QED
  BY <1>1, ScreenInvariant, PTL

\* Whatever a view was doing when it went, when all is settled the host keeps no subscriber, lease
\* or authority of it (semanticTerminalAttachmentController.ts:168-206, runtime.rs:1386-1393).
THEOREM NothingOfViewsIsLeft == Screen!Spec => []NothingLeft
<1>1. ScreenInv => NothingLeft
  BY NothingOfViewsLeft DEF NothingLeft
<1> QED
  BY <1>1, ScreenInvariant, PTL
=============================================================================
