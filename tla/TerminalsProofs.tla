---------------------------- MODULE TerminalsProofs ----------------------------
(***************************************************************************)
(* Proofs about four of the models of terminals and their host that         *)
(* MCTerminals runs side by side: TerminalHost, for any terminals and       *)
(* callers; InstanceDirectory, for any processes, names, roots and          *)
(* commands; ControlServer, for any connections and any number of events;   *)
(* and TerminalProjection, for any terminals, revisions, answers and lists. *)
(* Each has an inductive invariant of its own, and one lemma per kind of    *)
(* step.  PartsRun says that the composition runs each of them, so that     *)
(* what is proved of one holds in it.                                       *)
(***************************************************************************)
EXTENDS MCTerminals, SequenceTheorems, FiniteSetTheorems, TLAPS

(***************************************************************************)
(* The host: records, processes and removals.  HostInv is inductive; in each*)
(* lemma there is one step per part of the invariant.                      *)
(***************************************************************************)
Exits == {"none", "process", "closed", "startup"}
CallType == [exit : Exits,
  pc : {"idle", "absent", "marked", "sending", "waiting", "answered", "refused", "removing", "closed"}]
RecordType == [life : Lifecycle, rev : Nat, exit : Exits]

\* A revision keeps the exit and counts.
LEMMA RevisedFacts ==
  ASSUME NEW r \in RecordType, NEW life \in Lifecycle
  PROVE  /\ Revised(r, life) \in RecordType
         /\ Revised(r, life).life = life /\ Revised(r, life).exit = r.exit
         /\ Revised(r, life).rev = r.rev + 1
<1>1. r.rev + 1 \in Nat
  BY DEF RecordType
<1>2. [r EXCEPT !.life = life] \in RecordType
  BY DEF RecordType
<1>3. [[r EXCEPT !.life = life] EXCEPT !.rev = r.rev + 1] \in RecordType
  BY <1>1, <1>2 DEF RecordType
<1>4. Revised(r, life) = [[r EXCEPT !.life = life] EXCEPT !.rev = r.rev + 1]
  BY DEF Revised, RecordType
<1>5. Revised(r, life).life = life /\ Revised(r, life).exit = r.exit /\ Revised(r, life).rev = r.rev + 1
  BY DEF Revised, RecordType
<1> QED
  BY <1>3, <1>4, <1>5

\* A record is marked while it is starting or running.
LEMMA MarkedFacts ==
  ASSUME NEW r \in RecordType
  PROVE  /\ Marked(r) \in RecordType /\ Marked(r).exit = r.exit
         /\ r.life \in {"starting", "running"} => Marked(r).life = "closing" /\ Marked(r).rev = r.rev + 1
         /\ r.life \notin {"starting", "running"} => Marked(r) = r
  BY RevisedFacts DEF Marked, Lifecycle

\* A record is finished once.
LEMMA FinishedFacts ==
  ASSUME NEW r \in RecordType, NEW why \in Exits \ {"none"}
  PROVE  /\ Finished(r, why) \in RecordType /\ Finished(r, why).life = "exited"
         /\ r.life = "exited" => Finished(r, why) = r
         /\ r.life # "exited" => Finished(r, why).exit = why /\ Finished(r, why).rev = r.rev + 1
<1> DEFINE x == Revised(r, "exited")
<1>1. x \in RecordType /\ x.life = "exited" /\ x.rev = r.rev + 1
  BY RevisedFacts DEF Lifecycle
<1>2. Finished(r, why) = IF r.life = "exited" THEN r ELSE [x EXCEPT !.exit = why]
  BY DEF Finished
<1> HIDE DEF x
<1>3. [x EXCEPT !.exit = why] \in RecordType
  BY <1>1 DEF RecordType
<1>4. /\ [x EXCEPT !.exit = why].life = "exited" /\ [x EXCEPT !.exit = why].exit = why
      /\ [x EXCEPT !.exit = why].rev = r.rev + 1
  BY <1>1 DEF RecordType
<1> QED
  BY <1>2, <1>3, <1>4

\* The steps that change no record, no call of close and no removal.
LEMMA QuietStep ==
  ASSUME HostInv, TypeOK', UNCHANGED << record, closing, removed >>, records' \subseteq records,
         SpawnLeads',
         \A t \in Terminal : actor'[t] \in {"exiting", "exited", "stopped"} =>
                               actor[t] \in {"exiting", "exited", "stopped"},
         \A t \in Terminal : child[t] \in {"none", "gone"} /\ record[t].life = "exited" =>
                               child'[t] \in {"none", "gone"}
  PROVE  HostInv'
<1> USE DEF HostInv
<1>1. ExitIsLast'
  BY DEF ExitIsLast
<1>2. CallersKnowExit'
  BY DEF CallersKnowExit
<1>3. OneRemoval'
  BY DEF OneRemoval, Removed, TypeOK
<1> QED
  BY <1>1, <1>2, <1>3

\* The initial state.
LEMMA InitHost == Init => HostInv
<1> SUFFICES ASSUME Init PROVE HostInv
  OBVIOUS
<1> USE DEF Init
<1>1. TypeOK
  <2>1. NewRecord \in [life : Lifecycle, rev : Nat, exit : {"none", "process", "closed", "startup"}]
    BY DEF NewRecord, Lifecycle
  <2>2. << >> \in Seq(Terminal) /\ 0 \in 0..MaxUpdates
    BY TerminalHostAssumption
  <2>3. closing \in [Closer -> [Terminal -> [exit : {"none", "process", "closed", "startup"},
          pc : {"idle", "absent", "marked", "sending", "waiting", "answered", "refused", "removing",
                "closed"}]]]
    OBVIOUS
  <2> QED
    BY <2>1, <2>2, <2>3 DEF TypeOK
<1>2. SpawnLeads
  BY DEF SpawnLeads, NewRecord
<1>3. ExitIsLast
  BY DEF ExitIsLast, NewRecord
<1>4. CallersKnowExit
  BY DEF CallersKnowExit
<1>5. OneRemoval
  BY DEF OneRemoval, Removed
<1> QED
  BY <1>1, <1>2, <1>3, <1>4, <1>5 DEF HostInv

\* The steps of a spawn and of a child.
LEMMA SpawnStep ==
  ASSUME HostInv, NEW t \in Terminal, Spawn(t)
  PROVE  HostInv'
<1> USE DEF HostInv, Spawn
<1>0. record[t] \in RecordType /\ record[t].life = "none" /\ t \notin records
  BY DEF TypeOK, RecordType, SpawnLeads, Exits
<1>1. TypeOK'
  BY ZenonT(60) DEF TypeOK, Lifecycle
<1>2. SpawnLeads'
  BY <1>0 DEF TypeOK, SpawnLeads
<1>3. ExitIsLast'
  BY <1>0 DEF TypeOK, ExitIsLast
<1>4. CallersKnowExit'
  BY <1>0 DEF TypeOK, CallersKnowExit
<1>5. OneRemoval'
  BY <1>0 DEF TypeOK, OneRemoval, Removed, SpawnLeads
<1> QED
  BY <1>1, <1>2, <1>3, <1>4, <1>5

\* What a step must satisfy that concerns one terminal and publishes no removal.
LEMMA TerminalStep ==
  ASSUME HostInv, NEW t \in Terminal, TypeOK', UNCHANGED << spawn, removed >>, records' \subseteq records,
         \A x \in Terminal \ {t} : /\ record'[x] = record[x] /\ actor'[x] = actor[x]
                                  /\ child'[x] = child[x],
         actor'[t] = "off" <=> actor[t] = "off", child'[t] = "none" <=> child[t] = "none",
         record'[t].life = "none" <=> record[t].life = "none",
         spawn[t] = "starting" => record'[t].life \in {"starting", "closing"},
         record[t].life = "exited" => record'[t].life = "exited" /\ record'[t].exit = record[t].exit,
         record'[t].exit # "none" <=> record'[t].life = "exited",
         actor'[t] \in {"exiting", "exited", "stopped"} => record'[t].life = "exited",
         record'[t].life = "exited" => child'[t] \in {"none", "gone"},
         \A c \in Closer, x \in Terminal : closing'[c][x] # closing[c][x] =>
           /\ x = t /\ spawn[t] # "idle" /\ closing'[c][t].pc # "removing"
           /\ closing'[c][t].exit \in {"none", closing[c][t].exit, record'[t].exit}
           /\ closing'[c][t].pc = "answered" => record'[t].life = "exited"
  PROVE  HostInv'
<1> USE DEF HostInv
<1>1. SpawnLeads'
  <2> SUFFICES ASSUME NEW x \in Terminal
               PROVE  /\ spawn[x] = "idle" => x \notin records' /\ \A c \in Closer : closing'[c][x].pc = "idle"
                      /\ spawn[x] = "idle" <=> record'[x].life = "none"
                      /\ spawn[x] = "starting" => record'[x].life \in {"starting", "closing"}
                      /\ actor'[x] = "off" <=> spawn[x] # "started"
                      /\ actor'[x] = "off" <=> child'[x] = "none"
    BY DEF SpawnLeads
  <2>1. spawn[x] = "idle" => x \notin records' /\ \A c \in Closer : closing'[c][x].pc = "idle"
    BY DEF SpawnLeads
  <2>2. CASE x = t
    BY <2>1, <2>2 DEF SpawnLeads
  <2>3. CASE x # t
    BY <2>1, <2>3 DEF SpawnLeads
  <2> QED
    BY <2>2, <2>3
<1>2. ExitIsLast'
  BY DEF TypeOK, ExitIsLast
<1>3. \A x \in Terminal : record[x].life = "exited" =>
        record'[x].life = "exited" /\ record'[x].exit = record[x].exit
  OBVIOUS
<1>4. CallersKnowExit'
  BY <1>3 DEF CallersKnowExit, ExitIsLast
<1>5. OneRemoval'
  <2>1. \A c \in Closer, x \in Terminal :
          closing'[c][x].pc = "removing" => closing[c][x].pc = "removing"
    OBVIOUS
  <2>2. Removed' = Removed /\ Removed \subseteq Terminal
    BY DEF Removed, TypeOK
  <2> QED
    BY <1>3, <2>1, <2>2 DEF OneRemoval
<1> QED
  BY <1>1, <1>2, <1>4, <1>5

\* The types of what concerns one terminal.
LEMMA TerminalTypes ==
  ASSUME HostInv
  PROVE  /\ record \in [Terminal -> RecordType] /\ closing \in [Closer -> [Terminal -> CallType]]
         /\ \A t \in Terminal : record[t] \in RecordType
         /\ \A c \in Closer, t \in Terminal : closing[c][t] \in CallType
<1>1. record \in [Terminal -> RecordType] /\ closing \in [Closer -> [Terminal -> CallType]]
  BY DEF HostInv, TypeOK, RecordType, CallType, Exits
<1> QED
  BY <1>1

\* A step that writes one record keeps the types.
LEMMA RecordTyped ==
  ASSUME HostInv, NEW t \in Terminal, NEW r \in RecordType, record' = [record EXCEPT ![t] = r]
  PROVE  /\ record' \in [Terminal -> RecordType] /\ record'[t] = r
         /\ \A x \in Terminal \ {t} : record'[x] = record[x]
  BY TerminalTypes

\* A step that writes the calls of one caller and terminal keeps the types.
LEMMA CallTyped ==
  ASSUME HostInv, NEW c \in Closer, NEW t \in Terminal, NEW q \in CallType,
         closing' = [closing EXCEPT ![c][t] = q]
  PROVE  /\ closing' \in [Closer -> [Terminal -> CallType]] /\ closing'[c][t] = q
         /\ \A d \in Closer, x \in Terminal : d # c \/ x # t => closing'[d][x] = closing[d][x]
  BY TerminalTypes

\* The actor installs its handle.
LEMMA StartStep ==
  ASSUME HostInv, NEW t \in Terminal, Start(t)
  PROVE  HostInv'
<1> USE DEF HostInv, Start
<1> DEFINE r == IF record[t].life = "starting" THEN Revised(record[t], "running") ELSE record[t]
<1>1. record[t] \in RecordType /\ record[t].life \in {"starting", "closing"}
  BY TerminalTypes DEF SpawnLeads
<1>2. r \in RecordType /\ r.life \in {"running", "closing"} /\ r.exit = record[t].exit
  BY <1>1, RevisedFacts DEF Lifecycle
<1>3. record' = [record EXCEPT ![t] = r]
  OBVIOUS
<1> HIDE DEF r
<1>4. /\ record' \in [Terminal -> RecordType] /\ record'[t] = r
      /\ \A x \in Terminal \ {t} : record'[x] = record[x]
  BY <1>2, <1>3, RecordTyped
<1>5. TypeOK'
  BY <1>4 DEF TypeOK, RecordType, Exits
<1>6. SpawnLeads'
  BY <1>1, <1>2, <1>4 DEF TypeOK, SpawnLeads
<1>7. ExitIsLast'
  BY <1>1, <1>2, <1>4 DEF TypeOK, ExitIsLast, SpawnLeads
<1>8. CallersKnowExit'
  BY <1>1, <1>2, <1>4 DEF CallersKnowExit, ExitIsLast
<1>9. OneRemoval'
  <2>1. Removed' = Removed /\ Removed \subseteq Terminal
    BY DEF Removed, TypeOK
  <2> QED
    BY <1>1, <1>4, <2>1 DEF OneRemoval
<1> QED
  BY <1>5, <1>6, <1>7, <1>8, <1>9

\* The process of a terminal ends, or does not begin.
LEMMA UnseenStep ==
  ASSUME HostInv, NEW t \in Terminal, ChildEnds(t)
  PROVE  HostInv'
<1> USE DEF HostInv, ChildEnds
<1>1. TypeOK'
  BY DEF TypeOK
<1>2. SpawnLeads'
  BY DEF TypeOK, SpawnLeads
<1>3. ExitIsLast'
  BY DEF TypeOK, ExitIsLast
<1> QED
  BY <1>1, <1>2, <1>3, QuietStep DEF TypeOK

\* A spawn that failed leaves the registry.
LEMMA ForgetFailedStep ==
  ASSUME HostInv, NEW t \in Terminal, ForgetFailed(t)
  PROVE  HostInv'
<1> USE DEF ForgetFailed
<1> DEFINE r == Finished(record[t], "startup")
<1>1. record[t] \in RecordType
  BY TerminalTypes
<1>2. /\ r \in RecordType /\ r.life = "exited"
      /\ record[t].life = "exited" => r = record[t]
      /\ record[t].life # "exited" => r.exit = "startup"
  BY <1>1, FinishedFacts DEF Exits
<1>3. record' = [record EXCEPT ![t] = r]
  OBVIOUS
<1> HIDE DEF r
<1>4. /\ record' \in [Terminal -> RecordType] /\ record'[t] = r
      /\ \A x \in Terminal \ {t} : record'[x] = record[x]
  BY <1>2, <1>3, RecordTyped
<1>5. TypeOK'
  BY <1>4 DEF HostInv, TypeOK, RecordType, Exits
<1>6. record[t].life # "none" /\ child[t] = "none" /\ (record[t].life = "exited" <=> record[t].exit # "none")
  BY DEF HostInv, SpawnLeads, ExitIsLast
<1> QED
  BY <1>2, <1>4, <1>5, <1>6, TerminalStep

\* The actor records the exit.
LEMMA ExitStep ==
  ASSUME HostInv, NEW t \in Terminal, Exit(t)
  PROVE  HostInv'
<1> USE DEF Exit
<1> DEFINE r == Finished(record[t], IF actor[t] = "closing" THEN "closed" ELSE "process")
<1>1. record[t] \in RecordType
  BY TerminalTypes
<1>2. /\ r \in RecordType /\ r.life = "exited"
      /\ record[t].life = "exited" => r = record[t]
      /\ record[t].life # "exited" => r.exit # "none"
  BY <1>1, FinishedFacts DEF Exits
<1>3. record' = [record EXCEPT ![t] = r]
  OBVIOUS
<1> HIDE DEF r
<1>4. /\ record' \in [Terminal -> RecordType] /\ record'[t] = r
      /\ \A x \in Terminal \ {t} : record'[x] = record[x]
  BY <1>2, <1>3, RecordTyped
<1>5. TypeOK'
  BY <1>4 DEF HostInv, TypeOK, RecordType, Exits
<1>6. record[t].life # "none" /\ spawn[t] = "started" /\ (record[t].life = "exited" <=> record[t].exit # "none")
  BY DEF HostInv, SpawnLeads, ExitIsLast
<1>7. actor'[t] = "exiting" /\ \A x \in Terminal \ {t} : actor'[x] = actor[x]
  BY DEF HostInv, TypeOK
<1> QED
  BY <1>2, <1>4, <1>5, <1>6, <1>7, TerminalStep

\* Metadata are updated.
LEMMA UpdateStep ==
  ASSUME HostInv, NEW t \in Terminal, UpdateMetadata(t)
  PROVE  HostInv'
<1> USE DEF UpdateMetadata
<1> DEFINE r == Revised(record[t], record[t].life)
<1>1. record[t] \in RecordType /\ record[t].life \in Lifecycle
  BY TerminalTypes DEF RecordType
<1>2. r \in RecordType /\ r.life = record[t].life /\ r.exit = record[t].exit
  BY <1>1, RevisedFacts
<1>3. record' = [record EXCEPT ![t] = r]
  OBVIOUS
<1> HIDE DEF r
<1>4. /\ record' \in [Terminal -> RecordType] /\ record'[t] = r
      /\ \A x \in Terminal \ {t} : record'[x] = record[x]
  BY <1>2, <1>3, RecordTyped
<1>5. TypeOK'
  BY <1>4, TerminalHostAssumption DEF HostInv, TypeOK, RecordType, Exits
<1>6. /\ spawn[t] = "started" /\ (record[t].life = "exited" <=> record[t].exit # "none")
      /\ actor[t] \in {"exiting", "exited", "stopped"} => record[t].life = "exited"
      /\ record[t].life = "exited" => child[t] \in {"none", "gone"}
  BY DEF HostInv, SpawnLeads, ExitIsLast
<1> QED
  BY <1>2, <1>4, <1>5, <1>6, TerminalStep

\* The callers that wait are answered.
LEMMA AnswerStep ==
  ASSUME HostInv, NEW t \in Terminal, AnswerClosers(t)
  PROVE  HostInv'
<1> USE DEF AnswerClosers
<1>1. /\ record[t].life = "exited" /\ spawn[t] = "started" /\ record[t].exit # "none"
      /\ child[t] \in {"none", "gone"} /\ record[t].exit \in Exits
  BY TerminalTypes DEF HostInv, SpawnLeads, ExitIsLast, RecordType
<1>2. /\ closing' \in [Closer -> [Terminal -> CallType]]
      /\ \A c \in Closer, x \in Terminal : closing'[c][x] # closing[c][x] =>
           x = t /\ closing'[c][t] = [pc |-> "answered", exit |-> record[t].exit]
  <2>1. ASSUME NEW c \in Closer
        PROVE  /\ closing'[c] \in [Terminal -> CallType]
               /\ \A x \in Terminal : closing'[c][x] # closing[c][x] =>
                     x = t /\ closing'[c][t] = [pc |-> "answered", exit |-> record[t].exit]
    <3>1. closing[c] \in [Terminal -> CallType]
      BY TerminalTypes
    <3>2. [pc |-> "answered", exit |-> record[t].exit] \in CallType
      BY <1>1 DEF CallType
    <3> QED
      BY <3>1, <3>2
  <2>2. DOMAIN closing' = Closer /\ closing' = [c \in Closer |-> closing'[c]]
    OBVIOUS
  <2> QED
    BY <2>1, <2>2
<1>3. TypeOK'
  BY <1>2 DEF HostInv, TypeOK, CallType, Exits
<1>4. actor'[t] = "exited" /\ \A x \in Terminal \ {t} : actor'[x] = actor[x]
  BY DEF HostInv, TypeOK
<1> QED
  BY <1>1, <1>2, <1>3, <1>4, TerminalStep

\* A spawn finds that it has no process, and the shutdown sets its flag.
LEMMA FlagStep ==
  ASSUME HostInv, BeginShutdown \/ \E t \in Terminal : StartFails(t)
  PROVE  HostInv'
<1> USE DEF HostInv, BeginShutdown, StartFails
<1>1. TypeOK'
  BY DEF TypeOK
<1>2. SpawnLeads'
  BY DEF TypeOK, SpawnLeads
<1> QED
  BY <1>1, <1>2, QuietStep

\* A call that goes on keeps its answer and its type.
LEMMA CallFacts ==
  ASSUME HostInv, NEW c \in Closer, NEW t \in Terminal,
         NEW pc \in {"idle", "absent", "marked", "sending", "waiting", "answered", "refused",
                     "removing", "closed"},
         Call(c, t, pc)
  PROVE  /\ closing' \in [Closer -> [Terminal -> CallType]]
         /\ closing'[c][t].pc = pc /\ closing'[c][t].exit = closing[c][t].exit
         /\ \A d \in Closer, x \in Terminal : d # c \/ x # t => closing'[d][x] = closing[d][x]
<1> DEFINE q == [closing[c][t] EXCEPT !.pc = pc]
<1>1. closing[c][t] \in CallType
  BY TerminalTypes
<1>2. q \in CallType /\ q.pc = pc /\ q.exit = closing[c][t].exit
  BY <1>1 DEF CallType
<1>3. closing' = [closing EXCEPT ![c][t] = q]
  BY DEF Call
<1> HIDE DEF q
<1> QED
  BY ZenonT(60), <1>2, <1>3, CallTyped

\* A caller marks the record, or finds none.
LEMMA CloseStep ==
  ASSUME HostInv, NEW c \in Caller, NEW t \in Terminal, Close(c, t)
  PROVE  HostInv'
<1> USE DEF Close
<1> DEFINE r == IF t \in records THEN Marked(record[t]) ELSE record[t]
           pc == IF t \in records THEN "marked" ELSE "absent"
<1>0. c \in Closer
  BY DEF Closer
<1>1. record[t] \in RecordType /\ record \in [Terminal -> RecordType]
  BY TerminalTypes
<1>2. /\ r \in RecordType /\ r.exit = record[t].exit
      /\ \/ r = record[t]
         \/ r.life = "closing" /\ record[t].life \in {"starting", "running"}
  <2>1. /\ Marked(record[t]) \in RecordType /\ Marked(record[t]).exit = record[t].exit
        /\ record[t].life \in {"starting", "running"} => Marked(record[t]).life = "closing"
        /\ record[t].life \notin {"starting", "running"} => Marked(record[t]) = record[t]
    BY <1>1, MarkedFacts
  <2> QED
    BY <1>1, <2>1
<1>3. record' = [record EXCEPT ![t] = r] /\ Call(c, t, pc)
  BY <1>1
<1>4. pc \in {"marked", "absent"}
  OBVIOUS
<1> HIDE DEF r, pc
<1>5. /\ record' \in [Terminal -> RecordType] /\ record'[t] = r
      /\ \A x \in Terminal \ {t} : record'[x] = record[x]
  BY <1>2, <1>3, RecordTyped
<1>6. /\ closing' \in [Closer -> [Terminal -> CallType]]
      /\ closing'[c][t].pc = pc /\ closing'[c][t].exit = closing[c][t].exit
      /\ \A d \in Closer, x \in Terminal : d # c \/ x # t => closing'[d][x] = closing[d][x]
  BY <1>0, <1>3, <1>4, CallFacts
<1>7. TypeOK'
  BY <1>5, <1>6 DEF HostInv, TypeOK, RecordType, CallType, Exits
<1>8. /\ spawn[t] # "idle" /\ record[t].life # "none"
      /\ spawn[t] = "starting" => record[t].life \in {"starting", "closing"}
      /\ record[t].life = "exited" <=> record[t].exit # "none"
      /\ actor[t] \in {"exiting", "exited", "stopped"} => record[t].life = "exited"
      /\ record[t].life = "exited" => child[t] \in {"none", "gone"}
  BY DEF HostInv, SpawnLeads, ExitIsLast
<1>9. \A d \in Closer, x \in Terminal : closing'[d][x] # closing[d][x] => d = c /\ x = t
  BY <1>6
<1>10. UNCHANGED << spawn, removed, actor, child, records >>
  OBVIOUS
<1> HIDE DEF Close
<1> QED
  BY <1>0, <1>2, <1>4, <1>5, <1>6, <1>7, <1>8, <1>9, <1>10, TerminalStep

\* A caller that waited for the start finishes the record when there is no actor.
LEMMA AwaitStep ==
  ASSUME HostInv, NEW c \in Closer, NEW t \in Terminal, AwaitStart(c, t)
  PROVE  HostInv'
<1> USE DEF AwaitStart
<1>1. /\ record[t] \in RecordType /\ record \in [Terminal -> RecordType]
      /\ closing[c][t] \in CallType
  BY TerminalTypes
<1>2. /\ spawn[t] # "idle" /\ record[t].life # "none"
      /\ record[t].life = "exited" <=> record[t].exit # "none"
      /\ spawn[t] = "failed" => child[t] = "none" /\ actor[t] = "off"
  BY DEF HostInv, SpawnLeads, ExitIsLast
<1>3. CASE spawn[t] = "failed"
  <2> DEFINE r == Finished(record[t], "closed")
             q == [pc |-> "answered", exit |-> r.exit]
  <2>1. /\ r \in RecordType /\ r.life = "exited"
        /\ record[t].life = "exited" => r = record[t]
        /\ record[t].life # "exited" => r.exit = "closed"
    BY <1>1, FinishedFacts DEF Exits
  <2>2. record' = [record EXCEPT ![t] = r]
    BY <1>3
  <2> HIDE DEF r
  <2>3. /\ record' \in [Terminal -> RecordType] /\ record'[t] = r
        /\ \A x \in Terminal \ {t} : record'[x] = record[x]
    BY <2>1, <2>2, RecordTyped
  <2>4. q \in CallType /\ q.pc = "answered" /\ q.exit = r.exit
    BY <2>1 DEF CallType, RecordType
  <2>5. closing' = [closing EXCEPT ![c][t] = q]
    BY <1>3, <2>3
  <2> HIDE DEF q
  <2>6. /\ closing' \in [Closer -> [Terminal -> CallType]] /\ closing'[c][t] = q
        /\ \A d \in Closer, x \in Terminal : d # c \/ x # t => closing'[d][x] = closing[d][x]
    BY ZenonT(60), <2>4, <2>5, CallTyped
  <2>7. TypeOK'
    BY <2>3, <2>6 DEF HostInv, TypeOK, RecordType, CallType, Exits
  <2>8. \A d \in Closer, x \in Terminal : closing'[d][x] # closing[d][x] => d = c /\ x = t
    BY <2>6
  <2>9. UNCHANGED << spawn, removed, actor, child, records >>
    OBVIOUS
  <2> HIDE DEF AwaitStart
  <2> QED
    BY <1>2, <1>3, <2>1, <2>3, <2>4, <2>6, <2>7, <2>8, <2>9, TerminalStep
<1>4. CASE spawn[t] # "failed"
  <2>1. Call(c, t, "sending") /\ UNCHANGED record
    BY <1>4
  <2>2. /\ closing' \in [Closer -> [Terminal -> CallType]]
        /\ closing'[c][t].pc = "sending" /\ closing'[c][t].exit = closing[c][t].exit
        /\ \A d \in Closer, x \in Terminal : d # c \/ x # t => closing'[d][x] = closing[d][x]
    BY <2>1, CallFacts
  <2>3. TypeOK'
    BY <2>1, <2>2 DEF HostInv, TypeOK, CallType, Exits
  <2>4. /\ actor[t] \in {"exiting", "exited", "stopped"} => record[t].life = "exited"
        /\ record[t].life = "exited" => child[t] \in {"none", "gone"}
        /\ spawn[t] = "starting" => record[t].life \in {"starting", "closing"}
    BY DEF HostInv, SpawnLeads, ExitIsLast
  <2>5. \A d \in Closer, x \in Terminal : closing'[d][x] # closing[d][x] => d = c /\ x = t
    BY <2>2
  <2>6. UNCHANGED << spawn, removed, actor, child, records >>
    OBVIOUS
  <2> HIDE DEF AwaitStart
  <2> QED
    BY <1>2, <2>1, <2>2, <2>3, <2>4, <2>5, <2>6, TerminalStep
<1> QED
  BY <1>3, <1>4

\* The actor takes a request, or nobody does.
LEMMA TakeStep ==
  ASSUME HostInv, NEW c \in Closer, NEW t \in Terminal, TakeClose(c, t) \/ Refused(c, t)
  PROVE  HostInv'
<1>1. /\ record[t] \in RecordType /\ closing[c][t] \in CallType
  BY TerminalTypes
<1>2. /\ record[t].life = "none" <=> spawn[t] = "idle"
      /\ actor[t] # "off" => spawn[t] = "started"
      /\ actor[t] = "off" <=> child[t] = "none"
      /\ record[t].exit # "none" <=> record[t].life = "exited"
      /\ actor[t] \in {"exiting", "exited", "stopped"} => record[t].life = "exited"
      /\ record[t].life = "exited" => child[t] \in {"none", "gone"}
  BY DEF HostInv, SpawnLeads, ExitIsLast
<1>3. /\ UNCHANGED << spawn, removed, record, records, down, updates >>
      /\ actor[t] \in {"serving", "closing", "exited", "stopped"}
  BY DEF TakeClose, Refused
<1>4. /\ actor' \in [Terminal -> {"off", "serving", "closing", "exiting", "exited", "stopped"}]
      /\ child' \in [Terminal -> {"none", "running", "told", "gone"}]
      /\ \A x \in Terminal \ {t} : actor'[x] = actor[x] /\ child'[x] = child[x]
      /\ actor'[t] # "off" /\ child'[t] # "none"
      /\ actor'[t] = "stopped" => record[t].life = "exited"
      /\ actor'[t] \notin {"exiting", "exited"}
      /\ record[t].life = "exited" => child'[t] = "gone"
  <2>1. actor \in [Terminal -> {"off", "serving", "closing", "exiting", "exited", "stopped"}]
          /\ child \in [Terminal -> {"none", "running", "told", "gone"}]
    BY DEF HostInv, TypeOK
  <2> QED
    BY <1>2, <1>3, <2>1 DEF TakeClose, Refused
<1>5. /\ closing' \in [Closer -> [Terminal -> CallType]]
      /\ closing'[c][t].pc \in {"waiting", "answered", "refused"}
      /\ closing'[c][t].exit \in {closing[c][t].exit, record[t].exit}
      /\ closing'[c][t].pc = "answered" => actor[t] = "exited"
      /\ \A d \in Closer, x \in Terminal : d # c \/ x # t => closing'[d][x] = closing[d][x]
  <2>1. CASE Call(c, t, "waiting") \/ Call(c, t, "refused")
    <3>1. PICK pc \in {"waiting", "refused"} : Call(c, t, pc)
      BY <2>1
    <3> QED
      BY <3>1, CallFacts
  <2>2. CASE actor[t] = "exited" /\ closing' = [closing EXCEPT ![c][t] = [pc |-> "answered", exit |-> record[t].exit]]
    <3>1. [pc |-> "answered", exit |-> record[t].exit] \in CallType
      BY <1>1 DEF CallType, RecordType
    <3> QED
      BY ZenonT(60), <2>2, <3>1, CallTyped
  <2> QED
    BY <2>1, <2>2 DEF TakeClose, Refused
<1>6. TypeOK'
  BY <1>3, <1>4, <1>5 DEF HostInv, TypeOK, CallType, Exits
<1>7. \A d \in Closer, x \in Terminal : closing'[d][x] # closing[d][x] => d = c /\ x = t
  BY <1>5
<1>8. spawn[t] = "started"
  BY <1>2, <1>3
<1> QED
  BY <1>2, <1>3, <1>4, <1>5, <1>6, <1>7, <1>8, TerminalStep

\* Who removes the record is the one who publishes the removal.
LEMMA CommitStep ==
  ASSUME HostInv, NEW c \in Closer, NEW t \in Terminal, CommitClose(c, t)
  PROVE  HostInv'
<1> DEFINE pc == IF t \in records THEN "removing" ELSE "closed"
<1>1. /\ closing[c][t].pc = "answered" /\ c # Host /\ records' = records \ {t}
      /\ UNCHANGED << down, record, spawn, actor, child, removed, updates >>
      /\ Call(c, t, pc)
  BY DEF CommitClose
<1>2. pc = "closed" \/ (pc = "removing" /\ t \in records)
  OBVIOUS
<1> HIDE DEF pc
<1>3. /\ closing' \in [Closer -> [Terminal -> CallType]]
      /\ closing'[c][t].pc = pc /\ closing'[c][t].exit = closing[c][t].exit
      /\ \A d \in Closer, x \in Terminal : d # c \/ x # t => closing'[d][x] = closing[d][x]
  BY <1>1, <1>2, CallFacts
<1>4. record[t].life = "exited" /\ spawn[t] # "idle"
  BY <1>1 DEF HostInv, CallersKnowExit, SpawnLeads
<1> USE DEF HostInv
<1>5. TypeOK'
  BY <1>1, <1>3 DEF TypeOK, CallType, Exits
<1>6. SpawnLeads'
  BY <1>1, <1>3, <1>4 DEF SpawnLeads
<1>7. ExitIsLast'
  BY <1>1 DEF ExitIsLast
<1>8. CallersKnowExit'
  BY <1>1, <1>3, <1>4 DEF CallersKnowExit
<1>9. OneRemoval'
  <2>1. Removed' = Removed
    BY <1>1 DEF Removed
  <2> QED
    BY <1>1, <1>2, <1>3, <2>1 DEF OneRemoval
<1> QED
  BY <1>5, <1>6, <1>7, <1>8, <1>9

\* A removal is published, once.
LEMMA PublishStep ==
  ASSUME HostInv, NEW c \in Closer, NEW t \in Terminal, PublishRemoval(c, t)
  PROVE  HostInv'
<1>1. /\ closing[c][t].pc = "removing" /\ removed' = Append(removed, t)
      /\ UNCHANGED << down, records, record, spawn, actor, child, updates >>
      /\ Call(c, t, "closed")
  BY DEF PublishRemoval
<1>2. /\ closing' \in [Closer -> [Terminal -> CallType]]
      /\ closing'[c][t].pc = "closed" /\ closing'[c][t].exit = closing[c][t].exit
      /\ \A d \in Closer, x \in Terminal : d # c \/ x # t => closing'[d][x] = closing[d][x]
  BY <1>1, CallFacts
<1> USE DEF HostInv
<1>3. /\ record[t].life = "exited" /\ spawn[t] # "idle" /\ t \notin records /\ t \notin Removed
      /\ \A d \in Closer : closing[d][t].pc = "removing" => d = c
  BY <1>1 DEF CallersKnowExit, SpawnLeads, OneRemoval
<1>4. TypeOK'
  BY <1>1, <1>2 DEF TypeOK, CallType, Exits
<1>5. SpawnLeads'
  BY SMTT(40), <1>1, <1>2, <1>3 DEF SpawnLeads
<1>6. ExitIsLast'
  BY <1>1 DEF ExitIsLast
<1>7. CallersKnowExit'
  BY <1>1, <1>2, <1>3 DEF CallersKnowExit
<1>8. OneRemoval'
  <2>1. /\ removed \in Seq(Terminal) /\ DOMAIN removed = 1..Len(removed) /\ Len(removed) \in Nat
        /\ DOMAIN removed' = 1..(Len(removed) + 1)
        /\ removed'[Len(removed) + 1] = t
        /\ \A i \in 1..Len(removed) : removed'[i] = removed[i]
    BY <1>1 DEF TypeOK
  <2>2. Removed' = Removed \cup {t}
    BY <2>1 DEF Removed
  <2>3. \A i, j \in DOMAIN removed' : removed'[i] = removed'[j] => i = j
    <3> SUFFICES ASSUME NEW i \in DOMAIN removed', NEW j \in DOMAIN removed', removed'[i] = removed'[j]
                 PROVE  i = j
      OBVIOUS
    <3>1. \A k \in 1..Len(removed) : removed[k] # t
      BY <1>3, <2>1 DEF Removed
    <3>2. CASE i = Len(removed) + 1 \/ j = Len(removed) + 1
      BY <2>1, <3>1, <3>2
    <3>3. CASE i \in 1..Len(removed) /\ j \in 1..Len(removed)
      BY <2>1, <3>3 DEF OneRemoval
    <3> QED
      BY <2>1, <3>2, <3>3
  <2>4. \A x \in Removed' : x \notin records' /\ record'[x].life = "exited"
    BY <1>1, <1>3, <2>2 DEF OneRemoval
  <2>5. \A d \in Closer, x \in Terminal : closing'[d][x].pc = "removing" =>
          /\ d # Host /\ x \notin records' /\ x \notin Removed'
          /\ \A e \in Closer : closing'[e][x].pc = "removing" => e = d
    BY <1>1, <1>2, <1>3, <2>2 DEF OneRemoval
  <2> QED
    BY <2>3, <2>4, <2>5 DEF OneRemoval
<1> QED
  BY <1>4, <1>5, <1>6, <1>7, <1>8

\* The shutdown marks the records it takes.
LEMMA DrainStep ==
  ASSUME HostInv, Drain
  PROVE  HostInv'
<1> DEFINE m(t) == IF t \in records THEN Marked(record[t]) ELSE record[t]
           h == [t \in Terminal |-> IF t \in records THEN [closing[Host][t] EXCEPT !.pc = "marked"]
                                    ELSE closing[Host][t]]
<1>1. /\ records' = {} /\ record' = [t \in Terminal |-> m(t)]
      /\ closing' = [closing EXCEPT ![Host] = h]
      /\ UNCHANGED << down, spawn, actor, child, removed, updates >>
      /\ \A t \in Terminal : closing[Host][t].pc = "idle"
  BY DEF Drain
<1>2. ASSUME NEW t \in Terminal
      PROVE  /\ m(t) \in RecordType /\ m(t).exit = record[t].exit
             /\ \/ m(t) = record[t]
                \/ m(t).life = "closing" /\ record[t].life \in {"starting", "running"}
  <2>1. record[t] \in RecordType
    BY TerminalTypes
  <2>2. /\ Marked(record[t]) \in RecordType /\ Marked(record[t]).exit = record[t].exit
        /\ record[t].life \in {"starting", "running"} => Marked(record[t]).life = "closing"
        /\ record[t].life \notin {"starting", "running"} => Marked(record[t]) = record[t]
    BY <2>1, MarkedFacts
  <2> QED
    BY <2>1, <2>2
<1>3. ASSUME NEW t \in Terminal
      PROVE  /\ h[t] \in CallType /\ h[t].exit = closing[Host][t].exit
             /\ h[t] = closing[Host][t] \/ (h[t].pc = "marked" /\ t \in records)
  <2>1. Host \in Closer /\ closing[Host][t] \in CallType
    BY TerminalTypes DEF Closer
  <2>2. [closing[Host][t] EXCEPT !.pc = "marked"] \in CallType
    BY <2>1 DEF CallType
  <2> QED
    BY <2>1, <2>2 DEF CallType
<1>4. h \in [Terminal -> CallType]
  BY <1>3
<1> HIDE DEF h, m
<1>5. /\ closing' \in [Closer -> [Terminal -> CallType]]
      /\ closing'[Host] = h /\ \A c \in Closer \ {Host} : closing'[c] = closing[c]
  BY <1>1, <1>4, TerminalTypes DEF Closer
<1>6. \A c \in Closer, t \in Terminal :
        /\ closing'[c][t].exit = closing[c][t].exit
        /\ closing'[c][t] = closing[c][t] \/ (closing'[c][t].pc = "marked" /\ t \in records)
  BY <1>3, <1>5
<1>7. record' \in [Terminal -> RecordType] /\ \A t \in Terminal : record'[t] = m(t)
  BY <1>1, <1>2
<1> USE DEF HostInv
<1>8. TypeOK'
  BY <1>1, <1>5, <1>7 DEF TypeOK, CallType, RecordType, Exits
<1>9. SpawnLeads'
  BY <1>1, <1>2, <1>6, <1>7 DEF SpawnLeads
<1>10. ExitIsLast'
  BY <1>1, <1>2, <1>7 DEF ExitIsLast
<1>11. CallersKnowExit'
  BY <1>1, <1>2, <1>6, <1>7 DEF CallersKnowExit
<1>12. OneRemoval'
  <2>1. Removed' = Removed /\ Removed \subseteq Terminal
    BY <1>1 DEF Removed, TypeOK
  <2> QED
    BY <1>1, <1>2, <1>6, <1>7, <2>1 DEF OneRemoval
<1> QED
  BY <1>8, <1>9, <1>10, <1>11, <1>12

\* A step that changes nothing.
LEMMA StutterStep ==
  ASSUME HostInv, UNCHANGED vars
  PROVE  HostInv'
<1> USE DEF HostInv, vars
<1> QED
  BY DEF TypeOK, SpawnLeads, ExitIsLast, CallersKnowExit, OneRemoval, Removed

\* HostInv is an invariant of every behaviour of the host.
THEOREM HostInvariant == Spec => []HostInv
<1>1. HostInv /\ [Next]_vars => HostInv'
  <2> SUFFICES ASSUME HostInv, [Next]_vars
               PROVE  HostInv'
    OBVIOUS
  <2>1. CASE \E t \in Terminal : Spawn(t) \/ Serving(t) \/ ChildEnds(t) \/ UpdateMetadata(t)
    BY <2>1, SpawnStep, StartStep, FlagStep, ForgetFailedStep, ExitStep, AnswerStep, UnseenStep,
       UpdateStep DEF Serving
  <2>2. CASE \E c \in Caller, t \in Terminal : Close(c, t)
    BY <2>2, CloseStep
  <2>3. CASE \E c \in Closer, t \in Terminal : Closing(c, t)
    BY <2>3, AwaitStep, TakeStep, CommitStep, PublishStep DEF Closing
  <2>4. CASE BeginShutdown \/ Drain
    BY <2>4, FlagStep, DrainStep
  <2> QED
    BY <2>1, <2>2, <2>3, <2>4, StutterStep DEF Next
<1> QED
  BY <1>1, InitHost, PTL DEF Spec

-----------------------------------------------------------------------------
\* Every variable of the host keeps its type.
THEOREM HostTypeCorrect == Spec => []TypeOK
<1>1. HostInv => TypeOK
  BY DEF HostInv
<1> QED
  BY <1>1, HostInvariant, PTL

\* However many callers close a terminal, one removal is published, after the process
\* is gone, and every caller that is answered sees the exit of the record.
THEOREM RemovalsFinal == Spec => []RemovalsAreFinal
<1>1. HostInv => RemovalsAreFinal
  <2> SUFFICES ASSUME HostInv
               PROVE  RemovalsAreFinal
    OBVIOUS
  <2>1. \A i \in DOMAIN removed : removed[i] \in Removed
    BY DEF Removed
  <2> QED
    BY <2>1 DEF HostInv, OneRemoval, ExitIsLast, CallersKnowExit, RemovalsAreFinal, Closer
<1> QED
  BY <1>1, HostInvariant, PTL

-----------------------------------------------------------------------------
(***************************************************************************)
(* The refinement.                                                         *)
(***************************************************************************)

\* The stages of a lifecycle.
LEMMA Stages ==
  /\ StageOf["none"] = 1 /\ StageOf["starting"] = 1 /\ StageOf["running"] = 2
  /\ StageOf["closing"] = 3 /\ StageOf["exited"] = 4
  BY DEF StageOf, Lifecycle

\* What a descriptor shows of a record.
View(r) == [stage |-> StageOf[r.life], rev |-> r.rev, exit |-> r.exit]

\* What a step of the host may do to a record.
Advances(r, s) ==
  \/ s = r
  \/ s.life = r.life /\ s.rev = r.rev + 1 /\ s.exit = r.exit
  \/ r.life = "starting" /\ s.life = "running" /\ s.rev = r.rev + 1
  \/ r.life \in {"starting", "running"} /\ s.life = "closing" /\ s.rev = r.rev + 1
  \/ r.life # "exited" /\ s.life = "exited" /\ s.rev = r.rev + 1

\* A record that advances is shown later.
LEMMA ShownLater ==
  ASSUME NEW r \in RecordType, NEW s \in RecordType, Advances(r, s)
  PROVE  Lives!Later(View(r), View(s))
<1>1. CASE s = r
  BY <1>1 DEF Lives!Later
<1>2. CASE s # r
  <2>1. /\ StageOf[s.life] \in StageOf[r.life]..4 /\ s.rev = r.rev + 1
        /\ StageOf[r.life] = 4 => s.exit = r.exit
    BY <1>2, Stages DEF Advances, RecordType, Lifecycle
  <2> QED
    BY <2>1 DEF Lives!Later, View
<1> QED
  BY <1>1, <1>2

\* Every record only advances, and only after its spawn.
LEMMA RecordsAdvance ==
  ASSUME HostInv, [Next]_vars, ~ \E t \in Terminal : Spawn(t), NEW x \in Terminal
  PROVE  /\ record'[x] \in RecordType /\ Advances(record[x], record'[x])
         /\ record'[x] # record[x] => spawn[x] # "idle"
<1>1. record \in [Terminal -> RecordType] /\ \A t \in Terminal : record[t] \in RecordType
  BY TerminalTypes
<1> DEFINE P == /\ record'[x] \in RecordType /\ Advances(record[x], record'[x])
                /\ record'[x] # record[x] => spawn[x] # "idle"
<1>2. ASSUME NEW t \in Terminal, NEW r \in RecordType, record' = [record EXCEPT ![t] = r],
             Advances(record[t], r), r # record[t] => spawn[t] # "idle"
      PROVE  P
  BY <1>1, <1>2 DEF Advances
<1>3. ASSUME UNCHANGED record
      PROVE  P
  BY <1>1, <1>3 DEF Advances
<1> HIDE DEF P
<1>4. ASSUME NEW t \in Terminal, Start(t)
      PROVE  P
  <2>1. Revised(record[t], "running") \in RecordType
          /\ Revised(record[t], "running").life = "running"
          /\ Revised(record[t], "running").rev = record[t].rev + 1
    BY <1>1, RevisedFacts DEF Lifecycle
  <2>2. CASE record[t].life = "starting"
    <3> DEFINE r == Revised(record[t], "running")
    <3>1. record' = [record EXCEPT ![t] = r] /\ spawn[t] # "idle"
      BY <1>4, <2>2 DEF Start
    <3>2. r \in RecordType /\ Advances(record[t], r)
      BY <2>1, <2>2 DEF Advances
    <3> HIDE DEF r
    <3> QED
      BY <1>2, <3>1, <3>2
  <2>3. CASE record[t].life # "starting"
    BY <1>1, <1>3, <1>4, <2>3 DEF Start
  <2> QED
    BY <2>2, <2>3
<1>5. ASSUME NEW t \in Terminal, NEW why \in Exits \ {"none"}, spawn[t] # "idle",
             record' = [record EXCEPT ![t] = Finished(@, why)]
      PROVE  P
  <2> DEFINE r == Finished(record[t], why)
  <2>1. r \in RecordType /\ r.life = "exited" /\ (record[t].life = "exited" => r = record[t])
          /\ (record[t].life # "exited" => r.rev = record[t].rev + 1)
    BY <1>1, FinishedFacts
  <2>2. record' = [record EXCEPT ![t] = r]
    BY <1>5
  <2> HIDE DEF r
  <2> QED
    BY <1>2, <1>5, <2>1, <2>2 DEF Advances
<1>6. ASSUME NEW t \in Terminal, ForgetFailed(t) \/ Exit(t)
      PROVE  P
  <2>1. spawn[t] # "idle"
    BY <1>6 DEF ForgetFailed, Exit, HostInv, SpawnLeads
  <2> QED
    BY <1>5, <1>6, <2>1 DEF ForgetFailed, Exit, Exits
<1>7. ASSUME NEW t \in Terminal, UpdateMetadata(t)
      PROVE  P
  <2> DEFINE r == Revised(record[t], record[t].life)
  <2>1. r \in RecordType /\ r.life = record[t].life /\ r.exit = record[t].exit /\ r.rev = record[t].rev + 1
    BY <1>1, RevisedFacts DEF RecordType
  <2>2. record' = [record EXCEPT ![t] = r] /\ spawn[t] # "idle"
    BY <1>7 DEF UpdateMetadata, HostInv, SpawnLeads
  <2> HIDE DEF r
  <2> QED
    BY <1>2, <2>1, <2>2 DEF Advances
<1>8. ASSUME NEW t \in Terminal
      PROVE  /\ Marked(record[t]) \in RecordType /\ Advances(record[t], Marked(record[t]))
             /\ Marked(record[t]) # record[t] => record[t].life # "none"
  <2>1. /\ Marked(record[t]) \in RecordType /\ Marked(record[t]).exit = record[t].exit
        /\ record[t].life \in {"starting", "running"} =>
             Marked(record[t]).life = "closing" /\ Marked(record[t]).rev = record[t].rev + 1
        /\ record[t].life \notin {"starting", "running"} => Marked(record[t]) = record[t]
    BY <1>1, MarkedFacts
  <2> QED
    BY <2>1 DEF Advances
<1>9. \A t \in Terminal : record[t].life # "none" <=> spawn[t] # "idle"
  BY DEF HostInv, SpawnLeads
<1>10. ASSUME NEW c \in Caller, NEW t \in Terminal, Close(c, t)
       PROVE  P
  <2>1. CASE t \in records
    <3> DEFINE r == Marked(record[t])
    <3>1. record' = [record EXCEPT ![t] = r] /\ spawn[t] # "idle"
      BY <1>10, <2>1 DEF Close
    <3>2. r \in RecordType /\ Advances(record[t], r)
      BY <1>8
    <3> HIDE DEF r
    <3> QED
      BY <1>2, <3>1, <3>2
  <2>2. CASE t \notin records
    BY <1>3, <1>10, <2>2 DEF Close
  <2> QED
    BY <2>1, <2>2
<1>11. CASE Drain
  <2>1. record'[x] = IF x \in records THEN Marked(record[x]) ELSE record[x]
    BY <1>11 DEF Drain
  <2>2. Advances(record[x], record[x])
    BY DEF Advances
  <2> QED
    BY <1>1, <1>8, <1>9, <2>1, <2>2 DEF P
<1>12. ASSUME NEW c \in Closer, NEW t \in Terminal, AwaitStart(c, t)
       PROVE  P
  <2>1. CASE spawn[t] = "failed"
    <3>1. record' = [record EXCEPT ![t] = Finished(record[t], "closed")] /\ spawn[t] # "idle"
      BY <1>12, <2>1 DEF AwaitStart
    <3>2. "closed" \in Exits \ {"none"}
      BY DEF Exits
    <3> QED
      BY <1>5, <3>1, <3>2
  <2>2. CASE spawn[t] # "failed"
    BY <1>3, <1>12, <2>2 DEF AwaitStart
  <2> QED
    BY <2>1, <2>2
<1>13. \/ UNCHANGED record \/ Drain
       \/ \E t \in Terminal : Start(t) \/ ForgetFailed(t) \/ Exit(t) \/ UpdateMetadata(t)
       \/ \E c \in Caller, t \in Terminal : Close(c, t)
       \/ \E c \in Closer, t \in Terminal : AwaitStart(c, t)
  BY DEF Next, Serving, Closing, vars, StartFails, AnswerClosers, ChildEnds, TakeClose, Refused,
         CommitClose, PublishRemoval, BeginShutdown
<1> QED
  BY <1>3, <1>4, <1>6, <1>7, <1>10, <1>11, <1>12, <1>13 DEF P

\* A step of the host is a registration, a change or a step that nobody sees.
LEMMA StepKeepsPromise ==
  ASSUME HostInv, [Next]_vars
  PROVE  [Lives!LivesNext]_(Lives!livesVars)
<1> DEFINE described == [t \in Terminal |-> View(record[t])]
           spawned == {t \in Terminal : spawn[t] # "idle"}
<1>1. ASSUME NEW t \in Terminal, Spawn(t)
      PROVE  Lives!Register(t)
  <2>1. /\ record[t] \in RecordType /\ record[t].life = "none"
        /\ record \in [Terminal -> RecordType] /\ spawn \in [Terminal -> {"idle", "starting", "started", "failed"}]
    BY <1>1, TerminalTypes DEF Spawn, HostInv, SpawnLeads, TypeOK
  <2>2. t \notin spawned /\ spawned' = spawned \cup {t} /\ records' = records \cup {t}
    BY <1>1, <2>1 DEF Spawn
  <2>3. ASSUME NEW x \in Terminal
        PROVE  /\ StageOf[record'[x].life] = StageOf[record[x].life]
               /\ record'[x].rev = record[x].rev /\ record'[x].exit = record[x].exit
    <3>1. CASE x = t
      BY <1>1, <2>1, <3>1, Stages DEF Spawn, RecordType
    <3>2. CASE x # t
      BY <1>1, <2>1, <3>2 DEF Spawn
    <3> QED
      BY <3>1, <3>2
  <2>4. described' = described
    BY <2>3 DEF View
  <2> QED
    BY <2>2, <2>4 DEF Lives!Register, View
<1>2. CASE ~ \E t \in Terminal : Spawn(t)
  <2>1. records' \subseteq records
    BY <1>2 DEF Next, Serving, Closing, vars, Start, StartFails, ForgetFailed, Exit,
          AnswerClosers,
                ChildEnds, UpdateMetadata, Close, AwaitStart, TakeClose, Refused, CommitClose,
                PublishRemoval, BeginShutdown, Drain
  <2>2. spawned' = spawned
    <3>1. \A t \in Terminal : spawn'[t] # "idle" <=> spawn[t] # "idle"
      <4>1. spawn \in [Terminal -> {"idle", "starting", "started", "failed"}]
        BY DEF HostInv, TypeOK
      <4>2. UNCHANGED spawn \/ \E t \in Terminal : Start(t) \/ StartFails(t)
        BY <1>2 DEF Next, Serving, Closing, vars, ForgetFailed, Exit, AnswerClosers, ChildEnds,
                    UpdateMetadata, Close, AwaitStart, TakeClose, Refused, CommitClose,
                    PublishRemoval, BeginShutdown, Drain
      <4> QED
        BY <4>1, <4>2 DEF Start, StartFails
    <3> QED
      BY <3>1
  <2>3. ASSUME NEW x \in Terminal
        PROVE  /\ Lives!Later(View(record[x]), View(record'[x]))
               /\ View(record'[x]) # View(record[x]) => x \in spawned
    <3>1. record[x] \in RecordType
      BY TerminalTypes
    <3>2. /\ record'[x] \in RecordType /\ Advances(record[x], record'[x])
          /\ record'[x] # record[x] => spawn[x] # "idle"
      BY <1>2, RecordsAdvance
    <3> QED
      BY <3>1, <3>2, ShownLater
  <2>4. Lives!Change
    <3>1. DOMAIN described' = Terminal /\ \A x \in Terminal : described[x] = View(record[x]) /\ described'[x] = View(record'[x])
      OBVIOUS
    <3>2. \A x \in Terminal : Lives!Later(described[x], described'[x]) /\ (described'[x] # described[x] => x \in spawned)
      BY <2>3, <3>1
    <3> QED
      BY <2>1, <2>2, <3>1, <3>2 DEF Lives!Change, View
  <2> QED
    BY <2>4 DEF Lives!LivesNext
<1> QED
  BY <1>1, <1>2 DEF Lives!LivesNext

\* The host keeps its promise to whoever projects its terminals: a terminal is registered
\* once and leaves once, its lifecycle only advances, and an exit is never revised.
THEOREM HostImplements == Spec => HostKeepsPromise
<1>1. Init => Lives!LivesInit
  <2> SUFFICES ASSUME Init
               PROVE  Lives!LivesInit
    OBVIOUS
  <2>1. \A t \in Terminal : spawn[t] = "idle" /\ record[t] = NewRecord
    BY DEF Init
  <2>2. [t \in Terminal |-> [stage |-> StageOf[record[t].life], rev |-> record[t].rev, exit |-> record[t].exit]]
          = [t \in Terminal |-> Lives!Unborn]
    BY <2>1, Stages DEF Lives!Unborn, NewRecord
  <2> QED
    BY <2>1, <2>2 DEF Init, Lives!LivesInit
<1>2. HostInv /\ [Next]_vars => [Lives!LivesNext]_(Lives!livesVars)
  BY StepKeepsPromise
<1> QED
  BY <1>1, <1>2, HostInvariant, PTL DEF Spec, HostKeepsPromise, Lives!LivesSpec

-----------------------------------------------------------------------------
(***************************************************************************)
(* The directory: processes, locks, descriptors and commands.  DirectoryInv*)
(* is inductive: a step of a process, then each step of a command.         *)
(***************************************************************************)
Holding == { "probing", "failed", "asking", "withdrawn" }
Scanning == { "scanning", "probing", "failed" }
Ended == { "stopping", "closed", "gone" }

\* The descriptors that a command has still to probe.
Ahead(c) == { p \in Process : p \in todo[c] \/ (step[c] = "probing" /\ held[c] = p) }

\* Everything that a command ever sees was published.
SeenWerePublished ==
  /\ \A p \in descriptors : state[p] \in Published
  /\ \A c \in Client : \A p \in todo[c] \cup live[c] \cup steady[c] : state[p] \in Published
  /\ \A c \in Client : step[c] \in Holding => held[c] \in Process /\ state[held[c]] \in Published

\* The locks of names and roots exclude each other's holders.
LocksExclude ==
  \A p, q \in Process : p # q =>
    /\ NameOf[p] = NameOf[q] => ~ (state[p] \in Named /\ state[q] \in Named)
    /\ RootOf[p] = RootOf[q] => ~ (state[p] \in Owning /\ state[q] \in Owning)

\* Once an instance answered, whoever shares its name or root and was listed with it
\* is gone: only one of them can ever answer.
OneAnswers ==
  /\ NamesAreUnique
  /\ \A c \in Client : \A p \in live[c], q \in Ahead(c) :
       p # q /\ (NameOf[p] = NameOf[q] \/ RootOf[p] = RootOf[q]) => state[q] = "gone"
  /\ \A c \in Client : step[c] = "idle" => live[c] = {}

\* A stop that was accepted withdrew its descriptor before anybody learned of it.
StopsWithdraw ==
  /\ \A p \in halted : p \notin descriptors /\ state[p] \in Ended
  /\ \A c \in Client : step[c] = "withdrawn" => held[c] \notin descriptors /\ state[held[c]] \in Ended
  /\ \A c \in Client : Ahead(c) \cap hidden[c] = {} /\ live[c] \cap hidden[c] = {}

\* What serves since a scan began was found or is still ahead of it.
ServingAhead ==
  /\ ServingArePublished
  /\ \A c \in Client : c \notin foreign =>
       /\ step[c] = "failed" => state[held[c]] \in { "closed", "gone" }
       /\ step[c] \in Scanning =>
            \A p \in steady[c] : state[p] = "serving" => p \in live[c] \/ p \in Ahead(c)

DirectoryInv ==
  DirectoryTypeOK /\ SeenWerePublished /\ LocksExclude /\ OneAnswers /\ StopsWithdraw /\ ServingAhead

-----------------------------------------------------------------------------
\* What a process may become.
MayBecome(p, s) ==
  /\ state[p] # "gone"
  /\ state[p] \in Published => s \in Published
  /\ state[p] \in Ended => s \in Ended
  /\ state[p] = "closed" => s \in { "closed", "gone" }
  /\ s \in Named => state[p] \in Named \/ NameFree(p)
  /\ s \in Owning => state[p] \in Owning \/ RootFree(p)

\* The three ways in which a step of a process treats its descriptor.
Keeps(p, s) == descriptors' = descriptors /\ s # "serving"
Publishes(p, s) == state[p] = "bound" /\ s = "serving" /\ descriptors' = descriptors \cup {p}
Removes(p, s) == s = "gone" /\ descriptors' = descriptors \ {p}

\* A step of a process keeps the invariant, whatever commands are doing.
LEMMA ProcessKeeps ==
  ASSUME DirectoryInv, NEW p \in Process, NEW s \in State,
         Becomes(p, s), MayBecome(p, s),
         Keeps(p, s) \/ Publishes(p, s) \/ Removes(p, s),
         UNCHANGED commandVars
  PROVE  DirectoryInv'
<1> USE DEF DirectoryInv, commandVars
<1>0. /\ state' = [state EXCEPT ![p] = s] /\ state \in [Process -> State]
      /\ state'[p] = s /\ \A q \in Process : q # p => state'[q] = state[q]
  BY DEF Becomes, DirectoryTypeOK
<1>1. DirectoryTypeOK'
  BY <1>0 DEF DirectoryTypeOK, Keeps, Publishes, Removes
<1>2. \A q \in Process : state[q] \in Published => state'[q] \in Published
  BY <1>0 DEF MayBecome
<1>3. SeenWerePublished'
  <2>1. (\A q \in descriptors : state[q] \in Published)'
    BY <1>0, <1>2 DEF SeenWerePublished, DirectoryTypeOK, Keeps, Publishes, Removes, Published
  <2>2. (\A c \in Client : \A q \in todo[c] \cup live[c] \cup steady[c] : state[q] \in Published)'
    BY <1>2 DEF SeenWerePublished, DirectoryTypeOK
  <2>3. (\A c \in Client : step[c] \in Holding => held[c] \in Process /\ state[held[c]] \in Published)'
    BY <1>2 DEF SeenWerePublished, DirectoryTypeOK
  <2> QED
    BY <2>1, <2>2, <2>3 DEF SeenWerePublished
<1>4. LocksExclude'
  <2>1. SUFFICES ASSUME NEW q \in Process, NEW r \in Process, q # r
                 PROVE  /\ NameOf[q] = NameOf[r] => ~ (state'[q] \in Named /\ state'[r] \in Named)
                        /\ RootOf[q] = RootOf[r] => ~ (state'[q] \in Owning /\ state'[r] \in Owning)
    BY DEF LocksExclude
  <2>2. CASE q # p /\ r # p
    BY <1>0, <2>1, <2>2 DEF LocksExclude
  <2>3. CASE q = p
    BY <1>0, <2>1, <2>3 DEF LocksExclude, MayBecome, NameFree, RootFree
  <2>4. CASE r = p
    BY <1>0, <2>1, <2>4 DEF LocksExclude, MayBecome, NameFree, RootFree
  <2> QED
    BY <2>2, <2>3, <2>4
<1>5. \A c \in Client : Ahead(c)' = Ahead(c)
  BY DEF Ahead
<1>6. \A q \in Process : state[q] = "gone" => state'[q] = "gone"
  BY <1>0 DEF MayBecome
<1>7. OneAnswers'
  <2>1. NamesAreUnique'
    BY DEF OneAnswers, NamesAreUnique
  <2>2. \A c \in Client : Ahead(c) \subseteq Process
    BY DEF Ahead
  <2>3. (\A c \in Client : \A q \in live[c], r \in Ahead(c) :
            q # r /\ (NameOf[q] = NameOf[r] \/ RootOf[q] = RootOf[r]) => state[r] = "gone")'
    BY <1>5, <1>6, <2>2 DEF OneAnswers
  <2> QED
    BY <2>1, <2>3 DEF OneAnswers
<1>8. StopsWithdraw'
  <2>1. \A q \in Process : state[q] \in Ended => state'[q] \in Ended /\ (q \notin descriptors => q \notin descriptors')
    BY <1>0 DEF MayBecome, Keeps, Publishes, Removes, Ended
  <2>2. (\A q \in halted : q \notin descriptors /\ state[q] \in Ended)'
    BY <2>1 DEF StopsWithdraw, DirectoryTypeOK
  <2>3. (\A c \in Client : step[c] = "withdrawn" => held[c] \notin descriptors /\ state[held[c]] \in Ended)'
    BY <2>1 DEF StopsWithdraw, SeenWerePublished, Holding
  <2> QED
    BY <1>5, <2>2, <2>3 DEF StopsWithdraw
<1>9. ServingAhead'
  <2>1. ServingArePublished'
    BY <1>0 DEF ServingAhead, ServingArePublished, Keeps, Publishes, Removes
  <2>2. \A c \in Client : c \notin foreign /\ step[c] = "failed" => state'[held[c]] \in { "closed", "gone" }
    BY <1>0 DEF ServingAhead, SeenWerePublished, Holding, MayBecome
  <2>3. \A q \in Process : state'[q] = "serving" /\ state[q] \in Published => state[q] = "serving"
    BY <1>0 DEF Keeps, Publishes, Removes, Published
  <2>4. \A c \in Client : c \notin foreign /\ step[c] \in Scanning =>
          \A q \in steady[c] : state'[q] = "serving" => q \in live[c] \/ q \in Ahead(c)
    BY <2>3 DEF ServingAhead, SeenWerePublished, DirectoryTypeOK
  <2> QED
    BY <1>5, <2>1, <2>2, <2>4 DEF ServingAhead
<1> QED
  BY <1>1, <1>3, <1>4, <1>7, <1>8, <1>9

\* Every step of a process is such a step.
LEMMA ProcessSteps ==
  ASSUME DirectoryInv, NEW p \in Process, ProcessStep(p)
  PROVE  DirectoryInv'
<1> USE DEF Becomes, MayBecome, Keeps, Publishes, Removes, Published, Ended, Named, Owning,
      State
<1>1. CASE AcquireName(p)
  <2>1. state[p] = "new" /\ UNCHANGED commandVars /\ descriptors' = descriptors
    BY <1>1 DEF AcquireName
  <2>2. CASE NameFree(p)
    <3>1. Becomes(p, "named")
      BY <1>1, <2>2 DEF AcquireName
    <3>2. MayBecome(p, "named") /\ Keeps(p, "named") /\ "named" \in State
      BY <2>1, <2>2
    <3> QED
      BY <2>1, <3>1, <3>2, ProcessKeeps
  <2>3. CASE ~ NameFree(p)
    <3>1. Becomes(p, "gone")
      BY <1>1, <2>3 DEF AcquireName
    <3>2. MayBecome(p, "gone") /\ Keeps(p, "gone") /\ "gone" \in State
      BY <2>1
    <3> QED
      BY <2>1, <3>1, <3>2, ProcessKeeps
  <2> QED
    BY <2>2, <2>3
<1>2. CASE AcquireRoot(p)
  <2>1. state[p] = "named" /\ UNCHANGED commandVars /\ descriptors' = descriptors
    BY <1>2 DEF AcquireRoot
  <2>2. CASE RootFree(p)
    <3>1. Becomes(p, "owning")
      BY <1>2, <2>2 DEF AcquireRoot
    <3>2. MayBecome(p, "owning") /\ Keeps(p, "owning") /\ "owning" \in State
      BY <2>1, <2>2
    <3> QED
      BY <2>1, <3>1, <3>2, ProcessKeeps
  <2>3. CASE ~ RootFree(p)
    <3>1. Becomes(p, "gone")
      BY <1>2, <2>3 DEF AcquireRoot
    <3>2. MayBecome(p, "gone") /\ Keeps(p, "gone") /\ "gone" \in State
      BY <2>1
    <3> QED
      BY <2>1, <3>1, <3>2, ProcessKeeps
  <2> QED
    BY <2>2, <2>3
<1>3. CASE BindListener(p)
  <2>1. /\ Becomes(p, "bound") /\ MayBecome(p, "bound") /\ Keeps(p, "bound") /\ "bound" \in State
        /\ UNCHANGED commandVars
    BY <1>3 DEF BindListener
  <2> QED
    BY <2>1, ProcessKeeps
<1>4. CASE PublishDescriptor(p)
  <2>1. state[p] = "bound" /\ UNCHANGED commandVars
    BY <1>4 DEF PublishDescriptor
  <2>2. CASE Becomes(p, "serving") /\ descriptors' = descriptors \cup {p}
    <3>1. MayBecome(p, "serving") /\ Publishes(p, "serving") /\ "serving" \in State
      BY <2>1, <2>2
    <3> QED
      BY <2>1, <2>2, <3>1, ProcessKeeps
  <2>3. CASE Becomes(p, "gone") /\ UNCHANGED descriptors
    <3>1. MayBecome(p, "gone") /\ Keeps(p, "gone") /\ "gone" \in State
      BY <2>1, <2>3
    <3> QED
      BY <2>1, <2>3, <3>1, ProcessKeeps
  <2> QED
    BY <1>4, <2>2, <2>3 DEF PublishDescriptor
<1>5. CASE Quit(p) \/ CloseEndpoint(p)
  <2>1. /\ Becomes(p, "closed") /\ MayBecome(p, "closed") /\ Keeps(p, "closed") /\ "closed" \in State
        /\ UNCHANGED commandVars
    BY <1>5 DEF Quit, CloseEndpoint
  <2> QED
    BY <2>1, ProcessKeeps
<1>6. CASE DropServer(p)
  <2>1. /\ Becomes(p, "gone") /\ MayBecome(p, "gone") /\ Removes(p, "gone") /\ "gone" \in State
        /\ UNCHANGED commandVars
    BY <1>6 DEF DropServer
  <2> QED
    BY <2>1, ProcessKeeps
<1>7. CASE Crash(p)
  <2>1. /\ Becomes(p, "gone") /\ MayBecome(p, "gone") /\ Keeps(p, "gone") /\ "gone" \in State
        /\ UNCHANGED commandVars
    BY <1>7 DEF Crash
  <2> QED
    BY <2>1, ProcessKeeps
<1> QED
  BY <1>1, <1>2, <1>3, <1>4, <1>5, <1>6, <1>7 DEF ProcessStep
-----------------------------------------------------------------------------
\* A command lists the descriptors.
LEMMA ListKeeps ==
  ASSUME DirectoryInv, NEW c \in Client, List(c)
  PROVE  DirectoryInv'
<1> USE DEF DirectoryInv, List, StepsTo
<1>0. /\ step \in [Client -> { "idle", "scanning", "probing", "failed", "asking", "withdrawn", "done" }]
      /\ todo \in [Client -> SUBSET Process] /\ hidden \in [Client -> SUBSET Process]
      /\ steady \in [Client -> SUBSET Process] /\ step[c] = "idle" /\ live[c] = {}
  BY DEF DirectoryTypeOK, OneAnswers
<1>1. DirectoryTypeOK'
  BY DEF DirectoryTypeOK
<1>2. SeenWerePublished'
  BY <1>0 DEF SeenWerePublished, Holding, Published
<1>3. LocksExclude'
  BY DEF LocksExclude
<1>4. Ahead(c)' \subseteq descriptors /\ descriptors \cap Process \subseteq Ahead(c)'
  BY <1>0 DEF Ahead
<1>5. \A d \in Client : d # c => Ahead(d)' = Ahead(d)
  BY <1>0 DEF Ahead
<1>6. OneAnswers'
  BY <1>0, <1>5 DEF OneAnswers, NamesAreUnique
<1>7. StopsWithdraw'
  BY <1>0, <1>4, <1>5 DEF StopsWithdraw
<1>8. ServingAhead'
  BY <1>0, <1>4, <1>5 DEF ServingAhead, ServingArePublished, Scanning
<1> QED
  BY <1>1, <1>2, <1>3, <1>6, <1>7, <1>8

\* A command takes the next descriptor of its list.
LEMMA ReadKeeps ==
  ASSUME DirectoryInv, NEW c \in Client, ReadDescriptor(c)
  PROVE  DirectoryInv'
<1> USE DEF DirectoryInv, ReadDescriptor, StepsTo
<1>0. /\ step \in [Client -> { "idle", "scanning", "probing", "failed", "asking", "withdrawn", "done" }]
      /\ todo \in [Client -> SUBSET Process] /\ held \in [Client -> Process \cup {None}]
      /\ step[c] = "scanning"
  BY DEF DirectoryTypeOK
<1>1. DirectoryTypeOK'
  BY DEF DirectoryTypeOK
<1>2. SeenWerePublished'
  BY <1>0 DEF SeenWerePublished, Holding
<1>3. LocksExclude'
  BY DEF LocksExclude
<1>4. Ahead(c)' \subseteq Ahead(c) /\ \A p \in Ahead(c) : p \in descriptors => p \in Ahead(c)'
  BY <1>0 DEF Ahead
<1>5. \A d \in Client : d # c => Ahead(d)' = Ahead(d)
  BY <1>0 DEF Ahead
<1>6. OneAnswers'
  BY <1>0, <1>4, <1>5 DEF OneAnswers, NamesAreUnique
<1>7. StopsWithdraw'
  BY <1>0, <1>4, <1>5 DEF StopsWithdraw
<1>8. ServingAhead'
  <2>1. ServingArePublished'
    BY DEF ServingAhead, ServingArePublished
  <2>2. \A d \in Client : d # c => step'[d] = step[d] /\ held'[d] = held[d]
    BY <1>0
  <2>3. step'[c] \in { "scanning", "probing" }
    BY <1>0
  <2>4. \A p \in steady[c] : state[p] = "serving" => p \in descriptors
    BY DEF ServingAhead, ServingArePublished, DirectoryTypeOK
  <2> QED
    BY <1>0, <1>4, <1>5, <2>1, <2>2, <2>3, <2>4 DEF ServingAhead, Scanning
<1> QED
  BY <1>1, <1>2, <1>3, <1>6, <1>7, <1>8

\* A command asks the endpoint who it is.
LEMMA ProbeKeeps ==
  ASSUME DirectoryInv, NEW c \in Client, Probe(c)
  PROVE  DirectoryInv'
<1> USE DEF DirectoryInv, Probe, StepsTo
<1>0. /\ step \in [Client -> { "idle", "scanning", "probing", "failed", "asking", "withdrawn", "done" }]
      /\ todo \in [Client -> SUBSET Process] /\ held \in [Client -> Process \cup {None}]
      /\ live \in [Client -> SUBSET Process] /\ step[c] = "probing"
      /\ held[c] \in Process /\ state[held[c]] \in Published /\ held[c] \in Ahead(c)
  BY DEF DirectoryTypeOK, SeenWerePublished, Holding, Ahead
<1>1. DirectoryTypeOK'
  BY <1>0 DEF DirectoryTypeOK
<1>2. SeenWerePublished'
  BY <1>0 DEF SeenWerePublished, Holding
<1>3. LocksExclude'
  BY DEF LocksExclude
<1>4. Ahead(c)' \subseteq Ahead(c) /\ \A p \in Ahead(c) : p # held[c] => p \in Ahead(c)'
  BY <1>0 DEF Ahead
<1>5. \A d \in Client : d # c => Ahead(d)' = Ahead(d) /\ live'[d] = live[d]
  BY <1>0 DEF Ahead
<1>6. OneAnswers'
  <2>1. CASE Answers(c, held[c])
    <3> DEFINE p == held[c]
    <3>1. live'[c] = live[c] \cup {p} /\ p \in Process /\ state[p] \in Owning /\ state[p] # "gone"
      BY <1>0, <2>1 DEF Answers, Answering, Owning, Named
    <3>2. state[p] \in Named
      BY <3>1 DEF Owning
    <3>3. \A q \in Process :
            q # p /\ state[q] \in Published /\ (NameOf[p] = NameOf[q] \/ RootOf[p] = RootOf[q])
              => state[q] = "gone"
      BY <3>1, <3>2 DEF LocksExclude, Published, Named, Owning
    <3>4. \A q \in live[c] :
            q # p /\ (NameOf[p] = NameOf[q] \/ RootOf[p] = RootOf[q]) => FALSE
      BY <1>0, <3>1 DEF OneAnswers
    <3>5. \A q \in Ahead(c) : q \in Process /\ state[q] \in Published
      BY <1>0 DEF Ahead, SeenWerePublished
    <3>6. NamesAreUnique'
      BY <1>5, <3>1, <3>4 DEF OneAnswers, NamesAreUnique
    <3>7. \A q \in Ahead(c) :
            q # p /\ (NameOf[p] = NameOf[q] \/ RootOf[p] = RootOf[q]) => state[q] = "gone"
      BY <3>3, <3>5
    <3>8. (\A d \in Client : \A r \in live[d], q \in Ahead(d) :
             r # q /\ (NameOf[r] = NameOf[q] \/ RootOf[r] = RootOf[q]) => state[q] = "gone")'
      BY <1>4, <1>5, <3>1, <3>7 DEF OneAnswers
    <3>9. (\A d \in Client : step[d] = "idle" => live[d] = {})'
      BY <1>0, <1>5, <2>1 DEF OneAnswers
    <3> QED
      BY <3>6, <3>8, <3>9 DEF OneAnswers
  <2>2. CASE ~ Answers(c, held[c])
    <3>1. live' = live
      BY <2>2
    <3> QED
      BY <1>0, <1>4, <1>5, <2>2, <3>1 DEF OneAnswers, NamesAreUnique
  <2> QED
    BY <2>1, <2>2
<1>7. StopsWithdraw'
  <2>1. live'[c] \subseteq live[c] \cup {held[c]}
    BY <1>0
  <2> QED
    BY <1>0, <1>4, <1>5, <2>1 DEF StopsWithdraw
<1>8. ServingAhead'
  <2>1. ServingArePublished'
    BY DEF ServingAhead, ServingArePublished
  <2>2. \A d \in Client : d # c => step'[d] = step[d] /\ held'[d] = held[d]
    BY <1>0
  <2>3. CASE Answers(c, held[c])
    <3>1. step'[c] = "scanning" /\ live'[c] = live[c] \cup {held[c]}
      BY <1>0, <2>3
    <3> QED
      BY <1>0, <1>4, <1>5, <2>1, <2>2, <3>1 DEF ServingAhead, Scanning
  <2>4. CASE ~ Answers(c, held[c])
    <3>1. step'[c] = "failed" /\ live' = live /\ held' = held
      BY <1>0, <2>4
    <3>2. c \notin foreign => state[held[c]] \in { "closed", "gone" }
      BY <1>0, <2>4 DEF Answers, Answering, Published
    <3> QED
      BY <1>0, <1>4, <1>5, <2>1, <2>2, <3>1, <3>2 DEF ServingAhead, Scanning
  <2> QED
    BY <2>3, <2>4
<1> QED
  BY <1>1, <1>2, <1>3, <1>6, <1>7, <1>8

\* A command removes what a dead process left.
LEMMA ReclaimKeeps ==
  ASSUME DirectoryInv, NEW c \in Client, Reclaim(c)
  PROVE  DirectoryInv'
<1> USE DEF DirectoryInv, Reclaim, StepsTo
<1>0. /\ step \in [Client -> { "idle", "scanning", "probing", "failed", "asking", "withdrawn", "done" }]
      /\ held \in [Client -> Process \cup {None}] /\ step[c] = "failed"
      /\ descriptors' \subseteq descriptors
  BY DEF DirectoryTypeOK
<1>1. DirectoryTypeOK'
  BY DEF DirectoryTypeOK
<1>2. SeenWerePublished'
  BY <1>0 DEF SeenWerePublished, Holding
<1>3. LocksExclude'
  BY DEF LocksExclude
<1>4. \A d \in Client : Ahead(d)' = Ahead(d)
  BY <1>0 DEF Ahead
<1>5. OneAnswers'
  BY <1>0, <1>4 DEF OneAnswers, NamesAreUnique
<1>6. StopsWithdraw'
  BY <1>0, <1>4 DEF StopsWithdraw
<1>7. ServingAhead'
  <2>1. ServingArePublished'
    BY DEF ServingAhead, ServingArePublished
  <2> QED
    BY <1>0, <1>4, <2>1 DEF ServingAhead, Scanning
<1> QED
  BY <1>1, <1>2, <1>3, <1>5, <1>6, <1>7

\* A command selects one of the instances that answered.
LEMMA SelectKeeps ==
  ASSUME DirectoryInv, NEW c \in Client, Select(c)
  PROVE  DirectoryInv'
<1> USE DEF DirectoryInv, Select, StepsTo
<1>0. /\ step \in [Client -> { "idle", "scanning", "probing", "failed", "asking", "withdrawn", "done" }]
      /\ held \in [Client -> Process \cup {None}] /\ live \in [Client -> SUBSET Process]
      /\ step[c] = "scanning" /\ step'[c] \in { "asking", "done" }
      /\ step'[c] = "asking" => held'[c] \in live[c]
      /\ \A d \in Client : d # c => step'[d] = step[d] /\ held'[d] = held[d]
  <2>1. PICK found \in { live[c] } \cup { Matching(c, n) : n \in Name } :
          IF Cardinality(found) = 1
            THEN /\ StepsTo(c, "asking")
                 /\ \E p \in found : held' = [held EXCEPT ![c] = p]
            ELSE StepsTo(c, "done") /\ UNCHANGED held
    OBVIOUS
  <2>2. found \subseteq live[c]
    BY DEF Matching
  <2> QED
    BY <2>1, <2>2 DEF DirectoryTypeOK
<1>1. DirectoryTypeOK'
  BY <1>0 DEF DirectoryTypeOK
<1>2. SeenWerePublished'
  BY <1>0 DEF SeenWerePublished, Holding
<1>3. LocksExclude'
  BY DEF LocksExclude
<1>4. \A d \in Client : Ahead(d)' = Ahead(d)
  BY <1>0 DEF Ahead
<1>5. OneAnswers'
  BY <1>0, <1>4 DEF OneAnswers, NamesAreUnique
<1>6. StopsWithdraw'
  BY <1>0, <1>4 DEF StopsWithdraw
<1>7. ServingAhead'
  BY <1>0, <1>4 DEF ServingAhead, ServingArePublished, Scanning
<1> QED
  BY <1>1, <1>2, <1>3, <1>5, <1>6, <1>7

\* An instance takes a stop: its descriptor goes, and its state changes.
LEMMA RequestStopKeeps ==
  ASSUME DirectoryInv, NEW c \in Client, RequestStop(c)
  PROVE  DirectoryInv'
<1> USE DEF DirectoryInv, RequestStop, Becomes, StepsTo
<1> DEFINE p == held[c]
<1>0. /\ step \in [Client -> { "idle", "scanning", "probing", "failed", "asking", "withdrawn", "done" }]
      /\ state \in [Process -> State] /\ p \in Process /\ state[p] \in { "serving", "stopping" }
      /\ state'[p] = "stopping" /\ \A q \in Process : q # p => state'[q] = state[q]
      /\ step[c] = "asking" /\ step'[c] = "withdrawn"
      /\ \A d \in Client : d # c => step'[d] = step[d]
  BY DEF DirectoryTypeOK, SeenWerePublished, Holding, Answering, Published
<1>1. DirectoryTypeOK'
  BY <1>0 DEF DirectoryTypeOK, State, Named
<1>2. \A q \in Process : state[q] \in Published => state'[q] \in Published
  BY <1>0 DEF Published
<1>3. SeenWerePublished'
  <2>1. (\A q \in descriptors : state[q] \in Published)'
    BY <1>2 DEF SeenWerePublished, DirectoryTypeOK
  <2>2. (\A d \in Client : \A q \in todo[d] \cup live[d] \cup steady[d] : state[q] \in Published)'
    BY <1>2 DEF SeenWerePublished, DirectoryTypeOK
  <2>3. (\A d \in Client : step[d] \in Holding => held[d] \in Process /\ state[held[d]] \in Published)'
    BY <1>0, <1>2 DEF SeenWerePublished, Holding
  <2> QED
    BY <2>1, <2>2, <2>3 DEF SeenWerePublished
<1>4. LocksExclude'
  <2>1. \A q \in Process :
          (state'[q] \in Named => state[q] \in Named) /\ (state'[q] \in Owning => state[q] \in Owning)
    BY <1>0 DEF Named, Owning
  <2> QED
    BY <2>1 DEF LocksExclude
<1>5. \A d \in Client : Ahead(d)' = Ahead(d)
  BY <1>0 DEF Ahead
<1>6. OneAnswers'
  <2>1. \A d \in Client : Ahead(d) \subseteq Process
    BY DEF Ahead
  <2>2. \A q \in Process : state[q] = "gone" => state'[q] = "gone"
    BY <1>0
  <2> QED
    BY <1>0, <1>5, <2>1, <2>2 DEF OneAnswers, NamesAreUnique
<1>7. StopsWithdraw'
  <2>1. \A q \in Process : state[q] \in Ended => state'[q] \in Ended
    BY <1>0 DEF Ended
  <2>2. (\A q \in halted : q \notin descriptors /\ state[q] \in Ended)'
    BY <2>1 DEF StopsWithdraw, DirectoryTypeOK
  <2>3. (\A d \in Client : step[d] = "withdrawn" => held[d] \notin descriptors /\ state[held[d]] \in Ended)'
    BY <1>0, <2>1 DEF StopsWithdraw, SeenWerePublished, Holding, Ended
  <2> QED
    BY <1>5, <2>2, <2>3 DEF StopsWithdraw
<1>8. ServingAhead'
  <2>1. ServingArePublished'
    BY <1>0 DEF ServingAhead, ServingArePublished
  <2>2. \A d \in Client : d \notin foreign /\ step'[d] = "failed" => state'[held[d]] \in { "closed", "gone" }
    BY <1>0 DEF ServingAhead, SeenWerePublished, Holding
  <2>3. \A q \in Process : state'[q] = "serving" => state[q] = "serving"
    BY <1>0
  <2> QED
    BY <1>0, <1>5, <2>1, <2>2, <2>3 DEF ServingAhead, Scanning, DirectoryTypeOK
<1> QED
  BY <1>1, <1>3, <1>4, <1>6, <1>7, <1>8

\* A command is answered, or its connection breaks.
LEMMA FinishKeeps ==
  ASSUME DirectoryInv, NEW c \in Client, ReceiveStop(c) \/ Finish(c)
  PROVE  DirectoryInv'
<1> USE DEF DirectoryInv, ReceiveStop, Finish, StepsTo
<1>0. /\ step \in [Client -> { "idle", "scanning", "probing", "failed", "asking", "withdrawn", "done" }]
      /\ step[c] \in { "asking", "withdrawn" } /\ step'[c] = "done"
      /\ \A d \in Client : d # c => step'[d] = step[d]
      /\ \A p \in halted' : p \in halted \/ (step[c] = "withdrawn" /\ p = held[c])
      /\ held[c] \in Process
  BY DEF DirectoryTypeOK, SeenWerePublished, Holding
<1>1. DirectoryTypeOK'
  BY <1>0 DEF DirectoryTypeOK
<1>2. SeenWerePublished'
  BY <1>0 DEF SeenWerePublished, Holding
<1>3. LocksExclude'
  BY DEF LocksExclude
<1>4. \A d \in Client : Ahead(d)' = Ahead(d)
  BY <1>0 DEF Ahead
<1>5. OneAnswers'
  BY <1>0, <1>4 DEF OneAnswers, NamesAreUnique
<1>6. StopsWithdraw'
  BY <1>0, <1>4 DEF StopsWithdraw
<1>7. ServingAhead'
  BY <1>0, <1>4 DEF ServingAhead, ServingArePublished, Scanning
<1> QED
  BY <1>1, <1>2, <1>3, <1>5, <1>6, <1>7

-----------------------------------------------------------------------------
\* The strengthened invariant holds in every reachable state: what commands see is
\* ordered by what processes did, for any processes, names, roots and commands.
THEOREM DirectoryInvariant == DirectorySpec => []DirectoryInv
<1>1. DirectoryInit => DirectoryInv
  BY DEF DirectoryInit, DirectoryInv, DirectoryTypeOK, SeenWerePublished, LocksExclude,
        OneAnswers, NamesAreUnique,
         StopsWithdraw, ServingAhead, ServingArePublished, Ahead, Holding, Scanning, Named, Owning,
         State
<1>2. DirectoryInv /\ [DirectoryNext]_directoryVars => DirectoryInv'
  <2> SUFFICES ASSUME DirectoryInv, [DirectoryNext]_directoryVars PROVE DirectoryInv'
    OBVIOUS
  <2>1. CASE \E p \in Process : ProcessStep(p)
    BY <2>1, ProcessSteps
  <2>2. CASE \E c \in Client : CommandStep(c)
    BY <2>2, ListKeeps, ReadKeeps, ProbeKeeps, ReclaimKeeps, SelectKeeps, RequestStopKeeps,
       FinishKeeps DEF CommandStep
  <2>3. CASE UNCHANGED directoryVars
    BY <2>3 DEF directoryVars, DirectoryInv, DirectoryTypeOK, SeenWerePublished,
          LocksExclude, OneAnswers,
                NamesAreUnique, StopsWithdraw, ServingAhead, ServingArePublished, Ahead
  <2> QED
    BY <2>1, <2>2, <2>3 DEF DirectoryNext
<1> QED
  BY <1>1, <1>2, PTL DEF DirectorySpec

\* Every variable of the directory keeps its type.
THEOREM DirectoryTypeCorrect == DirectorySpec => []DirectoryTypeOK
<1>1. DirectoryInv => DirectoryTypeOK
  BY DEF DirectoryInv
<1> QED
  BY <1>1, DirectoryInvariant, PTL

\* What a command sees is true whatever starts, stops and crashes around it: no two
\* answers for one name or root, nothing that was halted, all that serves
\* (control.rs:1841-1978, leases.rs:33-82).
THEOREM DirectoryTrue == DirectorySpec => []DirectoryIsTrue
<1>1. DirectoryInv => DirectoryIsTrue
  <2> SUFFICES ASSUME DirectoryInv PROVE DirectoryIsTrue
    OBVIOUS
  <2>1. NamesAreUnique /\ StoppedAreHidden /\ ServingArePublished
    BY DEF DirectoryInv, OneAnswers, StopsWithdraw, StoppedAreHidden, ServingAhead
  <2>2. ServingAreFound
    BY DEF DirectoryInv, ServingAhead, ServingAreFound, Ahead, Scanning
  <2> QED
    BY <2>1, <2>2 DEF DirectoryIsTrue
<1> QED
  BY <1>1, DirectoryInvariant, PTL

-----------------------------------------------------------------------------
(***************************************************************************)
(* The server: connections, workers, sinks and streams.  ServerInv is      *)
(* inductive.  Most of it is about one connection (Sound): an action changes*)
(* one connection and wakes others, so every case shows Sound for that one *)
(* and leaves the rest to OneChanges.                                      *)
(***************************************************************************)
Early == { "none", "reading", "dispatching", "replying", "withdrawing", "answering" }
Locking == { "responding", "showing" }
Streaming == { "watching", "dozing", "asleep", "closing", "completing" }
Frame == { Response } \cup { Event(n) : n \in Nat } \cup { Completion(n) : n \in Nat }

\* The types that the proofs need: events are not bounded here.
Types ==
  /\ client \in [Connection -> { "away", "silent", "reading", "stalled", "left" }]
  /\ worker \in [Connection -> Early \cup Locking \cup Streaming \cup { "committing", "ended" }]
  /\ writer \in [Connection -> { "free", "worker", "sink" }]
  /\ sub \in [Connection -> { "none", "live" }]
  /\ sink \in [Connection -> { "idle", "ready", "blocked" }]
  /\ closed \in [Connection -> BOOLEAN] /\ finished \in [Connection -> BOOLEAN]
  /\ observed \in [Connection -> BOOLEAN]
  /\ count \in [Connection -> Nat] /\ wire \in [Connection -> Seq(Frame)]
  /\ backlog \subseteq Connection

\* A stream with its response and its first n events, and one that is completed.
Open(s, n) == Len(s) = n + 1 /\ \A i \in 1..Len(s) : s[i] = IF i = 1 THEN Response ELSE Event(i - 1)
Completed(s) == s # <<>> /\ s[Len(s)][1] = "completion"

\* The stream of one connection, by what its worker and its sink are doing.
Sound(c) ==
  /\ Whole(wire[c])
  /\ client[c] = "away" => worker[c] = "none" /\ c \notin backlog
  /\ c \in backlog => worker[c] = "none"
  /\ worker[c] \in Early \cup Locking => wire[c] = <<>> /\ count[c] = 0 /\ sink[c] # "blocked"
  /\ worker[c] \in Early \cup { "showing", "committing" } => sub[c] = "none" /\ sink[c] = "idle"
  /\ worker[c] \in Streaming /\ client[c] # "left" /\ sink[c] # "blocked" => Open(wire[c], count[c])
  /\ worker[c] \in { "committing", "ended" } /\ client[c] # "left" => Completed(wire[c])
  /\ worker[c] \in Locking <=> writer[c] = "worker"
  /\ sink[c] = "blocked" => client[c] \in { "stalled", "left" } /\ writer[c] = "sink"
  /\ worker[c] = "completing" => closed[c] /\ sub[c] = "none"
  /\ worker[c] = "ended" => sub[c] = "none" /\ (sink[c] = "idle" \/ closed[c])

\* No worker starts once the accepting thread joins them, and no stop is answered
\* while the descriptor is there.
EndsInOrder ==
  /\ loop = "ended" => \A c \in Connection : worker[c] \in { "none", "ended" }
  /\ \A c \in Connection : worker[c] \in { "answering", "committing" } => descriptor = FALSE
  /\ committed => descriptor = FALSE

ServerInv == Types /\ EndsInOrder /\ \A c \in Connection : Sound(c)

-----------------------------------------------------------------------------
\* A frame is written at the end.
LEMMA Written ==
  ASSUME NEW s \in Seq(Frame), NEW x \in Frame
  PROVE  /\ s \o <<x>> \in Seq(Frame) /\ Len(s \o <<x>>) = Len(s) + 1
         /\ (s \o <<x>>)[Len(s) + 1] = x /\ \A i \in 1..Len(s) : (s \o <<x>>)[i] = s[i]
<1>1. <<x>> \in Seq(Frame) /\ Len(<<x>>) = 1 /\ <<x>>[1] = x
  OBVIOUS
<1>2. Len(s) \in Nat
  OBVIOUS
<1> QED
  BY <1>1, <1>2, ConcatProperties

\* The empty stream is whole, an open one is, and it stays so with its next event and
\* with its completion.
LEMMA StreamFacts ==
  /\ Whole(<<>>)
  /\ << Response, Completion(0) >> \in Seq(Frame) /\ Whole(<< Response, Completion(0) >>)
  /\ Completed(<< Response, Completion(0) >>)
  /\ << Response >> \in Seq(Frame) /\ Whole(<< Response >>) /\ Open(<< Response >>, 0)
<1>1. Response \in Frame /\ Completion(0) \in Frame
  BY DEF Frame
<1>2. Response[1] = "response" /\ Completion(0)[1] = "completion"
  BY DEF Response, Completion
<1>3. Whole(<<>>)
  BY DEF Whole
<1>4. Whole(<< Response, Completion(0) >>) /\ Completed(<< Response, Completion(0) >>)
  BY <1>2 DEF Whole, Completed
<1>5. Whole(<< Response >>) /\ Open(<< Response >>, 0)
  BY <1>2 DEF Whole, Open
<1> QED
  BY <1>1, <1>3, <1>4, <1>5

\* The next event of an open stream.
LEMMA NextEvent ==
  ASSUME NEW s \in Seq(Frame), NEW n \in Nat, Open(s, n)
  PROVE  /\ s \o << Event(n + 1) >> \in Seq(Frame)
         /\ Open(s \o << Event(n + 1) >>, n + 1) /\ Whole(s \o << Event(n + 1) >>)
<1> DEFINE t == s \o << Event(n + 1) >>
<1>1. Event(n + 1) \in Frame
  BY DEF Frame
<1>2. /\ t \in Seq(Frame) /\ Len(t) = n + 2 /\ t[n + 2] = Event(n + 1)
      /\ \A i \in 1..(n + 1) : t[i] = s[i]
  BY <1>1, Written DEF Open
<1> HIDE DEF t
<1>3. Open(t, n + 1)
  BY <1>2 DEF Open
<1>4. t[n + 2][1] = "event"
  BY <1>2 DEF Event
<1>5. Whole(t)
  BY <1>2, <1>3, <1>4 DEF Whole, Open
<1> QED
  BY <1>2, <1>3, <1>5 DEF t

\* The completion of an open stream.
LEMMA LastFrame ==
  ASSUME NEW s \in Seq(Frame), NEW n \in Nat, Open(s, n)
  PROVE  /\ s \o << Completion(n) >> \in Seq(Frame)
         /\ Completed(s \o << Completion(n) >>) /\ Whole(s \o << Completion(n) >>)
<1> DEFINE t == s \o << Completion(n) >>
<1>1. Completion(n) \in Frame
  BY DEF Frame
<1>2. /\ t \in Seq(Frame) /\ Len(t) = n + 2 /\ t[n + 2] = Completion(n)
      /\ \A i \in 1..(n + 1) : t[i] = s[i]
  BY <1>1, Written DEF Open
<1> HIDE DEF t
<1>3. t[n + 2][1] = "completion"
  BY <1>2 DEF Completion
<1>4. Completed(t)
  BY <1>2, <1>3 DEF Completed
<1>5. Whole(t)
  BY <1>2, <1>3 DEF Whole, Open
<1> QED
  BY <1>2, <1>4, <1>5 DEF t
-----------------------------------------------------------------------------
\* Nothing happens to a connection, but that its worker may be woken.
Same(d) ==
  /\ client'[d] = client[d] /\ writer'[d] = writer[d] /\ sub'[d] = sub[d] /\ sink'[d] = sink[d]
  /\ closed'[d] = closed[d] /\ count'[d] = count[d] /\ wire'[d] = wire[d]
  /\ worker'[d] = worker[d] \/ (worker[d] = "asleep" /\ worker'[d] = "watching")
  /\ d \in backlog' => d \in backlog

\* A connection that nothing touched, or that was only woken, stays sound.
LEMMA SameIsSound ==
  ASSUME NEW d \in Connection, Sound(d), Same(d)
  PROVE  Sound(d)'
BY DEF Sound, Same, Early, Locking, Streaming

\* An action that changes one connection keeps the invariant when that one stays sound.
LEMMA OneChanges ==
  ASSUME ServerInv, NEW c \in Connection, Types', EndsInOrder', Sound(c)',
         \A d \in Connection \ {c} : Same(d)
  PROVE  ServerInv'
<1>1. \A d \in Connection \ {c} : Sound(d)'
  BY SameIsSound DEF ServerInv
<1> QED
  BY <1>1 DEF ServerInv

\* So does one that changes none.
LEMMA NoneChanges ==
  ASSUME ServerInv, Types', EndsInOrder', \A d \in Connection : Same(d)
  PROVE  ServerInv'
BY SameIsSound DEF ServerInv

Workers == Early \cup Locking \cup Streaming \cup { "committing", "ended" }

\* notify_all wakes those that sleep.
LEMMA NotifiedFacts ==
  ASSUME NEW w \in [Connection -> Workers]
  PROVE  /\ Notified(w) \in [Connection -> Workers]
         /\ \A d \in Connection :
              Notified(w)[d] = w[d] \/ (w[d] = "asleep" /\ Notified(w)[d] = "watching")
BY DEF Notified, Workers, Streaming

-----------------------------------------------------------------------------
\* A client connects, sends, leaves or stops reading.
LEMMA ClientKeeps ==
  ASSUME ServerInv, NEW c \in Connection, Connect(c) \/ Send(c) \/ Leave(c) \/ Stall(c)
  PROVE  ServerInv'
<1> USE DEF ServerInv, Connect, Send, Leave, Stall, lifeVars, streamVars, signalVars
<1>1. Types'
  BY DEF Types
<1>2. EndsInOrder'
  BY DEF EndsInOrder
<1>3. /\ client'[c] # "away" /\ (client'[c] # "left" => client[c] # "left")
      /\ sink[c] = "blocked" => client'[c] \in { "stalled", "left" }
      /\ client[c] # "away" => backlog' = backlog
      /\ client[c] = "away" => worker[c] = "none"
      /\ \A d \in Connection \ {c} : client'[d] = client[d] /\ (d \in backlog' => d \in backlog)
  BY DEF Types, Sound
<1>4. Sound(c)'
  BY <1>3 DEF Sound
<1>5. \A d \in Connection \ {c} : Same(d)
  BY <1>3 DEF Same
<1> QED
  BY <1>1, <1>2, <1>4, <1>5, OneChanges

\* The accepting thread and the drop of the server change no connection, but that
\* they wake workers ...
LEMMA SignalKeeps ==
  ASSUME ServerInv, Check \/ Join \/ Drop \/ DropEnds \/ (Accept /\ stopped)
  PROVE  ServerInv'
<1> USE DEF ServerInv, lifeVars, streamVars, signalVars, clientVars
<1>1. worker \in [Connection -> Workers]
  BY DEF Types, Workers
<1>2. /\ worker' = worker \/ worker' = Notified(worker)
      /\ UNCHANGED << client, writer, sub, sink, closed, finished, observed, count, wire, committed >>
      /\ descriptor' = descriptor \/ descriptor' = FALSE
      /\ backlog' \subseteq backlog
      /\ loop' = "ended" => loop = "ended" \/ \A c \in Connection : worker[c] \in { "none", "ended" }
  BY DEF Check, Join, Drop, DropEnds, Accept, LeaveLoop, Stop
<1>3. \A d \in Connection : worker'[d] = worker[d] \/ (worker[d] = "asleep" /\ worker'[d] = "watching")
  BY <1>1, <1>2, NotifiedFacts
<1>4. Types'
  BY <1>1, <1>2, NotifiedFacts DEF Types, Workers
<1>5. EndsInOrder'
  BY <1>2, <1>3 DEF EndsInOrder
<1>6. \A d \in Connection : Same(d)
  BY <1>2, <1>3 DEF Same
<1> QED
  BY <1>4, <1>5, <1>6, NoneChanges

\* ... and one connection gets a worker.
LEMMA AcceptKeeps ==
  ASSUME ServerInv, Accept, ~ stopped
  PROVE  ServerInv'
<1> USE DEF ServerInv, lifeVars, streamVars, clientVars
<1>1. PICK c \in backlog : /\ worker' = [worker EXCEPT ![c] = "reading"]
                           /\ backlog' = backlog \ {c} /\ loop' = "checking"
  BY DEF Accept
<1>2. UNCHANGED << client, writer, sub, sink, closed, finished, observed, count, wire, committed,
                   descriptor >>
  BY DEF Accept
<1>3. c \in Connection /\ worker[c] = "none" /\ client[c] # "away" /\ worker'[c] = "reading"
  BY <1>1 DEF Types, Sound
<1>4. Types'
  BY <1>1, <1>2 DEF Types, Early
<1>5. EndsInOrder'
  BY <1>1, <1>2 DEF EndsInOrder, Types
<1>6. Sound(c)'
  BY <1>1, <1>2, <1>3 DEF Sound, Early, Locking, Streaming
<1>7. \A d \in Connection \ {c} : Same(d)
  BY <1>1, <1>2 DEF Same, Types
<1> QED
  BY <1>3, <1>4, <1>5, <1>6, <1>7, OneChanges

-----------------------------------------------------------------------------
\* What is written to a client that left is lost.
LEMMA WritesFacts ==
  ASSUME Types, NEW c \in Connection, NEW f \in Seq(Frame), Writes(c, f)
  PROVE  /\ wire' \in [Connection -> Seq(Frame)] /\ \A d \in Connection \ {c} : wire'[d] = wire[d]
         /\ client[c] = "left" => wire'[c] = wire[c]
         /\ client[c] # "left" => wire'[c] = wire[c] \o f
BY DEF Types, Writes, Gone

\* A worker goes on without writing.
LEMMA SilentWorkerKeeps ==
  ASSUME ServerInv, NEW c \in Connection, Read(c) \/ AcceptStop(c) \/ Watch(c) \/ Wait(c) \/ CloseStream(c)
  PROVE  ServerInv'
<1> USE DEF ServerInv, endpointVars, clientVars, signalVars, lifeVars, streamVars
<1>1. /\ UNCHANGED << client, backlog, committed, descriptor, loop, writer, sink, finished, observed,
                     count, wire >>
      /\ \A d \in Connection \ {c} : worker'[d] = worker[d] /\ closed'[d] = closed[d] /\ sub'[d] = sub[d]
      /\ worker[c] \notin { "none", "ended" } /\ worker'[c] \notin { "answering", "committing" }
  BY DEF Types, Read, AcceptStop, Watch, Wait, CloseStream, Goes
<1>2. Types'
  BY ZenonT(60) DEF Types, Read, AcceptStop, Watch, Wait, CloseStream, Goes, Early, Streaming
<1>3. EndsInOrder'
  BY <1>1 DEF EndsInOrder
<1>4. Sound(c)'
  <2>1. CASE Read(c)
    <3>1. worker'[c] \in { "ended", "dispatching" } /\ (worker'[c] = "ended" => client[c] = "left")
          /\ worker[c] = "reading" /\ closed' = closed /\ sub' = sub
      BY <2>1 DEF Read, Goes, Gone, Types
    <3> QED
      BY <1>1, <3>1 DEF Sound, Early, Locking, Streaming
  <2>2. CASE AcceptStop(c)
    <3>1. worker[c] = "dispatching" /\ worker'[c] = "withdrawing" /\ closed' = closed /\ sub' = sub
      BY <2>2 DEF AcceptStop, Goes, Types
    <3> QED
      BY <1>1, <3>1 DEF Sound, Early, Locking, Streaming
  <2>3. CASE Watch(c) \/ Wait(c)
    <3>1. /\ worker[c] \in { "watching", "dozing" } /\ worker'[c] \in { "closing", "dozing", "asleep" }
          /\ closed' = closed /\ sub' = sub
      BY <2>3 DEF Watch, Wait, Goes, Types
    <3> QED
      BY <1>1, <3>1 DEF Sound, Early, Locking, Streaming
  <2>4. CASE CloseStream(c)
    <3>1. worker[c] = "closing" /\ worker'[c] = "completing" /\ closed'[c] = TRUE /\ sub'[c] = "none"
      BY <2>4 DEF CloseStream, Goes, Types
    <3> QED
      BY <1>1, <3>1 DEF Sound, Early, Locking, Streaming
  <2> QED
    BY <2>1, <2>2, <2>3, <2>4
<1>5. \A d \in Connection \ {c} : Same(d)
  BY <1>1 DEF Same
<1> QED
  BY <1>2, <1>3, <1>4, <1>5, OneChanges

\* A request that is answered as a whole, the acceptance of a stop among them.
LEMMA AnswerKeeps ==
  ASSUME ServerInv, NEW c \in Connection,
         Answer(c) \/ Reply(c) \/ Withdraw(c) \/ AnswerStop(c)
  PROVE  ServerInv'
<1> USE DEF ServerInv, endpointVars, clientVars, signalVars, lifeVars, streamVars
<1>1. /\ UNCHANGED << client, backlog, committed, loop, writer, sub, sink, closed, finished, observed,
                     count >>
      /\ descriptor' = descriptor \/ descriptor' = FALSE
      /\ worker[c] \in { "dispatching", "replying", "withdrawing", "answering" }
      /\ worker' = [worker EXCEPT ![c] = worker'[c]]
      /\ \/ /\ wire' = wire
            /\ worker'[c] = "replying" \/ (worker'[c] = "answering" /\ descriptor' = FALSE)
         \/ /\ Writes(c, << Response, Completion(0) >>)
            /\ worker'[c] = "ended" \/ (worker'[c] = "committing" /\ worker[c] = "answering")
  BY DEF Answer, Reply, Withdraw, AnswerStop, Goes, Gone, Writes, Types
<1>2. wire[c] = <<>> /\ count[c] = 0 /\ sub[c] = "none" /\ sink[c] = "idle" /\ writer[c] # "worker"
      /\ client[c] # "away" /\ c \notin backlog
  BY <1>1 DEF Sound, Early, Locking
<1>3. /\ wire' \in [Connection -> Seq(Frame)] /\ \A d \in Connection \ {c} : wire'[d] = wire[d]
      /\ worker'[c] \in { "replying", "answering" } => wire'[c] = <<>>
      /\ worker'[c] \notin { "replying", "answering" } =>
           wire'[c] = IF client[c] = "left" THEN <<>> ELSE << Response, Completion(0) >>
  <2>1. <<>> \o << Response, Completion(0) >> = << Response, Completion(0) >>
    BY StreamFacts
  <2>2. CASE wire' = wire /\ worker'[c] \in { "replying", "answering" }
    BY <1>2, <2>2 DEF Types
  <2>3. CASE /\ Writes(c, << Response, Completion(0) >>)
             /\ worker'[c] \notin { "replying", "answering" }
    <3>1. /\ wire' \in [Connection -> Seq(Frame)] /\ \A d \in Connection \ {c} : wire'[d] = wire[d]
          /\ client[c] = "left" => wire'[c] = wire[c]
          /\ client[c] # "left" => wire'[c] = wire[c] \o << Response, Completion(0) >>
      BY <2>3, StreamFacts, WritesFacts
    <3> QED
      BY <1>2, <2>1, <2>3, <3>1
  <2> QED
    BY <1>1, <2>2, <2>3
<1>4. Types'
  <2>1. worker' \in [Connection -> Workers]
    BY <1>1 DEF Types, Workers, Early
  <2> QED
    BY <1>1, <1>3, <2>1 DEF Types, Workers
<1>5. EndsInOrder'
  BY <1>1 DEF EndsInOrder, Types
<1>6. Sound(c)'
  BY <1>1, <1>2, <1>3, StreamFacts DEF Sound, Early, Locking, Streaming
<1>7. \A d \in Connection \ {c} : Same(d)
  BY <1>1, <1>3 DEF Same, Types
<1> QED
  BY <1>4, <1>5, <1>6, <1>7, OneChanges

\* The stop is recorded and the server told.
LEMMA CommitKeeps ==
  ASSUME ServerInv, NEW c \in Connection, Commit(c)
  PROVE  ServerInv'
<1> USE DEF ServerInv, endpointVars, clientVars, signalVars, lifeVars, streamVars
<1> DEFINE w == [worker EXCEPT ![c] = "ended"]
<1>1. /\ UNCHANGED << client, backlog, descriptor, loop, writer, sub, sink, closed, finished, observed,
                     count, wire >>
      /\ worker[c] = "committing" /\ worker' = Notified(w) /\ committed' = TRUE
  BY DEF Commit, Stop
<1>2. w \in [Connection -> Workers] /\ w[c] = "ended" /\ \A d \in Connection \ {c} : w[d] = worker[d]
  BY DEF Types, Workers
<1> HIDE DEF w
<1>3. /\ worker' \in [Connection -> Workers] /\ worker'[c] = "ended"
      /\ \A d \in Connection \ {c} :
           worker'[d] = worker[d] \/ (worker[d] = "asleep" /\ worker'[d] = "watching")
  BY <1>1, <1>2, NotifiedFacts
<1>4. Types'
  BY <1>1, <1>3 DEF Types, Workers
<1>5. EndsInOrder'
  BY <1>1, <1>3 DEF EndsInOrder
<1>6. Sound(c)'
  BY <1>1, <1>3 DEF Sound, Early, Locking, Streaming
<1>7. \A d \in Connection \ {c} : Same(d)
  BY <1>1, <1>3 DEF Same
<1> QED
  BY <1>4, <1>5, <1>6, <1>7, OneChanges

-----------------------------------------------------------------------------
\* The worker of an attachment takes the lock and subscribes.
LEMMA AttachKeeps ==
  ASSUME ServerInv, NEW c \in Connection, Attach(c)
  PROVE  ServerInv'
<1> USE DEF ServerInv, endpointVars, clientVars, signalVars, lifeVars
<1>1. /\ UNCHANGED << client, backlog, committed, descriptor, loop, sink, closed, finished, observed,
                     count, wire >>
      /\ worker[c] = "dispatching" /\ writer' = [writer EXCEPT ![c] = "worker"]
      /\ worker' = [worker EXCEPT ![c] = worker'[c]] /\ sub' = [sub EXCEPT ![c] = sub'[c]]
      /\ \/ worker'[c] = "responding" /\ sub'[c] = "live"
         \/ worker'[c] = "showing" /\ sub' = sub
  BY DEF Attach, Goes, Types
<1>2. Types'
  <2>1. worker' \in [Connection -> Workers] /\ sub' \in [Connection -> { "none", "live" }]
    BY DEF Attach, Goes, Types, Workers, Locking
  <2> QED
    BY <1>1, <2>1 DEF Types, Workers
<1>3. EndsInOrder'
  BY <1>1 DEF EndsInOrder, Types
<1>4. Sound(c)'
  BY <1>1 DEF Sound, Types, Early, Locking, Streaming
<1>5. \A d \in Connection \ {c} : Same(d)
  BY <1>1 DEF Same, Types
<1> QED
  BY <1>2, <1>3, <1>4, <1>5, OneChanges

\* The response is written under the lock: the stream of an exited terminal is
\* complete, that of a live one open.
LEMMA RespondKeeps ==
  ASSUME ServerInv, NEW c \in Connection, ShowExited(c) \/ Respond(c)
  PROVE  ServerInv'
<1> USE DEF ServerInv, endpointVars, clientVars, signalVars, lifeVars
<1>1. /\ UNCHANGED << client, backlog, committed, descriptor, loop, sink, finished, observed, count >>
      /\ writer' = [writer EXCEPT ![c] = "free"]
      /\ worker' = [worker EXCEPT ![c] = worker'[c]] /\ sub' = [sub EXCEPT ![c] = sub'[c]]
      /\ closed' = [closed EXCEPT ![c] = closed'[c]]
      /\ \/ /\ worker[c] = "showing" /\ worker'[c] = "ended" /\ sub' = sub /\ closed' = closed
            /\ Writes(c, << Response, Completion(0) >>)
         \/ /\ worker[c] = "responding" /\ Writes(c, << Response >>)
            /\ \/ client[c] = "left" /\ closed'[c] = TRUE /\ sub'[c] = "none" /\ worker'[c] = "ended"
               \/ client[c] # "left" /\ closed' = closed /\ sub' = sub /\ worker'[c] = "watching"
  BY DEF ShowExited, Respond, Goes, Gone, Types
<1>2. wire[c] = <<>> /\ count[c] = 0 /\ sink[c] # "blocked" /\ client[c] # "away" /\ c \notin backlog
  BY <1>1 DEF Sound, Early, Locking
<1>3. /\ wire' \in [Connection -> Seq(Frame)] /\ \A d \in Connection \ {c} : wire'[d] = wire[d]
      /\ wire'[c] = IF client[c] = "left" THEN <<>>
                    ELSE IF worker[c] = "showing" THEN << Response, Completion(0) >> ELSE << Response >>
  <2>1. /\ <<>> \o << Response, Completion(0) >> = << Response, Completion(0) >>
        /\ <<>> \o << Response >> = << Response >>
    BY StreamFacts
  <2>2. CASE worker[c] = "showing"
    <3>1. Writes(c, << Response, Completion(0) >>) /\ << Response, Completion(0) >> \in Seq(Frame)
      BY <1>1, <2>2, StreamFacts
    <3>2. /\ wire' \in [Connection -> Seq(Frame)] /\ \A d \in Connection \ {c} : wire'[d] = wire[d]
          /\ client[c] = "left" => wire'[c] = wire[c]
          /\ client[c] # "left" => wire'[c] = wire[c] \o << Response, Completion(0) >>
      BY <3>1, WritesFacts
    <3> QED
      BY <3>2, <1>2, <2>1, <2>2
  <2>3. CASE worker[c] # "showing"
    <3>1. Writes(c, << Response >>) /\ << Response >> \in Seq(Frame)
      BY <1>1, <2>3, StreamFacts
    <3>2. /\ wire' \in [Connection -> Seq(Frame)] /\ \A d \in Connection \ {c} : wire'[d] = wire[d]
          /\ client[c] = "left" => wire'[c] = wire[c]
          /\ client[c] # "left" => wire'[c] = wire[c] \o << Response >>
      BY <3>1, WritesFacts
    <3> QED
      BY <3>2, <1>2, <2>1, <2>3
  <2> QED
    BY <2>2, <2>3
<1>4. Types'
  <2>1. /\ worker \in [Connection -> Workers] /\ sub \in [Connection -> { "none", "live" }]
        /\ closed \in [Connection -> BOOLEAN]
    BY DEF Types, Workers
  <2>2. "ended" \in Workers /\ "watching" \in Workers
    BY DEF Workers, Streaming
  <2>3. worker'[c] \in Workers
    BY <1>1, <2>2
  <2>4. sub'[c] \in { "none", "live" } /\ closed'[c] \in BOOLEAN
    BY <1>1, <2>1
  <2>5. worker' \in [Connection -> Workers]
    BY <1>1, <2>1, <2>3
  <2>6. sub' \in [Connection -> { "none", "live" }]
    BY <1>1, <2>1, <2>4
  <2>7. closed' \in [Connection -> BOOLEAN]
    BY <1>1, <2>1, <2>4
  <2> QED
    BY <1>1, <1>3, <2>5, <2>6, <2>7 DEF Types, Workers
<1>5. EndsInOrder'
  BY <1>1 DEF EndsInOrder, Types
<1>6. Sound(c)'
  BY <1>1, <1>2, <1>3, StreamFacts DEF Sound, Types, Early, Locking, Streaming
<1>7. \A d \in Connection \ {c} : Same(d)
  BY <1>1, <1>3 DEF Same, Types
<1> QED
  BY <1>4, <1>5, <1>6, <1>7, OneChanges

\* The completion counts the events of the stream.
LEMMA CompleteKeeps ==
  ASSUME ServerInv, NEW c \in Connection, Complete(c)
  PROVE  ServerInv'
<1> USE DEF ServerInv, endpointVars, clientVars, signalVars, lifeVars, streamVars
<1>1. /\ UNCHANGED << client, backlog, committed, descriptor, loop, writer, sub, sink, closed, finished,
                     observed, count >>
      /\ worker[c] = "completing" /\ worker' = [worker EXCEPT ![c] = "ended"]
      /\ writer[c] = "free" /\ Writes(c, << Completion(count[c]) >>)
  BY DEF Complete, Goes
<1>2. count[c] \in Nat /\ wire[c] \in Seq(Frame) /\ << Completion(count[c]) >> \in Seq(Frame)
  <2>1. count[c] \in Nat /\ wire[c] \in Seq(Frame)
    BY DEF Types
  <2>2. Completion(count[c]) \in Frame
    BY <2>1 DEF Frame
  <2> QED
    BY <2>1, <2>2
<1>3. client[c] # "left" => Open(wire[c], count[c])
  BY <1>1 DEF Sound, Streaming
<1>4. /\ wire' \in [Connection -> Seq(Frame)] /\ \A d \in Connection \ {c} : wire'[d] = wire[d]
      /\ Whole(wire'[c]) /\ (client[c] # "left" => Completed(wire'[c]))
  BY <1>1, <1>2, <1>3, WritesFacts, LastFrame DEF Sound
<1>5. Types'
  BY <1>1, <1>4 DEF Types
<1>6. EndsInOrder'
  BY <1>1 DEF EndsInOrder, Types
<1>7. Sound(c)'
  BY <1>1, <1>4 DEF Sound, Types, Early, Locking, Streaming
<1>8. \A d \in Connection \ {c} : Same(d)
  BY <1>1, <1>4 DEF Same, Types
<1> QED
  BY <1>5, <1>6, <1>7, <1>8, OneChanges
-----------------------------------------------------------------------------
\* The observer of the peer wakes the worker.
LEMMA PeerKeeps ==
  ASSUME ServerInv, NEW c \in Connection, PeerLeft(c)
  PROVE  ServerInv'
<1> USE DEF ServerInv, endpointVars, clientVars, signalVars, lifeVars
<1>1. /\ UNCHANGED << client, backlog, committed, descriptor, loop, writer, sub, sink, closed, count, wire >>
      /\ worker' = Notified(worker) /\ worker \in [Connection -> Workers]
      /\ observed' = [observed EXCEPT ![c] = TRUE] /\ finished' = [finished EXCEPT ![c] = TRUE]
  BY DEF PeerLeft, Types, Workers
<1>2. Types'
  <2>1. observed' \in [Connection -> BOOLEAN] /\ finished' \in [Connection -> BOOLEAN]
    BY <1>1 DEF Types
  <2>2. worker' \in [Connection -> Workers]
    BY <1>1, NotifiedFacts
  <2> QED
    BY <1>1, <2>1, <2>2 DEF Types, Workers
<1>3. \A d \in Connection : worker'[d] = worker[d] \/ (worker[d] = "asleep" /\ worker'[d] = "watching")
  BY <1>1, NotifiedFacts
<1>4. EndsInOrder'
  BY <1>1, <1>3 DEF EndsInOrder
<1>5. \A d \in Connection : Same(d)
  BY <1>1, <1>3 DEF Same
<1> QED
  BY <1>2, <1>4, <1>5, NoneChanges

\* The terminal brings an event to the sink, or the sink lets it go.
LEMMA DeliverKeeps ==
  ASSUME ServerInv, NEW c \in Connection, Deliver(c) \/ Discard(c)
  PROVE  ServerInv'
<1> USE DEF ServerInv, endpointVars, clientVars, signalVars, lifeVars
<1>1. /\ UNCHANGED << client, backlog, committed, descriptor, loop, worker, writer, sub, closed, finished,
                     observed, count, wire >>
      /\ sink[c] # "blocked" /\ sink' = [sink EXCEPT ![c] = sink'[c]]
      /\ \/ sink'[c] = "idle"
         \/ sink'[c] = "ready" /\ sub[c] = "live" /\ closed[c] = FALSE
  BY DEF Deliver, Discard, Types
<1>2. Types'
  <2>1. sink \in [Connection -> { "idle", "ready", "blocked" }]
    BY DEF Types
  <2>2. sink' \in [Connection -> { "idle", "ready", "blocked" }]
    BY <1>1, <2>1
  <2> QED
    BY <1>1, <2>2 DEF Types
<1>3. EndsInOrder'
  BY <1>1 DEF EndsInOrder
<1>4. Sound(c)'
  BY <1>1 DEF Sound, Types
<1>5. \A d \in Connection \ {c} : Same(d)
  BY <1>1 DEF Same, Types
<1> QED
  BY <1>2, <1>3, <1>4, <1>5, OneChanges

\* The sink has the lock and writes the next event.
LEMMA EmitKeeps ==
  ASSUME ServerInv, NEW c \in Connection, Emit(c)
  PROVE  ServerInv'
<1> USE DEF ServerInv, endpointVars, clientVars, signalVars, lifeVars
<1>1. /\ UNCHANGED << client, backlog, committed, descriptor, loop, writer, closed, observed >>
      /\ sink[c] = "ready" /\ sink' = [sink EXCEPT ![c] = "idle"] /\ writer[c] = "free"
      /\ closed[c] = FALSE /\ count' = [count EXCEPT ![c] = @ + 1]
      /\ Writes(c, << Event(count[c] + 1) >>)
  BY DEF Emit, Types
<1>2. /\ sub' \in [Connection -> { "none", "live" }] /\ finished' \in [Connection -> BOOLEAN]
      /\ sub'[c] = sub[c] \/ sub'[c] = "none"
      /\ \A d \in Connection \ {c} : sub'[d] = sub[d]
      /\ worker' = worker \/ worker' = Notified(worker)
  BY DEF Emit, Types
<1>3. /\ worker' \in [Connection -> Workers]
      /\ \A d \in Connection :
           worker'[d] = worker[d] \/ (worker[d] = "asleep" /\ worker'[d] = "watching")
  <2>1. worker \in [Connection -> Workers]
    BY DEF Types, Workers
  <2> QED
    BY <1>2, <2>1, NotifiedFacts
<1>4. worker[c] \in Streaming
  BY <1>1 DEF Sound, Types, Early, Locking, Streaming
<1>5. count[c] \in Nat /\ wire[c] \in Seq(Frame) /\ << Event(count[c] + 1) >> \in Seq(Frame)
  <2>1. count[c] \in Nat /\ wire[c] \in Seq(Frame)
    BY DEF Types
  <2>2. Event(count[c] + 1) \in Frame
    BY <2>1 DEF Frame
  <2> QED
    BY <2>1, <2>2
<1>6. client[c] # "left" => Open(wire[c], count[c])
  BY <1>1, <1>4 DEF Sound
<1>7. /\ wire' \in [Connection -> Seq(Frame)] /\ \A d \in Connection \ {c} : wire'[d] = wire[d]
      /\ Whole(wire'[c]) /\ (client[c] # "left" => Open(wire'[c], count[c] + 1))
  BY <1>1, <1>5, <1>6, WritesFacts, NextEvent DEF Sound
<1>8. count' \in [Connection -> Nat] /\ count'[c] = count[c] + 1
      /\ \A d \in Connection \ {c} : count'[d] = count[d]
  BY <1>1, <1>5 DEF Types
<1>9. Types'
  BY <1>1, <1>2, <1>3, <1>7, <1>8 DEF Types, Workers
<1>10. EndsInOrder'
  BY <1>1, <1>3 DEF EndsInOrder
<1>11. Sound(c)'
  BY <1>1, <1>2, <1>3, <1>4, <1>7, <1>8 DEF Sound, Types, Early, Locking, Streaming
<1>12. \A d \in Connection \ {c} : Same(d)
  BY <1>1, <1>2, <1>3, <1>7, <1>8 DEF Same, Types
<1> QED
  BY <1>9, <1>10, <1>11, <1>12, OneChanges

\* A write blocks, and fails when the client goes.
LEMMA BlockKeeps ==
  ASSUME ServerInv, NEW c \in Connection, Block(c) \/ Unblock(c)
  PROVE  ServerInv'
<1> USE DEF ServerInv, endpointVars, clientVars, signalVars, lifeVars
<1>1. /\ UNCHANGED << client, backlog, committed, descriptor, loop, closed, observed, wire >>
      /\ \A d \in Connection \ {c} :
           writer'[d] = writer[d] /\ sub'[d] = sub[d] /\ sink'[d] = sink[d] /\ count'[d] = count[d]
      /\ worker' = worker \/ worker' = Notified(worker)
      /\ sub'[c] = sub[c] \/ sub'[c] = "none"
      /\ \/ /\ sink[c] = "ready" /\ writer[c] = "free" /\ client[c] = "stalled" /\ closed[c] = FALSE
            /\ sink'[c] = "blocked" /\ writer'[c] = "sink" /\ worker' = worker
         \/ sink[c] = "blocked" /\ client[c] = "left" /\ sink'[c] = "idle" /\ writer'[c] = "free"
  BY DEF Block, Unblock, Gone, Types
<1>2. /\ worker' \in [Connection -> Workers]
      /\ \A d \in Connection :
           worker'[d] = worker[d] \/ (worker[d] = "asleep" /\ worker'[d] = "watching")
  <2>1. worker \in [Connection -> Workers]
    BY DEF Types, Workers
  <2> QED
    BY <1>1, <2>1, NotifiedFacts
<1>3. Types'
  <2>1. /\ writer \in [Connection -> { "free", "worker", "sink" }]
        /\ sub \in [Connection -> { "none", "live" }]
        /\ sink \in [Connection -> { "idle", "ready", "blocked" }]
        /\ finished \in [Connection -> BOOLEAN] /\ count \in [Connection -> Nat]
    BY DEF Types
  <2>2. CASE Block(c)
    <3>1. writer' \in [Connection -> { "free", "worker", "sink" }]
      BY <2>1, <2>2 DEF Block
    <3>2. sink' \in [Connection -> { "idle", "ready", "blocked" }]
      BY <2>1, <2>2 DEF Block
    <3>3. count' \in [Connection -> Nat]
      BY <2>1, <2>2 DEF Block
    <3>4. sub' = sub /\ finished' = finished
      BY <2>2 DEF Block
    <3> QED
      BY <1>1, <1>2, <2>1, <3>1, <3>2, <3>3, <3>4 DEF Types, Workers
  <2>3. CASE Unblock(c)
    <3>1. writer' \in [Connection -> { "free", "worker", "sink" }]
      BY <2>1, <2>3 DEF Unblock
    <3>2. sink' \in [Connection -> { "idle", "ready", "blocked" }]
      BY <2>1, <2>3 DEF Unblock
    <3>3. sub' \in [Connection -> { "none", "live" }] /\ finished' \in [Connection -> BOOLEAN]
      BY <2>1, <2>3 DEF Unblock
    <3>4. count' = count
      BY <2>3 DEF Unblock
    <3> QED
      BY <1>1, <1>2, <2>1, <3>1, <3>2, <3>3, <3>4 DEF Types, Workers
  <2> QED
    BY <2>2, <2>3
<1>4. EndsInOrder'
  BY <1>1, <1>2 DEF EndsInOrder
<1>5. worker[c] \in Streaming \cup { "ended" }
  BY <1>1 DEF Sound, Types, Early, Locking, Streaming
<1>6. Sound(c)'
  BY <1>1, <1>2, <1>5 DEF Sound, Types, Early, Locking, Streaming
<1>7. \A d \in Connection \ {c} : Same(d)
  BY <1>1, <1>2 DEF Same
<1> QED
  BY <1>3, <1>4, <1>6, <1>7, OneChanges

-----------------------------------------------------------------------------
\* The strengthened invariant holds in every reachable state, for any connections and
\* any number of events.
THEOREM ServerInvariant == ServerSpec => []ServerInv
<1>1. ServerInit => ServerInv
  BY StreamFacts DEF ServerInit, ServerInv, Types, EndsInOrder, Sound, Early, Locking, Streaming
<1>2. ServerInv /\ [ServerNext]_serverVars => ServerInv'
  <2> SUFFICES ASSUME ServerInv, [ServerNext]_serverVars PROVE ServerInv'
    OBVIOUS
  <2>1. CASE Accepting \/ Drop
    BY <2>1, SignalKeeps, AcceptKeeps DEF Accepting
  <2>2. CASE \E c \in Connection : Working(c)
    BY <2>2, SilentWorkerKeeps, AnswerKeeps, CommitKeeps, AttachKeeps, RespondKeeps,
          CompleteKeeps
       DEF Working
  <2>3. CASE \E c \in Connection : Delivering(c)
    BY <2>3, PeerKeeps, EmitKeeps, BlockKeeps, DeliverKeeps DEF Delivering
  <2>4. CASE \E c \in Connection : Calling(c)
    BY <2>4, ClientKeeps, DeliverKeeps DEF Calling
  <2>5. CASE UNCHANGED serverVars
    <3>1. /\ UNCHANGED << client, backlog, committed, descriptor, loop, worker, writer, sub, sink,
                          closed, finished, observed, count, wire >>
      BY <2>5 DEF serverVars, endpointVars, clientVars, signalVars, lifeVars, streamVars
    <3> QED
      BY <3>1 DEF ServerInv, Types, EndsInOrder, Sound
  <2> QED
    BY <2>1, <2>2, <2>3, <2>4, <2>5 DEF ServerNext
<1> QED
  BY <1>1, <1>2, PTL DEF ServerSpec

\* Every stream is whole, every request whose client still listens ends with its completion, and
\* a worker that ended left no subscription, a server that ended no worker, an accepted stop no
\* descriptor (control.rs:410-425, 977-1085, 1177-1237).
THEOREM StreamsEndWhole == ServerSpec => []StreamsEnd
<1>1. ServerInv => StreamsAreWhole
  BY DEF ServerInv, Sound, StreamsAreWhole, Completed, Gone
<1>2. ServerInv => NothingOfStreamsLeft
  BY DEF ServerInv, Sound, EndsInOrder, NothingOfStreamsLeft, Locking
<1> QED
  BY <1>1, <1>2, ServerInvariant, PTL DEF StreamsEnd

(***************************************************************************)
(* What ServerInv leaves open: the signals, the requests, and the bound on  *)
(* events, which a sink that is ready has not reached.                      *)
(***************************************************************************)
BoundedFrame ==
  { Response } \cup { Event(n) : n \in 1..MaxEvents } \cup { Completion(n) : n \in 0..MaxEvents }
ServerBounds ==
  /\ loop \in { "checking", "accepting", "joining", "ended" }
  /\ stopped \in BOOLEAN /\ stopping \in BOOLEAN /\ descriptor \in BOOLEAN
  /\ committed \in BOOLEAN /\ dropped \in BOOLEAN /\ woken \in BOOLEAN
  /\ backlog \subseteq Connection
  /\ kind \in [Connection -> { "none", "stop", "attach" }]
  /\ count \in [Connection -> 0..MaxEvents]
  /\ \A c \in Connection : sink[c] = "ready" => count[c] < MaxEvents
  /\ wire \in [Connection -> Seq(BoundedFrame)]

\* The frames that are written are of the bounded ones.
LEMMA FramesBounded ==
  ASSUME NEW n \in 0..MaxEvents
  PROVE  /\ << Response >> \in Seq(BoundedFrame)
         /\ << Response, Completion(0) >> \in Seq(BoundedFrame)
         /\ << Completion(n) >> \in Seq(BoundedFrame)
         /\ n < MaxEvents => << Event(n + 1) >> \in Seq(BoundedFrame)
<1>1. MaxEvents \in Nat
  BY ServerAssumption
<1>2. 0 \in 0..MaxEvents
  BY <1>1
<1>3. /\ Response \in BoundedFrame /\ Completion(0) \in BoundedFrame
      /\ Completion(n) \in BoundedFrame
  BY <1>2 DEF BoundedFrame
<1>4. ASSUME n < MaxEvents PROVE << Event(n + 1) >> \in Seq(BoundedFrame)
  <2>1. n + 1 \in 1..MaxEvents
    BY <1>1, <1>4
  <2>2. PICK m \in 1..MaxEvents : m = n + 1
    BY <2>1
  <2>3. Event(m) \in BoundedFrame
    BY DEF BoundedFrame
  <2>4. << Event(m) >> \in Seq(BoundedFrame)
    BY <2>3
  <2> QED
    BY <2>2, <2>4
<1> QED
  BY <1>3, <1>4

\* What is written to a connection keeps the type of what it was sent.
LEMMA WritesTyped ==
  ASSUME ServerBounds, NEW c \in Connection, NEW frames \in Seq(BoundedFrame), Writes(c, frames)
  PROVE  wire' \in [Connection -> Seq(BoundedFrame)]
<1>1. wire[c] \o frames \in Seq(BoundedFrame)
  BY DEF ServerBounds
<1> QED
  BY <1>1 DEF ServerBounds, Writes

\* The accepting thread and the drop of the server write nothing to a client.
LEMMA SignalsTyped ==
  ASSUME ServerBounds, Accepting \/ Drop
  PROVE  ServerBounds'
<1>1. UNCHANGED << kind, count, sink, wire >>
  BY DEF Accepting, Drop, Check, Accept, Join, DropEnds, clientVars, signalVars, streamVars
<1>2. /\ loop' \in { "checking", "accepting", "joining", "ended" }
      /\ backlog' \subseteq Connection
  BY DEF Accepting, Drop, Check, Accept, Join, DropEnds, LeaveLoop, signalVars, ServerBounds
<1>3. /\ stopped' \in BOOLEAN /\ stopping' \in BOOLEAN /\ descriptor' \in BOOLEAN
      /\ committed' \in BOOLEAN /\ dropped' \in BOOLEAN /\ woken' \in BOOLEAN
  BY DEF Accepting, Drop, Check, Accept, Join, DropEnds, LeaveLoop, Stop, signalVars, lifeVars,
     ServerBounds
<1> QED
  BY <1>1, <1>2, <1>3 DEF ServerBounds

\* A worker counts no event.
LEMMA WorkersTyped ==
  ASSUME ServerBounds, NEW c \in Connection, Working(c)
  PROVE  ServerBounds'
<1>1. UNCHANGED << loop, dropped, backlog, kind, count, sink >>
  BY DEF Working, Read, Answer, Reply, AcceptStop, Withdraw, AnswerStop, Commit, Attach,
     ShowExited, Respond, Watch, Wait, CloseStream, Complete, endpointVars, clientVars, signalVars,
     streamVars
<1>2. /\ stopped' \in BOOLEAN /\ stopping' \in BOOLEAN /\ descriptor' \in BOOLEAN
      /\ committed' \in BOOLEAN /\ woken' \in BOOLEAN
  BY DEF Working, Read, Answer, Reply, AcceptStop, Withdraw, AnswerStop, Commit, Attach,
     ShowExited, Respond, Watch, Wait, CloseStream, Complete, Stop, endpointVars, signalVars,
     lifeVars, ServerBounds
<1>3. PICK n \in 0..MaxEvents : n = count[c]
  BY DEF ServerBounds
<1>4. UNCHANGED wire \/ \E frames \in Seq(BoundedFrame) : Writes(c, frames)
  <2>1. \/ UNCHANGED wire \/ Writes(c, << Response, Completion(0) >>) \/ Writes(c, << Response >>)
        \/ Writes(c, << Completion(count[c]) >>)
    BY DEF Working, Read, Answer, Reply, AcceptStop, Withdraw, AnswerStop, Commit, Attach,
       ShowExited, Respond, Watch, Wait, CloseStream, Complete
  <2> QED
    BY <1>3, <2>1, FramesBounded
<1>5. wire' \in [Connection -> Seq(BoundedFrame)]
  BY <1>4, WritesTyped DEF ServerBounds
<1> QED
  BY <1>1, <1>2, <1>5 DEF ServerBounds

\* A sink that is ready has an event to number.
LEMMA SinksTyped ==
  ASSUME ServerInv, ServerBounds, NEW c \in Connection, Delivering(c) \/ Deliver(c)
  PROVE  ServerBounds'
<1>1. UNCHANGED << loop, stopped, stopping, descriptor, committed, dropped, woken, backlog, kind >>
  BY DEF Delivering, PeerLeft, Emit, Block, Unblock, Discard, Deliver, endpointVars, clientVars,
     signalVars, lifeVars
<1>2. MaxEvents \in Nat /\ count \in [Connection -> 0..MaxEvents]
      /\ \A d \in Connection : sink[d] = "ready" => count[d] < MaxEvents
  BY ServerAssumption DEF ServerBounds
<1>3. sink \in [Connection -> { "idle", "ready", "blocked" }]
  BY DEF ServerInv, Types
<1>4. /\ count' \in [Connection -> 0..MaxEvents]
      /\ \A d \in Connection : sink'[d] = "ready" => count'[d] < MaxEvents
  <2>1. CASE Emit(c) \/ Block(c)
    <3>1. sink[c] = "ready" /\ count' = [count EXCEPT ![c] = count[c] + 1]
      BY <2>1 DEF Emit, Block
    <3>2. count[c] + 1 \in 0..MaxEvents
      BY <1>2, <3>1
    <3>3. sink' = [sink EXCEPT ![c] = "idle"] \/ sink' = [sink EXCEPT ![c] = "blocked"]
      BY <2>1 DEF Emit, Block
    <3> QED
      BY <1>2, <1>3, <3>1, <3>2, <3>3
  <2>2. CASE Deliver(c)
    BY <1>2, <1>3, <2>2 DEF Deliver
  <2>3. CASE PeerLeft(c) \/ Unblock(c) \/ Discard(c)
    <3>1. UNCHANGED count /\ (UNCHANGED sink \/ sink' = [sink EXCEPT ![c] = "idle"])
      BY <2>3 DEF PeerLeft, Unblock, Discard
    <3> QED
      BY <1>2, <1>3, <3>1
  <2> QED
    BY <2>1, <2>2, <2>3 DEF Delivering
<1>5. wire' \in [Connection -> Seq(BoundedFrame)]
  <2>1. CASE Emit(c)
    <3>1. PICK n \in 0..MaxEvents : n = count[c]
      BY <1>2
    <3>2. << Event(n + 1) >> \in Seq(BoundedFrame)
      <4>1. n < MaxEvents
        BY <1>2, <2>1, <3>1 DEF Emit
      <4> QED
        BY <4>1, FramesBounded
    <3>3. Writes(c, << Event(n + 1) >>)
      BY <2>1, <3>1 DEF Emit
    <3> QED
      BY <3>2, <3>3, WritesTyped
  <2>2. CASE ~ Emit(c)
    BY <2>2 DEF Delivering, PeerLeft, Block, Unblock, Discard, Deliver, ServerBounds
  <2> QED
    BY <2>1, <2>2
<1> QED
  BY <1>1, <1>4, <1>5 DEF ServerBounds

\* A client changes its request and the backlog.
LEMMA ClientsTyped ==
  ASSUME ServerInv, ServerBounds, NEW c \in Connection, Calling(c)
  PROVE  ServerBounds'
<1>1. CASE Deliver(c)
  BY <1>1, SinksTyped
<1>2. CASE ~ Deliver(c)
  <2>1. /\ UNCHANGED << loop, stopped, stopping, descriptor, committed, dropped, woken, count, sink,
                        wire >>
    BY <1>2 DEF Calling, Connect, Send, Leave, Stall, signalVars, lifeVars, streamVars
  <2>2. /\ backlog' \subseteq Connection
        /\ kind' \in [Connection -> { "none", "stop", "attach" }]
    BY <1>2 DEF Calling, Connect, Send, Leave, Stall, signalVars, ServerBounds
  <2> QED
    BY <2>1, <2>2 DEF ServerBounds
<1> QED
  BY <1>1, <1>2

\* Every variable of the control server keeps its type (control.rs:323-356, 941-1017).
THEOREM ServerTypeCorrect == ServerSpec => []ServerTypeOK
<1>1. ServerInit => ServerBounds
  <2> SUFFICES ASSUME ServerInit PROVE ServerBounds
    OBVIOUS
  <2>1. MaxEvents \in Nat /\ 0 \in 0..MaxEvents
    BY ServerAssumption
  <2>2. << >> \in Seq(BoundedFrame)
    OBVIOUS
  <2>3. wire \in [Connection -> Seq(BoundedFrame)]
    BY <2>2 DEF ServerInit
  <2> QED
    BY <2>1, <2>3 DEF ServerInit, ServerBounds
<1>2. ServerInv /\ ServerBounds /\ [ServerNext]_serverVars => ServerBounds'
  <2>1. ASSUME ServerInv, ServerBounds, ServerNext PROVE ServerBounds'
    BY <2>1, SignalsTyped, WorkersTyped, SinksTyped, ClientsTyped DEF ServerNext
  <2>2. ASSUME ServerBounds, UNCHANGED serverVars PROVE ServerBounds'
    BY <2>2 DEF ServerBounds, serverVars, endpointVars, clientVars, signalVars, lifeVars,
          streamVars
  <2> QED
    BY <2>1, <2>2
<1>3. ServerInv /\ ServerBounds => ServerTypeOK
  <2> SUFFICES ASSUME ServerInv, ServerBounds PROVE ServerTypeOK
    OBVIOUS
  <2>1. { stopped, stopping, descriptor, committed, dropped, woken } \subseteq BOOLEAN
    BY DEF ServerBounds
  <2>2. worker \in [Connection -> { "none", "reading", "dispatching", "replying", "withdrawing",
                                    "answering",
                                    "committing", "responding", "showing", "watching", "dozing",
                                    "asleep", "closing", "completing", "ended" }]
    BY DEF ServerInv, Types, Early, Locking, Streaming
  <2> QED
    BY <2>1, <2>2 DEF ServerInv, Types, ServerBounds, BoundedFrame, ServerTypeOK
<1> QED
  BY <1>1, <1>2, <1>3, ServerInvariant, PTL DEF ServerSpec
\* What the registry of the webview is made of.
EventType == [event : {"upserted"}, what : Projection!Descriptors]
               \cup [event : {"removed"}, terminal : Terminal]
ListType ==
  [pc : {"none", "asked", "answered", "done"}, rows : SUBSET Projection!Descriptors,
   since : SUBSET Terminal]
ShownType == [stage : Projection!Stage, rev : 0..MaxRevision, exit : {"none"}]

ProjectionTypes ==
  /\ Projection!TypeOK
  /\ shown \in [Terminal -> ShownType] /\ list \in [Projection!Request -> ListType]
  /\ channel \in Seq(EventType) /\ subscribed \in BOOLEAN

\* Whatever is about a terminal is about one that was born.
Known ==
  /\ \A t \in Terminal : seen[t] # None \/ shown[t].stage # 1 => t \in born
  /\ \A t \in Terminal, p \in Projection!Publisher :
       outbox[t][p] # None => t \in born /\ outbox[t][p].what.terminal = t
  /\ \A d \in replies : d.terminal \in born
  /\ \A k \in DOMAIN channel :
       /\ channel[k].event = "upserted" => channel[k].what.terminal \in born
       /\ channel[k].event = "removed" => channel[k].terminal \in born
  /\ \A j \in Projection!Request : \A d \in list[j].rows : d.terminal \in born

\* A registered terminal was never removed, for anybody, and no removal of it is on its way.
Registered ==
  \A t \in listed :
    /\ t \notin leaving \cup gone
    /\ \A k \in DOMAIN channel : channel[k].event = "removed" => channel[k].terminal # t

\* A list is asked for after the subscription; one that was answered knows, by its rows or by
\* an observation since it was asked for, every registered terminal that is seen.
Answered(t, j) == \E d \in list[j].rows : d.terminal = t
ListsKnow ==
  \A j \in Projection!Request :
    /\ list[j].pc # "none" => subscribed
    /\ list[j].pc = "answered" =>
         \A t \in listed : seen[t] # None => t \in list[j].since \/ Answered(t, j)

\* A registered terminal that is not seen, and whose first descriptor is not on its way
\* either, is in every list to come; none was taken yet.
Coming(t) ==
  \/ outbox[t]["spawn"] # None
  \/ \E k \in DOMAIN channel : channel[k].event = "upserted" /\ channel[k].what.terminal = t
ListsToCome ==
  \A t \in listed \cap announced : seen[t] = None /\ ~ Coming(t) =>
    \A j \in Projection!Request :
      list[j].pc # "done" /\ (list[j].pc = "answered" => Answered(t, j))

ProjectionInv == ProjectionTypes /\ Known /\ Registered /\ ListsKnow /\ ListsToCome

\* The elements of a sequence.
LEMMA ElementFacts ==
  ASSUME NEW S, NEW s \in Seq(S)
  PROVE  DOMAIN s = 1..Len(s) /\ Len(s) \in Nat /\ \A k \in DOMAIN s : s[k] \in S /\ k \in Nat
  OBVIOUS

\* What follows the head of a sequence.
LEMMA TailFacts ==
  ASSUME NEW S, NEW s \in Seq(S), s # << >>
  PROVE  /\ Tail(s) \in Seq(S) /\ 1 \in DOMAIN s /\ Head(s) = s[1] /\ s[1] \in S
         /\ Len(Tail(s)) = Len(s) - 1
         /\ \A k \in DOMAIN Tail(s) :
              k \in Nat /\ k >= 1 /\ k + 1 \in DOMAIN s /\ Tail(s)[k] = s[k + 1]
         /\ \A k \in DOMAIN s \ {1} : k - 1 \in DOMAIN Tail(s) /\ Tail(s)[k - 1] = s[k]
  OBVIOUS

\* A sequence with one more element.
LEMMA AppendFacts ==
  ASSUME NEW S, NEW s \in Seq(S), NEW x \in S
  PROVE  /\ Append(s, x) \in Seq(S) /\ Len(Append(s, x)) = Len(s) + 1 /\ Len(s) \in Nat
         /\ DOMAIN Append(s, x) = DOMAIN s \cup {Len(s) + 1} /\ DOMAIN s = 1..Len(s)
         /\ \A k \in DOMAIN s : Append(s, x)[k] = s[k] /\ k < Len(s) + 1 /\ k \in Nat
         /\ Append(s, x)[Len(s) + 1] = x
  OBVIOUS

\* A descriptor of a terminal tells what its record shows.
LEMMA DescriptorFacts ==
  ASSUME NEW t \in Terminal, NEW s \in ShownType
  PROVE  /\ Projection!Descriptor(t, s) \in Projection!Descriptors
         /\ Projection!Descriptor(t, s).terminal = t
  BY DEF Projection!Descriptor, Projection!Descriptors, ShownType

\* A stamp keeps where a request is and what it read, and adds to what was observed since.
LEMMA StampFacts ==
  ASSUME ProjectionTypes, NEW T \in SUBSET Terminal
  PROVE  /\ Projection!Stamp(T) \in [Projection!Request -> ListType]
         /\ \A j \in Projection!Request :
              /\ Projection!Stamp(T)[j].pc = list[j].pc /\ Projection!Stamp(T)[j].rows = list[j].rows
              /\ list[j].since \subseteq Projection!Stamp(T)[j].since
              /\ list[j].pc # "none" => T \subseteq Projection!Stamp(T)[j].since
<1> SUFFICES ASSUME NEW j \in Projection!Request
             PROVE  LET x == IF list[j].pc = "none" THEN list[j]
                             ELSE [list[j] EXCEPT !.since = list[j].since \cup T]
                    IN  /\ x \in ListType /\ x.pc = list[j].pc /\ x.rows = list[j].rows
                        /\ list[j].since \subseteq x.since /\ (list[j].pc # "none" => T \subseteq x.since)
  BY DEF Projection!Stamp
<1>1. list[j] \in ListType
  BY DEF ProjectionTypes
<1> QED
  BY <1>1 DEF ListType

-----------------------------------------------------------------------------
\* What a list knows and what is to come stay true when registered terminals only go, and
\* what was announced or came still comes.
LEMMA ListsKept ==
  ASSUME ListsKnow, ListsToCome, UNCHANGED << list, seen, subscribed >>, listed' \subseteq listed,
         \A t \in listed' \cap announced' : Coming(t)' \/ (t \in announced /\ ~ Coming(t))
  PROVE  ListsKnow' /\ ListsToCome'
<1>1. \A t, j : Answered(t, j)' <=> Answered(t, j)
  BY DEF Answered
<1>2. ListsKnow'
  BY <1>1 DEF ListsKnow
<1>3. ListsToCome'
  BY <1>1 DEF ListsToCome
<1> QED
  BY <1>2, <1>3

\* A birth.
LEMMA BornKeeps ==
  ASSUME ProjectionInv, NEW t \in Terminal, Projection!Born(t)
  PROVE  ProjectionInv'
<1>1. /\ t \notin born /\ born' = born \cup {t} /\ listed' = listed \cup {t}
      /\ UNCHANGED << shown, told, announced, leaving, outbox, channel, replies, subscribed,
                      confirmed, list, seen, removals, gone >>
  BY DEF Projection!Born, Projection!Register, Projection!clientVars
<1>2. ProjectionTypes'
  BY <1>1 DEF ProjectionInv, ProjectionTypes, Projection!TypeOK
<1>3. Known'
  BY <1>1 DEF ProjectionInv, Known
<1>4. Registered'
  BY <1>1 DEF ProjectionInv, Known, Registered, ProjectionTypes, Projection!TypeOK
<1>5. seen[t] = None /\ t \notin announced
  BY <1>1 DEF ProjectionInv, Known, ProjectionTypes, Projection!TypeOK
<1>6. ListsKnow'
  BY <1>1, <1>5 DEF ProjectionInv, ListsKnow, Answered
<1>7. ListsToCome'
  <2>1. \A x : Coming(x)' <=> Coming(x)
    BY <1>1 DEF Coming
  <2> QED
    BY <1>1, <1>5, <2>1 DEF ProjectionInv, ListsToCome, Answered
<1> QED
  BY <1>2, <1>3, <1>4, <1>6, <1>7 DEF ProjectionInv

\* What a publisher has on its way.
Sent(d) == [what |-> d, checked |-> FALSE]
OutboxType ==
  [Terminal -> [Projection!Publisher -> {None} \cup [what : Projection!Descriptors, checked : BOOLEAN]]]

\* A publisher takes a descriptor of a terminal that was born: it is on its way.
LEMMA OutboxFacts ==
  ASSUME ProjectionInv, NEW t \in born, NEW p \in Projection!Publisher, NEW d \in Projection!Descriptors,
         d.terminal = t, outbox' = [outbox EXCEPT ![t][p] = Sent(d)],
         UNCHANGED channel
  PROVE  /\ outbox' \in OutboxType
         /\ \A x \in Terminal, q \in Projection!Publisher :
              outbox'[x][q] # None => (x = t \/ outbox[x][q] # None) /\ outbox'[x][q].what.terminal = x
         /\ \A x \in Terminal, q \in Projection!Publisher : outbox[x][q] # None => outbox'[x][q] # None
         /\ outbox'[t][p] # None
         /\ \A x \in Terminal : Coming(x) => Coming(x)'
<1>1. outbox \in OutboxType /\ t \in Terminal
  BY DEF ProjectionInv, ProjectionTypes, Projection!TypeOK, OutboxType
<1>2. Sent(d) \in [what : Projection!Descriptors, checked : BOOLEAN] /\ Sent(d).what = d
  BY DEF Sent
<1>3. Sent(d) # None
  BY <1>2, TerminalsAssumption
<1>4. outbox' = [outbox EXCEPT ![t] = [outbox[t] EXCEPT ![p] = Sent(d)]]
  OBVIOUS
<1>5. outbox[t] \in [Projection!Publisher -> {None} \cup [what : Projection!Descriptors, checked : BOOLEAN]]
  BY <1>1 DEF OutboxType
<1>6. \A q \in Projection!Publisher : outbox'[t][q] = IF q = p THEN Sent(d) ELSE outbox[t][q]
  BY <1>1, <1>4, <1>5 DEF OutboxType
<1>7. \A x \in Terminal, q \in Projection!Publisher :
        outbox'[x][q] = IF x = t /\ q = p THEN Sent(d) ELSE outbox[x][q]
  BY <1>1, <1>4, <1>6 DEF OutboxType
<1>8. outbox' \in OutboxType
  BY <1>1, <1>2, <1>4, <1>5 DEF OutboxType
<1>9. \A x \in Terminal, q \in Projection!Publisher : outbox[x][q] # None => outbox'[x][q] # None
  BY <1>3, <1>7
<1>10. \A x \in Terminal : Coming(x) => Coming(x)'
  BY <1>9 DEF Coming, Projection!Publisher
<1>11. \A x \in Terminal, q \in Projection!Publisher :
         outbox[x][q] # None => outbox[x][q].what.terminal = x
  BY DEF ProjectionInv, Known
<1>12. \A x \in Terminal, q \in Projection!Publisher :
         outbox'[x][q] # None => (x = t \/ outbox[x][q] # None) /\ outbox'[x][q].what.terminal = x
  BY <1>2, <1>7, <1>11
<1>13. outbox'[t][p] # None
  BY <1>1, <1>3, <1>7
<1> QED
  BY <1>8, <1>9, <1>10, <1>12, <1>13

\* The answer to a spawn is announced, and its descriptor is on its way.
LEMMA AnnounceKeeps ==
  ASSUME ProjectionInv, NEW t \in Terminal, Projection!Announce(t)
  PROVE  ProjectionInv'
<1> DEFINE d == Projection!Descriptor(t, shown[t])
<1>1. /\ t \in born /\ announced' = announced \cup {t}
      /\ outbox' = [outbox EXCEPT ![t]["spawn"] = Sent(d)]
      /\ replies' \in {replies, replies \cup {d}}
      /\ UNCHANGED << born, listed, shown, told, leaving, channel, subscribed, confirmed, list, seen,
                      removals, gone >>
  BY DEF Projection!Announce, Sent, Projection!livesVars, Projection!clientVars
<1>2. d \in Projection!Descriptors /\ d.terminal = t /\ "spawn" \in Projection!Publisher
  BY DescriptorFacts DEF ProjectionInv, ProjectionTypes, Projection!Publisher
<1> HIDE DEF d
<1>3. /\ outbox' \in OutboxType
      /\ \A x \in Terminal, q \in Projection!Publisher :
           outbox'[x][q] # None => (x = t \/ outbox[x][q] # None) /\ outbox'[x][q].what.terminal = x
      /\ outbox'[t]["spawn"] # None
      /\ \A x \in Terminal : Coming(x) => Coming(x)'
  BY <1>1, <1>2, OutboxFacts
<1>a. replies' \subseteq Projection!Descriptors /\ announced' \subseteq born
  BY ZenonT(60), <1>1, <1>2 DEF ProjectionInv, ProjectionTypes, Projection!TypeOK
<1>4. ProjectionTypes'
  BY <1>1, <1>3, <1>a DEF ProjectionInv, ProjectionTypes, Projection!TypeOK, OutboxType
<1>5. Known'
  BY <1>1, <1>2, <1>3 DEF ProjectionInv, Known
<1>6. Registered'
  BY <1>1 DEF ProjectionInv, Registered
<1>7. \A x \in listed' \cap announced' : Coming(x)' \/ (x \in announced /\ ~ Coming(x))
  <2>1. Coming(t)'
    BY <1>3 DEF Coming
  <2> QED
    BY <1>1, <1>3, <2>1 DEF ProjectionInv, ProjectionTypes, Projection!TypeOK
<1> QED
  BY <1>1, <1>4, <1>5, <1>6, <1>7, ListsKept DEF ProjectionInv

\* What a record shows is revised.
LEMMA ShownFacts ==
  ASSUME ProjectionTypes, NEW t \in Terminal, NEW stage \in Projection!Stage,
         shown[t].rev < MaxRevision,
         shown' = [shown EXCEPT ![t].stage = stage, ![t].rev = @ + 1]
  PROVE  /\ shown' \in [Terminal -> ShownType]
         /\ \A x \in Terminal : x # t => shown'[x] = shown[x]
<1>1. shown[t] \in ShownType
  BY DEF ProjectionTypes
<1>2. shown[t].rev + 1 \in 0..MaxRevision
  BY <1>1, TerminalsAssumption DEF ShownType
<1>3. [[shown[t] EXCEPT !.stage = stage] EXCEPT !.rev = shown[t].rev + 1] \in ShownType
  BY <1>1, <1>2 DEF ShownType
<1>4. shown' = [shown EXCEPT ![t] = [[shown[t] EXCEPT !.stage = stage] EXCEPT !.rev = shown[t].rev + 1]]
  BY <1>1 DEF ProjectionTypes, ShownType
<1> QED
  BY <1>3, <1>4 DEF ProjectionTypes

\* A step that revises what records show, and publishes it or not.
LEMMA RevisedKeeps ==
  ASSUME ProjectionInv, NEW t \in born, NEW d \in Projection!Descriptors, d.terminal = t,
         shown' \in [Terminal -> ShownType], \A x \in Terminal : x # t => shown'[x] = shown[x],
         told' \in [Terminal -> 0..MaxRevision],
         \/ outbox' = [outbox EXCEPT ![t]["actor"] = Sent(d)]
         \/ UNCHANGED outbox,
         replies' \in {replies, replies \cup {d}},
         UNCHANGED << born, listed, announced, leaving, channel, subscribed, confirmed, list, seen,
                      removals, gone >>
  PROVE  ProjectionInv'
<1>1. "actor" \in Projection!Publisher
  BY DEF Projection!Publisher
<1>2. /\ outbox' \in OutboxType
      /\ \A x \in Terminal, q \in Projection!Publisher :
           outbox'[x][q] # None => (x = t \/ outbox[x][q] # None) /\ outbox'[x][q].what.terminal = x
      /\ \A x \in Terminal : Coming(x) => Coming(x)'
  <2>1. CASE outbox' = [outbox EXCEPT ![t]["actor"] = Sent(d)]
    BY <1>1, <2>1, OutboxFacts
  <2>2. CASE UNCHANGED outbox
    <3>1. \A x \in Terminal : Coming(x) => Coming(x)'
      BY <2>2 DEF Coming
    <3> QED
      BY <2>2, <3>1 DEF ProjectionInv, ProjectionTypes, Projection!TypeOK, OutboxType, Known
  <2> QED
    BY <2>1, <2>2
<1>3. ProjectionTypes'
  BY <1>2 DEF ProjectionInv, ProjectionTypes, Projection!TypeOK, OutboxType
<1>4. Known'
  BY <1>2 DEF ProjectionInv, Known
<1>5. Registered'
  BY DEF ProjectionInv, Registered
<1>6. \A x \in listed' \cap announced' : Coming(x)' \/ (x \in announced /\ ~ Coming(x))
  BY <1>2 DEF ProjectionInv, ProjectionTypes, Projection!TypeOK, OutboxType
<1> QED
  BY <1>3, <1>4, <1>5, <1>6, ListsKept DEF ProjectionInv

\* The actor revises and publishes, a caller marks, and the mark is published.
LEMMA RevisionKeeps ==
  ASSUME ProjectionInv, NEW t \in Terminal,
         \/ \E stage \in {shown[t].stage, 4} : Projection!Revise(t, stage)
         \/ Projection!Mark(t) \/ Projection!PublishMark(t)
  PROVE  ProjectionInv'
<1>1. shown[t] \in ShownType /\ shown[t].stage \in Projection!Stage /\ 3 \in Projection!Stage
      /\ 4 \in Projection!Stage /\ listed \subseteq born
      /\ told \in [Terminal -> 0..MaxRevision] /\ shown \in [Terminal -> ShownType]
  BY DEF ProjectionInv, ProjectionTypes, ShownType, Projection!Stage, Projection!TypeOK
<1>2. CASE \E stage \in {shown[t].stage, 4} : Projection!Revise(t, stage)
  <2>1. PICK stage \in Projection!Stage : Projection!Revise(t, stage)
    BY <1>1, <1>2
  <2>2. shown' \in [Terminal -> ShownType] /\ \A x \in Terminal : x # t => shown'[x] = shown[x]
    BY <2>1, ShownFacts DEF Projection!Revise, ProjectionInv
  <2> DEFINE d == Projection!Descriptor(t, shown'[t])
  <2>3. d \in Projection!Descriptors /\ d.terminal = t
    BY <2>2, DescriptorFacts
  <2>4. /\ t \in born /\ told' = [told EXCEPT ![t] = shown'[t].rev]
        /\ outbox' = [outbox EXCEPT ![t]["actor"] = Sent(d)]
        /\ replies' \in {replies, replies \cup {d}}
        /\ UNCHANGED << born, listed, announced, leaving, channel, subscribed, confirmed, list, seen,
                        removals, gone >>
    BY <2>1 DEF Projection!Revise, Sent, Projection!Change, Projection!clientVars
  <2> HIDE DEF d
  <2>5. told' \in [Terminal -> 0..MaxRevision]
    BY <1>1, <2>2, <2>4 DEF ShownType
  <2> QED
    BY <2>2, <2>3, <2>4, <2>5, RevisedKeeps
<1>3. CASE Projection!Mark(t)
  <2>1. shown' \in [Terminal -> ShownType] /\ \A x \in Terminal : x # t => shown'[x] = shown[x]
    BY <1>1, <1>3, ShownFacts DEF Projection!Mark, ProjectionInv
  <2>2. /\ t \in listed
        /\ UNCHANGED << born, listed, told, outbox, announced, leaving, channel, replies, subscribed,
                        confirmed, list, seen, removals, gone >>
    BY <1>3 DEF Projection!Mark, Projection!Change, Projection!clientVars
  <2>3. Projection!Descriptor(t, shown[t]) \in Projection!Descriptors
        /\ Projection!Descriptor(t, shown[t]).terminal = t
    BY <1>1, DescriptorFacts
  <2> QED
    BY <1>1, <2>1, <2>2, <2>3, RevisedKeeps
<1>4. CASE Projection!PublishMark(t)
  <2> DEFINE d == Projection!Descriptor(t, shown[t])
  <2>1. d \in Projection!Descriptors /\ d.terminal = t
    BY <1>1, DescriptorFacts
  <2>2. /\ told' = [told EXCEPT ![t] = shown[t].rev] /\ shown[t].stage = 3
        /\ outbox' = [outbox EXCEPT ![t]["actor"] = Sent(d)]
        /\ UNCHANGED << born, listed, shown, announced, leaving, channel, replies, subscribed,
                        confirmed, list, seen, removals, gone >>
    BY <1>4 DEF Projection!PublishMark, Sent, Projection!livesVars, Projection!clientVars
  <2> HIDE DEF d
  <2>3. told' \in [Terminal -> 0..MaxRevision]
    BY <1>1, <2>2 DEF ShownType
  <2>4. t \in born
    BY <2>2 DEF ProjectionInv, Known
  <2> QED
    BY <1>1, <2>1, <2>2, <2>3, <2>4, RevisedKeeps
<1> QED
  BY <1>2, <1>3, <1>4

\* A registered terminal leaves.
LEMMA LeaveKeeps ==
  ASSUME ProjectionInv, NEW t \in Terminal, Projection!Leave(t)
  PROVE  ProjectionInv'
<1>1. /\ t \in listed /\ listed' = listed \ {t} /\ leaving' \in {leaving, leaving \cup {t}}
      /\ UNCHANGED << born, shown, told, announced, outbox, channel, replies, subscribed,
                      confirmed, list, seen, removals, gone >>
  BY DEF Projection!Leave, Projection!Change, Projection!clientVars
<1>2. ProjectionTypes'
  BY <1>1 DEF ProjectionInv, ProjectionTypes, Projection!TypeOK
<1>3. Known'
  BY <1>1 DEF ProjectionInv, Known
<1>4. Registered'
  BY <1>1 DEF ProjectionInv, Registered
<1>5. \A x \in listed' \cap announced' : Coming(x)' \/ (x \in announced /\ ~ Coming(x))
  BY <1>1 DEF Coming
<1> QED
  BY <1>1, <1>2, <1>3, <1>4, <1>5, ListsKept DEF ProjectionInv

\* An event reaches the channel if there is one.
LEMMA SendFacts ==
  ASSUME ProjectionTypes, NEW e \in EventType, Projection!Send(e)
  PROVE  /\ channel' \in Seq(EventType)
         /\ \A k \in DOMAIN channel' : channel'[k] = e \/ (k \in DOMAIN channel /\ channel'[k] = channel[k])
         /\ \A k \in DOMAIN channel : k \in DOMAIN channel' /\ channel'[k] = channel[k]
         /\ subscribed => Len(channel) + 1 \in DOMAIN channel' /\ channel'[Len(channel) + 1] = e
<1>1. channel \in Seq(EventType)
  BY DEF ProjectionTypes
<1>2. CASE subscribed
  <2>1. channel' = Append(channel, e)
    BY <1>2 DEF Projection!Send
  <2> QED
    BY <1>1, <2>1, AppendFacts
<1>3. CASE ~ subscribed
  BY <1>1, <1>3 DEF Projection!Send
<1> QED
  BY <1>2, <1>3

\* The removal of a terminal that left is published.
LEMMA PublishRemovalKeeps ==
  ASSUME ProjectionInv, NEW t \in Terminal, Projection!PublishRemoval(t)
  PROVE  ProjectionInv'
<1>1. PICK e : e = [event |-> "removed", terminal |-> t]
  OBVIOUS
<1>2. /\ t \in leaving /\ leaving' = leaving \ {t} /\ Projection!Send(e)
      /\ UNCHANGED << born, listed, shown, told, announced, outbox, replies, subscribed,
                      confirmed, list, seen, removals, gone >>
  BY <1>1 DEF Projection!PublishRemoval, Projection!livesVars, Projection!clientVars
<1>3. e \in EventType /\ e.event = "removed" /\ e.terminal = t
  BY <1>1 DEF EventType
<1>4. ProjectionTypes
  BY DEF ProjectionInv
<1>5. /\ channel' \in Seq(EventType)
      /\ \A k \in DOMAIN channel' : channel'[k] = e \/ (k \in DOMAIN channel /\ channel'[k] = channel[k])
      /\ \A k \in DOMAIN channel : k \in DOMAIN channel' /\ channel'[k] = channel[k]
  BY <1>2, <1>3, <1>4, SendFacts
<1>6. ProjectionTypes'
  BY <1>2, <1>5 DEF ProjectionInv, ProjectionTypes, Projection!TypeOK
<1>7. t \in born /\ t \notin listed
  BY <1>2 DEF ProjectionInv, ProjectionTypes, Projection!TypeOK, Registered
<1>8. Known'
  BY <1>2, <1>3, <1>5, <1>7 DEF ProjectionInv, Known
<1>9. Registered'
  BY <1>2, <1>3, <1>5, <1>7 DEF ProjectionInv, Registered
<1>10. \A x \in listed' \cap announced' : Coming(x)' \/ (x \in announced /\ ~ Coming(x))
  BY <1>2, <1>5 DEF Coming
<1> QED
  BY <1>2, <1>6, <1>8, <1>9, <1>10, ListsKept DEF ProjectionInv

\* A descriptor is checked: it stays on its way if its terminal is registered.
LEMMA CheckKeeps ==
  ASSUME ProjectionInv, NEW t \in Terminal, NEW p \in Projection!Publisher, Projection!Check(t, p)
  PROVE  ProjectionInv'
<1>1. PICK e : e = IF t \in listed THEN [what |-> outbox[t][p].what, checked |-> TRUE] ELSE None
  OBVIOUS
<1>2. /\ outbox[t][p] # None /\ outbox' = [outbox EXCEPT ![t][p] = e]
      /\ UNCHANGED << born, listed, shown, told, announced, leaving, channel, replies, subscribed,
                      confirmed, list, seen, removals, gone >>
  BY <1>1 DEF Projection!Check, Projection!hostVars, Projection!livesVars, Projection!clientVars
<1>3. outbox \in OutboxType
  BY DEF ProjectionInv, ProjectionTypes, Projection!TypeOK, OutboxType
<1>4. outbox[t] \in [Projection!Publisher -> {None} \cup [what : Projection!Descriptors, checked : BOOLEAN]]
  BY <1>3 DEF OutboxType
<1>5. outbox[t][p] \in [what : Projection!Descriptors, checked : BOOLEAN]
  BY <1>2, <1>4
<1>6. PICK d : d = outbox[t][p].what
  OBVIOUS
<1>7. d \in Projection!Descriptors /\ d.terminal = t
  BY <1>2, <1>5, <1>6 DEF ProjectionInv, Known
<1>8. t \in listed => e \in [what : Projection!Descriptors, checked : BOOLEAN] /\ e.what = d
  BY <1>1, <1>6, <1>7
<1>9. t \notin listed => e = None
  BY <1>1
<1>10. t \in listed => e # None
  BY <1>8, TerminalsAssumption
<1>11. outbox' = [outbox EXCEPT ![t] = [outbox[t] EXCEPT ![p] = e]]
  BY <1>2
<1>12. outbox' \in OutboxType
  BY <1>3, <1>4, <1>8, <1>9, <1>11 DEF OutboxType
<1>13. \A x \in Terminal, q \in Projection!Publisher :
         outbox'[x][q] = IF x = t /\ q = p THEN e ELSE outbox[x][q]
  BY <1>3, <1>4, <1>11 DEF OutboxType
<1>14. ProjectionTypes'
  BY <1>2, <1>12 DEF ProjectionInv, ProjectionTypes, Projection!TypeOK, OutboxType
<1>15. \A x \in Terminal, q \in Projection!Publisher :
         outbox'[x][q] # None => x \in born /\ outbox'[x][q].what.terminal = x
  BY <1>2, <1>7, <1>8, <1>9, <1>13 DEF ProjectionInv, Known
<1>16. Known'
  BY <1>2, <1>15 DEF ProjectionInv, Known
<1>17. Registered'
  BY <1>2 DEF ProjectionInv, Registered
<1>18. \A x \in listed' \cap announced' : Coming(x)' \/ (x \in announced /\ ~ Coming(x))
  <2> SUFFICES ASSUME NEW x \in listed \cap announced, Coming(x) PROVE Coming(x)'
    BY <1>2
  <2>1. x \in Terminal /\ "spawn" \in Projection!Publisher
    BY DEF ProjectionInv, ProjectionTypes, Projection!TypeOK, Projection!Publisher
  <2>2. outbox[x]["spawn"] # None => outbox'[x]["spawn"] # None
    BY <1>10, <1>13, <2>1
  <2> QED
    BY <1>2, <2>2 DEF Coming
<1> QED
  BY <1>2, <1>14, <1>16, <1>17, <1>18, ListsKept DEF ProjectionInv

\* A descriptor is delivered: it is on its way still, or there is no list to miss it.
LEMMA DeliverDescriptorKeeps ==
  ASSUME ProjectionInv, NEW t \in Terminal, NEW p \in Projection!Publisher, Projection!Deliver(t, p)
  PROVE  ProjectionInv'
<1>1. PICK d : d = outbox[t][p].what
  OBVIOUS
<1>2. PICK e : e = [event |-> "upserted", what |-> d]
  OBVIOUS
<1>3. /\ outbox[t][p] # None /\ outbox' = [outbox EXCEPT ![t][p] = None] /\ Projection!Send(e)
      /\ UNCHANGED << born, listed, shown, told, announced, leaving, replies, subscribed,
                      confirmed, list, seen, removals, gone >>
  BY <1>1, <1>2 DEF Projection!Deliver, Projection!hostVars, Projection!livesVars,
        Projection!clientVars
<1>4. outbox \in OutboxType
  BY DEF ProjectionInv, ProjectionTypes, Projection!TypeOK, OutboxType
<1>5. outbox[t] \in [Projection!Publisher -> {None} \cup [what : Projection!Descriptors, checked : BOOLEAN]]
  BY <1>4 DEF OutboxType
<1>6. outbox[t][p] \in [what : Projection!Descriptors, checked : BOOLEAN]
  BY <1>3, <1>5
<1>7. d \in Projection!Descriptors /\ d.terminal = t /\ t \in born
  BY <1>1, <1>3, <1>6 DEF ProjectionInv, Known
<1>8. e \in EventType /\ e.event = "upserted" /\ e.what = d
  BY <1>2, <1>7 DEF EventType
<1>9. ProjectionTypes
  BY DEF ProjectionInv
<1>10. /\ channel' \in Seq(EventType)
       /\ \A k \in DOMAIN channel' : channel'[k] = e \/ (k \in DOMAIN channel /\ channel'[k] = channel[k])
       /\ \A k \in DOMAIN channel : k \in DOMAIN channel' /\ channel'[k] = channel[k]
       /\ subscribed => Len(channel) + 1 \in DOMAIN channel' /\ channel'[Len(channel) + 1] = e
  BY <1>3, <1>8, <1>9, SendFacts
<1>11. outbox' = [outbox EXCEPT ![t] = [outbox[t] EXCEPT ![p] = None]]
  BY <1>3
<1>12. outbox' \in OutboxType
  BY <1>4, <1>5, <1>11 DEF OutboxType
<1>13. \A x \in Terminal, q \in Projection!Publisher :
         outbox'[x][q] = IF x = t /\ q = p THEN None ELSE outbox[x][q]
  BY <1>4, <1>5, <1>11 DEF OutboxType
<1>14. ProjectionTypes'
  BY <1>3, <1>10, <1>12 DEF ProjectionInv, ProjectionTypes, Projection!TypeOK, OutboxType
<1>15. \A x \in Terminal, q \in Projection!Publisher :
         outbox'[x][q] # None => x \in born /\ outbox'[x][q].what.terminal = x
  BY <1>13 DEF ProjectionInv, Known
<1>16. Known'
  BY <1>3, <1>7, <1>8, <1>10, <1>15 DEF ProjectionInv, Known
<1>17. Registered'
  BY <1>3, <1>8, <1>10 DEF ProjectionInv, Registered
<1>18. CASE subscribed
  <2>1. Coming(t)'
    BY <1>7, <1>8, <1>10, <1>18 DEF Coming
  <2>2. \A x \in listed' \cap announced' : Coming(x)' \/ (x \in announced /\ ~ Coming(x))
    <3> SUFFICES ASSUME NEW x \in listed \cap announced, Coming(x), x # t PROVE Coming(x)'
      BY <1>3, <2>1
    <3>1. x \in Terminal /\ "spawn" \in Projection!Publisher
      BY DEF ProjectionInv, ProjectionTypes, Projection!TypeOK, Projection!Publisher
    <3> QED
      BY <1>10, <1>13, <3>1 DEF Coming
  <2> QED
    BY <1>3, <1>14, <1>16, <1>17, <2>2, ListsKept DEF ProjectionInv
<1>19. CASE ~ subscribed
  <2>1. \A j \in Projection!Request : list'[j].pc = "none"
    BY <1>3, <1>19 DEF ProjectionInv, ListsKnow
  <2> QED
    BY <1>14, <1>16, <1>17, <2>1 DEF ProjectionInv, ListsKnow, ListsToCome
<1> QED
  BY <1>18, <1>19

-----------------------------------------------------------------------------
\* A descriptor is taken, or an equal or later one of its terminal was.
LEMMA UpsertKeeps ==
  ASSUME ProjectionInv, NEW d \in Projection!Descriptors, d.terminal \in born,
         Projection!CommitUpsert(d),
         UNCHANGED << born, listed, shown, told, announced, leaving, outbox, subscribed, confirmed >>,
         replies' \subseteq replies, channel' \in Seq(EventType),
         \A k \in DOMAIN channel' : \E i \in DOMAIN channel : channel'[k] = channel[i],
         \A x \in Terminal \ {d.terminal} : Coming(x) => Coming(x)'
  PROVE  ProjectionInv'
<1>1. PICK t : t = d.terminal
  OBVIOUS
<1>2. t \in born /\ t \in Terminal
  BY <1>1 DEF ProjectionInv, ProjectionTypes, Projection!TypeOK
<1>3. seen \in [Terminal -> {None} \cup Projection!Descriptors] /\ removals \subseteq gone
      /\ list \in [Projection!Request -> ListType]
  BY DEF ProjectionInv, ProjectionTypes, Projection!TypeOK
<1>4. /\ seen' \in [Terminal -> {None} \cup Projection!Descriptors]
      /\ seen'[t] # None /\ \A x \in Terminal \ {t} : seen'[x] = seen[x]
      /\ gone' = gone /\ removals' \subseteq removals
      /\ list' \in [Projection!Request -> ListType]
      /\ \A j \in Projection!Request :
           /\ list'[j].pc = list[j].pc /\ list'[j].rows = list[j].rows
           /\ list[j].since \subseteq list'[j].since
           /\ list[j].pc # "none" /\ seen[t] = None => t \in list'[j].since
  <2>1. CASE seen[t] # None /\ seen[t].rev >= d.rev
    BY <1>1, <1>3, <2>1 DEF Projection!CommitUpsert
  <2>2. CASE ~ (seen[t] # None /\ seen[t].rev >= d.rev)
    <3>1. /\ seen' = [seen EXCEPT ![t] = d] /\ list' = Projection!Stamp({t})
          /\ removals' = removals \ {t} /\ gone' = gone
      BY <1>1, <2>2 DEF Projection!CommitUpsert
    <3>2. d # None
      BY TerminalsAssumption
    <3>3. /\ list' \in [Projection!Request -> ListType]
          /\ \A j \in Projection!Request :
               /\ list'[j].pc = list[j].pc /\ list'[j].rows = list[j].rows
               /\ list[j].since \subseteq list'[j].since
               /\ list[j].pc # "none" => {t} \subseteq list'[j].since
      BY <1>2, <3>1, StampFacts DEF ProjectionInv
    <3> QED
      BY <1>2, <1>3, <3>1, <3>2, <3>3
  <2> QED
    BY <2>1, <2>2
<1>5. \A j \in Projection!Request :
        list'[j].rows \subseteq Projection!Descriptors /\ list'[j].since \subseteq Terminal
  BY <1>4 DEF ListType
<1>6. ProjectionTypes'
  BY <1>3, <1>4, <1>5 DEF ProjectionInv, ProjectionTypes, Projection!TypeOK
<1>7. Known'
  BY <1>2, <1>4 DEF ProjectionInv, Known
<1>8. Registered'
  BY <1>4 DEF ProjectionInv, Registered
<1>9. \A x \in listed : x \in Terminal
  BY DEF ProjectionInv, ProjectionTypes, Projection!TypeOK
<1>10. \A j \in Projection!Request : \A x : Answered(x, j)' <=> Answered(x, j)
  BY <1>4 DEF Answered
<1>11. ListsKnow'
  <2> SUFFICES ASSUME NEW j \in Projection!Request
               PROVE  /\ list'[j].pc # "none" => subscribed'
                      /\ list'[j].pc = "answered" =>
                           \A x \in listed' : seen'[x] # None => x \in list'[j].since \/ Answered(x, j)'
    BY DEF ListsKnow
  <2>1. list[j].pc # "none" => subscribed
    BY DEF ProjectionInv, ListsKnow
  <2>2. ASSUME NEW x \in listed, list[j].pc = "answered", seen'[x] # None
        PROVE  x \in list'[j].since \/ Answered(x, j)
    <3>1. list[j].pc # "none"
      BY <2>2
    <3>2. CASE x = t /\ seen[t] = None
      BY <1>4, <3>1, <3>2
    <3>3. CASE ~ (x = t /\ seen[t] = None)
      <4>1. seen[x] # None
        BY <1>4, <1>9, <2>2, <3>3
      <4> QED
        BY <1>4, <2>2, <4>1 DEF ProjectionInv, ListsKnow
    <3> QED
      BY <3>2, <3>3
  <2> QED
    BY <1>4, <1>10, <2>1, <2>2
<1>12. ListsToCome'
  <2> SUFFICES ASSUME NEW x \in listed \cap announced, seen'[x] = None, ~ Coming(x)',
                      NEW j \in Projection!Request
               PROVE  list'[j].pc # "done" /\ (list'[j].pc = "answered" => Answered(x, j)')
    BY DEF ListsToCome
  <2>1. x # t
    BY <1>4
  <2>2. seen[x] = None /\ ~ Coming(x)
    BY <1>1, <1>4, <1>9, <2>1
  <2> QED
    BY <1>4, <1>10, <2>2 DEF ProjectionInv, ListsToCome
<1> QED
  BY <1>6, <1>7, <1>8, <1>11, <1>12 DEF ProjectionInv

\* The absence of a terminal that left is taken.
LEMMA RemovalKeeps ==
  ASSUME ProjectionInv, NEW t \in born, t \notin listed, Projection!CommitRemoval(t),
         UNCHANGED << born, listed, shown, told, announced, leaving, outbox, subscribed, replies >>,
         confirmed' \subseteq born, channel' \in Seq(EventType),
         \A k \in DOMAIN channel' : \E i \in DOMAIN channel : channel'[k] = channel[i],
         \A x \in Terminal \ {t} : Coming(x) => Coming(x)'
  PROVE  ProjectionInv'
<1>1. t \in Terminal /\ seen \in [Terminal -> {None} \cup Projection!Descriptors]
      /\ removals \subseteq gone /\ gone \subseteq born /\ list \in [Projection!Request -> ListType]
  BY DEF ProjectionInv, ProjectionTypes, Projection!TypeOK
<1>2. /\ seen' = [seen EXCEPT ![t] = None] /\ list' = Projection!Stamp({t})
      /\ removals' = removals \cup {t} /\ gone' = gone \cup {t}
  BY DEF Projection!CommitRemoval
<1>3. /\ list' \in [Projection!Request -> ListType]
      /\ \A j \in Projection!Request :
           /\ list'[j].pc = list[j].pc /\ list'[j].rows = list[j].rows
           /\ list[j].since \subseteq list'[j].since
  BY <1>1, <1>2, StampFacts DEF ProjectionInv
<1>4. \A j \in Projection!Request :
        list'[j].rows \subseteq Projection!Descriptors /\ list'[j].since \subseteq Terminal
  BY <1>3 DEF ListType
<1>5. /\ seen' \in [Terminal -> {None} \cup Projection!Descriptors]
      /\ \A x \in Terminal : seen'[x] = IF x = t THEN None ELSE seen[x]
  BY <1>1, <1>2
<1>6. ProjectionTypes'
  <2>1. /\ listed \subseteq born /\ born \subseteq Terminal /\ leaving \subseteq born
        /\ announced \subseteq born /\ told \in [Terminal -> 0..MaxRevision]
        /\ replies \subseteq Projection!Descriptors
    BY DEF ProjectionInv, ProjectionTypes, Projection!TypeOK
  <2>2. outbox' \in [Terminal ->
          [Projection!Publisher -> {None} \cup [what : Projection!Descriptors, checked : BOOLEAN]]]
    BY DEF ProjectionInv, ProjectionTypes, Projection!TypeOK
  <2>3. removals' \subseteq gone' /\ gone' \subseteq born
    BY <1>1, <1>2
  <2>4. Projection!TypeOK'
    BY <1>4, <1>5, <2>1, <2>2, <2>3 DEF Projection!TypeOK
  <2>5. shown \in [Terminal -> ShownType] /\ subscribed \in BOOLEAN
    BY DEF ProjectionInv, ProjectionTypes
  <2> QED
    BY <1>3, <2>4, <2>5 DEF ProjectionTypes
<1>7. Known'
  BY <1>3, <1>5 DEF ProjectionInv, Known
<1>8. Registered'
  BY <1>2 DEF ProjectionInv, Registered
<1>9. \A x \in listed : x \in Terminal /\ x # t
  BY DEF ProjectionInv, ProjectionTypes, Projection!TypeOK
<1>10. \A j \in Projection!Request : \A x : Answered(x, j)' <=> Answered(x, j)
  BY <1>3 DEF Answered
<1>11. \A x \in listed : seen'[x] = seen[x] /\ (Coming(x) => Coming(x)')
  BY <1>5, <1>9
<1>12. ListsKnow'
  BY <1>3, <1>10, <1>11 DEF ProjectionInv, ListsKnow
<1>13. ListsToCome'
  BY <1>3, <1>10, <1>11 DEF ProjectionInv, ListsToCome
<1> QED
  BY <1>6, <1>7, <1>8, <1>12, <1>13 DEF ProjectionInv

\* An event is received.
LEMMA ReceiveEventKeeps ==
  ASSUME ProjectionInv, Projection!Receive
  PROVE  ProjectionInv'
<1>1. PICK e : e = Head(channel)
  OBVIOUS
<1>2. /\ channel # << >> /\ channel' = Tail(channel)
      /\ e.event = "upserted" => Projection!CommitUpsert(e.what)
      /\ e.event # "upserted" => Projection!CommitRemoval(e.terminal)
      /\ UNCHANGED << born, listed, shown, told, announced, leaving, outbox, replies, subscribed, confirmed >>
  BY <1>1 DEF Projection!Receive, Projection!hostVars, Projection!livesVars
<1>3. channel \in Seq(EventType)
  BY DEF ProjectionInv, ProjectionTypes
<1>4. /\ channel' \in Seq(EventType) /\ 1 \in DOMAIN channel /\ e = channel[1] /\ e \in EventType
      /\ \A k \in DOMAIN channel' : k + 1 \in DOMAIN channel /\ channel'[k] = channel[k + 1]
      /\ \A k \in DOMAIN channel \ {1} : k - 1 \in DOMAIN channel' /\ channel'[k - 1] = channel[k]
  BY <1>1, <1>2, <1>3, TailFacts
<1>5. \A k \in DOMAIN channel' : \E i \in DOMAIN channel : channel'[k] = channel[i]
  BY <1>4
<1>6. ASSUME NEW x, Coming(x), ~ (e.event = "upserted" /\ e.what.terminal = x) PROVE Coming(x)'
  <2>1. CASE outbox[x]["spawn"] # None
    BY <1>2, <2>1 DEF Coming
  <2>2. CASE \E k \in DOMAIN channel : channel[k].event = "upserted" /\ channel[k].what.terminal = x
    <3>1. PICK k \in DOMAIN channel : channel[k].event = "upserted" /\ channel[k].what.terminal = x
      BY <2>2
    <3>2. k # 1
      BY <1>4, <1>6, <3>1
    <3>3. k - 1 \in DOMAIN channel' /\ channel'[k - 1] = channel[k]
      BY <1>4, <3>2
    <3> QED
      BY <3>1, <3>3 DEF Coming
  <2> QED
    BY <1>6, <2>1, <2>2 DEF Coming
<1>7. CASE e.event = "upserted"
  <2>1. e.what \in Projection!Descriptors
    BY <1>4, <1>7 DEF EventType
  <2>2. e.what.terminal \in born
    BY <1>4, <1>7 DEF ProjectionInv, Known
  <2>3. \A x \in Terminal \ {e.what.terminal} : Coming(x) => Coming(x)'
    BY <1>6
  <2>4. replies' \subseteq replies /\ Projection!CommitUpsert(e.what)
    BY <1>2, <1>7
  <2> QED
    BY <1>2, <1>4, <1>5, <2>1, <2>2, <2>3, <2>4, UpsertKeeps
<1>8. CASE e.event # "upserted"
  <2>1. e.event = "removed" /\ e.terminal \in Terminal
    BY <1>4, <1>8 DEF EventType
  <2>2. e.terminal \in born /\ e.terminal \notin listed
    BY <1>4, <2>1 DEF ProjectionInv, Known, Registered
  <2>3. \A x \in Terminal \ {e.terminal} : Coming(x) => Coming(x)'
    BY <1>6, <1>8
  <2>4. confirmed' \subseteq born /\ Projection!CommitRemoval(e.terminal)
    BY <1>2, <1>8 DEF ProjectionInv, ProjectionTypes, Projection!TypeOK
  <2> QED
    BY <1>2, <1>4, <1>5, <2>2, <2>3, <2>4, RemovalKeeps
<1> QED
  BY <1>7, <1>8

\* An answer is received, and a close that succeeded is taken for the absence of its terminal.
LEMMA ReplyKeeps ==
  ASSUME ProjectionInv,
         \/ \E d \in replies : Projection!ReceiveReply(d)
         \/ \E t \in Terminal : Projection!Confirm(t)
  PROVE  ProjectionInv'
<1>1. /\ channel \in Seq(EventType) /\ replies \subseteq Projection!Descriptors
      /\ listed \subseteq born /\ confirmed \subseteq born
  BY DEF ProjectionInv, ProjectionTypes, Projection!TypeOK
<1>2. CASE \E d \in replies : Projection!ReceiveReply(d)
  <2>1. PICK d \in replies : Projection!ReceiveReply(d)
    BY <1>2
  <2>2. /\ replies' = replies \ {d} /\ Projection!CommitUpsert(d)
        /\ UNCHANGED << born, listed, shown, told, announced, leaving, outbox, channel, subscribed, confirmed >>
    BY <2>1 DEF Projection!ReceiveReply, Projection!hostVars, Projection!livesVars
  <2>3. d.terminal \in born /\ d \in Projection!Descriptors
    BY <1>1 DEF ProjectionInv, Known
  <2>4. \A x \in Terminal \ {d.terminal} : Coming(x) => Coming(x)'
    BY <2>2 DEF Coming
  <2>5. /\ channel' \in Seq(EventType) /\ replies' \subseteq replies
        /\ \A k \in DOMAIN channel' : \E i \in DOMAIN channel : channel'[k] = channel[i]
    BY <1>1, <2>2
  <2> QED
    BY <2>2, <2>3, <2>4, <2>5, UpsertKeeps
<1>3. CASE \E t \in Terminal : Projection!Confirm(t)
  <2>1. PICK t \in Terminal : Projection!Confirm(t)
    BY <1>3
  <2>2. /\ t \in born /\ t \notin listed /\ confirmed' = confirmed \cup {t} /\ Projection!CommitRemoval(t)
        /\ UNCHANGED << born, listed, shown, told, announced, leaving, outbox, channel, replies, subscribed >>
    BY <2>1 DEF Projection!Confirm, Projection!hostVars, Projection!livesVars
  <2>3. \A x \in Terminal \ {t} : Coming(x) => Coming(x)'
    BY <2>2 DEF Coming
  <2>4. /\ channel' \in Seq(EventType) /\ confirmed' \subseteq born
        /\ \A k \in DOMAIN channel' : \E i \in DOMAIN channel : channel'[k] = channel[i]
    BY <1>1, <2>2
  <2> QED
    BY <2>2, <2>3, <2>4, RemovalKeeps
<1> QED
  BY <1>2, <1>3

-----------------------------------------------------------------------------
\* The webview subscribes, or asks for the list.
LEMMA AskingKeeps ==
  ASSUME ProjectionInv,
         Projection!Subscribe \/ \E i \in Projection!Request : Projection!RequestList(i)
  PROVE  ProjectionInv'
<1>1. list \in [Projection!Request -> ListType]
  BY DEF ProjectionInv, ProjectionTypes
<1>2. CASE Projection!Subscribe
  <2>1. /\ subscribed' = TRUE
        /\ UNCHANGED << born, listed, shown, told, announced, leaving, outbox, channel, replies,
                        confirmed, list, seen, removals, gone >>
    BY <1>2 DEF Projection!Subscribe, Projection!hostVars, Projection!livesVars
  <2>2. ProjectionTypes'
    BY <2>1 DEF ProjectionInv, ProjectionTypes, Projection!TypeOK
  <2>3. Known' /\ Registered'
    BY <2>1 DEF ProjectionInv, Known, Registered
  <2>4. ListsKnow' /\ ListsToCome'
    BY <2>1 DEF ProjectionInv, ListsKnow, ListsToCome, Answered, Coming
  <2> QED
    BY <2>2, <2>3, <2>4 DEF ProjectionInv
<1>3. CASE \E i \in Projection!Request : Projection!RequestList(i)
  <2>1. PICK i \in Projection!Request : Projection!RequestList(i)
    BY <1>3
  <2>2. /\ subscribed /\ list' = [list EXCEPT ![i].pc = "asked"]
        /\ UNCHANGED << born, listed, shown, told, announced, leaving, outbox, channel, replies,
                        subscribed, confirmed, seen, removals, gone >>
    BY <2>1 DEF Projection!RequestList, Projection!hostVars, Projection!livesVars
  <2>3. list[i] \in ListType
    BY <1>1
  <2>4. [list[i] EXCEPT !.pc = "asked"] \in ListType
    BY <2>3 DEF ListType
  <2>5. /\ list' \in [Projection!Request -> ListType]
        /\ list'[i].pc = "asked" /\ list'[i].rows = list[i].rows
        /\ \A j \in Projection!Request \ {i} : list'[j] = list[j]
    BY <1>1, <2>2, <2>3, <2>4 DEF ListType
  <2>6. \A j \in Projection!Request :
          list'[j].rows \subseteq Projection!Descriptors /\ list'[j].since \subseteq Terminal
    BY <2>5 DEF ListType
  <2>7. ProjectionTypes'
    BY <2>2, <2>5, <2>6 DEF ProjectionInv, ProjectionTypes, Projection!TypeOK
  <2>8. \A j \in Projection!Request : list'[j].rows = list[j].rows
    BY <2>5
  <2>9. Known'
    BY <2>2, <2>8 DEF ProjectionInv, Known
  <2>10. Registered'
    BY <2>2 DEF ProjectionInv, Registered
  <2>11. \A t : \A j \in Projection!Request : Answered(t, j)' <=> Answered(t, j)
    BY <2>8 DEF Answered
  <2>12. \A t : Coming(t)' <=> Coming(t)
    BY <2>2 DEF Coming
  <2>13. ListsKnow'
    BY <2>2, <2>5, <2>11 DEF ProjectionInv, ListsKnow
  <2>14. ListsToCome'
    BY <2>2, <2>5, <2>11, <2>12 DEF ProjectionInv, ListsToCome
  <2> QED
    BY <2>7, <2>9, <2>10, <2>13, <2>14 DEF ProjectionInv
<1> QED
  BY <1>2, <1>3

\* The list is answered: it has every registered terminal.
LEMMA ServeListKeeps ==
  ASSUME ProjectionInv, NEW i \in Projection!Request, Projection!ServeList(i)
  PROVE  ProjectionInv'
<1> DEFINE R == {Projection!Descriptor(t, shown[t]) : t \in listed}
<1>1. /\ list[i].pc = "asked"
      /\ list' = [list EXCEPT ![i].pc = "answered", ![i].rows = R]
      /\ UNCHANGED << born, listed, shown, told, announced, leaving, outbox, channel, replies,
                      subscribed, confirmed, seen, removals, gone >>
  BY DEF Projection!ServeList, Projection!hostVars, Projection!livesVars
<1>2. list \in [Projection!Request -> ListType] /\ listed \subseteq born /\ born \subseteq Terminal
      /\ shown \in [Terminal -> ShownType]
  BY DEF ProjectionInv, ProjectionTypes, Projection!TypeOK
<1>3. /\ R \subseteq Projection!Descriptors
      /\ \A d \in R : d.terminal \in born
      /\ \A t \in listed : \E d \in R : d.terminal = t
  <2>1. \A t \in listed : /\ Projection!Descriptor(t, shown[t]) \in Projection!Descriptors
                          /\ Projection!Descriptor(t, shown[t]).terminal = t
    <3> TAKE t \in listed
    <3>1. t \in Terminal /\ shown[t] \in ShownType
      BY <1>2
    <3> QED
      BY <3>1, DescriptorFacts
  <2>2. \A t \in listed : Projection!Descriptor(t, shown[t]) \in R
    OBVIOUS
  <2> QED
    BY <1>2, <2>1, <2>2
<1> HIDE DEF R
<1>4. list[i] \in ListType
  BY <1>2
<1>5. PICK x : x = [[list[i] EXCEPT !.pc = "answered"] EXCEPT !.rows = R]
  OBVIOUS
<1>6. x \in ListType /\ x.pc = "answered" /\ x.rows = R
  BY <1>3, <1>4, <1>5 DEF ListType
<1>7. list' = [list EXCEPT ![i] = x]
  BY <1>1, <1>2, <1>4, <1>5 DEF ListType
<1>8. /\ list' \in [Projection!Request -> ListType]
      /\ list'[i].pc = "answered" /\ list'[i].rows = R
      /\ \A j \in Projection!Request \ {i} : list'[j] = list[j]
  BY <1>2, <1>6, <1>7
<1>9. \A j \in Projection!Request :
        list'[j].rows \subseteq Projection!Descriptors /\ list'[j].since \subseteq Terminal
  BY <1>8 DEF ListType
<1>10. ProjectionTypes'
  BY <1>1, <1>8, <1>9 DEF ProjectionInv, ProjectionTypes, Projection!TypeOK
<1>11. \A j \in Projection!Request : \A d \in list'[j].rows : d.terminal \in born
  <2> TAKE j \in Projection!Request
  <2>1. \A d \in list[j].rows : d.terminal \in born
    BY DEF ProjectionInv, Known
  <2> QED
    BY <1>3, <1>8, <2>1
<1>12. Known'
  BY <1>1, <1>11 DEF ProjectionInv, Known
<1>13. Registered'
  BY <1>1 DEF ProjectionInv, Registered
<1>14. /\ \A t \in listed : Answered(t, i)'
       /\ \A t : \A j \in Projection!Request \ {i} : Answered(t, j)' <=> Answered(t, j)
  BY <1>3, <1>8 DEF Answered
<1>15. \A t : Coming(t)' <=> Coming(t)
  BY <1>1 DEF Coming
<1>16. ListsKnow'
  <2> SUFFICES ASSUME NEW j \in Projection!Request
               PROVE  /\ list'[j].pc # "none" => subscribed'
                      /\ list'[j].pc = "answered" =>
                           \A t \in listed' : seen'[t] # None => t \in list'[j].since \/ Answered(t, j)'
    BY DEF ListsKnow
  <2>1. list[i].pc # "none" => subscribed
    BY DEF ProjectionInv, ListsKnow
  <2>2. CASE j = i
    BY <1>1, <1>14, <2>1, <2>2
  <2>3. CASE j # i
    BY <1>1, <1>8, <1>14, <2>3 DEF ProjectionInv, ListsKnow
  <2> QED
    BY <2>2, <2>3
<1>17. ListsToCome'
  <2> SUFFICES ASSUME NEW t \in listed \cap announced, seen[t] = None, ~ Coming(t),
                      NEW j \in Projection!Request
               PROVE  list'[j].pc # "done" /\ (list'[j].pc = "answered" => Answered(t, j)')
    BY <1>1, <1>15 DEF ListsToCome
  <2>1. CASE j = i
    BY <1>8, <1>14, <2>1
  <2>2. CASE j # i
    <3>1. list[j].pc # "done" /\ (list[j].pc = "answered" => Answered(t, j))
      BY DEF ProjectionInv, ListsToCome
    <3> QED
      BY <1>8, <1>14, <2>2, <3>1
  <2> QED
    BY <2>1, <2>2
<1> QED
  BY <1>10, <1>12, <1>13, <1>16, <1>17 DEF ProjectionInv

\* What the webview makes of a list: what was observed since stays, and the rows give the rest.
LEMMA CommitListFacts ==
  ASSUME ProjectionInv, NEW i \in Projection!Request, Projection!CommitList(i)
  PROVE  /\ list[i].pc = "answered"
         /\ \E taken \in SUBSET born :
              /\ taken = Projection!TakenFrom(i) \ Projection!Tombstones(i)
              /\ \A t \in Terminal :
                   /\ t \in taken => /\ ~ Projection!Observed(i, t)
                                     /\ seen'[t] \in list[i].rows /\ seen'[t].terminal = t
                   /\ t \notin taken /\ Projection!Observed(i, t) => seen'[t] = seen[t]
                   /\ t \notin taken /\ ~ Projection!Observed(i, t) => seen'[t] = None
              /\ list'[i] = [pc |-> "done", rows |-> {}, since |-> {}]
              /\ \A j \in Projection!Request \ {i} :
                   /\ list'[j].pc = list[j].pc /\ list'[j].rows = list[j].rows
                   /\ list[j].since \subseteq list'[j].since
                   /\ list[j].pc # "none" => taken \subseteq list'[j].since
              /\ list' \in [Projection!Request -> ListType]
              /\ seen' \in [Terminal -> {None} \cup Projection!Descriptors]
<1> DEFINE taken == Projection!TakenFrom(i) \ Projection!Tombstones(i)
<1>1. /\ list[i].pc = "answered"
      /\ seen' = [t \in Terminal |->
           IF t \in taken THEN CHOOSE d \in list[i].rows : d.terminal = t
           ELSE IF Projection!Observed(i, t) THEN seen[t] ELSE None]
      /\ list' = [Projection!Stamp(taken) EXCEPT ![i] = [pc |-> "done", rows |-> {}, since |-> {}]]
  BY DEF Projection!CommitList
<1>2. /\ born \subseteq Terminal /\ list[i].rows \subseteq Projection!Descriptors
      /\ seen \in [Terminal -> {None} \cup Projection!Descriptors]
      /\ \A d \in list[i].rows : d.terminal \in born
  BY DEF ProjectionInv, ProjectionTypes, Projection!TypeOK, Known
<1>3. /\ taken \subseteq born /\ taken \subseteq Terminal
      /\ \A t \in taken : ~ Projection!Observed(i, t) /\ \E d \in list[i].rows : d.terminal = t
  BY <1>2 DEF Projection!TakenFrom
<1> HIDE DEF taken
<1>4. /\ Projection!Stamp(taken) \in [Projection!Request -> ListType]
      /\ \A j \in Projection!Request :
           /\ Projection!Stamp(taken)[j].pc = list[j].pc
           /\ Projection!Stamp(taken)[j].rows = list[j].rows
           /\ list[j].since \subseteq Projection!Stamp(taken)[j].since
           /\ list[j].pc # "none" => taken \subseteq Projection!Stamp(taken)[j].since
  BY <1>3, StampFacts DEF ProjectionInv
<1>5. [pc |-> "done", rows |-> {}, since |-> {}] \in ListType
  BY DEF ListType
<1>6. /\ list' \in [Projection!Request -> ListType]
      /\ list'[i] = [pc |-> "done", rows |-> {}, since |-> {}]
      /\ \A j \in Projection!Request \ {i} : list'[j] = Projection!Stamp(taken)[j]
  BY <1>1, <1>4, <1>5
<1>7. \A j \in Projection!Request \ {i} :
           /\ list'[j].pc = list[j].pc /\ list'[j].rows = list[j].rows
           /\ list[j].since \subseteq list'[j].since
           /\ list[j].pc # "none" => taken \subseteq list'[j].since
  BY <1>4, <1>6
<1>8. \A t \in Terminal :
        /\ t \in taken => seen'[t] \in list[i].rows /\ seen'[t].terminal = t
        /\ t \notin taken /\ Projection!Observed(i, t) => seen'[t] = seen[t]
        /\ t \notin taken /\ ~ Projection!Observed(i, t) => seen'[t] = None
  <2> TAKE t \in Terminal
  <2>1. CASE t \in taken
    <3>1. \E d \in list[i].rows : d.terminal = t
      BY <1>3, <2>1
    <3>2. seen'[t] = CHOOSE d \in list[i].rows : d.terminal = t
      BY <1>1, <2>1
    <3> QED
      BY <2>1, <3>1, <3>2
  <2>2. CASE t \notin taken
    BY <1>1, <2>2
  <2> QED
    BY <2>1, <2>2
<1>9. seen' \in [Terminal -> {None} \cup Projection!Descriptors]
  <2>1. \A t \in Terminal : seen'[t] \in {None} \cup Projection!Descriptors
    BY <1>2, <1>8
  <2> QED
    BY <1>1, <2>1
<1>10. taken = Projection!TakenFrom(i) \ Projection!Tombstones(i)
  BY DEF taken
<1> QED
  BY ZenonT(60), <1>1, <1>3, <1>6, <1>7, <1>8, <1>9, <1>10

\* A list is taken.
LEMMA CommitListKeeps ==
  ASSUME ProjectionInv, NEW i \in Projection!Request, Projection!CommitList(i)
  PROVE  ProjectionInv'
<1>1. /\ removals' = Projection!Tombstones(i)
      /\ UNCHANGED << born, listed, shown, told, announced, leaving, outbox, channel, replies,
                      subscribed, confirmed, gone >>
  BY DEF Projection!CommitList, Projection!hostVars, Projection!livesVars
<1>2. PICK taken \in SUBSET born :
        /\ taken = Projection!TakenFrom(i) \ Projection!Tombstones(i)
        /\ \A t \in Terminal :
             /\ t \in taken => /\ ~ Projection!Observed(i, t)
                               /\ seen'[t] \in list[i].rows /\ seen'[t].terminal = t
             /\ t \notin taken /\ Projection!Observed(i, t) => seen'[t] = seen[t]
             /\ t \notin taken /\ ~ Projection!Observed(i, t) => seen'[t] = None
        /\ list'[i] = [pc |-> "done", rows |-> {}, since |-> {}]
        /\ \A j \in Projection!Request \ {i} :
             /\ list'[j].pc = list[j].pc /\ list'[j].rows = list[j].rows
             /\ list[j].since \subseteq list'[j].since
             /\ list[j].pc # "none" => taken \subseteq list'[j].since
        /\ list' \in [Projection!Request -> ListType]
        /\ seen' \in [Terminal -> {None} \cup Projection!Descriptors]
  BY CommitListFacts
<1>3. list[i].pc = "answered"
  BY CommitListFacts
<1>4. /\ removals \subseteq gone /\ gone \subseteq born /\ listed \subseteq born
      /\ born \subseteq Terminal /\ list[i].rows \subseteq Projection!Descriptors
  BY DEF ProjectionInv, ProjectionTypes, Projection!TypeOK
<1>5. \A j \in Projection!Request :
        list'[j].rows \subseteq Projection!Descriptors /\ list'[j].since \subseteq Terminal
  BY <1>2 DEF ListType
<1>6. removals' \subseteq gone
  BY <1>1, <1>4 DEF Projection!Tombstones
<1>7. ProjectionTypes'
  BY <1>1, <1>2, <1>5, <1>6 DEF ProjectionInv, ProjectionTypes, Projection!TypeOK
<1>8. \A t \in Terminal : seen'[t] # None => t \in born
  <2>1. \A t \in Terminal : Projection!Observed(i, t) => seen[t] # None
    BY DEF Projection!Observed
  <2>2. \A t \in Terminal : seen[t] # None => t \in born
    BY DEF ProjectionInv, Known
  <2> QED
    BY <1>2, <2>1, <2>2
<1>9. \A j \in Projection!Request : \A d \in list'[j].rows : d.terminal \in born
  <2> TAKE j \in Projection!Request
  <2>1. list'[j].rows \in {{}, list[j].rows}
    BY <1>2
  <2> QED
    BY <2>1 DEF ProjectionInv, Known
<1>10. Known'
  BY <1>1, <1>8, <1>9 DEF ProjectionInv, Known
<1>11. Registered'
  BY <1>1 DEF ProjectionInv, Registered
<1>12. \A t : \A j \in Projection!Request \ {i} : Answered(t, j)' <=> Answered(t, j)
  BY <1>2 DEF Answered
<1>13. \A t : Coming(t)' <=> Coming(t)
  BY <1>1 DEF Coming
<1>14. \A t \in Terminal : t \notin taken /\ seen'[t] # None => seen[t] # None
  BY <1>2 DEF Projection!Observed
<1>15. ListsKnow'
  <2> SUFFICES ASSUME NEW j \in Projection!Request
               PROVE  /\ list'[j].pc # "none" => subscribed'
                      /\ list'[j].pc = "answered" =>
                           \A t \in listed' : seen'[t] # None => t \in list'[j].since \/ Answered(t, j)'
    BY DEF ListsKnow
  <2>1. /\ list[i].pc # "none" => subscribed
        /\ list[j].pc # "none" => subscribed
        /\ list[j].pc = "answered" => \A t \in listed : seen[t] # None => t \in list[j].since \/ Answered(t, j)
    BY DEF ProjectionInv, ListsKnow
  <2>2. CASE j = i
    BY <1>1, <1>2, <1>3, <2>1, <2>2
  <2>3. CASE j # i
    <3>1. ASSUME list[j].pc = "answered", NEW t \in listed, seen'[t] # None
          PROVE  t \in list'[j].since \/ Answered(t, j)
      <4>1. list[j].pc # "none" /\ t \in Terminal
        BY <1>4, <3>1
      <4>2. CASE t \in taken
        BY <1>2, <2>3, <4>1, <4>2
      <4>3. CASE t \notin taken
        BY <1>2, <1>14, <2>1, <2>3, <3>1, <4>1, <4>3
      <4> QED
        BY <4>2, <4>3
    <3> QED
      BY <1>1, <1>2, <1>12, <2>1, <2>3, <3>1
  <2> QED
    BY <2>2, <2>3
<1>16. ListsToCome'
  <2> SUFFICES ASSUME NEW t \in listed \cap announced, ~ Coming(t)
               PROVE  seen'[t] # None
    BY <1>1, <1>13 DEF ListsToCome
  <2>1. t \in Terminal /\ t \notin Projection!Tombstones(i)
    BY <1>4 DEF ProjectionInv, Registered, Projection!Tombstones
  <2>2. Projection!Observed(i, t) \/ Answered(t, i)
    <3>1. CASE seen[t] = None
      BY <1>3, <3>1 DEF ProjectionInv, ListsToCome
    <3>2. CASE seen[t] # None
      <4>1. t \in list[i].since \/ Answered(t, i)
        BY <1>3, <3>2 DEF ProjectionInv, ListsKnow
      <4> QED
        BY <3>2, <4>1 DEF Projection!Observed
    <3> QED
      BY <3>1, <3>2
  <2>3. CASE Projection!Observed(i, t)
    <3>1. t \notin taken /\ seen[t] # None
      BY <1>2, <2>1, <2>3 DEF Projection!Observed
    <3> QED
      BY <1>2, <2>1, <2>3, <3>1
  <2>4. CASE ~ Projection!Observed(i, t)
    <3>1. Answered(t, i)
      BY <2>2, <2>4
    <3>2. t \in taken
      BY <1>2, <2>1, <2>4, <3>1 DEF Projection!TakenFrom, Answered
    <3>3. seen'[t] \in Projection!Descriptors
      BY <1>2, <1>4, <2>1, <3>2
    <3> QED
      BY <3>3, TerminalsAssumption
  <2> QED
    BY <2>3, <2>4
<1> QED
  BY <1>7, <1>10, <1>11, <1>15, <1>16 DEF ProjectionInv

\* At first there is nothing.
LEMMA ProjectionStarts == Projection!Init => ProjectionInv
<1> SUFFICES ASSUME Projection!Init PROVE ProjectionInv
  OBVIOUS
<1>1. /\ born = {} /\ listed = {} /\ announced = {} /\ leaving = {} /\ replies = {}
      /\ confirmed = {} /\ removals = {} /\ gone = {} /\ channel = << >> /\ subscribed = FALSE
      /\ shown = [t \in Terminal |-> Projection!Unborn] /\ told = [t \in Terminal |-> 0]
      /\ outbox = [t \in Terminal |-> [p \in Projection!Publisher |-> None]]
      /\ list = [i \in Projection!Request |-> [pc |-> "none", rows |-> {}, since |-> {}]]
      /\ seen = [t \in Terminal |-> None]
  BY DEF Projection!Init, Projection!LivesInit
<1>2. Projection!Unborn \in ShownType /\ Projection!Unborn.stage = 1 /\ 0 \in 0..MaxRevision
  BY TerminalsAssumption DEF Projection!Unborn, ShownType, Projection!Stage
<1>3. [pc |-> "none", rows |-> {}, since |-> {}] \in ListType
  BY DEF ListType
<1>4. outbox \in OutboxType
  BY <1>1 DEF OutboxType
<1>5. list \in [Projection!Request -> ListType] /\ shown \in [Terminal -> ShownType]
  BY <1>1, <1>2, <1>3
<1>6. ProjectionTypes
  <2>1. told \in [Terminal -> 0..MaxRevision] /\ seen \in [Terminal -> {None} \cup Projection!Descriptors]
    BY <1>1, <1>2
  <2>2. \A i \in Projection!Request : list[i].rows = {} /\ list[i].since = {}
    BY <1>1
  <2>3. Projection!TypeOK
    BY <1>1, <1>4, <2>1, <2>2 DEF Projection!TypeOK, OutboxType
  <2>4. channel \in Seq(EventType)
    <3>1. channel = << >> /\ << >> \in Seq(EventType)
      BY <1>1
    <3> QED
      BY <3>1
  <2>5. subscribed \in BOOLEAN
    <3>1. subscribed = FALSE
      BY <1>1
    <3> QED
      BY <3>1
  <2> QED
    BY <1>5, <2>3, <2>4, <2>5 DEF ProjectionTypes
<1>7. Known
  BY <1>1, <1>2 DEF Known
<1>8. Registered /\ ListsToCome
  BY <1>1 DEF Registered, ListsToCome
<1>9. ListsKnow
  BY <1>1 DEF ListsKnow
<1> QED
  BY <1>6, <1>7, <1>8, <1>9 DEF ProjectionInv

\* Every step of the host and of the webview keeps it, and so does a step of another part.
LEMMA ProjectionKept ==
  ASSUME ProjectionInv, Projection!Next \/ UNCHANGED projectionVars
  PROVE  ProjectionInv'
<1>1. CASE Projection!Hosting
  <2>1. PICK t \in Terminal :
          \/ Projection!Born(t) \/ Projection!Announce(t) \/ Projection!Leave(t)
          \/ \/ \E stage \in {shown[t].stage, 4} : Projection!Revise(t, stage)
             \/ Projection!Mark(t) \/ Projection!PublishMark(t)
          \/ Projection!PublishRemoval(t)
          \/ \E p \in Projection!Publisher : Projection!Check(t, p) \/ Projection!Deliver(t, p)
    BY <1>1 DEF Projection!Hosting
  <2> QED
    BY <2>1, BornKeeps, AnnounceKeeps, LeaveKeeps, RevisionKeeps, PublishRemovalKeeps,
          CheckKeeps,
       DeliverDescriptorKeeps
<1>2. CASE Projection!Projecting
  <2>1. \/ Projection!Subscribe \/ \E i \in Projection!Request : Projection!RequestList(i)
        \/ Projection!Receive
        \/ \E i \in Projection!Request : Projection!ServeList(i) \/ Projection!CommitList(i)
        \/ \E d \in replies : Projection!ReceiveReply(d)
        \/ \E t \in Terminal : Projection!Confirm(t)
    BY <1>2 DEF Projection!Projecting
  <2> QED
    BY <2>1, AskingKeeps, ReceiveEventKeeps, ServeListKeeps, CommitListKeeps, ReplyKeeps
<1>3. CASE UNCHANGED projectionVars
  BY <1>3 DEF projectionVars, ProjectionInv, ProjectionTypes, Projection!TypeOK, Known,
        Registered,
              ListsKnow, ListsToCome, Answered, Coming
<1> QED
  BY <1>1, <1>2, <1>3 DEF Projection!Next

\* Where a request is changes only when it is asked, answered or taken itself.
LEMMA OnlyItsCommitEnds ==
  ASSUME ProjectionInv, Projection!Next \/ UNCHANGED projectionVars, NEW i \in Projection!Request,
         list[i].pc = "answered", list'[i].pc = "done"
  PROVE  Projection!CommitList(i)
<1>1. list \in [Projection!Request -> ListType] /\ born \subseteq Terminal
      /\ listed \subseteq born /\ replies \subseteq Projection!Descriptors
      /\ \A d \in replies : d.terminal \in born
  BY DEF ProjectionInv, ProjectionTypes, Projection!TypeOK, Known
<1>2. ASSUME UNCHANGED list PROVE FALSE
  BY <1>2
<1>3. ASSUME NEW T \in SUBSET Terminal, list' = Projection!Stamp(T) PROVE FALSE
  BY <1>3, StampFacts DEF ProjectionInv
<1>4. ASSUME NEW t \in Terminal, Projection!CommitRemoval(t) PROVE FALSE
  BY <1>3, <1>4 DEF Projection!CommitRemoval
<1>5. ASSUME NEW d, d.terminal \in Terminal, Projection!CommitUpsert(d) PROVE FALSE
  <2>1. UNCHANGED list \/ list' = Projection!Stamp({d.terminal})
    BY <1>5 DEF Projection!CommitUpsert
  <2> QED
    BY <1>2, <1>3, <1>5, <2>1
<1>6. CASE Projection!Hosting
  <2>1. UNCHANGED list
    BY <1>6 DEF Projection!Hosting, Projection!Born, Projection!Announce, Projection!Mark,
       Projection!PublishMark, Projection!Leave, Projection!PublishRemoval, Projection!Revise,
       Projection!Check, Projection!Deliver, Projection!clientVars
  <2> QED
    BY <1>2, <2>1
<1>7. ASSUME Projection!Subscribe PROVE FALSE
  BY <1>2, <1>7 DEF Projection!Subscribe
<1>8. ASSUME Projection!Receive PROVE FALSE
  <2>1. PICK e : e = Head(channel)
    OBVIOUS
  <2>2. channel # << >> /\ (e.event = "upserted" => Projection!CommitUpsert(e.what))
        /\ (e.event # "upserted" => Projection!CommitRemoval(e.terminal))
    BY <1>8, <2>1 DEF Projection!Receive
  <2>3. channel \in Seq(EventType)
    BY DEF ProjectionInv, ProjectionTypes
  <2>4. e \in EventType
    BY <2>1, <2>2, <2>3
  <2>5. CASE e.event = "upserted"
    <3>1. e.what.terminal \in Terminal
      BY <2>4, <2>5 DEF EventType, Projection!Descriptors
    <3> QED
      BY <1>5, <2>2, <2>5, <3>1
  <2>6. CASE e.event # "upserted"
    <3>1. e.terminal \in Terminal
      BY <2>4, <2>6 DEF EventType
    <3> QED
      BY <1>4, <2>2, <2>6, <3>1
  <2> QED
    BY <2>5, <2>6
<1>9. ASSUME NEW d \in replies, Projection!ReceiveReply(d) PROVE FALSE
  <2>1. d.terminal \in Terminal /\ Projection!CommitUpsert(d)
    BY <1>1, <1>9 DEF Projection!ReceiveReply
  <2> QED
    BY <1>5, <2>1
<1>10. ASSUME NEW t \in Terminal, Projection!Confirm(t) PROVE FALSE
  BY <1>4, <1>10 DEF Projection!Confirm
<1>11. ASSUME NEW j \in Projection!Request, Projection!RequestList(j) \/ Projection!ServeList(j)
       PROVE  FALSE
  <2>1. j # i
    BY <1>11 DEF Projection!RequestList, Projection!ServeList
  <2>2. list'[i] = list[i]
    BY <1>1, <1>11, <2>1 DEF Projection!RequestList, Projection!ServeList
  <2> QED
    BY <2>2
<1>12. ASSUME NEW j \in Projection!Request, Projection!CommitList(j), j # i PROVE FALSE
  BY <1>12, CommitListFacts
<1>13. CASE Projection!Projecting
  BY <1>7, <1>8, <1>9, <1>10, <1>11, <1>12, <1>13 DEF Projection!Projecting
<1>14. CASE UNCHANGED projectionVars
  BY <1>2, <1>14 DEF projectionVars
<1> QED
  BY <1>6, <1>13, <1>14 DEF Projection!Next

\* No step takes a list over what was observed since it was asked for, or an older row over
\* a newer descriptor (terminalClientRuntime.ts:378-388).
NoRegress ==
  \A i \in Projection!Request, t \in Terminal :
    list[i].pc = "answered" /\ list'[i].pc = "done" /\ seen[t] # None =>
      /\ t \in list[i].since => seen'[t] = seen[t]
      /\ seen'[t] # None => seen'[t].rev >= seen[t].rev
\* It is so for a list that is taken.
LEMMA ListsDoNotRegress ==
  ASSUME ProjectionInv, Projection!Next \/ UNCHANGED projectionVars
  PROVE  NoRegress
<1> SUFFICES ASSUME NEW i \in Projection!Request, NEW t \in Terminal,
                    list[i].pc = "answered", list'[i].pc = "done", seen[t] # None
             PROVE  /\ t \in list[i].since => seen'[t] = seen[t]
                    /\ seen'[t] # None => seen'[t].rev >= seen[t].rev
  BY DEF NoRegress
<1>1. Projection!CommitList(i)
  BY OnlyItsCommitEnds
<1>2. PICK taken \in SUBSET born :
        /\ t \in taken => /\ ~ Projection!Observed(i, t)
                          /\ seen'[t] \in list[i].rows /\ seen'[t].terminal = t
        /\ t \notin taken /\ Projection!Observed(i, t) => seen'[t] = seen[t]
        /\ t \notin taken /\ ~ Projection!Observed(i, t) => seen'[t] = None
  BY <1>1, CommitListFacts
<1>3. seen[t] \in Projection!Descriptors /\ list[i].rows \subseteq Projection!Descriptors
  BY DEF ProjectionInv, ProjectionTypes, Projection!TypeOK
<1>4. seen[t].rev \in Int /\ \A d \in list[i].rows : d.rev \in Int
  BY <1>3 DEF Projection!Descriptors
<1>5. t \in list[i].since => Projection!Observed(i, t)
  BY DEF Projection!Observed
<1>6. ASSUME t \in taken PROVE ~ (seen[t].rev > seen'[t].rev) /\ seen'[t] \in list[i].rows
  BY <1>2, <1>6 DEF Projection!Observed
<1> QED
  BY <1>2, <1>4, <1>5, <1>6

\* When nothing is on its way and a list was taken, no registered terminal is missed.
LEMMA NoneIsMissed == ProjectionInv => Projection!NothingMissed
<1> SUFFICES ASSUME ProjectionInv, Projection!Quiet, NEW t \in listed \cap announced, seen[t] = None
             PROVE  FALSE
  BY DEF Projection!NothingMissed
<1>1. channel = << >> /\ t \in Terminal /\ "spawn" \in Projection!Publisher
      /\ \E i \in Projection!Request : list[i].pc = "done"
  BY DEF Projection!Quiet, ProjectionInv, ProjectionTypes, Projection!TypeOK,
        Projection!Publisher
<1>2. ~ Coming(t)
  BY <1>1 DEF Coming, Projection!Quiet
<1> QED
  BY <1>1, <1>2 DEF ProjectionInv, ListsToCome

\* The projection keeps its invariant.
THEOREM ProjectionInvariant == Projection!Spec => []ProjectionInv
<1>1. Projection!Init => ProjectionInv
  BY ProjectionStarts
<1>2. ProjectionInv /\ [Projection!Next]_(Projection!vars) => ProjectionInv'
  BY ProjectionKept DEF Projection!vars, Projection!livesVars, Projection!hostVars,
     Projection!clientVars, projectionVars
<1> QED
  BY <1>1, <1>2, PTL DEF Projection!Spec

\* However lists, events and answers overtake each other, no registered terminal is missed once a
\* list was taken, and no list takes a row back (terminalClientRuntime.ts:142-157,
\* terminalClientRuntime.ts:378-388).
THEOREM ListsTrue == Projection!Spec => ListsAreTrue
<1>1. ProjectionInv => Projection!NothingMissed
  BY NoneIsMissed
<1>2. ProjectionInv /\ [Projection!Next]_(Projection!vars) => [NoRegress]_(Projection!vars)
  BY ListsDoNotRegress
<1>3. Projection!Spec => []Projection!NothingMissed
  BY <1>1, ProjectionInvariant, PTL
<1>4. Projection!Spec => Projection!ListsNeverRegress
  <2>1. Projection!Spec => [][NoRegress]_(Projection!vars)
    BY <1>2, ProjectionInvariant, PTL DEF Projection!Spec
  <2> QED
    BY <2>1 DEF NoRegress, Projection!ListsNeverRegress
<1> QED
  BY <1>3, <1>4 DEF ListsAreTrue


\* The five models that run side by side are each what the module says it is.
THEOREM PartsRun ==
  PartSpec => Spec /\ Projection!Spec /\ Screen!Spec /\ ServerSpec /\ DirectorySpec
<1>1. PartInit => Init /\ Projection!Init /\ Screen!Init /\ ServerInit /\ DirectoryInit
  BY DEF PartInit
<1>2. [PartNext]_PartVars =>
        /\ [Next]_vars /\ [Projection!Next]_(Projection!vars) /\ [Screen!Next]_(Screen!vars)
        /\ [ServerNext]_serverVars /\ [DirectoryNext]_directoryVars
  <2> SUFFICES ASSUME [PartNext]_PartVars
               PROVE  /\ Next \/ UNCHANGED vars
                      /\ Projection!Next \/ UNCHANGED projectionVars
                      /\ Screen!Next \/ UNCHANGED screenVars
                      /\ ServerNext \/ UNCHANGED serverVars
                      /\ DirectoryNext \/ UNCHANGED directoryVars
    BY DEF Screen!vars, screenVars, Projection!vars, Projection!livesVars, Projection!hostVars,
       Projection!clientVars, projectionVars
  <2> QED
    BY DEF PartNext, PartVars
<1> QED
  BY <1>1, <1>2, PTL DEF PartSpec, Spec, Projection!Spec, Screen!Spec, ServerSpec, DirectorySpec

\* Every variable of the host, the projection and the endpoint keeps its type (service.rs:31-60,
\* terminalClientRuntime.ts:115-128, control.rs:322-355).
THEOREM TerminalsTypeCorrect == PartSpec => []TypesOK
<1>1. ProjectionInv => Projection!TypeOK
  BY DEF ProjectionInv, ProjectionTypes
<1>2. PartSpec => [](TypeOK /\ Projection!TypeOK /\ ServerTypeOK /\ DirectoryTypeOK)
  BY <1>1, PartsRun, HostTypeCorrect, ProjectionInvariant, ServerTypeCorrect,
     DirectoryTypeCorrect, PTL
<1> QED
  BY <1>2, PTL DEF TypesOK
=============================================================================
