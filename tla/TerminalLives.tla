------------------------------ MODULE TerminalLives ------------------------------
(***************************************************************************)
(* What the host promises of its terminals to whoever projects them: a      *)
(* terminal is registered once and leaves once, its lifecycle only advances, *)
(* and every change of what a descriptor shows is a later revision.         *)
(* TerminalHost implements it; TerminalProjection relies on it.             *)
(***************************************************************************)
EXTENDS Naturals

CONSTANT Terminal  \* terminal ids, never used twice

VARIABLES
  born,     \* the terminals that were registered
  records,  \* those that are
  shown     \* of a terminal: what its descriptor shows

livesVars == << born, records, shown >>

\* The stages of a lifecycle: starting, running, closing, exited.
Stage == 1..4
Unborn == [stage |-> 1, rev |-> 0, exit |-> "none"]

Register(t) ==
  /\ t \notin born /\ born' = born \cup {t} /\ records' = records \cup {t}
  /\ UNCHANGED shown

\* An exit is final: what is revised after it keeps it.
Later(d, e) ==
  \/ e = d
  \/ /\ e.stage \in d.stage..4 /\ e.rev = d.rev + 1
     /\ d.stage = 4 => e.exit = d.exit

\* The shutdown revises several terminals, and takes all records, in one step.
Change ==
  /\ UNCHANGED born /\ records' \subseteq records
  /\ DOMAIN shown' = Terminal
  /\ \A t \in Terminal : Later(shown[t], shown'[t]) /\ (shown'[t] # shown[t] => t \in born)

LivesInit == born = {} /\ records = {} /\ shown = [t \in Terminal |-> Unborn]
LivesNext == Change \/ \E t \in Terminal : Register(t)
LivesSpec == LivesInit /\ [][LivesNext]_livesVars
=============================================================================
