---------------------------- MODULE ModuleRegistry ----------------------------
(***************************************************************************)
(* The durable tables of the module registry (module_control/registry) and *)
(* the transactions on them.                                               *)
(*                                                                         *)
(* A transaction of SQLite is one step.  Every change of a desired row is  *)
(* computed from a snapshot that was read in a step before: by the running *)
(* host (live.rs), by the headless commands (cli/src/headless_kernel.rs)   *)
(* and by the selection of bundled artifacts at the start of the host      *)
(* (src-tauri/src/modules/bundled.rs).  An archive stands for its content  *)
(* digest.                                                                 *)
(***************************************************************************)
EXTENDS Naturals

CONSTANTS
  Module,       \* module ids
  Archive,      \* the artifacts, one for each content digest
  ModuleOf,     \* the module that an artifact declares
  VersionOf,    \* and its version
  UserRequest,  \* request ids of user installations, each used once
  MaxEdits,     \* model bound on edits by the user
  None,         \* no selection: the tombstone of a removed module
  Builtin       \* the selection of a static module

ASSUME RegistryAssumption ==
  /\ ModuleOf \in [Archive -> Module]
  /\ DOMAIN VersionOf = Archive
  /\ MaxEdits \in Nat
  /\ UserRequest \cap Archive = {}
  /\ None \notin Archive /\ Builtin \notin Archive /\ None # Builtin

VARIABLES
  catalog,  \* of an artifact: the sources that registered it
  intents,  \* of a request: its pending installation
  receipts, \* of a request: its completed installation
  static,   \* the static inventory: modules that are part of the build
  desired,  \* of a module: the row of its desired state
  edit,     \* of a writer of desired rows: what it read and what it will commit
  choice,   \* history: of a module, what its user committed last
  edits     \* how many edits the user made

registryVars == << catalog, intents, receipts, static, desired, edit, choice, edits >>

Source == {"user", "bundled"}
Writer == {"live", "headless", "seed"}

\* A bundled installation has the digest of its archive as its request.
Request == Archive \cup UserRequest

Selection == Archive \cup {None, Builtin}
Row == [selected : Selection, enabled : BOOLEAN, config : Nat]
NoRow == [selected |-> None, enabled |-> FALSE, config |-> 0]
NoIntent == [archive |-> None, source |-> "user"]
NoReceipt == [archive |-> None, selected |-> FALSE]
NoEdit == [module |-> None, base |-> NoRow, row |-> NoRow]
NoChoice == [selected |-> None, enabled |-> TRUE]

Registered(a) == catalog[a] # {}
Pending == {r \in Request : intents[r] # NoIntent}
Installed(r) == receipts[r] # NoReceipt

-----------------------------------------------------------------------------
(***************************************************************************)
(* Installation: intent, registration, receipt.                            *)
(***************************************************************************)

BeginIntent(r, a, s) ==
  /\ intents' = [intents EXCEPT ![r] = [archive |-> a, source |-> s]]
  /\ UNCHANGED << catalog, receipts, static, desired, edit, choice, edits >>

ClearIntent(r) ==
  /\ intents' = [intents EXCEPT ![r] = NoIntent]
  /\ UNCHANGED << catalog, receipts, static, desired, edit, choice, edits >>

\* A version of a module is bound to one content, except among artifacts that
\* only the host's own bundles brought.
Conflicts(a, s) ==
  \E b \in Archive \ {a} :
    /\ Registered(b) /\ ModuleOf[b] = ModuleOf[a] /\ VersionOf[b] = VersionOf[a]
    /\ ~ (s = "bundled" /\ catalog[b] = {"bundled"})

\* An installed module that has no row yet gets one, disabled.
SelectsByInstall(a) == desired[ModuleOf[a]] = NoRow /\ ModuleOf[a] \notin static

\* Mutant: the intent is cleared before the receipt is written from it.
FinalizeIntentLate(r) ==
  LET a == intents[r].archive
      s == intents[r].source
  IN /\ ~ Conflicts(a, s)
     /\ catalog' = [catalog EXCEPT ![a] = @ \cup {s}]
     /\ desired' = IF SelectsByInstall(a)
                   THEN [desired EXCEPT ![ModuleOf[a]] =
                           [selected |-> a, enabled |-> FALSE, config |-> 1]]
                   ELSE desired
     /\ intents' = [intents EXCEPT ![r] = NoIntent]
     /\ receipts' = [receipts EXCEPT ![r] =
                       [archive |-> intents'[r].archive, selected |-> SelectsByInstall(a)]]
     /\ UNCHANGED << static, edit, choice, edits >>

\* The artifact, its row, the receipt and the end of the intent are one
\* transaction.
FinalizeIntent(r) ==
  LET a == intents[r].archive
      s == intents[r].source
  IN /\ ~ Conflicts(a, s)
     /\ catalog' = [catalog EXCEPT ![a] = @ \cup {s}]
     /\ desired' = IF SelectsByInstall(a)
                   THEN [desired EXCEPT ![ModuleOf[a]] =
                           [selected |-> a, enabled |-> FALSE, config |-> 1]]
                   ELSE desired
     /\ receipts' = [receipts EXCEPT ![r] =
                       [archive |-> a, selected |-> SelectsByInstall(a)]]
     /\ intents' = [intents EXCEPT ![r] = NoIntent]
     /\ UNCHANGED << static, edit, choice, edits >>

\* At its start a host replaces the inventory by that of its build, and leaves
\* everything else.
SeedInventory(S) ==
  /\ static' = S
  /\ UNCHANGED << catalog, intents, receipts, desired, edit, choice, edits >>

-----------------------------------------------------------------------------
(***************************************************************************)
(* Desired state: a snapshot is read, a row computed, and the row committed*)
(* if no other commit came between.                                        *)
(***************************************************************************)

\* What a read-time snapshot says of a module: its row, or the default of a
\* static module, which has never been written.
Effective(m) ==
  IF desired[m] = NoRow /\ m \in static
  THEN [selected |-> Builtin, enabled |-> TRUE, config |-> 0]
  ELSE desired[m]

Known(m) == desired[m] # NoRow \/ m \in static

\* The selections and switches that a live transition can ask for.
Transitions(m) ==
  LET now == Effective(m) IN
    {[selected |-> now.selected, enabled |-> e] : e \in BOOLEAN}
      \cup {[selected |-> None, enabled |-> FALSE] : x \in {m} \cap {n \in Module : desired[n] # NoRow}}
      \cup {[selected |-> a, enabled |-> now.enabled] :
              a \in {b \in Archive : Registered(b) /\ ModuleOf[b] = m}}

\* A writer holds the row that it read and the one that it will commit.
Plan(w, m, selected, enabled) ==
  /\ edit[w] = NoEdit
  /\ edit' = [edit EXCEPT ![w] =
       [module |-> m, base |-> desired[m],
        row |-> [selected |-> selected, enabled |-> enabled,
                 config |-> Effective(m).config + 1]]]
  /\ UNCHANGED << catalog, intents, receipts, static, desired, choice >>

\* transition_module up to its commit.
ReadLive(m) ==
  /\ edits < MaxEdits /\ edits' = edits + 1
  /\ Known(m)
  /\ \E t \in Transitions(m) :
       /\ t.enabled => t.selected # None
       /\ t # [selected |-> Effective(m).selected, enabled |-> Effective(m).enabled]
       /\ Plan("live", m, t.selected, t.enabled)

\* set_enabled of the headless commands: only a written row can be switched.
ReadHeadless(m) ==
  /\ edits < MaxEdits /\ edits' = edits + 1
  /\ desired[m].selected # None
  /\ Plan("headless", m, desired[m].selected, ~ desired[m].enabled)

\* Mutant: a removed module looks new.
EnablesInitialAlsoRemoved(a) ==
  LET row == desired[ModuleOf[a]] IN
    \/ row.selected = None
    \/ row.selected = a /\ receipts[a].selected /\ ~ row.enabled /\ row.config = 1

\* The policy for a bundled artifact that was just installed under request a.
EnablesInitial(a) ==
  LET row == desired[ModuleOf[a]] IN
    \/ row = NoRow
    \/ row.selected = a /\ receipts[a].selected /\ ~ row.enabled /\ row.config = 1

ReplacesBundled(a) ==
  LET row == desired[ModuleOf[a]] IN
    /\ row # NoRow /\ row.selected \notin {None, a}
    /\ row.selected # Builtin => catalog[row.selected] = {"bundled"}

ReadSeed(a) ==
  /\ \/ EnablesInitial(a) /\ Plan("seed", ModuleOf[a], a, TRUE)
     \/ ReplacesBundled(a) /\ Plan("seed", ModuleOf[a], a, desired[ModuleOf[a]].enabled)
  /\ UNCHANGED edits

Keeps(a) == ~ EnablesInitial(a) /\ ~ ReplacesBundled(a)

\* Mutant: the commit replaces whatever row it finds.
FollowsAnything(w) == edit[w].row.config > 0

\* validate_mutation: the configuration revision must follow the stored one.
Follows(w) == edit[w].row.config = desired[edit[w].module].config + 1

Commit(w) ==
  /\ edit[w] # NoEdit /\ Follows(w)
  /\ desired' = [desired EXCEPT ![edit[w].module] = edit[w].row]
  /\ choice' = IF w = "seed" THEN choice
               ELSE [choice EXCEPT ![edit[w].module] =
                       [selected |-> edit[w].row.selected, enabled |-> edit[w].row.enabled]]
  /\ edit' = [edit EXCEPT ![w] = NoEdit]
  /\ UNCHANGED << catalog, intents, receipts, static, edits >>

Reject(w) ==
  /\ edit[w] # NoEdit /\ ~ Follows(w)
  /\ edit' = [edit EXCEPT ![w] = NoEdit]
  /\ UNCHANGED << catalog, intents, receipts, static, desired, choice, edits >>

\* The process of the writers W ends before they commit.
DropEdits(W) ==
  /\ edit' = [w \in Writer |-> IF w \in W THEN NoEdit ELSE edit[w]]
  /\ UNCHANGED << catalog, intents, receipts, static, desired, choice, edits >>

RegistryInit ==
  /\ catalog = [a \in Archive |-> {}]
  /\ intents = [r \in Request |-> NoIntent]
  /\ receipts = [r \in Request |-> NoReceipt]
  /\ static = {}
  /\ desired = [m \in Module |-> NoRow]
  /\ edit = [w \in Writer |-> NoEdit]
  /\ choice = [m \in Module |-> NoChoice]
  /\ edits = 0

RegistryTypeOK ==
  /\ catalog \in [Archive -> SUBSET Source]
  /\ intents \in [Request -> [archive : Archive, source : Source] \cup {NoIntent}]
  /\ receipts \in [Request -> [archive : Archive, selected : BOOLEAN] \cup {NoReceipt}]
  /\ static \subseteq Module
  /\ desired \in [Module -> Row]
  /\ edit \in [Writer -> [module : Module, base : Row, row : Row] \cup {NoEdit}]
  /\ choice \in [Module -> [selected : Selection, enabled : BOOLEAN]]
  /\ edits \in 0..MaxEdits
=============================================================================
