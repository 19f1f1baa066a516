----------------------------- MODULE ModulesProofs -----------------------------
(***************************************************************************)
(* Proofs about what a module lives by: ModuleRegistry and                 *)
(* ArtifactRepository, for any modules, archives, versions and builds and  *)
(* any number of installations, edits, starts, crashes and faults; and     *)
(* MessageBridge and DeliveryFrames, for any modules, calls, identities,   *)
(* families, schedules, observers and finitely many deliveries.  Of the    *)
(* repository the invariant has a part for the tables, which only their    *)
(* transactions change, and one for the files and for the process that     *)
(* holds the lease.  Of the bridge it says where a message is: in the queue *)
(* of its route, in one frame or with the handlers, and that an identity   *)
(* has one request in flight.  Of the reports it says who numbered what is *)
(* under way.                                                              *)
(***************************************************************************)
EXTENDS MCModules, FiniteSetTheorems, SequenceTheorems, TLAPS
-----------------------------------------------------------------------------
(***************************************************************************)
(* The registry and the repository.                                        *)
(***************************************************************************)

\* A row was never written, or has a configuration revision.
RowCounted(row) == row.config = 0 <=> row = NoRow

\* The row of an edit follows the one that it was computed from, and that one is still
\* there unless a row with a later revision is.
EditsFollow ==
  \A w \in Writer : edit[w] # NoEdit =>
    LET now == desired[edit[w].module] IN
    /\ RowCounted(edit[w].base) /\ edit[w].row.config = edit[w].base.config + 1
    /\ edit[w].base.config <= now.config
    /\ edit[w].base.config = now.config => edit[w].base = now
    /\ w # "seed" /\ edit[w].base = NoRow => edit[w].row.selected = Builtin \/ edit[w].row.enabled

\* A module can select what is registered for it.
Selectable(m, s) == s \in Archive => Registered(s) /\ ModuleOf[s] = m

SelectionsStand ==
  /\ \A m \in Module : Selectable(m, desired[m].selected)
  /\ \A w \in Writer : edit[w] # NoEdit => Selectable(edit[w].module, edit[w].row.selected)

\* A bundled installation installs the archive that is its request; receipts tell what
\* was registered.
RequestsStand ==
  /\ \A a \in Archive : intents[a] # NoIntent => intents[a].archive = a
  /\ \A a \in Archive : Installed(a) => receipts[a].archive = a
  /\ \A r \in Request : Installed(r) => Registered(receipts[r].archive)

\* A selection is the one that the user chose, or one that took the place of a bundled one.
Descends(m, s) ==
  \/ s = choice[m].selected
  \/ choice[m].selected = Builtin
  \/ choice[m].selected \in Archive /\ "bundled" \in catalog[choice[m].selected]

\* What a user chose was written, and its first revision does not look as an installation
\* leaves a row: disabled, with an archive.
ChoicesStand ==
  \A m \in Module : choice[m] # NoChoice =>
    /\ desired[m] # NoRow
    /\ desired[m].config = 1 => desired[m].selected = Builtin \/ desired[m].enabled
    /\ desired[m].enabled = choice[m].enabled /\ Descends(m, desired[m].selected)

\* A start that commits its selection keeps what the user chose.
SeedsStand ==
  LET m == edit["seed"].module IN
  edit["seed"] # NoEdit /\ choice[m] # NoChoice /\ desired[m] = edit["seed"].base =>
    /\ edit["seed"].row.enabled = choice[m].enabled
    /\ Descends(m, edit["seed"].row.selected)

RegistryInv ==
  /\ RegistryTypeOK /\ (\A m \in Module : RowCounted(desired[m]))
  /\ EditsFollow /\ SelectionsStand /\ RequestsStand /\ ChoicesStand /\ SeedsStand

-----------------------------------------------------------------------------
\* An installation that holds the lease.
Installing ==
  [by : {"host", "user"},
   pc : {"recover", "lookup", "resume", "write", "publish", "finalize", "report"},
   request : Request, archive : Archive, source : Source, intent : Request \cup {None},
   todo : SUBSET Request]

RepositoryTypes ==
  /\ published \subseteq Archive /\ stage \in [Request -> StageState]
  /\ add \in Installing \cup {Idle}
  /\ drawn \subseteq UserRequest
  /\ host \in {"down", "seeding", "selecting", "committing", "up"}
  /\ left \subseteq Archive
  /\ chosen \in Archive \cup {None}
  /\ cause \in {"none", "io", "stage", "conflict", "pending", "raced"}
  /\ starts \in 0..MaxStarts /\ crashes \in 0..MaxCrashes /\ faults \in 0..MaxFaults

\* The intents that an installation has not looked at yet, and the one it resumes, are all
\* that there are; when it finalizes one, its payload is published and its stage gone.
AddStands ==
  /\ add.pc # "idle" => IF add.by = "host" THEN add.request = add.archive
                        ELSE add.request \in UserRequest
  /\ add.pc \in {"recover", "lookup"} => Pending = add.todo
  /\ add.pc = "lookup" => add.todo = {}
  /\ add.pc \in {"resume", "write", "publish", "finalize"} =>
       add.intent \in Request /\ Pending = add.todo \cup {add.intent}
  /\ add.pc = "finalize" => Resumed.archive \in published /\ stage[add.intent] = "none"
  /\ add.pc = "report" /\ add.by = "host" => Registered(add.archive)

\* What the host selects is registered.
ChosenStands == host = "selecting" => chosen \in Archive /\ Registered(chosen)

FilesStand ==
  /\ \A a \in Archive : Registered(a) => a \in published
  /\ NothingOrphaned

RepositoryInv ==
  RegistryInv /\ RepositoryTypes /\ AddStands /\ ChosenStands /\ FilesStand

-----------------------------------------------------------------------------
(***************************************************************************)
(* The tables.                                                             *)
(***************************************************************************)

\* What the assumptions say of the names that stand for nothing.
LEMMA RegistryNames ==
  /\ None \notin Archive /\ Builtin \notin Archive /\ None # Builtin
  /\ Archive \subseteq Request /\ UserRequest \subseteq Request
  /\ \A r \in UserRequest : r \notin Archive
  /\ \A a \in Archive : ModuleOf[a] \in Module
  /\ NoRow \in Row /\ NoRow.selected = None /\ NoRow.config = 0 /\ ~ NoRow.enabled
  /\ \A i \in [archive : Archive, source : Source] : i # NoIntent
  /\ \A i \in [archive : Archive, selected : BOOLEAN] : i # NoReceipt
  /\ \A e \in [module : Module, base : Row, row : Row] : e.row.config > 0 => e # NoEdit
  BY RegistryAssumption DEF Request, NoRow, Row, Selection, NoIntent, NoReceipt, NoEdit

\* The types of the tables, part by part.
LEMMA TableTypes ==
  ASSUME RegistryTypeOK
  PROVE  /\ \A a \in Archive : catalog[a] \subseteq Source
         /\ \A r \in Request : /\ intents[r] = NoIntent \/ intents[r] \in [archive : Archive, source : Source]
                               /\ receipts[r] = NoReceipt \/ receipts[r] \in [archive : Archive, selected : BOOLEAN]
         /\ \A m \in Module : /\ desired[m] \in Row /\ desired[m].config \in Nat
                              /\ desired[m].selected \in Selection /\ desired[m].enabled \in BOOLEAN
                              /\ choice[m].selected \in Selection /\ choice[m].enabled \in BOOLEAN
         /\ \A w \in Writer : edit[w] # NoEdit =>
              /\ edit[w] \in [module : Module, base : Row, row : Row] /\ edit[w].module \in Module
              /\ edit[w].base \in Row /\ edit[w].row \in Row
              /\ edit[w].base.config \in Nat /\ edit[w].row.config \in Nat
              /\ edit[w].row.selected \in Selection /\ edit[w].row.enabled \in BOOLEAN
  BY DEF RegistryTypeOK, Row

\* Intents and receipts concern neither rows nor edits.
LEMMA RowsStay ==
  ASSUME RegistryInv, UNCHANGED << desired, edit, choice >>,
         \A a \in Archive : catalog[a] \subseteq catalog'[a]
  PROVE  /\ \A m \in Module : RowCounted(desired'[m])
         /\ EditsFollow' /\ SelectionsStand' /\ ChoicesStand' /\ SeedsStand'
<1> USE DEF RegistryInv
<1>1. \A m \in Module : \A s : Descends(m, s) => Descends(m, s)'
  BY DEF Descends
<1>2. \A m, s : Selectable(m, s) => Selectable(m, s)'
  BY DEF Selectable, Registered
<1>3. EditsFollow'
  BY DEF EditsFollow
<1>4. SelectionsStand'
  BY <1>2 DEF SelectionsStand
<1>5. ChoicesStand'
  BY <1>1 DEF ChoicesStand
<1>6. SeedsStand'
  <2>1. edit["seed"] # NoEdit => edit["seed"].module \in Module
    BY TableTypes DEF Writer
  <2> QED
    BY <1>1, <2>1 DEF SeedsStand
<1> QED
  BY <1>3, <1>4, <1>5, <1>6

\* An intent is written, or cleared.
LEMMA IntentKeeps ==
  ASSUME RegistryInv, NEW r \in Request,
         \/ ClearIntent(r)
         \/ \E a \in Archive, s \in Source : BeginIntent(r, a, s) /\ (r \in Archive => a = r)
  PROVE  RegistryInv'
<1> USE DEF RegistryInv
<1>1. /\ UNCHANGED << catalog, receipts, static, desired, edit, choice, edits >>
      /\ intents' \in [Request -> [archive : Archive, source : Source] \cup {NoIntent}]
      /\ \A x \in Request \ {r} : intents'[x] = intents[x]
      /\ r \in Archive /\ intents'[r] # NoIntent => intents'[r].archive = r
  BY DEF ClearIntent, BeginIntent, RegistryTypeOK
<1>2. RegistryTypeOK'
  BY <1>1 DEF RegistryTypeOK
<1>3. RequestsStand'
  BY <1>1, RegistryNames DEF RequestsStand, Installed, Registered
<1> QED
  BY <1>1, <1>2, <1>3, RowsStay

\* The artifact of an intent is registered, and a module that has no row gets one.
LEMMA FinalizeKeeps ==
  ASSUME RegistryInv, NEW r \in Request, intents[r] # NoIntent, FinalizeIntent(r)
  PROVE  RegistryInv'
<1> USE DEF RegistryInv
<1> DEFINE a == intents[r].archive
           s == intents[r].source
           m == ModuleOf[a]
<1>1. a \in Archive /\ s \in Source /\ m \in Module
  BY TableTypes, RegistryNames
<1>2. /\ catalog' = [catalog EXCEPT ![a] = @ \cup {s}]
      /\ desired' = IF SelectsByInstall(a)
                    THEN [desired EXCEPT ![m] = [selected |-> a, enabled |-> FALSE, config |-> 1]]
                    ELSE desired
      /\ receipts' = [receipts EXCEPT ![r] = [archive |-> a, selected |-> SelectsByInstall(a)]]
      /\ intents' = [intents EXCEPT ![r] = NoIntent]
      /\ UNCHANGED << static, edit, choice, edits >>
  BY DEF FinalizeIntent
<1>3. /\ catalog' \in [Archive -> SUBSET Source] /\ \A b \in Archive : catalog[b] \subseteq catalog'[b]
      /\ catalog'[a] # {} /\ \A b \in Archive : Registered(b) => Registered(b)'
  <2>1. /\ catalog' \in [Archive -> SUBSET Source] /\ \A b \in Archive : catalog[b] \subseteq catalog'[b]
        /\ s \in catalog'[a]
    BY <1>1, <1>2 DEF RegistryTypeOK
  <2> QED
    BY <2>1 DEF Registered
<1>4. PICK new : new = [selected |-> a, enabled |-> FALSE, config |-> 1]
  OBVIOUS
<1>5. new \in Row /\ new.selected = a /\ new.config = 1 /\ ~ new.enabled /\ new # NoRow
  BY <1>1, <1>4 DEF Row, Selection, NoRow
<1>6. /\ desired' \in [Module -> Row]
      /\ \A n \in Module : desired'[n] = desired[n] \/ (desired[n] = NoRow /\ desired'[n] = new /\ n = m)
  BY <1>1, <1>2, <1>4, <1>5 DEF RegistryTypeOK, SelectsByInstall
<1>7. RegistryTypeOK'
  <2>1. SelectsByInstall(a) \in BOOLEAN
    BY DEF SelectsByInstall
  <2>2. receipts' \in [Request -> [archive : Archive, selected : BOOLEAN] \cup {NoReceipt}]
    BY <1>1, <1>2, <2>1 DEF RegistryTypeOK
  <2>3. intents' \in [Request -> [archive : Archive, source : Source] \cup {NoIntent}]
    BY <1>2 DEF RegistryTypeOK
  <2> QED
    BY <1>2, <1>3, <1>6, <2>2, <2>3 DEF RegistryTypeOK
<1>8. \A n \in Module : RowCounted(desired'[n])
  BY <1>5, <1>6 DEF RowCounted
<1>9. EditsFollow'
  <2> SUFFICES ASSUME NEW w \in Writer, edit[w] # NoEdit
               PROVE  LET now == desired'[edit[w].module] IN
                      /\ RowCounted(edit[w].base) /\ edit[w].row.config = edit[w].base.config + 1
                      /\ edit[w].base.config <= now.config
                      /\ edit[w].base.config = now.config => edit[w].base = now
                      /\ w # "seed" /\ edit[w].base = NoRow => edit[w].row.selected = Builtin \/ edit[w].row.enabled
    BY <1>2 DEF EditsFollow
  <2>1. edit[w].module \in Module /\ edit[w].base.config \in Nat
    BY TableTypes
  <2>2. CASE desired'[edit[w].module] = desired[edit[w].module]
    BY <2>2 DEF EditsFollow
  <2>3. CASE desired[edit[w].module] = NoRow /\ desired'[edit[w].module] = new
    BY <1>5, <2>1, <2>3, RegistryNames DEF EditsFollow
  <2> QED
    BY <1>6, <2>1, <2>2, <2>3
<1>10. SelectionsStand'
  <2>1. \A n, x : Selectable(n, x) => Selectable(n, x)'
    BY <1>3 DEF Selectable
  <2>3. (\A n \in Module : Selectable(n, desired[n].selected))'
    <3> SUFFICES ASSUME NEW n \in Module PROVE Selectable(n, desired[n].selected)'
      OBVIOUS
    <3>1. CASE desired'[n] = desired[n]
      BY <2>1, <3>1 DEF SelectionsStand, Selectable
    <3>2. CASE desired'[n] = new /\ n = m
      BY <1>3, <1>5, <3>2 DEF Selectable, Registered
    <3> QED
      BY <1>6, <3>1, <3>2
  <2>4. (\A w \in Writer : edit[w] # NoEdit => Selectable(edit[w].module, edit[w].row.selected))'
    BY ZenonT(60), <1>2, <2>1 DEF SelectionsStand, Selectable
  <2> QED
    BY <2>3, <2>4 DEF SelectionsStand
<1>11. RequestsStand'
  <2>1. /\ intents'[r] = NoIntent /\ receipts'[r].archive = a
        /\ \A x \in Request \ {r} : intents'[x] = intents[x] /\ receipts'[x] = receipts[x]
    BY <1>2 DEF RegistryTypeOK
  <2>2. r \in Archive => a = r
    BY DEF RequestsStand
  <2>3. \A x \in Request \ {r} : Installed(x)' => Installed(x)
    BY <2>1 DEF Installed
  <2>4. (\A b \in Archive : intents[b] # NoIntent => intents[b].archive = b)'
    BY <2>1, RegistryNames DEF RequestsStand
  <2>5. (\A b \in Archive : Installed(b) => receipts[b].archive = b)'
    BY <2>1, <2>2, <2>3, RegistryNames DEF RequestsStand
  <2>6. (\A x \in Request : Installed(x) => Registered(receipts[x].archive))'
    <3> SUFFICES ASSUME NEW x \in Request, Installed(x)' PROVE Registered(receipts[x].archive)'
      OBVIOUS
    <3>1. CASE x = r
      BY <1>3, <2>1, <3>1 DEF Registered
    <3>2. CASE x # r
      <4>1. Installed(x) /\ receipts'[x] = receipts[x]
        BY <2>1, <2>3, <3>2
      <4>2. receipts[x].archive \in Archive /\ Registered(receipts[x].archive)
        BY <4>1, TableTypes DEF Installed, RequestsStand
      <4> QED
        BY <1>3, <4>1, <4>2 DEF Registered
    <3> QED
      BY <3>1, <3>2
  <2> QED
    BY <2>4, <2>5, <2>6 DEF RequestsStand
<1>12. \A n \in Module : choice[n] # NoChoice => desired'[n] = desired[n]
  BY <1>6 DEF ChoicesStand
<1>13. \A n \in Module : \A x : Descends(n, x) => Descends(n, x)'
  BY <1>2, <1>3 DEF Descends
<1>14. ChoicesStand'
  BY <1>2, <1>12, <1>13 DEF ChoicesStand
<1>15. SeedsStand'
  <2>1. edit["seed"] # NoEdit => edit["seed"].module \in Module
    BY TableTypes DEF Writer
  <2> QED
    BY <1>2, <1>12, <1>13, <2>1 DEF SeedsStand
<1> QED
  BY <1>7, <1>8, <1>9, <1>10, <1>11, <1>14, <1>15

\* A host that starts replaces its inventory.
LEMMA InventoryKeeps ==
  ASSUME RegistryInv, NEW S \in SUBSET Module, SeedInventory(S)
  PROVE  RegistryInv'
<1> USE DEF RegistryInv
<1>1. RegistryTypeOK' /\ RequestsStand'
  BY DEF SeedInventory, RegistryTypeOK, RequestsStand, Installed, Registered
<1> QED
  BY <1>1, RowsStay DEF SeedInventory

\* A row is computed from the one that is there.
LEMMA PlanKeeps ==
  ASSUME RegistryInv, NEW w \in Writer, NEW m \in Module, NEW selected \in Selection,
         NEW enabled \in BOOLEAN, Plan(w, m, selected, enabled), edits' \in 0..MaxEdits,
         Selectable(m, selected),
         w # "seed" /\ desired[m] = NoRow => selected = Builtin \/ enabled,
         w = "seed" /\ choice[m] # NoChoice => enabled = choice[m].enabled /\ Descends(m, selected)
  PROVE  RegistryInv'
<1> USE DEF RegistryInv
<1> DEFINE row == [selected |-> selected, enabled |-> enabled, config |-> Effective(m).config + 1]
<1>1. Effective(m).config = desired[m].config
  BY RegistryNames DEF Effective, NoRow
<1>2. row \in Row /\ row.config = desired[m].config + 1 /\ desired[m] \in Row /\ desired[m].config \in Nat
  BY <1>1, TableTypes DEF Row
<1>3. PICK e : e = [module |-> m, base |-> desired[m], row |-> row]
  OBVIOUS
<1>4. /\ e \in [module : Module, base : Row, row : Row] /\ e.module = m /\ e.base = desired[m]
      /\ e.row = row /\ e.row.config > 0 /\ e # NoEdit
  <2>1. e \in [module : Module, base : Row, row : Row] /\ e.module = m /\ e.base = desired[m] /\ e.row = row
    BY <1>2, <1>3
  <2>2. e.row.config > 0
    BY <1>2, <2>1
  <2> QED
    BY <2>1, <2>2, RegistryNames
<1> HIDE DEF row
<1>5. /\ edit' = [edit EXCEPT ![w] = e]
      /\ UNCHANGED << catalog, intents, receipts, static, desired, choice >>
  BY <1>3 DEF Plan, row
<1>6. edit'[w] = e /\ \A v \in Writer \ {w} : edit'[v] = edit[v]
  BY <1>5 DEF RegistryTypeOK
<1>7. RegistryTypeOK'
  BY <1>4, <1>5 DEF RegistryTypeOK
<1>8. e.row.selected = selected /\ e.row.enabled = enabled /\ e.row.config = e.base.config + 1
  BY <1>2, <1>4 DEF row
<1>9. EditsFollow'
  <2>1. RowCounted(e.base)
    BY <1>4
  <2>2. e.base.config <= desired[m].config /\ e.base = desired[m]
    BY <1>2, <1>4
  <2> QED
    BY <1>4, <1>5, <1>6, <1>8, <2>1, <2>2 DEF EditsFollow
<1>10. SelectionsStand'
  BY ZenonT(60), <1>4, <1>5, <1>6, <1>8 DEF SelectionsStand, Selectable, Registered
<1>11. RequestsStand' /\ ChoicesStand' /\ \A n \in Module : RowCounted(desired'[n])
  BY <1>5 DEF RequestsStand, ChoicesStand, Descends, Installed, Registered
<1>12. SeedsStand'
  <2>1. \A n, x : Descends(n, x)' <=> Descends(n, x)
    BY <1>5 DEF Descends
  <2>2. CASE w = "seed"
    BY <1>4, <1>5, <1>6, <1>8, <2>1, <2>2 DEF SeedsStand
  <2>3. CASE w # "seed"
    <3>1. edit'["seed"] = edit["seed"]
      BY <1>6, <2>3 DEF Writer
    <3> QED
      BY <1>5, <2>1, <3>1 DEF SeedsStand
  <2> QED
    BY <2>2, <2>3
<1> QED
  BY <1>7, <1>9, <1>10, <1>11, <1>12

\* A live transition, the switch of a command line or the selection of a start is planned.
LEMMA ReadKeeps ==
  ASSUME RegistryInv, NEW m \in Module, ReadLive(m) \/ ReadHeadless(m)
  PROVE  RegistryInv'
<1> USE DEF RegistryInv
<1>1. edits' \in 0..MaxEdits
  BY RegistryAssumption DEF RegistryTypeOK, ReadLive, ReadHeadless
<1>2. /\ desired[m].selected \in Selection /\ desired[m].enabled \in BOOLEAN
      /\ Selectable(m, desired[m].selected) /\ desired[m] \in Row
  BY TableTypes DEF SelectionsStand
<1>3. CASE ReadLive(m)
  <2>1. PICK t \in Transitions(m) :
          /\ t.enabled => t.selected # None
          /\ t # [selected |-> Effective(m).selected, enabled |-> Effective(m).enabled]
          /\ Plan("live", m, t.selected, t.enabled)
    BY <1>3 DEF ReadLive
  <2>2. Known(m)
    BY <1>3 DEF ReadLive
  <2>3. /\ Effective(m).selected \in Selection /\ Effective(m).enabled \in BOOLEAN
        /\ Selectable(m, Effective(m).selected)
        /\ desired[m] = NoRow => Effective(m).selected = Builtin /\ Effective(m).enabled
    BY <1>2, <2>2, RegistryNames DEF Effective, Known, Selection, Selectable
  <2>4. /\ t.selected \in Selection /\ t.enabled \in BOOLEAN /\ Selectable(m, t.selected)
        /\ desired[m] = NoRow => t.selected = Builtin \/ t.enabled
    <3>1. CASE t \in {[selected |-> Effective(m).selected, enabled |-> e] : e \in BOOLEAN}
      BY <2>3, <3>1
    <3>2. CASE desired[m] # NoRow /\ t = [selected |-> None, enabled |-> FALSE]
      BY <3>2, RegistryNames DEF Selection, Selectable
    <3>3. CASE t \in {[selected |-> a, enabled |-> Effective(m).enabled] :
                        a \in {b \in Archive : Registered(b) /\ ModuleOf[b] = m}}
      BY <2>3, <3>3 DEF Selection, Selectable
    <3> QED
      BY <3>1, <3>2, <3>3 DEF Transitions
  <2> QED
    BY <1>1, <2>1, <2>4, PlanKeeps DEF Writer
<1>4. CASE ReadHeadless(m)
  <2>1. desired[m].selected # None /\ Plan("headless", m, desired[m].selected, ~ desired[m].enabled)
    BY <1>4 DEF ReadHeadless
  <2>2. desired[m] # NoRow /\ (~ desired[m].enabled) \in BOOLEAN
    BY <2>1, RegistryNames
  <2> QED
    BY <1>1, <1>2, <2>1, <2>2, PlanKeeps DEF Writer
<1> QED
  BY <1>3, <1>4

\* The selection of a start is planned: nobody chose what is initial, and what takes the
\* place of a bundled archive descends from it.
LEMMA SeedKeeps ==
  ASSUME RegistryInv, NEW a \in Archive, Registered(a), ReadSeed(a)
  PROVE  RegistryInv'
<1> USE DEF RegistryInv
<1> DEFINE m == ModuleOf[a]
<1>1. /\ m \in Module /\ a \in Selection /\ Selectable(m, a) /\ edits' \in 0..MaxEdits
      /\ desired[m].enabled \in BOOLEAN /\ desired[m].selected \in Selection
  BY RegistryNames, TableTypes DEF Selection, Selectable, ReadSeed, RegistryTypeOK
<1>2. CASE EnablesInitial(a) /\ Plan("seed", m, a, TRUE)
  <2>1. choice[m] = NoChoice
    BY <1>1, <1>2, RegistryNames DEF EnablesInitial, ChoicesStand
  <2> QED
    BY <1>1, <1>2, <2>1, PlanKeeps DEF Writer
<1>3. CASE ReplacesBundled(a) /\ Plan("seed", m, a, desired[m].enabled)
  <2>1. /\ desired[m] # NoRow /\ desired[m].selected # None
        /\ desired[m].selected # Builtin => catalog[desired[m].selected] = {"bundled"}
    BY <1>3 DEF ReplacesBundled
  <2>2. desired[m].selected = Builtin
        \/ (desired[m].selected \in Archive /\ "bundled" \in catalog[desired[m].selected])
    BY <1>1, <2>1 DEF Selection
  <2>3. choice[m] # NoChoice => desired[m].enabled = choice[m].enabled /\ Descends(m, a)
    BY <1>1, <2>2 DEF ChoicesStand, Descends
  <2> QED
    BY <1>1, <1>3, <2>1, <2>3, PlanKeeps DEF Writer
<1> QED
  BY <1>2, <1>3 DEF ReadSeed

\* Edits that are dropped or refused change no row.
LEMMA DropKeeps ==
  ASSUME RegistryInv, UNCHANGED << catalog, intents, receipts, static, desired, choice, edits >>,
         edit' \in [Writer -> [module : Module, base : Row, row : Row] \cup {NoEdit}],
         \A w \in Writer : edit'[w] = edit[w] \/ edit'[w] = NoEdit
  PROVE  RegistryInv'
<1> USE DEF RegistryInv
<1>1. RegistryTypeOK'
  BY DEF RegistryTypeOK
<1>2. EditsFollow'
  BY DEF EditsFollow
<1>3. SelectionsStand' /\ RequestsStand' /\ ChoicesStand'
  BY DEF SelectionsStand, RequestsStand, ChoicesStand, Selectable, Registered, Installed,
        Descends
<1>4. SeedsStand'
  <2>1. "seed" \in Writer
    BY DEF Writer
  <2> QED
    BY <2>1 DEF SeedsStand, Descends
<1> QED
  BY <1>1, <1>2, <1>3, <1>4

\* A row that is committed was computed from the one that it replaces.
LEMMA CommitFollows ==
  ASSUME RegistryInv, NEW w \in Writer, Commit(w)
  PROVE  /\ edit[w] # NoEdit /\ edit[w].module \in Module
         /\ desired[edit[w].module] = edit[w].base
         /\ edit[w].row.config = edit[w].base.config + 1 /\ edit[w].base.config \in Nat
<1>1. /\ edit[w] # NoEdit /\ edit[w].row.config = desired[edit[w].module].config + 1
  BY DEF Commit, Follows
<1>2. /\ edit[w].module \in Module /\ edit[w].base.config \in Nat
      /\ desired[edit[w].module].config \in Nat
  BY <1>1, TableTypes DEF RegistryInv
<1>3. edit[w].row.config = edit[w].base.config + 1
  BY <1>1 DEF RegistryInv, EditsFollow
<1>4. edit[w].base.config = desired[edit[w].module].config
  BY <1>1, <1>2, <1>3
<1> QED
  BY <1>1, <1>2, <1>3, <1>4 DEF RegistryInv, EditsFollow

\* A row is committed: what its user chose, or what a start selected.
LEMMA CommitKeeps ==
  ASSUME RegistryInv, NEW w \in Writer, Commit(w)
  PROVE  RegistryInv'
<1> USE DEF RegistryInv
<1>1. PICK m, row : m = edit[w].module /\ row = edit[w].row
  OBVIOUS
<1>2. /\ edit[w] # NoEdit /\ m \in Module /\ row \in Row /\ desired[m] = edit[w].base
      /\ row.config = desired[m].config + 1 /\ desired[m].config \in Nat
      /\ row.selected \in Selection /\ row.enabled \in BOOLEAN
  BY <1>1, CommitFollows, TableTypes
<1>3. /\ desired' = [desired EXCEPT ![m] = row]
      /\ choice' = IF w = "seed" THEN choice
                   ELSE [choice EXCEPT ![m] = [selected |-> row.selected, enabled |-> row.enabled]]
      /\ edit' = [edit EXCEPT ![w] = NoEdit]
      /\ UNCHANGED << catalog, intents, receipts, static, edits >>
  BY <1>1 DEF Commit
<1>4. /\ desired'[m] = row /\ \A n \in Module \ {m} : desired'[n] = desired[n]
      /\ edit'[w] = NoEdit /\ \A v \in Writer \ {w} : edit'[v] = edit[v]
      /\ \A n \in Module \ {m} : choice'[n] = choice[n]
      /\ w = "seed" => choice'[m] = choice[m]
      /\ w # "seed" => choice'[m].selected = row.selected /\ choice'[m].enabled = row.enabled
  BY <1>2, <1>3 DEF RegistryTypeOK
<1>5. RegistryTypeOK'
  <2>1. choice' \in [Module -> [selected : Selection, enabled : BOOLEAN]]
    BY <1>2, <1>3 DEF RegistryTypeOK
  <2> QED
    BY <1>2, <1>3, <2>1 DEF RegistryTypeOK
<1>6. row # NoRow /\ row.config # 0 /\ RowCounted(row)
  BY <1>2, RegistryNames DEF RowCounted
<1>7. \A n \in Module : RowCounted(desired'[n])
  BY <1>4, <1>6
<1>8. EditsFollow'
  <2> SUFFICES ASSUME NEW v \in Writer, v # w, edit[v] # NoEdit
               PROVE  LET now == desired'[edit[v].module] IN
                      /\ RowCounted(edit[v].base) /\ edit[v].row.config = edit[v].base.config + 1
                      /\ edit[v].base.config <= now.config
                      /\ edit[v].base.config = now.config => edit[v].base = now
                      /\ v # "seed" /\ edit[v].base = NoRow => edit[v].row.selected = Builtin \/ edit[v].row.enabled
    BY <1>4 DEF EditsFollow
  <2>1. edit[v].module \in Module /\ edit[v].base.config \in Nat
    BY TableTypes
  <2>2. CASE edit[v].module # m
    BY <1>4, <2>1, <2>2 DEF EditsFollow
  <2>3. CASE edit[v].module = m
    <3>1. edit[v].base.config <= desired[m].config
      BY <2>3 DEF EditsFollow
    <3>2. edit[v].base.config < row.config
      BY <1>2, <2>1, <3>1
    <3> QED
      BY <1>2, <1>4, <2>1, <2>3, <3>2 DEF EditsFollow
  <2> QED
    BY <2>2, <2>3
<1>9. SelectionsStand'
  <2>1. \A n, s : Selectable(n, s)' <=> Selectable(n, s)
    BY <1>3 DEF Selectable, Registered
  <2>2. Selectable(m, row.selected)
    BY <1>1, <1>2 DEF SelectionsStand
  <2>3. (\A n \in Module : Selectable(n, desired[n].selected))'
    BY <1>4, <2>1, <2>2 DEF SelectionsStand, Selectable
  <2>4. (\A v \in Writer : edit[v] # NoEdit => Selectable(edit[v].module, edit[v].row.selected))'
    BY <1>4, <2>1 DEF SelectionsStand, Selectable
  <2> QED
    BY <2>3, <2>4 DEF SelectionsStand
<1>10. RequestsStand'
  BY <1>3 DEF RequestsStand, Registered, Installed
<1>11. \A n \in Module \ {m} : \A s : Descends(n, s)' <=> Descends(n, s)
  BY <1>3, <1>4 DEF Descends
<1>12. /\ row.config = 1 /\ w # "seed" => row.selected = Builtin \/ row.enabled
       /\ row.config = 1 => desired[m] = NoRow
  BY <1>1, <1>2 DEF EditsFollow, RowCounted
<1>13. choice'[m] # NoChoice =>
         /\ row.config = 1 => row.selected = Builtin \/ row.enabled
         /\ row.enabled = choice'[m].enabled /\ Descends(m, row.selected)'
  <2>1. CASE w # "seed"
    BY <1>4, <1>12, <2>1 DEF Descends
  <2>2. CASE w = "seed"
    <3>1. SUFFICES ASSUME choice[m] # NoChoice
                   PROVE  /\ row.config = 1 => row.selected = Builtin \/ row.enabled
                          /\ row.enabled = choice[m].enabled /\ Descends(m, row.selected)'
      BY <1>4, <2>2
    <3>2. row.config # 1
      BY <1>2, <1>12, <3>1 DEF ChoicesStand
    <3>3. row.enabled = choice[m].enabled /\ Descends(m, row.selected)
      BY <1>1, <1>2, <2>2, <3>1 DEF SeedsStand
    <3> QED
      BY <1>3, <2>2, <3>2, <3>3 DEF Descends
  <2> QED
    BY <2>1, <2>2
<1>14. ChoicesStand'
  <2> SUFFICES ASSUME NEW n \in Module, choice'[n] # NoChoice
               PROVE  /\ desired'[n] # NoRow
                      /\ desired'[n].config = 1 => desired'[n].selected = Builtin \/ desired'[n].enabled
                      /\ desired'[n].enabled = choice'[n].enabled /\ Descends(n, desired[n].selected)'
    BY DEF ChoicesStand
  <2>1. CASE n = m
    BY <1>4, <1>6, <1>13, <2>1 DEF Descends
  <2>2. CASE n # m
    BY <1>3, <1>4, <2>2 DEF ChoicesStand, Descends
  <2> QED
    BY <2>1, <2>2
<1>15. SeedsStand'
  <2>1. CASE w = "seed"
    BY <1>4, <2>1 DEF SeedsStand
  <2>2. CASE w # "seed"
    <3>1. edit'["seed"] = edit["seed"] /\ "seed" \in Writer
      BY <1>4, <2>2 DEF Writer
    <3> SUFFICES ASSUME edit["seed"] # NoEdit
                 PROVE  SeedsStand'
      BY <3>1 DEF SeedsStand
    <3>2. edit["seed"].module \in Module /\ edit["seed"].base.config \in Nat
      BY <3>1, TableTypes
    <3>3. CASE edit["seed"].module = m
      <4>1. edit["seed"].base.config <= desired[m].config
        BY <3>1, <3>3 DEF EditsFollow
      <4>2. edit["seed"].base # row
        BY <1>2, <3>2, <4>1
      <4> QED
        BY <1>4, <3>1, <3>3, <4>2 DEF SeedsStand
    <3>4. CASE edit["seed"].module # m
      BY <1>4, <1>11, <3>1, <3>2, <3>4 DEF SeedsStand
    <3> QED
      BY <3>3, <3>4
  <2> QED
    BY <2>1, <2>2
<1> QED
  BY <1>5, <1>7, <1>8, <1>9, <1>10, <1>14, <1>15

-----------------------------------------------------------------------------
(***************************************************************************)
(* The files, and who holds the lease.                                     *)
(***************************************************************************)

\* Nobody holds the lease, or an installation does whose fields have their types.
LEMMA AddFacts ==
  ASSUME RepositoryTypes
  PROVE  /\ Idle.pc = "idle" /\ Idle.by = "nobody"
         /\ add.pc # "idle" =>
              /\ add \in Installing /\ add.by \in {"host", "user"} /\ add.request \in Request
              /\ add.archive \in Archive /\ add.source \in Source /\ add.todo \subseteq Request
         /\ add.by = "host" => add.pc # "idle"
  BY DEF RepositoryTypes, Installing, Idle

\* The tables rest.
LEMMA TablesRest ==
  ASSUME RegistryInv, UNCHANGED registryVars
  PROVE  RegistryInv'
<1>1. UNCHANGED << catalog, intents, receipts, static, desired, edit, choice, edits >>
  BY DEF registryVars
<1>2. \A w \in Writer : edit[w] = NoEdit \/ edit[w] \in [module : Module, base : Row, row : Row]
  BY DEF RegistryInv, RegistryTypeOK
<1> QED
  BY <1>1, <1>2, DropKeeps DEF RegistryInv, RegistryTypeOK

\* The catalog, the intents and the files rest.
LEMMA FilesRest ==
  ASSUME FilesStand, UNCHANGED << catalog, intents, published, stage >>
  PROVE  FilesStand'
  BY DEF FilesStand, NothingOrphaned, Registered, Pending

\* Whoever holds the lease rests too.
LEMMA AddRests ==
  ASSUME FilesStand, AddStands, UNCHANGED << catalog, intents, published, stage, add >>
  PROVE  FilesStand' /\ AddStands'
  BY FilesRest DEF AddStands, Registered, Pending, Resumed

\* An installation that fails, or whose process ends, leaves what it did.
LEMMA LeaseEnds ==
  ASSUME add' = Idle
  PROVE  AddStands' /\ add' \in Installing \cup {Idle}
  BY DEF AddStands, Idle

\* A start, an edit and the selection at a start.
LEMMA StartKeeps ==
  ASSUME RepositoryInv, StartHost
  PROVE  RepositoryInv'
<1> USE DEF RepositoryInv
<1>1. PICK b \in Build :
        /\ SeedInventory(b.static) /\ left' = b.archives
        /\ host' = IF b.archives = {} THEN "up" ELSE "seeding"
  BY DEF StartHost
<1>2. b.static \in SUBSET Module /\ b.archives \subseteq Archive
  BY RepositoryAssumption
<1>3. RegistryInv'
  BY <1>1, <1>2, InventoryKeeps
<1>4. starts' \in 0..MaxStarts
  BY RepositoryAssumption DEF StartHost, RepositoryTypes
<1>5. RepositoryTypes'
  BY <1>1, <1>2, <1>4 DEF RepositoryTypes, StartHost, payloadVars
<1>6. UNCHANGED << catalog, intents, published, stage, add >>
  BY <1>1 DEF SeedInventory, StartHost, payloadVars
<1>7. FilesStand' /\ AddStands'
  BY <1>6, AddRests
<1> QED
  BY <1>1, <1>3, <1>5, <1>7 DEF ChosenStands

\* The lease is taken: every pending intent is to be looked at.
LEMMA EnterKeeps ==
  ASSUME RepositoryInv, EnterHost \/ \E a \in Archive : EnterUser(a)
  PROVE  RepositoryInv'
<1> USE DEF RepositoryInv
<1>1. PICK who \in {"host", "user"}, r \in Request, a \in Archive, s \in Source :
        /\ Enter(who, r, a, s) /\ drawn' \subseteq UserRequest
        /\ IF who = "host" THEN r = a ELSE r \in UserRequest
  <2>1. CASE EnterHost
    <3>1. PICK a \in left : Enter("host", a, a, "bundled") /\ drawn' = drawn
      BY <2>1 DEF EnterHost
    <3>2. a \in Archive /\ a \in Request /\ "bundled" \in Source
      BY RegistryNames DEF RepositoryTypes, Source
    <3> QED
      BY <3>1, <3>2 DEF RepositoryTypes
  <2>2. CASE \E a \in Archive : EnterUser(a)
    <3>1. PICK a \in Archive, r \in UserRequest : Enter("user", r, a, "user") /\ drawn' = drawn \cup {r}
      BY <2>2 DEF EnterUser
    <3>2. r \in Request /\ "user" \in Source
      BY RegistryNames DEF Source
    <3> QED
      BY <3>1, <3>2 DEF RepositoryTypes
  <2> QED
    BY <2>1, <2>2
<1>2. PICK p : p = Pending /\ p \in SUBSET Request
  BY DEF Pending
<1>3. /\ add' \in Installing /\ add'.pc = "recover" /\ add'.by = who /\ add'.request = r
      /\ add'.archive = a /\ add'.todo = Pending
  <2> DEFINE Either == [by : {"nobody", "host", "user"}, pc : {"idle", "recover"},
                        request : Request \cup {None}, archive : Archive \cup {None},
                        source : Source, intent : Request \cup {None}, todo : SUBSET Request]
  <2>1. PICK d : d = Idle
    OBVIOUS
  <2>2. d \in Either
    BY <2>1 DEF Idle, Source
  <2>3. add' = [d EXCEPT !.by = who, !.pc = "recover", !.request = r, !.archive = a,
                         !.source = s, !.todo = p]
    BY <1>1, <1>2, <2>1 DEF Enter
  <2>4. PICK e : e = add'
    OBVIOUS
  <2>5. /\ e \in Either /\ e.pc = "recover" /\ e.by = who /\ e.request = r
        /\ e.archive = a /\ e.todo = p
    BY <1>2, <2>2, <2>3, <2>4
  <2>6. e \in Installing
    BY <2>5 DEF Installing
  <2> QED
    BY <1>2, <2>4, <2>5, <2>6
<1>4. UNCHANGED << registryVars, published, stage, host, left, chosen, cause, starts, crashes,
                   faults >>
  BY <1>1 DEF Enter, payloadVars, hostVars
<1>5. RegistryInv' /\ UNCHANGED << catalog, intents >>
  BY <1>4, TablesRest DEF registryVars
<1>6. RepositoryTypes'
  BY <1>1, <1>3, <1>4 DEF RepositoryTypes
<1>7. AddStands'
  BY <1>1, <1>3, <1>4, <1>5 DEF AddStands, Pending
<1>8. FilesStand' /\ ChosenStands'
  BY <1>4, <1>5, FilesRest DEF ChosenStands, Registered
<1> QED
  BY <1>5, <1>6, <1>7, <1>8

\* The next intent is looked at; when there is none, the request.
LEMMA RecoverKeeps ==
  ASSUME RepositoryInv, Recover
  PROVE  RepositoryInv'
<1> USE DEF RepositoryInv
<1>1. /\ add.pc = "recover" /\ add \in Installing
      /\ UNCHANGED << registryVars, published, stage, host, left, chosen, cause, starts, drawn,
                      crashes, faults >>
  BY AddFacts DEF Recover, payloadVars, hostVars
<1>2. RegistryInv' /\ UNCHANGED << catalog, intents >>
  BY <1>1, TablesRest DEF registryVars
<1>3. FilesStand' /\ ChosenStands' /\ Pending' = Pending
  BY <1>1, <1>2, FilesRest DEF ChosenStands, Registered, Pending
<1>4. Pending = add.todo
  BY <1>1 DEF AddStands
<1>5. add' \in Installing /\ AddStands'
  <2>1. CASE \E r \in add.todo : add' = [add EXCEPT !.pc = "resume", !.intent = r]
    <3>1. PICK r \in add.todo : add' = [add EXCEPT !.pc = "resume", !.intent = r]
      BY <2>1
    <3>2. /\ r \in Request /\ add' \in Installing /\ add'.pc = "resume" /\ add'.intent = r
          /\ add'.todo = add.todo /\ add'.by = add.by /\ add'.request = add.request
          /\ add'.archive = add.archive
      BY <1>1, <3>1 DEF Installing
    <3> QED
      BY <1>1, <1>3, <1>4, <3>2 DEF AddStands
  <2>2. CASE add.todo = {} /\ add' = [add EXCEPT !.pc = "lookup"]
    <3>1. /\ add' \in Installing /\ add'.pc = "lookup"
          /\ add'.todo = add.todo /\ add'.by = add.by /\ add'.request = add.request
          /\ add'.archive = add.archive
      BY <1>1, <2>2 DEF Installing
    <3> QED
      BY <1>1, <1>3, <1>4, <2>2, <3>1 DEF AddStands
  <2> QED
    BY <2>1, <2>2 DEF Recover
<1>6. RepositoryTypes'
  BY <1>1, <1>5 DEF RepositoryTypes
<1> QED
  BY <1>2, <1>3, <1>5, <1>6

\* The request was installed, or it is begun.
LEMMA LookupKeeps ==
  ASSUME RepositoryInv, Lookup
  PROVE  RepositoryInv'
<1> USE DEF RepositoryInv
<1>1. /\ add.pc = "lookup" /\ add \in Installing /\ Pending = {} /\ add.todo = {}
      /\ UNCHANGED << published, stage, host, left, chosen, cause, starts, drawn, crashes, faults >>
      /\ add.request \in Request /\ add.archive \in Archive /\ add.source \in Source
      /\ IF add.by = "host" THEN add.request = add.archive ELSE add.request \in UserRequest
  BY AddFacts DEF Lookup, AddStands, payloadVars, hostVars
<1>2. CASE Installed(add.request) /\ add' = [add EXCEPT !.pc = "report"] /\ UNCHANGED registryVars
  <2>1. RegistryInv' /\ UNCHANGED << catalog, intents >>
    BY <1>2, TablesRest DEF registryVars
  <2>2. /\ add' \in Installing /\ add'.pc = "report" /\ add'.by = add.by
        /\ add'.request = add.request /\ add'.archive = add.archive
    BY <1>1, <1>2 DEF Installing
  <2>3. add.by = "host" => Registered(add.archive)
    BY <1>1, <1>2 DEF RequestsStand, RegistryInv
  <2>4. AddStands'
    BY <1>1, <2>1, <2>2, <2>3 DEF AddStands, Registered
  <2>5. RepositoryTypes'
    BY <1>1, <2>2 DEF RepositoryTypes
  <2>6. FilesStand' /\ ChosenStands'
    BY <1>1, <2>1, FilesRest DEF ChosenStands, Registered
  <2> QED
    BY <2>1, <2>4, <2>5, <2>6
<1>3. CASE /\ add' = [add EXCEPT !.pc = "resume", !.intent = add.request]
           /\ BeginIntent(add.request, add.archive, add.source)
  <2>1. add.request \in Archive => add.archive = add.request
    BY <1>1, RegistryNames
  <2>2. RegistryInv'
    BY <1>1, <1>3, <2>1, IntentKeeps
  <2>3. catalog' = catalog /\ intents' = [intents EXCEPT ![add.request] =
                                            [archive |-> add.archive, source |-> add.source]]
    BY <1>3 DEF BeginIntent
  <2>4. /\ add' \in Installing /\ add'.pc = "resume" /\ add'.intent = add.request
        /\ add'.by = add.by /\ add'.request = add.request /\ add'.archive = add.archive
        /\ add'.todo = {}
    BY <1>1, <1>3 DEF Installing
  <2>5. /\ intents'[add.request] # NoIntent
        /\ \A r \in Request \ {add.request} : intents'[r] = intents[r]
    BY <1>1, <2>3, RegistryNames DEF RegistryInv, RegistryTypeOK
  <2>6. Pending' = {add.request}
    BY <1>1, <2>5 DEF Pending
  <2>7. AddStands'
    BY <1>1, <2>4, <2>6 DEF AddStands
  <2>8. RepositoryTypes'
    BY <1>1, <2>4 DEF RepositoryTypes
  <2>9. FilesStand' /\ ChosenStands'
    BY <1>1, <2>3, <2>5 DEF FilesStand, NothingOrphaned, Pending, ChosenStands, Registered
  <2> QED
    BY <2>2, <2>7, <2>8, <2>9
<1> QED
  BY <1>2, <1>3 DEF Lookup

\* What an installation is resuming.
LEMMA ResumedFacts ==
  ASSUME RepositoryInv, add.pc \in {"resume", "write", "publish", "finalize"}
  PROVE  /\ add \in Installing /\ add.intent \in Request /\ add.request \in Request
         /\ add.intent \in Pending /\ Pending = add.todo \cup {add.intent}
         /\ intents[add.intent] # NoIntent /\ Resumed.archive \in Archive
         /\ IF add.by = "host" THEN add.request = add.archive ELSE add.request \in UserRequest
<1> USE DEF RepositoryInv
<1>1. /\ add \in Installing /\ add.intent \in Request /\ add.request \in Request
      /\ Pending = add.todo \cup {add.intent}
      /\ IF add.by = "host" THEN add.request = add.archive ELSE add.request \in UserRequest
  BY AddFacts DEF AddStands
<1>2. add.intent \in Pending /\ intents[add.intent] # NoIntent
  BY <1>1 DEF Pending
<1> QED
  BY <1>1, <1>2, TableTypes DEF RegistryInv, Resumed

\* A step that goes on with the intent and changes at most its stage or its payload.
LEMMA WorkKeeps ==
  ASSUME RepositoryInv, add.pc \in {"resume", "write", "publish", "finalize"},
         NEW next \in {"write", "publish", "finalize"}, add' = [add EXCEPT !.pc = next],
         NEW st \in StageState, stage' = [stage EXCEPT ![add.intent] = st],
         published' = published \/ published' = published \cup {Resumed.archive},
         next = "finalize" => st = "none" /\ Resumed.archive \in published',
         UNCHANGED << registryVars, hostVars, drawn, crashes, faults >>
  PROVE  RepositoryInv'
<1> USE DEF RepositoryInv
<1>1. UNCHANGED << host, left, chosen, cause, starts, drawn, crashes, faults >>
  BY DEF hostVars
<1>2. RegistryInv' /\ UNCHANGED << catalog, intents >>
  BY TablesRest DEF registryVars
<1>3. /\ add' \in Installing /\ add'.pc = next /\ add'.intent = add.intent /\ add'.by = add.by
      /\ add'.request = add.request /\ add'.archive = add.archive /\ add'.todo = add.todo
  BY ResumedFacts DEF Installing
<1>4. /\ stage' \in [Request -> StageState] /\ stage'[add.intent] = st
      /\ \A r \in Request \ {add.intent} : stage'[r] = stage[r]
      /\ published' \subseteq Archive /\ published \subseteq published'
  BY ResumedFacts DEF RepositoryTypes
<1>5. Pending' = Pending /\ Resumed' = Resumed
  BY <1>2, <1>3 DEF Pending, Resumed
<1>6. RepositoryTypes'
  BY <1>1, <1>3, <1>4 DEF RepositoryTypes
<1>7. AddStands'
  BY <1>3, <1>4, <1>5, ResumedFacts DEF AddStands
<1>8. FilesStand'
  <2>1. \A a \in Archive : Registered(a)' => a \in published'
    BY <1>2, <1>4 DEF FilesStand, Registered
  <2>2. (\A r \in Request : stage[r] # "none" => intents[r] # NoIntent)'
    BY <1>2, <1>4, ResumedFacts DEF FilesStand, NothingOrphaned
  <2>3. (\A a \in published : Registered(a) \/ \E r \in Pending : intents[r].archive = a)'
    <3> SUFFICES ASSUME NEW a \in published'
                 PROVE  Registered(a) \/ \E r \in Pending : intents[r].archive = a
      BY <1>2, <1>5 DEF Registered
    <3>1. CASE a \in published
      BY <3>1 DEF FilesStand, NothingOrphaned
    <3>2. CASE a = Resumed.archive
      BY <3>2, ResumedFacts DEF Resumed
    <3> QED
      BY <3>1, <3>2
  <2> QED
    BY <2>1, <2>2, <2>3 DEF FilesStand, NothingOrphaned
<1>9. ChosenStands'
  BY <1>1, <1>2 DEF ChosenStands, Registered
<1> QED
  BY <1>2, <1>6, <1>7, <1>8, <1>9

\* A payload that is there is not staged again, a complete stage is published, a
\* candidate is staged.
LEMMA ResumeKeeps ==
  ASSUME RepositoryInv, ResumePublished \/ ResumeStage \/ ResumeCandidate \/ Write \/ Publish
  PROVE  RepositoryInv'
<1> USE DEF RepositoryInv
<1>1. stage \in [Request -> StageState] /\ {"none", "partial", "complete"} \subseteq StageState
  BY DEF RepositoryTypes, StageState
<1>2. CASE ResumePublished
  BY <1>1, <1>2, WorkKeeps DEF ResumePublished
<1>3. CASE ResumeStage
  <2>1. stage[add.intent] = "complete" /\ stage' = [stage EXCEPT ![add.intent] = "complete"]
    BY <1>1, <1>3, ResumedFacts DEF ResumeStage, Staged, payloadVars
  <2> QED
    BY <1>1, <1>3, <2>1, WorkKeeps DEF ResumeStage, payloadVars
<1>4. CASE ResumeCandidate
  BY <1>1, <1>4, WorkKeeps DEF ResumeCandidate
<1>5. CASE Write
  BY <1>1, <1>5, WorkKeeps DEF Write
<1>6. CASE Publish
  BY <1>1, <1>6, WorkKeeps DEF Publish
<1> QED
  BY <1>2, <1>3, <1>4, <1>5, <1>6

\* A failure leaves the intent, the payload and whatever was staged for it.
LEMMA FailKeeps ==
  ASSUME RepositoryInv, RefuseStage \/ WriteFails \/ PublishFails \/ FinalizeConflicts
  PROVE  RepositoryInv'
<1> USE DEF RepositoryInv
<1>1. /\ add.pc \in {"resume", "write", "publish", "finalize"}
      /\ UNCHANGED << registryVars, published, drawn, crashes >>
      /\ \E why \in {"stage", "io", "conflict", "pending"} : Fail(why)
  BY DEF RefuseStage, WriteFails, PublishFails, FinalizeConflicts, payloadVars
<1>2. add' = Idle /\ UNCHANGED << chosen, starts >>
  BY <1>1 DEF Fail
<1>3. /\ host' \in {host, "down"} /\ left' \subseteq Archive
      /\ cause' \in {"none", "io", "stage", "conflict", "pending", "raced"}
  BY <1>1 DEF Fail, RepositoryTypes
<1>4. faults' \in 0..MaxFaults
  BY RepositoryAssumption
     DEF RefuseStage, WriteFails, PublishFails, FinalizeConflicts, RepositoryTypes
<1>5. /\ stage' \in [Request -> StageState]
      /\ \A r \in Request \ {add.intent} : stage'[r] = stage[r]
  BY DEF RefuseStage, WriteFails, PublishFails, FinalizeConflicts, payloadVars,
        RepositoryTypes, StageState
<1>6. RegistryInv' /\ UNCHANGED << catalog, intents >>
  BY <1>1, TablesRest DEF registryVars
<1>7. AddStands' /\ add' \in Installing \cup {Idle}
  BY <1>2, LeaseEnds
<1>8. RepositoryTypes'
  BY <1>1, <1>2, <1>3, <1>4, <1>5, <1>7 DEF RepositoryTypes
<1>9. FilesStand'
  BY <1>1, <1>5, <1>6, ResumedFacts DEF FilesStand, NothingOrphaned, Registered, Pending
<1>10. ChosenStands'
  BY <1>2, <1>3, <1>6 DEF ChosenStands, Registered
<1> QED
  BY <1>6, <1>7, <1>8, <1>9, <1>10

\* The intent that is resumed is resolved: the next one is looked at.
LEMMA ResolvedFacts ==
  ASSUME RepositoryInv, add.pc \in {"resume", "write", "publish", "finalize"}, add' = Resolved(add),
         intents'[add.intent] = NoIntent,
         \A r \in Request \ {add.intent} : intents'[r] = intents[r]
  PROVE  add' \in Installing /\ AddStands'
<1> USE DEF RepositoryInv
<1>1. /\ add' \in Installing /\ add'.pc = "recover" /\ add'.by = add.by
      /\ add'.request = add.request /\ add'.archive = add.archive
      /\ add'.todo = add.todo \ {add.intent}
  BY ResumedFacts DEF Installing, Resolved
<1>2. Pending' = Pending \ {add.intent}
  BY ResumedFacts DEF Pending
<1> QED
  BY <1>1, <1>2, ResumedFacts DEF AddStands

\* An intent that left nothing is cleared.
LEMMA ClearKeeps ==
  ASSUME RepositoryInv, ResumeNothing
  PROVE  RepositoryInv'
<1> USE DEF RepositoryInv
<1>1. /\ add.pc = "resume" /\ stage[add.intent] = "none" /\ Resumed.archive \notin published
      /\ ClearIntent(add.intent) /\ add' = Resolved(add)
      /\ UNCHANGED << published, stage, host, left, chosen, cause, starts, drawn, crashes, faults >>
  BY DEF ResumeNothing, Staged, payloadVars, hostVars
<1>2. RegistryInv'
  BY <1>1, ResumedFacts, IntentKeeps
<1>3. /\ catalog' = catalog /\ intents'[add.intent] = NoIntent
      /\ \A r \in Request \ {add.intent} : intents'[r] = intents[r]
  BY <1>1, ResumedFacts DEF ClearIntent, RegistryInv, RegistryTypeOK
<1>4. add' \in Installing /\ AddStands'
  BY <1>1, <1>3, ResolvedFacts
<1>5. RepositoryTypes'
  BY <1>1, <1>4 DEF RepositoryTypes
<1>6. FilesStand'
  <2>1. (\A r \in Request : stage[r] # "none" => intents[r] # NoIntent)'
    BY <1>1, <1>3 DEF FilesStand, NothingOrphaned
  <2>2. (\A a \in published : Registered(a) \/ \E r \in Pending : intents[r].archive = a)'
    <3> SUFFICES ASSUME NEW a \in published
                 PROVE  Registered(a)' \/ \E r \in Pending' : intents'[r].archive = a
      BY <1>1
    <3>1. CASE Registered(a)
      BY <1>3, <3>1 DEF Registered
    <3>2. CASE \E r \in Pending : intents[r].archive = a
      <4>1. PICK r \in Pending : intents[r].archive = a
        BY <3>2
      <4>2. r # add.intent /\ r \in Request
        BY <1>1, <4>1 DEF Resumed, Pending
      <4> QED
        BY <1>3, <4>1, <4>2 DEF Pending
    <3> QED
      BY <3>1, <3>2 DEF FilesStand, NothingOrphaned
  <2> QED
    BY <1>1, <1>3, <2>1, <2>2 DEF FilesStand, NothingOrphaned, Registered
<1>7. ChosenStands'
  BY <1>1, <1>3 DEF ChosenStands, Registered
<1> QED
  BY <1>2, <1>4, <1>5, <1>6, <1>7

\* A published artifact is registered.
LEMMA RegisterKeeps ==
  ASSUME RepositoryInv, Finalize
  PROVE  RepositoryInv'
<1> USE DEF RepositoryInv
<1>0. PICK a : a = Resumed.archive
  OBVIOUS
<1>1. /\ add.pc = "finalize" /\ FinalizeIntent(add.intent) /\ stage[add.intent] = "none"
      /\ a \in published /\ a \in Archive /\ intents[add.intent].archive = a
      /\ UNCHANGED << published, stage, host, left, chosen, cause, starts, drawn, crashes, faults >>
  BY <1>0, ResumedFacts DEF Finalize, AddStands, payloadVars, hostVars, Resumed
<1>2. RegistryInv'
  BY <1>1, ResumedFacts, FinalizeKeeps
<1>3. /\ intents'[add.intent] = NoIntent
      /\ \A r \in Request \ {add.intent} : intents'[r] = intents[r]
  BY <1>1, ResumedFacts DEF FinalizeIntent, RegistryInv, RegistryTypeOK
<1>4. /\ catalog'[a] # {}
      /\ \A b \in Archive \ {a} : catalog'[b] = catalog[b]
      /\ \A b \in Archive : catalog[b] # {} => catalog'[b] # {}
  BY <1>1 DEF FinalizeIntent, RegistryInv, RegistryTypeOK
<1>5. add' \in Installing /\ AddStands'
  <2>1. CASE Own
    <3>1. add' = [add EXCEPT !.pc = "report", !.intent = None]
      BY <2>1 DEF Finalize
    <3>2. /\ add' \in Installing /\ add'.pc = "report" /\ add'.by = add.by
          /\ add'.request = add.request /\ add'.archive = add.archive
      BY <1>1, <3>1, ResumedFacts DEF Installing
    <3>3. add.by = "host" => a = add.archive
      <4> SUFFICES ASSUME add.by = "host" PROVE a = add.archive
        OBVIOUS
      <4>1. add.intent = add.archive /\ add.archive \in Archive
        BY <1>1, <2>1, ResumedFacts DEF Own, Installing
      <4> QED
        BY <1>1, <4>1, ResumedFacts DEF RequestsStand, RegistryInv
    <3>4. add'.by = "host" => Registered(add.archive)'
      BY <1>4, <3>2, <3>3 DEF Registered
    <3> QED
      BY <1>1, <3>2, <3>4, ResumedFacts DEF AddStands
  <2>2. CASE ~ Own
    BY <1>1, <1>3, <2>2, ResolvedFacts DEF Finalize
  <2> QED
    BY <2>1, <2>2
<1>6. RepositoryTypes'
  BY <1>1, <1>5 DEF RepositoryTypes
<1>7. FilesStand'
  <2>1. (\A b \in Archive : Registered(b) => b \in published)'
    BY <1>1, <1>4 DEF FilesStand, Registered
  <2>2. (\A r \in Request : stage[r] # "none" => intents[r] # NoIntent)'
    BY <1>1, <1>3 DEF FilesStand, NothingOrphaned
  <2>3. (\A b \in published : Registered(b) \/ \E r \in Pending : intents[r].archive = b)'
    <3> SUFFICES ASSUME NEW b \in published
                 PROVE  Registered(b)' \/ \E r \in Pending' : intents'[r].archive = b
      BY <1>1
    <3>1. CASE b = a \/ Registered(b)
      BY <1>1, <1>4, <3>1 DEF Registered, RepositoryTypes
    <3>2. CASE b # a /\ \E r \in Pending : intents[r].archive = b
      <4>1. PICK r \in Pending : intents[r].archive = b
        BY <3>2
      <4>2. r # add.intent /\ r \in Request
        BY <1>1, <3>2, <4>1 DEF Pending
      <4> QED
        BY <1>3, <4>1, <4>2 DEF Pending
    <3> QED
      BY <3>1, <3>2 DEF FilesStand, NothingOrphaned
  <2> QED
    BY <2>1, <2>2, <2>3 DEF FilesStand, NothingOrphaned
<1>8. ChosenStands'
  BY <1>1, <1>4 DEF ChosenStands, Registered
<1> QED
  BY <1>2, <1>5, <1>6, <1>7, <1>8

\* The installation is over; the host selects what it installed.
LEMMA ReportKeeps ==
  ASSUME RepositoryInv, Report
  PROVE  RepositoryInv'
<1> USE DEF RepositoryInv
<1>1. /\ add.pc = "report" /\ add' = Idle /\ add.archive \in Archive
      /\ UNCHANGED << registryVars, published, stage, left, cause, starts, drawn, crashes, faults >>
      /\ IF add.by = "host" THEN host' = "selecting" /\ chosen' = add.archive
         ELSE UNCHANGED << host, chosen >>
  BY AddFacts DEF Report, payloadVars
<1>2. RegistryInv' /\ UNCHANGED << catalog, intents >>
  BY <1>1, TablesRest DEF registryVars
<1>3. AddStands' /\ add' \in Installing \cup {Idle}
  BY <1>1, LeaseEnds
<1>4. RepositoryTypes'
  BY <1>1, <1>3 DEF RepositoryTypes
<1>5. FilesStand'
  BY <1>1, <1>2, FilesRest
<1>6. ChosenStands'
  BY <1>1, <1>2 DEF ChosenStands, AddStands, Registered
<1> QED
  BY <1>2, <1>3, <1>4, <1>5, <1>6

-----------------------------------------------------------------------------
(***************************************************************************)
(* Selection, edits, and ends of processes.                                *)
(***************************************************************************)

\* A step on rows keeps the files.
LEMMA RowStepKeeps ==
  ASSUME RepositoryInv, RegistryInv', UNCHANGED << catalog, intents, repositoryVars >>
  PROVE  RepositoryInv'
<1>1. /\ UNCHANGED << published, stage, add, drawn, crashes, faults >>
      /\ UNCHANGED << host, left, chosen, cause, starts >>
  BY DEF repositoryVars, payloadVars, hostVars
<1>2. RepositoryTypes' /\ ChosenStands'
  BY <1>1 DEF RepositoryInv, RepositoryTypes, ChosenStands, Registered
<1>3. FilesStand' /\ AddStands'
  BY <1>1, AddRests DEF RepositoryInv
<1> QED
  BY <1>2, <1>3 DEF RepositoryInv

\* A user edits, through the running host or a command line.
LEMMA EditKeeps ==
  ASSUME RepositoryInv,
         \/ \E m \in Module : EditLive(m) \/ EditHeadless(m)
         \/ \E w \in {"live", "headless"} : CommitEdit(w)
  PROVE  RepositoryInv'
<1>1. CASE \E m \in Module : EditLive(m) \/ EditHeadless(m)
  <2>1. PICK m \in Module : (ReadLive(m) \/ ReadHeadless(m)) /\ UNCHANGED repositoryVars
    BY <1>1 DEF EditLive, EditHeadless
  <2>2. UNCHANGED << catalog, intents >>
    BY <2>1 DEF ReadLive, ReadHeadless, Plan
  <2> QED
    BY <2>1, <2>2, ReadKeeps, RowStepKeeps DEF RepositoryInv
<1>2. CASE \E w \in {"live", "headless"} : CommitEdit(w)
  <2>1. PICK w \in Writer : (Commit(w) \/ Reject(w)) /\ UNCHANGED repositoryVars
    BY <1>2 DEF CommitEdit, Writer
  <2>2. UNCHANGED << catalog, intents >>
    BY <2>1 DEF Commit, Reject
  <2>3. Reject(w) => RegistryInv'
    BY DropKeeps DEF Reject, RepositoryInv, RegistryInv, RegistryTypeOK
  <2> QED
    BY <2>1, <2>2, <2>3, CommitKeeps, RowStepKeeps DEF RepositoryInv
<1> QED
  BY <1>1, <1>2

\* The host selects what it installed, or keeps what is selected.
LEMMA SelectKeeps ==
  ASSUME RepositoryInv, Select \/ CommitSelection
  PROVE  RepositoryInv'
<1> USE DEF RepositoryInv
<1>1. UNCHANGED << published, stage, add, drawn, crashes, faults, starts >>
  BY DEF Select, CommitSelection, Advance, payloadVars
<1>2. RegistryInv' /\ UNCHANGED << catalog, intents >>
  <2>1. CASE host = "selecting" /\ ReadSeed(chosen)
    BY <2>1, SeedKeeps DEF ChosenStands, ReadSeed, Plan
  <2>2. CASE UNCHANGED registryVars
    BY <2>2, TablesRest DEF registryVars
  <2>3. CASE Commit("seed")
    BY <2>3, CommitKeeps DEF Commit, Writer
  <2>4. CASE Reject("seed")
    BY <2>4, DropKeeps DEF Reject, RegistryInv, RegistryTypeOK
  <2> QED
    BY <2>1, <2>2, <2>3, <2>4 DEF Select, CommitSelection
<1>3. /\ host' \in {"down", "seeding", "committing", "up"}
      /\ left' \subseteq left /\ chosen' \in {chosen, None} /\ cause' \in {cause, "raced"}
  BY DEF Select, CommitSelection, Advance
<1>4. RepositoryTypes'
  BY <1>1, <1>3 DEF RepositoryTypes
<1>5. FilesStand' /\ AddStands'
  BY <1>1, <1>2, AddRests
<1> QED
  BY <1>2, <1>3, <1>4, <1>5 DEF ChosenStands

\* A process ends: what it had read and what it held is gone.
LEMMA CrashKeeps ==
  ASSUME RepositoryInv, CrashHost \/ CrashCommand
  PROVE  RepositoryInv'
<1> USE DEF RepositoryInv
<1>1. /\ crashes' \in 0..MaxCrashes
      /\ UNCHANGED << published, stage, cause, starts, drawn, faults >>
  BY RepositoryAssumption DEF CrashHost, CrashCommand, RepositoryTypes, payloadVars, hostVars
<1>2. RegistryInv' /\ UNCHANGED << catalog, intents >>
  <2>1. CASE UNCHANGED registryVars
    BY <2>1, TablesRest DEF registryVars
  <2>2. CASE \E W \in {{"live", "seed"}, {"headless"}} : DropEdits(W)
    BY <2>2, DropKeeps DEF DropEdits, RegistryInv, RegistryTypeOK
  <2> QED
    BY <2>1, <2>2 DEF CrashHost, CrashCommand
<1>3. add' = add \/ add' = Idle
  BY DEF CrashHost, CrashCommand
<1>4. FilesStand'
  BY <1>1, <1>2, FilesRest
<1>5. AddStands' /\ add' \in Installing \cup {Idle}
  BY <1>1, <1>2, <1>3, AddRests, LeaseEnds DEF RepositoryTypes
<1>6. /\ host' \in {host, "down"} /\ left' \subseteq left /\ chosen' \in {chosen, None}
      /\ host' # "down" => chosen' = chosen
  BY DEF CrashHost, CrashCommand, hostVars
<1>7. RepositoryTypes'
  BY <1>1, <1>5, <1>6 DEF RepositoryTypes
<1>8. ChosenStands'
  BY <1>2, <1>6 DEF ChosenStands, Registered
<1> QED
  BY <1>2, <1>4, <1>5, <1>7, <1>8

\* Nothing is installed, written or known.
LEMMA RepositoryBegins ==
  ASSUME Init
  PROVE  RepositoryInv
<1> USE DEF Init, RegistryInit
<1>1. RegistryTypeOK
  <2>1. NoRow \in Row /\ NoChoice \in [selected : Selection, enabled : BOOLEAN] /\ 0 \in 0..MaxEdits
    BY RegistryNames, RegistryAssumption DEF NoChoice, Selection
  <2> QED
    BY <2>1 DEF RegistryTypeOK
<1>2. /\ \A m \in Module : RowCounted(desired[m]) /\ Selectable(m, desired[m].selected)
      /\ EditsFollow /\ RequestsStand /\ ChoicesStand
  BY RegistryNames DEF RowCounted, Selectable, EditsFollow, RequestsStand, ChoicesStand,
        Installed
<1>3. SelectionsStand /\ SeedsStand
  BY <1>2 DEF SelectionsStand, SeedsStand, Writer
<1>4. RepositoryTypes
  BY RepositoryAssumption DEF RepositoryTypes, StageState
<1>5. AddStands /\ ChosenStands /\ FilesStand
  BY DEF AddStands, ChosenStands, FilesStand, NothingOrphaned, Registered, Idle
<1> QED
  BY <1>1, <1>2, <1>3, <1>4, <1>5 DEF RepositoryInv, RegistryInv

\* Every step keeps the invariant, whichever process ends or fails where.
LEMMA RepositoryStep ==
  ASSUME RepositoryInv, [Next]_vars
  PROVE  RepositoryInv'
<1>1. CASE Installation
  BY <1>1, RecoverKeeps, LookupKeeps, ResumeKeeps, FailKeeps, ClearKeeps, RegisterKeeps,
        ReportKeeps
     DEF Installation
<1>2. CASE Seeding
  BY <1>2, EnterKeeps, SelectKeeps DEF Seeding
<1>3. CASE StartHost \/ CrashHost \/ CrashCommand
  BY <1>3, StartKeeps, CrashKeeps
<1>4. CASE \E a \in Archive : EnterUser(a)
  BY <1>4, EnterKeeps
<1>5. CASE \/ \E m \in Module : EditLive(m) \/ EditHeadless(m)
           \/ \E w \in {"live", "headless"} : CommitEdit(w)
  BY <1>5, EditKeeps
<1>6. CASE UNCHANGED vars
  BY <1>6, TablesRest, RowStepKeeps DEF vars, registryVars, RepositoryInv
<1> QED
  BY <1>1, <1>2, <1>3, <1>4, <1>5, <1>6 DEF Next

\* The invariant types every variable.
LEMMA RepositoryTyped ==
  ASSUME RepositoryInv
  PROVE  TypeOK
BY DEF RepositoryInv, RegistryInv, RepositoryTypes, TypeOK, Installing

-----------------------------------------------------------------------------
\* The invariant holds, however installations, edits, starts, crashes and faults follow.
THEOREM RepositoryInvariant == Spec => []RepositoryInv
BY RepositoryBegins, RepositoryStep, PTL DEF Spec

\* Every variable of the tables, the files and the processes has its type (repository.rs,
\* registry/).
THEOREM RepositoryTypeCorrect == Spec => []TypeOK
BY RepositoryTyped, RepositoryInvariant, PTL

\* What is registered, selected or on a receipt is on disk as a whole, and what is on disk
\* is registered or belongs to an intent that the next installation resumes
\* (repository.rs:700-860).
THEOREM FilesAndCatalogStand == Spec => []FilesAndCatalogAgree
<1>1. RepositoryInv => FilesAndCatalogAgree
  BY DEF RepositoryInv, RegistryInv, FilesStand, SelectionsStand, Selectable, RequestsStand,
         FilesAndCatalogAgree, RegisteredIsPublished
<1> QED
  BY <1>1, RepositoryInvariant, PTL

\* Nobody loses a choice: not to an edit that was computed before it, as its configuration
\* revision does not follow, and not to a later start of any build
\* (registry/catalog.rs, src-tauri/src/modules/bundled.rs).
THEOREM ChoicesSurvive == Spec => EditsSurvive
<1>1. RepositoryInv => UserChoiceKept
  BY TableTypes DEF RepositoryInv, RegistryInv, ChoicesStand, Descends, UserChoiceKept
<1>2. RepositoryInv /\ [Next]_vars =>
        [\A w \in Writer : edit[w] # NoEdit /\ edit'[w] = NoEdit /\ desired' # desired =>
           desired[edit[w].module] = edit[w].base]_vars
  <2> SUFFICES ASSUME RepositoryInv, Next, NEW w \in Writer,
                      edit[w] # NoEdit, edit'[w] = NoEdit, desired' # desired
               PROVE  desired[edit[w].module] = edit[w].base
    OBVIOUS
  <2>1. \E v \in Writer : Commit(v)
    <3>1. CASE Installation
      <4>1. UNCHANGED edit
        BY ZenonT(60), <3>1
           DEF Installation, Recover, Lookup, BeginIntent, ResumePublished, ResumeStage,
             RefuseStage, ResumeCandidate, ResumeNothing, ClearIntent, Write, WriteFails, Publish,
             PublishFails, Finalize, FinalizeIntent, FinalizeConflicts, Report, registryVars
      <4> QED
        BY <4>1
    <3>2. CASE Seeding
      BY <3>2 DEF Seeding, EnterHost, Enter, Select, ReadSeed, Plan, CommitSelection, Reject,
           registryVars, Writer
    <3>3. CASE StartHost \/ CrashHost \/ CrashCommand
      BY <3>3 DEF StartHost, SeedInventory, CrashHost, CrashCommand, DropEdits, registryVars
    <3>4. CASE \E a \in Archive : EnterUser(a)
      BY <3>4 DEF EnterUser, Enter, registryVars
    <3>5. CASE \/ \E m \in Module : EditLive(m) \/ EditHeadless(m)
               \/ \E v \in {"live", "headless"} : CommitEdit(v)
      BY <3>5 DEF EditLive, EditHeadless, ReadLive, ReadHeadless, Plan, CommitEdit, Reject,
            Writer
    <3> QED
      BY <3>1, <3>2, <3>3, <3>4, <3>5 DEF Next
  <2>2. PICK v \in Writer : Commit(v)
    BY <2>1
  <2>3. v = w
    BY <2>2 DEF Commit, RepositoryInv, RegistryInv, RegistryTypeOK
  <2> QED
    BY <2>2, <2>3, CommitFollows DEF RepositoryInv
<1>3. Spec => []UserChoiceKept
  BY <1>1, RepositoryInvariant, PTL
<1>4. Spec => NoLostUpdate
  BY <1>2, RepositoryInvariant, PTL DEF Spec, NoLostUpdate
<1> QED
  BY <1>3, <1>4 DEF EditsSurvive

-----------------------------------------------------------------------------
(***************************************************************************)
(* Reports of deliveries.                                                  *)
(***************************************************************************)

\* A frame that was numbered and is on its way to an observer, or was there.
InQueues(o) ==
  {channel[o][k] : k \in DOMAIN channel[o]} \cup {accepted[o][k] : k \in DOMAIN accepted[o]}
  \cup {seen[o][k] : k \in DOMAIN seen[o]}
Numbered(o) == InQueues(o) \cup {f \in UNION {outbox[d] : d \in Delivery} : f.to = o}

Observed == [activation : Activation, sequence : Nat]

FrameTypes ==
  /\ owner \in [ScheduleId -> Activation \cup {None}]
  /\ observers \in [Observer -> Observed \cup {None}]
  /\ pc \in [Delivery -> {"idle", "recorded", "sending", "done"}]
  /\ schedule \in [Delivery -> ScheduleId \cup {None}]
  /\ by \in [Delivery -> Activation \cup {None}]
  /\ outbox \in [Delivery -> SUBSET Frames!FrameSet]
  /\ channel \in [Observer -> Seq(Frames!FrameSet)]
  /\ accepted \in [Observer -> Seq(Frames!FrameSet)] /\ seen \in [Observer -> Seq(Frames!FrameSet)]
  /\ active \in [Observer -> {"new", "open", "disposed"}] /\ last \in [Observer -> Nat]
  /\ rejected \subseteq Observer /\ moved \subseteq Delivery /\ changes \in 0..MaxChanges

\* A delivery numbers one frame for an observer, after its record.
NumberedOnce ==
  /\ \A d \in Delivery : \A f \in outbox[d] : f.delivery = d
  /\ \A o \in Observer : \A f, g \in Numbered(o) : f.delivery = g.delivery => f = g
  /\ \A o \in Observer : \A f \in Numbered(o) :
       f.to = o /\ pc[f.delivery] \in {"sending", "done"} /\ active[o] # "new"

\* What was accepted rises, after what the listener was given.
AcceptedRise ==
  \A o \in Observer :
    /\ \A i, j \in DOMAIN seen[o] : i < j => seen[o][i].sequence < seen[o][j].sequence
    /\ \A i, j \in DOMAIN accepted[o] : i < j => accepted[o][i].sequence < accepted[o][j].sequence
    /\ \A i \in DOMAIN seen[o], j \in DOMAIN accepted[o] :
         seen[o][i].sequence < accepted[o][j].sequence
    /\ \A i \in DOMAIN accepted[o] : accepted[o][i].sequence <= last[o]
    /\ \A i \in DOMAIN seen[o] : seen[o][i].sequence <= last[o]

\* A result is numbered for observers of the activation that owned its schedule at the
\* record, unless the schedule changed hands between.
OwnersMatch ==
  /\ \A d \in Delivery : pc[d] = "recorded" =>
       schedule[d] \in ScheduleId /\ (d \notin moved => by[d] = owner[schedule[d]])
  /\ \A o \in Observer : \A f \in Numbered(o) : f.delivery \notin moved =>
       observers[o] = None \/ by[f.delivery] = observers[o].activation

\* No observer has more frames than deliveries are recorded, and none before it subscribed.
Counted ==
  \A o \in Observer :
    /\ active[o] = "new" => observers[o] = None
    /\ observers[o] # None =>
         observers[o].sequence <= Cardinality({d \in Delivery : pc[d] \in {"sending", "done"}})

FramesInv == FrameTypes /\ NumberedOnce /\ AcceptedRise /\ OwnersMatch /\ Counted

-----------------------------------------------------------------------------
\* The elements of a sequence.
LEMMA ElementFacts ==
  ASSUME NEW S, NEW x \in Seq(S)
  PROVE  DOMAIN x = 1..Len(x) /\ Len(x) \in Nat /\ \A k \in DOMAIN x : x[k] \in S /\ k \in Nat
  OBVIOUS

\* What follows the head of a sequence.
LEMMA TailFacts ==
  ASSUME NEW S, NEW x \in Seq(S), x # << >>
  PROVE  /\ Tail(x) \in Seq(S) /\ 1 \in DOMAIN x /\ Head(x) = x[1] /\ x[1] \in S
         /\ \A k \in DOMAIN Tail(x) :
              k \in Nat /\ 1 < k + 1 /\ k + 1 \in DOMAIN x /\ Tail(x)[k] = x[k + 1]
  OBVIOUS

\* A sequence with one more element.
LEMMA AppendFacts ==
  ASSUME NEW S, NEW x \in Seq(S), NEW y \in S
  PROVE  /\ Append(x, y) \in Seq(S) /\ Len(x) \in Nat
         /\ DOMAIN Append(x, y) = DOMAIN x \cup {Len(x) + 1}
         /\ \A k \in DOMAIN x : Append(x, y)[k] = x[k] /\ k < Len(x) + 1
         /\ Append(x, y)[Len(x) + 1] = y
  OBVIOUS

\* What is not numbered anew keeps its order and its delivery.
LEMMA NumberedShrinks ==
  ASSUME FramesInv,
         \A d \in Delivery : outbox'[d] \subseteq outbox[d],
         \A o \in Observer : (Numbered(o))' \subseteq Numbered(o),
         \A d \in Delivery : pc[d] \in {"sending", "done"} => pc'[d] \in {"sending", "done"},
         \A o \in Observer : active[o] # "new" => active'[o] # "new"
  PROVE  NumberedOnce'
<1>1. \A o \in Observer : \A f \in Numbered(o) : f.delivery \in Delivery
  <2> SUFFICES ASSUME NEW o \in Observer, NEW f \in Numbered(o)
               PROVE  f \in Frames!FrameSet
    BY DEF Frames!FrameSet
  <2>1. channel[o] \in Seq(Frames!FrameSet) /\ accepted[o] \in Seq(Frames!FrameSet)
        /\ seen[o] \in Seq(Frames!FrameSet) /\ \A d \in Delivery : outbox[d] \subseteq Frames!FrameSet
    BY DEF FramesInv, FrameTypes
  <2> QED
    BY <2>1, ElementFacts DEF Numbered, InQueues
<1> QED
  BY <1>1 DEF FramesInv, NumberedOnce

\* So does whose it was, if its observer is still of the same activation or gone.
LEMMA OwnersShrink ==
  ASSUME FramesInv,
         \A o \in Observer : (Numbered(o))' \subseteq Numbered(o),
         \A d \in Delivery : pc[d] \in {"sending", "done"} => by'[d] = by[d],
         moved \subseteq moved',
         \A o \in Observer : active[o] # "new" =>
           observers'[o] = None \/ observers'[o] = observers[o]
  PROVE  \A o \in Observer : \A f \in (Numbered(o))' : f.delivery \notin moved' =>
           observers'[o] = None \/ by'[f.delivery] = observers'[o].activation
<1> SUFFICES ASSUME NEW o \in Observer, NEW f \in (Numbered(o))', f.delivery \notin moved',
                    observers'[o] # None
             PROVE  by'[f.delivery] = observers'[o].activation
  OBVIOUS
<1>1. f \in Numbered(o) /\ f.delivery \notin moved
  OBVIOUS
<1>2. pc[f.delivery] \in {"sending", "done"} /\ active[o] # "new"
  BY <1>1 DEF FramesInv, NumberedOnce
<1>3. f.delivery \in Delivery
  <2>1. channel[o] \in Seq(Frames!FrameSet) /\ accepted[o] \in Seq(Frames!FrameSet)
        /\ seen[o] \in Seq(Frames!FrameSet) /\ \A d \in Delivery : outbox[d] \subseteq Frames!FrameSet
    BY DEF FramesInv, FrameTypes
  <2>2. f \in Frames!FrameSet
    BY <1>1, <2>1, ElementFacts DEF Numbered, InQueues
  <2> QED
    BY <2>2 DEF Frames!FrameSet
<1>4. by[f.delivery] = observers[o].activation
  BY <1>1, <1>2 DEF FramesInv, OwnersMatch
<1> QED
  BY <1>2, <1>3, <1>4

\* What numbers nothing leaves the counts.
LEMMA CountsStay ==
  ASSUME FramesInv,
         {d \in Delivery : pc'[d] \in {"sending", "done"}} = {d \in Delivery : pc[d] \in {"sending", "done"}},
         \A o \in Observer : observers'[o] = None \/ observers'[o] = observers[o],
         \A o \in Observer : active[o] # "new" => active'[o] # "new"
  PROVE  Counted'
BY DEF FramesInv, Counted

-----------------------------------------------------------------------------
\* A schedule changes hands: what was recorded of it counts as moved.
LEMMA ChangeOwnerKeeps ==
  ASSUME FramesInv, NEW id \in ScheduleId, NEW a \in Activation \cup {None}, Frames!ChangeOwner(id, a)
  PROVE  FramesInv'
<1> USE DEF Frames!ChangeOwner, Frames!deliveryVars, Frames!clientVars
<1>1. \A o \in Observer : (Numbered(o))' = Numbered(o)
  BY DEF Numbered, InQueues
<1>2. FrameTypes'
  BY ReportsAssumption DEF FramesInv, FrameTypes
<1>3. NumberedOnce'
  BY <1>1, NumberedShrinks
<1>4. AcceptedRise'
  BY DEF FramesInv, AcceptedRise
<1>5. OwnersMatch'
  <2>1. \A d \in Delivery : pc'[d] = "recorded" =>
          schedule'[d] \in ScheduleId /\ (d \notin moved' => by'[d] = owner'[schedule'[d]])
    BY DEF FramesInv, OwnersMatch, FrameTypes
  <2> QED
    BY <1>1, <2>1, OwnersShrink DEF OwnersMatch
<1>6. Counted'
  BY CountsStay
<1> QED
  BY <1>2, <1>3, <1>4, <1>5, <1>6 DEF FramesInv

\* A result is recorded for the owner of its schedule.
LEMMA RecordKeeps ==
  ASSUME FramesInv, NEW d \in Delivery, NEW id \in ScheduleId, Frames!Record(d, id)
  PROVE  FramesInv'
<1> USE DEF Frames!Record, Frames!clientVars
<1>1. \A o \in Observer : (Numbered(o))' = Numbered(o)
  BY DEF Numbered, InQueues
<1>2. FrameTypes'
  BY DEF FramesInv, FrameTypes
<1>3. /\ \A e \in Delivery : pc[e] \in {"sending", "done"} => pc'[e] = pc[e] /\ by'[e] = by[e]
      /\ \A e \in Delivery : pc'[e] \in {"sending", "done"} => pc[e] = pc'[e]
  BY DEF FramesInv, FrameTypes
<1>4. NumberedOnce'
  BY <1>1, <1>3, NumberedShrinks
<1>5. AcceptedRise'
  BY DEF FramesInv, AcceptedRise
<1>6. OwnersMatch'
  <2>1. \A e \in Delivery : pc'[e] = "recorded" =>
          schedule'[e] \in ScheduleId /\ (e \notin moved' => by'[e] = owner'[schedule'[e]])
    BY DEF FramesInv, OwnersMatch, FrameTypes
  <2> QED
    BY <1>1, <1>3, <2>1, OwnersShrink DEF OwnersMatch
<1>7. Counted'
  BY <1>3, CountsStay
<1> QED
  BY <1>2, <1>4, <1>5, <1>6, <1>7 DEF FramesInv

\* A subscription ends, or its observer is removed.
LEMMA LeaveKeeps ==
  ASSUME FramesInv, NEW o \in Observer, Frames!Dispose(o) \/ Frames!StopObserving(o)
  PROVE  FramesInv'
<1> USE DEF Frames!Dispose, Frames!StopObserving, Frames!deliveryVars, Frames!clientVars
<1>1. /\ \A p \in Observer : (Numbered(p))' = Numbered(p)
      /\ UNCHANGED << owner, pc, schedule, by, outbox, channel, accepted, seen, last, rejected, moved,
                      changes >>
  BY DEF Numbered, InQueues
<1>2. FrameTypes'
  BY <1>1 DEF FramesInv, FrameTypes
<1>3. \A p \in Observer : /\ active[p] # "new" <=> active'[p] # "new"
                          /\ observers'[p] = None \/ observers'[p] = observers[p]
  BY DEF FramesInv, FrameTypes
<1>4. NumberedOnce'
  BY <1>1, <1>3, NumberedShrinks
<1>5. AcceptedRise'
  BY <1>1 DEF FramesInv, AcceptedRise
<1>6. OwnersMatch'
  <2>1. \A e \in Delivery : pc'[e] = "recorded" =>
          schedule'[e] \in ScheduleId /\ (e \notin moved' => by'[e] = owner'[schedule'[e]])
    BY <1>1 DEF FramesInv, OwnersMatch
  <2> QED
    BY <1>1, <1>3, <2>1, OwnersShrink DEF OwnersMatch
<1>7. Counted'
  BY <1>1, <1>3, CountsStay
<1> QED
  BY <1>2, <1>4, <1>5, <1>6, <1>7 DEF FramesInv

\* A module subscribes: no frame was numbered for its observer.
LEMMA SubscribeKeeps ==
  ASSUME FramesInv, NEW o \in Observer, NEW a \in Activation, Frames!Subscribe(o, a)
  PROVE  FramesInv'
<1> USE DEF Frames!Subscribe, Frames!deliveryVars
<1>1. /\ \A p \in Observer : (Numbered(p))' = Numbered(p)
      /\ UNCHANGED << owner, pc, schedule, by, outbox, channel, accepted, seen, last, rejected, moved,
                      changes >>
  BY DEF Numbered, InQueues
<1>2. observers' = [observers EXCEPT ![o] = [activation |-> a, sequence |-> 0]]
      /\ active[o] = "new" /\ active' = [active EXCEPT ![o] = "open"]
  OBVIOUS
<1>3. FrameTypes'
  <2>1. [activation |-> a, sequence |-> 0] \in Observed
    BY DEF Observed
  <2> QED
    BY <1>1, <1>2, <2>1 DEF FramesInv, FrameTypes
<1>4. \A p \in Observer : active[p] # "new" => active'[p] # "new" /\ observers'[p] = observers[p]
  BY <1>2 DEF FramesInv, FrameTypes
<1>5. NumberedOnce'
  BY <1>1, <1>4, NumberedShrinks
<1>6. AcceptedRise'
  BY <1>1 DEF FramesInv, AcceptedRise
<1>7. OwnersMatch'
  <2>1. \A e \in Delivery : pc'[e] = "recorded" =>
          schedule'[e] \in ScheduleId /\ (e \notin moved' => by'[e] = owner'[schedule'[e]])
    BY <1>1 DEF FramesInv, OwnersMatch
  <2> QED
    BY <1>1, <1>4, <2>1, OwnersShrink DEF OwnersMatch
<1>8. Counted'
  <2> DEFINE D == {d \in Delivery : pc[d] \in {"sending", "done"}}
  <2>1. Cardinality(D) \in Nat
    BY ReportsAssumption, FS_Subset, FS_CardinalityType
  <2>2. ASSUME NEW p \in Observer
        PROVE  /\ active'[p] = "new" => observers'[p] = None
               /\ observers'[p] # None => observers'[p].sequence <= Cardinality(D)
    <3>1. CASE p = o
      <4>1. active'[p] = "open" /\ observers'[p].sequence = 0
        BY <1>2, <3>1 DEF FramesInv, FrameTypes
      <4> QED
        BY <2>1, <4>1
    <3>2. CASE p # o
      <4>1. active'[p] = active[p] /\ observers'[p] = observers[p]
        BY <1>2, <3>2 DEF FramesInv, FrameTypes
      <4> QED
        BY <4>1 DEF FramesInv, Counted
    <3> QED
      BY <3>1, <3>2
  <2> QED
    BY <1>1, <2>2 DEF Counted
<1> QED
  BY <1>3, <1>5, <1>6, <1>7, <1>8 DEF FramesInv

\* The frames of a result are numbered, each above the last one for its observer.
LEMMA PublishKeeps ==
  ASSUME FramesInv, NEW d \in Delivery, Frames!Publish(d)
  PROVE  FramesInv'
<1> DEFINE addressed == {o \in Observer : observers[o] # None /\ owner[schedule[d]] # None
                                          /\ observers[o].activation = owner[schedule[d]]}
           D == {e \in Delivery : pc[e] \in {"sending", "done"}}
<1>1. /\ pc[d] = "recorded" /\ pc' = [pc EXCEPT ![d] = "sending"]
      /\ outbox' = [outbox EXCEPT ![d] = {Frames!Frame(d, o) : o \in addressed}]
      /\ observers' = [o \in Observer |->
                         IF o \in addressed THEN [observers[o] EXCEPT !.sequence = @ + 1]
                         ELSE observers[o]]
      /\ UNCHANGED << owner, schedule, by, channel, accepted, seen, active, last, rejected, moved,
                      changes >>
  BY DEF Frames!Publish, Frames!clientVars
<1>2. FrameTypes /\ NumberedOnce /\ AcceptedRise /\ OwnersMatch /\ Counted
  BY DEF FramesInv
<1>3. ASSUME NEW o \in addressed
      PROVE  /\ o \in Observer /\ observers[o] \in Observed
             /\ Frames!Frame(d, o) \in Frames!FrameSet
             /\ Frames!Frame(d, o).delivery = d /\ Frames!Frame(d, o).to = o
             /\ active[o] # "new" /\ observers'[o] \in Observed
             /\ observers'[o].activation = observers[o].activation
             /\ observers'[o].sequence = observers[o].sequence + 1
             /\ observers[o].activation = owner[schedule[d]]
  <2>1. o \in Observer /\ observers[o] \in Observed
    BY <1>2 DEF FrameTypes
  <2>2. observers'[o] = [observers[o] EXCEPT !.sequence = @ + 1]
    BY <1>1, <2>1
  <2>3. /\ observers'[o] \in Observed /\ observers'[o].activation = observers[o].activation
        /\ observers'[o].sequence = observers[o].sequence + 1
        /\ observers[o].sequence + 1 \in Nat \ {0}
    BY <2>1, <2>2 DEF Observed
  <2>4. active[o] # "new"
    BY <1>2, <2>1 DEF Counted
  <2> QED
    BY <2>1, <2>3, <2>4 DEF Frames!Frame, Frames!FrameSet
<1>4. \A o \in Observer : o \notin addressed => observers'[o] = observers[o]
  BY <1>1
<1>5. \A o \in Observer : \A f \in Numbered(o) : f.delivery # d
  BY <1>1, <1>2 DEF NumberedOnce
<1>6. ASSUME NEW o \in Observer, NEW f \in (Numbered(o))', f \notin Numbered(o)
      PROVE  o \in addressed /\ f = Frames!Frame(d, o)
  <2>1. PICK e \in Delivery : f \in outbox'[e] /\ f.to = o
    BY <1>1, <1>6 DEF Numbered, InQueues
  <2>2. e = d
    BY <1>1, <1>2, <1>6, <2>1 DEF Numbered, FrameTypes
  <2>3. PICK p \in addressed : f = Frames!Frame(d, p)
    BY <1>1, <1>2, <2>1, <2>2 DEF FrameTypes
  <2> QED
    BY <1>3, <2>1, <2>3
<1>7. FrameTypes'
  <2>1. observers' \in [Observer -> Observed \cup {None}]
    BY <1>1, <1>2, <1>3, <1>4 DEF FrameTypes
  <2>2. outbox' \in [Delivery -> SUBSET Frames!FrameSet]
    BY <1>1, <1>2, <1>3 DEF FrameTypes
  <2> QED
    BY <1>1, <1>2, <2>1, <2>2 DEF FrameTypes
<1> HIDE DEF addressed
<1>8. NumberedOnce'
  <2>1. \A e \in Delivery : \A f \in outbox'[e] : f.delivery = e
    <3> SUFFICES ASSUME NEW e \in Delivery, NEW f \in outbox'[e]
                 PROVE  f.delivery = e
      OBVIOUS
    <3>1. CASE e = d
      <4>1. outbox'[d] = {Frames!Frame(d, o) : o \in addressed}
        BY <1>1, <1>2 DEF FrameTypes
      <4> QED
        BY <1>3, <3>1, <4>1
    <3>2. CASE e # d
      <4>1. outbox'[e] = outbox[e]
        BY <1>1, <1>2, <3>2 DEF FrameTypes
      <4> QED
        BY <1>2, <4>1 DEF NumberedOnce
    <3> QED
      BY <3>1, <3>2
  <2>2. ASSUME NEW o \in Observer, NEW f \in (Numbered(o))', NEW g \in (Numbered(o))', f.delivery = g.delivery
        PROVE  f = g
    BY <1>2, <1>3, <1>5, <1>6, <2>2 DEF NumberedOnce
  <2>3. ASSUME NEW o \in Observer, NEW f \in (Numbered(o))'
        PROVE  f.to = o /\ pc'[f.delivery] \in {"sending", "done"} /\ active'[o] # "new"
    <3>1. CASE f \in Numbered(o)
      <4>1. f.to = o /\ pc[f.delivery] \in {"sending", "done"} /\ active[o] # "new"
        BY <1>2, <3>1 DEF NumberedOnce
      <4>2. f.delivery # d /\ pc'[f.delivery] = pc[f.delivery]
        BY <1>1, <1>2, <1>5, <3>1, <4>1 DEF FrameTypes
      <4> QED
        BY <1>1, <4>1, <4>2
    <3>2. CASE f \notin Numbered(o)
      <4>1. o \in addressed /\ f = Frames!Frame(d, o)
        BY <1>6, <3>2
      <4>2. f.to = o /\ f.delivery = d /\ active[o] # "new"
        BY <1>3, <4>1
      <4>3. pc'[d] = "sending"
        BY <1>1, <1>2 DEF FrameTypes
      <4> QED
        BY <1>1, <4>2, <4>3
    <3> QED
      BY <3>1, <3>2
  <2> QED
    BY <2>1, <2>2, <2>3 DEF NumberedOnce
<1>9. AcceptedRise'
  BY <1>1, <1>2 DEF AcceptedRise
<1>10. OwnersMatch'
  <2>1. \A e \in Delivery : pc'[e] = "recorded" =>
          schedule'[e] \in ScheduleId /\ (e \notin moved' => by'[e] = owner'[schedule'[e]])
    BY <1>1, <1>2 DEF OwnersMatch, FrameTypes
  <2>2. ASSUME NEW o \in Observer, NEW f \in (Numbered(o))', f.delivery \notin moved'
        PROVE  observers'[o] = None \/ by'[f.delivery] = observers'[o].activation
    <3>1. CASE f \in Numbered(o)
      <4>1. observers[o] = None \/ by[f.delivery] = observers[o].activation
        BY <1>1, <1>2, <2>2, <3>1 DEF OwnersMatch
      <4>2. CASE o \in addressed
        <5>1. observers[o] # None
          BY <4>2 DEF addressed
        <5> QED
          BY <1>1, <1>3, <4>1, <4>2, <5>1
      <4>3. CASE o \notin addressed
        BY <1>1, <1>4, <4>1, <4>3
      <4> QED
        BY <4>2, <4>3
    <3>2. CASE f \notin Numbered(o)
      <4>1. o \in addressed /\ f.delivery = d
        BY <1>3, <1>6, <3>2
      <4>2. by[d] = owner[schedule[d]]
        BY <1>1, <1>2, <2>2, <4>1 DEF OwnersMatch
      <4> QED
        BY <1>1, <1>3, <4>1, <4>2
    <3> QED
      BY <3>1, <3>2
  <2> QED
    BY <2>1, <2>2 DEF OwnersMatch
<1>11. Counted'
  <2>1. {e \in Delivery : pc'[e] \in {"sending", "done"}} = D \cup {d} /\ d \notin D
    BY <1>1, <1>2 DEF FrameTypes
  <2>2. IsFiniteSet(D)
    BY ReportsAssumption, FS_Subset
  <2>3. Cardinality(D) \in Nat /\ Cardinality(D \cup {d}) = Cardinality(D) + 1
    BY <2>1, <2>2, FS_CardinalityType, FS_AddElement
  <2>4. ASSUME NEW o \in Observer
        PROVE  /\ active'[o] = "new" => observers'[o] = None
               /\ observers'[o] # None => observers'[o].sequence <= Cardinality(D) + 1
    <3>1. CASE o \in addressed
      <4>1. observers[o] # None
        BY <3>1 DEF addressed
      <4>2. observers[o].sequence \in Nat /\ observers[o].sequence <= Cardinality(D)
        BY <1>2, <1>3, <3>1, <4>1 DEF Counted, Observed
      <4>3. observers'[o].sequence = observers[o].sequence + 1 /\ active'[o] # "new"
        BY <1>1, <1>3, <3>1
      <4>4. observers'[o].sequence <= Cardinality(D) + 1
        BY <2>3, <4>2, <4>3
      <4> QED
        BY <4>3, <4>4
    <3>2. CASE o \notin addressed
      <4>1. observers'[o] = observers[o] /\ active'[o] = active[o]
        BY <1>1, <1>4, <3>2
      <4>2. observers[o] # None => observers[o].sequence \in Nat
        BY <1>2 DEF FrameTypes, Observed
      <4> QED
        BY <1>2, <2>3, <4>1, <4>2 DEF Counted
    <3> QED
      BY <3>1, <3>2
  <2> QED
    BY <2>1, <2>3, <2>4 DEF Counted
<1> QED
  BY <1>7, <1>8, <1>9, <1>10, <1>11 DEF FramesInv

\* A frame is sent, or all were.
LEMMA SendKeeps ==
  ASSUME FramesInv, NEW d \in Delivery, Frames!Send(d)
  PROVE  FramesInv'
<1>1. FrameTypes /\ NumberedOnce /\ AcceptedRise /\ OwnersMatch /\ Counted
  BY DEF FramesInv
<1>2. UNCHANGED << owner, observers, schedule, by, accepted, seen, active, last, rejected, moved, changes >>
  BY DEF Frames!Send, Frames!clientVars
<1>3. CASE \E f \in outbox[d] :
             /\ channel' = [channel EXCEPT ![f.to] = Append(@, f)]
             /\ outbox' = [outbox EXCEPT ![d] = @ \ {f}] /\ pc' = pc
  <2>1. PICK f \in outbox[d] :
             /\ channel' = [channel EXCEPT ![f.to] = Append(@, f)]
             /\ outbox' = [outbox EXCEPT ![d] = @ \ {f}] /\ pc' = pc
    BY <1>3
  <2>2. f \in Frames!FrameSet /\ f.to \in Observer /\ channel[f.to] \in Seq(Frames!FrameSet)
    <3>1. f \in Frames!FrameSet /\ channel \in [Observer -> Seq(Frames!FrameSet)]
      BY <1>1, <2>1 DEF FrameTypes
    <3>2. f.to \in Observer
      BY <3>1 DEF Frames!FrameSet
    <3> QED
      BY <3>1, <3>2
  <2>3. /\ channel'[f.to] = Append(channel[f.to], f)
        /\ \A o \in Observer : o # f.to => channel'[o] = channel[o]
        /\ \A e \in Delivery : outbox'[e] \subseteq outbox[e]
    BY <1>1, <2>1, <2>2 DEF FrameTypes
  <2>4. /\ channel'[f.to] \in Seq(Frames!FrameSet)
        /\ \A k \in DOMAIN channel'[f.to] :
             channel'[f.to][k] = f \/ \E i \in DOMAIN channel[f.to] : channel'[f.to][k] = channel[f.to][i]
    BY <2>2, <2>3, AppendFacts
  <2>5. FrameTypes'
    <3>1. channel' \in [Observer -> Seq(Frames!FrameSet)]
      BY <1>1, <2>1, <2>3, <2>4 DEF FrameTypes
    <3>2. outbox' \in [Delivery -> SUBSET Frames!FrameSet]
      BY <1>1, <2>1, <2>3 DEF FrameTypes
    <3> QED
      BY <1>1, <1>2, <2>1, <3>1, <3>2 DEF FrameTypes
  <2>6. \A o \in Observer : (Numbered(o))' \subseteq Numbered(o)
    <3> SUFFICES ASSUME NEW o \in Observer, NEW g \in (Numbered(o))'
                 PROVE  g \in Numbered(o)
      OBVIOUS
    <3>1. CASE g \in {channel'[o][k] : k \in DOMAIN channel'[o]}
      <4>1. PICK k \in DOMAIN channel'[o] : g = channel'[o][k]
        BY <3>1
      <4>2. CASE o = f.to
        BY <2>1, <2>2, <2>4, <4>1, <4>2, <1>1 DEF Numbered, InQueues, FrameTypes
      <4>3. CASE o # f.to
        BY <2>3, <4>1, <4>3 DEF Numbered, InQueues
      <4> QED
        BY <4>2, <4>3
    <3>2. CASE g \notin {channel'[o][k] : k \in DOMAIN channel'[o]}
      BY <1>2, <2>3, <3>2 DEF Numbered, InQueues
    <3> QED
      BY <3>1, <3>2
  <2> QED
    <3>1. NumberedOnce'
      BY <1>2, <2>1, <2>3, <2>6, NumberedShrinks
    <3>2. AcceptedRise'
      BY <1>1, <1>2 DEF AcceptedRise
    <3>3. OwnersMatch'
      BY <1>1, <1>2, <2>1, <2>6, OwnersShrink DEF OwnersMatch
    <3>4. Counted'
      BY <1>2, <2>1, CountsStay
    <3> QED
      BY <2>5, <3>1, <3>2, <3>3, <3>4 DEF FramesInv
<1>4. CASE outbox[d] = {} /\ pc' = [pc EXCEPT ![d] = "done"] /\ pc[d] = "sending"
           /\ UNCHANGED << channel, outbox >>
  <2>1. \A o \in Observer : (Numbered(o))' = Numbered(o)
    BY <1>2, <1>4 DEF Numbered, InQueues
  <2>2. FrameTypes'
    BY <1>1, <1>2, <1>4 DEF FrameTypes
  <2>3. /\ \A e \in Delivery : pc'[e] \in {"sending", "done"} <=> pc[e] \in {"sending", "done"}
        /\ \A e \in Delivery : pc'[e] = "recorded" => pc[e] = "recorded"
    BY <1>1, <1>4 DEF FrameTypes
  <2>4. NumberedOnce'
    BY <1>2, <1>4, <2>1, <2>3, NumberedShrinks
  <2>5. AcceptedRise'
    BY <1>1, <1>2 DEF AcceptedRise
  <2>6. OwnersMatch'
    BY <1>1, <1>2, <2>1, <2>3, OwnersShrink DEF OwnersMatch
  <2>7. Counted'
    BY <1>2, <2>3, CountsStay
  <2> QED
    BY <2>2, <2>4, <2>5, <2>6, <2>7 DEF FramesInv
<1> QED
  BY <1>3, <1>4 DEF Frames!Send

\* The webview takes a frame; it is accepted above the last one only.
LEMMA ReceiveKeeps ==
  ASSUME FramesInv, NEW o \in Observer, Frames!Receive(o)
  PROVE  FramesInv'
<1>1. FrameTypes /\ NumberedOnce /\ AcceptedRise /\ OwnersMatch /\ Counted
  BY DEF FramesInv
<1>2. UNCHANGED << owner, observers, pc, schedule, by, outbox, seen, active, rejected, moved, changes >>
  BY DEF Frames!Receive, Frames!deliveryVars
<1>3. PICK f : f = Head(channel[o])
  OBVIOUS
<1>4. /\ channel[o] \in Seq(Frames!FrameSet) /\ accepted[o] \in Seq(Frames!FrameSet)
      /\ seen[o] \in Seq(Frames!FrameSet) /\ last[o] \in Nat
  BY <1>1 DEF FrameTypes
<1>5. /\ f \in Frames!FrameSet /\ f.sequence \in Nat /\ 1 \in DOMAIN channel[o] /\ f = channel[o][1]
      /\ Tail(channel[o]) \in Seq(Frames!FrameSet)
      /\ \A k \in DOMAIN Tail(channel[o]) : \E i \in DOMAIN channel[o] : Tail(channel[o])[k] = channel[o][i]
  <2>1. channel[o] # << >>
    BY DEF Frames!Receive
  <2>2. /\ Tail(channel[o]) \in Seq(Frames!FrameSet) /\ 1 \in DOMAIN channel[o]
        /\ f = channel[o][1] /\ f \in Frames!FrameSet
        /\ \A k \in DOMAIN Tail(channel[o]) :
             k + 1 \in DOMAIN channel[o] /\ Tail(channel[o])[k] = channel[o][k + 1]
    BY <1>3, <1>4, <2>1, TailFacts
  <2>3. f.sequence \in Nat
    BY <2>2 DEF Frames!FrameSet
  <2> QED
    BY <2>2, <2>3
<1>6. channel' = [channel EXCEPT ![o] = Tail(channel[o])]
  BY DEF Frames!Receive
<1>7. \/ last' = last /\ accepted' = accepted
      \/ /\ f.sequence > last[o] /\ last' = [last EXCEPT ![o] = f.sequence]
         /\ accepted' = [accepted EXCEPT ![o] = Append(accepted[o], f)]
  BY <1>3 DEF Frames!Receive
<1>8. /\ Append(accepted[o], f) \in Seq(Frames!FrameSet) /\ Len(accepted[o]) \in Nat
      /\ DOMAIN Append(accepted[o], f) = DOMAIN accepted[o] \cup {Len(accepted[o]) + 1}
      /\ \A k \in DOMAIN accepted[o] :
           Append(accepted[o], f)[k] = accepted[o][k] /\ k < Len(accepted[o]) + 1 /\ k \in Nat
      /\ Append(accepted[o], f)[Len(accepted[o]) + 1] = f
  BY <1>4, <1>5, AppendFacts, ElementFacts
<1>9. FrameTypes'
  <2>1. channel' \in [Observer -> Seq(Frames!FrameSet)]
    BY <1>1, <1>5, <1>6 DEF FrameTypes
  <2>2. accepted' \in [Observer -> Seq(Frames!FrameSet)]
    BY <1>1, <1>7, <1>8 DEF FrameTypes
  <2>3. last' \in [Observer -> Nat]
    BY <1>1, <1>5, <1>7 DEF FrameTypes
  <2> QED
    BY <1>1, <1>2, <2>1, <2>2, <2>3 DEF FrameTypes
<1>10. \A p \in Observer : (Numbered(p))' \subseteq Numbered(p)
  <2> SUFFICES ASSUME NEW p \in Observer, NEW g \in (Numbered(p))'
               PROVE  g \in Numbered(p)
    OBVIOUS
  <2>1. f \in Numbered(o)
    BY <1>5 DEF Numbered, InQueues
  <2>2. CASE g \in {channel'[p][k] : k \in DOMAIN channel'[p]}
    <3>1. g \in {channel[p][k] : k \in DOMAIN channel[p]}
      BY <1>1, <1>5, <1>6, <2>2 DEF FrameTypes
    <3> QED
      BY <3>1 DEF Numbered, InQueues
  <2>3. CASE g \in {accepted'[p][k] : k \in DOMAIN accepted'[p]}
    <3>1. (p = o /\ g = f) \/ g \in {accepted[p][k] : k \in DOMAIN accepted[p]}
      <4>1. PICK k \in DOMAIN accepted'[p] : g = accepted'[p][k]
        BY <2>3
      <4>2. accepted'[p] = accepted[p] \/ (p = o /\ accepted'[p] = Append(accepted[o], f))
        BY <1>1, <1>7 DEF FrameTypes
      <4>3. CASE accepted'[p] = accepted[p]
        BY <4>1, <4>3
      <4>4. CASE p = o /\ accepted'[p] = Append(accepted[o], f)
        <5>1. k \in DOMAIN accepted[o] \/ k = Len(accepted[o]) + 1
          BY <1>8, <4>1, <4>4
        <5> QED
          BY <1>8, <4>1, <4>4, <5>1
      <4> QED
        BY <4>2, <4>3, <4>4
    <3> QED
      BY <2>1, <3>1 DEF Numbered, InQueues
  <2>4. CASE g \notin {channel'[p][k] : k \in DOMAIN channel'[p]}
                 \cup {accepted'[p][k] : k \in DOMAIN accepted'[p]}
    BY <1>2, <2>4 DEF Numbered, InQueues
  <2> QED
    BY <2>2, <2>3, <2>4
<1>11. NumberedOnce'
  BY <1>2, <1>10, NumberedShrinks
<1>12. AcceptedRise'
  <2>1. ASSUME NEW p \in Observer, p # o
        PROVE  accepted'[p] = accepted[p] /\ last'[p] = last[p]
    BY <1>1, <1>7, <2>1 DEF FrameTypes
  <2>2. CASE last' = last /\ accepted' = accepted
    BY <1>1, <1>2, <2>2 DEF AcceptedRise
  <2>3. CASE /\ f.sequence > last[o] /\ last' = [last EXCEPT ![o] = f.sequence]
             /\ accepted' = [accepted EXCEPT ![o] = Append(accepted[o], f)]
    <3>1. last'[o] = f.sequence /\ accepted'[o] = Append(accepted[o], f) /\ seen'[o] = seen[o]
      BY <1>1, <1>2, <2>3 DEF FrameTypes
    <3>2. /\ \A i \in DOMAIN accepted[o] : accepted[o][i].sequence \in Nat
          /\ \A i \in DOMAIN seen[o] : seen[o][i].sequence \in Nat
      <4>1. /\ \A i \in DOMAIN accepted[o] : accepted[o][i] \in Frames!FrameSet
            /\ \A i \in DOMAIN seen[o] : seen[o][i] \in Frames!FrameSet
        BY <1>4, ElementFacts
      <4>2. \A g \in Frames!FrameSet : g.sequence \in Nat
        BY DEF Frames!FrameSet
      <4> QED
        BY <4>1, <4>2
    <3>3. /\ \A i \in DOMAIN accepted[o] : accepted[o][i].sequence < f.sequence
          /\ \A i \in DOMAIN seen[o] : seen[o][i].sequence < f.sequence
      BY <1>1, <1>4, <1>5, <2>3, <3>2 DEF AcceptedRise
    <3>4. \A i, j \in DOMAIN accepted'[o] : i < j => accepted'[o][i].sequence < accepted'[o][j].sequence
      BY <1>1, <1>8, <3>1, <3>3 DEF AcceptedRise
    <3>5. /\ \A i \in DOMAIN seen'[o], j \in DOMAIN accepted'[o] :
               seen'[o][i].sequence < accepted'[o][j].sequence
          /\ \A i \in DOMAIN accepted'[o] : accepted'[o][i].sequence <= last'[o]
          /\ \A i \in DOMAIN seen'[o] : seen'[o][i].sequence <= last'[o]
      BY <1>1, <1>5, <1>8, <3>1, <3>2, <3>3 DEF AcceptedRise
    <3> QED
      BY ZenonT(60), <1>1, <1>2, <2>1, <3>1, <3>4, <3>5 DEF AcceptedRise
  <2> QED
    BY <1>7, <2>2, <2>3
<1>13. OwnersMatch'
  BY <1>1, <1>2, <1>10, OwnersShrink DEF OwnersMatch
<1>14. Counted'
  BY <1>2, CountsStay
<1> QED
  BY <1>9, <1>11, <1>12, <1>13, <1>14 DEF FramesInv

\* A listener is given the first of what was accepted, or nothing any more.
LEMMA ListenKeeps ==
  ASSUME FramesInv, NEW o \in Observer, Frames!Listen(o)
  PROVE  FramesInv'
<1>1. FrameTypes /\ NumberedOnce /\ AcceptedRise /\ OwnersMatch /\ Counted
  BY DEF FramesInv
<1>2. UNCHANGED << owner, observers, pc, schedule, by, outbox, channel, active, last, moved, changes >>
  BY DEF Frames!Listen, Frames!deliveryVars
<1>3. PICK f : f = Head(accepted[o])
  OBVIOUS
<1>4. accepted[o] \in Seq(Frames!FrameSet) /\ seen[o] \in Seq(Frames!FrameSet) /\ last[o] \in Nat
  BY <1>1 DEF FrameTypes
<1>5. /\ f \in Frames!FrameSet /\ 1 \in DOMAIN accepted[o] /\ f = accepted[o][1]
      /\ Tail(accepted[o]) \in Seq(Frames!FrameSet)
      /\ \A k \in DOMAIN Tail(accepted[o]) :
           k \in Nat /\ 1 < k + 1 /\ k + 1 \in DOMAIN accepted[o] /\ Tail(accepted[o])[k] = accepted[o][k + 1]
  BY <1>3, <1>4, TailFacts DEF Frames!Listen
<1>6. accepted' = [accepted EXCEPT ![o] = Tail(accepted[o])]
  BY DEF Frames!Listen
<1>7. \/ seen' = seen /\ rejected' = rejected
      \/ /\ seen' = [seen EXCEPT ![o] = Append(seen[o], f)]
         /\ rejected' \in {rejected, rejected \cup {o}}
  BY <1>3 DEF Frames!Listen
<1>8. /\ Append(seen[o], f) \in Seq(Frames!FrameSet) /\ Len(seen[o]) \in Nat
      /\ DOMAIN Append(seen[o], f) = DOMAIN seen[o] \cup {Len(seen[o]) + 1}
      /\ \A k \in DOMAIN seen[o] :
           Append(seen[o], f)[k] = seen[o][k] /\ k < Len(seen[o]) + 1 /\ k \in Nat
      /\ Append(seen[o], f)[Len(seen[o]) + 1] = f
  BY <1>4, <1>5, AppendFacts, ElementFacts
<1>9. FrameTypes'
  BY ZenonT(60), <1>1, <1>2, <1>5, <1>6, <1>7, <1>8 DEF FrameTypes
<1>10. \A p \in Observer : (Numbered(p))' \subseteq Numbered(p)
  <2> SUFFICES ASSUME NEW p \in Observer, NEW g \in (Numbered(p))'
               PROVE  g \in Numbered(p)
    OBVIOUS
  <2>1. f \in Numbered(o)
    BY <1>5 DEF Numbered, InQueues
  <2>2. CASE g \in {accepted'[p][k] : k \in DOMAIN accepted'[p]}
    <3>1. g \in {accepted[p][k] : k \in DOMAIN accepted[p]}
      BY <1>1, <1>5, <1>6, <2>2 DEF FrameTypes
    <3> QED
      BY <3>1 DEF Numbered, InQueues
  <2>3. CASE g \in {seen'[p][k] : k \in DOMAIN seen'[p]}
    <3>1. (p = o /\ g = f) \/ g \in {seen[p][k] : k \in DOMAIN seen[p]}
      <4>1. PICK k \in DOMAIN seen'[p] : g = seen'[p][k]
        BY <2>3
      <4>2. seen'[p] = seen[p] \/ (p = o /\ seen'[p] = Append(seen[o], f))
        BY <1>1, <1>7 DEF FrameTypes
      <4>3. CASE seen'[p] = seen[p]
        BY <4>1, <4>3
      <4>4. CASE p = o /\ seen'[p] = Append(seen[o], f)
        <5>1. k \in DOMAIN seen[o] \/ k = Len(seen[o]) + 1
          BY <1>8, <4>1, <4>4
        <5> QED
          BY <1>8, <4>1, <4>4, <5>1
      <4> QED
        BY <4>2, <4>3, <4>4
    <3> QED
      BY <2>1, <3>1 DEF Numbered, InQueues
  <2>4. CASE g \notin {accepted'[p][k] : k \in DOMAIN accepted'[p]}
                 \cup {seen'[p][k] : k \in DOMAIN seen'[p]}
    BY <1>2, <2>4 DEF Numbered, InQueues
  <2> QED
    BY <2>2, <2>3, <2>4
<1>11. NumberedOnce'
  BY <1>2, <1>10, NumberedShrinks
<1>12. AcceptedRise'
  <2> SUFFICES ASSUME NEW p \in Observer
               PROVE  /\ \A i, j \in DOMAIN seen'[p] : i < j => seen'[p][i].sequence < seen'[p][j].sequence
                      /\ \A i, j \in DOMAIN accepted'[p] :
                           i < j => accepted'[p][i].sequence < accepted'[p][j].sequence
                      /\ \A i \in DOMAIN seen'[p], j \in DOMAIN accepted'[p] :
                           seen'[p][i].sequence < accepted'[p][j].sequence
                      /\ \A i \in DOMAIN accepted'[p] : accepted'[p][i].sequence <= last'[p]
                      /\ \A i \in DOMAIN seen'[p] : seen'[p][i].sequence <= last'[p]
    BY DEF AcceptedRise
  <2>1. CASE p # o
    <3>1. accepted'[p] = accepted[p] /\ last'[p] = last[p] /\ seen'[p] = seen[p]
      BY <1>1, <1>2, <1>6, <1>7, <2>1 DEF FrameTypes
    <3> QED
      BY <1>1, <3>1 DEF AcceptedRise
  <2>2. CASE p = o
    <3>1. accepted'[o] = Tail(accepted[o]) /\ last'[o] = last[o]
      BY <1>1, <1>2, <1>6 DEF FrameTypes
    <3>2. seen'[o] = seen[o] \/ seen'[o] = Append(seen[o], f)
      BY <1>1, <1>7 DEF FrameTypes
    <3>3. /\ \A i, j \in DOMAIN accepted'[o] :
               i < j => accepted'[o][i].sequence < accepted'[o][j].sequence
          /\ \A i \in DOMAIN accepted'[o] :
               accepted'[o][i].sequence <= last'[o] /\ f.sequence < accepted'[o][i].sequence
          /\ \A i \in DOMAIN accepted'[o], j \in DOMAIN seen[o] :
               seen[o][j].sequence < accepted'[o][i].sequence
      BY <1>1, <1>5, <3>1 DEF AcceptedRise
    <3>4. /\ \A i, j \in DOMAIN seen[o] : i < j => seen[o][i].sequence < seen[o][j].sequence
          /\ \A i \in DOMAIN seen[o] : seen[o][i].sequence < f.sequence /\ seen[o][i].sequence <= last'[o]
          /\ f.sequence <= last'[o]
      BY <1>1, <1>5, <3>1 DEF AcceptedRise
    <3>5. CASE seen'[o] = seen[o]
      BY <2>2, <3>3, <3>4, <3>5
    <3>6. CASE seen'[o] = Append(seen[o], f)
      BY <1>8, <2>2, <3>3, <3>4, <3>6
    <3> QED
      BY <3>2, <3>5, <3>6
  <2> QED
    BY <2>1, <2>2
<1>13. OwnersMatch'
  BY <1>1, <1>2, <1>10, OwnersShrink DEF OwnersMatch
<1>14. Counted'
  BY <1>2, CountsStay
<1> QED
  BY <1>9, <1>11, <1>12, <1>13, <1>14 DEF FramesInv

\* Nothing is recorded, numbered or accepted at first.
LEMMA FramesBegin ==
  ASSUME Frames!Init
  PROVE  FramesInv
<1> USE DEF Frames!Init
<1>1. FrameTypes
  BY ReportsAssumption DEF FrameTypes
<1>2. \A o \in Observer : Numbered(o) = {}
  BY DEF Numbered, InQueues
<1>3. NumberedOnce
  BY <1>2 DEF NumberedOnce
<1>4. AcceptedRise /\ OwnersMatch /\ Counted
  BY <1>2 DEF AcceptedRise, OwnersMatch, Counted
<1> QED
  BY <1>1, <1>3, <1>4 DEF FramesInv

\* Every step of a delivery, of an observer or of an owner keeps the invariant.
LEMMA FramesStep ==
  ASSUME FramesInv, Frames!Next \/ UNCHANGED frameVars
  PROVE  FramesInv'
<1>1. CASE UNCHANGED frameVars
  <2>1. UNCHANGED << owner, observers, pc, schedule, by, outbox, channel, active, last, accepted, seen,
                     rejected, moved, changes >>
    BY <1>1 DEF frameVars
  <2>2. \A o \in Observer : (Numbered(o))' = Numbered(o)
    BY <2>1 DEF Numbered, InQueues
  <2>3. FrameTypes'
    BY <2>1 DEF FramesInv, FrameTypes
  <2>4. NumberedOnce'
    BY <2>1, <2>2, NumberedShrinks
  <2>5. AcceptedRise'
    BY <2>1 DEF FramesInv, AcceptedRise
  <2>6. OwnersMatch'
    BY <2>1, <2>2, OwnersShrink DEF FramesInv, OwnersMatch
  <2>7. Counted'
    BY <2>1, CountsStay
  <2> QED
    BY <2>3, <2>4, <2>5, <2>6, <2>7 DEF FramesInv
<1>2. CASE Frames!Next
  BY <1>2, ChangeOwnerKeeps, RecordKeeps, PublishKeeps, SendKeeps, SubscribeKeeps, LeaveKeeps,
     ReceiveKeeps, ListenKeeps DEF Frames!Next
<1> QED
  BY <1>1, <1>2

\* Listeners are given rising sequences, no result twice, and results of their own.
LEMMA FramesConsequences ==
  ASSUME FramesInv
  PROVE  Frames!TypeOK /\ Frames!SequencesRise /\ Frames!OwnersOnly
<1>1. FrameTypes /\ NumberedOnce /\ AcceptedRise /\ OwnersMatch /\ Counted
  BY DEF FramesInv
<1>2. \A o \in Observer : \A i \in DOMAIN seen[o] : seen[o][i] \in Numbered(o)
  BY DEF Numbered, InQueues
<1>3. Frames!SequencesRise
  <2> SUFFICES ASSUME NEW o \in Observer, NEW i \in DOMAIN seen[o], NEW j \in DOMAIN seen[o], i < j
               PROVE  /\ seen[o][i].sequence < seen[o][j].sequence
                      /\ seen[o][i].delivery # seen[o][j].delivery
    BY DEF Frames!SequencesRise
  <2>1. seen[o] \in Seq(Frames!FrameSet)
    BY <1>1 DEF FrameTypes
  <2>2. seen[o][i] \in Frames!FrameSet /\ seen[o][j] \in Frames!FrameSet
    BY <2>1, ElementFacts
  <2>3. seen[o][i].sequence \in Nat /\ seen[o][j].sequence \in Nat
    BY <2>2 DEF Frames!FrameSet
  <2>4. seen[o][i].sequence < seen[o][j].sequence
    BY <1>1 DEF AcceptedRise
  <2>5. seen[o][i] # seen[o][j]
    BY <2>3, <2>4
  <2> QED
    BY <1>1, <1>2, <2>4, <2>5 DEF NumberedOnce
<1>4. Frames!OwnersOnly
  BY <1>1, <1>2 DEF Frames!OwnersOnly, OwnersMatch
<1>5. Frames!TypeOK
  <2> DEFINE D == {d \in Delivery : pc[d] \in {"sending", "done"}}
             E == {d \in Delivery : pc[d] # "idle"}
  <2>1. IsFiniteSet(E) /\ D \subseteq E
    BY ReportsAssumption, FS_Subset
  <2>2. Cardinality(D) \in Nat /\ Cardinality(E) \in Nat /\ Cardinality(D) <= Cardinality(E)
    BY <2>1, FS_Subset, FS_CardinalityType
  <2>3. \A o \in Observer : observers[o] # None =>
          /\ observers[o].activation \in Activation /\ observers[o].sequence <= Cardinality(E)
    <3> SUFFICES ASSUME NEW o \in Observer, observers[o] # None
                 PROVE  /\ observers[o].activation \in Activation
                        /\ observers[o].sequence <= Cardinality(E)
      OBVIOUS
    <3>1. observers[o] \in Observed /\ observers[o].sequence <= Cardinality(D)
      BY <1>1 DEF FrameTypes, Counted
    <3> QED
      BY <2>2, <3>1 DEF Observed
  <2> QED
    <3>1. /\ owner \in [ScheduleId -> Activation \cup {None}]
          /\ pc \in [Delivery -> {"idle", "recorded", "sending", "done"}]
          /\ schedule \in [Delivery -> ScheduleId \cup {None}]
          /\ by \in [Delivery -> Activation \cup {None}]
          /\ \A d \in Delivery : outbox[d] \subseteq Frames!FrameSet
      BY <1>1 DEF FrameTypes
    <3>2. /\ \A o \in Observer :
               channel[o] \in Seq(Frames!FrameSet) /\ accepted[o] \in Seq(Frames!FrameSet)
          /\ active \in [Observer -> {"new", "open", "disposed"}]
          /\ rejected \in SUBSET Observer /\ moved \in SUBSET Delivery /\ changes \in 0..MaxChanges
      BY <1>1 DEF FrameTypes
    <3>3. \A o \in Observer : observers[o] # None =>
            /\ observers[o].activation \in Activation
            /\ observers[o].sequence <= Cardinality({d \in Delivery : pc[d] # "idle"})
      BY <2>3
    <3>4. Frames!Cardinality(E) = Cardinality(E)
      BY DEF Frames!Cardinality, Cardinality
    <3> QED
      BY <3>1, <3>2, <3>3, <3>4 DEF Frames!TypeOK
<1> QED
  BY <1>3, <1>4, <1>5

-----------------------------------------------------------------------------
(***************************************************************************)
(* Messages over the bridge.                                               *)
(***************************************************************************)

Route == Module \X Bridge!Family

\* The messages that the frontend has not finished with.
InFlight == {frames[k] : k \in DOMAIN frames} \cup ({current.call} \ {None})

BridgeTypes ==
  /\ family \in 0..MaxFamilies /\ bridge \in {"open", "removed", "shut", "withdrawn"}
  /\ queue \in [Route -> Seq(Call)] /\ worker \in [Route -> Requests \cup {None}]
  /\ pending \in [Correlation -> Requests \cup {None}] /\ late \subseteq Requests
  /\ frames \in Seq(Call)
  /\ caller \in [Call -> {"idle", "waiting", "done", "answered", "failed", "abandoned"}]
  /\ work \in [Call -> {"none", "queued", "framed", "handled", "rejected", "lost"}]
  /\ generation \in [Call -> 0..family] /\ handledBy \in [Call -> 0..family]
  /\ answeredBy \in [Call -> Requests \cup {None}]
  /\ client \in {"idle", "draining", "native", "committed", "disposed", "closing", "gone"}
  /\ client \in {"draining", "native"} => family < MaxFamilies
  /\ drain \in Nat /\ known \in 0..family /\ minimum = known
  /\ \/ current = Bridge!NoFrame
     \/ current \in [call : Call, phase : {"observe", "handle", "reply"}, family : 0..family]

\* A message is in one place: in the queue of its route, in one frame or at the frontend.
QueuesPlaced ==
  \A r \in Route : \A i \in DOMAIN queue[r] :
    /\ work[queue[r][i]] = "queued" /\ r = << Target[queue[r][i]], generation[queue[r][i]] >>
    /\ \A j \in DOMAIN queue[r] : queue[r][i] = queue[r][j] => i = j

PlacedOnce ==
  /\ \A c \in Call : caller[c] = "idle" => work[c] = "none" /\ handledBy[c] = 0
  /\ QueuesPlaced
  /\ \A i \in DOMAIN frames :
       /\ work[frames[i]] = "framed"
       /\ \A j \in DOMAIN frames : frames[i] = frames[j] => i = j
       /\ frames[i] # current.call

\* The one that is dispatched was found in the family it was routed to.
DispatchPlaced ==
  /\ current.phase = "observe" =>
       work[current.call] = "framed" /\ generation[current.call] = current.family
  /\ current.phase = "handle" => work[current.call] = "handled"
  /\ current.phase = "reply" =>
       work[current.call] \in {"handled", "rejected"} /\ current.call \in Requests

\* While the bridge is in the map, an identity has one request in flight, and the sender
\* that is stored for it is that request's or nobody's who waits.
OnePending ==
  /\ \A x \in Correlation : pending[x] # None => caller[pending[x]] # "idle"
  /\ client = "gone" => bridge # "open"
  /\ bridge = "open" => \A c \in InFlight \cap Requests :
       /\ pending[Identity[c]] # None
       /\ pending[Identity[c]] = c \/ caller[pending[Identity[c]]] # "waiting"
       /\ \A d \in InFlight \cap Requests : Identity[d] = Identity[c] => d = c

\* The frontend waits for no more dispatches than there are.
DrainBounded == drain <= Len(frames) + (IF current = Bridge!NoFrame THEN 0 ELSE 1)

OwnAnswers == Bridge!AnsweredByOwnFrame /\ Bridge!HandledByRouted

BridgeInv == BridgeTypes /\ PlacedOnce /\ DispatchPlaced /\ OnePending /\ DrainBounded /\ OwnAnswers

-----------------------------------------------------------------------------
\* What is in flight has a type, and what is in flight while it is dispatched is there.
LEMMA InFlightFacts ==
  ASSUME BridgeInv
  PROVE  /\ InFlight \subseteq Call
         /\ current = Bridge!NoFrame => current.call = None /\ current.phase = "none"
         /\ current # Bridge!NoFrame =>
              /\ current.call \in Call /\ current.call \in InFlight
              /\ current.phase \in {"observe", "handle", "reply"}
              /\ current.family \in 0..family
<1>1. frames \in Seq(Call)
  BY DEF BridgeInv, BridgeTypes
<1>2. \A k \in DOMAIN frames : frames[k] \in Call
  BY <1>1, ElementFacts
<1>3. current = Bridge!NoFrame \/ current \in [call : Call, phase : {"observe", "handle", "reply"},
                                               family : 0..family]
  BY DEF BridgeInv, BridgeTypes
<1> QED
  BY <1>2, <1>3, MessagesAssumption DEF InFlight, Bridge!NoFrame

\* A step that moves no message and answers none keeps the invariant: callers stop waiting,
\* senders are dropped when the bridge leaves the map, and reconciliations go on.
LEMMA ControlKeeps ==
  ASSUME BridgeInv,
         UNCHANGED << queue, frames, current, work, generation, answeredBy, handledBy >>,
         \A c \in Call : caller'[c] = caller[c]
                           \/ (caller[c] = "waiting" /\ caller'[c] \in {"failed", "abandoned"}),
         \A x \in Correlation : pending'[x] = pending[x] \/ (pending'[x] = None /\ bridge' # "open"),
         bridge' = bridge \/ bridge' # "open",
         client' = "gone" => bridge' # "open",
         drain' = drain \/ drain' \in Bridge!Chained,
         BridgeTypes'
  PROVE  BridgeInv'
<1>1. BridgeTypes /\ PlacedOnce /\ DispatchPlaced /\ OnePending /\ DrainBounded /\ OwnAnswers
  BY DEF BridgeInv
<1>2. InFlight' = InFlight
  BY DEF InFlight
<1>3. \A c \in Call : /\ caller'[c] = "idle" <=> caller[c] = "idle"
                      /\ caller'[c] = "waiting" => caller[c] = "waiting"
                      /\ caller'[c] = "answered" <=> caller[c] = "answered"
  OBVIOUS
<1>4. PlacedOnce'
  BY <1>1, <1>3 DEF PlacedOnce, QueuesPlaced
<1>5. DispatchPlaced'
  BY <1>1 DEF DispatchPlaced
<1>6. OnePending'
  <2>1. \A x \in Correlation : pending[x] # None => pending[x] \in Call
    BY <1>1, MessagesAssumption DEF BridgeTypes
  <2>2. \A x \in Correlation : pending'[x] # None => caller'[pending'[x]] # "idle"
    BY <1>1, <1>3, <2>1 DEF OnePending
  <2>3. ASSUME bridge' = "open"
        PROVE  bridge = "open" /\ \A x \in Correlation : pending'[x] = pending[x]
    BY <2>3
  <2>4. ASSUME bridge' = "open", NEW c \in InFlight \cap Requests
        PROVE  /\ pending'[Identity[c]] # None
               /\ pending'[Identity[c]] = c \/ caller'[pending'[Identity[c]]] # "waiting"
               /\ \A d \in InFlight \cap Requests : Identity[d] = Identity[c] => d = c
    <3>1. Identity[c] \in Correlation
      BY MessagesAssumption
    <3>2. bridge = "open" /\ pending'[Identity[c]] = pending[Identity[c]]
      BY <2>3, <2>4, <3>1
    <3>3. /\ pending[Identity[c]] # None
          /\ pending[Identity[c]] = c \/ caller[pending[Identity[c]]] # "waiting"
          /\ \A d \in InFlight \cap Requests : Identity[d] = Identity[c] => d = c
      BY <1>1, <3>2 DEF OnePending
    <3> QED
      BY <1>3, <2>1, <3>1, <3>2, <3>3
  <2> QED
    BY <1>2, <2>2, <2>4 DEF OnePending
<1>7. DrainBounded'
  <2>1. frames \in Seq(Call)
    BY <1>1 DEF BridgeTypes
  <2>2. Len(frames) \in Nat
    BY <2>1, ElementFacts
  <2> QED
    BY <1>1, <2>2 DEF DrainBounded, Bridge!Chained
<1>8. OwnAnswers'
  BY <1>1, <1>3 DEF OwnAnswers, Bridge!AnsweredByOwnFrame, Bridge!HandledByRouted
<1> QED
  BY <1>4, <1>5, <1>6, <1>7, <1>8 DEF BridgeInv

\* Callers that give up, workers that do, the steps of a reconciliation and of the close.
LEMMA ReconcilingKeeps ==
  ASSUME BridgeInv,
         \/ \E c \in Call : Bridge!Abandon(c)
         \/ \E r \in Route : Bridge!FreeWorker(r)
         \/ Bridge!Shutdown \/ Bridge!Withdraw \/ Bridge!Reconciling
         \/ Bridge!Reconcile \/ Bridge!Dispose \/ Bridge!Close
  PROVE  BridgeInv'
<1>1. BridgeTypes /\ OnePending
  BY DEF BridgeInv
<1>2. Len(frames) \in Nat
  <2>1. frames \in Seq(Call)
    BY <1>1 DEF BridgeTypes
  <2> QED
    BY <2>1, ElementFacts
<1>3. Bridge!Chained \subseteq Nat
  BY <1>2 DEF Bridge!Chained
<1> USE DEF Bridge!busVars, Bridge!nativeVars, Bridge!callVars, Bridge!clientVars
<1>4. ASSUME NEW c \in Call, Bridge!Abandon(c)
      PROVE  BridgeInv'
  <2>1. /\ caller[c] = "waiting" /\ caller' = [caller EXCEPT ![c] = "abandoned"]
        /\ UNCHANGED << queue, frames, current, work, generation, answeredBy, handledBy, pending, bridge,
                        client, drain, family, worker, late, known, minimum >>
    BY <1>4 DEF Bridge!Abandon
  <2>2. BridgeTypes'
    BY <1>1, <2>1 DEF BridgeTypes
  <2>3. \A d \in Call : caller'[d] = caller[d]
                          \/ (caller[d] = "waiting" /\ caller'[d] \in {"failed", "abandoned"})
    BY <1>1, <2>1 DEF BridgeTypes
  <2> QED
    BY <1>1, <2>1, <2>2, <2>3, ControlKeeps DEF OnePending
<1>5. ASSUME NEW r \in Route, Bridge!FreeWorker(r)
      PROVE  BridgeInv'
  <2>1. /\ worker' = [worker EXCEPT ![r] = None]
        /\ UNCHANGED << queue, frames, current, work, generation, answeredBy, handledBy, pending, bridge,
                        client, drain, family, caller, late, known, minimum >>
    BY <1>5 DEF Bridge!FreeWorker
  <2>2. BridgeTypes'
    BY <1>1, <2>1 DEF BridgeTypes
  <2> QED
    BY <1>1, <2>1, <2>2, ControlKeeps DEF OnePending
<1>6. CASE Bridge!Shutdown
  <2> DEFINE failed == {pending[x] : x \in Correlation} \ {None}
  <2>1. /\ bridge = "removed" /\ bridge' = "shut" /\ pending' = [x \in Correlation |-> None]
        /\ caller' = [c \in Call |-> IF c \in failed /\ caller[c] = "waiting" THEN "failed"
                                     ELSE caller[c]]
        /\ worker' = [r \in DOMAIN worker |-> IF worker[r] \in failed THEN None ELSE worker[r]]
        /\ UNCHANGED << queue, frames, current, work, generation, answeredBy, handledBy,
                        client, drain, family, late, known, minimum >>
    BY <1>6 DEF Bridge!Shutdown
  <2> HIDE DEF failed
  <2>2. \A c \in Call : caller'[c] = caller[c]
                          \/ (caller[c] = "waiting" /\ caller'[c] \in {"failed", "abandoned"})
    BY <2>1
  <2>3. caller' \in [Call -> {"idle", "waiting", "done", "answered", "failed", "abandoned"}]
    BY <1>1, <2>1 DEF BridgeTypes
  <2>4. worker' \in [Route -> Requests \cup {None}]
    BY <1>1, <2>1 DEF BridgeTypes
  <2>5. BridgeTypes'
    BY <1>1, <2>1, <2>3, <2>4 DEF BridgeTypes
  <2> QED
    BY <2>1, <2>2, <2>5, ControlKeeps
<1>7. CASE Bridge!Withdraw
  <2>1. /\ bridge = "shut" /\ bridge' = "withdrawn"
        /\ UNCHANGED << queue, frames, current, work, generation, answeredBy, handledBy, pending, caller,
                        client, drain, family, worker, late, known, minimum >>
    BY <1>7 DEF Bridge!Withdraw
  <2>2. BridgeTypes'
    BY <1>1, <2>1 DEF BridgeTypes
  <2> QED
    BY <2>1, <2>2, ControlKeeps
<1>8. CASE Bridge!CloseNative
  <2>1. /\ client' = "gone" /\ bridge' = "removed"
        /\ UNCHANGED << queue, frames, current, work, generation, answeredBy, handledBy, pending, caller,
                        drain, family, worker, late, known, minimum >>
    BY <1>8 DEF Bridge!CloseNative
  <2>2. BridgeTypes'
    BY <1>1, <2>1 DEF BridgeTypes
  <2> QED
    BY <2>1, <2>2, ControlKeeps
<1>9. CASE Bridge!Publish
  <2>1. /\ client = "native" /\ client' = "committed" /\ family' = family + 1
        /\ UNCHANGED << queue, frames, current, work, generation, answeredBy, handledBy, pending, caller,
                        drain, bridge, worker, late, known, minimum >>
    BY <1>9 DEF Bridge!Publish
  <2>2. 0..family \subseteq 0..family' /\ family' \in 0..MaxFamilies
    BY <1>1, <2>1, MessagesAssumption DEF BridgeTypes
  <2>3. BridgeTypes'
    BY <1>1, <2>1, <2>2 DEF BridgeTypes
  <2> QED
    BY <2>1, <2>3, ControlKeeps
<1>10. CASE Bridge!ReconcileNative \/ Bridge!Rejected \/ Bridge!Install \/ Bridge!Reconcile
            \/ Bridge!Dispose \/ Bridge!Close
  <2>1. /\ client' \in {"idle", "draining", "native", "disposed", "closing"}
        /\ drain' = drain \/ drain' \in Bridge!Chained
        /\ client' \in {"draining", "native"} => family < MaxFamilies
        /\ (known' = known /\ minimum' = minimum) \/ (known' = family /\ minimum' = family)
        /\ UNCHANGED << queue, frames, current, work, generation, answeredBy, handledBy, pending, caller,
                        bridge, family, worker, late >>
    BY <1>1, <1>10 DEF BridgeTypes, Bridge!ReconcileNative, Bridge!Rejected, Bridge!Install,
          Bridge!Reconcile,
                 Bridge!Dispose, Bridge!Close
  <2>2. drain' \in Nat
    BY <1>1, <1>3, <2>1 DEF BridgeTypes
  <2>3. family \in 0..family
    <3>1. family \in 0..MaxFamilies
      BY <1>1 DEF BridgeTypes
    <3> QED
      BY <3>1, MessagesAssumption
  <2>4. BridgeTypes'
    BY <1>1, <2>1, <2>2, <2>3 DEF BridgeTypes
  <2> QED
    BY <2>1, <2>4, ControlKeeps
<1> QED
  BY <1>4, <1>5, <1>6, <1>7, <1>8, <1>9, <1>10 DEF Bridge!Reconciling

-----------------------------------------------------------------------------
\* A call is queued at its route, or refused when there is none.
LEMMA CallKeeps ==
  ASSUME BridgeInv, NEW c \in Call, Bridge!Start(c)
  PROVE  BridgeInv'
<1>1. BridgeTypes /\ PlacedOnce /\ DispatchPlaced /\ OnePending /\ DrainBounded /\ OwnAnswers
  BY DEF BridgeInv
<1>2. /\ caller[c] = "idle"
      /\ UNCHANGED << family, worker, bridge, pending, late, answeredBy, handledBy, frames, client,
                      drain, known, minimum, current >>
  BY DEF Bridge!Start, Bridge!nativeVars, Bridge!clientVars
<1>3. work[c] = "none" /\ handledBy[c] = 0
  BY <1>1, <1>2 DEF PlacedOnce, QueuesPlaced
<1>4. \/ /\ caller' = [caller EXCEPT ![c] = "failed"] /\ UNCHANGED << work, generation, queue >>
      \/ /\ family > 0 /\ caller' = [caller EXCEPT ![c] = IF c \in Requests THEN "waiting" ELSE "done"]
         /\ work' = [work EXCEPT ![c] = "queued"]
         /\ generation' = [generation EXCEPT ![c] = family]
         /\ queue' = [queue EXCEPT ![<< Target[c], family >>] = Append(@, c)]
  BY DEF Bridge!Start, Bridge!Routed
<1>5. /\ \A d \in Call : d # c => caller'[d] = caller[d] /\ work'[d] = work[d]
                                  /\ generation'[d] = generation[d]
      /\ caller'[c] \in {"failed", "waiting", "done"}
  BY <1>1, <1>4 DEF BridgeTypes
<1>6. \A i \in DOMAIN frames : frames[i] \in Call /\ frames[i] # c
  <2>1. frames \in Seq(Call)
    BY <1>1 DEF BridgeTypes
  <2> QED
    BY <1>1, <1>3, <2>1, ElementFacts DEF PlacedOnce, QueuesPlaced
<1>7. current # Bridge!NoFrame => current.call \in Call /\ current.call # c
  BY <1>1, <1>3, InFlightFacts DEF DispatchPlaced
<1>8. \A r \in Route : queue[r] \in Seq(Call) /\ \A i \in DOMAIN queue[r] : queue[r][i] \in Call /\ queue[r][i] # c
  <2> SUFFICES ASSUME NEW r \in Route
               PROVE  queue[r] \in Seq(Call) /\ \A i \in DOMAIN queue[r] : queue[r][i] \in Call /\ queue[r][i] # c
    OBVIOUS
  <2>1. queue[r] \in Seq(Call)
    BY <1>1 DEF BridgeTypes
  <2> QED
    BY <1>1, <1>3, <2>1, ElementFacts DEF PlacedOnce, QueuesPlaced
<1>9. CASE UNCHANGED << work, generation, queue >>
  <2>1. BridgeTypes'
    BY <1>1, <1>2, <1>4, <1>9 DEF BridgeTypes
  <2>2. PlacedOnce'
    BY <1>1, <1>2, <1>5, <1>9 DEF PlacedOnce, QueuesPlaced
  <2>3. DispatchPlaced'
    BY <1>1, <1>2, <1>9 DEF DispatchPlaced
  <2> QED
    <3>1. InFlight' = InFlight /\ InFlight \subseteq Call
      BY <1>2, InFlightFacts DEF InFlight
    <3>2. \A x \in Correlation : pending[x] # None => pending[x] \in Call /\ pending[x] # c
      BY <1>1, <1>2, MessagesAssumption DEF BridgeTypes, OnePending
    <3>3. OnePending'
      BY <1>1, <1>2, <1>5, <3>1, <3>2, MessagesAssumption DEF OnePending
    <3>4. DrainBounded'
      BY <1>1, <1>2 DEF DrainBounded
    <3>5. OwnAnswers'
      BY <1>1, <1>2, <1>5, <1>9
         DEF OwnAnswers, Bridge!AnsweredByOwnFrame, Bridge!HandledByRouted
    <3> QED
      BY <2>1, <2>2, <2>3, <3>3, <3>4, <3>5 DEF BridgeInv
<1>10. CASE ~ UNCHANGED << work, generation, queue >>
  <2> DEFINE s == << Target[c], family >>
  <2>1. /\ family > 0 /\ caller' = [caller EXCEPT ![c] = IF c \in Requests THEN "waiting" ELSE "done"]
        /\ work' = [work EXCEPT ![c] = "queued"]
        /\ generation' = [generation EXCEPT ![c] = family]
        /\ queue' = [queue EXCEPT ![s] = Append(@, c)]
    BY <1>4, <1>10
  <2>2. s \in Route /\ family \in 1..MaxFamilies
    <3>1. family \in 1..MaxFamilies
      BY <1>1, <2>1, MessagesAssumption DEF BridgeTypes
    <3> QED
      BY <3>1, MessagesAssumption DEF Route, Bridge!Family
  <2>3. /\ queue'[s] = Append(queue[s], c) /\ work'[c] = "queued" /\ generation'[c] = family
        /\ \A r \in Route : r # s => queue'[r] = queue[r]
    BY <1>1, <2>1, <2>2 DEF BridgeTypes
  <2> HIDE DEF s
  <2>4. /\ Append(queue[s], c) \in Seq(Call) /\ Len(queue[s]) \in Nat
        /\ DOMAIN Append(queue[s], c) = DOMAIN queue[s] \cup {Len(queue[s]) + 1}
        /\ \A k \in DOMAIN queue[s] : Append(queue[s], c)[k] = queue[s][k]
        /\ Append(queue[s], c)[Len(queue[s]) + 1] = c
    BY <1>8, <2>2, AppendFacts
  <2>5. BridgeTypes'
    <3>1. queue' \in [Route -> Seq(Call)]
      BY <1>1, <2>1, <2>3, <2>4 DEF BridgeTypes
    <3>2. /\ caller' \in [Call -> {"idle", "waiting", "done", "answered", "failed", "abandoned"}]
          /\ work' \in [Call -> {"none", "queued", "framed", "handled", "rejected", "lost"}]
          /\ generation' \in [Call -> 0..family]
      <4>1. family \in 0..family
        BY <2>2, MessagesAssumption
      <4> QED
        BY <1>1, <2>1, <4>1 DEF BridgeTypes
    <3> QED
      BY <1>1, <1>2, <3>1, <3>2 DEF BridgeTypes
  <2>6. PlacedOnce'
    <3>1. \A d \in Call : caller'[d] = "idle" => work'[d] = "none" /\ handledBy'[d] = 0
      BY <1>1, <1>2, <1>5 DEF PlacedOnce, QueuesPlaced
    <3>2. ASSUME NEW r \in Route, NEW i \in DOMAIN queue'[r]
          PROVE  /\ work'[queue'[r][i]] = "queued"
                 /\ r = << Target[queue'[r][i]], generation'[queue'[r][i]] >>
                 /\ \A j \in DOMAIN queue'[r] : queue'[r][i] = queue'[r][j] => i = j
      <4>1. CASE r # s
        <5>1. queue'[r] = queue[r] /\ queue[r][i] \in Call /\ queue[r][i] # c
          BY <1>8, <2>3, <3>2, <4>1
        <5>2. work'[queue[r][i]] = work[queue[r][i]] /\ generation'[queue[r][i]] = generation[queue[r][i]]
          BY <1>5, <5>1
        <5>3. /\ work[queue[r][i]] = "queued" /\ r = << Target[queue[r][i]], generation[queue[r][i]] >>
              /\ \A j \in DOMAIN queue[r] : queue[r][i] = queue[r][j] => i = j
          BY <1>1, <3>2, <5>1 DEF PlacedOnce, QueuesPlaced
        <5> QED
          BY <5>1, <5>2, <5>3
      <4>2. CASE r = s /\ i \in DOMAIN queue[s]
        <5>1. queue'[r][i] = queue[s][i] /\ queue[s][i] \in Call /\ queue[s][i] # c
          BY <1>8, <2>2, <2>3, <2>4, <4>2
        <5>2. work'[queue[s][i]] = work[queue[s][i]] /\ generation'[queue[s][i]] = generation[queue[s][i]]
          BY <1>5, <5>1
        <5>3. /\ work[queue[s][i]] = "queued" /\ s = << Target[queue[s][i]], generation[queue[s][i]] >>
              /\ \A j \in DOMAIN queue[s] : queue[s][i] = queue[s][j] => i = j
          BY <1>1, <2>2, <4>2 DEF PlacedOnce, QueuesPlaced
        <5>4. ASSUME NEW j \in DOMAIN queue'[r], queue'[r][i] = queue'[r][j]
              PROVE  i = j
          <6>1. j \in DOMAIN queue[s] \/ queue'[r][j] = c
            BY <2>3, <2>4, <4>2, <5>4
          <6>2. j \in DOMAIN queue[s]
            BY <5>1, <5>4, <6>1
          <6>3. queue[s][j] = queue'[r][j]
            BY <2>3, <2>4, <4>2, <6>2
          <6> QED
            BY <5>1, <5>3, <5>4, <6>2, <6>3
        <5> QED
          BY <4>2, <5>1, <5>2, <5>3, <5>4
      <4>3. CASE r = s /\ i = Len(queue[s]) + 1
        <5>1. queue'[r][i] = c /\ \A j \in DOMAIN queue[s] : queue'[r][j] # c
          BY <1>8, <2>2, <2>3, <2>4, <4>3
        <5> QED
          BY <2>3, <2>4, <4>3, <5>1 DEF s
      <4> QED
        BY <2>3, <2>4, <3>2, <4>1, <4>2, <4>3
    <3>3. ASSUME NEW i \in DOMAIN frames
          PROVE  /\ work'[frames[i]] = "framed"
                 /\ \A j \in DOMAIN frames : frames[i] = frames[j] => i = j
                 /\ frames[i] # current.call
      BY <1>1, <1>5, <1>6, <3>3 DEF PlacedOnce, QueuesPlaced
    <3> QED
      BY <1>2, <3>1, <3>2, <3>3 DEF PlacedOnce, QueuesPlaced
  <2>7. DispatchPlaced'
    <3>1. CASE current = Bridge!NoFrame
      BY <1>2, <3>1 DEF DispatchPlaced, Bridge!NoFrame
    <3>2. CASE current # Bridge!NoFrame
      BY <1>1, <1>2, <1>5, <1>7, <3>2 DEF DispatchPlaced
    <3> QED
      BY <3>1, <3>2
  <2> QED
    <3>1. InFlight' = InFlight /\ InFlight \subseteq Call
      BY <1>2, InFlightFacts DEF InFlight
    <3>2. \A x \in Correlation : pending[x] # None => pending[x] \in Call /\ pending[x] # c
      BY <1>1, <1>2, MessagesAssumption DEF BridgeTypes, OnePending
    <3>3. OnePending'
      BY <1>1, <1>2, <1>5, <3>1, <3>2, MessagesAssumption DEF OnePending
    <3>4. DrainBounded'
      BY <1>1, <1>2 DEF DrainBounded
    <3>5. OwnAnswers'
      BY <1>1, <1>2, <1>3, <1>5
         DEF OwnAnswers, Bridge!AnsweredByOwnFrame, Bridge!HandledByRouted
    <3> QED
      BY <2>5, <2>6, <2>7, <3>3, <3>4, <3>5 DEF BridgeInv
<1> QED
  BY <1>9, <1>10

\* The head of a queue is at that place only, and what follows it stays in order.
LEMMA TakenFacts ==
  ASSUME BridgeInv, NEW r \in Route, queue[r] # << >>, NEW c, c = Head(queue[r]),
         queue' = [queue EXCEPT ![r] = Tail(@)], generation' = generation,
         \A d \in Call : d # c => work'[d] = work[d]
  PROVE  /\ c \in Call /\ work[c] = "queued" /\ caller[c] # "idle"
         /\ queue' \in [Route -> Seq(Call)]
         /\ QueuesPlaced'
<1>1. /\ queue \in [Route -> Seq(Call)] /\ queue[r] \in Seq(Call)
      /\ \A d \in Call : caller[d] = "idle" => work[d] = "none"
      /\ \A s \in Route : \A i \in DOMAIN queue[s] :
           /\ work[queue[s][i]] = "queued" /\ s = << Target[queue[s][i]], generation[queue[s][i]] >>
           /\ \A j \in DOMAIN queue[s] : queue[s][i] = queue[s][j] => i = j
  BY DEF BridgeInv, BridgeTypes, PlacedOnce, QueuesPlaced
<1>2. /\ Tail(queue[r]) \in Seq(Call) /\ 1 \in DOMAIN queue[r] /\ c = queue[r][1] /\ c \in Call
      /\ \A k \in DOMAIN Tail(queue[r]) :
           k \in Nat /\ 1 < k + 1 /\ k + 1 \in DOMAIN queue[r] /\ Tail(queue[r])[k] = queue[r][k + 1]
  BY <1>1, TailFacts
<1>3. work[c] = "queued" /\ r = << Target[c], generation[c] >>
  BY <1>1, <1>2
<1>4. caller[c] # "idle"
  BY <1>1, <1>2, <1>3
<1>5. queue' \in [Route -> Seq(Call)] /\ queue'[r] = Tail(queue[r])
      /\ \A s \in Route : s # r => queue'[s] = queue[s]
  BY <1>1, <1>2
<1>6. ASSUME NEW s \in Route, NEW i \in DOMAIN queue'[s]
      PROVE  /\ work'[queue'[s][i]] = "queued"
             /\ s = << Target[queue'[s][i]], generation'[queue'[s][i]] >>
             /\ \A j \in DOMAIN queue'[s] : queue'[s][i] = queue'[s][j] => i = j
  <2>1. CASE s = r
    <3>1. i \in DOMAIN Tail(queue[r]) /\ queue'[s][i] = queue[r][i + 1] /\ i + 1 \in DOMAIN queue[r]
      BY <1>2, <1>5, <1>6, <2>1
    <3>2. queue[r][i + 1] # c
      BY <1>1, <1>2, <3>1
    <3>3. queue[r][i + 1] \in Call
      BY <1>1, <3>1, ElementFacts
    <3>4. work'[queue[r][i + 1]] = "queued" /\ r = << Target[queue[r][i + 1]], generation[queue[r][i + 1]] >>
      BY <1>1, <3>1, <3>2, <3>3
    <3>5. ASSUME NEW j \in DOMAIN queue'[s], queue'[s][i] = queue'[s][j]
          PROVE  i = j
      <4>1. j \in DOMAIN Tail(queue[r]) /\ queue'[s][j] = queue[r][j + 1] /\ j + 1 \in DOMAIN queue[r]
        BY <1>2, <1>5, <2>1, <3>5
      <4>2. i + 1 = j + 1 /\ i \in Nat /\ j \in Nat
        BY <1>1, <1>2, <3>1, <3>5, <4>1
      <4> QED
        BY <4>2
    <3> QED
      BY <2>1, <3>1, <3>4, <3>5
  <2>2. CASE s # r
    <3>1. queue'[s] = queue[s] /\ queue[s] \in Seq(Call)
      BY <1>1, <1>5, <2>2
    <3>2. queue[s][i] \in Call
      BY <1>6, <3>1, ElementFacts
    <3>3. /\ work[queue[s][i]] = "queued" /\ s = << Target[queue[s][i]], generation[queue[s][i]] >>
          /\ \A j \in DOMAIN queue[s] : queue[s][i] = queue[s][j] => i = j
      BY <1>1, <1>6, <3>1
    <3>4. queue[s][i] # c
      BY <1>3, <2>2, <3>3
    <3> QED
      BY <3>1, <3>2, <3>3, <3>4
  <2> QED
    BY <2>1, <2>2
<1>7. QueuesPlaced'
  BY <1>6 DEF QueuesPlaced
<1> QED
  BY ZenonT(60), <1>2, <1>3, <1>4, <1>5, <1>7

\* A message that goes to no frame: a refused request, or one that was given up.
LEMMA LoseKeeps ==
  ASSUME BridgeInv, NEW r \in Route, queue[r] # << >>, NEW c, c = Head(queue[r]),
         queue' = [queue EXCEPT ![r] = Tail(@)], work' = [work EXCEPT ![c] = "lost"],
         UNCHANGED << family, bridge, generation, answeredBy, handledBy, frames, client, drain,
                      known, minimum, current, late >>,
         worker' \in [Route -> Requests \cup {None}],
         caller' \in [Call -> {"idle", "waiting", "done", "answered", "failed", "abandoned"}],
         \A d \in Call : caller'[d] = caller[d] \/ (caller[d] = "waiting" /\ caller'[d] = "failed"),
         \/ pending' = pending
         \/ /\ c \in Requests /\ pending[Identity[c]] # None /\ caller'[c] # "waiting"
            /\ pending' = [pending EXCEPT ![Identity[c]] = c]
  PROVE  BridgeInv'
<1>1. BridgeTypes /\ PlacedOnce /\ DispatchPlaced /\ OnePending /\ DrainBounded /\ OwnAnswers
  BY DEF BridgeInv
<1>2. generation' = generation /\ \A d \in Call : d # c => work'[d] = work[d]
  BY <1>1 DEF BridgeTypes
<1>3. /\ c \in Call /\ work[c] = "queued" /\ caller[c] # "idle"
      /\ queue' \in [Route -> Seq(Call)] /\ QueuesPlaced'
  BY ZenonT(60), <1>2, TakenFacts
<1>4. \A d \in Call : /\ caller'[d] = "idle" <=> caller[d] = "idle"
                      /\ caller'[d] = "waiting" => caller[d] = "waiting"
                      /\ caller'[d] = "answered" <=> caller[d] = "answered"
  OBVIOUS
<1>5. BridgeTypes'
  <2>1. work' \in [Call -> {"none", "queued", "framed", "handled", "rejected", "lost"}]
    BY <1>1 DEF BridgeTypes
  <2>2. pending' \in [Correlation -> Requests \cup {None}]
    BY <1>1 DEF BridgeTypes
  <2> QED
    BY <1>1, <1>3, <2>1, <2>2 DEF BridgeTypes
<1>6. \A i \in DOMAIN frames : work'[frames[i]] = "framed"
  <2>1. frames \in Seq(Call)
    BY <1>1 DEF BridgeTypes
  <2>2. \A i \in DOMAIN frames : frames[i] \in Call /\ work[frames[i]] = "framed"
    BY <1>1, <2>1, ElementFacts DEF PlacedOnce
  <2> QED
    BY <1>2, <1>3, <2>2
<1>7. PlacedOnce'
  <2>1. \A d \in Call : caller'[d] = "idle" => work'[d] = "none" /\ handledBy'[d] = 0
    BY <1>1, <1>2, <1>3, <1>4 DEF PlacedOnce
  <2>2. \A i \in DOMAIN frames' :
          /\ work'[frames'[i]] = "framed"
          /\ \A j \in DOMAIN frames' : frames'[i] = frames'[j] => i = j
          /\ frames'[i] # current'.call
    BY <1>1, <1>6 DEF PlacedOnce
  <2> QED
    BY <1>3, <2>1, <2>2 DEF PlacedOnce
<1>8. DispatchPlaced'
  <2>1. CASE current = Bridge!NoFrame
    BY <2>1 DEF DispatchPlaced, Bridge!NoFrame
  <2>2. CASE current # Bridge!NoFrame
    <3>1. current.call \in Call /\ current.call # c
      BY <1>1, <1>3, <2>2, InFlightFacts DEF DispatchPlaced
    <3> QED
      BY <1>1, <1>2, <3>1 DEF DispatchPlaced
  <2> QED
    BY <2>1, <2>2
<1>9. OnePending'
  <2>1. InFlight' = InFlight /\ InFlight \subseteq Call
    BY InFlightFacts DEF InFlight
  <2>2. \A x \in Correlation : /\ pending[x] # None => pending[x] \in Call
                               /\ pending'[x] # None => pending'[x] \in Call
                               /\ pending[x] # None => pending'[x] # None
                               /\ pending'[x] = pending[x] \/ (pending'[x] = c /\ caller'[c] # "waiting")
    BY <1>1, <1>3, MessagesAssumption DEF BridgeTypes
  <2>3. \A x \in Correlation : pending'[x] # None => caller'[pending'[x]] # "idle"
    BY <1>1, <1>3, <1>4, <2>2 DEF OnePending
  <2>4. ASSUME bridge = "open", NEW d \in InFlight \cap Requests
        PROVE  /\ pending'[Identity[d]] # None
               /\ pending'[Identity[d]] = d \/ caller'[pending'[Identity[d]]] # "waiting"
               /\ \A e \in InFlight \cap Requests : Identity[e] = Identity[d] => e = d
    <3>1. Identity[d] \in Correlation
      BY <2>1, MessagesAssumption
    <3>2. /\ pending[Identity[d]] # None
          /\ pending[Identity[d]] = d \/ caller[pending[Identity[d]]] # "waiting"
          /\ \A e \in InFlight \cap Requests : Identity[e] = Identity[d] => e = d
      BY <1>1, <2>4 DEF OnePending
    <3> QED
      BY <1>4, <2>2, <3>1, <3>2
  <2> QED
    BY <1>1, <2>1, <2>3, <2>4 DEF OnePending
<1>10. DrainBounded'
  BY <1>1 DEF DrainBounded
<1>11. OwnAnswers'
  BY <1>1, <1>4 DEF OwnAnswers, Bridge!AnsweredByOwnFrame, Bridge!HandledByRouted
<1> QED
  BY <1>5, <1>7, <1>8, <1>9, <1>10, <1>11 DEF BridgeInv

\* A message that goes to a frame: a send, or a request whose identity is free.
LEMMA FrameKeeps ==
  ASSUME BridgeInv, NEW r \in Route, queue[r] # << >>, NEW c, c = Head(queue[r]),
         queue' = [queue EXCEPT ![r] = Tail(@)], work' = [work EXCEPT ![c] = "framed"],
         frames' = Append(frames, c),
         UNCHANGED << family, bridge, generation, answeredBy, handledBy, caller, client, drain,
                      known, minimum, current >>,
         worker' \in [Route -> Requests \cup {None}], late' \subseteq Requests,
         \/ c \notin Requests /\ pending' = pending
         \/ /\ c \in Requests /\ pending[Identity[c]] = None
            /\ pending' = [pending EXCEPT ![Identity[c]] = c]
  PROVE  BridgeInv'
<1>1. BridgeTypes /\ PlacedOnce /\ DispatchPlaced /\ OnePending /\ DrainBounded /\ OwnAnswers
  BY DEF BridgeInv
<1>2. generation' = generation /\ \A d \in Call : d # c => work'[d] = work[d]
  BY <1>1 DEF BridgeTypes
<1>3. /\ c \in Call /\ work[c] = "queued" /\ caller[c] # "idle"
      /\ queue' \in [Route -> Seq(Call)] /\ QueuesPlaced'
  BY <1>2, TakenFacts
<1>4. frames \in Seq(Call)
  BY <1>1 DEF BridgeTypes
<1>5. /\ frames' \in Seq(Call) /\ Len(frames) \in Nat /\ Len(frames') = Len(frames) + 1
      /\ DOMAIN frames' = DOMAIN frames \cup {Len(frames) + 1}
      /\ \A k \in DOMAIN frames : frames'[k] = frames[k]
      /\ frames'[Len(frames) + 1] = c
  BY <1>3, <1>4, AppendFacts, ElementFacts
<1>6. work'[c] = "framed"
  BY <1>1, <1>3 DEF BridgeTypes
<1>7. BridgeTypes'
  <2>1. work' \in [Call -> {"none", "queued", "framed", "handled", "rejected", "lost"}]
    BY <1>1 DEF BridgeTypes
  <2>2. pending' \in [Correlation -> Requests \cup {None}]
    BY ZenonT(60), <1>1 DEF BridgeTypes
  <2> QED
    BY <1>1, <1>3, <1>5, <2>1, <2>2 DEF BridgeTypes
<1>8. \A i \in DOMAIN frames : frames[i] \in Call /\ frames[i] # c /\ work'[frames[i]] = "framed"
  <2>1. \A i \in DOMAIN frames : frames[i] \in Call /\ work[frames[i]] = "framed"
    BY <1>1, <1>4, ElementFacts DEF PlacedOnce
  <2> QED
    BY <1>2, <1>3, <2>1
<1>9. current.call # c
  <2>1. CASE current = Bridge!NoFrame
    BY <1>3, <2>1, MessagesAssumption, InFlightFacts
  <2>2. CASE current # Bridge!NoFrame
    BY <1>1, <1>3, <2>2, InFlightFacts DEF DispatchPlaced
  <2> QED
    BY <2>1, <2>2
<1>10. PlacedOnce'
  <2>1. \A d \in Call : caller'[d] = "idle" => work'[d] = "none" /\ handledBy'[d] = 0
    BY <1>1, <1>2, <1>3 DEF PlacedOnce
  <2>2. ASSUME NEW i \in DOMAIN frames'
        PROVE  /\ work'[frames'[i]] = "framed"
               /\ \A j \in DOMAIN frames' : frames'[i] = frames'[j] => i = j
               /\ frames'[i] # current'.call
    <3>1. CASE i \in DOMAIN frames
      BY <1>1, <1>5, <1>8, <3>1 DEF PlacedOnce
    <3>2. CASE i = Len(frames) + 1
      BY <1>5, <1>6, <1>8, <1>9, <3>2
    <3> QED
      BY <1>5, <2>2, <3>1, <3>2
  <2> QED
    BY <1>3, <2>1, <2>2 DEF PlacedOnce
<1>11. DispatchPlaced'
  <2>1. CASE current = Bridge!NoFrame
    BY <2>1 DEF DispatchPlaced, Bridge!NoFrame
  <2>2. CASE current # Bridge!NoFrame
    BY <1>1, <1>2, <1>9, <2>2, InFlightFacts DEF DispatchPlaced
  <2> QED
    BY <2>1, <2>2
<1>12. OnePending'
  <2>1. InFlight' = InFlight \cup {c} /\ InFlight \subseteq Call
    BY <1>5, InFlightFacts DEF InFlight
  <2>2. \A x \in Correlation : pending'[x] = pending[x] \/ (pending'[x] = c /\ pending[x] = None)
    BY <1>1 DEF BridgeTypes
  <2>3. \A x \in Correlation : pending'[x] # None => caller'[pending'[x]] # "idle"
    BY <1>1, <1>3, <2>2 DEF OnePending
  <2>4. ASSUME bridge = "open", NEW d \in InFlight \cap Requests
        PROVE  /\ pending'[Identity[d]] # None
               /\ pending'[Identity[d]] = d \/ caller[pending'[Identity[d]]] # "waiting"
               /\ \A e \in InFlight \cap Requests : Identity[e] = Identity[d] => e = d
               /\ c \in Requests => Identity[c] # Identity[d]
    <3>1. Identity[d] \in Correlation
      BY <2>1, MessagesAssumption
    <3>2. /\ pending[Identity[d]] # None
          /\ pending[Identity[d]] = d \/ caller[pending[Identity[d]]] # "waiting"
          /\ \A e \in InFlight \cap Requests : Identity[e] = Identity[d] => e = d
      BY <1>1, <2>4 DEF OnePending
    <3> QED
      BY <2>2, <3>1, <3>2
  <2>5. ASSUME c \in Requests
        PROVE  pending'[Identity[c]] = c /\ c # None
    <3>1. Identity[c] \in Correlation /\ c # None
      BY <1>3, MessagesAssumption
    <3> QED
      BY <1>1, <2>5, <3>1 DEF BridgeTypes
  <2>6. ASSUME bridge = "open", NEW d \in (InFlight \cup {c}) \cap Requests
        PROVE  /\ pending'[Identity[d]] # None
               /\ pending'[Identity[d]] = d \/ caller[pending'[Identity[d]]] # "waiting"
               /\ \A e \in (InFlight \cup {c}) \cap Requests : Identity[e] = Identity[d] => e = d
    <3>1. CASE d = c
      BY <2>4, <2>5, <2>6, <3>1
    <3>2. CASE d # c
      BY <2>4, <2>6, <3>2
    <3> QED
      BY <3>1, <3>2
  <2> QED
    BY <1>1, <2>1, <2>3, <2>6 DEF OnePending
<1>13. DrainBounded'
  BY <1>1, <1>5 DEF DrainBounded, BridgeTypes
<1>14. OwnAnswers'
  BY <1>1 DEF OwnAnswers, Bridge!AnsweredByOwnFrame, Bridge!HandledByRouted
<1> QED
  BY <1>7, <1>10, <1>11, <1>12, <1>13, <1>14 DEF BridgeInv

\* A worker takes its next message.
LEMMA TakeKeeps ==
  ASSUME BridgeInv, NEW r \in Route, Bridge!Take(r)
  PROVE  BridgeInv'
<1>1. BridgeTypes
  BY DEF BridgeInv
<1>2. PICK c : c = Head(queue[r])
  OBVIOUS
<1>3. PICK x : x = Identity[c]
  OBVIOUS
<1>4. /\ queue[r] # << >> /\ queue' = [queue EXCEPT ![r] = Tail(@)]
      /\ UNCHANGED << family, bridge, generation, answeredBy, handledBy, client, drain, known, minimum,
                      current >>
  BY DEF Bridge!Take, Bridge!clientVars
<1>5. /\ caller \in [Call -> {"idle", "waiting", "done", "answered", "failed", "abandoned"}]
      /\ worker \in [Route -> Requests \cup {None}] /\ late \subseteq Requests
  BY <1>1 DEF BridgeTypes
<1>6. CASE /\ c \notin Requests
           /\ frames' = Append(frames, c) /\ work' = [work EXCEPT ![c] = "framed"]
           /\ UNCHANGED << worker, pending, late, caller >>
  BY <1>2, <1>4, <1>5, <1>6, FrameKeeps
<1>7. CASE /\ c \in Requests /\ pending[x] = None
           /\ pending' = [pending EXCEPT ![x] = c]
           /\ worker' = [worker EXCEPT ![r] = c]
           /\ frames' = Append(frames, c) /\ work' = [work EXCEPT ![c] = "framed"]
           /\ late' = IF bridge \in {"shut", "withdrawn"} THEN late \cup {c} ELSE late
           /\ UNCHANGED caller
  <2>1. late' \subseteq Requests /\ worker' \in [Route -> Requests \cup {None}]
    BY <1>5, <1>7
  <2> QED
    BY <1>2, <1>3, <1>4, <1>7, <2>1, FrameKeeps
<1>8. CASE /\ c \in Requests /\ pending[x] # None
           /\ pending' = [pending EXCEPT ![x] = Bridge!LeftBy(c)]
           /\ caller' = [d \in Call |-> IF d \in {c, pending[x]} /\ caller[d] = "waiting"
                                        THEN "failed" ELSE caller[d]]
           /\ worker' = [s \in DOMAIN worker |-> IF worker[s] = pending[x] THEN None
                                                 ELSE worker[s]]
           /\ work' = [work EXCEPT ![c] = "lost"]
           /\ UNCHANGED << late, frames >>
  <2>1. worker' \in [Route -> Requests \cup {None}]
    BY <1>5, <1>8
  <2>2. caller' \in [Call -> {"idle", "waiting", "done", "answered", "failed", "abandoned"}]
    BY <1>5, <1>8
  <2>3. \A d \in Call : caller'[d] = caller[d] \/ (caller[d] = "waiting" /\ caller'[d] = "failed")
    BY <1>8
  <2>4. c \in Call /\ caller'[c] # "waiting"
    BY <1>8, MessagesAssumption
  <2>5. pending' = [pending EXCEPT ![Identity[c]] = c]
    BY <1>3, <1>8 DEF Bridge!LeftBy
  <2> QED
    BY <1>2, <1>3, <1>4, <1>8, <2>1, <2>2, <2>3, <2>4, <2>5, LoseKeeps
<1>9. CASE /\ work' = [work EXCEPT ![c] = "lost"]
           /\ UNCHANGED << worker, pending, late, caller, frames >>
  BY <1>2, <1>4, <1>5, <1>9, LoseKeeps
<1> QED
  <2>1. \/ /\ c \notin Requests
           /\ frames' = Append(frames, c) /\ work' = [work EXCEPT ![c] = "framed"]
           /\ UNCHANGED << worker, pending, late, caller >>
        \/ /\ c \in Requests /\ pending[x] = None
           /\ pending' = [pending EXCEPT ![x] = c]
           /\ worker' = [worker EXCEPT ![r] = c]
           /\ frames' = Append(frames, c) /\ work' = [work EXCEPT ![c] = "framed"]
           /\ late' = IF bridge \in {"shut", "withdrawn"} THEN late \cup {c} ELSE late
           /\ UNCHANGED caller
        \/ /\ c \in Requests /\ pending[x] # None
           /\ pending' = [pending EXCEPT ![x] = Bridge!LeftBy(c)]
           /\ caller' = [d \in Call |-> IF d \in {c, pending[x]} /\ caller[d] = "waiting"
                                        THEN "failed" ELSE caller[d]]
           /\ worker' = [s \in DOMAIN worker |-> IF worker[s] = pending[x] THEN None
                                                 ELSE worker[s]]
           /\ work' = [work EXCEPT ![c] = "lost"]
           /\ UNCHANGED << late, frames >>
        \/ /\ work' = [work EXCEPT ![c] = "lost"]
           /\ UNCHANGED << worker, pending, late, caller, frames >>
    BY <1>2, <1>3 DEF Bridge!Take
  <2> QED
    BY <1>6, <1>7, <1>8, <1>9, <2>1

\* A queue of a withdrawn registration is dropped.
LEMMA StopWorkerKeeps ==
  ASSUME BridgeInv, NEW r \in Route, Bridge!StopWorker(r)
  PROVE  BridgeInv'
<1>1. BridgeTypes /\ PlacedOnce /\ DispatchPlaced /\ OnePending /\ DrainBounded /\ OwnAnswers
  BY DEF BridgeInv
<1>2. PICK dropped : dropped = {queue[r][i] : i \in DOMAIN queue[r]}
  OBVIOUS
<1>3. /\ work' = [c \in Call |-> IF c \in dropped THEN "lost" ELSE work[c]]
      /\ caller' = [c \in Call |-> IF c \in dropped /\ caller[c] = "waiting" THEN "failed"
                                   ELSE caller[c]]
      /\ queue' = [queue EXCEPT ![r] = << >>]
      /\ UNCHANGED << family, worker, bridge, pending, late, generation, answeredBy, handledBy, frames,
                      client, drain, known, minimum, current >>
  BY <1>2 DEF Bridge!StopWorker, Bridge!nativeVars, Bridge!clientVars
<1>4. queue[r] \in Seq(Call) /\ frames \in Seq(Call)
  BY <1>1 DEF BridgeTypes
<1>5. \A c \in dropped : c \in Call /\ work[c] = "queued" /\ r = << Target[c], generation[c] >>
  BY <1>1, <1>2, <1>4, ElementFacts DEF PlacedOnce, QueuesPlaced
<1>6. \A c \in Call : /\ caller'[c] = "idle" <=> caller[c] = "idle"
                      /\ caller'[c] = "waiting" => caller[c] = "waiting"
                      /\ caller'[c] = "answered" <=> caller[c] = "answered"
                      /\ work[c] # "queued" => work'[c] = work[c]
                      /\ c \notin dropped => work'[c] = work[c]
  BY <1>3, <1>5
<1>7. BridgeTypes'
  <2>1. /\ work' \in [Call -> {"none", "queued", "framed", "handled", "rejected", "lost"}]
        /\ caller' \in [Call -> {"idle", "waiting", "done", "answered", "failed", "abandoned"}]
    BY <1>1, <1>3 DEF BridgeTypes
  <2>2. queue' \in [Route -> Seq(Call)]
    <3>1. << >> \in Seq(Call)
      OBVIOUS
    <3> QED
      BY <1>1, <1>3, <3>1 DEF BridgeTypes
  <2> QED
    BY <1>1, <1>3, <2>1, <2>2 DEF BridgeTypes
<1>8. QueuesPlaced'
  <2> SUFFICES ASSUME NEW s \in Route, NEW i \in DOMAIN queue'[s]
               PROVE  /\ work'[queue'[s][i]] = "queued"
                      /\ s = << Target[queue'[s][i]], generation'[queue'[s][i]] >>
                      /\ \A j \in DOMAIN queue'[s] : queue'[s][i] = queue'[s][j] => i = j
    BY DEF QueuesPlaced
  <2>1. s # r /\ queue'[s] = queue[s] /\ queue[s] \in Seq(Call)
    BY <1>1, <1>3 DEF BridgeTypes
  <2>2. queue[s][i] \in Call
    BY <2>1, ElementFacts
  <2>3. /\ work[queue[s][i]] = "queued" /\ s = << Target[queue[s][i]], generation[queue[s][i]] >>
        /\ \A j \in DOMAIN queue[s] : queue[s][i] = queue[s][j] => i = j
    BY <1>1, <2>1 DEF PlacedOnce, QueuesPlaced
  <2>4. queue[s][i] \notin dropped
    BY <1>5, <2>1, <2>3
  <2> QED
    BY <1>3, <1>6, <2>1, <2>2, <2>3, <2>4
<1>9. PlacedOnce'
  <2>1. \A c \in Call : caller'[c] = "idle" => work'[c] = "none" /\ handledBy'[c] = 0
    BY <1>1, <1>3, <1>6 DEF PlacedOnce
  <2>2. \A i \in DOMAIN frames :
          /\ work'[frames[i]] = "framed"
          /\ \A j \in DOMAIN frames : frames[i] = frames[j] => i = j
          /\ frames[i] # current.call
    <3> SUFFICES ASSUME NEW i \in DOMAIN frames
                 PROVE  /\ work'[frames[i]] = "framed"
                        /\ \A j \in DOMAIN frames : frames[i] = frames[j] => i = j
                        /\ frames[i] # current.call
      OBVIOUS
    <3>1. frames[i] \in Call
      BY <1>4, ElementFacts
    <3>2. /\ work[frames[i]] = "framed"
          /\ \A j \in DOMAIN frames : frames[i] = frames[j] => i = j
          /\ frames[i] # current.call
      BY <1>1 DEF PlacedOnce
    <3> QED
      BY <1>6, <3>1, <3>2
  <2> QED
    BY <1>3, <1>8, <2>1, <2>2 DEF PlacedOnce
<1>10. DispatchPlaced'
  <2>1. CASE current = Bridge!NoFrame
    BY <1>3, <2>1 DEF DispatchPlaced, Bridge!NoFrame
  <2>2. CASE current # Bridge!NoFrame
    <3>1. current.call \in Call /\ work[current.call] # "queued"
      BY <1>1, <2>2, InFlightFacts DEF DispatchPlaced
    <3> QED
      BY <1>1, <1>3, <1>6, <3>1 DEF DispatchPlaced
  <2> QED
    BY <2>1, <2>2
<1>11. OnePending'
  <2>1. InFlight' = InFlight /\ InFlight \subseteq Call
    BY <1>3, InFlightFacts DEF InFlight
  <2>2. \A x \in Correlation : pending[x] # None => pending[x] \in Call
    BY <1>1, MessagesAssumption DEF BridgeTypes
  <2>3. \A d \in InFlight : Identity[d] \in Correlation
    BY <2>1, MessagesAssumption
  <2> QED
    BY <1>1, <1>3, <1>6, <2>1, <2>2, <2>3 DEF OnePending
<1>12. DrainBounded'
  BY <1>1, <1>3 DEF DrainBounded
<1>13. OwnAnswers'
  BY <1>1, <1>3, <1>6 DEF OwnAnswers, Bridge!AnsweredByOwnFrame, Bridge!HandledByRouted
<1> QED
  BY <1>7, <1>9, <1>10, <1>11, <1>12, <1>13 DEF BridgeInv

-----------------------------------------------------------------------------
\* The frontend takes the next frame, or refuses it.
LEMMA DispatchKeeps ==
  ASSUME BridgeInv, Bridge!Dispatch
  PROVE  BridgeInv'
<1>1. BridgeTypes /\ PlacedOnce /\ DispatchPlaced /\ OnePending /\ DrainBounded /\ OwnAnswers
  BY DEF BridgeInv
<1>2. PICK c : c = Head(frames)
  OBVIOUS
<1>3. /\ current = Bridge!NoFrame /\ frames # << >> /\ frames' = Tail(frames)
      /\ UNCHANGED << family, queue, worker, bridge, pending, late, caller, generation, answeredBy,
                      handledBy, client, known, minimum >>
  BY DEF Bridge!Dispatch, Bridge!busVars, Bridge!nativeVars
<1>4. \/ /\ generation[c] = known /\ current' = [call |-> c, phase |-> "observe", family |-> known]
         /\ work' = work /\ drain' = drain
      \/ /\ work' = [work EXCEPT ![c] = "rejected"] /\ c \in Requests
         /\ current' = [call |-> c, phase |-> "reply", family |-> known] /\ drain' = drain
      \/ /\ work' = [work EXCEPT ![c] = "rejected"] /\ (c \notin Requests \/ client = "gone")
         /\ current' = current /\ drain' = Bridge!Waited(drain)
  BY <1>2 DEF Bridge!Dispatch, Bridge!Accepts
<1>5. frames \in Seq(Call) /\ Len(frames) \in Nat
  <2>1. frames \in Seq(Call)
    BY <1>1 DEF BridgeTypes
  <2> QED
    BY <2>1, ElementFacts
<1>6. /\ frames' \in Seq(Call) /\ 1 \in DOMAIN frames /\ c = frames[1] /\ c \in Call
      /\ \A k \in DOMAIN frames' :
           k \in Nat /\ 1 < k + 1 /\ k + 1 \in DOMAIN frames /\ frames'[k] = frames[k + 1]
      /\ Len(frames') = Len(frames) - 1 /\ Len(frames) > 0
  <2>1. /\ Tail(frames) \in Seq(Call) /\ 1 \in DOMAIN frames /\ Head(frames) = frames[1] /\ frames[1] \in Call
        /\ \A k \in DOMAIN Tail(frames) :
             k \in Nat /\ 1 < k + 1 /\ k + 1 \in DOMAIN frames /\ Tail(frames)[k] = frames[k + 1]
    BY <1>3, <1>5, TailFacts
  <2>2. Len(Tail(frames)) = Len(frames) - 1 /\ Len(frames) > 0
    BY <1>3, <1>5
  <2> QED
    BY <1>2, <1>3, <2>1, <2>2
<1>7. work[c] = "framed" /\ c # current.call
  BY <1>1, <1>6 DEF PlacedOnce
<1>8. \A d \in Call : d # c => work'[d] = work[d]
  BY <1>1, <1>4 DEF BridgeTypes
<1>9. \A i \in DOMAIN frames' :
        /\ frames'[i] \in Call /\ frames'[i] # c /\ work'[frames'[i]] = "framed"
        /\ \A j \in DOMAIN frames' : frames'[i] = frames'[j] => i = j
  <2> SUFFICES ASSUME NEW i \in DOMAIN frames'
               PROVE  /\ frames'[i] \in Call /\ frames'[i] # c /\ work'[frames'[i]] = "framed"
                      /\ \A j \in DOMAIN frames' : frames'[i] = frames'[j] => i = j
    OBVIOUS
  <2>1. /\ frames'[i] = frames[i + 1] /\ i + 1 \in DOMAIN frames /\ i + 1 # 1 /\ i \in Nat
    BY <1>6
  <2>2. frames[i + 1] \in Call
    BY <1>5, <2>1, ElementFacts
  <2>3. work[frames[i + 1]] = "framed" /\ frames[i + 1] # c
    BY <1>1, <1>6, <2>1 DEF PlacedOnce
  <2>4. ASSUME NEW j \in DOMAIN frames', frames'[i] = frames'[j]
        PROVE  i = j
    <3>1. /\ frames'[j] = frames[j + 1] /\ j + 1 \in DOMAIN frames /\ j \in Nat
      BY <1>6
    <3>2. frames[i + 1] = frames[j + 1]
      BY <2>1, <2>4, <3>1
    <3>3. \A k, l \in DOMAIN frames : frames[k] = frames[l] => k = l
      BY <1>1 DEF PlacedOnce
    <3>4. i + 1 = j + 1
      BY <2>1, <3>1, <3>2, <3>3
    <3> QED
      BY <2>1, <3>1, <3>4
  <2> QED
    BY <1>8, <2>1, <2>2, <2>3, <2>4
<1>10. /\ work' \in [Call -> {"none", "queued", "framed", "handled", "rejected", "lost"}]
       /\ work'[c] \in {"framed", "rejected"} /\ drain' \in Nat
  <2>1. drain' \in Nat
    BY <1>1, <1>4 DEF BridgeTypes, Bridge!Waited
  <2> QED
    BY <1>1, <1>4, <1>6, <1>7, <2>1 DEF BridgeTypes
<1>11. \/ /\ current' \in [call : Call, phase : {"observe", "handle", "reply"}, family : 0..family]
          /\ current' # Bridge!NoFrame /\ current'.call = c /\ current'.phase \in {"observe", "reply"}
          /\ current'.phase = "observe" => work'[c] = "framed" /\ generation[c] = current'.family
          /\ current'.phase = "reply" => work'[c] = "rejected" /\ c \in Requests
          /\ drain' = drain
       \/ /\ c \notin Requests \/ client = "gone"
          /\ current' = Bridge!NoFrame /\ drain' = Bridge!Waited(drain)
  <2>1. known \in 0..family /\ c # None
    BY <1>1, <1>6, MessagesAssumption DEF BridgeTypes
  <2>2. work \in [Call -> {"none", "queued", "framed", "handled", "rejected", "lost"}]
    BY <1>1 DEF BridgeTypes
  <2>3. CASE current' = [call |-> c, phase |-> "observe", family |-> known]
             /\ generation[c] = known /\ work' = work /\ drain' = drain
    BY <1>6, <1>7, <2>1, <2>3 DEF Bridge!NoFrame
  <2>4. CASE current' = [call |-> c, phase |-> "reply", family |-> known]
             /\ work' = [work EXCEPT ![c] = "rejected"] /\ c \in Requests /\ drain' = drain
    BY <1>6, <2>1, <2>2, <2>4 DEF Bridge!NoFrame
  <2> QED
    BY <1>3, <1>4, <2>3, <2>4
<1>12. BridgeTypes'
  BY <1>1, <1>3, <1>6, <1>10, <1>11 DEF BridgeTypes
<1>13. PlacedOnce'
  <2>1. \A d \in Call : caller'[d] = "idle" => work'[d] = "none" /\ handledBy'[d] = 0
    BY <1>1, <1>3, <1>6, <1>7, <1>8 DEF PlacedOnce
  <2>2. QueuesPlaced'
    <3> SUFFICES ASSUME NEW s \in Route, NEW i \in DOMAIN queue[s]
                 PROVE  /\ work'[queue[s][i]] = "queued"
                        /\ s = << Target[queue[s][i]], generation[queue[s][i]] >>
                        /\ \A j \in DOMAIN queue[s] : queue[s][i] = queue[s][j] => i = j
      BY <1>3 DEF QueuesPlaced
    <3>1. queue[s] \in Seq(Call)
      BY <1>1 DEF BridgeTypes
    <3>2. queue[s][i] \in Call
      BY <3>1, ElementFacts
    <3>3. /\ work[queue[s][i]] = "queued" /\ s = << Target[queue[s][i]], generation[queue[s][i]] >>
          /\ \A j \in DOMAIN queue[s] : queue[s][i] = queue[s][j] => i = j
      BY <1>1 DEF PlacedOnce, QueuesPlaced
    <3> QED
      BY <1>7, <1>8, <3>2, <3>3
  <2>3. \A i \in DOMAIN frames' : frames'[i] # current'.call
    <3>1. \A i \in DOMAIN frames' : frames'[i] # None
      BY <1>9, MessagesAssumption
    <3>2. current'.call \in {c, None}
      BY <1>11 DEF Bridge!NoFrame
    <3> QED
      BY <1>9, <3>1, <3>2
  <2> QED
    BY <1>9, <2>1, <2>2, <2>3 DEF PlacedOnce
<1>14. DispatchPlaced'
  BY <1>3, <1>11 DEF DispatchPlaced, Bridge!NoFrame
<1>15. /\ InFlight' \subseteq InFlight /\ InFlight \subseteq Call
       /\ bridge = "open" => InFlight' \cap Requests = InFlight \cap Requests
  <2>1. InFlight = {frames[k] : k \in DOMAIN frames}
    BY <1>3, InFlightFacts DEF InFlight
  <2>2. InFlight' = {frames'[k] : k \in DOMAIN frames'} \cup ({current'.call} \ {None})
    BY DEF InFlight
  <2>3. c \in InFlight /\ {frames'[k] : k \in DOMAIN frames'} \subseteq InFlight
    BY <1>6, <2>1
  <2>4. current'.call = c \/ current'.call = None
    BY <1>11 DEF Bridge!NoFrame
  <2>5. \A k \in DOMAIN frames : frames[k] = c \/ frames[k] \in {frames'[i] : i \in DOMAIN frames'}
    <3> SUFFICES ASSUME NEW k \in DOMAIN frames, k # 1
                 PROVE  \E i \in DOMAIN frames' : frames[k] = frames'[i]
      BY <1>6
    <3>1. k - 1 \in DOMAIN frames' /\ (k - 1) + 1 = k
      BY <1>5, <1>6, ElementFacts
    <3> QED
      BY <1>6, <3>1
  <2>6. bridge = "open" /\ c \in Requests => current'.call = c /\ c # None
    BY <1>1, <1>6, <1>11, MessagesAssumption DEF OnePending
  <2> QED
    BY <2>1, <2>2, <2>3, <2>4, <2>5, <2>6, InFlightFacts
<1>16. OnePending'
  <2>1. ASSUME bridge = "open", NEW d \in InFlight \cap Requests
        PROVE  /\ pending[Identity[d]] # None
               /\ pending[Identity[d]] = d \/ caller[pending[Identity[d]]] # "waiting"
               /\ \A e \in InFlight \cap Requests : Identity[e] = Identity[d] => e = d
    BY <1>1, <2>1 DEF OnePending
  <2>2. /\ \A x \in Correlation : pending[x] # None => caller[pending[x]] # "idle"
        /\ client = "gone" => bridge # "open"
    BY <1>1 DEF OnePending
  <2>3. ASSUME bridge' = "open", NEW d \in InFlight' \cap Requests
        PROVE  /\ pending'[Identity[d]] # None
               /\ pending'[Identity[d]] = d \/ caller'[pending'[Identity[d]]] # "waiting"
               /\ \A e \in InFlight' \cap Requests : Identity[e] = Identity[d] => e = d
    <3>1. bridge = "open" /\ d \in InFlight \cap Requests
          /\ InFlight' \cap Requests = InFlight \cap Requests
      BY <1>3, <1>15, <2>3
    <3>2. /\ pending[Identity[d]] # None
          /\ pending[Identity[d]] = d \/ caller[pending[Identity[d]]] # "waiting"
          /\ \A e \in InFlight \cap Requests : Identity[e] = Identity[d] => e = d
      BY <2>1, <3>1
    <3> QED
      BY <1>3, <3>1, <3>2
  <2> QED
    BY <1>3, <2>2, <2>3 DEF OnePending
<1>17. DrainBounded'
  <2>1. drain \in Nat /\ drain <= Len(frames)
    BY <1>1, <1>3, <1>5 DEF DrainBounded, BridgeTypes
  <2>2. CASE current' # Bridge!NoFrame /\ drain' = drain
    BY <1>5, <1>6, <2>1, <2>2 DEF DrainBounded
  <2>3. CASE current' = Bridge!NoFrame /\ drain' = Bridge!Waited(drain)
    BY <1>5, <1>6, <2>1, <2>3 DEF DrainBounded, Bridge!Waited
  <2> QED
    BY <1>11, <2>2, <2>3
<1>18. OwnAnswers'
  BY <1>1, <1>3 DEF OwnAnswers, Bridge!AnsweredByOwnFrame, Bridge!HandledByRouted
<1> QED
  BY <1>12, <1>13, <1>14, <1>16, <1>17, <1>18 DEF BridgeInv

\* A handler begins, in the family that was found.
LEMMA HandleKeeps ==
  ASSUME BridgeInv, Bridge!Handle
  PROVE  BridgeInv'
<1>1. BridgeTypes /\ PlacedOnce /\ DispatchPlaced /\ OnePending /\ DrainBounded /\ OwnAnswers
  BY DEF BridgeInv
<1>2. PICK c : c = current.call
  OBVIOUS
<1>3. /\ current.phase = "observe" /\ current' = [current EXCEPT !.phase = "handle"]
      /\ handledBy' = [handledBy EXCEPT ![c] = current.family]
      /\ work' = [work EXCEPT ![c] = "handled"]
      /\ UNCHANGED << family, queue, worker, bridge, pending, late, caller, generation, answeredBy,
                      frames, client, drain, known, minimum >>
  BY <1>2 DEF Bridge!Handle, Bridge!busVars, Bridge!nativeVars, Bridge!clientVars
<1>4. /\ current # Bridge!NoFrame
      /\ current \in [call : Call, phase : {"observe", "handle", "reply"}, family : 0..family]
      /\ c \in Call /\ work[c] = "framed" /\ generation[c] = current.family
  BY <1>1, <1>2, <1>3 DEF BridgeTypes, DispatchPlaced, Bridge!NoFrame
<1>5. /\ current' \in [call : Call, phase : {"observe", "handle", "reply"}, family : 0..family]
      /\ current'.call = c /\ current'.phase = "handle" /\ current' # Bridge!NoFrame
  BY <1>2, <1>3, <1>4 DEF Bridge!NoFrame
<1>6. /\ \A d \in Call : d # c => work'[d] = work[d] /\ handledBy'[d] = handledBy[d]
      /\ work'[c] = "handled" /\ handledBy'[c] = generation[c]
  BY <1>1, <1>3, <1>4 DEF BridgeTypes
<1>7. BridgeTypes'
  <2>1. /\ work' \in [Call -> {"none", "queued", "framed", "handled", "rejected", "lost"}]
        /\ handledBy' \in [Call -> 0..family]
    BY <1>1, <1>3, <1>4 DEF BridgeTypes
  <2> QED
    BY <1>1, <1>3, <1>5, <2>1 DEF BridgeTypes
<1>8. PlacedOnce'
  <2>1. \A d \in Call : caller'[d] = "idle" => work'[d] = "none" /\ handledBy'[d] = 0
    BY <1>1, <1>3, <1>4, <1>6 DEF PlacedOnce
  <2>2. QueuesPlaced'
    <3> SUFFICES ASSUME NEW s \in Route, NEW i \in DOMAIN queue[s]
                 PROVE  /\ work'[queue[s][i]] = "queued"
                        /\ s = << Target[queue[s][i]], generation[queue[s][i]] >>
                        /\ \A j \in DOMAIN queue[s] : queue[s][i] = queue[s][j] => i = j
      BY <1>3 DEF QueuesPlaced
    <3>1. queue[s] \in Seq(Call)
      BY <1>1 DEF BridgeTypes
    <3>2. queue[s][i] \in Call
      BY <3>1, ElementFacts
    <3>3. /\ work[queue[s][i]] = "queued" /\ s = << Target[queue[s][i]], generation[queue[s][i]] >>
          /\ \A j \in DOMAIN queue[s] : queue[s][i] = queue[s][j] => i = j
      BY <1>1 DEF PlacedOnce, QueuesPlaced
    <3> QED
      BY <1>4, <1>6, <3>2, <3>3
  <2>3. \A i \in DOMAIN frames :
          /\ work'[frames[i]] = "framed"
          /\ \A j \in DOMAIN frames : frames[i] = frames[j] => i = j
          /\ frames[i] # current'.call
    <3> SUFFICES ASSUME NEW i \in DOMAIN frames
                 PROVE  /\ work'[frames[i]] = "framed"
                        /\ \A j \in DOMAIN frames : frames[i] = frames[j] => i = j
                        /\ frames[i] # current'.call
      OBVIOUS
    <3>1. frames \in Seq(Call)
      BY <1>1 DEF BridgeTypes
    <3>2. frames[i] \in Call
      BY <3>1, ElementFacts
    <3>3. /\ work[frames[i]] = "framed"
          /\ \A j \in DOMAIN frames : frames[i] = frames[j] => i = j
          /\ frames[i] # current.call
      BY <1>1 DEF PlacedOnce
    <3> QED
      BY <1>2, <1>5, <1>6, <3>2, <3>3
  <2> QED
    BY <1>3, <2>1, <2>2, <2>3 DEF PlacedOnce
<1>9. DispatchPlaced'
  BY <1>5, <1>6 DEF DispatchPlaced
<1>10. OnePending'
  <2>1. InFlight' = InFlight
    BY <1>2, <1>3, <1>5 DEF InFlight
  <2> QED
    BY <1>1, <1>3, <2>1 DEF OnePending
<1>11. DrainBounded'
  BY <1>1, <1>3, <1>4, <1>5 DEF DrainBounded
<1>12. OwnAnswers'
  BY <1>1, <1>3, <1>4, <1>6 DEF OwnAnswers, Bridge!AnsweredByOwnFrame, Bridge!HandledByRouted
<1> QED
  BY <1>7, <1>8, <1>9, <1>10, <1>11, <1>12 DEF BridgeInv

\* What the end of a dispatch leaves of the counts.
LEMMA WaitedKeeps ==
  ASSUME BridgeInv, current # Bridge!NoFrame, current' = Bridge!NoFrame,
         drain' = Bridge!Waited(drain), frames' = frames
  PROVE  drain' \in Nat /\ DrainBounded'
<1>1. frames \in Seq(Call) /\ drain \in Nat /\ drain <= Len(frames) + 1
  BY DEF BridgeInv, BridgeTypes, DrainBounded
<1>2. Len(frames) \in Nat
  BY <1>1, ElementFacts
<1> QED
  BY <1>1, <1>2 DEF Bridge!Waited, DrainBounded

\* A handler ended: its sender wants an answer, or the dispatch is over.
LEMMA HandlerEndsKeeps ==
  ASSUME BridgeInv, Bridge!HandlerEnds
  PROVE  BridgeInv'
<1>1. BridgeTypes /\ PlacedOnce /\ DispatchPlaced /\ OnePending /\ DrainBounded /\ OwnAnswers
  BY DEF BridgeInv
<1>2. PICK c : c = current.call
  OBVIOUS
<1>3. /\ current.phase = "handle"
      /\ \/ c \in Requests /\ current' = [current EXCEPT !.phase = "reply"] /\ drain' = drain
         \/ c \notin Requests /\ current' = Bridge!NoFrame /\ drain' = Bridge!Waited(drain)
      /\ UNCHANGED << family, queue, worker, bridge, pending, late, caller, work, generation, answeredBy,
                      handledBy, frames, client, known, minimum >>
  BY <1>2 DEF Bridge!HandlerEnds, Bridge!busVars, Bridge!nativeVars, Bridge!callVars
<1>4. /\ current # Bridge!NoFrame
      /\ current \in [call : Call, phase : {"observe", "handle", "reply"}, family : 0..family]
      /\ c \in Call /\ work[c] = "handled"
  BY <1>1, <1>2, <1>3 DEF BridgeTypes, DispatchPlaced, Bridge!NoFrame
<1>5. \/ /\ c \in Requests /\ drain' = drain
         /\ current' \in [call : Call, phase : {"observe", "handle", "reply"}, family : 0..family]
         /\ current'.call = c /\ current'.phase = "reply" /\ current' # Bridge!NoFrame
      \/ c \notin Requests /\ current' = Bridge!NoFrame /\ drain' = Bridge!Waited(drain)
  BY <1>2, <1>3, <1>4 DEF Bridge!NoFrame
<1>6. drain' \in Nat /\ DrainBounded'
  <2>1. CASE drain' = drain /\ current' # Bridge!NoFrame
    BY <1>1, <1>3, <1>4, <2>1 DEF BridgeTypes, DrainBounded
  <2>2. CASE current' = Bridge!NoFrame /\ drain' = Bridge!Waited(drain)
    BY <1>3, <1>4, <2>2, WaitedKeeps
  <2> QED
    BY <1>5, <2>1, <2>2
<1>7. BridgeTypes'
  BY <1>1, <1>3, <1>5, <1>6 DEF BridgeTypes
<1>8. PlacedOnce'
  <2>1. frames \in Seq(Call)
    BY <1>1 DEF BridgeTypes
  <2>2. \A i \in DOMAIN frames : frames[i] # None
    BY <2>1, ElementFacts, MessagesAssumption
  <2>3. \A i \in DOMAIN frames : frames[i] # current'.call
    BY <1>1, <1>2, <1>5, <2>2 DEF PlacedOnce, Bridge!NoFrame
  <2> QED
    BY <1>1, <1>3, <2>3 DEF PlacedOnce, QueuesPlaced
<1>9. DispatchPlaced'
  BY <1>3, <1>4, <1>5 DEF DispatchPlaced, Bridge!NoFrame
<1>10. OnePending'
  <2>1. InFlight' \subseteq InFlight /\ InFlight' \cap Requests = InFlight \cap Requests
    BY <1>2, <1>3, <1>4, <1>5, MessagesAssumption DEF InFlight, Bridge!NoFrame
  <2> QED
    BY <1>1, <1>3, <2>1 DEF OnePending
<1>11. OwnAnswers'
  BY <1>1, <1>3 DEF OwnAnswers, Bridge!AnsweredByOwnFrame, Bridge!HandledByRouted
<1> QED
  BY <1>6, <1>7, <1>8, <1>9, <1>10, <1>11 DEF BridgeInv

\* The answer of a dispatch reaches its own sender, if that still waits.
LEMMA SendReplyKeeps ==
  ASSUME BridgeInv, Bridge!SendReply
  PROVE  BridgeInv'
<1>1. BridgeTypes /\ PlacedOnce /\ DispatchPlaced /\ OnePending /\ DrainBounded /\ OwnAnswers
  BY DEF BridgeInv
<1>2. PICK c : c = current.call
  OBVIOUS
<1>3. PICK x : x = Identity[c]
  OBVIOUS
<1>4. PICK t : t = pending[x]
  OBVIOUS
<1>5. PICK heard \in BOOLEAN : heard <=> (bridge = "open" /\ t # None /\ caller[t] = "waiting")
  OBVIOUS
<1>6. /\ current.phase = "reply" /\ current' = Bridge!NoFrame /\ drain' = Bridge!Waited(drain)
      /\ pending' = IF bridge = "open" THEN [pending EXCEPT ![x] = None] ELSE pending
      /\ caller' = IF heard THEN [caller EXCEPT ![t] = "answered"] ELSE caller
      /\ answeredBy' = IF heard THEN [answeredBy EXCEPT ![t] = c] ELSE answeredBy
      /\ worker' = [r \in DOMAIN worker |-> IF heard /\ worker[r] = t THEN None ELSE worker[r]]
      /\ UNCHANGED << family, queue, bridge, late, work, generation, handledBy, frames, client, known,
                      minimum >>
  BY <1>2, <1>3, <1>4, <1>5 DEF Bridge!SendReply, Bridge!Reply
<1>7. /\ current # Bridge!NoFrame /\ c \in Call /\ c \in Requests /\ x \in Correlation /\ c # None
      /\ c \in InFlight
  <2>1. current # Bridge!NoFrame
    BY <1>6 DEF Bridge!NoFrame
  <2>2. c \in Call /\ c \in Requests /\ c \in InFlight
    BY <1>1, <1>2, <1>6, <2>1, InFlightFacts DEF DispatchPlaced
  <2> QED
    BY <1>3, <2>1, <2>2, MessagesAssumption
<1>8. heard => t = c
  BY <1>1, <1>3, <1>4, <1>5, <1>7 DEF OnePending
<1>9. \/ caller' = caller /\ answeredBy' = answeredBy
      \/ /\ caller[c] = "waiting" /\ caller' = [caller EXCEPT ![c] = "answered"]
         /\ answeredBy' = [answeredBy EXCEPT ![c] = c]
  BY <1>5, <1>6, <1>8
<1>10. \A d \in Call : /\ caller'[d] = "idle" <=> caller[d] = "idle"
                       /\ caller'[d] = "waiting" => caller[d] = "waiting"
                       /\ caller'[d] = "answered" =>
                            (d = c /\ answeredBy'[d] = d) \/ (caller[d] = "answered" /\ answeredBy'[d] = answeredBy[d])
  BY <1>1, <1>7, <1>9 DEF BridgeTypes
<1>11. drain' \in Nat /\ DrainBounded'
  BY <1>6, <1>7, WaitedKeeps
<1>12. BridgeTypes'
  <2>1. caller' \in [Call -> {"idle", "waiting", "done", "answered", "failed", "abandoned"}]
    BY <1>1, <1>9 DEF BridgeTypes
  <2>2. pending' \in [Correlation -> Requests \cup {None}]
    BY <1>1, <1>6 DEF BridgeTypes
  <2>3. worker' \in [Route -> Requests \cup {None}]
    BY <1>1, <1>6 DEF BridgeTypes
  <2>4. answeredBy' \in [Call -> Requests \cup {None}]
    BY <1>1, <1>7, <1>9 DEF BridgeTypes
  <2> QED
    BY <1>1, <1>6, <1>11, <2>1, <2>2, <2>3, <2>4 DEF BridgeTypes
<1>13. PlacedOnce'
  <2>1. frames \in Seq(Call)
    BY <1>1 DEF BridgeTypes
  <2>2. \A i \in DOMAIN frames : frames[i] # current'.call
    BY <1>6, <2>1, ElementFacts, MessagesAssumption DEF Bridge!NoFrame
  <2> QED
    BY <1>1, <1>6, <1>10, <2>2 DEF PlacedOnce, QueuesPlaced
<1>14. DispatchPlaced'
  BY <1>6 DEF DispatchPlaced, Bridge!NoFrame
<1>15. OnePending'
  <2>1. InFlight' = {frames[k] : k \in DOMAIN frames}
    BY <1>6 DEF InFlight, Bridge!NoFrame
  <2>2. InFlight' \subseteq InFlight /\ InFlight \subseteq Call /\ c \notin InFlight'
    BY <1>1, <1>2, <2>1, InFlightFacts DEF PlacedOnce, InFlight
  <2>3. \A y \in Correlation : /\ pending'[y] = pending[y] \/ pending'[y] = None
                               /\ y # x => pending'[y] = pending[y]
                               /\ pending[y] # None => pending[y] \in Call
    BY <1>1, <1>6, MessagesAssumption DEF BridgeTypes
  <2>4. \A y \in Correlation : pending'[y] # None => caller'[pending'[y]] # "idle"
    BY <1>1, <1>10, <2>3 DEF OnePending
  <2>5. ASSUME bridge = "open", NEW d \in InFlight' \cap Requests
        PROVE  /\ pending'[Identity[d]] # None
               /\ pending'[Identity[d]] = d \/ caller'[pending'[Identity[d]]] # "waiting"
               /\ \A e \in InFlight' \cap Requests : Identity[e] = Identity[d] => e = d
    <3>1. d \in InFlight \cap Requests /\ d # c /\ Identity[d] \in Correlation
      BY <2>2, <2>5, MessagesAssumption
    <3>2. /\ pending[Identity[d]] # None
          /\ pending[Identity[d]] = d \/ caller[pending[Identity[d]]] # "waiting"
          /\ \A e \in InFlight \cap Requests : Identity[e] = Identity[d] => e = d
      BY <1>1, <2>5, <3>1 DEF OnePending
    <3>3. Identity[d] # x
      BY <1>3, <1>7, <3>1, <3>2
    <3> QED
      BY <1>10, <2>2, <2>3, <3>1, <3>2, <3>3
  <2> QED
    BY <1>1, <1>6, <2>4, <2>5 DEF OnePending
<1>16. OwnAnswers'
  BY <1>1, <1>6, <1>10 DEF OwnAnswers, Bridge!AnsweredByOwnFrame, Bridge!HandledByRouted
<1> QED
  BY <1>11, <1>12, <1>13, <1>14, <1>15, <1>16 DEF BridgeInv

-----------------------------------------------------------------------------
\* No message is under way at first.
LEMMA BridgeBegins ==
  ASSUME Bridge!Init
  PROVE  BridgeInv
<1> USE DEF Bridge!Init
<1>1. BridgeTypes
  BY MessagesAssumption DEF BridgeTypes, Route, Bridge!Family
<1>2. PlacedOnce
  BY DEF PlacedOnce, QueuesPlaced, Route, Bridge!Family
<1>3. DispatchPlaced /\ OnePending /\ DrainBounded
  BY DEF DispatchPlaced, OnePending, DrainBounded, InFlight, Bridge!NoFrame
<1>4. OwnAnswers
  BY DEF OwnAnswers, Bridge!AnsweredByOwnFrame, Bridge!HandledByRouted
<1> QED
  BY <1>1, <1>2, <1>3, <1>4 DEF BridgeInv

\* Every step of a caller, a worker, the bridge or the frontend keeps the invariant.
LEMMA BridgeStep ==
  ASSUME BridgeInv, Bridge!Next \/ UNCHANGED bridgeVars
  PROVE  BridgeInv'
<1>1. CASE UNCHANGED bridgeVars
  <2>1. UNCHANGED << family, bridge, queue, worker, pending, frames, caller, work, generation,
                     answeredBy, handledBy, late, client, drain, known, minimum, current >>
    BY <1>1 DEF bridgeVars
  <2>2. BridgeTypes'
    BY <2>1 DEF BridgeInv, BridgeTypes
  <2> QED
    BY <2>1, <2>2, ControlKeeps DEF BridgeInv, OnePending
<1>2. CASE Bridge!Next
  BY <1>2, CallKeeps, TakeKeeps, StopWorkerKeeps, DispatchKeeps, HandleKeeps, HandlerEndsKeeps,
     SendReplyKeeps, ReconcilingKeeps
     DEF Bridge!Next, Bridge!Native, Bridge!Frontend, Route
<1> QED
  BY <1>1, <1>2

\* Every variable of the bridge has its type.
LEMMA BridgeConsequences ==
  ASSUME BridgeInv
  PROVE  Bridge!TypeOK /\ OwnAnswers
<1>1. BridgeTypes /\ DrainBounded /\ OwnAnswers
  BY DEF BridgeInv
<1>2. frames \in Seq(Call) /\ Len(frames) \in Nat
  <2>1. frames \in Seq(Call)
    BY <1>1 DEF BridgeTypes
  <2> QED
    BY <2>1, ElementFacts
<1>3. drain \in 0..(Len(frames) + 1)
  BY <1>1, <1>2 DEF BridgeTypes, DrainBounded
<1>4. current \in [call : Call \cup {None}, phase : {"none", "observe", "handle", "reply"},
                   family : 0..family]
  <2>1. 0 \in 0..family
    BY <1>1, MessagesAssumption DEF BridgeTypes
  <2> QED
    BY <1>1, <2>1 DEF BridgeTypes, Bridge!NoFrame
<1>5. /\ family \in 0..MaxFamilies /\ bridge \in {"open", "removed", "shut", "withdrawn"}
      /\ queue \in [Route -> Seq(Call)] /\ worker \in [Route -> Requests \cup {None}]
      /\ pending \in [Correlation -> Requests \cup {None}] /\ late \in SUBSET Requests
      /\ caller \in [Call -> {"idle", "waiting", "done", "answered", "failed", "abandoned"}]
      /\ work \in [Call -> {"none", "queued", "framed", "handled", "rejected", "lost"}]
      /\ generation \in [Call -> 0..family] /\ handledBy \in [Call -> 0..family]
      /\ answeredBy \in [Call -> Requests \cup {None}]
      /\ client \in {"idle", "draining", "native", "committed", "disposed", "closing", "gone"}
      /\ known \in 0..family /\ minimum = known
  BY <1>1 DEF BridgeTypes
<1> QED
  BY <1>1, <1>2, <1>3, <1>4, <1>5 DEF Bridge!TypeOK, Route

-----------------------------------------------------------------------------
(***************************************************************************)
(* The parts on their own, and side by side.                               *)
(***************************************************************************)

\* However calls, replies, reconciliations and the close interleave, the invariant of the
\* messages holds (message_bridge.rs, messageBusBridge.ts).
THEOREM BridgeInvariant == Bridge!Spec => []BridgeInv
<1>1. BridgeInv /\ [Bridge!Next]_(Bridge!vars) => BridgeInv'
  BY BridgeStep
     DEF bridgeVars, Bridge!vars, Bridge!busVars, Bridge!nativeVars, Bridge!callVars,
           Bridge!clientVars
<1> QED
  BY <1>1, BridgeBegins, PTL DEF Bridge!Spec

\* However deliveries interleave between the record, the numbering and the sending, the
\* invariant of the reports holds (leases.rs, runtime.rs).
THEOREM FramesInvariant == Frames!Spec => []FramesInv
<1>1. FramesInv /\ [Frames!Next]_(Frames!vars) => FramesInv'
  BY FramesStep DEF frameVars, Frames!vars, Frames!deliveryVars, Frames!clientVars
<1> QED
  BY <1>1, FramesBegin, PTL DEF Frames!Spec

\* One part runs, the others rest.
LEMMA PartsRest ==
  ASSUME [PartNext]_PartVars
  PROVE  /\ Next \/ UNCHANGED vars
         /\ Bridge!Next \/ UNCHANGED bridgeVars
         /\ Frames!Next \/ UNCHANGED frameVars
BY DEF PartNext, PartVars

\* Both invariants hold in the run.
LEMMA PartsInvariant == PartSpec => [](RepositoryInv /\ BridgeInv /\ FramesInv)
<1>1. PartInit => RepositoryInv /\ BridgeInv /\ FramesInv
  BY RepositoryBegins, BridgeBegins, FramesBegin DEF PartInit
<1>2. RepositoryInv /\ BridgeInv /\ FramesInv /\ [PartNext]_PartVars
        => (RepositoryInv /\ BridgeInv /\ FramesInv)'
  BY PartsRest, RepositoryStep, BridgeStep, FramesStep
<1> QED
  BY <1>1, <1>2, PTL DEF PartSpec

\* Every variable of the tables, of the bridge and of the reports has its type.
THEOREM ModulesTypeCorrect == PartSpec => []TypesOK
<1>1. RepositoryInv => TypeOK
  BY RepositoryTyped
<1>2. RepositoryInv /\ BridgeInv /\ FramesInv => TypesOK
  BY <1>1, BridgeConsequences, FramesConsequences DEF TypesOK
<1> QED
  BY <1>2, PartsInvariant, PTL

\* Every message is answered by its own frame and handled by the family it was routed to;
\* listeners are given each result once, in rising sequences, results of their own
\* activation only, and none after their subscription was disposed (message_bridge.rs,
\* messageBusBridge.ts, leases.rs).
THEOREM OwnFramesFound == PartSpec => FramesFindTheirOwn
<1>1. BridgeInv => Bridge!AnsweredByOwnFrame /\ Bridge!HandledByRouted
  BY DEF BridgeInv, OwnAnswers
<1>2. FramesInv => Frames!SequencesRise /\ Frames!OwnersOnly
  BY FramesConsequences
<1>3. FramesInv /\ [PartNext]_PartVars =>
        [\A o \in Observer : active[o] = "disposed" => seen'[o] = seen[o]]_(Frames!vars)
  <2> SUFFICES ASSUME FramesInv, Frames!Next, NEW o \in Observer, active[o] = "disposed"
               PROVE  seen'[o] = seen[o]
    BY PartsRest DEF frameVars, Frames!vars, Frames!deliveryVars, Frames!clientVars
  <2>1. seen \in [Observer -> Seq(Frames!FrameSet)]
    BY DEF FramesInv, FrameTypes
  <2>2. CASE \E p \in Observer : Frames!Listen(p)
    BY <2>1, <2>2 DEF Frames!Listen
  <2>3. CASE UNCHANGED seen
    BY <2>3
  <2>4. (\E p \in Observer : Frames!Listen(p)) \/ UNCHANGED seen
    BY DEF Frames!Next, Frames!ChangeOwner, Frames!Record, Frames!Publish, Frames!Send,
           Frames!Subscribe, Frames!Dispose, Frames!StopObserving, Frames!Receive,
           Frames!deliveryVars, Frames!clientVars
  <2> QED
    BY <2>2, <2>3, <2>4
<1>4. PartSpec => [][PartNext]_PartVars
  BY PTL DEF PartSpec
<1> QED
  BY <1>1, <1>2, <1>3, <1>4, PartsInvariant, PTL
     DEF FramesFindTheirOwn, Frames!QuietAfterDispose
=============================================================================
