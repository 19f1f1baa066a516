--------------------------- MODULE ActivationsProofs ---------------------------
(***************************************************************************)
(* Proofs about what activations keep at the host beyond their own life,   *)
(* the two models that MCActivations runs side by side.  They share no     *)
(* variable and no lemma; the parts can be read apart.                     *)
(*                                                                         *)
(* ScheduleLeases, for any activations, schedules, leases, failures and    *)
(* changes from outside.  LeasesInv is inductive: one lemma per action, and *)
(* in it one step per part.  What the scheduler accepts is the matter of   *)
(* the first lemmas.                                                       *)
(*                                                                         *)
(* AssistantSessions, for any sessions, any number of capture loops, runs, *)
(* reactivations and failing writes.  The records in memory are what the   *)
(* next write saves, so each claim about the manifest needs one about      *)
(* them; that a session is not resumed beside its process needs that exits *)
(* which are not handled yet are of processes that ended; that an offered  *)
(* session is kept needs where every resumption stands between its claim   *)
(* and its answer.                                                         *)
(***************************************************************************)
EXTENDS ScheduleLeases, AssistantSessions, TLAPS

(***************************************************************************)
(* ScheduleLeases.                                                         *)
(***************************************************************************)

Kinds == {"none", "register", "cancel", "declare", "release"}
Points == {"idle", "refresh", "insert", "undo", "withdraw", "remove", "install", "next"}
OpType ==
  [kind : Kinds, pc : Points, actor : Activation \cup {None}, id : ScheduleId \cup {None},
   lease : Lease \cup {None}, rest : SUBSET Lease, failed : BOOLEAN,
   next : SUBSET Activation, table : Table]

\* What candidates hold: every provided schedule from its provider, and no other.
LEMMA BuiltFacts ==
  ASSUME NEW over, NEW routes, Valid(over, routes), NEW id \in ScheduleId
  PROVE  /\ \A p \in Lease \cup {User} : Provides(over, p, id) => Built(over)[id] = p
         /\ Built(over)[id] # None => Provides(over, Built(over)[id], id)
         /\ Built(over)[id] \in Lease \cup {User, None}
<1>1. ASSUME NEW p \in Lease \cup {User}, Provides(over, p, id)
      PROVE  Built(over)[id] = p
  <2>1. \A q \in Lease \cup {User} : Provides(over, q, id) => q = p
    BY <1>1 DEF Valid
  <2> QED
    BY <1>1, <2>1 DEF Built
<1>2. CASE \E p \in Lease \cup {User} : Provides(over, p, id)
  BY <1>1, <1>2
<1>3. CASE ~ \E p \in Lease \cup {User} : Provides(over, p, id)
  BY <1>3 DEF Built
<1> QED
  BY <1>1, <1>2, <1>3

\* The declared definitions of a table.
LEMMA DeclaredFacts ==
  ASSUME NEW table \in Table
  PROVE  /\ Declared(table) \in [Lease -> ScheduleId \cup {None}]
         /\ \A l \in Lease : Declared(table)[l] =
              IF table[l] # None /\ table[l].declared THEN table[l].id ELSE None
  BY DEF Declared, Table, Grant

\* An entry of a table is a grant or nothing.
LEMMA TableFacts ==
  ASSUME NEW table \in Table, NEW l \in Lease, table[l] # None
  PROVE  /\ table[l] \in Grant /\ table[l].actor \in Activation
         /\ table[l].id \in ScheduleId /\ table[l].declared \in BOOLEAN
  BY DEF Table, Grant

\* The record of no operation.
LEMMA IdleFacts ==
  /\ Idle \in OpType /\ Idle.kind = "none" /\ Idle.pc = "idle" /\ Idle.lease = None
  /\ Idle.rest = {} /\ Idle.table = NoLeases /\ NoLeases \in Table
  BY DEF Idle, OpType, Kinds, Points, Table, NoLeases

\* An operation is known by its point.
LEMMA PointFacts ==
  ASSUME LeasesInv
  PROVE  /\ op \in OpType
         /\ op.pc \in {"refresh", "insert", "undo"} => Registering
         /\ op.pc = "withdraw" => Registering \/ Cancelling \/ Releasing
         /\ op.pc = "remove" => Cancelling \/ Releasing
         /\ op.pc = "next" => Releasing /\ op.lease = None
         /\ op.pc = "install" => Declaring
         /\ op.kind = "declare" => Declaring
         /\ op.kind = "register" => Registering
         /\ op.pc = "idle" => op = Idle
<1>1. op \in OpType
  BY DEF LeasesInv, TypeOK, OpType, Kinds, Points
<1>2. op = Idle \/ Registering \/ Cancelling \/ Releasing \/ Declaring
  BY DEF LeasesInv, OpState
<1> QED
  BY <1>1, <1>2, IdleFacts DEF Registering, Cancelling, Releasing, Removing, Declaring

-----------------------------------------------------------------------------
\* Steps outside of the lock that the tables do not see.
LEMMA OutsideStep ==
  ASSUME LeasesInv, TypeOK', ReleasedOwnsNothing',
         UNCHANGED << op, lease, owner, source, overlay, accepted >>, faults' = faults
  PROVE  LeasesInv'
<1> USE DEF LeasesInv
<1>1. OpState' /\ OverlayState' /\ OwnersMatch'
  BY DEF OpState, Registering, Cancelling, Releasing, Removing, Declaring, Leased, OverlayState,
         OwnersMatch, Leaving, InEffect, Declared
<1>2. (faults = 0 => SourcesMatch /\ AcceptedProvided /\ LeasesHeld)'
  BY LeaseAssumption DEF SourcesMatch, AcceptedProvided, LeasesHeld, Leaving, InEffect, Provides
<1> QED
  BY <1>1, <1>2

\* A call is authorized: the tables do not change.
LEMMA AuthorizeStep ==
  ASSUME LeasesInv, NEW a \in Activation, NEW r \in Request, Authorize(a, r)
  PROVE  LeasesInv'
<1> USE DEF Authorize, tableVars, diskVars, schedulerVars, boundVars
<1>1. TypeOK'
  BY DEF LeasesInv, TypeOK
<1>2. ReleasedOwnsNothing'
  BY DEF LeasesInv, ReleasedOwnsNothing, Leased
<1> QED
  BY <1>1, <1>2, OutsideStep

\* Observers are added and removed without the lock.
LEMMA ObserveStep ==
  ASSUME LeasesInv, NEW a \in Activation, Observe(a) \/ StopObserving(a)
  PROVE  LeasesInv'
<1> USE DEF Observe, StopObserving, Serve, ServedLate, tableVars, diskVars, schedulerVars, boundVars
<1>1. TypeOK'
  BY DEF LeasesInv, TypeOK
<1>2. ReleasedOwnsNothing'
  BY DEF LeasesInv, ReleasedOwnsNothing, Leased
<1> QED
  BY <1>1, <1>2, OutsideStep

\* The bridge closes, the user edits, routes change.
LEMMA SurroundingStep ==
  ASSUME LeasesInv,
         \/ Close
         \/ \E files \in SUBSET ScheduleId, unloadable \in BOOLEAN : EditDirectory(files, unloadable)
         \/ \E routes \in SUBSET ScheduleId : ChangeRoutes(routes)
  PROVE  LeasesInv'
<1> USE DEF Close, EditDirectory, ChangeRoutes, tableVars, diskVars, schedulerVars, boundVars
<1>1. TypeOK'
  BY LeaseAssumption DEF LeasesInv, TypeOK
<1>2. ReleasedOwnsNothing'
  BY DEF LeasesInv, TypeOK, ReleasedOwnsNothing, Leased
<1> QED
  BY <1>1, <1>2, OutsideStep

-----------------------------------------------------------------------------
\* While nothing failed, a lease that is not leaving provides its schedule.
LEMMA HeldProvides ==
  ASSUME LeasesInv, faults = 0, NEW l \in Lease \ Leaving, InEffect[l] # None
  PROVE  Provides(overlay, l, InEffect[l].id) /\ InEffect[l].id \in ScheduleId
<1>1. InEffect \in Table /\ op \in OpType
  BY PointFacts DEF LeasesInv, TypeOK, InEffect, OpType
<1>2. InEffect[l].id \in ScheduleId /\ InEffect[l].declared \in BOOLEAN
  BY <1>1, TableFacts
<1> DEFINE rest == [m \in Lease |-> IF m \in Leaving THEN None ELSE InEffect[m]]
<1>3. rest \in Table /\ rest[l] = InEffect[l]
  BY <1>1 DEF Table
<1>4. overlay = Declared(rest)
  BY DEF LeasesInv, OverlayState
<1> HIDE DEF rest
<1>5. overlay[l] = IF InEffect[l].declared THEN InEffect[l].id ELSE None
  BY <1>3, <1>4, DeclaredFacts
<1>6. ~InEffect[l].declared => source[l] = InEffect[l].id
  BY DEF LeasesInv, LeasesHeld
<1>7. l # User
  BY LeaseAssumption
<1> QED
  BY <1>2, <1>5, <1>6, <1>7 DEF Provides

\* A candidate of the overlay is accepted: an explicit refresh.
LEMMA RefreshStep ==
  ASSUME LeasesInv, Refresh
  PROVE  LeasesInv'
<1> USE DEF Refresh, tableVars, diskVars, boundVars
<1>1. \A id \in ScheduleId : accepted'[id] = Built(overlay)[id]
  BY DEF Built
<1>2. \A id \in ScheduleId :
        /\ \A p \in Lease : Provides(overlay, p, id) => accepted'[id] = p
        /\ accepted'[id] # None => Provides(overlay, accepted'[id], id)
        /\ accepted'[id] \in Lease \cup {User, None}
  BY <1>1, BuiltFacts
<1>3. TypeOK'
  BY <1>2 DEF LeasesInv, TypeOK, Built
<1>4. OpState' /\ OverlayState' /\ OwnersMatch' /\ ReleasedOwnsNothing'
  BY DEF LeasesInv, OpState, Registering, Cancelling, Releasing, Removing, Declaring, Leased,
         OverlayState, OwnersMatch, Leaving, InEffect, Declared, ReleasedOwnsNothing
<1>5. ASSUME faults' = 0
      PROVE  SourcesMatch' /\ AcceptedProvided' /\ LeasesHeld'
  <2>1. SourcesMatch /\ LeasesHeld /\ faults = 0
    BY <1>5 DEF LeasesInv
  <2>2. SourcesMatch'
    BY <2>1 DEF SourcesMatch
  <2>3. AcceptedProvided'
    BY <1>2, LeaseAssumption DEF AcceptedProvided, Provides
  <2>4. \A l \in Lease \ Leaving : InEffect[l] # None => accepted'[InEffect[l].id] = l
    BY <1>2, <2>1, HeldProvides
  <2>5. op.pc = "insert" => accepted'[op.id] = op.lease
    <3> SUFFICES ASSUME op.pc = "insert"
                 PROVE  accepted'[op.id] = op.lease
      OBVIOUS
    <3>1. Registering /\ source[op.lease] = op.id
      BY <2>1, PointFacts DEF SourcesMatch
    <3>2. Provides(overlay, op.lease, op.id)
      BY <3>1, LeaseAssumption DEF Provides, Registering
    <3> QED
      BY <1>2, <3>1, <3>2 DEF Registering
  <2>6. LeasesHeld'
    BY <2>1, <2>4, <2>5 DEF LeasesHeld, Leaving, InEffect
  <2> QED
    BY <2>2, <2>3, <2>6
<1> QED
  BY <1>3, <1>4, <1>5 DEF LeasesInv

\* The next process starts with nothing.
LEMMA RestartStep ==
  ASSUME LeasesInv, Restart
  PROVE  LeasesInv'
<1> USE DEF Restart
<1>1. /\ op' = Idle /\ op' \in OpType /\ op'.pc = "idle" /\ op'.kind = "none" /\ op'.lease = None
      /\ op'.rest = {} /\ lease' = NoLeases /\ lease' \in Table
      /\ \A l \in Lease : lease'[l] = None /\ source'[l] = None
  BY IdleFacts DEF NoLeases
<1>2. TypeOK'
  BY <1>1, LeaseAssumption DEF LeasesInv, TypeOK, OpType, Kinds, Points
<1>3. OpState' /\ OwnersMatch'
  BY <1>1 DEF OpState, OwnersMatch
<1>4. OverlayState'
  BY <1>1 DEF OverlayState, Declared, InEffect, Leaving
<1>5. ReleasedOwnsNothing'
  BY <1>1 DEF ReleasedOwnsNothing, LeasesInv, TypeOK
<1>6. SourcesMatch' /\ AcceptedProvided' /\ LeasesHeld'
  BY <1>1, LeaseAssumption DEF SourcesMatch, AcceptedProvided, LeasesHeld, InEffect
<1> QED
  BY <1>2, <1>3, <1>4, <1>5, <1>6 DEF LeasesInv

-----------------------------------------------------------------------------
\* Facts of every state between operations.
LEMMA FreeFacts ==
  ASSUME LeasesInv, LockFree
  PROVE  /\ op.kind = "none" /\ op.pc = "idle" /\ op.rest = {} /\ op.lease = None
         /\ InEffect = lease /\ Leaving \cap Lease = {} /\ overlay = Declared(lease)
<1>1. /\ op.kind = "none" /\ op.pc = "idle" /\ op.rest = {} /\ op.lease = None
      /\ InEffect = lease /\ Leaving \cap Lease = {}
  BY IdleFacts, LeaseAssumption DEF LockFree, InEffect, Leaving
<1>2. [l \in Lease |-> IF l \in Leaving THEN None ELSE InEffect[l]] = lease
  BY <1>1 DEF LeasesInv, TypeOK, Table
<1> QED
  BY <1>1, <1>2 DEF LeasesInv, OverlayState

\* A registration writes its source, or nothing.
LEMMA RegisterStep ==
  ASSUME LeasesInv, NEW a \in Activation, Register(a)
  PROVE  LeasesInv'
<1> USE DEF tableVars, diskVars, schedulerVars, boundVars
<1>0. /\ LockFree /\ request[a] # None /\ request[a].kind = "register" /\ request' = [request EXCEPT ![a] = None]
      /\ UNCHANGED << stage, lease, owner, observers, userFiles, broken, overlay, accepted, routed, stale, changes >>
  BY DEF Register, Serve
<1>1. request[a].of \in ScheduleId
  BY <1>0 DEF LeasesInv, TypeOK, Request
<1>2. request' \in [Activation -> Request \cup {None}]
  BY <1>0 DEF LeasesInv, TypeOK
<1>3. CASE UNCHANGED << source, op >>
  <2>1. faults' = faults \/ (faults < MaxFaults /\ faults' = faults + 1)
    BY <1>3 DEF Register
  <2>2. TypeOK'
    BY <1>0, <1>2, <1>3, <2>1, LeaseAssumption DEF LeasesInv, TypeOK
  <2>3. faults' = 0 => faults = 0
    BY <2>1 DEF LeasesInv, TypeOK
  <2>4. OpState' /\ OverlayState' /\ OwnersMatch' /\ ReleasedOwnsNothing'
    BY <1>0, <1>3 DEF LeasesInv, OpState, Registering, Cancelling, Releasing, Removing, Declaring,
       Leased, OverlayState, OwnersMatch, Leaving, InEffect, Declared, ReleasedOwnsNothing
  <2>5. faults' = 0 => SourcesMatch' /\ AcceptedProvided' /\ LeasesHeld'
    BY <1>0, <1>3, <2>3, LeaseAssumption
       DEF LeasesInv, SourcesMatch, AcceptedProvided, LeasesHeld, Leaving, InEffect, Provides
  <2> QED
    BY <2>2, <2>4, <2>5 DEF LeasesInv
<1>4. CASE ~ UNCHANGED << source, op >>
  <2> DEFINE id == request[a].of
  <2>1. PICK l \in Lease :
          /\ Fresh(l) /\ source' = [source EXCEPT ![l] = id]
          /\ op' = [Idle EXCEPT !.kind = "register", !.pc = "refresh", !.actor = a, !.id = id, !.lease = l]
    BY <1>4 DEF Register
  <2>2. owner[id] = None /\ accepted[id] = None /\ faults' = faults
    BY <1>4 DEF Register
  <2> HIDE DEF id
  <2>3. id \in ScheduleId
    BY <1>1 DEF id
  <2>4. /\ op' \in OpType /\ op'.kind = "register" /\ op'.pc = "refresh" /\ op'.actor = a
        /\ op'.id = id /\ op'.lease = l /\ op'.rest = {}
    BY <2>1, <2>3, IdleFacts DEF Idle, OpType, Kinds, Points
  <2>5. /\ lease[l] = None /\ source[l] = None /\ source \in [Lease -> ScheduleId \cup {None}]
    BY <2>1 DEF Fresh, LeasesInv, TypeOK
  <2>6. TypeOK'
    BY <1>0, <1>2, <2>1, <2>2, <2>3, <2>4, <2>5 DEF LeasesInv, TypeOK, OpType, Kinds, Points
  <2>7. OpState'
    BY <1>0, <2>2, <2>3, <2>4, <2>5 DEF OpState, Registering
  <2>8. OverlayState'
    <3>1. overlay = Declared(lease) /\ lease \in Table
      BY <1>0, FreeFacts DEF LeasesInv, TypeOK
    <3>2. lease = [m \in Lease |-> IF m \in op'.rest \cup {op'.lease} THEN None ELSE lease[m]]
      BY <2>4, <2>5, <3>1 DEF Table
    <3> QED
      BY <1>0, <2>4, <3>1, <3>2 DEF OverlayState, InEffect, Leaving
  <2>9. OwnersMatch' /\ ReleasedOwnsNothing'
    BY <1>0 DEF LeasesInv, OwnersMatch, ReleasedOwnsNothing, Leased
  <2>10. ASSUME faults' = 0
         PROVE  SourcesMatch' /\ AcceptedProvided' /\ LeasesHeld'
    <3>1. /\ SourcesMatch /\ AcceptedProvided /\ LeasesHeld
          /\ op.pc = "idle" /\ InEffect = lease /\ Leaving \cap Lease = {}
      BY <1>0, <2>2, <2>10, FreeFacts DEF LeasesInv
    <3>2. SourcesMatch'
      BY <1>0, <2>1, <2>4, <2>5, <3>1 DEF SourcesMatch
    <3>3. AcceptedProvided'
      BY <1>0, <2>1, <2>3, <2>4, <2>5, <3>1, LeaseAssumption DEF AcceptedProvided, Provides
    <3>4. LeasesHeld'
      BY <1>0, <2>1, <2>4, <2>5, <3>1 DEF LeasesHeld, InEffect, Leaving
    <3> QED
      BY <3>2, <3>3, <3>4
  <2> QED
    BY <2>6, <2>7, <2>8, <2>9, <2>10 DEF LeasesInv
<1> QED
  BY <1>3, <1>4

\* An operation that goes on to another point.
LEMMA PcFacts ==
  ASSUME LeasesInv, NEW p \in Points, op' = [op EXCEPT !.pc = p]
  PROVE  /\ op' \in OpType /\ op'.pc = p /\ op'.kind = op.kind /\ op'.actor = op.actor
         /\ op'.id = op.id /\ op'.lease = op.lease /\ op'.rest = op.rest
         /\ op'.failed = op.failed /\ op'.next = op.next /\ op'.table = op.table
  BY PointFacts DEF OpType

\* What is leaving, and the overlay, when an operation goes on.
LEMMA SamePlace ==
  ASSUME LeasesInv, op'.kind = op.kind, op'.lease = op.lease, op'.rest = op.rest,
         op'.table = op.table, UNCHANGED << lease, overlay >>
  PROVE  InEffect' = InEffect /\ Leaving' = Leaving /\ OverlayState'
  BY DEF LeasesInv, InEffect, Leaving, OverlayState

\* The candidate with the new source is accepted, or the registration is undone.
LEMMA RegisterRefreshStep ==
  ASSUME LeasesInv, RegisterRefresh
  PROVE  LeasesInv'
<1>0. /\ op.pc = "refresh" /\ Registering
      /\ UNCHANGED << stage, request, lease, owner, observers, source, userFiles, broken, overlay,
                      routed, stale, faults, changes >>
  BY PointFacts DEF RegisterRefresh, tableVars, diskVars, boundVars
<1>1. PICK p \in {"insert", "undo"} :
        /\ op' = [op EXCEPT !.pc = p]
        /\ \/ p = "insert" /\ Valid(overlay, routed) /\ accepted' = Built(overlay)
           \/ p = "undo" /\ UNCHANGED accepted
  BY DEF RegisterRefresh
<1>2. /\ op' \in OpType /\ op'.pc = p /\ op'.kind = op.kind /\ op'.actor = op.actor
      /\ op'.id = op.id /\ op'.lease = op.lease /\ op'.rest = op.rest
      /\ op'.failed = op.failed /\ op'.next = op.next /\ op'.table = op.table
  <2>1. p \in Points
    BY DEF Points
  <2> QED
    BY <1>1, <2>1, PcFacts
<1>3. \A id \in ScheduleId : p = "insert" =>
        /\ \A q \in Lease : Provides(overlay, q, id) => accepted'[id] = q
        /\ accepted'[id] # None => Provides(overlay, accepted'[id], id)
        /\ accepted'[id] \in Lease \cup {User, None}
  BY <1>1, BuiltFacts
<1>4. TypeOK'
  <2>1. accepted' \in [ScheduleId -> Lease \cup {User, None}]
    BY <1>1, <1>3 DEF LeasesInv, TypeOK, Built
  <2> QED
    BY <1>0, <1>2, <2>1 DEF LeasesInv, TypeOK, OpType, Kinds, Points
<1>5. OpState'
  BY <1>0, <1>1, <1>2 DEF OpState, Registering
<1>6. InEffect' = InEffect /\ Leaving' = Leaving /\ OverlayState'
  BY <1>0, <1>2, SamePlace
<1>7. OwnersMatch' /\ ReleasedOwnsNothing'
  BY <1>0 DEF LeasesInv, OwnersMatch, ReleasedOwnsNothing, Leased
<1>8. ASSUME faults' = 0
      PROVE  SourcesMatch' /\ AcceptedProvided' /\ LeasesHeld'
  <2>1. SourcesMatch /\ AcceptedProvided /\ LeasesHeld /\ faults = 0
    BY <1>0, <1>8 DEF LeasesInv
  <2>2. SourcesMatch'
    BY <1>0, <1>1, <1>2, <2>1 DEF SourcesMatch
  <2>3. AcceptedProvided'
    BY <1>0, <1>1, <1>3, <2>1, LeaseAssumption DEF AcceptedProvided, Provides
  <2>4. \A l \in Lease \ Leaving : InEffect[l] # None => accepted'[InEffect[l].id] = l
    BY <1>1, <1>3, <2>1, HeldProvides DEF LeasesHeld
  <2>5. Provides(overlay, op.lease, op.id)
    BY <1>0, <2>1, LeaseAssumption DEF SourcesMatch, Registering, Provides
  <2>6. p = "insert" => accepted'[op.id] = op.lease
    BY <1>0, <1>3, <2>5 DEF Registering
  <2>7. LeasesHeld'
    BY <1>0, <1>1, <1>2, <1>6, <2>1, <2>4, <2>6 DEF LeasesHeld
  <2> QED
    BY <2>2, <2>3, <2>7
<1> QED
  BY <1>4, <1>5, <1>6, <1>7, <1>8 DEF LeasesInv

\* The lease enters the table.
LEMMA RegisterInsertStep ==
  ASSUME LeasesInv, RegisterInsert
  PROVE  LeasesInv'
<1> DEFINE g == [actor |-> op.actor, id |-> op.id, declared |-> FALSE]
<1>0. /\ op.pc = "insert" /\ Registering /\ op' = Idle
      /\ lease' = [lease EXCEPT ![op.lease] = g] /\ owner' = [owner EXCEPT ![op.id] = op.lease]
      /\ ServedLate(op.actor)
      /\ UNCHANGED << stage, request, observers, source, userFiles, broken, overlay, accepted,
                      routed, faults, changes >>
  BY PointFacts DEF RegisterInsert, diskVars, schedulerVars, boundVars
<1>1. /\ g \in Grant /\ g # None /\ g.actor = op.actor /\ g.id = op.id /\ g.declared = FALSE
  <2>1. g.actor = op.actor /\ g.id = op.id
    OBVIOUS
  <2>2. g.declared = FALSE
    OBVIOUS
  <2>3. op.actor \in Activation /\ op.id \in ScheduleId
    BY <1>0 DEF Registering
  <2>4. g \in Grant
    BY <2>3 DEF Grant
  <2>5. g # None
    BY <2>4, LeaseAssumption
  <2> HIDE DEF g
  <2> QED
    BY <2>1, <2>2, <2>4, <2>5
<1> HIDE DEF g
<1>2. /\ lease' \in Table /\ lease'[op.lease] = g
      /\ \A l \in Lease \ {op.lease} : lease'[l] = lease[l]
      /\ owner' \in [ScheduleId -> Lease \cup {None}] /\ owner'[op.id] = op.lease
      /\ \A id \in ScheduleId \ {op.id} : owner'[id] = owner[id]
  BY <1>0, <1>1 DEF LeasesInv, TypeOK, Table, Registering
<1>3. /\ op' \in OpType /\ op'.pc = "idle" /\ op'.kind = "none" /\ op'.lease = None /\ op'.rest = {}
  BY <1>0, IdleFacts
<1>4. /\ InEffect' = lease' /\ Leaving' = {None} /\ None \notin Lease
      /\ InEffect = lease /\ Leaving = {op.lease}
  BY <1>0, <1>3, LeaseAssumption DEF InEffect, Leaving, Registering
<1>5. stale' \in SUBSET Activation /\ stale \subseteq stale' /\ (stage[op.actor] # "admitted" => op.actor \in stale')
  BY <1>0 DEF ServedLate, LeasesInv, TypeOK, Registering
<1>6. TypeOK'
  BY <1>0, <1>2, <1>3, <1>5 DEF LeasesInv, TypeOK, OpType, Kinds, Points
<1>7. OpState'
  BY <1>0 DEF OpState
<1>8. OverlayState'
  <2> DEFINE t == [l \in Lease |-> IF l \in Leaving THEN None ELSE InEffect[l]]
             u == [l \in Lease |-> IF l \in Leaving' THEN None ELSE InEffect'[l]]
  <2>1. t \in Table /\ u \in Table
    BY <1>2, <1>4 DEF LeasesInv, TypeOK, Table
  <2>2. \A l \in Lease : u[l] = IF l = op.lease THEN g ELSE t[l]
    BY <1>2, <1>4
  <2>3. t[op.lease] = None
    BY <1>0, <1>4 DEF Registering
  <2>4. overlay' = Declared(t)
    BY <1>0 DEF LeasesInv, OverlayState
  <2> HIDE DEF t, u
  <2>5. \A l \in Lease : Declared(u)[l] = Declared(t)[l]
    BY <1>1, <2>1, <2>2, <2>3, DeclaredFacts
  <2>6. Declared(u) = Declared(t)
    BY <2>1, <2>5, DeclaredFacts
  <2> QED
    BY <2>4, <2>6 DEF OverlayState, u
<1>9. OwnersMatch'
  <2>1. OwnersMatch /\ owner[op.id] = None /\ lease[op.lease] = None
    BY <1>0 DEF LeasesInv, Registering
  <2>2. ASSUME NEW l \in Lease, lease'[l] # None
        PROVE  owner'[lease'[l].id] = l
    <3>1. CASE l = op.lease
      BY <1>1, <1>2, <3>1
    <3>2. CASE l # op.lease
      <4>1. owner[lease[l].id] = l /\ lease'[l] = lease[l] /\ lease[l].id \in ScheduleId
        BY <1>2, <2>1, <2>2, <3>2, TableFacts DEF OwnersMatch
      <4>2. lease[l].id # op.id
        BY <2>1, <4>1, LeaseAssumption
      <4> QED
        BY <1>2, <4>1, <4>2
    <3> QED
      BY <3>1, <3>2
  <2>3. ASSUME NEW id \in ScheduleId, owner'[id] # None
        PROVE  lease'[owner'[id]] # None /\ lease'[owner'[id]].id = id
    <3>1. CASE id = op.id
      BY <1>1, <1>2, <3>1
    <3>2. CASE id # op.id
      <4>1. owner'[id] = owner[id] /\ lease[owner[id]] # None /\ lease[owner[id]].id = id
        BY <1>2, <2>1, <2>3, <3>2 DEF OwnersMatch
      <4>2. owner[id] \in Lease
        BY <2>3, <4>1 DEF LeasesInv, TypeOK
      <4> QED
        BY <1>2, <2>1, <4>1, <4>2
    <3> QED
      BY <3>1, <3>2
  <2> QED
    BY <2>2, <2>3 DEF OwnersMatch
<1>10. ReleasedOwnsNothing'
  BY <1>0, <1>1, <1>2, <1>5 DEF LeasesInv, ReleasedOwnsNothing, Leased
<1>11. ASSUME faults' = 0
       PROVE  SourcesMatch' /\ AcceptedProvided' /\ LeasesHeld'
  <2>1. SourcesMatch /\ AcceptedProvided /\ LeasesHeld
    BY <1>0, <1>11 DEF LeasesInv
  <2>2. SourcesMatch'
    BY <1>0, <1>1, <1>2, <1>3, <2>1 DEF SourcesMatch, Registering
  <2>3. AcceptedProvided'
    BY <1>0, <1>3, <2>1, LeaseAssumption DEF AcceptedProvided, Provides
  <2>4. LeasesHeld'
    BY <1>0, <1>1, <1>2, <1>3, <1>4, <2>1 DEF LeasesHeld, SourcesMatch, Registering
  <2> QED
    BY <2>2, <2>3, <2>4
<1> QED
  BY <1>6, <1>7, <1>8, <1>9, <1>10, <1>11 DEF LeasesInv

\* The registration that failed is undone: its source first.
LEMMA RegisterUndoStep ==
  ASSUME LeasesInv, RegisterUndo
  PROVE  LeasesInv'
<1>0. /\ op.pc = "undo" /\ Registering /\ op' = [op EXCEPT !.pc = "withdraw"]
      /\ RetireSource(op.lease) \/ RetireSourceFails(op.lease)
      /\ UNCHANGED << stage, request, lease, owner, observers, userFiles, broken, overlay, accepted,
                      routed, stale, changes >>
  BY PointFacts DEF RegisterUndo, tableVars, schedulerVars
<1>1. /\ op' \in OpType /\ op'.pc = "withdraw" /\ op'.kind = op.kind /\ op'.actor = op.actor
      /\ op'.id = op.id /\ op'.lease = op.lease /\ op'.rest = op.rest
      /\ op'.failed = op.failed /\ op'.next = op.next /\ op'.table = op.table
  <2>1. "withdraw" \in Points
    BY DEF Points
  <2> QED
    BY <1>0, <2>1, PcFacts
<1>2. /\ source' \in [Lease -> ScheduleId \cup {None}] /\ faults' \in 0..MaxFaults
      /\ faults' = 0 => faults = 0 /\ source' = [source EXCEPT ![op.lease] = None]
  BY <1>0, LeaseAssumption DEF RetireSource, RetireSourceFails, LeasesInv, TypeOK
<1>3. TypeOK'
  BY <1>0, <1>1, <1>2 DEF LeasesInv, TypeOK, OpType, Kinds, Points
<1>4. OpState'
  BY <1>0, <1>1 DEF OpState, Registering
<1>5. InEffect' = InEffect /\ Leaving' = Leaving /\ OverlayState'
  BY <1>0, <1>1, SamePlace
<1>6. OwnersMatch' /\ ReleasedOwnsNothing'
  BY <1>0 DEF LeasesInv, OwnersMatch, ReleasedOwnsNothing, Leased
<1>7. ASSUME faults' = 0
      PROVE  SourcesMatch' /\ AcceptedProvided' /\ LeasesHeld'
  <2>1. SourcesMatch /\ AcceptedProvided /\ LeasesHeld
    BY <1>2, <1>7 DEF LeasesInv
  <2>2. /\ source'[op.lease] = None /\ \A l \in Lease \ {op.lease} : source'[l] = source[l]
        /\ source[op.lease] = op.id
    BY <1>0, <1>2, <1>7, <2>1 DEF LeasesInv, TypeOK, Registering, SourcesMatch
  <2>3. SourcesMatch'
    BY <1>0, <1>1, <2>1, <2>2 DEF SourcesMatch, Registering
  <2>4. AcceptedProvided'
    BY <1>0, <1>1, <2>1, <2>2, LeaseAssumption DEF AcceptedProvided, Provides
  <2>5. LeasesHeld'
    BY <1>0, <1>1, <1>5, <2>1, <2>2 DEF LeasesHeld, Leaving
  <2> QED
    BY <2>3, <2>4, <2>5
<1> QED
  BY <1>3, <1>4, <1>5, <1>6, <1>7 DEF LeasesInv

\* A lease that an operation takes out of the table.
LEMMA RemovingFacts ==
  ASSUME LeasesInv, Removing
  PROVE  /\ op.lease \in Lease /\ lease[op.lease] # None /\ op.id = lease[op.lease].id
         /\ op.id \in ScheduleId /\ owner[op.id] = op.lease
         /\ \A l \in Lease : lease[l] # None /\ lease[l].id = op.id => l = op.lease
<1>1. op.lease \in Lease /\ lease[op.lease] # None /\ op.id = lease[op.lease].id
  BY DEF Removing
<1>2. op.id \in ScheduleId
  BY <1>1, TableFacts DEF LeasesInv, TypeOK
<1> QED
  BY <1>1, <1>2 DEF LeasesInv, OwnersMatch

\* The schedule of a lease that leaves is withdrawn: no other lease has it.
LEMMA WithdrawStep ==
  ASSUME LeasesInv, Withdraw
  PROVE  LeasesInv'
<1>0. /\ op.pc = "withdraw" /\ (Registering \/ Cancelling \/ Releasing)
      /\ accepted' = [accepted EXCEPT ![op.id] = None]
      /\ UNCHANGED << stage, request, lease, owner, observers, source, userFiles, broken, overlay,
                      routed, stale, faults, changes >>
  BY PointFacts DEF Withdraw, WithdrawSchedule, tableVars, diskVars, boundVars
<1>1. /\ op.id \in ScheduleId /\ op.lease \in Lease /\ InEffect = lease
      /\ \A l \in Lease : lease[l] # None /\ lease[l].id = op.id => l = op.lease
  <2>1. CASE Registering
    <3>1. \A l \in Lease : lease[l] # None => lease[l].id # op.id
      BY <2>1, LeaseAssumption DEF Registering, LeasesInv, OwnersMatch
    <3> QED
      BY <2>1, <3>1 DEF Registering, InEffect
  <2>2. CASE Cancelling \/ Releasing
    <3>1. Removing /\ op.kind # "declare"
      BY <1>0, <2>2 DEF Cancelling, Releasing
    <3> QED
      BY <3>1, RemovingFacts DEF InEffect
  <2> QED
    BY <1>0, <2>1, <2>2
<1>2. accepted' \in [ScheduleId -> Lease \cup {User, None}]
  BY <1>0 DEF LeasesInv, TypeOK
<1>3. /\ op' \in OpType /\ InEffect' = lease /\ Leaving' \subseteq Leaving \cup {None}
      /\ OpState' /\ OverlayState'
      /\ op'.pc = "idle" \/ (op'.pc = "remove" /\ op'.lease = op.lease)
      /\ \A l \in op'.rest : lease[l] # None
      /\ \A l \in Lease \ Leaving' : lease[l] # None => l \notin Leaving
  <2>1. CASE op.kind = "register"
    <3>1. op' = Idle /\ Registering
      BY <2>1, PointFacts DEF Withdraw
    <3>2. /\ op' \in OpType /\ op'.pc = "idle" /\ op'.kind = "none" /\ op'.lease = None
          /\ op'.rest = {}
      BY <3>1, IdleFacts
    <3>3. InEffect' = lease /\ Leaving' = {None} /\ Leaving = {op.lease} /\ lease[op.lease] = None
      BY <1>0, <3>1, <3>2 DEF InEffect, Leaving, Registering
    <3>4. [l \in Lease |-> IF l \in Leaving THEN None ELSE InEffect[l]]
            = [l \in Lease |-> IF l \in Leaving' THEN None ELSE InEffect'[l]]
      BY <1>1, <3>3, LeaseAssumption
    <3>5. OverlayState'
      BY <1>0, <3>4 DEF LeasesInv, OverlayState
    <3>6. OpState'
      BY <3>1 DEF OpState
    <3> QED
      BY <3>2, <3>3, <3>5, <3>6
  <2>2. CASE op.kind # "register"
    <3>1. op' = [op EXCEPT !.pc = "remove"] /\ (Cancelling \/ Releasing)
      BY <1>0, <2>2 DEF Withdraw, Registering
    <3>2. "remove" \in Points
      BY DEF Points
    <3>3. /\ op' \in OpType /\ op'.pc = "remove" /\ op'.kind = op.kind /\ op'.actor = op.actor
          /\ op'.id = op.id /\ op'.lease = op.lease /\ op'.rest = op.rest
          /\ op'.failed = op.failed /\ op'.next = op.next /\ op'.table = op.table
      BY <3>1, <3>2, PcFacts
    <3>4. InEffect' = InEffect /\ Leaving' = Leaving /\ OverlayState'
      BY <1>0, <3>3, SamePlace
    <3>5. OpState'
      BY <1>0, <3>1, <3>3 DEF OpState, Cancelling, Releasing, Removing, Leased
    <3>6. \A l \in op'.rest : lease[l] # None
      BY <3>3 DEF LeasesInv, TypeOK
    <3> QED
      BY <1>1, <3>3, <3>4, <3>5, <3>6
  <2> QED
    BY <2>1, <2>2
<1>4. TypeOK'
  BY <1>0, <1>2, <1>3 DEF LeasesInv, TypeOK, OpType, Kinds, Points
<1>5. OwnersMatch' /\ ReleasedOwnsNothing'
  BY <1>0 DEF LeasesInv, OwnersMatch, ReleasedOwnsNothing, Leased
<1>6. ASSUME faults' = 0
      PROVE  SourcesMatch' /\ AcceptedProvided' /\ LeasesHeld'
  <2>1. SourcesMatch /\ AcceptedProvided /\ LeasesHeld
    BY <1>0, <1>6 DEF LeasesInv
  <2>2. SourcesMatch'
    BY <1>0, <1>3, <2>1 DEF SourcesMatch
  <2>3. \A id \in ScheduleId : accepted'[id] = IF id = op.id THEN None ELSE accepted[id]
    BY <1>0 DEF LeasesInv, TypeOK
  <2>4. AcceptedProvided'
    BY <1>0, <2>1, <2>3, LeaseAssumption DEF AcceptedProvided, Provides
  <2>5. \A l \in Lease \ Leaving' : lease[l] # None =>
          /\ lease[l].id \in ScheduleId /\ lease[l].id # op.id /\ accepted[lease[l].id] = l
          /\ ~lease[l].declared => source[l] = lease[l].id
    <3> SUFFICES ASSUME NEW l \in Lease \ Leaving', lease[l] # None
                 PROVE  /\ lease[l].id \in ScheduleId /\ lease[l].id # op.id
                        /\ accepted[lease[l].id] = l
                        /\ ~lease[l].declared => source[l] = lease[l].id
      OBVIOUS
    <3>1. l \notin Leaving
      BY <1>3
    <3>2. lease[l].id \in ScheduleId
      BY TableFacts DEF LeasesInv, TypeOK
    <3>3. lease[l].id # op.id
      BY <1>1, <3>1 DEF Leaving
    <3> QED
      BY <1>1, <2>1, <3>1, <3>2, <3>3 DEF LeasesHeld
  <2>6. LeasesHeld'
    BY <1>0, <1>3, <2>3, <2>5 DEF LeasesHeld
  <2> QED
    BY <2>2, <2>4, <2>6
<1> QED
  BY <1>3, <1>4, <1>5, <1>6 DEF LeasesInv

\* The lease leaves the table.
LEMMA RemoveStep ==
  ASSUME LeasesInv, Remove
  PROVE  LeasesInv'
<1>0. /\ op.pc = "remove" /\ (Cancelling \/ Releasing) /\ Removing
      /\ lease' = [lease EXCEPT ![op.lease] = None] /\ owner' = [owner EXCEPT ![op.id] = None]
      /\ UNCHANGED << stage, request, observers, source, userFiles, broken, overlay, accepted,
                      routed, stale, faults, changes >>
  BY PointFacts DEF Remove, diskVars, schedulerVars, boundVars, Cancelling, Releasing
<1>1. /\ op.lease \in Lease /\ lease[op.lease] # None /\ op.id = lease[op.lease].id
      /\ op.id \in ScheduleId /\ owner[op.id] = op.lease
      /\ \A l \in Lease : lease[l] # None /\ lease[l].id = op.id => l = op.lease
  BY <1>0, RemovingFacts
<1>2. /\ lease' \in Table /\ owner' \in [ScheduleId -> Lease \cup {None}]
      /\ lease'[op.lease] = None /\ \A l \in Lease \ {op.lease} : lease'[l] = lease[l]
      /\ owner'[op.id] = None /\ \A id \in ScheduleId \ {op.id} : owner'[id] = owner[id]
  BY <1>0, <1>1 DEF LeasesInv, TypeOK, Table
<1>3. \A a : Leased(a)' = Leased(a) \ {op.lease}
  BY <1>1, <1>2 DEF Leased
<1>4. /\ op' \in OpType /\ op'.pc \in {"idle", "next"} /\ op'.kind # "declare" /\ op'.lease = None
      /\ op'.rest = op.rest \ {op.lease}
      /\ op' = Idle \/ (Releasing /\ op'.kind = "release" /\ op'.pc = "next"
                         /\ op'.actor = op.actor /\ op'.failed = op.failed)
  <2>1. CASE op.kind = "cancel"
    <3>1. op' = Idle /\ op.rest = {}
      BY <1>0, <2>1 DEF Remove, Cancelling, Releasing
    <3> QED
      BY <3>1, IdleFacts
  <2>2. CASE op.kind # "cancel"
    <3>1. /\ Releasing /\ op \in OpType
          /\ op' = [op EXCEPT !.pc = "next", !.id = None, !.lease = None, !.rest = @ \ {op.lease}]
      BY <1>0, <2>2, PointFacts DEF Remove, Cancelling
    <3>2. op' \in OpType
      BY <3>1 DEF OpType, Points
    <3>3. /\ op'.pc = "next" /\ op'.kind = op.kind /\ op'.lease = None
          /\ op'.rest = op.rest \ {op.lease} /\ op'.actor = op.actor /\ op'.failed = op.failed
      BY <3>1 DEF OpType
    <3> QED
      BY <3>1, <3>2, <3>3 DEF Releasing
  <2> QED
    BY <2>1, <2>2
<1>5. TypeOK'
  BY <1>0, <1>2, <1>4 DEF LeasesInv, TypeOK, OpType, Kinds, Points
<1>6. OpState'
  BY <1>3, <1>4 DEF OpState, Releasing
<1>7. InEffect' = lease' /\ InEffect = lease /\ \A l \in Lease \ {op.lease} : l \in Leaving <=> l \in Leaving'
  BY <1>0, <1>4, LeaseAssumption DEF InEffect, Leaving, Cancelling, Releasing
<1>8. OverlayState'
  <2>1. [l \in Lease |-> IF l \in Leaving THEN None ELSE InEffect[l]]
          = [l \in Lease |-> IF l \in Leaving' THEN None ELSE InEffect'[l]]
    BY <1>2, <1>7 DEF Leaving
  <2> QED
    BY <1>0, <2>1 DEF LeasesInv, OverlayState
<1>9. OwnersMatch'
  <2>1. OwnersMatch
    BY DEF LeasesInv
  <2>2. ASSUME NEW l \in Lease, lease'[l] # None
        PROVE  owner'[lease'[l].id] = l
    <3>1. l # op.lease /\ lease'[l] = lease[l]
      BY <1>2, <2>2
    <3>2. lease[l].id \in ScheduleId /\ lease[l].id # op.id
      BY <1>1, <2>2, <3>1, TableFacts DEF LeasesInv, TypeOK
    <3> QED
      BY <1>2, <2>1, <2>2, <3>1, <3>2 DEF OwnersMatch
  <2>3. ASSUME NEW id \in ScheduleId, owner'[id] # None
        PROVE  lease'[owner'[id]] # None /\ lease'[owner'[id]].id = id
    <3>1. id # op.id /\ owner'[id] = owner[id] /\ lease[owner[id]] # None /\ lease[owner[id]].id = id
      BY <1>2, <2>1, <2>3 DEF OwnersMatch
    <3>2. owner[id] \in Lease /\ owner[id] # op.lease
      BY <1>1, <2>3, <3>1 DEF LeasesInv, TypeOK
    <3> QED
      BY <1>2, <3>1, <3>2
  <2> QED
    BY <2>2, <2>3 DEF OwnersMatch
<1>10. ReleasedOwnsNothing'
  BY <1>0, <1>3 DEF LeasesInv, ReleasedOwnsNothing
<1>11. ASSUME faults' = 0
       PROVE  SourcesMatch' /\ AcceptedProvided' /\ LeasesHeld'
  <2>1. SourcesMatch /\ AcceptedProvided /\ LeasesHeld
    BY <1>0, <1>11 DEF LeasesInv
  <2>2. SourcesMatch'
    BY <1>0, <1>2, <1>4, <2>1 DEF SourcesMatch
  <2>3. AcceptedProvided'
    BY <1>0, <1>4, <2>1, LeaseAssumption DEF AcceptedProvided, Provides
  <2>4. LeasesHeld'
    BY <1>0, <1>2, <1>4, <1>7, <2>1 DEF LeasesHeld
  <2> QED
    BY <2>2, <2>3, <2>4
<1> QED
  BY <1>5, <1>6, <1>8, <1>9, <1>10, <1>11 DEF LeasesInv

-----------------------------------------------------------------------------
\* What is accepted once the definitions of a table replace those before.
LEMMA ReplacedFacts ==
  ASSUME LeasesInv, NEW table \in Table, NEW routes, Valid(Declared(table), routes),
         accepted' = Built(Declared(table)), overlay' = Declared(table)
  PROVE  /\ accepted' \in [ScheduleId -> Lease \cup {User, None}]
         /\ \A id \in ScheduleId, p \in Lease : accepted'[id] = p =>
              source[p] = id \/ overlay'[p] = id
         /\ \A l \in Lease :
              table[l] # None /\ (~table[l].declared => source[l] = table[l].id)
                => accepted'[table[l].id] = l
<1> DEFINE over == Declared(table)
<1>1. \A id \in ScheduleId : accepted'[id] = Built(over)[id]
  BY DEF Built
<1>2. over \in [Lease -> ScheduleId \cup {None}]
  BY DeclaredFacts
<1>3. Valid(over, routes) /\ overlay' = over
  OBVIOUS
<1>4. \A l \in Lease : table[l] # None =>
        /\ over[l] = IF table[l].declared THEN table[l].id ELSE None
        /\ table[l].id \in ScheduleId /\ table[l].declared \in BOOLEAN
  BY DeclaredFacts, TableFacts
<1> HIDE DEF over
<1>5. \A id \in ScheduleId :
        /\ \A p \in Lease \cup {User} : Provides(over, p, id) => accepted'[id] = p
        /\ accepted'[id] # None => Provides(over, accepted'[id], id)
        /\ accepted'[id] \in Lease \cup {User, None}
  BY <1>1, <1>3, BuiltFacts
<1>6. accepted' \in [ScheduleId -> Lease \cup {User, None}]
  BY <1>5 DEF Built
<1>7. \A id \in ScheduleId, p \in Lease : accepted'[id] = p => source[p] = id \/ over[p] = id
  BY <1>5, LeaseAssumption DEF Provides
<1>8. ASSUME NEW l \in Lease, table[l] # None, ~table[l].declared => source[l] = table[l].id
      PROVE  accepted'[table[l].id] = l
  <2>1. Provides(over, l, table[l].id)
    BY <1>4, <1>8, LeaseAssumption DEF Provides
  <2> QED
    BY <1>4, <1>5, <1>8, <2>1
<1> QED
  BY <1>3, <1>6, <1>7, <1>8

\* A source that could not be retired changes nothing else.
LEMMA FaultStep ==
  ASSUME LeasesInv, faults' \in 0..MaxFaults, faults' # 0, TypeOK',
         UNCHANGED << stage, op, lease, owner, observers, overlay, stale >>
  PROVE  LeasesInv'
<1>1. OpState' /\ OverlayState' /\ OwnersMatch' /\ ReleasedOwnsNothing'
  BY DEF LeasesInv, OpState, Registering, Cancelling, Releasing, Removing, Declaring, Leased,
         OverlayState, OwnersMatch, Leaving, InEffect, Declared, ReleasedOwnsNothing
<1> QED
  BY <1>1 DEF LeasesInv

\* A cancelled lease leaves the overlay or the directory first.
LEMMA CancelStep ==
  ASSUME LeasesInv, NEW a \in Activation, Cancel(a)
  PROVE  LeasesInv'
<1> DEFINE l == request[a].of
<1>0. /\ LockFree /\ request[a] # None /\ request[a].kind = "cancel"
      /\ request' = [request EXCEPT ![a] = None]
      /\ UNCHANGED << stage, lease, owner, observers, userFiles, broken, stale, changes >>
  BY DEF Cancel, Serve, tableVars
<1>1. /\ l \in Lease /\ request' \in [Activation -> Request \cup {None}]
      /\ lease \in Table /\ faults \in 0..MaxFaults
      /\ source \in [Lease -> ScheduleId \cup {None}]
  BY <1>0 DEF LeasesInv, TypeOK, Request
<1>2. CASE UNCHANGED << op, source, overlay, accepted, routed, faults >>
  <2>1. TypeOK'
    BY <1>0, <1>1, <1>2 DEF LeasesInv, TypeOK
  <2>2. ReleasedOwnsNothing'
    BY <1>0 DEF LeasesInv, ReleasedOwnsNothing, Leased
  <2> QED
    BY <1>0, <1>2, <2>1, <2>2, OutsideStep
<1>3. CASE RetireSourceFails(l) /\ UNCHANGED << op, overlay, accepted, routed >>
  <2>1. /\ faults' \in 0..MaxFaults /\ faults' # 0
        /\ source' \in [Lease -> ScheduleId \cup {None}]
    BY <1>1, <1>3, LeaseAssumption DEF RetireSourceFails
  <2>2. TypeOK'
    BY <1>0, <1>1, <1>3, <2>1 DEF LeasesInv, TypeOK
  <2> QED
    BY <1>0, <1>3, <2>1, <2>2, FaultStep
<1>4. ASSUME l \in Leased(a), faults' = faults, UNCHANGED routed,
             NEW p \in {"withdraw", "remove"},
             op' = [Idle EXCEPT !.kind = "cancel", !.pc = p, !.actor = a,
                                !.id = lease[l].id, !.lease = l],
             \/ /\ p = "withdraw" /\ ~lease[l].declared
                /\ source' = [source EXCEPT ![l] = None] /\ UNCHANGED << overlay, accepted >>
             \/ /\ p = "remove" /\ lease[l].declared
                /\ ReplaceDefinitions(Without({l})) /\ UNCHANGED source
      PROVE  LeasesInv'
  <2>1. lease[l] # None /\ lease[l].id \in ScheduleId /\ lease[l].declared \in BOOLEAN
    BY <1>1, <1>4, TableFacts DEF Leased
  <2>2. /\ op' \in OpType /\ op'.kind = "cancel" /\ op'.pc = p /\ op'.actor = a
        /\ op'.id = lease[l].id /\ op'.lease = l /\ op'.rest = {}
    BY <1>1, <1>4, <2>1, IdleFacts DEF Idle, OpType, Kinds, Points
  <2>3. op.pc = "idle" /\ InEffect = lease /\ Leaving \cap Lease = {} /\ overlay = Declared(lease)
    BY <1>0, FreeFacts
  <2>4. InEffect' = lease /\ Leaving' = {l}
    BY <1>0, <2>2 DEF InEffect, Leaving
  <2> DEFINE rest == [m \in Lease |-> IF m \in {l} THEN None ELSE lease[m]]
  <2>5. rest \in Table /\ rest[l] = None /\ \A m \in Lease \ {l} : rest[m] = lease[m]
    BY <1>1 DEF Table
  <2>6. Without({l}) = Declared(rest)
    BY DEF Without
  <2>7. OverlayState' <=> overlay' = Declared(rest)
    BY <2>4 DEF OverlayState
  <2> HIDE DEF rest, l
  <2>8. source' \in [Lease -> ScheduleId \cup {None}] /\ \A m \in Lease \ {l} : source'[m] = source[m]
    BY <1>1, <1>4
  <2>9. /\ accepted' \in [ScheduleId -> Lease \cup {User, None}]
        /\ overlay' = Declared(rest)
        /\ faults = 0 =>
             /\ source'[l] = None
             /\ \A id \in ScheduleId, q \in Lease : accepted'[id] = q =>
                  \/ source'[q] = id \/ overlay'[q] = id
                  \/ p = "withdraw" /\ q = l /\ id = lease[l].id
             /\ \A m \in Lease : rest[m] # None => accepted'[rest[m].id] = m
    <3>1. CASE p = "withdraw"
      <4>1. /\ ~lease[l].declared /\ source' = [source EXCEPT ![l] = None]
            /\ UNCHANGED << overlay, accepted >>
        BY <1>4, <3>1
      <4>2. \A m \in Lease : Declared(rest)[m] = Declared(lease)[m]
        BY <1>1, <2>1, <2>5, <4>1, DeclaredFacts
      <4>3. Declared(rest) = Declared(lease)
        BY <1>1, <2>5, <4>2, DeclaredFacts
      <4>4. accepted' \in [ScheduleId -> Lease \cup {User, None}]
        BY <4>1 DEF LeasesInv, TypeOK
      <4>5. source'[l] = None
        BY <1>1, <4>1
      <4>6. ASSUME faults = 0
            PROVE  /\ \A id \in ScheduleId, q \in Lease : accepted'[id] = q =>
                        \/ source'[q] = id \/ overlay'[q] = id
                        \/ p = "withdraw" /\ q = l /\ id = lease[l].id
                   /\ \A m \in Lease : rest[m] # None => accepted'[rest[m].id] = m
        <5>1. SourcesMatch /\ AcceptedProvided /\ LeasesHeld
          BY <4>6 DEF LeasesInv
        <5>2. source[l] = None \/ source[l] = lease[l].id
          BY <1>1, <2>3, <5>1 DEF SourcesMatch
        <5>3. \A id \in ScheduleId, q \in Lease : accepted[id] = q => source[q] = id \/ overlay[q] = id
          BY <2>3, <5>1, LeaseAssumption DEF AcceptedProvided, Provides
        <5>4. \A m \in Lease : rest[m] # None => rest[m] = lease[m] /\ m # l
          BY <2>5
        <5> QED
          BY <2>3, <2>8, <3>1, <4>1, <5>1, <5>2, <5>3, <5>4, LeaseAssumption DEF LeasesHeld
      <4> QED
        BY <2>3, <4>1, <4>3, <4>4, <4>5, <4>6
    <3>2. CASE p = "remove"
      <4>1. /\ lease[l].declared /\ UNCHANGED source /\ Valid(Declared(rest), routed)
            /\ overlay' = Declared(rest) /\ accepted' = Built(Declared(rest))
        BY <1>4, <2>6, <3>2 DEF ReplaceDefinitions
      <4>2. /\ accepted' \in [ScheduleId -> Lease \cup {User, None}]
            /\ \A id \in ScheduleId, q \in Lease : accepted'[id] = q =>
                 source[q] = id \/ overlay'[q] = id
            /\ \A m \in Lease :
                 rest[m] # None /\ (~rest[m].declared => source[m] = rest[m].id)
                   => accepted'[rest[m].id] = m
        BY <2>5, <4>1, ReplacedFacts
      <4>3. ASSUME faults = 0
            PROVE  /\ source[l] = None
                   /\ \A m \in Lease : rest[m] # None /\ ~rest[m].declared => source[m] = rest[m].id
        <5>1. SourcesMatch /\ LeasesHeld
          BY <4>3 DEF LeasesInv
        <5> QED
          BY <1>1, <2>3, <2>5, <4>1, <5>1 DEF SourcesMatch, LeasesHeld
      <4> QED
        BY <4>1, <4>2, <4>3
    <3> QED
      BY <3>1, <3>2
  <2>10. TypeOK'
    <3>1. overlay' \in [Lease -> ScheduleId \cup {None}]
      BY <2>5, <2>9, DeclaredFacts
    <3> QED
      BY <1>0, <1>1, <1>4, <2>2, <2>8, <2>9, <3>1 DEF LeasesInv, TypeOK, OpType, Kinds, Points
  <2>11. OpState'
    BY <1>0, <1>1, <1>4, <2>1, <2>2 DEF OpState, Cancelling, Removing
  <2>12. OwnersMatch' /\ ReleasedOwnsNothing'
    BY <1>0 DEF LeasesInv, OwnersMatch, ReleasedOwnsNothing, Leased
  <2>13. ASSUME faults' = 0
         PROVE  SourcesMatch' /\ AcceptedProvided' /\ LeasesHeld'
    <3>1. faults = 0 /\ SourcesMatch /\ LeasesHeld
      BY <1>4, <2>13 DEF LeasesInv
    <3>2. SourcesMatch'
      BY <1>0, <1>1, <2>2, <2>3, <2>8, <2>9, <3>1 DEF SourcesMatch
    <3>3. AcceptedProvided'
      BY <1>0, <2>2, <2>9, <3>1, LeaseAssumption DEF AcceptedProvided, Provides
    <3>4. LeasesHeld'
      BY <1>0, <2>2, <2>3, <2>4, <2>5, <2>8, <2>9, <3>1 DEF LeasesHeld
    <3> QED
      BY <3>2, <3>3, <3>4
  <2> QED
    BY <2>7, <2>9, <2>10, <2>11, <2>12, <2>13 DEF LeasesInv
<1> DEFINE removal(pc) == op' = [Idle EXCEPT !.kind = "cancel", !.pc = pc, !.actor = a,
                                             !.id = lease[l].id, !.lease = l]
<1>5. \/ UNCHANGED << op, source, overlay, accepted, routed, faults >>
      \/ RetireSourceFails(l) /\ UNCHANGED << op, overlay, accepted, routed >>
      \/ /\ l \in Leased(a) /\ ~lease[l].declared /\ RetireSource(l) /\ removal("withdraw")
         /\ UNCHANGED << overlay, accepted, routed >>
      \/ /\ l \in Leased(a) /\ lease[l].declared /\ ReplaceDefinitions(Without({l}))
         /\ removal("remove") /\ UNCHANGED << source, faults >>
  BY DEF Cancel
<1>6. CASE /\ l \in Leased(a) /\ ~lease[l].declared /\ RetireSource(l) /\ removal("withdraw")
           /\ UNCHANGED << overlay, accepted, routed >>
  BY <1>4, <1>6 DEF RetireSource
<1>7. CASE /\ l \in Leased(a) /\ lease[l].declared /\ ReplaceDefinitions(Without({l}))
           /\ removal("remove") /\ UNCHANGED << source, faults >>
  <2>1. UNCHANGED routed
    BY <1>7 DEF ReplaceDefinitions
  <2> QED
    BY <1>4, <1>7, <2>1
<1> QED
  BY <1>2, <1>3, <1>5, <1>6, <1>7

\* Routes and declarations are replaced by one transaction.
LEMMA ReconcileStep ==
  ASSUME LeasesInv, NEW next \in SUBSET Activation, NEW table \in [Lease -> Grant \cup {None}],
         NEW routes \in SUBSET ScheduleId, Reconcile(next, table, routes)
  PROVE  LeasesInv'
<1>0. /\ LockFree /\ Reconcilable(table, next) /\ Valid(Declared(table), routes)
      /\ overlay' = Declared(table) /\ accepted' = Built(Declared(table)) /\ routed' = routes
      /\ op' = [Idle EXCEPT !.kind = "declare", !.pc = "install", !.next = next, !.table = table]
      /\ UNCHANGED << stage, request, lease, owner, observers, source, userFiles, broken, stale,
                      faults, changes >>
  BY DEF Reconcile, tableVars, diskVars, boundVars
<1>1. table \in Table
  BY DEF Table
<1>2. /\ op' \in OpType /\ op'.kind = "declare" /\ op'.pc = "install" /\ op'.next = next
      /\ op'.table = table /\ op'.lease = None /\ op'.rest = {}
  BY <1>0, <1>1, IdleFacts DEF Idle, OpType, Kinds, Points
<1>3. op.pc = "idle" /\ InEffect = lease /\ Leaving \cap Lease = {} /\ lease \in Table
  BY <1>0, FreeFacts DEF LeasesInv, TypeOK
<1>4. InEffect' = table /\ Leaving' = {None} /\ None \notin Lease
  BY <1>2, LeaseAssumption DEF InEffect, Leaving
<1>5. /\ accepted' \in [ScheduleId -> Lease \cup {User, None}]
      /\ \A id \in ScheduleId, q \in Lease : accepted'[id] = q =>
           source[q] = id \/ overlay'[q] = id
      /\ \A m \in Lease :
           table[m] # None /\ (~table[m].declared => source[m] = table[m].id)
             => accepted'[table[m].id] = m
  BY <1>0, <1>1, ReplacedFacts
<1>6. TypeOK'
  <2>1. overlay' \in [Lease -> ScheduleId \cup {None}]
    BY <1>0, <1>1, DeclaredFacts
  <2> QED
    BY <1>0, <1>2, <1>5, <2>1 DEF LeasesInv, TypeOK, OpType, Kinds, Points
<1>7. OpState'
  BY <1>0, <1>2 DEF OpState, Declaring, Reconcilable
<1>8. OverlayState'
  <2>1. table = [l \in Lease |-> IF l \in Leaving' THEN None ELSE InEffect'[l]]
    BY <1>1, <1>4 DEF Table
  <2> QED
    BY <1>0, <2>1 DEF OverlayState
<1>9. OwnersMatch' /\ ReleasedOwnsNothing'
  BY <1>0 DEF LeasesInv, OwnersMatch, ReleasedOwnsNothing, Leased
<1>10. ASSUME faults' = 0
       PROVE  SourcesMatch' /\ AcceptedProvided' /\ LeasesHeld'
  <2>1. SourcesMatch /\ LeasesHeld
    BY <1>0, <1>10 DEF LeasesInv
  <2>2. SourcesMatch'
    BY <1>0, <1>2, <1>3, <2>1 DEF SourcesMatch
  <2>3. AcceptedProvided'
    BY <1>0, <1>2, <1>5, LeaseAssumption DEF AcceptedProvided, Provides
  <2>4. \A m \in Lease : table[m] # None /\ ~table[m].declared => source[m] = table[m].id
    BY <1>0, <1>3, <2>1 DEF Reconcilable, LeasesHeld
  <2>5. LeasesHeld'
    BY <1>0, <1>2, <1>4, <1>5, <2>4 DEF LeasesHeld
  <2> QED
    BY <2>2, <2>3, <2>5
<1> QED
  BY <1>6, <1>7, <1>8, <1>9, <1>10 DEF LeasesInv

\* The owners of a table in which no two leases share a schedule.
LEMMA OwnersFacts ==
  ASSUME NEW table \in Table,
         \A l, m \in Lease : table[l] # None /\ table[m] # None /\ l # m => table[l].id # table[m].id
  PROVE  /\ Owners(table) \in [ScheduleId -> Lease \cup {None}]
         /\ \A l \in Lease : table[l] # None => Owners(table)[table[l].id] = l
         /\ \A id \in ScheduleId : Owners(table)[id] # None =>
              table[Owners(table)[id]] # None /\ table[Owners(table)[id]].id = id
<1>1. ASSUME NEW id \in ScheduleId, NEW l \in Lease, table[l] # None, table[l].id = id
      PROVE  Owners(table)[id] = l
  <2>1. \A m \in Lease : table[m] # None /\ table[m].id = id => m = l
    BY <1>1
  <2> QED
    BY <1>1, <2>1 DEF Owners
<1>2. \A l \in Lease : table[l] # None => table[l].id \in ScheduleId
  BY TableFacts
<1>3. ASSUME NEW id \in ScheduleId, ~ \E l \in Lease : table[l] # None /\ table[l].id = id
      PROVE  Owners(table)[id] = None
  BY <1>3 DEF Owners
<1>4. \A id \in ScheduleId : \/ Owners(table)[id] = None
                             \/ \E l \in Lease : /\ Owners(table)[id] = l /\ table[l] # None
                                                 /\ table[l].id = id
  BY <1>1, <1>3
<1>5. Owners(table) \in [ScheduleId -> Lease \cup {None}]
  BY <1>4 DEF Owners
<1> QED
  BY <1>1, <1>2, <1>4, <1>5

\* The table of the transaction becomes the lease table.
LEMMA InstallStep ==
  ASSUME LeasesInv, Install
  PROVE  LeasesInv'
<1>0. /\ op.pc = "install" /\ Declaring /\ op \in OpType /\ op.table \in Table
      /\ lease' = op.table /\ owner' = Owners(op.table) /\ op' = Idle
      /\ stage' = [a \in Activation |-> IF a \in op.next THEN "admitted"
                                        ELSE IF stage[a] = "admitted" THEN "retired" ELSE stage[a]]
      /\ UNCHANGED << request, observers, source, userFiles, broken, overlay, accepted, routed,
                      stale, faults, changes >>
  BY PointFacts DEF Install, diskVars, schedulerVars, boundVars, OpType
<1>1. op' \in OpType /\ op'.pc = "idle" /\ op'.kind = "none" /\ op'.lease = None /\ op'.rest = {}
  BY <1>0, IdleFacts
<1>2. InEffect' = lease' /\ InEffect = lease' /\ Leaving' = {None} /\ Leaving = {None}
  BY <1>0, <1>1 DEF InEffect, Leaving, Declaring
<1>3. /\ owner' \in [ScheduleId -> Lease \cup {None}] /\ OwnersMatch'
  BY <1>0, OwnersFacts DEF Declaring, OwnersMatch
<1>4. TypeOK'
  BY <1>0, <1>1, <1>3 DEF LeasesInv, TypeOK, OpType, Kinds, Points
<1>5. OpState' /\ OverlayState'
  BY <1>0, <1>2 DEF LeasesInv, OpState, OverlayState
<1>6. ReleasedOwnsNothing'
  <2> SUFFICES ASSUME NEW a \in Activation \ stale, stage'[a] = "released"
               PROVE  Leased(a)' = {} /\ a \notin observers
    BY <1>0 DEF ReleasedOwnsNothing
  <2>1. stage[a] = "released" /\ a \notin op.next
    BY <1>0
  <2>2. Leased(a) = {} /\ a \notin observers
    BY <2>1 DEF LeasesInv, ReleasedOwnsNothing
  <2>3. \A l \in Lease : op.table[l] # None => op.table[l] = lease[l] \/ op.table[l].actor \in op.next
    BY <1>0 DEF Declaring
  <2> QED
    BY <1>0, <2>1, <2>2, <2>3 DEF Leased
<1>7. ASSUME faults' = 0
      PROVE  SourcesMatch' /\ AcceptedProvided' /\ LeasesHeld'
  <2>1. SourcesMatch /\ AcceptedProvided /\ LeasesHeld
    BY <1>0, <1>7 DEF LeasesInv
  <2>2. SourcesMatch'
    BY <1>0, <1>1, <2>1 DEF SourcesMatch, Declaring
  <2>3. AcceptedProvided'
    BY <1>0, <1>1, <2>1, LeaseAssumption DEF AcceptedProvided, Provides
  <2>4. LeasesHeld'
    BY <1>0, <1>1, <1>2, <2>1 DEF LeasesHeld
  <2> QED
    BY <2>2, <2>3, <2>4
<1> QED
  BY <1>3, <1>4, <1>5, <1>6, <1>7 DEF LeasesInv

-----------------------------------------------------------------------------
\* A release takes the declared schedules of its activation first.
LEMMA ReleaseStep ==
  ASSUME LeasesInv, NEW a \in Activation, Release(a)
  PROVE  LeasesInv'
<1> DEFINE declared == {l \in Leased(a) : lease[l].declared}
<1>0. /\ LockFree /\ stage[a] = "closing"
      /\ UNCHANGED << request, lease, owner, observers, source, userFiles, broken, stale, faults,
                      changes >>
      /\ \/ /\ \/ declared = {} /\ UNCHANGED << overlay, accepted, routed >>
               \/ declared # {} /\ ReplaceDefinitions(Without(declared))
            /\ op' = [Idle EXCEPT !.kind = "release", !.pc = "next", !.actor = a,
                                  !.rest = Leased(a)]
            /\ UNCHANGED stage
         \/ /\ stage' = [stage EXCEPT ![a] = "failed"]
            /\ UNCHANGED << op, overlay, accepted, routed >>
  BY DEF Release, tableVars, diskVars, schedulerVars, boundVars
<1>1. CASE /\ stage' = [stage EXCEPT ![a] = "failed"]
           /\ UNCHANGED << op, overlay, accepted, routed >>
  <2>1. TypeOK'
    BY <1>0, <1>1 DEF LeasesInv, TypeOK
  <2>2. ReleasedOwnsNothing'
    BY <1>0, <1>1 DEF LeasesInv, TypeOK, ReleasedOwnsNothing, Leased
  <2> QED
    BY <1>0, <1>1, <2>1, <2>2, OutsideStep
<1>2. CASE /\ \/ declared = {} /\ UNCHANGED << overlay, accepted, routed >>
              \/ declared # {} /\ ReplaceDefinitions(Without(declared))
           /\ op' = [Idle EXCEPT !.kind = "release", !.pc = "next", !.actor = a, !.rest = Leased(a)]
           /\ UNCHANGED stage
  <2>1. /\ lease \in Table /\ Leased(a) \subseteq Lease /\ None \notin Lease
        /\ \A l \in Leased(a) : lease[l] # None
    BY LeaseAssumption DEF LeasesInv, TypeOK, Leased
  <2>2. /\ op' \in OpType /\ op'.kind = "release" /\ op'.pc = "next" /\ op'.actor = a
        /\ op'.lease = None /\ op'.rest = Leased(a)
    BY <1>2, <2>1, IdleFacts DEF Idle, OpType, Kinds, Points
  <2>3. op.pc = "idle" /\ InEffect = lease /\ Leaving \cap Lease = {} /\ overlay = Declared(lease)
    BY <1>0, FreeFacts
  <2>4. InEffect' = lease /\ Leaving' = Leased(a) \cup {None}
    BY <1>0, <2>2 DEF InEffect, Leaving
  <2> DEFINE rest == [m \in Lease |-> IF m \in Leaving' THEN None ELSE lease[m]]
             kept == [m \in Lease |-> IF m \in declared THEN None ELSE lease[m]]
  <2>5. rest \in Table /\ kept \in Table
    BY <2>1 DEF Table
  <2>6. \A m \in Lease : /\ rest[m] = IF m \in Leased(a) THEN None ELSE lease[m]
                         /\ kept[m] = IF m \in declared THEN None ELSE lease[m]
    BY <2>1, <2>4
  <2>7. Without(declared) = Declared(kept)
    BY DEF Without
  <2>8. OverlayState' <=> overlay' = Declared(rest)
    BY <2>4 DEF OverlayState
  <2>9. \A m \in Lease : m \in declared <=> m \in Leased(a) /\ lease[m].declared
    BY <2>1
  <2> HIDE DEF rest, kept, declared
  <2>10. \A m \in Lease : Declared(rest)[m] = Declared(kept)[m]
    BY <2>1, <2>5, <2>6, <2>9, DeclaredFacts
  <2>11. Declared(rest) = Declared(kept)
    BY <2>5, <2>10, DeclaredFacts
  <2>12. declared = {} => kept = lease
    BY <2>1, <2>5, <2>6 DEF Table
  <2>13. /\ accepted' \in [ScheduleId -> Lease \cup {User, None}]
         /\ overlay' = Declared(kept) /\ routed' = routed
         /\ faults = 0 =>
              /\ \A id \in ScheduleId, q \in Lease : accepted'[id] = q =>
                   source[q] = id \/ overlay'[q] = id
              /\ \A m \in Lease : kept[m] # None => accepted'[kept[m].id] = m
    <3>1. CASE declared = {} /\ UNCHANGED << overlay, accepted, routed >>
      <4>1. accepted' \in [ScheduleId -> Lease \cup {User, None}]
        BY <3>1 DEF LeasesInv, TypeOK
      <4>2. ASSUME faults = 0
            PROVE  /\ \A id \in ScheduleId, q \in Lease : accepted[id] = q =>
                        source[q] = id \/ overlay[q] = id
                   /\ \A m \in Lease : lease[m] # None => accepted[lease[m].id] = m
        BY <2>3, <4>2, LeaseAssumption DEF LeasesInv, AcceptedProvided, Provides, LeasesHeld
      <4> QED
        BY <2>3, <2>12, <3>1, <4>1, <4>2
    <3>2. CASE declared # {} /\ ReplaceDefinitions(Without(declared))
      <4>1. /\ Valid(Declared(kept), routed) /\ routed' = routed
            /\ overlay' = Declared(kept) /\ accepted' = Built(Declared(kept))
        BY <2>7, <3>2 DEF ReplaceDefinitions
      <4>2. /\ accepted' \in [ScheduleId -> Lease \cup {User, None}]
            /\ \A id \in ScheduleId, q \in Lease : accepted'[id] = q =>
                 source[q] = id \/ overlay'[q] = id
            /\ \A m \in Lease :
                 kept[m] # None /\ (~kept[m].declared => source[m] = kept[m].id)
                   => accepted'[kept[m].id] = m
        BY <2>5, <4>1, ReplacedFacts
      <4>3. ASSUME faults = 0
            PROVE  \A m \in Lease : kept[m] # None /\ ~kept[m].declared => source[m] = kept[m].id
        BY <2>3, <2>6, <4>3 DEF LeasesInv, LeasesHeld
      <4> QED
        BY <4>1, <4>2, <4>3
    <3> QED
      BY <1>2, <3>1, <3>2
  <2>14. TypeOK'
    <3>1. overlay' \in [Lease -> ScheduleId \cup {None}]
      BY <2>5, <2>13, DeclaredFacts
    <3> QED
      BY <1>0, <1>2, <2>1, <2>2, <2>13, <3>1 DEF LeasesInv, TypeOK, OpType, Kinds, Points
  <2>15. OpState'
    BY <1>0, <2>2 DEF OpState, Releasing, Leased
  <2>16. OwnersMatch' /\ ReleasedOwnsNothing'
    BY <1>0, <1>2 DEF LeasesInv, OwnersMatch, ReleasedOwnsNothing, Leased
  <2>17. ASSUME faults' = 0
         PROVE  SourcesMatch' /\ AcceptedProvided' /\ LeasesHeld'
    <3>1. faults = 0 /\ SourcesMatch /\ LeasesHeld
      BY <1>0, <2>17 DEF LeasesInv
    <3>2. SourcesMatch'
      BY <1>0, <2>2, <2>3, <3>1 DEF SourcesMatch
    <3>3. AcceptedProvided'
      BY <1>0, <2>2, <2>13, <3>1, LeaseAssumption DEF AcceptedProvided, Provides
    <3>4. LeasesHeld'
      BY <1>0, <2>2, <2>3, <2>4, <2>6, <2>9, <2>13, <3>1 DEF LeasesHeld
    <3> QED
      BY <3>2, <3>3, <3>4
  <2> QED
    BY <2>8, <2>11, <2>13, <2>14, <2>15, <2>16, <2>17 DEF LeasesInv
<1> QED
  BY <1>0, <1>1, <1>2

\* One lease of a release: its source is retired, or its retirement fails.
LEMMA ReleaseNextStep ==
  ASSUME LeasesInv, ReleaseNext
  PROVE  LeasesInv'
<1>0. /\ op.pc = "next" /\ Releasing /\ op.lease = None /\ op \in OpType
      /\ UNCHANGED << stage, request, lease, owner, observers, userFiles, broken, overlay, accepted,
                      routed, stale, changes >>
  BY PointFacts DEF ReleaseNext, tableVars, schedulerVars
<1>1. PICK l \in op.rest :
        \/ /\ lease[l].declared \/ RetireSource(l)
           /\ lease[l].declared => UNCHANGED << source, faults >>
           /\ op' = [op EXCEPT !.pc = IF lease[l].declared THEN "remove" ELSE "withdraw",
                               !.id = lease[l].id, !.lease = l]
        \/ /\ ~lease[l].declared /\ RetireSourceFails(l)
           /\ op' = [op EXCEPT !.rest = @ \ {l}, !.failed = TRUE]
  BY DEF ReleaseNext
<1>2. /\ l \in Lease /\ lease[l] # None /\ lease[l].id \in ScheduleId
      /\ lease[l].declared \in BOOLEAN /\ lease \in Table /\ op.rest \subseteq Lease
      /\ faults \in 0..MaxFaults /\ source \in [Lease -> ScheduleId \cup {None}]
      /\ \A m \in op.rest : lease[m] # None
  <2>1. l \in Lease /\ lease[l] # None /\ lease \in Table
    BY <1>0 DEF LeasesInv, TypeOK, OpType
  <2> QED
    BY <1>0, <2>1, TableFacts DEF LeasesInv, TypeOK, OpType
<1>3. OwnersMatch' /\ ReleasedOwnsNothing'
  BY <1>0 DEF LeasesInv, OwnersMatch, ReleasedOwnsNothing, Leased
<1>4. InEffect = lease /\ Leaving = op.rest \cup {None} /\ None \notin Lease
  BY <1>0, LeaseAssumption DEF InEffect, Leaving, Releasing
<1>5. ASSUME ~lease[l].declared, RetireSourceFails(l),
             op' = [op EXCEPT !.rest = @ \ {l}, !.failed = TRUE]
      PROVE  LeasesInv'
  <2>1. op' \in OpType
    BY <1>0, <1>5 DEF OpType
  <2>2. /\ op'.kind = op.kind /\ op'.pc = "next" /\ op'.actor = op.actor /\ op'.lease = None
        /\ op'.rest = op.rest \ {l}
    BY <1>0, <1>5 DEF OpType
  <2>3. op'.failed
    BY <1>0, <1>5 DEF OpType
  <2>4. /\ faults' \in 0..MaxFaults /\ faults' # 0
        /\ source' \in [Lease -> ScheduleId \cup {None}]
    BY <1>2, <1>5, LeaseAssumption DEF RetireSourceFails
  <2>5. TypeOK'
    BY <1>0, <1>2, <2>1, <2>2, <2>4 DEF LeasesInv, TypeOK, OpType, Kinds, Points
  <2>6. OpState'
    BY <1>0, <2>2, <2>3 DEF OpState, Releasing
  <2>7. OverlayState'
    <3> DEFINE t == [m \in Lease |-> IF m \in Leaving THEN None ELSE InEffect[m]]
               u == [m \in Lease |-> IF m \in Leaving' THEN None ELSE InEffect'[m]]
    <3>1. InEffect' = lease /\ Leaving' = (op.rest \ {l}) \cup {None}
      BY <1>0, <2>2 DEF InEffect, Leaving, Releasing
    <3>2. t \in Table /\ u \in Table
      BY <1>2, <1>4, <3>1 DEF Table
    <3>3. /\ \A m \in Lease \ {l} : u[m] = t[m]
          /\ t[l] = None /\ u[l] = lease[l]
      BY <1>2, <1>4, <3>1
    <3>4. overlay' = Declared(t)
      BY <1>0 DEF LeasesInv, OverlayState
    <3>5. OverlayState' <=> overlay' = Declared(u)
      BY DEF OverlayState
    <3> HIDE DEF t, u
    <3>6. \A m \in Lease : Declared(u)[m] = Declared(t)[m]
      BY <1>2, <1>5, <3>2, <3>3, DeclaredFacts
    <3>7. Declared(u) = Declared(t)
      BY <3>2, <3>6, DeclaredFacts
    <3> QED
      BY <3>4, <3>5, <3>7
  <2> QED
    BY <1>3, <2>4, <2>5, <2>6, <2>7 DEF LeasesInv
<1>6. ASSUME lease[l].declared \/ RetireSource(l), lease[l].declared => UNCHANGED << source, faults >>,
             NEW p \in Points, p = IF lease[l].declared THEN "remove" ELSE "withdraw",
             op' = [op EXCEPT !.pc = p, !.id = lease[l].id, !.lease = l]
      PROVE  LeasesInv'
  <2>1. op' \in OpType
    BY <1>0, <1>2, <1>6 DEF OpType
  <2>2. /\ op'.kind = op.kind /\ op'.pc = p /\ op'.actor = op.actor /\ op'.lease = l
        /\ op'.id = lease[l].id /\ op'.rest = op.rest /\ op'.failed = op.failed
    BY <1>0, <1>6 DEF OpType
  <2>3. /\ faults' = faults /\ source' \in [Lease -> ScheduleId \cup {None}]
        /\ \A m \in Lease \ {l} : source'[m] = source[m]
        /\ ~lease[l].declared => source'[l] = None
        /\ lease[l].declared => source' = source
    BY <1>2, <1>6 DEF RetireSource
  <2>4. TypeOK'
    BY <1>0, <1>2, <2>1, <2>2, <2>3 DEF LeasesInv, TypeOK, OpType, Kinds, Points
  <2>5. OpState'
    BY <1>0, <1>2, <1>6, <2>2 DEF OpState, Releasing, Removing, Leased
  <2>6. InEffect' = lease /\ Leaving' = op.rest
    BY <1>0, <2>2 DEF InEffect, Leaving, Releasing
  <2>7. OverlayState'
    <3>1. [m \in Lease |-> IF m \in Leaving THEN None ELSE InEffect[m]]
            = [m \in Lease |-> IF m \in Leaving' THEN None ELSE InEffect'[m]]
      BY <1>4, <2>6
    <3> QED
      BY <1>0, <3>1 DEF LeasesInv, OverlayState
  <2>8. ASSUME faults' = 0
        PROVE  SourcesMatch' /\ AcceptedProvided' /\ LeasesHeld'
    <3>1. SourcesMatch /\ AcceptedProvided /\ LeasesHeld
      BY <2>3, <2>8 DEF LeasesInv
    <3>2. source'[l] = None
      BY <1>0, <1>2, <2>3, <3>1 DEF SourcesMatch
    <3>3. source[l] = None \/ (source[l] = lease[l].id /\ p = "withdraw")
      BY <1>0, <1>2, <1>6, <3>1 DEF SourcesMatch
    <3>4. SourcesMatch'
      BY <1>0, <1>2, <1>6, <2>2, <2>3, <3>1, <3>2 DEF SourcesMatch
    <3>5. AcceptedProvided'
      BY <1>0, <1>2, <2>2, <2>3, <3>1, <3>3, LeaseAssumption DEF AcceptedProvided, Provides
    <3>6. LeasesHeld'
      BY <1>0, <1>2, <1>4, <1>6, <2>2, <2>3, <2>6, <3>1 DEF LeasesHeld
    <3> QED
      BY <3>4, <3>5, <3>6
  <2> QED
    BY <1>3, <2>4, <2>5, <2>7, <2>8 DEF LeasesInv
<1>7. (IF lease[l].declared THEN "remove" ELSE "withdraw") \in Points
  BY DEF Points
<1> QED
  BY <1>1, <1>5, <1>6, <1>7

\* The release ends when no lease is left to release.
LEMMA ReleaseEndStep ==
  ASSUME LeasesInv, ReleaseEnd
  PROVE  LeasesInv'
<1>0. /\ op.pc = "next" /\ Releasing /\ op.lease = None /\ op \in OpType /\ op.rest = {}
      /\ observers' = observers \ {op.actor} /\ op' = Idle
      /\ stage' = [stage EXCEPT ![op.actor] = IF op.failed THEN "failed" ELSE "released"]
      /\ UNCHANGED << request, lease, owner, source, userFiles, broken, overlay, accepted, routed,
                      stale, faults, changes >>
  BY PointFacts DEF ReleaseEnd, tableVars, diskVars, schedulerVars, boundVars
<1>1. op' \in OpType /\ op'.pc = "idle" /\ op'.kind = "none" /\ op'.lease = None /\ op'.rest = {}
  BY <1>0, IdleFacts
<1>2. InEffect' = InEffect /\ InEffect = lease /\ Leaving' = Leaving
  BY <1>0, <1>1 DEF InEffect, Leaving, Releasing
<1>3. TypeOK'
  BY <1>0, <1>1 DEF LeasesInv, TypeOK, OpType, Kinds, Points
<1>4. OpState' /\ OverlayState' /\ OwnersMatch'
  BY <1>0, <1>2 DEF LeasesInv, OpState, OverlayState, OwnersMatch
<1>5. ReleasedOwnsNothing'
  <2> SUFFICES ASSUME NEW a \in Activation \ stale, stage'[a] = "released"
               PROVE  Leased(a) = {} /\ a \notin observers'
    BY <1>0 DEF ReleasedOwnsNothing, Leased
  <2>1. CASE a = op.actor
    <3>1. ~op.failed
      BY <1>0, <2>1 DEF LeasesInv, TypeOK
    <3> QED
      BY <1>0, <2>1, <3>1 DEF Releasing
  <2>2. CASE a # op.actor
    BY <1>0, <2>2 DEF LeasesInv, TypeOK, ReleasedOwnsNothing
  <2> QED
    BY <2>1, <2>2
<1>6. ASSUME faults' = 0
      PROVE  SourcesMatch' /\ AcceptedProvided' /\ LeasesHeld'
  <2>1. SourcesMatch /\ AcceptedProvided /\ LeasesHeld
    BY <1>0, <1>6 DEF LeasesInv
  <2> QED
    BY <1>0, <1>1, <1>2, <2>1, LeaseAssumption
       DEF SourcesMatch, AcceptedProvided, Provides, LeasesHeld
<1> QED
  BY <1>3, <1>4, <1>5, <1>6 DEF LeasesInv

-----------------------------------------------------------------------------
\* The initial states and the steps that change nothing.
LEMMA InitLeases == Init => LeasesInv
<1> SUFFICES ASSUME Init PROVE LeasesInv
  OBVIOUS
<1> USE DEF Init
<1>1. op = Idle /\ op \in OpType /\ op.pc = "idle" /\ op.kind = "none" /\ op.lease = None /\ op.rest = {}
  BY IdleFacts
<1>2. lease \in Table /\ \A l \in Lease : lease[l] = None /\ source[l] = None
  BY IdleFacts DEF NoLeases
<1>3. TypeOK
  <2>1. /\ stage \in [Activation -> {"new", "admitted", "retired", "closing", "released", "failed",
                                     "gone"}]
        /\ request \in [Activation -> Request \cup {None}]
        /\ owner \in [ScheduleId -> Lease \cup {None}]
        /\ accepted \in [ScheduleId -> Lease \cup {User, None}]
    OBVIOUS
  <2>2. source \in [Lease -> ScheduleId \cup {None}] /\ overlay \in [Lease -> ScheduleId \cup {None}]
    BY DEF NoLeases
  <2>3. /\ userFiles \in SUBSET ScheduleId /\ routed \in SUBSET ScheduleId
        /\ observers \in SUBSET Activation /\ stale \in SUBSET Activation
        /\ faults \in 0..MaxFaults /\ changes \in 0..MaxChanges
    BY LeaseAssumption
  <2>4. broken \in BOOLEAN
    OBVIOUS
  <2> QED
    BY <1>1, <1>2, <2>1, <2>2, <2>3, <2>4 DEF TypeOK, OpType, Kinds, Points
<1>4. OpState /\ OwnersMatch
  BY <1>1 DEF OpState, OwnersMatch, NoLeases
<1>5. OverlayState
  BY <1>1 DEF OverlayState, Declared, InEffect, Leaving, NoLeases
<1>6. ReleasedOwnsNothing
  BY DEF ReleasedOwnsNothing
<1>7. SourcesMatch /\ AcceptedProvided /\ LeasesHeld
  BY <1>1, <1>2, LeaseAssumption DEF SourcesMatch, AcceptedProvided, LeasesHeld, InEffect
<1> QED
  BY <1>3, <1>4, <1>5, <1>6, <1>7 DEF LeasesInv

\* A step of Spec that changes nothing.
LEMMA StutterStep ==
  ASSUME LeasesInv, UNCHANGED vars
  PROVE  LeasesInv'
<1> USE DEF vars, tableVars, diskVars, schedulerVars, boundVars
<1>1. TypeOK' /\ ReleasedOwnsNothing'
  BY DEF LeasesInv, TypeOK, ReleasedOwnsNothing, Leased
<1> QED
  BY <1>1, OutsideStep

-----------------------------------------------------------------------------
\* The inductive invariant of the leases: at every point of every operation the
\* overlay, the owners and, without failures, the sources and the accepted
\* schedules are what the table and the operation under way make of them.
THEOREM LeasesInvariant == Spec => []LeasesInv
<1>1. LeasesInv /\ [Next]_vars => LeasesInv'
  <2> SUFFICES ASSUME LeasesInv, [Next]_vars
               PROVE  LeasesInv'
    OBVIOUS
  <2>1. CASE Holder
    BY <2>1, RegisterRefreshStep, RegisterInsertStep, RegisterUndoStep, WithdrawStep, RemoveStep,
       InstallStep, ReleaseNextStep, ReleaseEndStep DEF Holder
  <2>2. CASE \E a \in Activation, r \in Request : Authorize(a, r)
    BY <2>2, AuthorizeStep
  <2>3. CASE \E a \in Activation :
               Register(a) \/ Cancel(a) \/ Observe(a) \/ StopObserving(a) \/ Release(a)
    BY <2>3, RegisterStep, CancelStep, ObserveStep, ReleaseStep
  <2>4. CASE \E next \in SUBSET Activation, table \in [Lease -> Grant \cup {None}],
                routes \in SUBSET ScheduleId : Reconcile(next, table, routes)
    BY <2>4, ReconcileStep
  <2>5. CASE \/ Close
             \/ \E files \in SUBSET ScheduleId, unloadable \in BOOLEAN :
                  EditDirectory(files, unloadable)
             \/ \E routes \in SUBSET ScheduleId : ChangeRoutes(routes)
    BY <2>5, SurroundingStep
  <2>6. CASE Refresh
    BY <2>6, RefreshStep
  <2>7. CASE Restart
    BY <2>7, RestartStep
  <2>8. CASE UNCHANGED vars
    BY <2>8, StutterStep
  <2> QED
    BY <2>1, <2>2, <2>3, <2>4, <2>5, <2>6, <2>7, <2>8 DEF Next
<1> QED
  BY <1>1, InitLeases, PTL DEF Spec

\* Every variable keeps its type.
THEOREM LeasesTypeCorrect == Spec => []TypeOK
<1>1. LeasesInv => TypeOK
  BY DEF LeasesInv
<1> QED
  BY <1>1, LeasesInvariant, PTL

\* Between operations the overlay is what the lease table declares.
THEOREM OverlayMatchesTable == Spec => []OverlayFollowsTable
<1>1. LeasesInv => OverlayFollowsTable
  BY FreeFacts DEF OverlayFollowsTable
<1> QED
  BY <1>1, LeasesInvariant, PTL

\* What a successful release promises of its activation.
THEOREM ReleaseIsComplete == Spec => []ReleasedOwnsNothing
<1>1. LeasesInv => ReleasedOwnsNothing
  BY DEF LeasesInv
<1> QED
  BY <1>1, LeasesInvariant, PTL

\* Between operations, and while no file operation failed, the lease table, the
\* directory and the scheduler agree in both directions.
THEOREM LeasesAgree == Spec => []TableAndSchedulerAgree
<1>1. ASSUME LeasesInv
      PROVE  TableAndSchedulerAgree
  <2> SUFFICES ASSUME LockFree, faults = 0
               PROVE  TableAndSchedulerAgree
    BY DEF TableAndSchedulerAgree, LeasesAccepted, NothingWithoutLease
  <2>1. /\ op.pc = "idle" /\ InEffect = lease /\ Leaving \cap Lease = {}
        /\ overlay = Declared(lease) /\ lease \in Table
    BY <1>1, FreeFacts DEF LeasesInv, TypeOK
  <2>2. SourcesMatch /\ AcceptedProvided /\ LeasesHeld /\ OwnersMatch
    BY <1>1 DEF LeasesInv
  <2>3. \A l \in Lease : overlay[l] = IF lease[l] # None /\ lease[l].declared THEN lease[l].id ELSE None
    BY <2>1, DeclaredFacts
  <2>4. \A l \in Lease : lease[l] # None => lease[l].id \in ScheduleId /\ lease[l].declared \in BOOLEAN
    BY <2>1, TableFacts
  <2>5. LeasesAccepted
    BY <2>1, <2>2, <2>3, <2>4 DEF LeasesAccepted, LeasesHeld, OwnersMatch
  <2>6. NothingWithoutLease
    <3>1. \A l \in Lease : source[l] # None \/ overlay[l] # None => lease[l] # None
      BY <2>1, <2>2, <2>3 DEF SourcesMatch
    <3>2. \A id \in ScheduleId : accepted[id] \in Lease => lease[accepted[id]] # None
      BY <2>1, <2>2, <3>1, LeaseAssumption DEF AcceptedProvided, Provides
    <3> QED
      BY <2>2, <3>1, <3>2 DEF NothingWithoutLease, OwnersMatch
  <2> QED
    BY <2>5, <2>6 DEF TableAndSchedulerAgree
<1> QED
  BY <1>1, LeasesInvariant, PTL

-----------------------------------------------------------------------------
(***************************************************************************)
(* AssistantSessions.                                                      *)
(***************************************************************************)

\* The records in memory and in the manifest are of sessions that were begun, and armed
\* only by a shutdown; a pending one has no identity.
RecordsGrounded ==
  \A s \in Session :
    /\ s \notin used => held[s] = Absent /\ saved[s] = Absent
    /\ held[s].armed \/ saved[s].armed => s \in confirmed \cup unsure
    /\ held[s].capture = "pending" => held[s].identity = "none"
    /\ saved[s].capture = "pending" => saved[s].identity = "none"

\* Nothing is known of a session that was not begun.
NothingBeforeLaunch ==
  \A s \in Session : s \notin used =>
    /\ process[s] = "none"
    /\ s \notin awaited \cup attached \cup resumed \cup exits \cup restores \cup offered
    /\ \A l \in CaptureLoop : loops[l].stage # "off" => loops[l].session # s

\* What has a process, or an exit that is not handled, is not armed, in memory and in the
\* manifest, unless a shutdown armed it.
LiveAreUnarmed ==
  ~frozen /\ ~unsaved => \A s \in Session :
    /\ process[s] # "none" \/ s \in exits => ~held[s].armed /\ ~saved[s].armed
    /\ s \in exits => process[s] = "none"

\* A resumption is of a session that a shutdown armed.
ResumptionsGrounded ==
  \A s \in Session : process[s] = "resuming" \/ s \in resumed => s \in confirmed \cup unsure

\* Where resumptions stand in an activation: before the list was read there is none;
\* one that it waits for has used up its record.
RestorePlaced ==
  /\ restores \cap offered = {}
  /\ ~attempted =>
       /\ restores = {} /\ offered = {} /\ awaited \cap resumed = {}
       /\ \A s \in awaited : process[s] # "resuming"
  /\ ~unsaved =>
       /\ awaited \cap resumed \subseteq spent
       /\ \A s \in Session : process[s] = "resuming" => s \in spent
       /\ awaited \cap (exits \cup attached) = {}

\* What waits to be restored, or is offered, is kept unless it was used up.
WaitingIsKept ==
  ~unsaved => \A s \in (restores \cup offered) \ spent : Restorable(held[s]) /\ held[s].armed

\* A loop is of a session; one that may fail its capture began from a pending record.
LoopsGrounded ==
  \A l \in CaptureLoop : loops[l].stage # "off" =>
    /\ loops[l].session \in Session
    /\ loops[l].from # "none"
    /\ loops[l].stage = "failing" => loops[l].from = "pending"
    /\ loops[l].from = "pending" => held[loops[l].session].capture # "assigned"

SessionIInv ==
  /\ SessionTypeOK /\ RegistryAsTold /\ (doubled => unsaved)
  /\ RecordsGrounded /\ NothingBeforeLaunch /\ LiveAreUnarmed /\ ResumptionsGrounded
  /\ RestorePlaced /\ WaitingIsKept /\ LoopsGrounded

-----------------------------------------------------------------------------
(***************************************************************************)
(* What the operations of the registry do.                                 *)
(***************************************************************************)

\* The records that an operation on one session leaves, whatever it answers.
Effect(s, r, result) ==
  /\ held' \in [Session -> SessionRecord] /\ saved' \in [Session -> SessionRecord]
  /\ frozen' = frozen /\ told' \in {"done", "failed"} /\ failedWrites' \in 0..MaxFailedWrites
  /\ \A x \in Session \ {s} : held'[x] = held[x]
  /\ held'[s] \in {held[s], r}
  /\ \A x \in Session : saved'[x] \in {saved[x], held'[x]}
  /\ result = "refused" \/ frozen => saved' = saved /\ held' = held /\ told' = told
  /\ told' = "done" => saved' = held'

\* The part of the type of the state that operations of the registry rely on.
LEMMA RecordTypes ==
  ASSUME SessionTypeOK
  PROVE  /\ held \in [Session -> SessionRecord] /\ saved \in [Session -> SessionRecord]
         /\ frozen \in BOOLEAN /\ told \in {"done", "failed"}
         /\ failedWrites \in 0..MaxFailedWrites
BY DEF SessionTypeOK

\* A write leaves the new manifest or, when it fails, maybe the old one (manifest.rs:61-93).
LEMMA WriteEffect ==
  ASSUME SessionTypeOK, NEW records \in [Session -> SessionRecord], NEW result,
         Write(records, result)
  PROVE  /\ saved' \in [Session -> SessionRecord] /\ saved' \in {saved, records}
         /\ failedWrites' \in 0..MaxFailedWrites
         /\ result \in {"done", "failed"} /\ (result = "done" => saved' = records)
BY SessionBounds DEF Write, SessionTypeOK

\* A change that is refused changes nothing (assistant_launch/mod.rs:467-469).
LEMMA RefusedEffect ==
  ASSUME SessionTypeOK, RegistryAsTold, NEW s \in Session, NEW r, NEW result, Refused
  PROVE  Effect(s, r, result) /\ held' = held /\ saved' = saved
BY RecordTypes DEF Refused, registryVars, Effect, RegistryAsTold

\* A change that is made leaves the new record in memory, and maybe in the manifest
\* (assistant_launch/mod.rs:470-472).
LEMMA ChangeEffect ==
  ASSUME SessionTypeOK, NEW s \in Session, NEW r \in SessionRecord, NEW result,
         ~frozen, Write([held EXCEPT ![s] = r], result), held' = [held EXCEPT ![s] = r],
         told' = result, UNCHANGED frozen
  PROVE  Effect(s, r, result) /\ held'[s] = r /\ result # "refused"
<1>1. [held EXCEPT ![s] = r] \in [Session -> SessionRecord]
  BY RecordTypes
<1>2. /\ saved' \in [Session -> SessionRecord] /\ saved' \in {saved, held'}
      /\ failedWrites' \in 0..MaxFailedWrites
      /\ result \in {"done", "failed"} /\ (result = "done" => saved' = held')
  BY <1>1, WriteEffect
<1> QED BY <1>1, <1>2, RecordTypes DEF Effect

\* A change of one record is made as a whole, and not while the records are frozen
\* (assistant_launch/mod.rs:457-473).
LEMMA MutateEffect ==
  ASSUME SessionTypeOK, RegistryAsTold, NEW s \in Session, NEW r \in SessionRecord,
         NEW allowed \in BOOLEAN, NEW result,
         Mutate([held EXCEPT ![s] = r], allowed, result)
  PROVE  /\ Effect(s, r, result)
         /\ result # "refused" => allowed /\ ~frozen /\ held'[s] = r
         /\ ~allowed => held' = held /\ saved' = saved
<1>1. CASE result = "refused" /\ (frozen \/ ~allowed) /\ Refused
  BY <1>1, RefusedEffect
<1>2. CASE /\ ~frozen /\ allowed
           /\ Write([held EXCEPT ![s] = r], result) /\ held' = [held EXCEPT ![s] = r]
           /\ told' = result /\ UNCHANGED frozen
  BY <1>2, ChangeEffect
<1> QED BY <1>1, <1>2 DEF Mutate

\* A record that is discarded is absent, or the change was refused.
LEMMA DiscardEffect ==
  ASSUME SessionTypeOK, RegistryAsTold, NEW s \in Session, NEW result, Discard(s, result)
  PROVE  /\ Effect(s, Absent, result)
         /\ result # "refused" => ~frozen /\ held'[s] = Absent
         /\ result = "refused" => frozen
<1>1. Absent \in SessionRecord
  BY DEF Absent, SessionRecord
<1>2. CASE result = "refused" /\ frozen /\ Refused
  BY <1>2, RefusedEffect
<1>3. CASE /\ ~frozen
           /\ Write([held EXCEPT ![s] = Absent], result) /\ held' = [held EXCEPT ![s] = Absent]
           /\ told' = result /\ UNCHANGED frozen
  BY <1>1, <1>3, ChangeEffect
<1> QED BY <1>2, <1>3 DEF Discard, Mutate

\* A capture that is confirmed is final, and what it confirms was pending or assigned
\* (assistant_launch/mod.rs:211-234).
LEMMA ConfirmEffect ==
  ASSUME SessionTypeOK, RegistryAsTold, NEW s \in Session, NEW identity \in {"own", "other"},
         NEW result, ConfirmCapture(s, identity, result)
  PROVE  LET r == [capture |-> "ready", identity |-> identity, armed |-> held[s].armed] IN
         /\ Effect(s, r, result)
         /\ held'[s] # held[s] =>
              /\ held'[s] = r
              /\ \/ held[s].capture = "pending"
                 \/ held[s].capture = "assigned" /\ held[s].identity = identity
<1> DEFINE r == [capture |-> "ready", identity |-> identity, armed |-> held[s].armed]
           allowed == \/ held[s].capture = "pending"
                      \/ held[s].capture = "assigned" /\ held[s].identity = identity
<1>1. r \in SessionRecord /\ held[s] \in SessionRecord
  BY RecordTypes DEF SessionRecord
<1>2. [held[s] EXCEPT !.capture = "ready", !.identity = identity] = r
  BY <1>1 DEF SessionRecord
<1>3. Mutate([held EXCEPT ![s] = r], allowed, result)
  BY <1>2, RecordTypes DEF ConfirmCapture
<1>4. allowed \in BOOLEAN
  OBVIOUS
<1> HIDE DEF r, allowed
<1>5. /\ Effect(s, r, result) /\ (~allowed => held' = held)
  BY <1>1, <1>3, <1>4, MutateEffect
<1> QED BY <1>5 DEF r, allowed, Effect

\* A capture that failed was pending or assigned, or not there at all
\* (assistant_launch/mod.rs:236-246).
LEMMA MarkEffect ==
  ASSUME SessionTypeOK, RegistryAsTold, NEW s \in Session, NEW result,
         MarkCaptureFailed(s, result)
  PROVE  LET r == [held[s] EXCEPT !.capture = "failed"] IN
         /\ Effect(s, r, result) /\ r \in SessionRecord
         /\ held'[s] # held[s] => Has(held, s) /\ held[s].capture # "ready"
<1> DEFINE r == [held[s] EXCEPT !.capture = "failed"]
           allowed == Has(held, s) /\ held[s].capture # "ready"
<1>1. r \in SessionRecord
  BY RecordTypes DEF SessionRecord
<1>2. [held EXCEPT ![s].capture = "failed"] = [held EXCEPT ![s] = r]
  BY RecordTypes
<1>3. Mutate([held EXCEPT ![s] = r], allowed, result)
  BY <1>2 DEF MarkCaptureFailed
<1>4. allowed \in BOOLEAN
  BY DEF Has
<1> HIDE DEF r, allowed
<1>5. /\ Effect(s, r, result) /\ (~allowed => held' = held)
  BY <1>1, <1>3, <1>4, MutateEffect
<1> QED BY <1>1, <1>5 DEF r, allowed, Effect

\* A record that is armed again can be restored (assistant_launch/mod.rs:364-378).
LEMMA RearmEffect ==
  ASSUME SessionTypeOK, RegistryAsTold, NEW s \in Session, NEW result, Rearm(s, result)
  PROVE  LET r == [held[s] EXCEPT !.armed = TRUE] IN
         /\ Effect(s, r, result)
         /\ result # "refused" => ~frozen /\ Restorable(held[s]) /\ held'[s] = r
<1> DEFINE r == [held[s] EXCEPT !.armed = TRUE]
<1>1. r \in SessionRecord
  BY RecordTypes DEF SessionRecord
<1>2. [held EXCEPT ![s].armed = TRUE] = [held EXCEPT ![s] = r]
  BY RecordTypes
<1>3. Mutate([held EXCEPT ![s] = r], Restorable(held[s]), result)
  BY <1>2 DEF Rearm
<1>4. Restorable(held[s]) \in BOOLEAN
  BY DEF Restorable
<1> HIDE DEF r
<1>5. /\ Effect(s, r, result)
      /\ result # "refused" => Restorable(held[s]) /\ ~frozen /\ held'[s] = r
  BY <1>1, <1>3, <1>4, MutateEffect
<1> QED BY <1>5 DEF r

\* A record that is claimed was armed, and is disarmed in the manifest before anything
\* else (assistant_launch/mod.rs:332-362).
LEMMA ClaimEffect ==
  ASSUME SessionTypeOK, RegistryAsTold, NEW s \in Session, NEW result,
         ClaimForRestore(s, result)
  PROVE  LET r == [held[s] EXCEPT !.armed = FALSE] IN
         /\ held' \in [Session -> SessionRecord] /\ saved' \in [Session -> SessionRecord]
         /\ frozen' = frozen /\ told' \in {"done", "failed"}
         /\ failedWrites' \in 0..MaxFailedWrites
         /\ held' = IF result = "done" THEN [held EXCEPT ![s] = r] ELSE held
         /\ \A x \in Session \ {s} : saved'[x] \in {saved[x], held[x]}
         /\ saved'[s] \in {saved[s], r}
         /\ result = "refused" => saved' = saved /\ told' = told
         /\ result # "refused" => Claimable(s) /\ told' = result
         /\ result = "done" => saved' = held'
<1> DEFINE r == [held[s] EXCEPT !.armed = FALSE]
           disarmed == [held EXCEPT ![s].armed = FALSE]
<1>1. r \in SessionRecord /\ disarmed = [held EXCEPT ![s] = r]
      /\ disarmed \in [Session -> SessionRecord]
  BY RecordTypes DEF SessionRecord
<1>2. CASE result = "refused" /\ ~Claimable(s) /\ Refused
  BY <1>2, RecordTypes DEF Refused, registryVars
<1>3. CASE /\ Claimable(s) /\ Write(disarmed, result) /\ told' = result
           /\ held' = IF result = "done" THEN disarmed ELSE held
           /\ UNCHANGED frozen
  <2>1. /\ saved' \in [Session -> SessionRecord] /\ saved' \in {saved, disarmed}
        /\ failedWrites' \in 0..MaxFailedWrites
        /\ result \in {"done", "failed"} /\ (result = "done" => saved' = disarmed)
    BY <1>1, <1>3, WriteEffect
  <2> HIDE DEF disarmed
  <2> QED BY <1>1, <1>3, <2>1, RecordTypes
<1> QED BY <1>2, <1>3 DEF ClaimForRestore

\* Records stay grounded when the new record of a session is.
LEMMA GroundedAfter ==
  ASSUME SessionTypeOK, RecordsGrounded, NEW s \in Session, NEW r, NEW result,
         Effect(s, r, result), used \subseteq used', s \in used' \/ r = Absent,
         confirmed' = confirmed, unsure' = unsure,
         r.armed => s \in confirmed \cup unsure,
         r.capture = "pending" => r.identity = "none"
  PROVE  RecordsGrounded'
<1>1. ASSUME NEW x \in Session
      PROVE  /\ held'[x] \in {held[x]} \cup (IF x = s THEN {r} ELSE {})
             /\ saved'[x] \in {saved[x], held'[x]}
  BY DEF Effect
<1> QED BY <1>1 DEF RecordsGrounded

-----------------------------------------------------------------------------
(***************************************************************************)
(* What the loops do.                                                      *)
(***************************************************************************)

Loop == [session : Session \cup {NoSession}, stage : {"off", "due", "finding", "failing"},
         from : {"none", "pending", "assigned"}]

\* The part of the type of the state that the loops rely on.
LEMMA LoopTypes ==
  ASSUME SessionTypeOK
  PROVE  loops \in [CaptureLoop -> Loop] /\ NoLoop \in Loop
BY DEF SessionTypeOK, Loop, NoLoop

\* Clearing a timer ends at most loops (runtime.ts:84-91).
LEMMA StopTimerEffect ==
  ASSUME SessionTypeOK, NEW s \in Session, StopTimer(s)
  PROVE  /\ loops' \in [CaptureLoop -> Loop]
         /\ \A l \in CaptureLoop : loops'[l] \in {loops[l], NoLoop}
BY LoopTypes DEF StopTimer

\* A loop that gives up ends, or marks the capture of a session that it began to capture
\* as pending (runtime.ts:163-171).
LEMMA GiveUpEffect ==
  ASSUME SessionTypeOK, LoopsGrounded, NEW l \in CaptureLoop, loops[l].stage # "off", GiveUp(l)
  PROVE  /\ loops' \in [CaptureLoop -> Loop]
         /\ \A k \in CaptureLoop \ {l} : loops'[k] = loops[k]
         /\ \/ loops'[l] = NoLoop
            \/ /\ loops'[l] = [loops[l] EXCEPT !.stage = "failing"]
               /\ loops[l].from = "pending"
<1>1. loops[l] \in Loop /\ loops[l].from \in {"pending", "assigned"}
  BY LoopTypes DEF LoopsGrounded, Loop
<1>2. [loops[l] EXCEPT !.stage = "failing"] \in Loop
  BY <1>1 DEF Loop
<1> QED BY <1>1, <1>2, LoopTypes DEF GiveUp

\* What is said of a loop stays true when loops end and no record becomes assigned.
LEMMA LoopsEnd ==
  ASSUME SessionTypeOK, LoopsGrounded, loops' \in [CaptureLoop -> Loop],
         \A l \in CaptureLoop : loops'[l] \in {loops[l], NoLoop},
         \A s \in Session : held'[s].capture = "assigned" => held[s].capture = "assigned"
  PROVE  LoopsGrounded'
BY DEF LoopsGrounded, NoLoop

\* What is said of a loop stays true when it goes on, gives up or ends.
LEMMA LoopMoves ==
  ASSUME SessionTypeOK, LoopsGrounded, NEW l \in CaptureLoop, loops[l].stage # "off",
         loops' \in [CaptureLoop -> Loop],
         \A k \in CaptureLoop \ {l} : loops'[k] = loops[k],
         \/ loops'[l] = NoLoop
         \/ /\ loops'[l] = [loops[l] EXCEPT !.stage = "failing"]
            /\ loops[l].from = "pending"
         \/ \E next \in {"due", "finding"} : loops'[l] = [loops[l] EXCEPT !.stage = next],
         \A s \in Session : held'[s].capture = "assigned" => held[s].capture = "assigned"
  PROVE  LoopsGrounded'
<1> SUFFICES ASSUME NEW k \in CaptureLoop, loops'[k].stage # "off"
             PROVE  /\ loops'[k].session \in Session /\ loops'[k].from # "none"
                    /\ loops'[k].stage = "failing" => loops'[k].from = "pending"
                    /\ loops'[k].from = "pending" => held'[loops'[k].session].capture # "assigned"
  BY DEF LoopsGrounded
<1>1. CASE k # l
  BY <1>1 DEF LoopsGrounded
<1>2. CASE k = l
  <2>1. loops[l] \in Loop
    BY LoopTypes
  <2>2. /\ loops'[l].session = loops[l].session /\ loops'[l].from = loops[l].from
        /\ loops'[l].stage = "failing" => loops[l].from = "pending"
    BY <1>2, <2>1 DEF Loop, NoLoop
  <2> QED BY <1>2, <2>2 DEF LoopsGrounded
<1> QED BY <1>1, <1>2

-----------------------------------------------------------------------------
(***************************************************************************)
(* The steps.                                                              *)
(***************************************************************************)

\* A process that was started preserves the invariant.
LEMMA SpawnStep ==
  ASSUME SessionIInv, NEW s \in Session, Spawn(s)
  PROVE  SessionIInv'
<1> USE DEF SessionIInv, Spawn, registryVars, knownVars, captureVars, restoreVars, quitVars,
            moduleVars, countVars, historyVars
<1>1. SessionTypeOK'
  BY DEF SessionTypeOK
<1>2. RegistryAsTold' /\ (doubled => unsaved)'
  BY DEF RegistryAsTold, Has, Restorable, Absent
<1>3. RecordsGrounded'
  BY DEF RecordsGrounded, Restorable, SessionTypeOK
<1>4. NothingBeforeLaunch'
  BY DEF NothingBeforeLaunch, SessionTypeOK
<1>5. LiveAreUnarmed'
  BY DEF LiveAreUnarmed, SessionTypeOK
<1>6. ResumptionsGrounded'
  BY DEF ResumptionsGrounded, SessionTypeOK
<1>7. RestorePlaced'
  BY DEF RestorePlaced, SessionTypeOK
<1>8. WaitingIsKept'
  BY DEF WaitingIsKept, Restorable, SessionTypeOK
<1>9. LoopsGrounded'
  BY DEF LoopsGrounded, NoLoop, NoSession, SessionTypeOK
<1> QED BY <1>1, <1>2, <1>3, <1>4, <1>5, <1>6, <1>7, <1>8, <1>9

\* The activation hears of a start preserves the invariant.
LEMMA AttachStep ==
  ASSUME SessionIInv, NEW s \in Session, Attach(s)
  PROVE  SessionIInv'
<1> USE DEF SessionIInv, Attach, registryVars, quitVars, countVars, historyVars
<1>1. SessionTypeOK'
  BY DEF SessionTypeOK
<1>2. RegistryAsTold' /\ (doubled => unsaved)'
  BY DEF RegistryAsTold, Has, Restorable, Absent
<1>3. RecordsGrounded'
  BY DEF RecordsGrounded, Restorable, SessionTypeOK
<1>4. NothingBeforeLaunch'
  BY DEF NothingBeforeLaunch, SessionTypeOK
<1>5. LiveAreUnarmed'
  BY DEF LiveAreUnarmed, SessionTypeOK
<1>6. ResumptionsGrounded'
  BY DEF ResumptionsGrounded, SessionTypeOK
<1>7. RestorePlaced'
  BY DEF RestorePlaced, SessionTypeOK
<1>8. WaitingIsKept'
  BY DEF WaitingIsKept, Restorable, SessionTypeOK, RestorePlaced
<1>9. LoopsGrounded'
  BY DEF LoopsGrounded, NoLoop, NoSession, SessionTypeOK
<1> QED BY <1>1, <1>2, <1>3, <1>4, <1>5, <1>6, <1>7, <1>8, <1>9

\* The end of a probation preserves the invariant.
LEMMA ProbationStep ==
  ASSUME SessionIInv, NEW s \in Session, Probation(s)
  PROVE  SessionIInv'
<1> USE DEF SessionIInv, Probation, registryVars, captureVars, restoreVars, quitVars, countVars,
            historyVars
<1>1. SessionTypeOK'
  BY DEF SessionTypeOK
<1>2. RegistryAsTold' /\ (doubled => unsaved)'
  BY DEF RegistryAsTold, Has, Restorable, Absent
<1>3. RecordsGrounded'
  BY DEF RecordsGrounded, Restorable, SessionTypeOK
<1>4. NothingBeforeLaunch'
  BY DEF NothingBeforeLaunch, SessionTypeOK
<1>5. LiveAreUnarmed'
  BY DEF LiveAreUnarmed, SessionTypeOK
<1>6. ResumptionsGrounded'
  BY DEF ResumptionsGrounded, SessionTypeOK
<1>7. RestorePlaced'
  BY DEF RestorePlaced, SessionTypeOK
<1>8. WaitingIsKept'
  BY DEF WaitingIsKept, Restorable, SessionTypeOK
<1>9. LoopsGrounded'
  BY DEF LoopsGrounded, NoLoop, NoSession, SessionTypeOK
<1> QED BY <1>1, <1>2, <1>3, <1>4, <1>5, <1>6, <1>7, <1>8, <1>9

\* The end of a process preserves the invariant.
LEMMA ExitStep ==
  ASSUME SessionIInv, NEW s \in Session, Exit(s)
  PROVE  SessionIInv'
<1> USE DEF SessionIInv, Exit, registryVars, captureVars, restoreVars, quitVars, countVars,
            historyVars
<1>1. SessionTypeOK'
  BY DEF SessionTypeOK
<1>2. RegistryAsTold' /\ (doubled => unsaved)'
  BY DEF RegistryAsTold, Has, Restorable, Absent
<1>3. RecordsGrounded'
  BY DEF RecordsGrounded, Restorable, SessionTypeOK
<1>4. NothingBeforeLaunch'
  BY DEF NothingBeforeLaunch, SessionTypeOK
<1>5. LiveAreUnarmed'
  BY DEF LiveAreUnarmed, SessionTypeOK
<1>6. ResumptionsGrounded'
  BY DEF ResumptionsGrounded, SessionTypeOK
<1>7. RestorePlaced'
  BY DEF RestorePlaced, SessionTypeOK
<1>8. WaitingIsKept'
  BY DEF WaitingIsKept, Restorable, SessionTypeOK
<1>9. LoopsGrounded'
  BY DEF LoopsGrounded, NoLoop, NoSession, SessionTypeOK
<1> QED BY <1>1, <1>2, <1>3, <1>4, <1>5, <1>6, <1>7, <1>8, <1>9

\* A terminal that is closed elsewhere preserves the invariant.
LEMMA RemovedStep ==
  ASSUME SessionIInv, NEW s \in Session, Removed(s)
  PROVE  SessionIInv'
<1> USE DEF SessionIInv, Removed, registryVars, restoreVars, quitVars, countVars, historyVars
<1>1. /\ loops' \in [CaptureLoop -> Loop]
      /\ \A l \in CaptureLoop : loops'[l] \in {loops[l], NoLoop}
  BY StopTimerEffect
<1>2. SessionTypeOK'
  BY <1>1 DEF SessionTypeOK, Loop
<1>3. RegistryAsTold' /\ (doubled => unsaved)'
  BY <1>1 DEF RegistryAsTold, Has, Restorable, Absent
<1>4. RecordsGrounded'
  BY <1>1 DEF RecordsGrounded, Restorable, SessionTypeOK
<1>5. NothingBeforeLaunch'
  BY <1>1 DEF NothingBeforeLaunch, SessionTypeOK, NoLoop
<1>6. LiveAreUnarmed'
  BY <1>1 DEF LiveAreUnarmed, SessionTypeOK
<1>7. ResumptionsGrounded'
  BY <1>1 DEF ResumptionsGrounded, SessionTypeOK
<1>8. RestorePlaced'
  BY <1>1 DEF RestorePlaced, SessionTypeOK
<1>9. WaitingIsKept'
  BY <1>1 DEF WaitingIsKept, Restorable, SessionTypeOK
<1>10. LoopsGrounded'
  BY <1>1, LoopsEnd DEF NoLoop, NoSession, SessionTypeOK
<1> QED BY <1>2, <1>3, <1>4, <1>5, <1>6, <1>7, <1>8, <1>9, <1>10

\* The list of what is armed preserves the invariant.
LEMMA ListRestorableStep ==
  ASSUME SessionIInv, ListRestorable
  PROVE  SessionIInv'
<1> USE DEF SessionIInv, ListRestorable, registryVars, knownVars, captureVars, quitVars,
            countVars, historyVars
<1>1. SessionTypeOK'
  BY DEF SessionTypeOK
<1>2. RegistryAsTold' /\ (doubled => unsaved)'
  BY DEF RegistryAsTold, Has, Restorable, Absent
<1>3. RecordsGrounded'
  BY DEF RecordsGrounded, Restorable, SessionTypeOK
<1>4. NothingBeforeLaunch'
  BY DEF NothingBeforeLaunch, SessionTypeOK, RecordsGrounded, Absent, Restorable
<1>5. LiveAreUnarmed'
  BY DEF LiveAreUnarmed, SessionTypeOK
<1>6. ResumptionsGrounded'
  BY DEF ResumptionsGrounded, SessionTypeOK
<1>7. RestorePlaced'
  BY DEF RestorePlaced, SessionTypeOK
<1>8. WaitingIsKept'
  BY DEF WaitingIsKept, Restorable, SessionTypeOK
<1>9. LoopsGrounded'
  BY DEF LoopsGrounded, NoLoop, NoSession, SessionTypeOK
<1> QED BY <1>1, <1>2, <1>3, <1>4, <1>5, <1>6, <1>7, <1>8, <1>9

\* A loop begins preserves the invariant.
LEMMA AdoptStep ==
  ASSUME SessionIInv, NEW s \in Session, NEW l \in CaptureLoop,
         NEW from \in {"pending", "assigned"}, Adopt(s, l, from)
  PROVE  SessionIInv'
<1> USE DEF SessionIInv, Adopt, registryVars, knownVars, restoreVars, quitVars, countVars,
            historyVars
<1>1. SessionTypeOK'
  BY DEF SessionTypeOK
<1>2. RegistryAsTold' /\ (doubled => unsaved)'
  BY DEF RegistryAsTold, Has, Restorable, Absent
<1>3. RecordsGrounded'
  BY DEF RecordsGrounded, Restorable, SessionTypeOK
<1>4. NothingBeforeLaunch'
  BY DEF NothingBeforeLaunch, SessionTypeOK
<1>5. LiveAreUnarmed'
  BY DEF LiveAreUnarmed, SessionTypeOK
<1>6. ResumptionsGrounded'
  BY DEF ResumptionsGrounded, SessionTypeOK
<1>7. RestorePlaced'
  BY DEF RestorePlaced, SessionTypeOK
<1>8. WaitingIsKept'
  BY DEF WaitingIsKept, Restorable, SessionTypeOK
<1>9. LoopsGrounded'
  BY DEF LoopsGrounded, NoLoop, NoSession, SessionTypeOK
<1> QED BY <1>1, <1>2, <1>3, <1>4, <1>5, <1>6, <1>7, <1>8, <1>9

\* An attempt preserves the invariant.
LEMMA AttemptStep ==
  ASSUME SessionIInv, NEW l \in CaptureLoop, Attempt(l)
  PROVE  SessionIInv'
<1> USE DEF SessionIInv, Attempt, registryVars, knownVars, restoreVars, quitVars, countVars,
            historyVars
<1>1. /\ loops' \in [CaptureLoop -> Loop]
      /\ \A k \in CaptureLoop \ {l} : loops'[k] = loops[k]
      /\ \/ loops'[l] = NoLoop
         \/ /\ loops'[l] = [loops[l] EXCEPT !.stage = "failing"]
            /\ loops[l].from = "pending"
         \/ loops'[l] = [loops[l] EXCEPT !.stage = "finding"]
  BY GiveUpEffect, LoopTypes DEF Loop
<1>2. SessionTypeOK'
  BY <1>1 DEF SessionTypeOK, Loop
<1>3. RegistryAsTold' /\ (doubled => unsaved)'
  BY <1>1 DEF RegistryAsTold, Has, Restorable, Absent
<1>4. RecordsGrounded'
  BY <1>1 DEF RecordsGrounded, Restorable, SessionTypeOK
<1>5. NothingBeforeLaunch'
  BY <1>1, LoopTypes DEF NothingBeforeLaunch, SessionTypeOK, NoLoop, Loop
<1>6. LiveAreUnarmed'
  BY <1>1 DEF LiveAreUnarmed, SessionTypeOK
<1>7. ResumptionsGrounded'
  BY <1>1 DEF ResumptionsGrounded, SessionTypeOK
<1>8. RestorePlaced'
  BY <1>1 DEF RestorePlaced, SessionTypeOK
<1>9. WaitingIsKept'
  BY <1>1 DEF WaitingIsKept, Restorable, SessionTypeOK
<1>10. LoopsGrounded'
  <2>1. loops[l].stage # "off" /\ held' = held
    OBVIOUS
  <2> QED BY <1>1, <2>1, LoopMoves
<1> QED BY <1>2, <1>3, <1>4, <1>5, <1>6, <1>7, <1>8, <1>9, <1>10

\* An attempt that finds nothing preserves the invariant.
LEMMA NotFoundStep ==
  ASSUME SessionIInv, NEW l \in CaptureLoop, NotFound(l)
  PROVE  SessionIInv'
<1> USE DEF SessionIInv, NotFound, registryVars, knownVars, restoreVars, quitVars, countVars,
            historyVars
<1>1. /\ loops' \in [CaptureLoop -> Loop]
      /\ \A k \in CaptureLoop \ {l} : loops'[k] = loops[k]
      /\ \/ loops'[l] = NoLoop
         \/ /\ loops'[l] = [loops[l] EXCEPT !.stage = "failing"]
            /\ loops[l].from = "pending"
         \/ loops'[l] = [loops[l] EXCEPT !.stage = "due"]
  BY GiveUpEffect, LoopTypes DEF Loop
<1>2. SessionTypeOK'
  BY <1>1 DEF SessionTypeOK, Loop
<1>3. RegistryAsTold' /\ (doubled => unsaved)'
  BY <1>1 DEF RegistryAsTold, Has, Restorable, Absent
<1>4. RecordsGrounded'
  BY <1>1 DEF RecordsGrounded, Restorable, SessionTypeOK
<1>5. NothingBeforeLaunch'
  BY <1>1, LoopTypes DEF NothingBeforeLaunch, SessionTypeOK, NoLoop, Loop
<1>6. LiveAreUnarmed'
  BY <1>1 DEF LiveAreUnarmed, SessionTypeOK
<1>7. ResumptionsGrounded'
  BY <1>1 DEF ResumptionsGrounded, SessionTypeOK
<1>8. RestorePlaced'
  BY <1>1 DEF RestorePlaced, SessionTypeOK
<1>9. WaitingIsKept'
  BY <1>1 DEF WaitingIsKept, Restorable, SessionTypeOK
<1>10. LoopsGrounded'
  <2>1. loops[l].stage # "off" /\ held' = held
    OBVIOUS
  <2> QED BY <1>1, <2>1, LoopMoves
<1> QED BY <1>2, <1>3, <1>4, <1>5, <1>6, <1>7, <1>8, <1>9, <1>10

\* The confirmation to quit preserves the invariant.
LEMMA BeginQuitStep ==
  ASSUME SessionIInv, BeginQuit
  PROVE  SessionIInv'
<1> USE DEF SessionIInv, BeginQuit, registryVars, knownVars, captureVars, restoreVars,
            countVars, historyVars
<1>1. SessionTypeOK'
  BY DEF SessionTypeOK
<1>2. RegistryAsTold' /\ (doubled => unsaved)'
  BY DEF RegistryAsTold, Has, Restorable, Absent
<1>3. RecordsGrounded'
  BY DEF RecordsGrounded, Restorable, SessionTypeOK
<1>4. NothingBeforeLaunch'
  BY DEF NothingBeforeLaunch, SessionTypeOK
<1>5. LiveAreUnarmed'
  BY DEF LiveAreUnarmed, SessionTypeOK
<1>6. ResumptionsGrounded'
  BY DEF ResumptionsGrounded, SessionTypeOK
<1>7. RestorePlaced'
  BY DEF RestorePlaced, SessionTypeOK
<1>8. WaitingIsKept'
  BY DEF WaitingIsKept, Restorable, SessionTypeOK
<1>9. LoopsGrounded'
  BY DEF LoopsGrounded, NoLoop, NoSession, SessionTypeOK
<1> QED BY <1>1, <1>2, <1>3, <1>4, <1>5, <1>6, <1>7, <1>8, <1>9

\* An attempt of the shutdown preserves the invariant.
LEMMA LastAttemptStep ==
  ASSUME SessionIInv, NEW s \in Session, LastAttempt(s)
  PROVE  SessionIInv'
<1> USE DEF SessionIInv, LastAttempt, registryVars, knownVars, captureVars, restoreVars,
            countVars, historyVars
<1>1. SessionTypeOK'
  BY DEF SessionTypeOK
<1>2. RegistryAsTold' /\ (doubled => unsaved)'
  BY DEF RegistryAsTold, Has, Restorable, Absent
<1>3. RecordsGrounded'
  BY DEF RecordsGrounded, Restorable, SessionTypeOK
<1>4. NothingBeforeLaunch'
  BY DEF NothingBeforeLaunch, SessionTypeOK
<1>5. LiveAreUnarmed'
  BY DEF LiveAreUnarmed, SessionTypeOK
<1>6. ResumptionsGrounded'
  BY DEF ResumptionsGrounded, SessionTypeOK
<1>7. RestorePlaced'
  BY DEF RestorePlaced, SessionTypeOK
<1>8. WaitingIsKept'
  BY DEF WaitingIsKept, Restorable, SessionTypeOK
<1>9. LoopsGrounded'
  BY DEF LoopsGrounded, NoLoop, NoSession, SessionTypeOK
<1> QED BY <1>1, <1>2, <1>3, <1>4, <1>5, <1>6, <1>7, <1>8, <1>9

\* A shutdown that another module fails preserves the invariant.
LEMMA QuitFailsStep ==
  ASSUME SessionIInv, QuitFails
  PROVE  SessionIInv'
<1> USE DEF SessionIInv, QuitFails, registryVars, knownVars, captureVars, restoreVars,
            countVars, historyVars
<1>1. SessionTypeOK'
  BY DEF SessionTypeOK
<1>2. RegistryAsTold' /\ (doubled => unsaved)'
  BY DEF RegistryAsTold, Has, Restorable, Absent
<1>3. RecordsGrounded'
  BY DEF RecordsGrounded, Restorable, SessionTypeOK
<1>4. NothingBeforeLaunch'
  BY DEF NothingBeforeLaunch, SessionTypeOK
<1>5. LiveAreUnarmed'
  BY DEF LiveAreUnarmed, SessionTypeOK
<1>6. ResumptionsGrounded'
  BY DEF ResumptionsGrounded, SessionTypeOK
<1>7. RestorePlaced'
  BY DEF RestorePlaced, SessionTypeOK
<1>8. WaitingIsKept'
  BY DEF WaitingIsKept, Restorable, SessionTypeOK
<1>9. LoopsGrounded'
  BY DEF LoopsGrounded, NoLoop, NoSession, SessionTypeOK
<1> QED BY <1>1, <1>2, <1>3, <1>4, <1>5, <1>6, <1>7, <1>8, <1>9

\* A reactivation preserves the invariant.
LEMMA ReactivateStep ==
  ASSUME SessionIInv, Reactivate
  PROVE  SessionIInv'
<1> USE DEF SessionIInv, Reactivate, registryVars, historyVars
<1>1. SessionTypeOK'
  <2>1. loops' \in [CaptureLoop -> Loop]
    BY LoopTypes
  <2>2. reactivations' \in 0..MaxReactivations
    BY SessionBounds DEF SessionTypeOK
  <2>3. \A x \in {used, awaited, attached, resumed, exits, snapshots, restores, offered, scan,
                 looking, confirmed, unsure, spent}' : x \subseteq Session
    BY DEF SessionTypeOK
  <2> QED BY <2>1, <2>2, <2>3 DEF SessionTypeOK, Loop
<1>2. RegistryAsTold' /\ (doubled => unsaved)'
  BY DEF RegistryAsTold, Has, Restorable, Absent
<1>3. RecordsGrounded'
  BY DEF RecordsGrounded, Restorable, SessionTypeOK
<1>4. NothingBeforeLaunch'
  BY DEF NothingBeforeLaunch, SessionTypeOK, NoLoop
<1>5. LiveAreUnarmed'
  BY DEF LiveAreUnarmed, SessionTypeOK
<1>6. ResumptionsGrounded'
  BY DEF ResumptionsGrounded, SessionTypeOK
<1>7. RestorePlaced'
  BY DEF RestorePlaced, SessionTypeOK
<1>8. WaitingIsKept'
  BY DEF WaitingIsKept, Restorable, SessionTypeOK
<1>9. LoopsGrounded'
  BY DEF LoopsGrounded, NoLoop, NoSession, SessionTypeOK
<1> QED BY <1>1, <1>2, <1>3, <1>4, <1>5, <1>6, <1>7, <1>8, <1>9

\* A launch that fails preserves the invariant.
LEMMA LaunchFailsStep ==
  ASSUME SessionIInv, NEW s \in Session, LaunchFails(s)
  PROVE  SessionIInv'
<1> USE DEF SessionIInv, LaunchFails, captureVars, restoreVars, quitVars, countVars, historyVars
<1>1. PICK result \in {"done", "failed", "refused"} : Discard(s, result)
  OBVIOUS
<1>2. /\ Effect(s, Absent, result)
      /\ result # "refused" => ~frozen /\ held'[s] = Absent
      /\ result = "refused" => frozen
  BY <1>1, DiscardEffect
<1>3. SessionTypeOK'
  <2>1. process' \in [Session -> {"none", "starting", "resuming", "running"}]
    BY DEF SessionTypeOK
  <2>2. \A x \in {used, awaited, attached, resumed, exits, snapshots, restores, offered, scan,
                 looking, confirmed, unsure, spent}' : x \subseteq Session
    BY <1>1 DEF SessionTypeOK
  <2> QED BY <1>2, <2>1, <2>2 DEF SessionTypeOK, Effect
<1>4. RegistryAsTold' /\ (doubled => unsaved)'
  BY <1>1, <1>2 DEF RegistryAsTold, Has, Restorable, Absent, Effect, SessionRecord
<1>5. RecordsGrounded'
  BY <1>1, <1>2, GroundedAfter DEF Restorable, SessionTypeOK, Absent
<1>6. NothingBeforeLaunch'
  BY <1>1, <1>2 DEF NothingBeforeLaunch, SessionTypeOK, Effect, SessionRecord, Absent
<1>7. LiveAreUnarmed'
  BY <1>1, <1>2 DEF LiveAreUnarmed, SessionTypeOK, Effect, SessionRecord, Absent
<1>8. ResumptionsGrounded'
  BY <1>1, <1>2 DEF ResumptionsGrounded, SessionTypeOK, Effect, SessionRecord, Absent
<1>9. RestorePlaced'
  BY <1>1, <1>2 DEF RestorePlaced, SessionTypeOK, Effect, SessionRecord, Absent
<1>10. WaitingIsKept'
  <2> SUFFICES ASSUME ~unsaved, NEW x \in (restores \cup offered) \ spent
               PROVE  held'[x] = held[x]
    BY DEF WaitingIsKept, Restorable, SessionTypeOK
  <2>1. x \in Session /\ held[x].armed
    BY DEF WaitingIsKept, SessionTypeOK
  <2>2. x = s => frozen
    BY <2>1 DEF LiveAreUnarmed
  <2> QED BY <1>2, <2>1, <2>2 DEF Effect
<1>11. LoopsGrounded'
  <2>1. \A x \in Session : held'[x].capture = "assigned" => held[x].capture = "assigned"
    BY <1>2 DEF Effect, Absent
  <2>2. loops' = loops /\ loops \in [CaptureLoop -> Loop]
    BY LoopTypes
  <2> QED BY <2>1, <2>2, LoopsEnd
<1> QED BY <1>3, <1>4, <1>5, <1>6, <1>7, <1>8, <1>9, <1>10, <1>11

\* A saved session that is discarded preserves the invariant.
LEMMA DiscardSavedStep ==
  ASSUME SessionIInv, NEW s \in Session, DiscardSaved(s)
  PROVE  SessionIInv'
<1> USE DEF SessionIInv, DiscardSaved, knownVars, captureVars, quitVars, countVars
<1>1. PICK result \in {"done", "failed", "refused"} :
        /\ Discard(s, result)
        /\ offered' = IF result = "done" THEN offered \ {s} ELSE offered
        /\ spent' = IF result = "failed" THEN spent \cup {s} ELSE spent
  OBVIOUS
<1>2. /\ Effect(s, Absent, result)
      /\ result # "refused" => ~frozen /\ held'[s] = Absent
      /\ result = "refused" => frozen
  BY <1>1, DiscardEffect
<1>3. SessionTypeOK'
  BY <1>1, <1>2, SessionBounds DEF SessionTypeOK, Effect
<1>4. RegistryAsTold' /\ (doubled => unsaved)'
  BY <1>1, <1>2 DEF RegistryAsTold, Has, Restorable, Absent, Effect, SessionRecord
<1>5. RecordsGrounded'
  BY <1>1, <1>2, GroundedAfter DEF Restorable, SessionTypeOK, Absent
<1>6. NothingBeforeLaunch'
  BY <1>1, <1>2 DEF NothingBeforeLaunch, SessionTypeOK, Effect, SessionRecord, Absent
<1>7. LiveAreUnarmed'
  BY <1>1, <1>2 DEF LiveAreUnarmed, SessionTypeOK, Effect, SessionRecord, Absent
<1>8. ResumptionsGrounded'
  BY <1>1, <1>2 DEF ResumptionsGrounded, SessionTypeOK, Effect, SessionRecord, Absent
<1>9. RestorePlaced'
  BY <1>1, <1>2 DEF RestorePlaced, SessionTypeOK, Effect, SessionRecord, Absent
<1>10. WaitingIsKept'
  BY <1>1, <1>2 DEF WaitingIsKept, Restorable, SessionTypeOK, Effect, SessionRecord, Absent,
        RestorePlaced
<1>11. LoopsGrounded'
  <2>1. \A x \in Session : held'[x].capture = "assigned" => held[x].capture = "assigned"
    BY <1>2 DEF Effect, Absent
  <2>2. loops' = loops /\ loops \in [CaptureLoop -> Loop]
    BY LoopTypes
  <2> QED BY <2>1, <2>2, LoopsEnd
<1> QED BY <1>3, <1>4, <1>5, <1>6, <1>7, <1>8, <1>9, <1>10, <1>11

\* A launch preserves the invariant.
LEMMA LaunchStep ==
  ASSUME SessionIInv, NEW s \in Session, NEW identity \in {"none", "own"}, Launch(s, identity)
  PROVE  SessionIInv'
<1> USE DEF SessionIInv, Launch, captureVars, restoreVars, quitVars, countVars, historyVars
<1>1. PICK result \in {"done", "failed"} :
        /\ Mutate([held EXCEPT ![s] = Begun(identity)], TRUE, result)
        /\ IF result = "done"
             THEN process' = [process EXCEPT ![s] = "starting"] /\ awaited' = awaited \cup {s}
             ELSE UNCHANGED << process, awaited >>
  OBVIOUS
<1>2. Begun(identity) \in SessionRecord /\ ~Begun(identity).armed
  BY DEF Begun, SessionRecord
<1>3. /\ Effect(s, Begun(identity), result) /\ ~frozen
      /\ held'[s] = Begun(identity)
  BY <1>1, <1>2, MutateEffect
<1>4. held[s] = Absent /\ saved[s] = Absent /\ ~Absent.armed /\ s \notin used
  BY DEF RecordsGrounded, Absent
<1>5. SessionTypeOK'
  <2>1. process' \in [Session -> {"none", "starting", "resuming", "running"}]
    BY <1>1, <1>3 DEF SessionTypeOK
  <2>2. \A x \in {used, awaited, attached, resumed, exits, snapshots, restores, offered, scan,
                 looking, confirmed, unsure, spent}' : x \subseteq Session
    BY <1>1, <1>3 DEF SessionTypeOK
  <2> QED BY <1>1, <1>3, <2>1, <2>2 DEF SessionTypeOK, Effect
<1>6. RegistryAsTold' /\ (doubled => unsaved)'
  BY <1>1, <1>2, <1>3, <1>4 DEF RegistryAsTold, Has, Restorable, Absent, Effect, SessionRecord
<1>7. RecordsGrounded'
  BY <1>1, <1>2, <1>3, <1>4, GroundedAfter DEF Restorable, SessionTypeOK, Begun
<1>8. NothingBeforeLaunch'
  BY <1>1, <1>2, <1>3, <1>4
     DEF NothingBeforeLaunch, SessionTypeOK, Effect, SessionRecord, Absent
<1>9. LiveAreUnarmed'
  BY <1>1, <1>2, <1>3, <1>4 DEF LiveAreUnarmed, SessionTypeOK, Effect, NothingBeforeLaunch
<1>10. ResumptionsGrounded'
  BY <1>1, <1>2, <1>3, <1>4
     DEF ResumptionsGrounded, SessionTypeOK, Effect, SessionRecord, Absent
<1>11. RestorePlaced'
  BY <1>1, <1>2, <1>3, <1>4 DEF RestorePlaced, SessionTypeOK, NothingBeforeLaunch
<1>12. WaitingIsKept'
  BY <1>1, <1>2, <1>3, <1>4
     DEF WaitingIsKept, Restorable, SessionTypeOK, Effect, NothingBeforeLaunch, RestorePlaced
<1>13. LoopsGrounded'
  <2>1. \A l \in CaptureLoop : loops[l].stage # "off" => loops[l].session # s
    BY <1>4 DEF NothingBeforeLaunch
  <2>2. \A x \in Session \ {s} : held'[x] = held[x]
    BY <1>3 DEF Effect
  <2> QED BY <2>1, <2>2 DEF LoopsGrounded
<1> QED BY <1>5, <1>6, <1>7, <1>8, <1>9, <1>10, <1>11, <1>12, <1>13

\* A resumption that fails preserves the invariant.
LEMMA ResumeFailsStep ==
  ASSUME SessionIInv, NEW s \in Session, ResumeFails(s)
  PROVE  SessionIInv'
<1> USE DEF SessionIInv, ResumeFails, captureVars, quitVars, countVars
<1>1. PICK result \in {"done", "failed", "refused"} :
        /\ Rearm(s, result)
        /\ spent' = IF result = "done" THEN spent \ {s} ELSE spent
  OBVIOUS
<1>2. /\ Effect(s, [held[s] EXCEPT !.armed = TRUE], result)
      /\ result # "refused" =>
           ~frozen /\ Restorable(held[s]) /\ held'[s] = [held[s] EXCEPT !.armed = TRUE]
  BY <1>1, RearmEffect
<1>3. held[s] \in SessionRecord
  BY RecordTypes
<1>4. s \in confirmed \cup unsure /\ s \in used
  BY DEF ResumptionsGrounded, NothingBeforeLaunch
<1>5. SessionTypeOK'
  <2>1. process' \in [Session -> {"none", "starting", "resuming", "running"}]
    BY DEF SessionTypeOK
  <2>2. \A x \in {used, awaited, attached, resumed, exits, snapshots, restores, offered, scan,
                 looking, confirmed, unsure, spent}' : x \subseteq Session
    BY <1>1 DEF SessionTypeOK
  <2> QED BY <1>2, <2>1, <2>2 DEF SessionTypeOK, Effect
<1>6. RegistryAsTold' /\ (doubled => unsaved)'
  BY <1>1, <1>2, <1>3, <1>4 DEF RegistryAsTold, Has, Restorable, Absent, Effect, SessionRecord
<1>7. RecordsGrounded'
  BY <1>1, <1>2, <1>3, <1>4, GroundedAfter
     DEF RecordsGrounded, Restorable, SessionTypeOK, SessionRecord
<1>8. NothingBeforeLaunch'
  BY <1>1, <1>2, <1>3, <1>4
     DEF NothingBeforeLaunch, SessionTypeOK, Effect, SessionRecord, Absent
<1>9. LiveAreUnarmed'
  BY <1>1, <1>2, <1>3, <1>4 DEF LiveAreUnarmed, SessionTypeOK, Effect, SessionRecord, Absent
<1>10. ResumptionsGrounded'
  BY <1>1, <1>2, <1>3, <1>4
     DEF ResumptionsGrounded, SessionTypeOK, Effect, SessionRecord, Absent
<1>11. RestorePlaced'
  BY <1>1, <1>2, <1>3, <1>4 DEF RestorePlaced, SessionTypeOK, NothingBeforeLaunch
<1>12. WaitingIsKept'
  <2> SUFFICES ASSUME ~unsaved, NEW x \in ((restores \cup offered) \ spent)'
               PROVE  Restorable(held'[x]) /\ held'[x].armed
    BY DEF WaitingIsKept, Restorable
  <2>1. x \in Session /\ s \in spent
    BY <1>1 DEF SessionTypeOK, RestorePlaced
  <2>2. CASE x = s
    BY <1>1, <1>2, <1>3, <2>1, <2>2 DEF SessionRecord, Restorable
  <2>3. CASE x # s
    <3>1. x \in (restores \cup offered) \ spent
      BY <2>3
    <3> QED BY <1>2, <2>1, <2>3, <3>1 DEF Effect, WaitingIsKept
  <2> QED BY <2>2, <2>3
<1>13. LoopsGrounded'
  <2>1. \A x \in Session : held'[x].capture = "assigned" => held[x].capture = "assigned"
    BY <1>2, <1>3 DEF Effect, Absent, SessionRecord
  <2>2. loops' \in [CaptureLoop -> Loop] /\ \A l \in CaptureLoop : loops'[l] \in {loops[l], NoLoop}
    BY LoopTypes
  <2> QED BY <2>1, <2>2, LoopsEnd
<1> QED BY <1>5, <1>6, <1>7, <1>8, <1>9, <1>10, <1>11, <1>12, <1>13

\* A session that is skipped is offered; the invariant is preserved.
LEMMA SkipStep ==
  ASSUME SessionIInv, NEW s \in Session, s \in restores \cup offered, Skip(s),
         UNCHANGED << used, exits, captureVars, attempted, quitVars, countVars, confirmed,
                      unsure, unsaved >>
  PROVE  SessionIInv'
<1> USE DEF SessionIInv, Skip, registryVars, captureVars, quitVars, countVars
<1>1. SessionTypeOK'
  BY DEF SessionTypeOK
<1>2. RegistryAsTold' /\ (doubled => unsaved)'
  BY DEF RegistryAsTold, Has, Restorable, Absent
<1>3. RecordsGrounded'
  BY DEF RecordsGrounded, Restorable, SessionTypeOK
<1>4. NothingBeforeLaunch'
  BY DEF NothingBeforeLaunch, SessionTypeOK
<1>5. LiveAreUnarmed'
  BY DEF LiveAreUnarmed, SessionTypeOK
<1>6. ResumptionsGrounded'
  BY DEF ResumptionsGrounded, SessionTypeOK
<1>7. RestorePlaced'
  BY DEF RestorePlaced, SessionTypeOK
<1>8. WaitingIsKept'
  BY DEF WaitingIsKept, Restorable, SessionTypeOK
<1>9. LoopsGrounded'
  BY DEF LoopsGrounded, NoLoop, NoSession, SessionTypeOK
<1> QED BY <1>1, <1>2, <1>3, <1>4, <1>5, <1>6, <1>7, <1>8, <1>9

\* A session whose record is claimed is being resumed; the invariant is preserved.
LEMMA ClaimStep ==
  ASSUME SessionIInv, NEW s \in Session, s \in restores \cup offered, Claim(s),
         UNCHANGED << used, exits, captureVars, attempted, quitVars, countVars, confirmed,
                      unsure, unsaved >>
  PROVE  SessionIInv'
<1> DEFINE r == [held[s] EXCEPT !.armed = FALSE]
<1> USE DEF SessionIInv, captureVars, quitVars, countVars
<1>1. PICK result \in {"done", "failed", "refused"} :
        /\ ClaimForRestore(s, result)
        /\ IF result = "done"
             THEN /\ process' = [process EXCEPT ![s] = "resuming"]
                  /\ doubled' = (process[s] # "none")
                  /\ awaited' = awaited \cup {s} /\ attached' = attached \ {s}
                  /\ resumed' = resumed \cup {s} /\ spent' = spent \cup {s}
                  /\ offered' = offered \ {s} /\ UNCHANGED restores
             ELSE /\ offered' = offered \cup {s} /\ restores' = restores \ {s}
                  /\ UNCHANGED << process, doubled, awaited, attached, resumed, spent >>
  BY DEF Claim
<1>2. /\ held' \in [Session -> SessionRecord] /\ saved' \in [Session -> SessionRecord]
      /\ frozen' = frozen /\ told' \in {"done", "failed"}
      /\ failedWrites' \in 0..MaxFailedWrites
      /\ held' = IF result = "done" THEN [held EXCEPT ![s] = r] ELSE held
      /\ \A x \in Session \ {s} : saved'[x] \in {saved[x], held[x]}
      /\ saved'[s] \in {saved[s], r}
      /\ result = "refused" => saved' = saved /\ told' = told
      /\ result # "refused" => Claimable(s) /\ told' = result
      /\ result = "done" => saved' = held'
  BY <1>1, ClaimEffect
<1>3. /\ held[s] \in SessionRecord /\ r \in SessionRecord /\ ~r.armed
      /\ r.capture = held[s].capture /\ r.identity = held[s].identity
  BY RecordTypes DEF SessionRecord
<1>4. attempted /\ s \in used
  BY DEF RestorePlaced, NothingBeforeLaunch
<1>5. /\ held \in [Session -> SessionRecord]
      /\ \A x \in Session : x # s => held'[x] = held[x]
      /\ held'[s] \in {held[s], r} /\ (result = "done" => held'[s] = r)
  BY <1>2, RecordTypes
<1> HIDE DEF r
<1>6. result # "refused" =>
        /\ Restorable(held[s]) /\ held[s].armed /\ ~frozen
        /\ s \in confirmed \cup unsure
        /\ ~unsaved => process[s] = "none" /\ s \notin exits
  BY <1>2 DEF Claimable, RecordsGrounded, LiveAreUnarmed
<1>7. SessionTypeOK'
  <2>1. process' \in [Session -> {"none", "starting", "resuming", "running"}]
    BY <1>1 DEF SessionTypeOK
  <2>2. \A x \in {used, awaited, attached, resumed, exits, snapshots, restores, offered, scan,
                 looking, confirmed, unsure, spent}' : x \subseteq Session
    BY <1>1 DEF SessionTypeOK
  <2> QED BY <1>1, <2>1, <2>2, <1>2 DEF SessionTypeOK, Effect
<1>8. RegistryAsTold' /\ (doubled => unsaved)'
  BY <1>1, <1>2, <1>6 DEF RegistryAsTold
<1>9. RecordsGrounded'
  BY <1>2, <1>3, <1>4, <1>5 DEF RecordsGrounded
<1>10. NothingBeforeLaunch'
  BY <1>1, <1>4 DEF NothingBeforeLaunch, SessionTypeOK
<1>11. LiveAreUnarmed'
  BY <1>1, <1>2, <1>3, <1>5, <1>6 DEF LiveAreUnarmed, SessionTypeOK
<1>12. ResumptionsGrounded'
  BY <1>1, <1>6 DEF ResumptionsGrounded, SessionTypeOK
<1>13. RestorePlaced'
  BY <1>1, <1>4, <1>6 DEF RestorePlaced, SessionTypeOK
<1>14. WaitingIsKept'
  BY <1>1, <1>2, <1>5 DEF WaitingIsKept, Restorable, SessionTypeOK
<1>15. LoopsGrounded'
  BY <1>3, <1>5 DEF LoopsGrounded
<1> QED BY <1>7, <1>8, <1>9, <1>10, <1>11, <1>12, <1>13, <1>14, <1>15

\* A session that is restored, or skipped, preserves the invariant.
LEMMA RestoreStep ==
  ASSUME SessionIInv, NEW s \in Session, Restore(s)
  PROVE  SessionIInv'
<1>1. s \in restores \cup offered
  BY DEF Restore
<1> QED BY <1>1, ClaimStep, SkipStep DEF Restore

\* An exit that is handled preserves the invariant.
LEMMA HandleExitStep ==
  ASSUME SessionIInv, NEW s \in Session, HandleExit(s)
  PROVE  SessionIInv'
<1> USE DEF SessionIInv, HandleExit, restoreVars, quitVars, countVars
<1>1. PICK result \in {"done", "failed", "refused"} :
        \/ /\ s \in resumed /\ Rearm(s, result)
           /\ spent' = IF result = "done" THEN spent \ {s} ELSE spent
        \/ s \notin resumed /\ Discard(s, result) /\ UNCHANGED spent
  OBVIOUS
<1>2. \E r \in SessionRecord :
        /\ Effect(s, r, result) /\ (result # "refused" => ~frozen /\ held'[s] = r)
        /\ \/ /\ r = Absent /\ s \notin resumed /\ spent' = spent
              /\ result = "refused" => frozen
           \/ /\ s \in resumed /\ spent' = IF result = "done" THEN spent \ {s} ELSE spent
              /\ r = [held[s] EXCEPT !.armed = TRUE]
              /\ result # "refused" => Restorable(held[s])
  <2>1. CASE s \in resumed
    <3>1. Rearm(s, result) /\ spent' = IF result = "done" THEN spent \ {s} ELSE spent
      BY <1>1, <2>1
    <3>2. [held[s] EXCEPT !.armed = TRUE] \in SessionRecord
      BY RecordTypes DEF SessionRecord
    <3> QED BY <2>1, <3>1, <3>2, RearmEffect
  <2>2. CASE s \notin resumed
    <3>1. Discard(s, result) /\ spent' = spent
      BY <1>1, <2>2
    <3>2. Absent \in SessionRecord
      BY DEF Absent, SessionRecord
    <3> QED BY <2>2, <3>1, <3>2, DiscardEffect
  <2> QED BY <2>1, <2>2
<1>3. PICK r \in SessionRecord :
        /\ Effect(s, r, result) /\ (result # "refused" => ~frozen /\ held'[s] = r)
        /\ \/ /\ r = Absent /\ s \notin resumed /\ spent' = spent
              /\ result = "refused" => frozen
           \/ /\ s \in resumed /\ spent' = IF result = "done" THEN spent \ {s} ELSE spent
              /\ r = [held[s] EXCEPT !.armed = TRUE]
              /\ result # "refused" => Restorable(held[s])
  BY <1>2
<1>4. /\ loops' \in [CaptureLoop -> Loop]
      /\ \A l \in CaptureLoop : loops'[l] \in {loops[l], NoLoop}
  BY StopTimerEffect
<1>5. held[s] \in SessionRecord /\ s \in used
  BY RecordTypes DEF NothingBeforeLaunch
<1>6. s \in resumed => s \in confirmed \cup unsure
  BY DEF ResumptionsGrounded
<1>7. SessionTypeOK'
  <2>1. process' \in [Session -> {"none", "starting", "resuming", "running"}]
    BY <1>1, <1>3 DEF SessionTypeOK
  <2>2. \A x \in {used, awaited, attached, resumed, exits, snapshots, restores, offered, scan,
                 looking, confirmed, unsure, spent}' : x \subseteq Session
    BY <1>1, <1>3 DEF SessionTypeOK
  <2> QED BY <1>1, <1>3, <2>1, <2>2, <1>4 DEF SessionTypeOK, Effect, Loop
<1>8. RegistryAsTold' /\ (doubled => unsaved)'
  BY <1>1, <1>2, <1>3, <1>4, <1>5, <1>6
     DEF RegistryAsTold, Has, Restorable, Absent, Effect, SessionRecord
<1>9. RecordsGrounded'
  BY <1>1, <1>2, <1>3, <1>4, <1>5, <1>6, GroundedAfter
     DEF RecordsGrounded, Restorable, SessionTypeOK, SessionRecord, Absent
<1>10. NothingBeforeLaunch'
  BY <1>1, <1>2, <1>3, <1>4, <1>5, <1>6 DEF NothingBeforeLaunch, SessionTypeOK, NoLoop
<1>11. LiveAreUnarmed'
  BY <1>1, <1>2, <1>3, <1>4, <1>5, <1>6
     DEF LiveAreUnarmed, SessionTypeOK, Effect, SessionRecord, Absent
<1>12. ResumptionsGrounded'
  BY <1>1, <1>2, <1>3, <1>4, <1>5, <1>6
     DEF ResumptionsGrounded, SessionTypeOK, Effect, SessionRecord, Absent
<1>13. RestorePlaced'
  BY <1>1, <1>2, <1>3, <1>4, <1>5, <1>6 DEF RestorePlaced, SessionTypeOK, Effect, LiveAreUnarmed
<1>14. WaitingIsKept'
  <2> SUFFICES ASSUME ~unsaved, NEW x \in ((restores \cup offered) \ spent)'
               PROVE  Restorable(held'[x]) /\ held'[x].armed
    BY DEF WaitingIsKept, Restorable
  <2>1. CASE x # s
    BY <1>3, <2>1 DEF Effect, WaitingIsKept, SessionTypeOK
  <2>2. CASE x = s /\ s \in spent
    BY <1>3, <1>5, <2>2 DEF SessionRecord, Restorable
  <2>3. CASE x = s /\ s \notin spent
    <3>1. Restorable(held[s]) /\ held[s].armed
      BY <2>3 DEF WaitingIsKept
    <3>2. r = Absent => frozen
      BY <3>1 DEF LiveAreUnarmed
    <3> QED BY <1>3, <1>5, <2>3, <3>1, <3>2 DEF Effect, SessionRecord, Restorable, Absent
  <2> QED BY <2>1, <2>2, <2>3
<1>15. LoopsGrounded'
  <2>1. \A x \in Session : held'[x].capture = "assigned" => held[x].capture = "assigned"
    BY <1>3, <1>5 DEF Effect, Absent, SessionRecord
  <2> QED BY <1>4, <2>1, LoopsEnd
<1> QED BY <1>7, <1>8, <1>9, <1>10, <1>11, <1>12, <1>13, <1>14, <1>15

\* A session that is closed preserves the invariant.
LEMMA StopStep ==
  ASSUME SessionIInv, NEW s \in Session, Stop(s)
  PROVE  SessionIInv'
<1> USE DEF SessionIInv, Stop, restoreVars, quitVars, countVars
<1>1. PICK result \in {"done", "failed", "refused"} :
        /\ Discard(s, result)
        /\ spent' = IF result = "refused" THEN spent ELSE spent \cup {s}
        /\ IF result = "done"
             THEN /\ process' = [process EXCEPT ![s] = "none"]
                  /\ attached' = attached \ {s} /\ resumed' = resumed \ {s}
             ELSE UNCHANGED << process, attached, resumed >>
  OBVIOUS
<1>2. /\ Effect(s, Absent, result)
      /\ result # "refused" => ~frozen /\ held'[s] = Absent
      /\ result = "refused" => frozen
  BY <1>1, DiscardEffect
<1>3. /\ loops' \in [CaptureLoop -> Loop]
      /\ \A l \in CaptureLoop : loops'[l] \in {loops[l], NoLoop}
  BY StopTimerEffect
<1>4. SessionTypeOK'
  <2>1. process' \in [Session -> {"none", "starting", "resuming", "running"}]
    BY <1>1, <1>2 DEF SessionTypeOK
  <2>2. \A x \in {used, awaited, attached, resumed, exits, snapshots, restores, offered, scan,
                 looking, confirmed, unsure, spent}' : x \subseteq Session
    BY <1>1, <1>2 DEF SessionTypeOK
  <2> QED BY <1>1, <1>2, <2>1, <2>2, <1>3 DEF SessionTypeOK, Effect, Loop
<1>5. RegistryAsTold' /\ (doubled => unsaved)'
  BY <1>1, <1>2, <1>3 DEF RegistryAsTold, Has, Restorable, Absent, Effect, SessionRecord
<1>6. RecordsGrounded'
  BY <1>1, <1>2, <1>3, GroundedAfter DEF Restorable, SessionTypeOK, Absent
<1>7. NothingBeforeLaunch'
  BY <1>1, <1>2, <1>3 DEF NothingBeforeLaunch, SessionTypeOK, NoLoop
<1>8. LiveAreUnarmed'
  BY SMTT(40), <1>1, <1>2, <1>3 DEF LiveAreUnarmed, SessionTypeOK, Effect, SessionRecord, Absent
<1>9. ResumptionsGrounded'
  BY <1>1, <1>2, <1>3 DEF ResumptionsGrounded, SessionTypeOK, Effect, SessionRecord, Absent
<1>10. RestorePlaced'
  BY <1>1, <1>2, <1>3 DEF RestorePlaced, SessionTypeOK, Effect, SessionRecord, Absent
<1>11. WaitingIsKept'
  BY <1>1, <1>2, <1>3
     DEF WaitingIsKept, Restorable, SessionTypeOK, Effect, SessionRecord, Absent
<1>12. LoopsGrounded'
  <2>1. \A x \in Session : held'[x].capture = "assigned" => held[x].capture = "assigned"
    BY <1>2 DEF Effect, Absent
  <2> QED BY <1>3, <2>1, LoopsEnd
<1> QED BY <1>4, <1>5, <1>6, <1>7, <1>8, <1>9, <1>10, <1>11, <1>12

\* A transcript that is found preserves the invariant.
LEMMA FoundStep ==
  ASSUME SessionIInv, NEW l \in CaptureLoop, NEW identity \in {"own", "other"}, Found(l, identity)
  PROVE  SessionIInv'
<1> USE DEF SessionIInv, Found, knownVars, restoreVars, quitVars, countVars, historyVars
<1>1. loops[l].session \in Session /\ loops[l].session \in used /\ loops[l].stage = "finding"
  BY DEF LoopsGrounded, NothingBeforeLaunch
<1>2. /\ loops' \in [CaptureLoop -> Loop]
      /\ \A k \in CaptureLoop \ {l} : loops'[k] = loops[k]
      /\ \/ loops'[l] = NoLoop
         \/ /\ loops'[l] = [loops[l] EXCEPT !.stage = "failing"]
            /\ loops[l].from = "pending"
  <2>1. GiveUp(l) \/ loops' = [loops EXCEPT ![l] = NoLoop]
    OBVIOUS
  <2> QED BY <2>1, GiveUpEffect, LoopTypes
<1>3. PICK result \in {"done", "failed", "refused"} : ConfirmCapture(loops[l].session, identity, result)
  OBVIOUS
<1>4. PICK r \in SessionRecord :
        /\ Effect(loops[l].session, r, result)
        /\ r.capture = "ready" /\ r.identity # "none" /\ r.armed = held[loops[l].session].armed
  <2> DEFINE r == [capture |-> "ready", identity |-> identity, armed |-> held[loops[l].session].armed]
  <2>1. r \in SessionRecord
    BY <1>1, RecordTypes DEF SessionRecord
  <2> QED BY <1>1, <1>3, <2>1, ConfirmEffect
<1>5. held[loops[l].session] \in SessionRecord
  BY <1>1, RecordTypes
<1>6. SessionTypeOK'
  <2>1. \A x \in {used, awaited, attached, resumed, exits, snapshots, restores, offered, scan,
                 looking, confirmed, unsure, spent}' : x \subseteq Session
    BY DEF SessionTypeOK
  <2> QED BY <1>1, <1>2, <1>4, <2>1 DEF SessionTypeOK, Effect, Loop
<1>7. RegistryAsTold' /\ (doubled => unsaved)'
  BY <1>1, <1>2, <1>3, <1>4, <1>5
     DEF RegistryAsTold, Has, Restorable, Absent, Effect, SessionRecord
<1>8. RecordsGrounded'
  BY <1>1, <1>2, <1>3, <1>4, <1>5, GroundedAfter DEF RecordsGrounded, Restorable, SessionTypeOK
<1>9. NothingBeforeLaunch'
  BY <1>1, <1>2, <1>3, <1>4, <1>5, LoopTypes
     DEF NothingBeforeLaunch, SessionTypeOK, NoLoop, Loop
<1>10. LiveAreUnarmed'
  BY SMTT(40), <1>1, <1>2, <1>3, <1>4, <1>5
     DEF LiveAreUnarmed, SessionTypeOK, Effect, SessionRecord, Absent
<1>11. ResumptionsGrounded'
  BY <1>1, <1>2, <1>3, <1>4, <1>5
     DEF ResumptionsGrounded, SessionTypeOK, Effect, SessionRecord, Absent
<1>12. RestorePlaced'
  BY <1>1, <1>2, <1>3, <1>4, <1>5
     DEF RestorePlaced, SessionTypeOK, Effect, SessionRecord, Absent
<1>13. WaitingIsKept'
  BY <1>1, <1>2, <1>3, <1>4, <1>5 DEF WaitingIsKept, Restorable, SessionTypeOK, Effect
<1>14. LoopsGrounded'
  <2>1. \A x \in Session : held'[x].capture = "assigned" => held[x].capture = "assigned"
    BY <1>4, <1>5 DEF Effect, SessionRecord
  <2> QED BY <1>2, <2>1, LoopMoves
<1> QED BY <1>6, <1>7, <1>8, <1>9, <1>10, <1>11, <1>12, <1>13, <1>14

\* A capture that failed preserves the invariant.
LEMMA FailCaptureStep ==
  ASSUME SessionIInv, NEW l \in CaptureLoop, FailCapture(l)
  PROVE  SessionIInv'
<1> USE DEF SessionIInv, FailCapture, knownVars, restoreVars, quitVars, countVars, historyVars
<1>1. loops[l].session \in Session /\ loops[l].session \in used /\ loops[l].stage = "failing"
      /\ held[loops[l].session].capture # "assigned"
  BY DEF LoopsGrounded, NothingBeforeLaunch
<1>2. /\ loops' \in [CaptureLoop -> Loop]
      /\ \A k \in CaptureLoop \ {l} : loops'[k] = loops[k]
      /\ \/ loops'[l] = NoLoop
         \/ /\ loops'[l] = [loops[l] EXCEPT !.stage = "failing"]
            /\ loops[l].from = "pending"
  BY LoopTypes
<1>3. PICK result \in {"done", "failed", "refused"} : MarkCaptureFailed(loops[l].session, result)
  OBVIOUS
<1>4. PICK r \in SessionRecord :
        /\ Effect(loops[l].session, r, result)
        /\ r.capture = "failed" /\ r.identity = held[loops[l].session].identity
        /\ r.armed = held[loops[l].session].armed
        /\ held'[loops[l].session] # held[loops[l].session] => held[loops[l].session].capture # "ready"
  <2> DEFINE r == [held[loops[l].session] EXCEPT !.capture = "failed"]
  <2>1. r \in SessionRecord /\ r.capture = "failed" /\ r.identity = held[loops[l].session].identity
        /\ r.armed = held[loops[l].session].armed
    BY SMTT(40), <1>1, RecordTypes DEF SessionRecord
  <2> QED BY <1>1, <1>3, <2>1, MarkEffect
<1>5. held[loops[l].session] \in SessionRecord
  BY <1>1, RecordTypes
<1>6. SessionTypeOK'
  <2>1. \A x \in {used, awaited, attached, resumed, exits, snapshots, restores, offered, scan,
                 looking, confirmed, unsure, spent}' : x \subseteq Session
    BY DEF SessionTypeOK
  <2> QED BY <1>1, <1>2, <1>4, <2>1 DEF SessionTypeOK, Effect, Loop
<1>7. RegistryAsTold' /\ (doubled => unsaved)'
  BY <1>1, <1>2, <1>3, <1>4, <1>5
     DEF RegistryAsTold, Has, Restorable, Absent, Effect, SessionRecord
<1>8. RecordsGrounded'
  BY <1>1, <1>2, <1>3, <1>4, <1>5, GroundedAfter DEF RecordsGrounded, Restorable, SessionTypeOK
<1>9. NothingBeforeLaunch'
  BY <1>1, <1>2, <1>3, <1>4, <1>5, LoopTypes
     DEF NothingBeforeLaunch, SessionTypeOK, NoLoop, Loop
<1>10. LiveAreUnarmed'
  BY <1>1, <1>2, <1>3, <1>4, <1>5
     DEF LiveAreUnarmed, SessionTypeOK, Effect, SessionRecord, Absent
<1>11. ResumptionsGrounded'
  BY <1>1, <1>2, <1>3, <1>4, <1>5
     DEF ResumptionsGrounded, SessionTypeOK, Effect, SessionRecord, Absent
<1>12. RestorePlaced'
  BY <1>1, <1>2, <1>3, <1>4, <1>5
     DEF RestorePlaced, SessionTypeOK, Effect, SessionRecord, Absent
<1>13. WaitingIsKept'
  BY <1>1, <1>2, <1>3, <1>4, <1>5 DEF WaitingIsKept, Restorable, SessionTypeOK, Effect
<1>14. LoopsGrounded'
  <2>1. \A x \in Session : held'[x].capture = "assigned" => held[x].capture = "assigned"
    BY <1>4, <1>5 DEF Effect, SessionRecord
  <2> QED BY <1>2, <2>1, LoopMoves
<1> QED BY <1>6, <1>7, <1>8, <1>9, <1>10, <1>11, <1>12, <1>13, <1>14

\* What a last attempt confirms, if anything, preserves the invariant.
LEMMA LastCaptureStep ==
  ASSUME SessionIInv, NEW s \in Session, LastCapture(s)
  PROVE  SessionIInv'
<1> USE DEF SessionIInv, LastCapture, knownVars, restoreVars, countVars, historyVars
<1>1. CASE UNCHANGED << registryVars, snapshots >>
  <2> USE <1>1 DEF registryVars
  <2>1. SessionTypeOK'
    BY DEF SessionTypeOK
  <2>2. RegistryAsTold' /\ (doubled => unsaved)'
    BY DEF RegistryAsTold, Has, Restorable, Absent
  <2>3. RecordsGrounded'
    BY DEF RecordsGrounded, Restorable, SessionTypeOK
  <2>4. NothingBeforeLaunch'
    BY DEF NothingBeforeLaunch, SessionTypeOK
  <2>5. LiveAreUnarmed'
    BY DEF LiveAreUnarmed, SessionTypeOK
  <2>6. ResumptionsGrounded'
    BY DEF ResumptionsGrounded, SessionTypeOK
  <2>7. RestorePlaced'
    BY DEF RestorePlaced, SessionTypeOK
  <2>8. WaitingIsKept'
    BY DEF WaitingIsKept, Restorable, SessionTypeOK
  <2>9. LoopsGrounded'
    BY DEF LoopsGrounded, NoLoop, NoSession, SessionTypeOK
  <2> QED BY <2>1, <2>2, <2>3, <2>4, <2>5, <2>6, <2>7, <2>8, <2>9
<1>2. ASSUME NEW identity \in {"own", "other"}, NEW result \in {"done", "failed"},
             ConfirmCapture(s, identity, result), snapshots' \subseteq snapshots
      PROVE  SessionIInv'
  <2> DEFINE r == [capture |-> "ready", identity |-> identity, armed |-> held[s].armed]
  <2>1. /\ r \in SessionRecord /\ held[s] \in SessionRecord /\ r.capture = "ready"
        /\ r.identity # "none" /\ r.armed = held[s].armed
    BY RecordTypes DEF SessionRecord
  <2>2. /\ Effect(s, r, result)
        /\ held'[s] # held[s] => held[s].capture \in {"pending", "assigned"}
    BY <1>2, ConfirmEffect
  <2> HIDE DEF r
  <2>3. SessionTypeOK'
    <3>1. \A x \in {used, awaited, attached, resumed, exits, snapshots, restores, offered, scan,
                   looking, confirmed, unsure, spent}' : x \subseteq Session
      BY <1>2 DEF SessionTypeOK
    <3> QED BY <2>2, <3>1 DEF SessionTypeOK, Effect
  <2>4. RegistryAsTold' /\ (doubled => unsaved)'
    BY <2>1, <2>2 DEF RegistryAsTold, Effect
  <2>5. RecordsGrounded'
    <3>1. CASE s \in used
      BY <2>1, <2>2, <3>1, GroundedAfter DEF RecordsGrounded
    <3>2. CASE s \notin used
      <4>1. held'[s] = held[s] /\ held[s] = Absent
        BY <2>2, <3>2 DEF RecordsGrounded, Absent
      <4>2. Effect(s, Absent, result)
        BY <2>2, <4>1 DEF Effect
      <4> QED BY <4>2, GroundedAfter DEF Absent
    <3> QED BY <3>1, <3>2
  <2>6. NothingBeforeLaunch'
    BY DEF NothingBeforeLaunch
  <2>7. LiveAreUnarmed'
    BY <2>1, <2>2 DEF LiveAreUnarmed, Effect
  <2>8. ResumptionsGrounded'
    BY DEF ResumptionsGrounded
  <2>9. RestorePlaced'
    BY DEF RestorePlaced
  <2>10. WaitingIsKept'
    BY <2>1, <2>2 DEF WaitingIsKept, Restorable, Effect, SessionTypeOK
  <2>11. LoopsGrounded'
    BY <2>1, <2>2 DEF LoopsGrounded, Effect
  <2> QED BY <2>3, <2>4, <2>5, <2>6, <2>7, <2>8, <2>9, <2>10, <2>11
<1> QED BY <1>1, <1>2

\* What a shutdown preserves can be restored and is armed.
LEMMA PreservedRecords ==
  ASSUME SessionTypeOK
  PROVE  /\ Preserved \in [Session -> SessionRecord] /\ PreservedSessions \subseteq Session
         /\ \A s \in PreservedSessions :
              /\ Preserved[s].armed /\ Restorable(Preserved[s]) /\ Restorable(held[s])
              /\ Preserved[s].capture = held[s].capture
              /\ Preserved[s].identity = held[s].identity
         /\ \A s \in Session \ PreservedSessions : Preserved[s] = Absent
<1>1. \A s \in Session : held[s] \in SessionRecord
  BY RecordTypes
<1>2. Absent \in SessionRecord
  BY DEF Absent, SessionRecord
<1>3. \A s \in Session : [held[s] EXCEPT !.armed = TRUE] \in SessionRecord
  BY <1>1 DEF SessionRecord
<1> QED BY <1>1, <1>2, <1>3 DEF Preserved, PreservedSessions, Restorable, SessionRecord

\* A shutdown that preserves the records, or could not, preserves the invariant.
LEMMA PreserveSessionsStep ==
  ASSUME SessionIInv, PreserveSessions
  PROVE  SessionIInv'
<1> USE DEF SessionIInv, PreserveSessions, knownVars, captureVars, restoreVars, countVars
<1>1. PICK result \in {"done", "failed"} :
        Preserve(result) /\ quit' = IF result = "done" THEN "preserved" ELSE "idle"
  OBVIOUS
<1>2. /\ Preserved \in [Session -> SessionRecord] /\ PreservedSessions \subseteq Session
      /\ \A s \in PreservedSessions :
           /\ Preserved[s].armed /\ Restorable(Preserved[s]) /\ Restorable(held[s])
           /\ Preserved[s].capture = held[s].capture
           /\ Preserved[s].identity = held[s].identity
      /\ \A s \in Session \ PreservedSessions : Preserved[s] = Absent
  BY PreservedRecords
<1>3. held' = Preserved /\ told' = result /\ frozen' = (result = "done")
  BY <1>1 DEF Preserve
<1>4. /\ saved' \in [Session -> SessionRecord] /\ saved' \in {saved, Preserved}
      /\ failedWrites' \in 0..MaxFailedWrites /\ (result = "done" => saved' = Preserved)
  BY <1>1, <1>2, WriteEffect DEF Preserve
<1>5. /\ confirmed \subseteq confirmed' /\ unsure \subseteq unsure'
      /\ PreservedSessions \subseteq confirmed' \cup unsure'
      /\ confirmed' \subseteq Session /\ unsure' \subseteq Session
      /\ unsaved' \in BOOLEAN /\ (unsaved => unsaved') /\ (frozen' \/ unsaved')
  BY ZenonT(60), <1>1, <1>2 DEF Preserve, SessionTypeOK
<1>6. SessionTypeOK'
  <2>1. \A x \in {used, awaited, attached, resumed, exits, snapshots, restores, offered, scan,
                 looking, confirmed, unsure, spent}' : x \subseteq Session
    BY <1>5 DEF SessionTypeOK
  <2> QED BY <1>1, <1>2, <1>3, <1>4, <1>5, <2>1 DEF SessionTypeOK
<1> HIDE DEF Preserved, PreservedSessions
<1>7. RegistryAsTold' /\ (doubled => unsaved)'
  BY <1>2, <1>3, <1>4, <1>5 DEF RegistryAsTold, Has
<1>8. RecordsGrounded'
  <2>1. ASSUME NEW s \in Session
        PROVE  /\ s \notin used => Preserved[s] = Absent
               /\ Preserved[s].armed => s \in confirmed' \cup unsure'
               /\ Preserved[s].capture = "pending" => Preserved[s].identity = "none"
    BY <1>2, <1>5 DEF RecordsGrounded, Restorable, Absent
  <2> QED BY <1>3, <1>4, <1>5, <2>1 DEF RecordsGrounded
<1>9. NothingBeforeLaunch'
  BY DEF NothingBeforeLaunch
<1>10. LiveAreUnarmed'
  BY <1>5 DEF LiveAreUnarmed
<1>11. ResumptionsGrounded'
  BY <1>5 DEF ResumptionsGrounded
<1>12. RestorePlaced'
  BY <1>5 DEF RestorePlaced
<1>13. WaitingIsKept'
  BY <1>2, <1>3, <1>5 DEF WaitingIsKept, SessionTypeOK, PreservedSessions
<1>14. LoopsGrounded'
  BY <1>2, <1>3 DEF LoopsGrounded, Absent
<1> QED BY <1>6, <1>7, <1>8, <1>9, <1>10, <1>11, <1>12, <1>13, <1>14

\* The next run preserves the invariant: it knows the manifest, and nothing else.
LEMMA RelaunchStep ==
  ASSUME SessionIInv, Relaunch
  PROVE  SessionIInv'
<1> USE DEF SessionIInv, Relaunch
<1>1. /\ loops' \in [CaptureLoop -> Loop] /\ \A l \in CaptureLoop : loops'[l] = NoLoop
  BY LoopTypes
<1>2. SessionTypeOK'
  <2>1. restarts' \in 0..MaxRestarts
    BY SessionBounds DEF SessionTypeOK
  <2>2. \A x \in {used, awaited, attached, resumed, exits, snapshots, restores, offered, scan,
                 looking, confirmed, unsure, spent}' : x \subseteq Session
    BY DEF SessionTypeOK
  <2>3. process' \in [Session -> {"none", "starting", "resuming", "running"}]
    OBVIOUS
  <2> QED BY <1>1, <2>1, <2>2, <2>3 DEF SessionTypeOK, Loop
<1>3. RegistryAsTold' /\ (doubled => unsaved)'
  BY DEF RegistryAsTold
<1>4. RecordsGrounded'
  BY DEF RecordsGrounded
<1>5. NothingBeforeLaunch'
  BY <1>1 DEF NothingBeforeLaunch, NoLoop
<1>6. LiveAreUnarmed'
  BY DEF LiveAreUnarmed
<1>7. ResumptionsGrounded'
  BY DEF ResumptionsGrounded
<1>8. RestorePlaced'
  BY DEF RestorePlaced
<1>9. WaitingIsKept'
  BY DEF WaitingIsKept
<1>10. LoopsGrounded'
  BY <1>1 DEF LoopsGrounded, NoLoop
<1> QED BY <1>2, <1>3, <1>4, <1>5, <1>6, <1>7, <1>8, <1>9, <1>10

\* The first run begins in the invariant.
LEMMA SessionStart ==
  ASSUME SessionInit
  PROVE  SessionIInv
<1> USE DEF SessionInit
<1>1. /\ loops \in [CaptureLoop -> Loop] /\ \A l \in CaptureLoop : loops[l] = NoLoop
  BY DEF Loop, NoLoop
<1>2. Absent \in SessionRecord
  BY DEF Absent, SessionRecord
<1>3. SessionTypeOK
  <2>1. \A x \in {used, awaited, attached, resumed, exits, snapshots, restores, offered, scan,
                 looking, confirmed, unsure, spent} : x \subseteq Session
    OBVIOUS
  <2>2. /\ restarts \in 0..MaxRestarts /\ reactivations \in 0..MaxReactivations
        /\ failedWrites \in 0..MaxFailedWrites
    BY SessionBounds
  <2> QED BY <1>1, <1>2, <2>1, <2>2 DEF SessionTypeOK, Loop
<1> QED BY <1>1, <1>3 DEF SessionIInv, RegistryAsTold, RecordsGrounded, NothingBeforeLaunch,
  LiveAreUnarmed, ResumptionsGrounded, RestorePlaced, WaitingIsKept, LoopsGrounded, NoLoop, Absent

\* A step that changes nothing preserves the invariant.
LEMMA SessionStutter ==
  ASSUME SessionIInv, UNCHANGED sessionVars
  PROVE  SessionIInv'
<1> USE DEF SessionIInv, sessionVars, registryVars, knownVars, captureVars, restoreVars,
      quitVars,
            moduleVars, countVars, historyVars
<1>1. SessionTypeOK'
  BY DEF SessionTypeOK
<1>2. RegistryAsTold' /\ (doubled => unsaved)'
  BY DEF RegistryAsTold, Has, Restorable, Absent
<1>3. RecordsGrounded'
  BY DEF RecordsGrounded, Restorable, SessionTypeOK
<1>4. NothingBeforeLaunch'
  BY DEF NothingBeforeLaunch, SessionTypeOK
<1>5. LiveAreUnarmed'
  BY DEF LiveAreUnarmed, SessionTypeOK
<1>6. ResumptionsGrounded'
  BY DEF ResumptionsGrounded, SessionTypeOK
<1>7. RestorePlaced'
  BY DEF RestorePlaced, SessionTypeOK
<1>8. WaitingIsKept'
  BY DEF WaitingIsKept, Restorable, SessionTypeOK
<1>9. LoopsGrounded'
  BY DEF LoopsGrounded, NoLoop, NoSession, SessionTypeOK
<1> QED BY <1>1, <1>2, <1>3, <1>4, <1>5, <1>6, <1>7, <1>8, <1>9

\* The invariant is one of the specification, for any sessions and loops and any number of
\* runs, reactivations and failing writes.
THEOREM SessionInvariant == SessionSpec => []SessionIInv
<1>1. SessionInit => SessionIInv
  BY SessionStart
<1>2. SessionIInv /\ [SessionNext]_sessionVars => SessionIInv'
  <2> SUFFICES ASSUME SessionIInv, [SessionNext]_sessionVars PROVE SessionIInv'
    OBVIOUS
  <2>1. CASE SessionNext
    BY <2>1, LaunchStep, SpawnStep, LaunchFailsStep, ResumeFailsStep, AttachStep,
       RestoreStep, DiscardSavedStep, ProbationStep, ExitStep, HandleExitStep,
       StopStep, RemovedStep, AdoptStep, LastAttemptStep, LastCaptureStep,
       AttemptStep, NotFoundStep, FailCaptureStep, FoundStep, ListRestorableStep,
       BeginQuitStep, PreserveSessionsStep, QuitFailsStep, ReactivateStep, RelaunchStep
          DEF SessionNext
  <2>2. CASE UNCHANGED sessionVars
    BY <2>2, SessionStutter
  <2> QED BY <2>1, <2>2
<1> QED BY <1>1, <1>2, PTL DEF SessionSpec

-----------------------------------------------------------------------------
(***************************************************************************)
(* What a reader should know.                                              *)
(***************************************************************************)

\* Every variable has its type, in any number of runs.
THEOREM SessionTypeCorrect == SessionSpec => []SessionTypeOK
BY SessionInvariant, PTL DEF SessionIInv

\* What the host keeps is as its calls said, a session is not resumed beside its own process,
\* only a confirmed shutdown arms a record, and what is offered to be restored is kept.
THEOREM SessionsAreSafe == SessionSpec => []SessionsSafe
<1>1. SessionIInv => SessionsSafe
  <2> SUFFICES ASSUME SessionIInv PROVE SessionsSafe
    OBVIOUS
  <2>1. RegistryAsTold
    BY DEF SessionIInv
  <2>2. ResumedOnce
    BY DEF SessionIInv, ResumedOnce, LiveAreUnarmed
  <2>3. ArmedByShutdown
    BY DEF SessionIInv, ArmedByShutdown, RecordsGrounded
  <2>4. OfferedIsKept
    BY DEF SessionIInv, OfferedIsKept, WaitingIsKept
  <2> QED BY <2>1, <2>2, <2>3, <2>4 DEF SessionsSafe
<1> QED BY <1>1, SessionInvariant, PTL

\* What CapturesStand says of a step.
Stands ==
  restarts' = restarts =>
    /\ \A s \in Session : Has(held, s) /\ Has(held', s) =>
         /\ held[s].identity # "none" => held'[s].identity = held[s].identity
         /\ held[s].capture = "ready" => held'[s].capture = "ready"
    /\ frozen /\ frozen' => saved' = saved

\* An operation on one session leaves captures as they were when its new record does.
LEMMA StandsAfter ==
  ASSUME NEW s \in Session, NEW r, NEW result, Effect(s, r, result),
         held'[s] # held[s] =>
           \/ r = Absent \/ held[s] = Absent
           \/ /\ held[s].identity # "none" => r.identity = held[s].identity
              /\ held[s].capture = "ready" => r.capture = "ready"
  PROVE  Stands
BY DEF Stands, Effect, Has

\* A session that is discarded, begun or armed again keeps what was captured of it.
LEMMA ChangesStand ==
  ASSUME SessionIInv, NEW s \in Session, NEW result,
         \/ Discard(s, result) \/ Rearm(s, result)
         \/ /\ held[s] = Absent
            /\ \E identity \in {"none", "own"} :
                 Mutate([held EXCEPT ![s] = Begun(identity)], TRUE, result)
  PROVE  Stands
<1> USE DEF SessionIInv
<1>1. CASE Discard(s, result)
  BY <1>1, DiscardEffect, StandsAfter
<1>2. CASE Rearm(s, result)
  <2>1. held[s] \in SessionRecord
    BY RecordTypes
  <2>2. /\ [held[s] EXCEPT !.armed = TRUE].identity = held[s].identity
        /\ [held[s] EXCEPT !.armed = TRUE].capture = held[s].capture
    BY <2>1
  <2> QED BY <1>2, <2>2, RearmEffect, StandsAfter
<1>3. ASSUME held[s] = Absent, NEW identity \in {"none", "own"},
             Mutate([held EXCEPT ![s] = Begun(identity)], TRUE, result)
      PROVE  Stands
  <2>1. Begun(identity) \in SessionRecord
    BY DEF Begun, SessionRecord
  <2>2. Effect(s, Begun(identity), result)
    BY <1>3, <2>1, MutateEffect
  <2> QED BY <1>3, <2>2, StandsAfter
<1> QED BY <1>1, <1>2, <1>3

\* A capture that is confirmed replaces no other one.
LEMMA ConfirmationStands ==
  ASSUME SessionIInv, NEW s \in Session, NEW identity \in {"own", "other"}, NEW result,
         ConfirmCapture(s, identity, result)
  PROVE  Stands
<1> DEFINE r == [capture |-> "ready", identity |-> identity, armed |-> held[s].armed]
<1>1. /\ Effect(s, r, result) /\ r.capture = "ready" /\ r.identity = identity
      /\ held'[s] # held[s] =>
           held[s].identity = "none" \/ held[s].identity = identity
  BY ConfirmEffect DEF SessionIInv, RecordsGrounded
<1> HIDE DEF r
<1> QED BY <1>1, StandsAfter

\* A capture that fails after another loop confirmed it stands.
LEMMA FailureStands ==
  ASSUME SessionIInv, NEW s \in Session, NEW result, MarkCaptureFailed(s, result)
  PROVE  Stands
<1> DEFINE r == [held[s] EXCEPT !.capture = "failed"]
<1>1. /\ Effect(s, r, result) /\ (held'[s] # held[s] => held[s].capture # "ready")
      /\ r.identity = held[s].identity
  BY MarkEffect, RecordTypes DEF SessionIInv, SessionRecord
<1> HIDE DEF r
<1> QED BY <1>1, StandsAfter

\* A session that is claimed keeps what was captured of it, and none is claimed while the
\* records are frozen.
LEMMA ClaimStands ==
  ASSUME SessionIInv, NEW s \in Session, NEW result, ClaimForRestore(s, result)
  PROVE  Stands
<1> DEFINE r == [held[s] EXCEPT !.armed = FALSE]
<1>1. /\ held' = IF result = "done" THEN [held EXCEPT ![s] = r] ELSE held
      /\ result = "refused" => saved' = saved
      /\ result # "refused" => ~frozen
  BY ClaimEffect DEF SessionIInv, Claimable
<1>2. r.identity = held[s].identity /\ r.capture = held[s].capture
  BY RecordTypes DEF SessionRecord
<1>3. held \in [Session -> SessionRecord]
  BY RecordTypes DEF SessionIInv
<1> HIDE DEF r
<1> QED BY <1>1, <1>2, <1>3 DEF Stands

\* A shutdown that preserves the records keeps what was captured, and preserves the same
\* records when it is confirmed again.
LEMMA PreservationStands ==
  ASSUME SessionIInv, NEW result, Preserve(result)
  PROVE  Stands
<1> USE DEF SessionIInv
<1>1. /\ \A s \in PreservedSessions :
           /\ Preserved[s].capture = held[s].capture
           /\ Preserved[s].identity = held[s].identity
      /\ \A s \in Session \ PreservedSessions : Preserved[s] = Absent
  BY PreservedRecords
<1>2. held' = Preserved
  BY DEF Preserve
<1>3. ASSUME frozen PROVE Preserved = saved
  <2>1. \A s \in Session : [held[s] EXCEPT !.armed = held[s].armed] = held[s]
    BY RecordTypes DEF SessionRecord
  <2>2. \A s \in Session : held[s] # Absent => Restorable(held[s]) /\ held[s].armed = TRUE
    BY <1>3, RecordTypes DEF RegistryAsTold, Has, SessionRecord
  <2>3. ~Restorable(Absent)
    BY DEF Restorable, Absent
  <2>4. \A s \in Session : Preserved[s] = held[s]
    BY <2>1, <2>2, <2>3 DEF Preserved
  <2>5. Preserved = [s \in Session |-> Preserved[s]] /\ held = [s \in Session |-> held[s]]
    BY RecordTypes DEF Preserved
  <2> QED BY <1>3, <2>4, <2>5 DEF RegistryAsTold
<1>4. frozen => saved' = saved
  BY <1>3 DEF Preserve, Write
<1> HIDE DEF Preserved, PreservedSessions
<1> QED BY <1>1, <1>2, <1>4 DEF Stands, Has

\* Every step leaves the captures of the run as they are.
LEMMA StepStands ==
  ASSUME SessionIInv, SessionNext
  PROVE  Stands
<1>1. ASSUME UNCHANGED << held, saved >> PROVE Stands
  BY <1>1 DEF Stands
<1>2. ASSUME NEW s \in Session, NEW identity \in {"none", "own"}, Launch(s, identity)
      PROVE  Stands
  BY <1>2, ChangesStand DEF Launch, SessionIInv, RecordsGrounded
<1>3. ASSUME NEW s \in Session, LaunchFails(s) \/ DiscardSaved(s) \/ Stop(s)
      PROVE  Stands
  BY <1>3, ChangesStand DEF LaunchFails, DiscardSaved, Stop
<1>4. ASSUME NEW s \in Session, ResumeFails(s) \/ HandleExit(s) PROVE Stands
  BY <1>4, ChangesStand DEF ResumeFails, HandleExit
<1>5. ASSUME NEW s \in Session, Restore(s) PROVE Stands
  BY <1>1, <1>5, ClaimStands DEF Restore, Claim, Skip, registryVars
<1>6. ASSUME NEW s \in Session, LastCapture(s) PROVE Stands
  BY <1>1, <1>6, ConfirmationStands DEF LastCapture, registryVars
<1>7. ASSUME NEW l \in CaptureLoop, NEW identity \in {"own", "other"}, Found(l, identity)
      PROVE  Stands
  BY <1>7, ConfirmationStands DEF Found, SessionIInv, LoopsGrounded
<1>8. ASSUME NEW l \in CaptureLoop, FailCapture(l) PROVE Stands
  BY <1>8, FailureStands DEF FailCapture, SessionIInv, LoopsGrounded
<1>9. CASE PreserveSessions
  BY <1>9, PreservationStands DEF PreserveSessions
<1>10. CASE Relaunch
  BY <1>10 DEF Relaunch, Stands, SessionIInv, SessionTypeOK
<1>11. ASSUME NEW s \in Session,
              \/ Spawn(s) \/ Attach(s) \/ Probation(s) \/ Exit(s) \/ Removed(s) \/ LastAttempt(s)
              \/ \E l \in CaptureLoop, from \in {"pending", "assigned"} : Adopt(s, l, from)
       PROVE  Stands
  BY <1>1, <1>11 DEF Spawn, Attach, Probation, Exit, Removed, LastAttempt, Adopt, registryVars
<1>12. ASSUME NEW l \in CaptureLoop, Attempt(l) \/ NotFound(l) PROVE Stands
  BY <1>1, <1>12 DEF Attempt, NotFound, registryVars
<1>13. CASE ListRestorable \/ BeginQuit \/ QuitFails \/ Reactivate
  BY <1>1, <1>13 DEF ListRestorable, BeginQuit, QuitFails, Reactivate, registryVars
<1> QED
  BY <1>2, <1>3, <1>4, <1>5, <1>6, <1>7, <1>8, <1>9, <1>10, <1>11, <1>12, <1>13 DEF SessionNext

\* Within a run an identity is final and a captured session stays so, in whatever order the
\* loops and the shutdown capture it and give up, and what is preserved does not change.
THEOREM CapturesAreFinal == SessionSpec => CapturesStand
<1>1. SessionIInv /\ [SessionNext]_sessionVars => [Stands]_sessionVars
  BY StepStands
<1>2. SessionSpec => [][Stands]_sessionVars
  BY <1>1, SessionInvariant, PTL DEF SessionSpec
<1> QED BY <1>2 DEF CapturesStand, Stands

\* Sessions come back after a confirmed shutdown, each once and as itself.
THEOREM SessionsComeBack == SessionSpec => SessionsComeBackOnce
<1>1. SessionSpec => [](SessionTypeOK /\ SessionsSafe)
  BY SessionTypeCorrect, SessionsAreSafe, PTL
<1> QED BY <1>1, CapturesAreFinal DEF SessionsComeBackOnce
=============================================================================
