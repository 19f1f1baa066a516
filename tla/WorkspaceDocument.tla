--------------------------- MODULE WorkspaceDocument ---------------------------
(***************************************************************************)
(* The document of a workspace and the commands that reduce it             *)
(* (workspace/authority.ts, document.ts): view instances, a tree of splits *)
(* whose leaves are stacks of instances, floating stacks, and the stack    *)
(* that is maximized.  One action is one command that is admitted; a batch *)
(* is a sequence of them, of which none or all are kept.  What the parser  *)
(* demands of every result is not a guard here but the property Whole.     *)
(*                                                                         *)
(* Left out: labels, shares of splits and places of floating stacks (the   *)
(* commands rename, resize-split and update-floating change nothing else), *)
(* and migration aliases, which no contributed catalog declares.           *)
(***************************************************************************)
EXTENDS Naturals, Sequences, SequencesExt, FiniteSets

CONSTANTS
  Instance,     \* identities that callers give to instances
  View,         \* view types
  HowMany,      \* of a view: "singleton", "one-per-resource" or "multiple"
  ClosesBy,     \* of a view: "hide", "dispose" or "forbid"
  Openings,     \* what callers open: an instance, a view and a resource in its scope
  Catalog,      \* the sets of views that catalogs have
  FloatId,      \* identities that callers give to floating stacks
  GivenStack,   \* node identities that callers give to floating stacks ...
  GivenNames    \* ... and, in pairs, to a split and its new stack

VARIABLES
  instances,  \* of an instance of the document: its view, resource and state
  root,       \* the tiled tree, or Empty
  floating,   \* the floating stacks, in order
  maximized,  \* the identity of the maximized stack, or NoStack
  views       \* the views of the installed catalog

docVars == << instances, root, floating, maximized, views >>

Empty == [kind |-> "none"]
NoStack == << "none" >>

\* A leaf and an inner node of the tree.
Stack(s, ids, selected) == [kind |-> "stack", id |-> s, ids |-> ids, selected |-> selected]
Split(n, axis, first, second) ==
  [kind |-> "split", id |-> n, axis |-> axis, first |-> first, second |-> second]

-----------------------------------------------------------------------------
(***************************************************************************)
(* Trees.                                                                  *)
(***************************************************************************)

\* The leaves of a tree, from first to second.
RECURSIVE Leaves(_)
Leaves(node) ==
  CASE node.kind = "none" -> << >>
    [] node.kind = "stack" -> << node >>
    [] OTHER -> Leaves(node.first) \o Leaves(node.second)

\* The identities of all nodes of a tree, in order and with repetitions.
RECURSIVE NodeIds(_)
NodeIds(node) ==
  CASE node.kind = "none" -> << >>
    [] node.kind = "stack" -> << node.id >>
    [] OTHER -> << node.id >> \o NodeIds(node.first) \o NodeIds(node.second)

\* A stack without an instance; an empty one is no node.
StackWithout(stack, i) ==
  LET ids == SelectSeq(stack.ids, LAMBDA x : x # i)
  IN  CASE ids = stack.ids -> stack
        [] ids = << >> -> Empty
        [] OTHER -> [stack EXCEPT !.ids = ids, !.selected = IF @ = i THEN Head(ids) ELSE @]

\* Mutant: a split whose first side went is dropped with its second.
RECURSIVE WithoutSibling(_, _)
WithoutSibling(node, i) ==
  CASE node.kind = "none" -> Empty
    [] node.kind = "stack" -> StackWithout(node, i)
    [] OTHER ->
         LET first == WithoutSibling(node.first, i)
             second == WithoutSibling(node.second, i)
         IN  IF first = Empty THEN Empty
             ELSE IF second = Empty THEN first
             ELSE [node EXCEPT !.first = first, !.second = second]

\* A tree without an instance: a split with one side left is that side.
RECURSIVE Without(_, _)
Without(node, i) ==
  CASE node.kind = "none" -> Empty
    [] node.kind = "stack" -> StackWithout(node, i)
    [] OTHER ->
         LET first == Without(node.first, i)
             second == Without(node.second, i)
         IN  IF first = Empty THEN second
             ELSE IF second = Empty THEN first
             ELSE [node EXCEPT !.first = first, !.second = second]

\* A tree whose stack s became another node.
RECURSIVE Replaced(_, _, _)
Replaced(node, s, new) ==
  CASE node.kind = "none" -> Empty
    [] node.kind = "stack" -> IF node.id = s THEN new ELSE node
    [] OTHER -> [node EXCEPT !.first = Replaced(@, s, new), !.second = Replaced(@, s, new)]

-----------------------------------------------------------------------------
(***************************************************************************)
(* Layouts: the tree with its floating stacks and the maximized one.       *)
(***************************************************************************)

Layout == [root |-> root, floating |-> floating, maximized |-> maximized]

FloatingStacks(layout) == [k \in DOMAIN layout.floating |-> layout.floating[k].stack]

\* Stacks in order: of the tree, then floating ones.
Stacks(layout) == Leaves(layout.root) \o FloatingStacks(layout)

StackIds(layout) == {stack.id : stack \in ToSet(Stacks(layout))}

AllNodeIds(layout) ==
  NodeIds(layout.root) \o [k \in DOMAIN layout.floating |-> layout.floating[k].stack.id]

StackAt(layout, s) == CHOOSE stack \in ToSet(Stacks(layout)) : stack.id = s

\* The stacks that have an instance: one, when it is placed.
Holding(layout, i) == {stack \in ToSet(Stacks(layout)) : i \in ToSet(stack.ids)}
Placed(layout, i) == Holding(layout, i) # {}
Home(layout, i) == CHOOSE stack \in Holding(layout, i) : TRUE

\* Mutant: the maximized stack is kept when it goes.
RemovedStaysMaximized(layout, i) ==
  [layout EXCEPT
     !.root = Without(@, i),
     !.floating = SelectSeq([k \in DOMAIN @ |-> [@[k] EXCEPT !.stack = StackWithout(@, i)]],
                            LAMBDA item : item.stack # Empty)]

\* An instance leaves; a maximized stack that goes with it is maximized no longer.
Removed(layout, i) ==
  LET left == [layout EXCEPT
        !.root = Without(@, i),
        !.floating = SelectSeq([k \in DOMAIN @ |-> [@[k] EXCEPT !.stack = StackWithout(@, i)]],
                               LAMBDA item : item.stack # Empty)]
  IN  [left EXCEPT !.maximized = IF @ \in StackIds(left) THEN @ ELSE NoStack]

\* Stack s, in the tree or floating, becomes another node.
Updated(layout, s, new) ==
  [layout EXCEPT
     !.root = Replaced(@, s, new),
     !.floating = [k \in DOMAIN @ |-> [@[k] EXCEPT !.stack = IF @.id = s THEN new ELSE @]]]

\* Instances are appended to a stack, of which one is selected.
Appended(layout, s, ids, selected) ==
  LET stack == StackAt(layout, s)
  IN  Updated(layout, s, [stack EXCEPT !.ids = @ \o ids, !.selected = selected])

\* An intent names a stack or, as NoStack, the first one, which is made when there is
\* none.
Intents(layout) == {NoStack} \cup StackIds(layout)

PlacedIn(layout, i, intent) ==
  IF intent # NoStack THEN Appended(layout, intent, << i >>, i)
  ELSE IF Stacks(layout) # << >> THEN Appended(layout, Stacks(layout)[1].id, << i >>, i)
  ELSE [layout EXCEPT !.root = Stack(<< "default", i >>, << i >>, i)]

Selected(layout, i) ==
  LET stack == Home(layout, i)
  IN  Updated(layout, stack.id, [stack EXCEPT !.selected = i])

-----------------------------------------------------------------------------
(***************************************************************************)
(* Commands.                                                               *)
(***************************************************************************)

Keep(layout) ==
  /\ root' = layout.root
  /\ floating' = layout.floating
  /\ maximized' = layout.maximized

Known == DOMAIN instances

\* Mutant: what is open is looked for by identity only.
MatchesIdentity(i, v, r) == {j \in Known : instances[j].view = v /\ j = i}

\* The instance that an open command finds instead of making one.
Matches(i, v, r) ==
  {j \in Known :
     /\ instances[j].view = v
     /\ CASE HowMany[v] = "singleton" -> TRUE
          [] HowMany[v] = "one-per-resource" -> instances[j].resource = r
          [] OTHER -> j = i}

\* A known instance is placed again when it is hidden, and selected otherwise, whatever
\* the intent is: NoStack stands for all of them then.
Show(j, intent) ==
  IF instances[j].lifecycle = "hidden"
    THEN /\ Keep(PlacedIn(Layout, j, intent))
         /\ instances' = [instances EXCEPT ![j].lifecycle = "placed"]
    ELSE intent = NoStack /\ Keep(Selected(Layout, j)) /\ UNCHANGED instances

\* A view is opened: an instance that matches is shown, whatever identity the caller
\* gave, and a new one is placed otherwise.
Open(i, v, r, intent) ==
  /\ << i, v, r >> \in Openings /\ v \in views /\ intent \in Intents(Layout)
  /\ IF Matches(i, v, r) # {}
       THEN LET j == CHOOSE j \in Matches(i, v, r) : TRUE
            IN  Show(j, intent)
       ELSE /\ i \notin Known
            /\ Keep(PlacedIn(Layout, i, intent))
            /\ instances' = [j \in Known \cup {i} |->
                 IF j = i
                   THEN [view |-> v, resource |-> r, lifecycle |-> "placed", available |-> TRUE]
                   ELSE instances[j]]
  /\ UNCHANGED views

\* A view that left the catalog is hidden, whatever it said when it was there.
Behavior(i) == IF instances[i].view \in views THEN ClosesBy[instances[i].view] ELSE "hide"

Close(i) ==
  /\ i \in Known /\ Behavior(i) # "forbid"
  /\ Keep(Removed(Layout, i))
  /\ instances' = IF Behavior(i) = "hide"
                    THEN [instances EXCEPT ![i].lifecycle = "hidden"]
                    ELSE [j \in Known \ {i} |-> instances[j]]
  /\ UNCHANGED views

Focus(i, intent) ==
  /\ i \in Known /\ intent \in Intents(Layout)
  /\ Show(i, intent)
  /\ UNCHANGED views

Select(i) ==
  /\ i \in Known /\ Placed(Layout, i)
  /\ Keep(Selected(Layout, i))
  /\ UNCHANGED << instances, views >>

\* Where an instance goes in a stack: to an end, or beside another instance of it.
Ends == {"start", "end"}
Sides == {"before", "after"}

Inserted(ids, i, position, other) ==
  LET rest == SelectSeq(ids, LAMBDA x : x # i)
  IN  IF position = "start" THEN << i >> \o rest
      ELSE IF position = "end" THEN Append(rest, i)
      ELSE LET at == CHOOSE k \in DOMAIN rest : rest[k] = other
           IN  InsertAt(rest, IF position = "before" THEN at ELSE at + 1, i)

\* The instance leaves its stack unless it is the target, and joins that.
Move(i, s, position, other) ==
  /\ Placed(Layout, i) /\ s \in StackIds(Layout)
  /\ position \in Sides => other \in ToSet(StackAt(Layout, s).ids) \ {i}
  /\ position \in Ends => other = i
  /\ LET left == IF Home(Layout, i).id = s THEN Layout ELSE Removed(Layout, i)
         stack == StackAt(left, s)
     IN  Keep(Updated(left, s, [stack EXCEPT !.ids = Inserted(@, i, position, other),
                                             !.selected = i]))
  /\ UNCHANGED << instances, views >>

\* The smallest suffix of which neither identity is used.
Allocated ==
  LET used == ToSet(AllNodeIds(Layout))
      free == {n \in 1..(Len(AllNodeIds(Layout)) + 1) :
                 << "split", n >> \notin used /\ << "stack", n >> \notin used}
      n == CHOOSE n \in free : \A k \in free : n <= k
  IN  << << "split", n >>, << "stack", n >> >>

\* An instance gets a stack of its own beside the rest of a stack of the tree.  The
\* identities of the new nodes are the caller's, or allocated.
SplitStack(i, s, position, names) ==
  LET split == names[1]
      new == names[2]
      left == Removed(Layout, i)
      own == Stack(new, << i >>, i)
      rest == StackAt(left, s)
  IN
  /\ Placed(Layout, i) /\ s \in StackIds([Layout EXCEPT !.floating = << >>])
  /\ split # new /\ {split, new} \cap ToSet(AllNodeIds(Layout)) = {}
  /\ StackAt(Layout, s).ids # << i >>
  /\ Keep(Updated(left, s, IF position = "before" THEN Split(split, "axis", own, rest)
                           ELSE Split(split, "axis", rest, own)))
  /\ UNCHANGED << instances, views >>

SplitAllocated(i, s, position) == SplitStack(i, s, position, Allocated)

\* An instance gets a floating stack of its own.
Float(i, f, s) ==
  /\ Placed(Layout, i)
  /\ s \notin ToSet(AllNodeIds(Layout))
  /\ \A k \in DOMAIN floating : floating[k].id # f
  /\ LET left == Removed(Layout, i)
     IN  Keep([left EXCEPT !.floating = Append(@, [id |-> f, stack |-> Stack(s, << i >>, i)])])
  /\ UNCHANGED << instances, views >>

\* Mutant: the floating stack that docked stays maximized.
DockMaximized(item, s) == maximized

\* Maximized is then the stack that a maximized floating one joined.
DockedMaximum(item, s) == IF maximized = item.stack.id THEN s ELSE maximized

\* A floating stack joins another stack ...
Dock(k, s) ==
  LET item == floating[k]
      left == [Layout EXCEPT !.floating = RemoveAt(@, k)]
  IN
  /\ s \in StackIds(left)
  /\ Keep(Appended([left EXCEPT !.maximized = DockedMaximum(item, s)],
                   s, item.stack.ids, item.stack.selected))
  /\ UNCHANGED << instances, views >>

\* ... or becomes the tree, when there is none.
DockAsRoot(k) ==
  /\ root = Empty
  /\ Keep([Layout EXCEPT !.root = floating[k].stack, !.floating = RemoveAt(@, k)])
  /\ UNCHANGED << instances, views >>

Maximize(s) ==
  /\ s \in StackIds(Layout)
  /\ maximized' = s
  /\ UNCHANGED << instances, root, floating, views >>

Restore ==
  /\ maximized' = NoStack
  /\ UNCHANGED << instances, root, floating, views >>

\* The default profile is empty.
Reset ==
  /\ instances' = << >> /\ root' = Empty /\ floating' = << >> /\ maximized' = NoStack
  /\ UNCHANGED views

\* An accepted catalog is installed: instances keep their places, whatever views it has.
ReconcileCatalog(new) ==
  /\ views' = new
  /\ instances' = [i \in Known |-> [instances[i] EXCEPT !.available = instances[i].view \in new]]
  /\ UNCHANGED << root, floating, maximized >>

Init ==
  /\ instances = << >> /\ root = Empty /\ floating = << >> /\ maximized = NoStack
  /\ views = {}

Next ==
  \/ \E i \in Instance :
       \/ \E o \in Openings, s \in Intents(Layout) : o[1] = i /\ Open(i, o[2], o[3], s)
       \/ Close(i)
       \/ \E s \in Intents(Layout) : Focus(i, s)
       \/ Select(i)
       \/ \E s \in StackIds(Layout), p \in Ends \cup Sides, o \in Instance : Move(i, s, p, o)
       \/ \E s \in StackIds(Layout), p \in Sides :
            \/ SplitAllocated(i, s, p)
            \/ \E names \in GivenNames : SplitStack(i, s, p, names)
       \/ \E f \in FloatId, s \in GivenStack : Float(i, f, s)
  \/ \E k \in DOMAIN floating :
       \/ \E s \in StackIds(Layout) : Dock(k, s)
       \/ DockAsRoot(k)
  \/ \E s \in StackIds(Layout) : Maximize(s)
  \/ Restore \/ Reset
  \/ \E new \in Catalog : ReconcileCatalog(new)

Spec == Init /\ [][Next]_docVars

-----------------------------------------------------------------------------
\* Instances have the fields that document.ts:138-176 demands.
TypeOK ==
  /\ Known \subseteq Instance
  /\ \A i \in Known :
       /\ << i, instances[i].view, instances[i].resource >> \in Openings
       /\ instances[i].lifecycle \in {"placed", "hidden"} /\ instances[i].available \in BOOLEAN
  /\ views \in Catalog \cup {{}}
  /\ \A k \in DOMAIN floating : floating[k].id \in FloatId /\ floating[k].stack.kind = "stack"

\* The parser admits the result of every command (document.ts:288-345): all nodes and
\* floating stacks have identities of their own, stacks are not empty and select one of
\* theirs, placed instances have one place and hidden ones none, and the maximized stack
\* exists.
Whole ==
  LET stacks == Stacks(Layout)
      placements == FlattenSeq([k \in DOMAIN stacks |-> stacks[k].ids])
      names == [k \in DOMAIN floating |-> floating[k].id]
  IN
  /\ IsInjective(AllNodeIds(Layout)) /\ IsInjective(names) /\ IsInjective(placements)
  /\ \A k \in DOMAIN stacks : stacks[k].selected \in ToSet(stacks[k].ids)
  /\ ToSet(placements) = {i \in Known : instances[i].lifecycle = "placed"}
  /\ maximized = NoStack \/ maximized \in StackIds(Layout)

\* No view has more instances than its cardinality allows (authority.ts:1126-1132).
CardinalityHolds ==
  \A i, j \in Known :
    (i # j /\ instances[i].view = instances[j].view) =>
      /\ HowMany[instances[i].view] # "singleton"
      /\ HowMany[instances[i].view] = "one-per-resource" =>
           instances[i].resource # instances[j].resource

\* Where the instances outside of a set are: the stacks that have some, in order, each
\* with the ones that it has, in order.
Places(layout, except) ==
  LET stacks == Stacks(layout)
      places == [k \in DOMAIN stacks |->
        << stacks[k].id, SelectSeq(stacks[k].ids, LAMBDA i : i \notin except) >>]
  IN  SelectSeq(places, LAMBDA place : place[2] # << >>)

\* A command moves one instance or the members of one floating stack: every other one
\* stays known and in its stack, in its order and between the same neighbours, whatever
\* goes or is made around it; only a reset clears all (authority.ts:483-633, 669-826).
OthersStay ==
  [][\/ instances' = << >>
     \/ LET docked == {ToSet(stack.ids) : stack \in ToSet(FloatingStacks(Layout))}
        IN  \E moved \in docked \cup {{i} : i \in Instance} :
              /\ Places(Layout, moved) = Places(Layout', moved)
              /\ Known \ moved \subseteq DOMAIN instances']_docVars
=============================================================================
