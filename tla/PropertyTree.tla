---------------------------- MODULE PropertyTree ----------------------------
(***************************************************************************)
(* The tree of property nodes of src/props/props.cxx: paths, the cache of  *)
(* paths that every node keeps, removed children that come back.           *)
(*                                                                         *)
(* A vector of children is the set of them: their order shows in nothing   *)
(* that is looked up by name.  Whoever removes a node keeps the pointer    *)
(* that removeChild() returns, so that no node is destroyed.               *)
(***************************************************************************)
EXTENDS Integers, Sequences

CONSTANTS
  Names,     \* names of nodes
  Indices,   \* indices of nodes
  MaxNodes,  \* bound on the nodes
  Texts,     \* relative paths, as written
  Parse,     \* what parse_path() makes of a text: a sequence of components
  Bare,      \* Bare[s]: the text that is the name s
  Callers,   \* the nodes whose getNode() is called
  NoNode, NoText,
  Thrown     \* in the place of a node: getNode() threw

Nodes == 1 .. MaxNodes
Root  == 1

Component(s, i) == [name |-> s, index |-> i]
\* Only a name has an index of its own.
Components ==
  [name : Names, index : Indices] \cup [name : {"", ".", ".."}, index : Indices \cup {-1}]

ASSUME MaxNodesAssumption ==
  MaxNodes \in Nat \ {0} /\ {NoNode, Thrown} \cap Nodes = {} /\ NoNode # Thrown
ASSUME NamesAssumption    == Names \cap {"", ".", ".."} = {}
ASSUME IndicesAssumption  == 0 \in Indices /\ Indices \subseteq Nat
ASSUME ParseAssumption    == Parse \in [Texts -> Seq(Components)]
ASSUME BareAssumption     ==
  /\ Bare \in [Names -> Texts]
  /\ \A s \in Names : Parse[Bare[s]] = <<Component(s, 0)>>
ASSUME TextsAssumption    == NoText \notin Texts
ASSUME CallersAssumption  == Callers \subseteq Nodes

VARIABLES
  created,          \* the nodes there are: 1 .. created
  name, index, parent,
  children, removedChildren,
  REMOVED,          \* the nodes with this attribute
  path_cache,       \* path_cache[n][t]: what n knows for the text t
  call,             \* the getNode() in progress
  \* History:
  dropped,          \* nodes removed with keep = false
  result            \* of the last getNode()

shapeVars == <<created, name, index, parent, children, removedChildren, REMOVED>>
tree_vars == <<shapeVars, path_cache, call, dropped, result>>

Existing == 1 .. created

Idle == [at |-> NoNode]

\* key is the text to remember the result for, if any.
Walk(n, components, make, key, from) ==
  [at |-> n, rest |-> components, create |-> make, key |-> key, from |-> from]

Calls ==
  [at : Nodes, rest : Seq(Components), create : BOOLEAN,
   key : Texts \cup {NoText}, from : Nodes]

TreeTypeOK ==
  /\ created \in Nodes
  /\ name \in [Nodes -> Names \cup {""}]
  /\ index \in [Nodes -> Indices]
  /\ parent \in [Nodes -> Nodes \cup {NoNode}]
  /\ children \in [Nodes -> SUBSET Nodes]
  /\ removedChildren \in [Nodes -> SUBSET Nodes]
  /\ REMOVED \subseteq Existing
  /\ path_cache \in [Nodes -> [Texts -> Nodes \cup {NoNode}]]
  /\ call \in Calls \cup {Idle}
  /\ dropped \subseteq Existing
  /\ result \in Nodes \cup {NoNode, Thrown}

TreeInit ==
  /\ created = 1
  /\ name = [n \in Nodes |-> ""]
  /\ index = [n \in Nodes |-> 0]
  /\ parent = [n \in Nodes |-> NoNode]
  /\ children = [n \in Nodes |-> {}]
  /\ removedChildren = [n \in Nodes |-> {}]
  /\ REMOVED = {}
  /\ path_cache = [n \in Nodes |-> [t \in Texts |-> NoNode]]
  /\ call = Idle
  /\ dropped = {}
  /\ result = NoNode

-----------------------------------------------------------------------------
(* getNode() *)

Slot(p, s, i, nodes) == {n \in nodes[p] : name[n] = s /\ index[n] = i}

\* The cache answers, whatever became of the node since.
GetNodeCached(n, t) ==
  /\ call = Idle /\ n \in Existing
  /\ path_cache[n][t] # NoNode
  /\ result' = path_cache[n][t]
  /\ UNCHANGED <<shapeVars, path_cache, call, dropped>>

GetNode(n, t, make) ==
  /\ call = Idle /\ n \in Existing
  /\ path_cache[n][t] = NoNode
  /\ call' = Walk(n, Parse[t], make, t, n)
  /\ UNCHANGED <<shapeVars, path_cache, dropped, result>>

\* The index given replaces that of the last component.
WithIndex(components, i) ==
  IF components = << >> THEN << >>
  ELSE [components EXCEPT ![Len(components)].index = i]

\* Mutant: the result is remembered for the text without the index.
GetNodeIndexCached(n, t, i, make) ==
  /\ call = Idle /\ n \in Existing
  /\ call' = Walk(n, WithIndex(Parse[t], i), make, t, n)
  /\ UNCHANGED <<shapeVars, path_cache, dropped, result>>

\* This form of getNode() neither asks the cache nor adds to it.
GetNodeIndex(n, t, i, make) ==
  /\ call = Idle /\ n \in Existing
  /\ call' = Walk(n, WithIndex(Parse[t], i), make, NoText, n)
  /\ UNCHANGED <<shapeVars, path_cache, dropped, result>>

-----------------------------------------------------------------------------
(* find_node(), a component at a time *)

Walking == call.at # NoNode

NextComponent == Head(call.rest)

MoveTo(n) == call' = [call EXCEPT !.at = n, !.rest = Tail(call.rest)]

Return(n) == call' = Idle /\ result' = n

\* Past the last component.  A removed node is none, and none is not remembered.
Arrive ==
  /\ Walking /\ call.rest = << >>
  /\ LET found == IF call.at \in REMOVED THEN NoNode ELSE call.at
     IN  /\ Return(found)
         /\ path_cache' =
              IF found = NoNode \/ call.key = NoText THEN path_cache
              ELSE [path_cache EXCEPT ![call.from][call.key] = found]
  /\ UNCHANGED <<shapeVars, dropped>>

ComponentIs(s) == Walking /\ call.rest # << >> /\ NextComponent.name = s

ToRoot ==
  /\ ComponentIs("")
  /\ MoveTo(Root)
  /\ UNCHANGED <<shapeVars, path_cache, dropped, result>>

ToSelf ==
  /\ ComponentIs(".")
  /\ MoveTo(call.at)
  /\ UNCHANGED <<shapeVars, path_cache, dropped, result>>

ToParent ==
  /\ ComponentIs("..")
  /\ parent[call.at] # NoNode
  /\ MoveTo(parent[call.at])
  /\ UNCHANGED <<shapeVars, path_cache, dropped, result>>

\* "Attempt to move past root with '..'"
PastRoot ==
  /\ ComponentIs("..")
  /\ parent[call.at] = NoNode
  /\ Return(Thrown)
  /\ UNCHANGED <<shapeVars, path_cache, dropped>>

Named(nodes) == Slot(call.at, NextComponent.name, NextComponent.index, nodes)

AtName == Walking /\ call.rest # << >> /\ NextComponent.name \in Names

ToChild ==
  /\ AtName
  /\ \E n \in Named(children) : MoveTo(n)
  /\ UNCHANGED <<shapeVars, path_cache, dropped, result>>

\* Mutant: the attribute stays.
ReviveMarked ==
  /\ AtName /\ Named(children) = {} /\ call.create
  /\ \E n \in Named(removedChildren) :
       /\ removedChildren' = [removedChildren EXCEPT ![call.at] = @ \ {n}]
       /\ children' = [children EXCEPT ![call.at] = @ \cup {n}]
       /\ MoveTo(n)
  /\ UNCHANGED <<created, name, index, parent, REMOVED, path_cache, dropped, result>>

\* getChild() that creates takes back a node that was removed.
Revive ==
  /\ AtName /\ Named(children) = {} /\ call.create
  /\ \E n \in Named(removedChildren) :
       /\ removedChildren' = [removedChildren EXCEPT ![call.at] = @ \ {n}]
       /\ children' = [children EXCEPT ![call.at] = @ \cup {n}]
       /\ REMOVED' = REMOVED \ {n}
       /\ MoveTo(n)
  /\ UNCHANGED <<created, name, index, parent, path_cache, dropped, result>>

Add(n) ==
  /\ created' = n
  /\ name' = [name EXCEPT ![n] = NextComponent.name]
  /\ index' = [index EXCEPT ![n] = NextComponent.index]
  /\ parent' = [parent EXCEPT ![n] = call.at]
  /\ children' = [children EXCEPT ![call.at] = @ \cup {n}]
  /\ MoveTo(n)

New ==
  /\ AtName /\ Named(children) = {} /\ call.create /\ created < MaxNodes
  /\ Named(removedChildren) = {}
  /\ Add(created + 1)
  /\ UNCHANGED <<removedChildren, REMOVED, path_cache, dropped, result>>

\* Mutant: nothing is created.
NotThereYet ==
  /\ AtName /\ Named(children) = {}
  /\ Return(NoNode)
  /\ UNCHANGED <<shapeVars, path_cache, dropped>>

NotThere ==
  /\ AtName /\ Named(children) = {} /\ ~call.create
  /\ Return(NoNode)
  /\ UNCHANGED <<shapeVars, path_cache, dropped>>

-----------------------------------------------------------------------------
(* Removal *)

\* The names of the nodes that go are erased as they stand, without an index.
Forget(p, nodes) ==
  [path_cache EXCEPT ![p] =
     [t \in Texts |-> IF \E n \in nodes : t = Bare[name[n]] THEN NoNode ELSE @[t]]]

Keep(p, nodes, keep) ==
  IF keep THEN [removedChildren EXCEPT ![p] = @ \cup nodes] ELSE removedChildren

Erase(p, nodes, keep) ==
  /\ call = Idle
  /\ children' = [children EXCEPT ![p] = @ \ nodes]
  /\ removedChildren' = Keep(p, nodes, keep)
  /\ path_cache' = Forget(p, nodes)
  /\ REMOVED' = REMOVED \cup nodes
  /\ dropped' = IF keep THEN dropped ELSE dropped \cup nodes
  /\ UNCHANGED <<created, name, index, parent, call, result>>

\* By position, or by name and index.
RemoveChild(p, keep) == \E n \in children[p] : Erase(p, {n}, keep)

RemoveChildren(p, s, keep) ==
  LET nodes == {n \in children[p] : name[n] = s}
  IN  nodes # {} /\ Erase(p, nodes, keep)

-----------------------------------------------------------------------------

GetNodeCalls ==
  \E n \in Callers, t \in Texts :
    \/ GetNodeCached(n, t)
    \/ \E make \in BOOLEAN : GetNode(n, t, make)
    \/ \E make \in BOOLEAN, i \in Indices : GetNodeIndex(n, t, i, make)

FindNode ==
  Arrive \/ ToRoot \/ ToSelf \/ ToParent \/ PastRoot \/ ToChild \/ Revive \/ New \/ NotThere

Removals ==
  \E p \in Nodes, keep \in BOOLEAN :
    RemoveChild(p, keep) \/ \E s \in Names : RemoveChildren(p, s, keep)

TreeNext == GetNodeCalls \/ FindNode \/ Removals

TreeSpec == TreeInit /\ [][TreeNext]_tree_vars

-----------------------------------------------------------------------------
(* Properties *)

Held(p) == children[p] \cup removedChildren[p]

\* "It is guaranteed to be persistent" (props.hxx:117): no two nodes that a parent can
\* give out have the same name and index, whatever was removed and asked for again.
OneNodePerSlot ==
  \A p \in Nodes : \A m, n \in Held(p) :
    name[m] = name[n] /\ index[m] = index[n] => m = n

\* A parent never loses a node but by removeChild() with keep = false; it lists a node
\* once, as a child exactly when the node does not carry REMOVED.
NoNodeIsLost ==
  \A n \in Existing \ {Root} :
    /\ n \notin dropped => n \in Held(parent[n])
    /\ n \in children[parent[n]] <=> n \notin REMOVED
    /\ n \notin children[parent[n]] \cap removedChildren[parent[n]]

\* removeChild(), getChild() and getNode() keep a parent's lists such that a property,
\* once given out, stays what its name means (props.cxx:852-880, 913-962).
NodesAreKept == OneNodePerSlot /\ NoNodeIsLost

\* The node that a walk without the cache finds.
Find(n, components) ==
  LET at[i \in 0 .. Len(components)] ==
        IF i = 0 THEN n
        ELSE IF at[i - 1] = NoNode THEN NoNode
        ELSE CASE components[i].name = ""   -> Root
               [] components[i].name = "."  -> at[i - 1]
               [] components[i].name = ".." -> parent[at[i - 1]]
               [] OTHER ->
                    LET slot == Slot(at[i - 1], components[i].name, components[i].index, children)
                    IN  IF slot = {} THEN NoNode ELSE CHOOSE m \in slot : TRUE
      last == at[Len(components)]
  IN  IF last \in REMOVED THEN NoNode ELSE last

\* As long as removed nodes are kept, a path that was remembered leads to the node that
\* a walk finds, if a walk finds one, through any sequence of removals and returns.
CacheAgrees ==
  dropped = {} =>
    \A n \in Existing, t \in Texts :
      path_cache[n][t] # NoNode /\ Find(n, Parse[t]) # NoNode
        => path_cache[n][t] = Find(n, Parse[t])

\* What removeChild() erases from the cache is enough for bare names: a node never
\* answers its own child's name with a child that was removed.  (It may for a name with an
\* index and for a longer path.)
BareNameIsLive ==
  \A n \in Existing, s \in Names : path_cache[n][Bare[s]] \notin REMOVED

\* What getNode() answers from memory (props.cxx:1737-1762).
PathsAreRight == CacheAgrees /\ BareNameIsLive

Ancestors(n) ==
  LET up[i \in 0 .. MaxNodes] ==
        IF i = 0 THEN {n} ELSE up[i - 1] \cup {parent[m] : m \in up[i - 1] \ {NoNode}}
  IN  up[MaxNodes] \ {NoNode}

\* The setters that take a path use what getNode(path, true) returns without looking: it
\* returns a node unless the path leads past the root or was asked of a node that is
\* removed or below one.
CreateFinds ==
  [][ Walking /\ call' = Idle /\ call.create /\ Ancestors(call.from) \cap REMOVED = {}
        => result' # NoNode ]_tree_vars

=============================================================================
