-------------------------- MODULE PropertyTreeProofs --------------------------
(***************************************************************************)
(* Proof that the property tree keeps its nodes, that what a node          *)
(* remembers of paths is right, and that a getNode() that creates returns  *)
(* a node, for any paths, any names and any number of nodes.  The lists of *)
(* a parent are right only together with the parents that the nodes name,  *)
(* the cache only with the way that a getNode() in progress has gone.      *)
(* Then that a value is read as it was set, for any numbers and texts and  *)
(* any chains of aliases: a node holds what its type says, and an alias    *)
(* stands for an earlier node, so that every chain ends.                   *)
(***************************************************************************)
EXTENDS PropertyTree, PropertyNode, SequenceLemmas, TLAPS

\* Who is listed by whom.
Shape ==
  /\ \A p \in Nodes : \A n \in Held(p) : n \in Existing \ {Root} /\ parent[n] = p
  /\ \A n \in Existing \ {Root} : parent[n] \in Nodes

TreeInv == TreeTypeOK /\ Shape /\ NodesAreKept

LEMMA RootIsNode == Root \in Nodes /\ Nodes \subseteq Nat
BY MaxNodesAssumption DEF Root, Nodes

-----------------------------------------------------------------------------
(* A getNode() in progress *)

\* It is at a node, and goes on with a component of the path.
LEMMA WalkingIsCall ==
  ASSUME TreeTypeOK, Walking
  PROVE  call \in Calls
<1>1. Idle.at = NoNode
  BY DEF Idle
<1>2. call # Idle
  BY <1>1 DEF Walking
<1>3. QED
  BY <1>2 DEF TreeTypeOK

LEMMA NextIsComponent ==
  ASSUME TreeTypeOK, Walking, call.rest # << >>
  PROVE  /\ NextComponent \in Components
         /\ Tail(call.rest) \in Seq(Components)
         /\ NextComponent.name \in Names => NextComponent.index \in Indices
<1>1. call.rest \in Seq(Components)
  BY WalkingIsCall DEF Calls
<1>2. NextComponent \in Components /\ Tail(call.rest) \in Seq(Components)
  BY <1>1 DEF NextComponent
<1>3. QED
  BY <1>2, NamesAssumption DEF Components

LEMMA MoveIsCall ==
  ASSUME TreeTypeOK, Walking, call.rest # << >>, NEW n \in Nodes, MoveTo(n)
  PROVE  /\ call' \in Calls
         /\ call' = [call EXCEPT !.at = n, !.rest = Tail(call.rest)]
BY WalkingIsCall, NextIsComponent DEF MoveTo, Calls

\* The steps that leave every list of children as it is.
Looks ==
  \/ GetNodeCalls
  \/ Arrive \/ ToRoot \/ ToSelf \/ ToParent \/ PastRoot \/ ToChild \/ NotThere

LEMMA LookKeepsShape ==
  ASSUME Looks
  PROVE  UNCHANGED shapeVars /\ UNCHANGED dropped
BY DEF Looks, GetNodeCalls, GetNodeCached, GetNode, GetNodeIndex, Arrive, ToRoot, ToSelf,
       ToParent, PastRoot, ToChild, NotThere

LEMMA WithIndexIsPath ==
  ASSUME NEW path \in Seq(Components), NEW i \in Indices
  PROVE  WithIndex(path, i) \in Seq(Components)
<1>1. CASE path = << >>
  BY <1>1 DEF WithIndex
<1>2. CASE path # << >>
  <2>1. Len(path) \in DOMAIN path /\ path[Len(path)] \in Components
    BY <1>2
  <2>2. [path[Len(path)] EXCEPT !.index = i] \in Components
    <3>1. CASE path[Len(path)] \in [name : Names, index : Indices]
      BY <3>1 DEF Components
    <3>2. CASE path[Len(path)] \in [name : {"", ".", ".."}, index : Indices \cup {-1}]
      BY <3>2 DEF Components
    <3>3. QED
      BY <2>1, <3>1, <3>2 DEF Components
  <2>3. WithIndex(path, i) = [path EXCEPT ![Len(path)] = [path[Len(path)] EXCEPT !.index = i]]
    BY <1>2 DEF WithIndex
  <2> DEFINE last == [path[Len(path)] EXCEPT !.index = i]
  <2> HIDE DEF last
  <2>4. [path EXCEPT ![Len(path)] = last] \in Seq(Components)
    <3>1. last \in Components
      BY <2>2 DEF last
    <3>2. QED
      BY <2>1, <3>1
  <2>5. QED
    BY <2>3, <2>4 DEF last
<1>3. QED
  BY <1>1, <1>2

\* A getNode() begins with a node, a path and an empty or a real key.
LEMMA BeginsWell ==
  ASSUME TreeTypeOK, GetNodeCalls
  PROVE  /\ call' \in Calls \cup {Idle}
         /\ path_cache' = path_cache
         /\ result' \in Nodes \cup {NoNode, Thrown}
<1>1. PICK n \in Callers, t \in Texts :
        \/ GetNodeCached(n, t)
        \/ \E make \in BOOLEAN : GetNode(n, t, make)
        \/ \E make \in BOOLEAN, i \in Indices : GetNodeIndex(n, t, i, make)
  BY DEF GetNodeCalls
<1>2. n \in Nodes /\ Parse[t] \in Seq(Components)
  BY CallersAssumption, ParseAssumption
<1>3. CASE GetNodeCached(n, t)
  <2>1. path_cache \in [Nodes -> [Texts -> Nodes \cup {NoNode}]] /\ t \in Texts
    BY DEF TreeTypeOK
  <2>2. path_cache[n] \in [Texts -> Nodes \cup {NoNode}]
    BY <1>2, <2>1
  <2>3. path_cache[n][t] \in Nodes \cup {NoNode}
    BY <2>1, <2>2
  <2>4. QED
    BY <1>3, <2>3 DEF GetNodeCached, TreeTypeOK
<1>4. CASE \E make \in BOOLEAN : GetNode(n, t, make)
  <2>1. PICK make \in BOOLEAN : GetNode(n, t, make)
    BY <1>4
  <2>2. call' = Walk(n, Parse[t], make, t, n) /\ path_cache' = path_cache /\ result' = result
    BY <2>1 DEF GetNode
  <2>3. Walk(n, Parse[t], make, t, n) \in Calls
    BY <1>2 DEF Walk, Calls
  <2>4. QED
    BY <2>2, <2>3 DEF TreeTypeOK
<1>5. CASE \E make \in BOOLEAN, i \in Indices : GetNodeIndex(n, t, i, make)
  <2>1. PICK make \in BOOLEAN, i \in Indices : GetNodeIndex(n, t, i, make)
    BY <1>5
  <2>2. WithIndex(Parse[t], i) \in Seq(Components)
    BY <1>2, WithIndexIsPath
  <2>3. Walk(n, WithIndex(Parse[t], i), make, NoText, n) \in Calls
    BY <1>2, <2>2 DEF Walk, Calls
  <2>4. /\ call' = Walk(n, WithIndex(Parse[t], i), make, NoText, n)
        /\ path_cache' = path_cache /\ result' = result
    BY <2>1 DEF GetNodeIndex
  <2>5. QED
    BY <2>3, <2>4 DEF TreeTypeOK
<1>6. QED
  BY <1>1, <1>3, <1>4, <1>5

LEMMA LookKeepsTypes ==
  ASSUME TreeTypeOK, Looks
  PROVE  TreeTypeOK'
<1>1. UNCHANGED <<created, name, index, parent, children, removedChildren, REMOVED, dropped>>
  BY LookKeepsShape DEF shapeVars
<1> SUFFICES /\ call' \in Calls \cup {Idle}
             /\ path_cache' \in [Nodes -> [Texts -> Nodes \cup {NoNode}]]
             /\ result' \in Nodes \cup {NoNode, Thrown}
  BY <1>1 DEF TreeTypeOK, Existing
<1>2. CASE GetNodeCalls
  BY <1>2, BeginsWell DEF TreeTypeOK
<1>3. CASE Arrive
  <2>1. call \in Calls /\ call' = Idle
    BY <1>3, WalkingIsCall DEF Arrive, Return
  <2>2. PICK found \in {NoNode, call.at} :
          /\ result' = found
          /\ path_cache' = IF found = NoNode \/ call.key = NoText THEN path_cache
                           ELSE [path_cache EXCEPT ![call.from][call.key] = found]
    BY <1>3 DEF Arrive, Return
  <2>3. found \in Nodes \cup {NoNode}
    BY <2>1, <2>2 DEF Calls
  <2>4. CASE found = NoNode \/ call.key = NoText
    BY <2>1, <2>2, <2>3, <2>4 DEF TreeTypeOK
  <2>5. CASE ~(found = NoNode \/ call.key = NoText)
    <3>1. call.from \in Nodes /\ call.key \in Texts
      BY <2>1, <2>5 DEF Calls
    <3>2. path_cache[call.from] \in [Texts -> Nodes \cup {NoNode}]
      BY <3>1 DEF TreeTypeOK
    <3>3. path_cache' =
            [path_cache EXCEPT ![call.from] = [path_cache[call.from] EXCEPT ![call.key] = found]]
      BY <2>2, <2>5
    <3>4. path_cache' \in [Nodes -> [Texts -> Nodes \cup {NoNode}]]
      BY <2>3, <3>1, <3>2, <3>3 DEF TreeTypeOK
    <3>5. QED
      BY <2>1, <2>2, <2>3, <3>4
  <2>6. QED
    BY <2>4, <2>5
<1>4. CASE ToRoot
  BY <1>4, RootIsNode, MoveIsCall DEF ToRoot, ComponentIs, TreeTypeOK
<1>5. CASE ToSelf
  <2>1. call.at \in Nodes
    BY <1>5, WalkingIsCall DEF ToSelf, ComponentIs, Calls
  <2>2. QED
    BY <1>5, <2>1, MoveIsCall DEF ToSelf, ComponentIs, TreeTypeOK
<1>6. CASE ToParent
  <2>1. call.at \in Nodes
    BY <1>6, WalkingIsCall DEF ToParent, ComponentIs, Calls
  <2>2. parent[call.at] \in Nodes
    BY <1>6, <2>1 DEF ToParent, TreeTypeOK
  <2>3. QED
    BY <1>6, <2>2, MoveIsCall DEF ToParent, ComponentIs, TreeTypeOK
<1>7. CASE PastRoot \/ NotThere
  BY <1>7 DEF PastRoot, NotThere, Return, TreeTypeOK
<1>8. CASE ToChild
  <2>1. PICK n \in Named(children) : MoveTo(n)
    BY <1>8 DEF ToChild
  <2>2. call.at \in Nodes
    BY <1>8, WalkingIsCall DEF ToChild, AtName, Calls
  <2>3. n \in Nodes
    BY <2>1, <2>2 DEF Named, Slot, TreeTypeOK
  <2>4. QED
    BY <1>8, <2>1, <2>3, MoveIsCall DEF ToChild, AtName, TreeTypeOK
<1>9. QED
  BY <1>2, <1>3, <1>4, <1>5, <1>6, <1>7, <1>8 DEF Looks

LEMMA LookKeeps ==
  ASSUME TreeInv, Looks
  PROVE  TreeInv'
<1>1. UNCHANGED <<created, name, index, parent, children, removedChildren, REMOVED, dropped>>
  BY LookKeepsShape DEF shapeVars
<1>2. Shape' /\ NodesAreKept'
  BY <1>1 DEF TreeInv, Shape, NodesAreKept, OneNodePerSlot, NoNodeIsLost, Held, Existing
<1>3. QED
  BY <1>2, LookKeepsTypes DEF TreeInv

-----------------------------------------------------------------------------
(* The steps that change the lists *)

\* Where a walk stands, and that no node is in both of its lists.
LEMMA AtNode ==
  ASSUME TreeInv, AtName
  PROVE  /\ call.at \in Nodes
         /\ children[call.at] \subseteq Nodes /\ removedChildren[call.at] \subseteq Nodes
         /\ NextComponent.name \in Names /\ NextComponent.index \in Indices
         /\ created \in Nodes /\ created \in Nat
<1>1. call \in Calls
  BY WalkingIsCall DEF TreeInv, AtName
<1>2. call.at \in Nodes
  BY <1>1 DEF Calls
<1>3. NextComponent.name \in Names /\ NextComponent.index \in Indices
  BY NextIsComponent DEF TreeInv, AtName
<1>4. QED
  BY <1>2, <1>3, RootIsNode DEF TreeInv, TreeTypeOK

LEMMA ReviveKeeps ==
  ASSUME TreeInv, Revive
  PROVE  TreeInv'
<1> DEFINE p == call.at
<1>1. PICK n \in Named(removedChildren) :
        /\ removedChildren' = [removedChildren EXCEPT ![p] = @ \ {n}]
        /\ children' = [children EXCEPT ![p] = @ \cup {n}]
        /\ REMOVED' = REMOVED \ {n}
        /\ MoveTo(n)
  BY DEF Revive
<1>2. AtName /\ UNCHANGED <<created, name, index, parent, path_cache, dropped, result>>
  BY DEF Revive
<1>3. p \in Nodes /\ n \in Nodes /\ n \in removedChildren[p]
  BY <1>1, <1>2, AtNode DEF Named, Slot
<1>4. n \in Existing \ {Root} /\ parent[n] = p
  BY <1>3 DEF TreeInv, Shape, Held
<1>5. TreeTypeOK'
  <2>1. call' \in Calls
    BY <1>1, <1>2, <1>3, MoveIsCall DEF AtName, TreeInv
  <2>2. children' \in [Nodes -> SUBSET Nodes] /\ removedChildren' \in [Nodes -> SUBSET Nodes]
    BY <1>1, <1>3 DEF TreeInv, TreeTypeOK
  <2>3. QED
    BY <1>1, <1>2, <2>1, <2>2 DEF TreeInv, TreeTypeOK, Existing
<1>6. \A q \in Nodes : Held(q)' = Held(q)
  <2>1. \A q \in Nodes : q # p => children'[q] = children[q] /\ removedChildren'[q] = removedChildren[q]
    BY <1>1, <1>3 DEF TreeInv, TreeTypeOK
  <2>2. children'[p] = children[p] \cup {n} /\ removedChildren'[p] = removedChildren[p] \ {n}
    BY <1>1, <1>3 DEF TreeInv, TreeTypeOK
  <2>3. QED
    BY <1>3, <2>1, <2>2 DEF Held
<1>7. Shape' /\ OneNodePerSlot'
  BY <1>2, <1>6 DEF TreeInv, Shape, NodesAreKept, OneNodePerSlot, Existing
<1>8. NoNodeIsLost'
  <2> SUFFICES ASSUME NEW m \in Existing \ {Root}
               PROVE  /\ m \notin dropped => m \in Held(parent[m])'
                      /\ m \in children'[parent[m]] <=> m \notin REMOVED'
                      /\ m \notin children'[parent[m]] \cap removedChildren'[parent[m]]
    BY <1>2 DEF NoNodeIsLost, Existing
  <2>1. parent[m] \in Nodes
    BY DEF TreeInv, Shape
  <2>2. /\ m \notin dropped => m \in Held(parent[m])
        /\ m \in children[parent[m]] <=> m \notin REMOVED
        /\ m \notin children[parent[m]] \cap removedChildren[parent[m]]
    BY DEF TreeInv, NodesAreKept, NoNodeIsLost
  <2>3. m \notin dropped => m \in Held(parent[m])'
    BY <1>2, <1>6, <2>1, <2>2
  <2>4. CASE m = n
    BY <1>1, <1>3, <1>4, <2>3, <2>4 DEF TreeInv, TreeTypeOK
  <2>5. CASE m # n
    <3>1. /\ m \in children'[parent[m]] <=> m \in children[parent[m]]
          /\ m \in removedChildren'[parent[m]] <=> m \in removedChildren[parent[m]]
      BY <1>1, <1>3, <2>1, <2>5 DEF TreeInv, TreeTypeOK
    <3>2. QED
      BY <1>1, <2>2, <2>3, <2>5, <3>1
  <2>6. QED
    BY <2>4, <2>5
<1>9. QED
  BY <1>5, <1>7, <1>8 DEF TreeInv, NodesAreKept

LEMMA NewKeeps ==
  ASSUME TreeInv, New
  PROVE  TreeInv'
<1>0. PICK p, n \in Nodes : p = call.at /\ n = created + 1
  BY AtNode, MaxNodesAssumption DEF New, Nodes
<1>1. AtName /\ created < MaxNodes /\ Named(children) = {} /\ Named(removedChildren) = {}
  BY DEF New
<1>2. /\ created' = n
      /\ name' = [name EXCEPT ![n] = NextComponent.name]
      /\ index' = [index EXCEPT ![n] = NextComponent.index]
      /\ parent' = [parent EXCEPT ![n] = p]
      /\ children' = [children EXCEPT ![p] = @ \cup {n}]
      /\ MoveTo(n)
      /\ UNCHANGED <<removedChildren, REMOVED, path_cache, dropped, result>>
  BY <1>0 DEF New, Add
<1>3. p \in Nodes /\ created \in Nat /\ n \in Nodes /\ n \notin Existing /\ n # Root
  BY <1>0, <1>1, AtNode, MaxNodesAssumption DEF Nodes, Existing, Root
<1>4. Existing' = Existing \cup {n}
  BY <1>0, <1>2, <1>3 DEF Existing
<1>5. TreeTypeOK'
  <2>1. call' \in Calls
    BY <1>1, <1>2, <1>3, MoveIsCall DEF AtName, TreeInv
  <2>2. children' \in [Nodes -> SUBSET Nodes] /\ parent' \in [Nodes -> Nodes \cup {NoNode}]
    BY <1>2, <1>3 DEF TreeInv, TreeTypeOK
  <2>3. name' \in [Nodes -> Names \cup {""}] /\ index' \in [Nodes -> Indices]
    BY <1>1, <1>2, <1>3, AtNode DEF TreeInv, TreeTypeOK
  <2>4. REMOVED' \subseteq Existing' /\ dropped' \subseteq Existing'
    BY <1>2, <1>4 DEF TreeInv, TreeTypeOK
  <2>5. QED
    BY <1>2, <1>3, <2>1, <2>2, <2>3, <2>4 DEF TreeInv, TreeTypeOK
<1>6. Held(p)' = Held(p) \cup {n} /\ \A q \in Nodes \ {p} : Held(q)' = Held(q)
  BY <1>2, <1>3 DEF TreeInv, TreeTypeOK, Held
<1>7. \A m \in Existing : m \in Nodes /\ m # n /\ parent'[m] = parent[m]
                          /\ name'[m] = name[m] /\ index'[m] = index[m]
  <2>1. \A m \in Existing : m \in Nodes /\ m # n
    BY <1>3, MaxNodesAssumption DEF Existing, Nodes
  <2>2. QED
    BY <1>2, <1>3, <2>1 DEF TreeInv, TreeTypeOK
<1>8. parent'[n] = p /\ name'[n] = NextComponent.name /\ index'[n] = NextComponent.index
  BY <1>2, <1>3 DEF TreeInv, TreeTypeOK
<1>9. Shape'
  <2>1. ASSUME NEW q \in Nodes, NEW m \in Held(q)'
        PROVE  m \in Existing' \ {Root} /\ parent'[m] = q
    <3>1. CASE m \in Held(q)
      BY <1>4, <1>7, <3>1 DEF TreeInv, Shape
    <3>2. CASE m \notin Held(q)
      BY <1>3, <1>4, <1>6, <1>8, <3>2
    <3>3. QED
      BY <3>1, <3>2
  <2>2. ASSUME NEW m \in Existing' \ {Root}
        PROVE  parent'[m] \in Nodes
    BY <1>3, <1>4, <1>7, <1>8 DEF TreeInv, Shape
  <2>3. QED
    BY <2>1, <2>2 DEF Shape
<1>10. OneNodePerSlot'
  <2> SUFFICES ASSUME NEW q \in Nodes, NEW l \in Held(q)', NEW m \in Held(q)',
                      name'[l] = name'[m], index'[l] = index'[m]
               PROVE  l = m
    BY DEF OneNodePerSlot
  <2>1. \A k \in Held(q) : k \in Existing
    BY DEF TreeInv, Shape
  <2>2. \A k \in Held(p) : ~(name[k] = NextComponent.name /\ index[k] = NextComponent.index)
    BY <1>0, <1>1 DEF Named, Slot, Held
  <2>3. CASE q # p
    BY <1>6, <1>7, <2>1, <2>3 DEF TreeInv, NodesAreKept, OneNodePerSlot
  <2>4. CASE q = p
    <3>1. CASE l \in Held(p) /\ m \in Held(p)
      BY <1>7, <2>1, <2>4, <3>1 DEF TreeInv, NodesAreKept, OneNodePerSlot
    <3>2. CASE l = n /\ m \in Held(p)
      BY <1>7, <1>8, <2>1, <2>2, <2>4, <3>2
    <3>3. CASE m = n /\ l \in Held(p)
      BY <1>7, <1>8, <2>1, <2>2, <2>4, <3>3
    <3>4. QED
      BY <1>6, <2>4, <3>1, <3>2, <3>3
  <2>5. QED
    BY <2>3, <2>4
<1>11. NoNodeIsLost'
  <2> SUFFICES ASSUME NEW m \in Existing' \ {Root}
               PROVE  /\ m \notin dropped' => m \in Held(parent[m])'
                      /\ m \in children'[parent'[m]] <=> m \notin REMOVED'
                      /\ m \notin children'[parent'[m]] \cap removedChildren'[parent'[m]]
    BY DEF NoNodeIsLost
  <2>1. CASE m = n
    <3>1. n \notin REMOVED /\ n \notin removedChildren[p]
      BY <1>3 DEF TreeInv, TreeTypeOK, Shape, Held
    <3>2. n \in children'[p]
      BY <1>2, <1>3 DEF TreeInv, TreeTypeOK
    <3>3. QED
      BY <1>2, <1>6, <1>8, <2>1, <3>1, <3>2
  <2>2. CASE m # n
    <3>1. m \in Existing \ {Root} /\ parent'[m] = parent[m]
      BY <1>4, <1>7, <2>2
    <3>2. PICK q \in Nodes : q = parent[m] /\ q = parent'[m]
      BY <3>1 DEF TreeInv, Shape
    <3>3. /\ m \notin dropped => m \in Held(q)
          /\ m \in children[q] <=> m \notin REMOVED
          /\ m \notin children[q] \cap removedChildren[q]
      BY <3>1, <3>2 DEF TreeInv, NodesAreKept, NoNodeIsLost
    <3>4. m \in children'[q] <=> m \in children[q]
      BY <1>2, <1>3, <2>2, <3>2 DEF TreeInv, TreeTypeOK
    <3>5. Held(q) \subseteq Held(q)' /\ Held(parent[m])' = Held(q)'
      BY <1>6, <3>2
    <3>6. QED
      BY <1>2, <3>2, <3>3, <3>4, <3>5
  <2>3. QED
    BY <2>1, <2>2
<1>12. QED
  BY <1>5, <1>9, <1>10, <1>11 DEF TreeInv, NodesAreKept

LEMMA EraseKeeps ==
  ASSUME TreeInv, NEW p \in Nodes, NEW nodes \in SUBSET children[p], NEW keep \in BOOLEAN,
         Erase(p, nodes, keep)
  PROVE  TreeInv'
<1>1. /\ call = Idle
      /\ children' = [children EXCEPT ![p] = @ \ nodes]
      /\ removedChildren' = IF keep THEN [removedChildren EXCEPT ![p] = @ \cup nodes]
                            ELSE removedChildren
      /\ path_cache' = Forget(p, nodes)
      /\ REMOVED' = REMOVED \cup nodes
      /\ dropped' = IF keep THEN dropped ELSE dropped \cup nodes
      /\ UNCHANGED <<created, name, index, parent, call, result>>
  BY DEF Erase, Keep
<1>2. nodes \subseteq Existing \ {Root} /\ \A n \in nodes : parent[n] = p
  BY DEF TreeInv, Shape, Held
<1>3. nodes \subseteq Nodes
  BY DEF TreeInv, TreeTypeOK
<1>4. \A q \in Nodes : q # p => children'[q] = children[q] /\ removedChildren'[q] = removedChildren[q]
  BY <1>1 DEF TreeInv, TreeTypeOK
<1>5. /\ children'[p] = children[p] \ nodes
      /\ removedChildren'[p] = IF keep THEN removedChildren[p] \cup nodes ELSE removedChildren[p]
  BY <1>1 DEF TreeInv, TreeTypeOK
<1>6. TreeTypeOK'
  <2>1. children' \in [Nodes -> SUBSET Nodes] /\ removedChildren' \in [Nodes -> SUBSET Nodes]
    BY <1>1, <1>3 DEF TreeInv, TreeTypeOK
  <2>2. Forget(p, nodes) \in [Nodes -> [Texts -> Nodes \cup {NoNode}]]
    BY DEF TreeInv, TreeTypeOK, Forget
  <2>3. REMOVED' \subseteq Existing /\ dropped' \subseteq Existing
    BY <1>1, <1>2 DEF TreeInv, TreeTypeOK
  <2>4. QED
    BY <1>1, <2>1, <2>2, <2>3 DEF TreeInv, TreeTypeOK, Existing
<1>7. \A q \in Nodes : Held(q)' \subseteq Held(q)
  BY <1>4, <1>5 DEF Held
<1>8. Shape' /\ OneNodePerSlot'
  BY <1>1, <1>7 DEF TreeInv, Shape, NodesAreKept, OneNodePerSlot, Existing
<1>9. NoNodeIsLost'
  <2> SUFFICES ASSUME NEW m \in Existing \ {Root}
               PROVE  /\ m \notin dropped' => m \in Held(parent[m])'
                      /\ m \in children'[parent[m]] <=> m \notin REMOVED'
                      /\ m \notin children'[parent[m]] \cap removedChildren'[parent[m]]
    BY <1>1 DEF NoNodeIsLost, Existing
  <2>1. parent[m] \in Nodes
    BY DEF TreeInv, Shape
  <2>2. /\ m \notin dropped => m \in Held(parent[m])
        /\ m \in children[parent[m]] <=> m \notin REMOVED
        /\ m \notin children[parent[m]] \cap removedChildren[parent[m]]
    BY DEF TreeInv, NodesAreKept, NoNodeIsLost
  <2>3. CASE m \in nodes
    BY <1>1, <1>2, <1>5, <2>2, <2>3 DEF Held
  <2>4. CASE m \notin nodes
    <3>1. CASE parent[m] = p
      BY <1>1, <1>5, <2>2, <2>4, <3>1 DEF Held
    <3>2. CASE parent[m] # p
      BY <1>1, <1>4, <2>1, <2>2, <2>4, <3>2 DEF Held
    <3>3. QED
      BY <3>1, <3>2
  <2>5. QED
    BY <2>3, <2>4
<1>10. QED
  BY <1>6, <1>8, <1>9 DEF TreeInv, NodesAreKept

LEMMA TreeStarts ==
  ASSUME TreeInit
  PROVE  TreeInv
<1>1. /\ created = 1
      /\ name = [n \in Nodes |-> ""] /\ index = [n \in Nodes |-> 0]
      /\ parent = [n \in Nodes |-> NoNode]
      /\ children = [n \in Nodes |-> {}] /\ removedChildren = [n \in Nodes |-> {}]
      /\ REMOVED = {} /\ dropped = {} /\ call = Idle /\ result = NoNode
      /\ path_cache = [n \in Nodes |-> [t \in Texts |-> NoNode]]
  BY DEF TreeInit
<1>2. 1 \in Nodes
  BY RootIsNode DEF Root
<1>3. TreeTypeOK
  BY <1>1, <1>2, IndicesAssumption DEF TreeTypeOK
<1>4. Existing \ {Root} = {}
  <2>1. created = 1
    BY <1>1
  <2>2. \A m \in 1 .. 1 : m = 1
    OBVIOUS
  <2>3. QED
    BY <2>1, <2>2 DEF Existing, Root
<1>5. \A p \in Nodes : Held(p) = {}
  BY <1>1 DEF Held
<1>6. QED
  BY <1>3, <1>4, <1>5 DEF TreeInv, Shape, NodesAreKept, OneNodePerSlot, NoNodeIsLost

LEMMA TreeStep ==
  ASSUME TreeInv, TreeNext
  PROVE  TreeInv'
<1>1. CASE Removals
  <2>1. PICK p \in Nodes, keep \in BOOLEAN :
          RemoveChild(p, keep) \/ \E s \in Names : RemoveChildren(p, s, keep)
    BY <1>1 DEF Removals
  <2>2. PICK nodes \in SUBSET children[p] : Erase(p, nodes, keep)
    BY <2>1 DEF RemoveChild, RemoveChildren
  <2>3. QED
    BY <2>2, EraseKeeps
<1>2. CASE Looks
  BY <1>2, LookKeeps
<1>3. CASE Revive
  BY <1>3, ReviveKeeps
<1>4. CASE New
  BY <1>4, NewKeeps
<1>5. QED
  BY <1>1, <1>2, <1>3, <1>4 DEF TreeNext, FindNode, Looks

LEMMA TreeStutters ==
  ASSUME TreeInv, UNCHANGED tree_vars
  PROVE  TreeInv'
<1>1. /\ UNCHANGED <<created, name, index, parent, children, removedChildren, REMOVED>>
      /\ UNCHANGED <<path_cache, call, dropped, result>>
  BY DEF tree_vars, shapeVars
<1>2. TreeTypeOK'
  BY <1>1 DEF TreeInv, TreeTypeOK, Existing
<1>3. Shape' /\ OneNodePerSlot'
  BY <1>1 DEF TreeInv, Shape, NodesAreKept, OneNodePerSlot, Held, Existing
<1>4. NoNodeIsLost'
  BY <1>1 DEF TreeInv, NodesAreKept, NoNodeIsLost, Held, Existing
<1>5. QED
  BY <1>2, <1>3, <1>4 DEF TreeInv, NodesAreKept

\* Every list, parent and cache entry is a node, and a call in progress is at one.
THEOREM Tree_Invariant == TreeSpec => []TreeInv
<1>1. TreeInit => TreeInv
  BY TreeStarts
<1>2. TreeInv /\ [TreeNext]_tree_vars => TreeInv'
  BY TreeStep, TreeStutters
<1>3. QED
  BY <1>1, <1>2, PTL DEF TreeSpec

\* Whatever is removed, kept, dropped and asked for again, a parent has one node for a name
\* and index, loses none but by removeChild() with keep = false, and lists as children
\* exactly those without the attribute REMOVED.
THEOREM Nodes_AreKept == TreeSpec => []NodesAreKept
<1>1. TreeInv => NodesAreKept
  BY DEF TreeInv
<1>2. QED
  BY <1>1, Tree_Invariant, PTL

-----------------------------------------------------------------------------
(* What is remembered for a bare name *)

IsChild(m, p, s) == m \in children[p] /\ name[m] = s

\* A walk along a bare name has not begun, or stands at the child of that name.
OnItsWay ==
  \A s \in Names :
    Walking /\ call.key = Bare[s] =>
      \/ call.at = call.from /\ call.rest = <<Component(s, 0)>>
      \/ IsChild(call.at, call.from, s) /\ call.rest = << >>

\* What is remembered for a bare name is a child of that name.
Remembers ==
  \A p \in Nodes, s \in Names :
    path_cache[p][Bare[s]] # NoNode => IsChild(path_cache[p][Bare[s]], p, s)

LEMMA OneComponent ==
  ASSUME NEW s \in Names
  PROVE  /\ Bare[s] \in Texts /\ Bare[s] # NoText
         /\ Parse[Bare[s]] = <<Component(s, 0)>>
         /\ <<Component(s, 0)>> # << >>
         /\ Head(<<Component(s, 0)>>).name = s
         /\ Tail(<<Component(s, 0)>>) = << >>
         /\ s \notin {"", ".", ".."}
<1>1. Component(s, 0).name = s
  BY DEF Component
<1>2. Bare[s] \in Texts /\ Parse[Bare[s]] = <<Component(s, 0)>>
  BY BareAssumption
<1>3. Bare[s] # NoText
  BY <1>2, TextsAssumption
<1>4. s \notin {"", ".", ".."}
  BY NamesAssumption
<1> DEFINE c == Component(s, 0)
<1> HIDE DEF c
<1>5. <<c>> # << >> /\ Head(<<c>>) = c /\ Tail(<<c>>) = << >>
  OBVIOUS
<1>6. QED
  BY <1>1, <1>2, <1>3, <1>4, <1>5 DEF c

\* A walk that goes on keeps its key, and one that goes on by a bare name goes to a child.
LEMMA WalkOn ==
  ASSUME TreeInv, OnItsWay, Walking, call.rest # << >>, NEW n \in Nodes, MoveTo(n),
         \A s \in Names : NextComponent.name = s => n \in children'[call.at] /\ name'[n] = s
  PROVE  OnItsWay'
<1>1. call \in Calls /\ call' = [call EXCEPT !.at = n, !.rest = Tail(call.rest)]
  BY WalkingIsCall, MoveIsCall DEF TreeInv
<1>2. call'.at = n /\ call'.rest = Tail(call.rest) /\ call'.key = call.key /\ call'.from = call.from
  BY <1>1 DEF Calls
<1>3. ASSUME NEW s \in Names, call'.key = Bare[s]
      PROVE  IsChild(call.at, call.from, s)' /\ call'.rest = << >>
  <2>1. call.at = call.from /\ call.rest = <<Component(s, 0)>>
    BY <1>2, <1>3 DEF OnItsWay
  <2>2. NextComponent.name = s /\ Tail(call.rest) = << >>
    BY <2>1, OneComponent DEF NextComponent
  <2>3. n \in children'[call.from] /\ name'[n] = s
    BY <2>1, <2>2
  <2>4. QED
    BY <1>2, <2>2, <2>3 DEF IsChild
<1>4. QED
  BY <1>3 DEF OnItsWay

\* A walk that does not go by a name is not one along a bare name.
LEMMA WalkElsewhere ==
  ASSUME TreeInv, OnItsWay, Walking, call.rest # << >>, NEW n \in Nodes, MoveTo(n),
         NextComponent.name \in {"", ".", ".."}
  PROVE  OnItsWay'
<1>1. \A s \in Names : NextComponent.name # s
  BY OneComponent
<1>2. QED
  BY <1>1, WalkOn

LEMMA IdleIsOnItsWay ==
  ASSUME call' = Idle
  PROVE  OnItsWay'
<1>1. Idle.at = NoNode
  BY DEF Idle
<1>2. QED
  BY <1>1 DEF OnItsWay, Walking

\* Children that stay are remembered.
LEMMA RemembersOn ==
  ASSUME TreeInv, Remembers, path_cache' = path_cache,
         \A p \in Nodes : \A m \in children[p] : m \in children'[p] /\ name'[m] = name[m]
  PROVE  Remembers'
BY DEF Remembers, IsChild

LEMMA LookRemembers ==
  ASSUME TreeInv, OnItsWay, Remembers, Looks
  PROVE  OnItsWay' /\ Remembers'
<1>1. UNCHANGED <<children, name>>
  BY LookKeepsShape DEF shapeVars
<1>2. ASSUME path_cache' = path_cache PROVE Remembers'
  BY <1>1, <1>2, RemembersOn
<1>3. CASE GetNodeCalls
  <2>1. Remembers'
    BY <1>2, <1>3, BeginsWell DEF TreeInv
  <2>2. PICK n \in Callers, t \in Texts :
          \/ GetNodeCached(n, t)
          \/ \E make \in BOOLEAN : GetNode(n, t, make)
          \/ \E make \in BOOLEAN, i \in Indices : GetNodeIndex(n, t, i, make)
    BY <1>3 DEF GetNodeCalls
  <2>3. CASE GetNodeCached(n, t)
    BY <2>1, <2>3, IdleIsOnItsWay DEF GetNodeCached
  <2>4. CASE \E make \in BOOLEAN : GetNode(n, t, make)
    <3>1. PICK make \in BOOLEAN : call' = Walk(n, Parse[t], make, t, n)
      BY <2>4 DEF GetNode
    <3>2. call'.at = n /\ call'.from = n /\ call'.key = t /\ call'.rest = Parse[t]
      BY <3>1 DEF Walk
    <3>3. OnItsWay'
      BY <3>2, OneComponent DEF OnItsWay
    <3>4. QED
      BY <2>1, <3>3
  <2>5. CASE \E make \in BOOLEAN, i \in Indices : GetNodeIndex(n, t, i, make)
    <3>1. PICK make \in BOOLEAN, i \in Indices :
            call' = Walk(n, WithIndex(Parse[t], i), make, NoText, n)
      BY <2>5 DEF GetNodeIndex
    <3>2. call'.key = NoText
      BY <3>1 DEF Walk
    <3>3. OnItsWay'
      BY <3>2, OneComponent DEF OnItsWay
    <3>4. QED
      BY <2>1, <3>3
  <2>6. QED
    BY <2>2, <2>3, <2>4, <2>5
<1>4. CASE Arrive
  <2>1. call' = Idle /\ Walking /\ call.rest = << >>
    BY <1>4 DEF Arrive, Return
  <2>2. PICK found \in {NoNode, call.at} :
          path_cache' = IF found = NoNode \/ call.key = NoText THEN path_cache
                        ELSE [path_cache EXCEPT ![call.from][call.key] = found]
    BY <1>4 DEF Arrive, Return
  <2>3. CASE found = NoNode \/ call.key = NoText
    BY <1>2, <2>1, <2>2, <2>3, IdleIsOnItsWay
  <2>4. CASE ~(found = NoNode \/ call.key = NoText)
    <3>1. call \in Calls
      BY <2>1, WalkingIsCall DEF TreeInv
    <3>2. call.from \in Nodes /\ call.key \in Texts /\ found = call.at
      BY <2>2, <2>4, <3>1 DEF Calls
    <3>3. path_cache' =
            [path_cache EXCEPT ![call.from] = [path_cache[call.from] EXCEPT ![call.key] = found]]
      BY <2>2, <2>4
    <3>4. path_cache \in [Nodes -> [Texts -> Nodes \cup {NoNode}]]
      BY DEF TreeInv, TreeTypeOK
    <3>5. ASSUME NEW p \in Nodes, NEW s \in Names, path_cache'[p][Bare[s]] # NoNode
          PROVE  IsChild(path_cache'[p][Bare[s]], p, s)
      <4>1. Bare[s] \in Texts
        BY OneComponent
      <4>2. CASE p = call.from /\ Bare[s] = call.key
        <5>1. path_cache'[p][Bare[s]] = found
          BY <3>2, <3>3, <3>4, <4>1, <4>2
        <5>2. IsChild(call.at, call.from, s)
          BY <2>1, <4>2, OneComponent DEF OnItsWay
        <5>3. QED
          BY <3>2, <4>2, <5>1, <5>2
      <4>3. CASE ~(p = call.from /\ Bare[s] = call.key)
        <5>1. path_cache'[p][Bare[s]] = path_cache[p][Bare[s]]
          <6>1. CASE p = call.from
            BY <3>2, <3>3, <3>4, <4>1, <4>3, <6>1
          <6>2. CASE p # call.from
            BY <3>3, <3>4, <6>2
          <6>3. QED
            BY <6>1, <6>2
        <5>2. QED
          BY <3>5, <5>1 DEF Remembers
      <4>4. QED
        BY <4>2, <4>3
    <3>6. Remembers'
      BY <1>1, <3>5 DEF Remembers, IsChild
    <3>7. QED
      BY <2>1, <3>6, IdleIsOnItsWay
  <2>5. QED
    BY <2>3, <2>4
<1>5. CASE ToRoot
  <2>1. OnItsWay'
    BY <1>5, RootIsNode, WalkElsewhere DEF ToRoot, ComponentIs
  <2>2. QED
    BY <1>2, <1>5, <2>1 DEF ToRoot
<1>6. CASE ToSelf
  <2>1. call.at \in Nodes
    BY <1>6, WalkingIsCall DEF ToSelf, ComponentIs, Calls, TreeInv
  <2>2. OnItsWay'
    BY <1>6, <2>1, WalkElsewhere DEF ToSelf, ComponentIs
  <2>3. QED
    BY <1>2, <1>6, <2>2 DEF ToSelf
<1>7. CASE ToParent
  <2>1. call.at \in Nodes
    BY <1>7, WalkingIsCall DEF ToParent, ComponentIs, Calls, TreeInv
  <2>2. parent[call.at] \in Nodes
    BY <1>7, <2>1 DEF ToParent, TreeTypeOK, TreeInv
  <2>3. OnItsWay'
    BY <1>7, <2>2, WalkElsewhere DEF ToParent, ComponentIs
  <2>4. QED
    BY <1>2, <1>7, <2>3 DEF ToParent
<1>8. CASE PastRoot \/ NotThere
  BY <1>2, <1>8, IdleIsOnItsWay DEF PastRoot, NotThere, Return
<1>9. CASE ToChild
  <2>1. PICK n \in Named(children) : MoveTo(n)
    BY <1>9 DEF ToChild
  <2>2. call.at \in Nodes
    BY <1>9, AtNode DEF ToChild
  <2>3. n \in children[call.at] /\ name[n] = NextComponent.name
    BY <2>1 DEF Named, Slot
  <2>4. n \in Nodes
    BY <2>2, <2>3 DEF TreeInv, TreeTypeOK
  <2>5. OnItsWay'
    BY <1>1, <1>9, <2>1, <2>3, <2>4, WalkOn DEF ToChild, AtName
  <2>6. QED
    BY <1>2, <1>9, <2>5 DEF ToChild
<1>10. QED
  BY <1>3, <1>4, <1>5, <1>6, <1>7, <1>8, <1>9 DEF Looks

LEMMA ReviveRemembers ==
  ASSUME TreeInv, OnItsWay, Remembers, Revive
  PROVE  OnItsWay' /\ Remembers'
<1>1. PICK n \in Named(removedChildren) :
        children' = [children EXCEPT ![call.at] = @ \cup {n}] /\ MoveTo(n)
  BY DEF Revive
<1>2. AtName /\ UNCHANGED <<name, path_cache>>
  BY DEF Revive
<1>3. call.at \in Nodes /\ n \in Nodes /\ name[n] = NextComponent.name
  BY <1>1, <1>2, AtNode DEF Named, Slot
<1>4. /\ \A p \in Nodes : children[p] \subseteq children'[p]
      /\ n \in children'[call.at]
  BY <1>1, <1>3 DEF TreeInv, TreeTypeOK
<1>5. OnItsWay'
  BY <1>1, <1>2, <1>3, <1>4, WalkOn DEF AtName
<1>6. QED
  BY <1>2, <1>4, <1>5, RemembersOn

LEMMA NewRemembers ==
  ASSUME TreeInv, OnItsWay, Remembers, New
  PROVE  OnItsWay' /\ Remembers'
<1>1. PICK n \in Nodes : n = created + 1
  BY AtNode, MaxNodesAssumption DEF New, Nodes
<1>2. /\ name' = [name EXCEPT ![n] = NextComponent.name]
      /\ children' = [children EXCEPT ![call.at] = @ \cup {n}]
      /\ MoveTo(n) /\ AtName /\ path_cache' = path_cache
  BY <1>1 DEF New, Add
<1>3. call.at \in Nodes /\ created \in Nat
  BY <1>2, AtNode
<1>4. /\ \A p \in Nodes : children[p] \subseteq children'[p]
      /\ n \in children'[call.at]
      /\ name'[n] = NextComponent.name
  BY <1>1, <1>2, <1>3 DEF TreeInv, TreeTypeOK
<1>5. \A p \in Nodes : \A m \in children[p] : m \in Nodes /\ m # n
  <2>1. \A p \in Nodes : \A m \in children[p] : m \in Nodes /\ m \in Existing
    BY DEF TreeInv, TreeTypeOK, Shape, Held
  <2>2. n \notin Existing
    BY <1>1, <1>3 DEF Existing
  <2>3. QED
    BY <2>1, <2>2
<1>6. \A p \in Nodes : \A m \in children[p] : m \in children'[p] /\ name'[m] = name[m]
  BY <1>2, <1>4, <1>5 DEF TreeInv, TreeTypeOK
<1>7. OnItsWay'
  BY <1>2, <1>4, WalkOn DEF AtName
<1>8. QED
  BY <1>2, <1>6, <1>7, RemembersOn

\* The name of a child that goes is forgotten.
LEMMA EraseRemembers ==
  ASSUME TreeInv, Remembers, NEW p \in Nodes, NEW nodes \in SUBSET children[p],
         NEW keep \in BOOLEAN, Erase(p, nodes, keep)
  PROVE  OnItsWay' /\ Remembers'
<1>1. /\ call = Idle /\ call' = Idle /\ name' = name
      /\ children' = [children EXCEPT ![p] = @ \ nodes]
      /\ path_cache' = Forget(p, nodes)
  BY DEF Erase
<1>2. path_cache \in [Nodes -> [Texts -> Nodes \cup {NoNode}]] /\ children \in [Nodes -> SUBSET Nodes]
  BY DEF TreeInv, TreeTypeOK
<1>3. ASSUME NEW q \in Nodes, NEW s \in Names, path_cache'[q][Bare[s]] # NoNode
      PROVE  /\ path_cache'[q][Bare[s]] \in children'[q]
             /\ name'[path_cache'[q][Bare[s]]] = s
  <2>1. Bare[s] \in Texts
    BY OneComponent
  <2>2. CASE q # p
    <3>1. path_cache'[q] = path_cache[q] /\ children'[q] = children[q]
      BY <1>1, <1>2, <2>2 DEF Forget
    <3>2. QED
      BY <1>1, <1>3, <3>1 DEF Remembers, IsChild
  <2>3. CASE q = p
    <3>1. path_cache'[q][Bare[s]] =
            IF \E n \in nodes : Bare[s] = Bare[name[n]] THEN NoNode ELSE path_cache[q][Bare[s]]
      BY <1>1, <1>2, <2>1, <2>3 DEF Forget
    <3>2. /\ ~ \E n \in nodes : Bare[s] = Bare[name[n]]
          /\ path_cache'[q][Bare[s]] = path_cache[q][Bare[s]]
      BY <1>3, <3>1
    <3>3. IsChild(path_cache[q][Bare[s]], q, s)
      BY <1>3, <3>2 DEF Remembers
    <3>4. path_cache[q][Bare[s]] \notin nodes
      BY <3>2, <3>3 DEF IsChild
    <3>5. QED
      BY <1>1, <1>2, <2>3, <3>2, <3>3, <3>4 DEF IsChild
  <2>4. QED
    BY <2>2, <2>3
<1>4. Remembers'
  BY <1>3 DEF Remembers, IsChild
<1>5. QED
  BY <1>1, <1>4, IdleIsOnItsWay

CacheInv == TreeInv /\ OnItsWay /\ Remembers

LEMMA CacheStarts ==
  ASSUME TreeInit
  PROVE  CacheInv
<1>1. call = Idle /\ path_cache = [n \in Nodes |-> [t \in Texts |-> NoNode]]
  BY DEF TreeInit
<1>2. OnItsWay
  <2>1. Idle.at = NoNode
    BY DEF Idle
  <2>2. QED
    BY <1>1, <2>1 DEF OnItsWay, Walking
<1>3. Remembers
  BY <1>1, OneComponent DEF Remembers
<1>4. QED
  BY <1>2, <1>3, TreeStarts DEF CacheInv

LEMMA CacheStep ==
  ASSUME CacheInv, TreeNext
  PROVE  CacheInv'
<1>1. TreeInv'
  BY TreeStep DEF CacheInv
<1>2. CASE Removals
  <2>1. PICK p \in Nodes, keep \in BOOLEAN :
          RemoveChild(p, keep) \/ \E s \in Names : RemoveChildren(p, s, keep)
    BY <1>2 DEF Removals
  <2>2. PICK nodes \in SUBSET children[p] : Erase(p, nodes, keep)
    BY <2>1 DEF RemoveChild, RemoveChildren
  <2>3. QED
    BY <1>1, <2>2, EraseRemembers DEF CacheInv
<1>3. CASE Looks
  BY <1>1, <1>3, LookRemembers DEF CacheInv
<1>4. CASE Revive
  BY <1>1, <1>4, ReviveRemembers DEF CacheInv
<1>5. CASE New
  BY <1>1, <1>5, NewRemembers DEF CacheInv
<1>6. QED
  BY <1>2, <1>3, <1>4, <1>5 DEF TreeNext, FindNode, Looks

LEMMA CacheStutters ==
  ASSUME CacheInv, UNCHANGED tree_vars
  PROVE  CacheInv'
<1>1. UNCHANGED <<children, name, path_cache, call>>
  BY DEF tree_vars, shapeVars
<1>2. OnItsWay' /\ Remembers'
  BY <1>1 DEF CacheInv, OnItsWay, Walking, Remembers, IsChild
<1>3. QED
  BY <1>2, TreeStutters DEF CacheInv

\* A node never answers the bare name of a child with a node that was removed, although
\* removeChild() looks at one entry of one cache.
THEOREM BareName_IsLive == TreeSpec => []BareNameIsLive
<1>1. TreeInit => CacheInv
  BY CacheStarts
<1>2. CacheInv /\ [TreeNext]_tree_vars => CacheInv'
  BY CacheStep, CacheStutters
<1>3. CacheInv => BareNameIsLive
  <2> SUFFICES ASSUME CacheInv, NEW n \in Existing, NEW s \in Names
               PROVE  path_cache[n][Bare[s]] \notin REMOVED
    BY DEF BareNameIsLive
  <2>1. Existing \subseteq Nodes
    <3>1. created \in 1 .. MaxNodes
      BY DEF CacheInv, TreeInv, TreeTypeOK, Nodes
    <3>2. QED
      BY <3>1, MaxNodesAssumption DEF Existing, Nodes
  <2>2. CASE path_cache[n][Bare[s]] = NoNode
    BY <2>1, <2>2, MaxNodesAssumption DEF CacheInv, TreeInv, TreeTypeOK
  <2>3. CASE path_cache[n][Bare[s]] # NoNode
    <3>1. PICK m \in children[n] : m = path_cache[n][Bare[s]]
      BY <2>1, <2>3 DEF CacheInv, Remembers, IsChild
    <3>2. m \in Existing \ {Root} /\ parent[m] = n
      BY <2>1, <3>1 DEF CacheInv, TreeInv, Shape, Held
    <3>3. m \notin REMOVED
      BY <3>1, <3>2 DEF CacheInv, TreeInv, NodesAreKept, NoNodeIsLost
    <3>4. QED
      BY <3>1, <3>3
  <2>4. QED
    BY <2>2, <2>3
<1>4. QED
  BY <1>1, <1>2, <1>3, PTL DEF TreeSpec

-----------------------------------------------------------------------------
(* What is remembered for any path, as long as no node is dropped *)

\* Where a component leads from a node, through a child or a node that was removed.
Follows(a, c, b) ==
  \/ c.name = "" /\ b = Root
  \/ c.name = "." /\ b = a
  \/ c.name = ".." /\ b = parent[a]
  \/ c.name \in Names /\ b \in Held(a) /\ name[b] = c.name /\ index[b] = c.index

\* The nodes on the way from n along the first k components.
Trail(g, n, components, k) ==
  /\ g \in [0 .. k -> Existing] /\ g[0] = n
  /\ \A i \in 1 .. k : Follows(g[i - 1], components[i], g[i])

Reaches(n, components, k, m) == \E g : Trail(g, n, components, k) /\ g[k] = m

\* What is left of a path after k components.
Left(rest, components, k) ==
  /\ Len(rest) = Len(components) - k
  /\ \A i \in 1 .. Len(rest) : rest[i] = components[k + i]

WalksRight ==
  Walking /\ call.key # NoText =>
    \E k \in 0 .. Len(Parse[call.key]) :
      /\ Left(call.rest, Parse[call.key], k)
      /\ Reaches(call.from, Parse[call.key], k, call.at)

RemembersRight ==
  \A n \in Nodes, t \in Texts :
    path_cache[n][t] # NoNode => Reaches(n, Parse[t], Len(Parse[t]), path_cache[n][t])

\* A walk is at a node, and a parent is older than its children.
Ages ==
  /\ Walking => call.at \in Existing /\ call.from \in Existing
  /\ parent[Root] = NoNode /\ Root \notin REMOVED
  /\ \A n \in Existing \ {Root} : parent[n] \in Existing /\ parent[n] < n

\* No step changes what a node is, and none but the dropping of nodes what is held.
Grows ==
  /\ Existing \subseteq Existing' /\ dropped \subseteq dropped'
  /\ \A m \in Existing : name'[m] = name[m] /\ index'[m] = index[m] /\ parent'[m] = parent[m]
  /\ dropped' = {} => \A p \in Nodes : Held(p) \subseteq Held(p)'

LEMMA ExistingAreNodes ==
  ASSUME TreeInv
  PROVE  /\ Existing \subseteq Nodes /\ Root \in Existing /\ created \in Nat
         /\ \A p \in Nodes : Held(p) \subseteq Existing
<1>1. created \in Nat /\ 1 <= created /\ created <= MaxNodes
  <2>1. created \in Nodes
    BY DEF TreeInv, TreeTypeOK
  <2>2. QED
    BY <2>1, MaxNodesAssumption DEF Nodes
<1>2. Existing \subseteq Nodes /\ Root \in Existing
  BY <1>1, MaxNodesAssumption DEF Existing, Nodes, Root
<1>3. QED
  BY <1>1, <1>2 DEF TreeInv, Shape

LEMMA NewGrows ==
  ASSUME TreeInv, New
  PROVE  Grows /\ Existing' = Existing \cup {created + 1} /\ created + 1 \in Nodes \ Existing
<1>1. PICK n \in Nodes : n = created + 1
  BY AtNode, MaxNodesAssumption DEF New, Nodes
<1>2. /\ created' = n
      /\ name' = [name EXCEPT ![n] = NextComponent.name]
      /\ index' = [index EXCEPT ![n] = NextComponent.index]
      /\ parent' = [parent EXCEPT ![n] = call.at]
      /\ children' = [children EXCEPT ![call.at] = @ \cup {n}]
      /\ removedChildren' = removedChildren /\ dropped' = dropped
  BY <1>1 DEF New, Add
<1>3. n \notin Existing /\ Existing' = Existing \cup {n}
  BY <1>1, <1>2, ExistingAreNodes DEF Existing
<1>4. \A m \in Existing : m \in Nodes /\ m # n
  BY <1>3, ExistingAreNodes
<1>5. \A m \in Existing : name'[m] = name[m] /\ index'[m] = index[m] /\ parent'[m] = parent[m]
  BY <1>2, <1>4 DEF TreeInv, TreeTypeOK
<1>6. \A p \in Nodes : children[p] \subseteq children'[p]
  BY <1>2 DEF TreeInv, TreeTypeOK
<1>7. \A p \in Nodes : Held(p) \subseteq Held(p)'
  BY <1>2, <1>6 DEF Held
<1>8. QED
  BY <1>1, <1>2, <1>3, <1>5, <1>7 DEF Grows

LEMMA ReviveGrows ==
  ASSUME TreeInv, Revive
  PROVE  Grows
<1>1. PICK n \in Named(removedChildren) :
        /\ removedChildren' = [removedChildren EXCEPT ![call.at] = @ \ {n}]
        /\ children' = [children EXCEPT ![call.at] = @ \cup {n}]
  BY DEF Revive
<1>2. AtName /\ UNCHANGED <<created, name, index, parent, dropped>>
  BY DEF Revive
<1>3. \A p \in Nodes : Held(p) \subseteq Held(p)'
  BY <1>1, <1>2, AtNode DEF TreeInv, TreeTypeOK, Held
<1>4. QED
  BY <1>2, <1>3 DEF Grows, Existing

LEMMA EraseGrows ==
  ASSUME TreeInv, NEW p \in Nodes, NEW nodes \in SUBSET children[p], nodes # {},
         NEW keep \in BOOLEAN, Erase(p, nodes, keep)
  PROVE  Grows
<1>1. /\ children' = [children EXCEPT ![p] = @ \ nodes]
      /\ removedChildren' = IF keep THEN [removedChildren EXCEPT ![p] = @ \cup nodes]
                            ELSE removedChildren
      /\ dropped' = IF keep THEN dropped ELSE dropped \cup nodes
      /\ UNCHANGED <<created, name, index, parent>>
  BY DEF Erase, Keep
<1>2. ASSUME dropped' = {}, NEW q \in Nodes PROVE Held(q) \subseteq Held(q)'
  <2>1. keep
    BY <1>1, <1>2
  <2>2. CASE q = p
    BY <1>1, <2>1, <2>2 DEF TreeInv, TreeTypeOK, Held
  <2>3. CASE q # p
    BY <1>1, <2>1, <2>3 DEF TreeInv, TreeTypeOK, Held
  <2>4. QED
    BY <2>2, <2>3
<1>3. QED
  BY <1>1, <1>2 DEF Grows, Existing

LEMMA LookGrows ==
  ASSUME UNCHANGED shapeVars, UNCHANGED dropped
  PROVE  Grows
<1>1. UNCHANGED <<created, name, index, parent, children, removedChildren>>
  BY DEF shapeVars
<1>2. QED
  BY <1>1 DEF Grows, Existing, Held

\* A way stays a way.
LEMMA ReachesOn ==
  ASSUME TreeInv, Grows, dropped' = {}, NEW n, NEW components, NEW k \in Nat, NEW m,
         Reaches(n, components, k, m)
  PROVE  Reaches(n, components, k, m)'
<1>1. PICK g : Trail(g, n, components, k) /\ g[k] = m
  BY DEF Reaches
<1>2. g \in [0 .. k -> Existing']
  BY <1>1 DEF Trail, Grows
<1>3. ASSUME NEW i \in 1 .. k PROVE Follows(g[i - 1], components[i], g[i])'
  <2>1. i - 1 \in 0 .. k /\ i \in 0 .. k
    OBVIOUS
  <2>2. PICK a \in Existing, b \in Existing : a = g[i - 1] /\ b = g[i]
    BY <1>1, <2>1 DEF Trail
  <2>3. Follows(a, components[i], b)
    BY <1>1, <2>2 DEF Trail
  <2>4. Held(a) \subseteq Held(a)'
    BY <2>2, ExistingAreNodes DEF Grows
  <2>5. parent'[a] = parent[a] /\ name'[b] = name[b] /\ index'[b] = index[b]
    BY <2>2 DEF Grows
  <2>6. Follows(a, components[i], b)'
    BY <2>3, <2>4, <2>5 DEF Follows
  <2>7. QED
    BY <2>2, <2>6
<1>4. Trail(g, n, components, k)'
  BY <1>1, <1>2, <1>3 DEF Trail
<1>5. QED
  BY <1>1, <1>4 DEF Reaches

\* One component more.
LEMMA ReachesNext ==
  ASSUME NEW n, NEW components, NEW k \in Nat, NEW m, NEW b, b \in Existing',
         Reaches(n, components, k, m)', Follows(m, components[k + 1], b)'
  PROVE  Reaches(n, components, k + 1, b)'
<1>1. PICK g : Trail(g, n, components, k)' /\ g[k] = m
  BY DEF Reaches
<1> DEFINE h == [i \in 0 .. k + 1 |-> IF i = k + 1 THEN b ELSE g[i]]
<1>2. h[k + 1] = b /\ \A i \in 0 .. k : h[i] = g[i]
  OBVIOUS
<1>3. h \in [0 .. k + 1 -> Existing']
  BY <1>1 DEF Trail
<1> HIDE DEF h
<1>4. ASSUME NEW i \in 1 .. k + 1 PROVE Follows(h[i - 1], components[i], h[i])'
  <2>1. CASE i = k + 1
    <3>1. h[i - 1] = m /\ h[i] = b
      BY <1>1, <1>2, <2>1
    <3>2. QED
      BY <2>1, <3>1
  <2>2. CASE i # k + 1
    <3>1. i \in 1 .. k /\ i - 1 \in 0 .. k /\ i \in 0 .. k
      BY <2>2
    <3>2. h[i - 1] = g[i - 1] /\ h[i] = g[i]
      BY <1>2, <3>1
    <3>3. QED
      BY <1>1, <3>1, <3>2 DEF Trail
  <2>3. QED
    BY <2>1, <2>2
<1>5. h[0] = n
  BY <1>1, <1>2 DEF Trail
<1>6. Trail(h, n, components, k + 1)'
  BY <1>3, <1>4, <1>5 DEF Trail
<1>7. QED
  BY <1>2, <1>6 DEF Reaches

LEMMA ReachesFirst ==
  ASSUME NEW n \in Existing, NEW components
  PROVE  Reaches(n, components, 0, n)
<1> DEFINE g == [i \in 0 .. 0 |-> n]
<1>1. g \in [0 .. 0 -> Existing] /\ g[0] = n
  OBVIOUS
<1> HIDE DEF g
<1>2. Trail(g, n, components, 0)
  BY <1>1 DEF Trail
<1>3. QED
  BY <1>1, <1>2 DEF Reaches

\* From a node a component leads to one node.
LEMMA FollowsOne ==
  ASSUME TreeInv, NEW a \in Nodes, NEW c \in Components, NEW b \in Nodes, NEW d \in Nodes,
         Follows(a, c, b), Follows(a, c, d)
  PROVE  b = d
<1>1. CASE c.name \in Names
  <2>1. OneNodePerSlot
    BY DEF TreeInv, NodesAreKept
  <2>2. c.name \notin {"", ".", ".."}
    BY <1>1, NamesAssumption
  <2>3. b \in Held(a) /\ d \in Held(a) /\ name[b] = name[d] /\ index[b] = index[d]
    BY <2>2 DEF Follows
  <2>4. QED
    BY <2>1, <2>3 DEF OneNodePerSlot
<1>2. "" \notin Names /\ "." \notin Names /\ ".." \notin Names
  BY NamesAssumption
<1>3. "" # "." /\ "" # ".." /\ "." # ".."
  OBVIOUS
<1>4. CASE c.name = ""
  <2>1. b = Root /\ d = Root
    BY <1>2, <1>3, <1>4 DEF Follows
  <2>2. QED
    BY <2>1
<1>5. CASE c.name = "."
  <2>1. b = a /\ d = a
    BY <1>2, <1>3, <1>5 DEF Follows
  <2>2. QED
    BY <2>1
<1>6. CASE c.name = ".."
  <2>1. b = parent[a] /\ d = parent[a]
    BY <1>2, <1>3, <1>6 DEF Follows
  <2>2. QED
    BY <2>1
<1>7. QED
  BY <1>1, <1>4, <1>5, <1>6 DEF Follows

-----------------------------------------------------------------------------
(* The steps *)

LEMMA WalkExists ==
  ASSUME TreeInv, Ages, Walking
  PROVE  /\ call \in Calls /\ call.at \in Existing /\ call.from \in Existing
         /\ call.rest \in Seq(Components)
         /\ call.key # NoText => call.key \in Texts /\ Parse[call.key] \in Seq(Components)
<1>1. call \in Calls
  BY WalkingIsCall DEF TreeInv
<1>2. QED
  BY <1>1, ParseAssumption DEF Calls, Ages

\* The first of what is left is the component after those behind.
LEMMA LeftOne ==
  ASSUME NEW rest \in Seq(Components), rest # << >>, NEW components \in Seq(Components),
         NEW k \in 0 .. Len(components), Left(rest, components, k)
  PROVE  /\ k + 1 \in 0 .. Len(components)
         /\ Head(rest) = components[k + 1]
         /\ Left(Tail(rest), components, k + 1)
<1>1. PICK n \in Nat \ {0} : n = Len(rest)
  OBVIOUS
<1>2. PICK m \in Nat : m = Len(components)
  OBVIOUS
<1>3. n = m - k
  BY <1>1, <1>2 DEF Left
<1>4. k + 1 \in 0 .. m /\ k \in Nat
  BY <1>1, <1>2, <1>3
<1>5. Head(rest) = rest[1] /\ 1 \in 1 .. n
  BY <1>1
<1>6. rest[1] = components[k + 1]
  BY <1>1, <1>5 DEF Left
<1>7. Len(Tail(rest)) = n - 1 /\ \A i \in 1 .. n - 1 : Tail(rest)[i] = rest[i + 1]
  BY <1>1
<1>8. ASSUME NEW i \in 1 .. n - 1 PROVE Tail(rest)[i] = components[(k + 1) + i]
  <2>1. i + 1 \in 1 .. n /\ k + (i + 1) = (k + 1) + i
    BY <1>1, <1>4
  <2>2. rest[i + 1] = components[k + (i + 1)]
    BY <1>1, <2>1 DEF Left
  <2>3. QED
    BY <1>7, <2>1, <2>2
<1>9. Len(Tail(rest)) = m - (k + 1)
  BY <1>1, <1>3, <1>4, <1>7
<1>10. Left(Tail(rest), components, k + 1)
  BY <1>2, <1>7, <1>8, <1>9 DEF Left
<1>11. QED
  BY <1>2, <1>4, <1>5, <1>6, <1>10

\* What holds of the trails as long as no node was dropped.
TrailsInv == dropped = {} => WalksRight /\ RemembersRight

LEMMA RemembersStays ==
  ASSUME TreeInv, Grows, dropped' = {}, RemembersRight, path_cache' = path_cache
  PROVE  RemembersRight'
<1> SUFFICES ASSUME NEW n \in Nodes, NEW t \in Texts, path_cache[n][t] # NoNode
             PROVE  Reaches(n, Parse[t], Len(Parse[t]), path_cache[n][t])'
  BY DEF RemembersRight
<1>1. PICK m : m = path_cache[n][t]
  OBVIOUS
<1>2. PICK k \in Nat : k = Len(Parse[t])
  BY ParseAssumption
<1>3. Reaches(n, Parse[t], k, m)
  BY <1>1, <1>2 DEF RemembersRight
<1>4. Reaches(n, Parse[t], k, m)'
  BY <1>3, ReachesOn
<1>5. QED
  BY <1>1, <1>2, <1>4

\* A walk that goes where its component leads stays right.
LEMMA MovesRight ==
  ASSUME TreeInv, Ages, TrailsInv, Grows, Walking, call.rest # << >>,
         NEW a, a = call.at, NEW c, c = NextComponent,
         NEW n \in Nodes, n \in Existing', MoveTo(n), path_cache' = path_cache,
         Follows(a, c, n)'
  PROVE  TrailsInv'
<1> SUFFICES ASSUME dropped' = {} PROVE WalksRight' /\ RemembersRight'
  BY DEF TrailsInv
<1>1. dropped = {} /\ WalksRight /\ RemembersRight
  BY DEF Grows, TrailsInv
<1>2. RemembersRight'
  BY <1>1, RemembersStays
<1>3. call \in Calls /\ call' = [call EXCEPT !.at = n, !.rest = Tail(call.rest)]
  BY WalkExists, MoveIsCall DEF TreeInv
<1>4. /\ call'.at = n /\ call'.rest = Tail(call.rest)
      /\ call'.key = call.key /\ call'.from = call.from
  BY <1>3 DEF Calls
<1>5. ASSUME call.key # NoText
      PROVE  \E k \in 0 .. Len(Parse[call.key]) :
               /\ Left(Tail(call.rest), Parse[call.key], k)
               /\ Reaches(call.from, Parse[call.key], k, n)'
  <2>1. PICK components \in Seq(Components) : components = Parse[call.key]
    BY <1>5, WalkExists
  <2>2. PICK k \in 0 .. Len(components) :
          Left(call.rest, components, k) /\ Reaches(call.from, components, k, call.at)
    BY <1>1, <1>5, <2>1 DEF WalksRight
  <2>3. /\ k + 1 \in 0 .. Len(components) /\ c = components[k + 1]
        /\ Left(Tail(call.rest), components, k + 1)
    BY <2>2, LeftOne, WalkExists DEF NextComponent
  <2>4. PICK f : f = call.from
    OBVIOUS
  <2>5. k \in Nat
    BY <2>2
  <2>6. Reaches(f, components, k, a)
    BY <2>2, <2>4
  <2>7. Reaches(f, components, k, a)'
    BY <2>5, <2>6, ReachesOn
  <2>8. Follows(a, components[k + 1], n)'
    BY <2>3
  <2>9. Reaches(f, components, k + 1, n)'
    BY <2>5, <2>7, <2>8, ReachesNext
  <2>10. call'.from = f /\ Parse[call'.key] = components
    BY <1>4, <2>1, <2>4
  <2>11. Reaches(call.from, Parse[call.key], k + 1, n)'
    BY <2>9, <2>10
  <2>12. QED
    BY <2>1, <2>3, <2>11
<1>6. WalksRight'
  BY <1>4, <1>5 DEF WalksRight
<1>7. QED
  BY <1>2, <1>6

LEMMA IdleIsRight ==
  ASSUME TreeInv, TrailsInv, Grows, call' = Idle, path_cache' = path_cache
  PROVE  TrailsInv'
<1> SUFFICES ASSUME dropped' = {} PROVE WalksRight' /\ RemembersRight'
  BY DEF TrailsInv
<1>1. dropped = {} /\ RemembersRight
  BY DEF Grows, TrailsInv
<1>2. Idle.at = NoNode
  BY DEF Idle
<1>3. WalksRight'
  BY <1>2 DEF WalksRight, Walking
<1>4. QED
  BY <1>1, <1>3, RemembersStays

LEMMA IdleKeepsAges ==
  ASSUME Ages, call' = Idle, UNCHANGED <<created, parent>>, Root \notin REMOVED'
  PROVE  Ages'
<1>1. Idle.at = NoNode
  BY DEF Idle
<1>2. QED
  BY <1>1 DEF Ages, Walking, Existing

\* A step of a walk that changes nothing but where it is.
LEMMA LooksOn ==
  ASSUME TreeInv, Ages, TrailsInv, Walking, call.rest # << >>,
         NEW n \in Existing, MoveTo(n), Follows(call.at, NextComponent, n),
         UNCHANGED shapeVars, UNCHANGED dropped, UNCHANGED path_cache
  PROVE  Ages' /\ TrailsInv'
<1>1. UNCHANGED <<created, name, index, parent, children, removedChildren, REMOVED>>
  BY DEF shapeVars
<1>2. n \in Nodes /\ n \in Existing'
  BY <1>1, ExistingAreNodes DEF Existing
<1>3. call \in Calls /\ call' = [call EXCEPT !.at = n, !.rest = Tail(call.rest)]
  BY <1>2, WalkExists, MoveIsCall DEF TreeInv
<1>4. call'.at = n /\ call'.from = call.from
  BY <1>3 DEF Calls
<1>5. Ages'
  BY <1>1, <1>2, <1>4 DEF Ages, Existing
<1>6. PICK a, c : a = call.at /\ c = NextComponent
  OBVIOUS
<1>7. Follows(a, c, n)
  BY <1>6
<1>8. Follows(a, c, n)'
  BY <1>1, <1>7 DEF Follows, Held
<1>9. Grows
  BY LookGrows
<1>10. TrailsInv'
  BY <1>2, <1>6, <1>8, <1>9, MovesRight
<1>11. QED
  BY <1>5, <1>10

\* A getNode() begins at its node with the whole path.
LEMMA BeginsRight ==
  ASSUME TreeInv, Ages, TrailsInv, NEW n \in Existing, NEW rest, NEW make, NEW key,
         key # NoText => key \in Texts /\ rest = Parse[key],
         call' = Walk(n, rest, make, key, n),
         UNCHANGED shapeVars, UNCHANGED dropped, UNCHANGED path_cache
  PROVE  Ages' /\ TrailsInv'
<1>1. UNCHANGED <<created, name, index, parent, children, removedChildren, REMOVED>>
  BY DEF shapeVars
<1>2. /\ call'.at = n /\ call'.from = n /\ call'.rest = rest /\ call'.key = key
  BY DEF Walk
<1>3. Ages'
  BY <1>1, <1>2 DEF Ages, Existing
<1>4. Grows
  BY LookGrows
<1> SUFFICES ASSUME dropped' = {} PROVE WalksRight' /\ RemembersRight'
  BY <1>3 DEF TrailsInv
<1>5. RemembersRight /\ dropped = {}
  BY DEF TrailsInv
<1>6. RemembersRight'
  BY <1>4, <1>5, RemembersStays
<1>7. ASSUME key # NoText
      PROVE  \E k \in 0 .. Len(Parse[key]) :
               Left(rest, Parse[key], k) /\ Reaches(n, Parse[key], k, n)'
  <2>1. Parse[key] \in Seq(Components) /\ rest = Parse[key]
    BY <1>7, ParseAssumption
  <2>2. 0 \in 0 .. Len(Parse[key]) /\ Left(rest, Parse[key], 0)
    BY <2>1 DEF Left
  <2>3. Reaches(n, Parse[key], 0, n)
    BY ReachesFirst
  <2>4. Reaches(n, Parse[key], 0, n)'
    BY <1>4, <2>3, ReachesOn
  <2>5. QED
    BY <2>2, <2>4
<1>8. WalksRight'
  BY <1>2, <1>7 DEF WalksRight
<1>9. QED
  BY <1>6, <1>8

\* What an arriving walk remembers is where the whole path leads.
LEMMA ArrivesRight ==
  ASSUME TreeInv, Ages, TrailsInv, Arrive
  PROVE  Ages' /\ TrailsInv'
<1>1. UNCHANGED shapeVars /\ UNCHANGED dropped /\ call' = Idle /\ Walking /\ call.rest = << >>
  BY DEF Arrive, Return
<1>2. UNCHANGED <<created, name, index, parent, children, removedChildren, REMOVED>>
  BY <1>1 DEF shapeVars
<1>3. Ages'
  BY <1>1, <1>2, IdleKeepsAges DEF Ages
<1>4. Grows
  BY <1>1, LookGrows
<1>5. PICK found \in {NoNode, call.at} :
        path_cache' = IF found = NoNode \/ call.key = NoText THEN path_cache
                      ELSE [path_cache EXCEPT ![call.from][call.key] = found]
  BY DEF Arrive
<1>6. CASE found = NoNode \/ call.key = NoText
  BY <1>1, <1>3, <1>4, <1>5, <1>6, IdleIsRight
<1>7. CASE ~(found = NoNode \/ call.key = NoText)
  <2> SUFFICES ASSUME dropped' = {} PROVE WalksRight' /\ RemembersRight'
    BY <1>3 DEF TrailsInv
  <2>1. dropped = {} /\ WalksRight /\ RemembersRight
    BY <1>1 DEF TrailsInv
  <2>2. WalksRight'
    <3>1. Idle.at = NoNode
      BY DEF Idle
    <3>2. QED
      BY <1>1, <3>1 DEF WalksRight, Walking
  <2>3. PICK f \in Nodes, t \in Texts : f = call.from /\ t = call.key
    BY <1>1, <1>7, WalkExists DEF Calls
  <2>4. PICK components \in Seq(Components) : components = Parse[t]
    BY <2>3, ParseAssumption
  <2>5. PICK k \in 0 .. Len(components) :
          Left(call.rest, components, k) /\ Reaches(f, components, k, call.at)
    BY <1>1, <1>7, <2>1, <2>3, <2>4 DEF WalksRight
  <2>6. k = Len(components)
    BY <1>1, <2>5 DEF Left
  <2>7. Reaches(f, Parse[t], Len(Parse[t]), found)
    BY <1>5, <1>7, <2>4, <2>5, <2>6
  <2>8. path_cache' = [path_cache EXCEPT ![f] = [path_cache[f] EXCEPT ![t] = found]]
    BY <1>5, <1>7, <2>3
  <2>9. path_cache \in [Nodes -> [Texts -> Nodes \cup {NoNode}]]
    BY DEF TreeInv, TreeTypeOK
  <2>10. ASSUME NEW n \in Nodes, NEW u \in Texts, path_cache'[n][u] # NoNode
         PROVE  Reaches(n, Parse[u], Len(Parse[u]), path_cache'[n][u])
    <3>1. CASE n = f /\ u = t
      <4>1. path_cache'[n][u] = found
        BY <2>8, <2>9, <3>1
      <4>2. QED
        BY <2>7, <3>1, <4>1
    <3>2. CASE ~(n = f /\ u = t)
      <4>1. path_cache'[n][u] = path_cache[n][u]
        BY <2>8, <2>9, <3>2
      <4>2. QED
        BY <2>1, <2>10, <4>1 DEF RemembersRight
    <3>3. QED
      BY <3>1, <3>2
  <2>11. ASSUME NEW n \in Nodes, NEW u \in Texts, path_cache'[n][u] # NoNode
         PROVE  Reaches(n, Parse[u], Len(Parse[u]), path_cache[n][u])'
    <3>1. PICK m : m = path_cache'[n][u]
      OBVIOUS
    <3>2. PICK l \in Nat : l = Len(Parse[u])
      BY ParseAssumption
    <3>3. Reaches(n, Parse[u], l, m)
      BY <2>10, <2>11, <3>1, <3>2
    <3>4. Reaches(n, Parse[u], l, m)'
      BY <1>4, <3>3, ReachesOn
    <3>5. QED
      BY <3>1, <3>2, <3>4
  <2>12. RemembersRight'
    BY <2>11 DEF RemembersRight
  <2>13. QED
    BY <2>2, <2>12
<1>8. QED
  BY <1>6, <1>7

LEMMA LookTrails ==
  ASSUME TreeInv, Ages, TrailsInv, Looks
  PROVE  Ages' /\ TrailsInv'
<1>1. UNCHANGED shapeVars /\ UNCHANGED dropped
  BY LookKeepsShape
<1>2. UNCHANGED <<created, name, index, parent, children, removedChildren, REMOVED>>
  BY <1>1 DEF shapeVars
<1>3. Grows
  BY <1>1, LookGrows
<1>4. CASE GetNodeCalls
  <2>1. PICK n \in Callers, t \in Texts :
          \/ GetNodeCached(n, t)
          \/ \E make \in BOOLEAN : GetNode(n, t, make)
          \/ \E make \in BOOLEAN, i \in Indices : GetNodeIndex(n, t, i, make)
    BY <1>4 DEF GetNodeCalls
  <2>2. CASE GetNodeCached(n, t)
    <3>1. call' = Idle /\ path_cache' = path_cache
      BY <2>2 DEF GetNodeCached
    <3>2. QED
      BY <1>2, <1>3, <3>1, IdleIsRight, IdleKeepsAges DEF Ages
  <2>3. CASE \E make \in BOOLEAN : GetNode(n, t, make)
    <3>1. PICK make \in BOOLEAN : GetNode(n, t, make)
      BY <2>3
    <3>2. n \in Existing /\ call' = Walk(n, Parse[t], make, t, n) /\ path_cache' = path_cache
      BY <3>1 DEF GetNode
    <3>3. PICK path \in Seq(Components) : path = Parse[t]
      BY ParseAssumption
    <3>4. call' = Walk(n, path, make, t, n)
      BY <3>2, <3>3
    <3>5. QED
      BY <1>1, <3>2, <3>3, <3>4, BeginsRight
  <2>4. CASE \E make \in BOOLEAN, i \in Indices : GetNodeIndex(n, t, i, make)
    <3>1. PICK make \in BOOLEAN, i \in Indices : GetNodeIndex(n, t, i, make)
      BY <2>4
    <3>2. /\ n \in Existing /\ path_cache' = path_cache
          /\ call' = Walk(n, WithIndex(Parse[t], i), make, NoText, n)
      BY <3>1 DEF GetNodeIndex
    <3>3. PICK path : path = WithIndex(Parse[t], i)
      OBVIOUS
    <3>4. call' = Walk(n, path, make, NoText, n)
      BY <3>2, <3>3
    <3>5. QED
      BY <1>1, <3>2, <3>4, BeginsRight
  <2>5. QED
    BY <2>1, <2>2, <2>3, <2>4
<1>5. CASE Arrive
  BY <1>5, ArrivesRight
<1>6. CASE ToRoot
  <2>1. Root \in Existing /\ Follows(call.at, NextComponent, Root)
    BY <1>6, ExistingAreNodes DEF ToRoot, ComponentIs, Follows
  <2>2. QED
    BY <1>1, <1>6, <2>1, LooksOn DEF ToRoot, ComponentIs
<1>7. CASE ToSelf
  <2>1. PICK n \in Existing : n = call.at
    BY <1>7, WalkExists DEF ToSelf, ComponentIs
  <2>2. Follows(call.at, NextComponent, n) /\ MoveTo(n)
    BY <1>7, <2>1 DEF ToSelf, ComponentIs, Follows
  <2>3. QED
    BY <1>1, <1>7, <2>2, LooksOn DEF ToSelf, ComponentIs
<1>8. CASE ToParent
  <2>1. call.at \in Existing /\ parent[call.at] # NoNode
    BY <1>8, WalkExists DEF ToParent, ComponentIs
  <2>2. PICK n \in Existing : n = parent[call.at]
    BY <2>1 DEF Ages
  <2>3. Follows(call.at, NextComponent, n) /\ MoveTo(n)
    BY <1>8, <2>2 DEF ToParent, ComponentIs, Follows
  <2>4. QED
    BY <1>1, <1>8, <2>3, LooksOn DEF ToParent, ComponentIs
<1>9. CASE PastRoot \/ NotThere
  <2>1. call' = Idle /\ path_cache' = path_cache
    BY <1>9 DEF PastRoot, NotThere, Return
  <2>2. QED
    BY <1>2, <1>3, <2>1, IdleIsRight, IdleKeepsAges DEF Ages
<1>10. CASE ToChild
  <2>1. PICK n \in Named(children) : MoveTo(n)
    BY <1>10 DEF ToChild
  <2>2. AtName /\ call.at \in Nodes
    BY <1>10, AtNode DEF ToChild
  <2>3. n \in Held(call.at) /\ Follows(call.at, NextComponent, n)
    BY <2>1, <2>2 DEF Named, Slot, Held, AtName, Follows
  <2>4. n \in Existing
    BY <2>2, <2>3, ExistingAreNodes
  <2>5. QED
    BY <1>1, <1>10, <2>1, <2>2, <2>3, <2>4, LooksOn DEF ToChild, AtName
<1>11. QED
  BY <1>4, <1>5, <1>6, <1>7, <1>8, <1>9, <1>10 DEF Looks

LEMMA ReviveTrails ==
  ASSUME TreeInv, Ages, TrailsInv, Revive
  PROVE  Ages' /\ TrailsInv'
<1>1. PICK n \in Named(removedChildren) :
        /\ removedChildren' = [removedChildren EXCEPT ![call.at] = @ \ {n}]
        /\ children' = [children EXCEPT ![call.at] = @ \cup {n}]
        /\ REMOVED' = REMOVED \ {n}
        /\ MoveTo(n)
  BY DEF Revive
<1>2. AtName /\ UNCHANGED <<created, name, index, parent, path_cache, dropped>>
  BY DEF Revive
<1>3. call.at \in Nodes /\ n \in Held(call.at) /\ Follows(call.at, NextComponent, n)
  BY <1>1, <1>2, AtNode DEF Named, Slot, Held, AtName, Follows
<1>4. n \in Existing /\ n \in Existing' /\ n \in Nodes
  BY <1>2, <1>3, ExistingAreNodes DEF Existing
<1>5. call \in Calls /\ call' = [call EXCEPT !.at = n, !.rest = Tail(call.rest)]
  BY <1>1, <1>2, <1>4, WalkExists, MoveIsCall DEF TreeInv, AtName
<1>6. call'.at = n /\ call'.from = call.from
  BY <1>5 DEF Calls
<1>7. Ages'
  BY <1>1, <1>2, <1>4, <1>6 DEF Ages, Existing, AtName
<1>8. PICK a, c : a = call.at /\ c = NextComponent
  OBVIOUS
<1>9. Follows(a, c, n) /\ n \in Held(a)
  BY <1>3, <1>8
<1>10. n \in Held(a)'
  BY <1>1, <1>3, <1>8 DEF TreeInv, TreeTypeOK, Held
<1>11. Follows(a, c, n)'
  BY <1>2, <1>9, <1>10 DEF Follows
<1>12. Grows
  BY ReviveGrows
<1>13. TrailsInv'
  BY <1>1, <1>2, <1>4, <1>8, <1>11, <1>12, MovesRight DEF AtName
<1>14. QED
  BY <1>7, <1>13

LEMMA NewTrails ==
  ASSUME TreeInv, Ages, TrailsInv, New
  PROVE  Ages' /\ TrailsInv'
<1>1. Grows /\ Existing' = Existing \cup {created + 1} /\ created + 1 \in Nodes \ Existing
  BY NewGrows
<1>2. PICK n \in Nodes : n = created + 1
  BY <1>1
<1>3. /\ name' = [name EXCEPT ![n] = NextComponent.name]
      /\ index' = [index EXCEPT ![n] = NextComponent.index]
      /\ parent' = [parent EXCEPT ![n] = call.at]
      /\ children' = [children EXCEPT ![call.at] = @ \cup {n}]
      /\ MoveTo(n) /\ AtName /\ path_cache' = path_cache /\ REMOVED' = REMOVED
  BY <1>2 DEF New, Add
<1>4. call.at \in Nodes /\ call.at \in Existing /\ call.from \in Existing
  BY <1>3, AtNode, WalkExists DEF AtName
<1>5. call \in Calls /\ call' = [call EXCEPT !.at = n, !.rest = Tail(call.rest)]
  BY <1>2, <1>3, WalkExists, MoveIsCall DEF TreeInv, AtName
<1>6. call'.at = n /\ call'.from = call.from
  BY <1>5 DEF Calls
<1>7. created \in Nat /\ call.at < n /\ n \in Existing' /\ n # Root /\ Root \in Existing
  BY <1>1, <1>2, <1>4, ExistingAreNodes DEF Existing
<1>8. /\ parent'[n] = call.at /\ name'[n] = NextComponent.name /\ index'[n] = NextComponent.index
      /\ n \in children'[call.at]
  BY <1>3, <1>4 DEF TreeInv, TreeTypeOK
<1>9. \A m \in Existing : parent'[m] = parent[m]
  BY <1>1 DEF Grows
<1>10. Ages'
  <2>1. ASSUME NEW m \in Existing' \ {Root} PROVE parent'[m] \in Existing' /\ parent'[m] < m
    <3>1. CASE m = n
      BY <1>1, <1>4, <1>7, <1>8, <3>1
    <3>2. CASE m # n
      BY <1>1, <1>2, <1>9, <3>2 DEF Ages
    <3>3. QED
      BY <3>1, <3>2
  <2>2. parent'[Root] = NoNode /\ Root \notin REMOVED'
    BY <1>3, <1>7, <1>9 DEF Ages
  <2>3. call'.at \in Existing' /\ call'.from \in Existing'
    BY <1>1, <1>4, <1>6, <1>7
  <2>4. QED
    BY <2>1, <2>2, <2>3 DEF Ages
<1>11. PICK a, c : a = call.at /\ c = NextComponent
  OBVIOUS
<1>12. c.name \in Names
  BY <1>3, <1>11 DEF AtName
<1>13. Follows(a, c, n)'
  BY <1>8, <1>11, <1>12 DEF Follows, Held
<1>14. TrailsInv'
  BY <1>1, <1>3, <1>7, <1>11, <1>13, MovesRight DEF AtName
<1>15. QED
  BY <1>10, <1>14

\* Forgetting leaves less to be right about.
LEMMA EraseTrails ==
  ASSUME TreeInv, Ages, TrailsInv, NEW p \in Nodes, NEW nodes \in SUBSET children[p],
         nodes # {}, NEW keep \in BOOLEAN, Erase(p, nodes, keep)
  PROVE  Ages' /\ TrailsInv'
<1>1. /\ call' = Idle /\ path_cache' = Forget(p, nodes) /\ REMOVED' = REMOVED \cup nodes
      /\ UNCHANGED <<created, name, index, parent>>
  BY DEF Erase
<1>2. Root \notin nodes
  BY DEF TreeInv, Shape, Held
<1>3. Ages'
  BY <1>1, <1>2, IdleKeepsAges DEF Ages
<1>4. Grows
  BY EraseGrows
<1>5. path_cache \in [Nodes -> [Texts -> Nodes \cup {NoNode}]]
  BY DEF TreeInv, TreeTypeOK
<1>6. ASSUME NEW n \in Nodes, NEW t \in Texts, path_cache'[n][t] # NoNode
      PROVE  path_cache'[n][t] = path_cache[n][t]
  <2>1. CASE n = p
    <3>1. path_cache'[n][t] =
            IF \E m \in nodes : t = Bare[name[m]] THEN NoNode ELSE path_cache[n][t]
      BY <1>1, <1>5, <2>1 DEF Forget
    <3>2. QED
      BY <1>6, <3>1
  <2>2. CASE n # p
    BY <1>1, <1>5, <2>2 DEF Forget
  <2>3. QED
    BY <2>1, <2>2
<1> SUFFICES ASSUME dropped' = {} PROVE WalksRight' /\ RemembersRight'
  BY <1>3 DEF TrailsInv
<1>7. dropped = {} /\ RemembersRight
  BY <1>4 DEF Grows, TrailsInv
<1>8. WalksRight'
  <2>1. Idle.at = NoNode
    BY DEF Idle
  <2>2. QED
    BY <1>1, <2>1 DEF WalksRight, Walking
<1>9. ASSUME NEW n \in Nodes, NEW t \in Texts, path_cache'[n][t] # NoNode
      PROVE  Reaches(n, Parse[t], Len(Parse[t]), path_cache[n][t])'
  <2>1. PICK m : m = path_cache[n][t] /\ m = path_cache'[n][t]
    BY <1>6, <1>9
  <2>2. PICK k \in Nat : k = Len(Parse[t])
    BY ParseAssumption
  <2>3. Reaches(n, Parse[t], k, m)
    BY <1>7, <1>9, <2>1, <2>2 DEF RemembersRight
  <2>4. Reaches(n, Parse[t], k, m)'
    BY <1>4, <1>7, <2>3, ReachesOn
  <2>5. QED
    BY <2>1, <2>2, <2>4
<1>10. RemembersRight'
  BY <1>9 DEF RemembersRight
<1>11. QED
  BY <1>8, <1>10

PathInv == TreeInv /\ Ages /\ TrailsInv

LEMMA PathStarts ==
  ASSUME TreeInit
  PROVE  PathInv
<1>1. TreeInv
  BY TreeStarts DEF TreeInit
<1>2. /\ call = Idle /\ path_cache = [n \in Nodes |-> [t \in Texts |-> NoNode]]
      /\ created = 1 /\ parent = [n \in Nodes |-> NoNode] /\ REMOVED = {}
  BY DEF TreeInit
<1>3. Idle.at = NoNode
  BY DEF Idle
<1>4. Ages
  BY <1>2, <1>3, RootIsNode DEF Ages, Walking, Existing, Root
<1>5. TrailsInv
  BY <1>2, <1>3 DEF TrailsInv, WalksRight, RemembersRight, Walking
<1>6. QED
  BY <1>1, <1>4, <1>5 DEF PathInv

LEMMA PathStep ==
  ASSUME PathInv, TreeNext
  PROVE  PathInv'
<1>1. TreeInv'
  BY TreeStep DEF PathInv
<1>2. CASE Removals
  <2>1. PICK p \in Nodes, keep \in BOOLEAN :
          RemoveChild(p, keep) \/ \E s \in Names : RemoveChildren(p, s, keep)
    BY <1>2 DEF Removals
  <2>2. PICK nodes \in SUBSET children[p] : nodes # {} /\ Erase(p, nodes, keep)
    BY <2>1 DEF RemoveChild, RemoveChildren
  <2>3. QED
    BY <1>1, <2>2, EraseTrails DEF PathInv
<1>3. CASE Looks
  BY <1>1, <1>3, LookTrails DEF PathInv
<1>4. CASE Revive
  BY <1>1, <1>4, ReviveTrails DEF PathInv
<1>5. CASE New
  BY <1>1, <1>5, NewTrails DEF PathInv
<1>6. QED
  BY <1>2, <1>3, <1>4, <1>5 DEF TreeNext, FindNode, Looks

LEMMA PathStutters ==
  ASSUME PathInv, UNCHANGED tree_vars
  PROVE  PathInv'
<1>1. UNCHANGED <<shapeVars, path_cache, call, dropped>>
  BY DEF tree_vars
<1>2. UNCHANGED <<created, name, index, parent, children, removedChildren, REMOVED>>
  BY <1>1 DEF shapeVars
<1>3. TreeInv'
  BY TreeStutters DEF PathInv
<1>4. Ages'
  BY <1>1, <1>2 DEF PathInv, Ages, Walking, Existing
<1>5. TrailsInv'
  <2>1. /\ \A a, c, b : Follows(a, c, b)' <=> Follows(a, c, b)
        /\ Existing' = Existing
    BY <1>2 DEF Follows, Held, Existing
  <2>2. \A g, n, components, k : Trail(g, n, components, k)' <=> Trail(g, n, components, k)
    BY <2>1 DEF Trail
  <2>3. \A n, components, k, m : Reaches(n, components, k, m)' <=> Reaches(n, components, k, m)
    BY <2>2 DEF Reaches
  <2>4. WalksRight' <=> WalksRight
    <3>1. Walking' <=> Walking
      BY <1>1 DEF Walking
    <3>2. QED
      BY <1>1, <2>3, <3>1 DEF WalksRight
  <2>5. RemembersRight' <=> RemembersRight
    BY <1>1, <2>3 DEF RemembersRight
  <2>6. QED
    BY <1>1, <2>4, <2>5 DEF PathInv, TrailsInv
<1>6. QED
  BY <1>3, <1>4, <1>5 DEF PathInv

-----------------------------------------------------------------------------
(* What a walk without the cache finds *)

\* Where it goes from v along the component c.
Onto(v, c) ==
  IF v = NoNode THEN NoNode
  ELSE CASE c.name = ""   -> Root
         [] c.name = "."  -> v
         [] c.name = ".." -> parent[v]
         [] OTHER ->
              LET slot == Slot(v, c.name, c.index, children)
              IN  IF slot = {} THEN NoNode ELSE CHOOSE m \in slot : TRUE

LEMMA OntoFollows ==
  ASSUME PathInv, NEW v \in Existing, NEW c \in Components
  PROVE  /\ Onto(v, c) \in Existing \cup {NoNode}
         /\ Onto(v, c) # NoNode => Follows(v, c, Onto(v, c))
<1>1. Existing \subseteq Nodes /\ Root \in Existing /\ \A p \in Nodes : Held(p) \subseteq Existing
  BY ExistingAreNodes DEF PathInv
<1>2. v # NoNode
  BY <1>1, MaxNodesAssumption
<1>3. "" # "." /\ "" # ".." /\ "." # ".."
  OBVIOUS
<1>4. CASE c.name = ""
  BY <1>1, <1>2, <1>4 DEF Onto, Follows
<1>5. CASE c.name = "."
  BY <1>1, <1>2, <1>3, <1>5 DEF Onto, Follows
<1>6. CASE c.name = ".."
  <2>1. Onto(v, c) = parent[v]
    BY <1>2, <1>3, <1>6 DEF Onto
  <2>2. parent[v] \in Existing \cup {NoNode}
    BY DEF PathInv, Ages
  <2>3. QED
    BY <1>6, <2>1, <2>2 DEF Follows
<1>7. CASE c.name \notin {"", ".", ".."}
  <2>1. c.name \in Names
    BY <1>7 DEF Components
  <2> DEFINE slot == Slot(v, c.name, c.index, children)
  <2>2. Onto(v, c) = IF slot = {} THEN NoNode ELSE CHOOSE m \in slot : TRUE
    BY <1>2, <1>7 DEF Onto
  <2>3. ASSUME slot # {}
        PROVE  Onto(v, c) \in Held(v) /\ name[Onto(v, c)] = c.name /\ index[Onto(v, c)] = c.index
    <3>1. Onto(v, c) \in slot
      <4> HIDE DEF slot
      <4>1. QED
        BY <2>2, <2>3
    <3>2. QED
      BY <3>1 DEF Slot, Held
  <2>4. QED
    BY <1>1, <2>1, <2>2, <2>3 DEF Follows
<1>8. QED
  BY <1>4, <1>5, <1>6, <1>7

Going(components) ==
  [p \in Nat \X (Existing \cup {NoNode}) |->
     IF p[1] \in 1 .. Len(components) THEN Onto(p[2], components[p[1]]) ELSE p[2]]

LEMMA GoingGoes ==
  ASSUME PathInv, NEW components \in Seq(Components)
  PROVE  /\ Going(components) \in [Nat \X (Existing \cup {NoNode}) -> Existing \cup {NoNode}]
         /\ \A i \in 1 .. Len(components), v \in Existing \cup {NoNode} :
              Going(components)[<<i, v>>] = Onto(v, components[i])
<1> DEFINE V == Existing \cup {NoNode}
<1>1. ASSUME NEW v \in V, NEW c \in Components PROVE Onto(v, c) \in V
  <2>1. CASE v = NoNode
    BY <2>1 DEF Onto
  <2>2. CASE v # NoNode
    BY <2>2, OntoFollows
  <2>3. QED
    BY <2>1, <2>2
<1>2. ASSUME NEW p \in Nat \X V
      PROVE  (IF p[1] \in 1 .. Len(components) THEN Onto(p[2], components[p[1]]) ELSE p[2]) \in V
  <2>1. p[2] \in V
    OBVIOUS
  <2>2. CASE p[1] \in 1 .. Len(components)
    <3>1. components[p[1]] \in Components
      BY <2>2
    <3>2. QED
      BY <1>1, <2>1, <2>2, <3>1
  <2>3. QED
    BY <2>1, <2>2
<1>3. Going(components) \in [Nat \X V -> V]
  BY <1>2 DEF Going
<1>4. ASSUME NEW i \in 1 .. Len(components), NEW v \in V
      PROVE  Going(components)[<<i, v>>] = Onto(v, components[i])
  <2>1. <<i, v>> \in Nat \X V /\ <<i, v>>[1] = i /\ <<i, v>>[2] = v
    OBVIOUS
  <2>2. QED
    BY <2>1 DEF Going
<1>5. QED
  BY <1>3, <1>4

\* The steps of that walk.
LEMMA FindWalks ==
  ASSUME PathInv, NEW n \in Existing, NEW components \in Seq(Components)
  PROVE  \E f \in [0 .. Len(components) -> Existing \cup {NoNode}] :
           /\ f[0] = n
           /\ \A i \in 1 .. Len(components) : f[i] = Onto(f[i - 1], components[i])
           /\ Find(n, components) =
                IF f[Len(components)] \in REMOVED THEN NoNode ELSE f[Len(components)]
<1> DEFINE V == Existing \cup {NoNode}
           len == Len(components)
           Def(g) ==
             g = [i \in 0 .. len |->
                    IF i = 0 THEN n
                    ELSE IF g[i - 1] = NoNode THEN NoNode
                    ELSE CASE components[i].name = ""   -> Root
                           [] components[i].name = "."  -> g[i - 1]
                           [] components[i].name = ".." -> parent[g[i - 1]]
                           [] OTHER ->
                                LET slot == Slot(g[i - 1], components[i].name,
                                                 components[i].index, children)
                                IN  IF slot = {} THEN NoNode ELSE CHOOSE m \in slot : TRUE]
           Goes(g) == g = [i \in 0 .. len |-> IF i = 0 THEN n ELSE Onto(g[i - 1], components[i])]
           h == CHOOSE g : Def(g)
<1>1. len \in Nat
  OBVIOUS
<1>2. n \in V /\ Going(components) \in [Nat \X V -> V]
  BY GoingGoes
<1>3. PICK f \in [0 .. len -> V] : Takes(f, len, n, Going(components))
  <2> HIDE DEF V, len
  <2>1. QED
    BY <1>1, <1>2, RecursionUpTo
<1>4. f[0] = n /\ \A i \in 1 .. len : f[i] = Onto(f[i - 1], components[i])
  <2>1. ASSUME NEW i \in 1 .. len PROVE f[i] = Onto(f[i - 1], components[i])
    <3>1. f[i - 1] \in V /\ f[i] = Going(components)[<<i, f[i - 1]>>]
      BY <1>1, <1>3 DEF Takes
    <3>2. QED
      BY <3>1, GoingGoes
  <2>2. QED
    BY <1>3, <2>1 DEF Takes
<1>5. \A g : Def(g) <=> Goes(g)
  BY DEF Onto
<1>6. Goes(f)
  <2>1. \A i \in 0 .. len : f[i] = IF i = 0 THEN n ELSE Onto(f[i - 1], components[i])
    BY <1>1, <1>4
  <2>2. QED
    BY <2>1
<1>7. Def(f)
  <2> HIDE DEF Def, Goes
  <2>1. QED
    BY <1>5, <1>6
<1>8. Find(n, components) = IF h[len] \in REMOVED THEN NoNode ELSE h[len]
  BY DEF Find
<1>9. Goes(h)
  <2> HIDE DEF Def, Goes
  <2>1. Def(h)
    BY <1>7
  <2> HIDE DEF h
  <2>2. QED
    BY <1>5, <2>1
<1> HIDE DEF h, Def
<1>10. ASSUME NEW i \in 0 .. len
       PROVE  h[i] = IF i = 0 THEN n ELSE Onto(h[i - 1], components[i])
  BY ONLY <1>9, <1>10
<1>11. \A i \in Nat : i \in {j \in Nat : j <= len => h[j] = f[j]}
  <2> DEFINE S == {j \in Nat : j <= len => h[j] = f[j]}
  <2>1. 0 \in S
    <3>1. 0 \in 0 .. len
      BY <1>1
    <3>2. h[0] = n
      BY <1>10, <3>1
    <3>3. QED
      BY <1>4, <3>2
  <2>2. ASSUME NEW i \in Nat, i \in S PROVE i + 1 \in S
    <3>1. CASE i + 1 <= len
      <4>1. i <= len /\ i + 1 \in 0 .. len /\ i + 1 \in 1 .. len /\ i + 1 # 0 /\ (i + 1) - 1 = i
        BY <1>1, <3>1
      <4>2. h[i] = f[i]
        BY <2>2, <4>1
      <4>3. h[i + 1] = Onto(h[(i + 1) - 1], components[i + 1])
        BY <1>10, <4>1
      <4>4. f[i + 1] = Onto(f[(i + 1) - 1], components[i + 1])
        BY <1>4, <4>1
      <4>5. h[i + 1] = f[i + 1]
        BY <4>1, <4>2, <4>3, <4>4
      <4>6. QED
        BY <4>5
    <3>2. QED
      BY <3>1
  <2> HIDE DEF S
  <2>3. \A i \in Nat : i \in S
    BY <2>1, <2>2, InductiveSet
  <2>4. QED
    BY <2>3 DEF S
<1>12. h[len] = f[len]
  BY <1>1, <1>11
<1>13. Find(n, components) = IF f[len] \in REMOVED THEN NoNode ELSE f[len]
  BY <1>8, <1>12
<1>14. QED
  BY <1>3, <1>4, <1>13

LEMMA FindReaches ==
  ASSUME PathInv, NEW n \in Existing, NEW components \in Seq(Components),
         Find(n, components) # NoNode
  PROVE  Reaches(n, components, Len(components), Find(n, components))
<1> DEFINE V == Existing \cup {NoNode}
           len == Len(components)
<1>1. len \in Nat
  OBVIOUS
<1>2. PICK f \in [0 .. len -> V] :
        /\ f[0] = n
        /\ \A i \in 1 .. len : f[i] = Onto(f[i - 1], components[i])
        /\ Find(n, components) = IF f[len] \in REMOVED THEN NoNode ELSE f[len]
  BY FindWalks
<1>3. f[len] # NoNode /\ Find(n, components) = f[len]
  BY <1>2
<1>4. \A i \in Nat : i \in {j \in Nat : j <= len => f[len - j] # NoNode}
  <2> DEFINE S == {j \in Nat : j <= len => f[len - j] # NoNode}
  <2>1. 0 \in S
    BY <1>1, <1>3
  <2>2. ASSUME NEW i \in Nat, i \in S PROVE i + 1 \in S
    <3>1. CASE i + 1 <= len
      <4>1. i <= len /\ len - i \in 1 .. len /\ (len - i) - 1 = len - (i + 1)
        BY <1>1, <3>1
      <4>2. f[len - i] # NoNode
        BY <2>2, <4>1
      <4>3. f[len - i] = Onto(f[(len - i) - 1], components[len - i])
        BY <1>2, <4>1
      <4>4. f[(len - i) - 1] # NoNode
        BY <4>2, <4>3 DEF Onto
      <4>5. QED
        BY <4>1, <4>4
    <3>2. QED
      BY <3>1
  <2> HIDE DEF S
  <2>3. \A i \in Nat : i \in S
    BY <2>1, <2>2, InductiveSet
  <2>4. QED
    BY <2>3 DEF S
<1>5. ASSUME NEW i \in 0 .. len PROVE f[i] \in Existing
  <2>1. len - i \in Nat /\ len - i <= len /\ len - (len - i) = i
    BY <1>1
  <2>2. f[len - (len - i)] # NoNode
    BY <1>4, <2>1
  <2>3. f[i] \in V /\ f[i] # NoNode
    BY <2>1, <2>2
  <2>4. QED
    BY <2>3
<1>6. ASSUME NEW i \in 1 .. len PROVE Follows(f[i - 1], components[i], f[i])
  <2>1. i - 1 \in 0 .. len /\ i \in 0 .. len
    BY <1>1
  <2>2. PICK v \in Existing : v = f[i - 1]
    BY <1>5, <2>1
  <2>3. PICK c \in Components : c = components[i]
    OBVIOUS
  <2>4. f[i] = Onto(v, c) /\ f[i] # NoNode
    <3>1. f[i] \in Existing
      BY <1>5, <2>1
    <3>2. f[i] # NoNode
      BY <3>1, ExistingAreNodes, MaxNodesAssumption DEF PathInv
    <3>3. QED
      BY <1>2, <2>2, <2>3, <3>2
  <2>5. Follows(v, c, Onto(v, c))
    BY <2>4, OntoFollows
  <2>6. QED
    BY <2>2, <2>3, <2>4, <2>5
<1>7. f \in [0 .. len -> Existing]
  BY <1>5
<1>8. Trail(f, n, components, len)
  BY <1>2, <1>6, <1>7 DEF Trail
<1>9. QED
  BY <1>3, <1>8 DEF Reaches

\* A path leads from a node to one node.
LEMMA ReachesOne ==
  ASSUME TreeInv, NEW n \in Existing, NEW components \in Seq(Components),
         NEW b, NEW d,
         Reaches(n, components, Len(components), b), Reaches(n, components, Len(components), d)
  PROVE  b = d
<1>1. PICK len \in Nat : len = Len(components)
  OBVIOUS
<1>2. PICK g : Trail(g, n, components, len) /\ g[len] = b
  BY <1>1 DEF Reaches
<1>3. PICK h : Trail(h, n, components, len) /\ h[len] = d
  BY <1>1 DEF Reaches
<1> DEFINE S == {i \in Nat : i <= len => g[i] = h[i]}
<1>4. 0 \in S
  BY <1>2, <1>3 DEF Trail
<1>5. ASSUME NEW i \in Nat, i \in S PROVE i + 1 \in S
  <2>1. CASE i + 1 <= len
    <3>1. i <= len /\ i \in 0 .. len /\ i + 1 \in 0 .. len /\ i + 1 \in 1 .. len /\ (i + 1) - 1 = i
      BY <2>1
    <3>2. g[i] = h[i]
      BY <1>5, <3>1
    <3>3. /\ Follows(g[(i + 1) - 1], components[i + 1], g[i + 1])
          /\ Follows(h[(i + 1) - 1], components[i + 1], h[i + 1])
      BY <1>2, <1>3, <3>1 DEF Trail
    <3>4. PICK a \in Nodes, p \in Nodes, q \in Nodes : a = g[i] /\ p = g[i + 1] /\ q = h[i + 1]
      <4>1. g[i] \in Existing /\ g[i + 1] \in Existing /\ h[i + 1] \in Existing
        BY <1>2, <1>3, <3>1 DEF Trail
      <4>2. QED
        BY <4>1, ExistingAreNodes
    <3>5. PICK c \in Components : c = components[i + 1]
      BY <1>1, <3>1
    <3>6. Follows(a, c, p) /\ Follows(a, c, q)
      BY <3>1, <3>2, <3>3, <3>4, <3>5
    <3>7. p = q
      BY <3>6, FollowsOne
    <3>8. g[i + 1] = h[i + 1] /\ i + 1 \in Nat
      BY <3>4, <3>7
    <3>9. QED
      BY ONLY <3>8
  <2>2. QED
    BY <2>1
<1> HIDE DEF S
<1>6. \A i \in Nat : i \in S
  BY <1>4, <1>5, InductiveSet
<1>7. g[len] = h[len]
  BY <1>6 DEF S
<1>8. QED
  BY <1>2, <1>3, <1>7

LEMMA PathsAgree ==
  ASSUME PathInv
  PROVE  CacheAgrees
<1> SUFFICES ASSUME dropped = {}, NEW n \in Existing, NEW t \in Texts,
                    path_cache[n][t] # NoNode, Find(n, Parse[t]) # NoNode
             PROVE  path_cache[n][t] = Find(n, Parse[t])
  BY DEF CacheAgrees
<1>1. n \in Nodes
  BY ExistingAreNodes DEF PathInv
<1>2. PICK path \in Seq(Components) : path = Parse[t]
  BY ParseAssumption
<1>3. PICK b, d : b = path_cache[n][t] /\ d = Find(n, path)
  OBVIOUS
<1>4. Reaches(n, path, Len(path), b)
  BY <1>1, <1>2, <1>3 DEF PathInv, TrailsInv, RemembersRight
<1>5. Reaches(n, path, Len(path), d)
  BY <1>2, <1>3, FindReaches
<1>6. b = d
  BY <1>4, <1>5, ReachesOne DEF PathInv
<1>7. QED
  BY <1>2, <1>3, <1>6

\* What getNode() answers from memory is the node that a walk finds, for any path, any
\* names and any sequence of walks, removals and returns that drops no node; and the bare
\* name of a child is never answered with a child that was removed.
THEOREM Paths_AreRight == TreeSpec => []PathsAreRight
<1>1. TreeInit => PathInv
  BY PathStarts
<1>2. PathInv /\ [TreeNext]_tree_vars => PathInv'
  BY PathStep, PathStutters
<1>3. PathInv => CacheAgrees
  BY PathsAgree
<1>4. TreeSpec => []CacheAgrees
  BY <1>1, <1>2, <1>3, PTL DEF TreeSpec
<1>5. CacheAgrees /\ BareNameIsLive => PathsAreRight
  BY DEF PathsAreRight
<1>6. QED
  BY <1>4, <1>5, BareName_IsLive, PTL

-----------------------------------------------------------------------------
(* What getNode() that creates returns *)

\* No node from m up to the root is removed.
Upright(m) ==
  \E A \in SUBSET Existing :
    /\ m \in A /\ A \cap REMOVED = {}
    /\ \A x \in A : parent[x] # NoNode => parent[x] \in A

GoesUpright == Walking /\ call.create /\ Upright(call.from) => Upright(call.at)

\* One step up from each of a set of nodes.
Above(nodes) == nodes \cup {parent[m] : m \in nodes \ {NoNode}}

Rising ==
  [p \in Nat \X SUBSET (Existing \cup {NoNode}) |-> Above(p[2])]

LEMMA AncestorsRise ==
  ASSUME PathInv, NEW n \in Existing
  PROVE  \E up \in [0 .. MaxNodes -> SUBSET (Existing \cup {NoNode})] :
           /\ up[0] = {n}
           /\ \A i \in 1 .. MaxNodes : up[i] = Above(up[i - 1])
           /\ Ancestors(n) = up[MaxNodes] \ {NoNode}
<1> DEFINE V == SUBSET (Existing \cup {NoNode})
           Def(g) ==
             g = [i \in 0 .. MaxNodes |->
                    IF i = 0 THEN {n} ELSE g[i - 1] \cup {parent[m] : m \in g[i - 1] \ {NoNode}}]
           Goes(g) == g = [i \in 0 .. MaxNodes |-> IF i = 0 THEN {n} ELSE Above(g[i - 1])]
           h == CHOOSE g : Def(g)
<1>1. MaxNodes \in Nat
  BY MaxNodesAssumption
<1>2. \A nodes \in V : Above(nodes) \in V
  BY DEF PathInv, Ages, Above
<1>3. Rising \in [Nat \X V -> V] /\ \A i \in Nat, nodes \in V : Rising[<<i, nodes>>] = Above(nodes)
  <2>1. ASSUME NEW p \in Nat \X V PROVE Above(p[2]) \in V
    <3>1. p[2] \in V
      OBVIOUS
    <3>2. QED
      BY <1>2, <3>1
  <2>2. Rising \in [Nat \X V -> V]
    BY <2>1 DEF Rising
  <2>3. ASSUME NEW i \in Nat, NEW nodes \in V PROVE Rising[<<i, nodes>>] = Above(nodes)
    <3>1. <<i, nodes>> \in Nat \X V /\ <<i, nodes>>[2] = nodes
      OBVIOUS
    <3>2. QED
      BY <3>1 DEF Rising
  <2>4. QED
    BY <2>2, <2>3
<1>4. {n} \in V
  OBVIOUS
<1>5. PICK f \in [0 .. MaxNodes -> V] : Takes(f, MaxNodes, {n}, Rising)
  <2> HIDE DEF V
  <2>1. QED
    BY <1>1, <1>3, <1>4, RecursionUpTo
<1>6. f[0] = {n} /\ \A i \in 1 .. MaxNodes : f[i] = Above(f[i - 1])
  <2>1. ASSUME NEW i \in 1 .. MaxNodes PROVE f[i] = Above(f[i - 1])
    <3>1. f[i - 1] \in V /\ f[i] = Rising[<<i, f[i - 1]>>] /\ i \in Nat
      BY <1>1, <1>5 DEF Takes
    <3>2. QED
      BY <1>3, <3>1
  <2>2. QED
    BY <1>5, <2>1 DEF Takes
<1>7. \A g : Def(g) <=> Goes(g)
  BY DEF Above
<1>8. Goes(f)
  <2>1. \A i \in 0 .. MaxNodes : f[i] = IF i = 0 THEN {n} ELSE Above(f[i - 1])
    BY <1>1, <1>6
  <2>2. QED
    BY <2>1
<1>9. Ancestors(n) = h[MaxNodes] \ {NoNode}
  BY DEF Ancestors
<1>10. Goes(h)
  <2> HIDE DEF Def, Goes
  <2>1. Def(f)
    BY <1>7, <1>8
  <2>2. Def(h)
    BY <2>1
  <2> HIDE DEF h
  <2>3. QED
    BY <1>7, <2>2
<1> HIDE DEF h, Def
<1>11. ASSUME NEW i \in 0 .. MaxNodes
       PROVE  h[i] = IF i = 0 THEN {n} ELSE Above(h[i - 1])
  BY ONLY <1>10, <1>11
<1> DEFINE S == {j \in Nat : j <= MaxNodes => h[j] = f[j]}
<1>12. 0 \in S
  <2>1. 0 \in 0 .. MaxNodes
    BY <1>1
  <2>2. h[0] = {n}
    BY <1>11, <2>1
  <2>3. QED
    BY <1>6, <2>2
<1>13. ASSUME NEW i \in Nat, i \in S PROVE i + 1 \in S
  <2>1. CASE i + 1 <= MaxNodes
    <3>1. /\ i <= MaxNodes /\ i + 1 \in 0 .. MaxNodes /\ i + 1 \in 1 .. MaxNodes
          /\ i + 1 # 0 /\ (i + 1) - 1 = i
      BY <1>1, <2>1
    <3>2. h[i] = f[i]
      BY <1>13, <3>1
    <3>3. h[i + 1] = Above(h[(i + 1) - 1])
      BY <1>11, <3>1
    <3>4. f[i + 1] = Above(f[(i + 1) - 1])
      BY <1>6, <3>1
    <3>5. h[i + 1] = f[i + 1] /\ i + 1 \in Nat
      BY <3>1, <3>2, <3>3, <3>4
    <3>6. QED
      BY ONLY <3>5
  <2>2. QED
    BY <2>1
<1>14. \A i \in Nat : i \in S
  <2> HIDE DEF S
  <2>1. QED
    BY <1>12, <1>13, InductiveSet
<1>15. h[MaxNodes] = f[MaxNodes]
  BY <1>1, <1>14
<1>16. QED
  BY <1>5, <1>6, <1>9, <1>15

\* MaxNodes steps are enough: a parent is older than its children.
LEMMA AncestorsUpright ==
  ASSUME PathInv, NEW n \in Existing, Ancestors(n) \cap REMOVED = {}
  PROVE  Upright(n)
<1>1. PICK up \in [0 .. MaxNodes -> SUBSET (Existing \cup {NoNode})] :
        /\ up[0] = {n}
        /\ \A i \in 1 .. MaxNodes : up[i] = Above(up[i - 1])
        /\ Ancestors(n) = up[MaxNodes] \ {NoNode}
  BY AncestorsRise
<1>2. /\ MaxNodes \in Nat /\ NoNode \notin Existing /\ Root \in Existing
      /\ \A x \in Existing : x \in Nat /\ 1 <= x /\ x <= MaxNodes
  BY ExistingAreNodes, MaxNodesAssumption DEF PathInv, Nodes
<1>3. \A x \in Existing : parent[x] # NoNode => parent[x] \in Existing /\ parent[x] < x
  BY DEF PathInv, Ages
<1> DEFINE S == {d \in Nat : \A i \in 0 .. MaxNodes : i + d <= MaxNodes => up[i] \subseteq up[i + d]}
<1>4. \A d \in Nat : d \in S
  <2>1. 0 \in S
    OBVIOUS
  <2>2. ASSUME NEW d \in Nat, d \in S PROVE d + 1 \in S
    <3>1. ASSUME NEW i \in 0 .. MaxNodes, i + (d + 1) <= MaxNodes
          PROVE  up[i] \subseteq up[i + (d + 1)]
      <4>1. i + d <= MaxNodes /\ i + (d + 1) \in 1 .. MaxNodes /\ (i + (d + 1)) - 1 = i + d
        BY <1>2, <3>1
      <4>2. up[i] \subseteq up[i + d]
        BY <2>2, <4>1
      <4>3. up[i + (d + 1)] = Above(up[(i + (d + 1)) - 1])
        BY <1>1, <4>1
      <4>4. up[i + (d + 1)] = Above(up[i + d])
        BY <4>1, <4>3
      <4>5. QED
        BY <4>2, <4>4 DEF Above
    <3>2. QED
      BY <3>1
  <2> HIDE DEF S
  <2>3. QED
    BY <2>1, <2>2, InductiveSet
<1>5. ASSUME NEW i \in 0 .. MaxNodes, NEW j \in i .. MaxNodes PROVE up[i] \subseteq up[j]
  <2>1. j - i \in Nat /\ i + (j - i) = j /\ j <= MaxNodes
    BY <1>2
  <2>2. j - i \in S
    BY <1>4, <2>1
  <2>3. up[i] \subseteq up[i + (j - i)]
    BY <2>1, <2>2
  <2>4. QED
    BY <2>1, <2>3
<1> HIDE DEF S
<1> DEFINE T == {i \in Nat : i <= MaxNodes =>
                   \A x \in up[i] \cap Existing : x <= n /\ x \in up[n - x]}
<1>6. \A i \in Nat : i \in T
  <2>1. 0 \in T
    <3>1. ASSUME NEW x \in up[0] PROVE x <= n /\ x \in up[n - x]
      <4>1. x = n /\ n - n = 0
        BY <1>1, <1>2
      <4>2. QED
        BY <1>1, <1>2, <4>1
    <3>2. QED
      BY <3>1
  <2>2. ASSUME NEW i \in Nat, i \in T PROVE i + 1 \in T
    <3> SUFFICES ASSUME i + 1 <= MaxNodes, NEW x \in up[i + 1], x \in Existing
                 PROVE  x <= n /\ x \in up[n - x]
      OBVIOUS
    <3>1. i <= MaxNodes /\ i + 1 \in 1 .. MaxNodes /\ (i + 1) - 1 = i /\ i \in 0 .. MaxNodes
      BY <1>2
    <3>2. up[i + 1] = Above(up[(i + 1) - 1])
      BY <1>1, <3>1
    <3>3. up[i + 1] = Above(up[i])
      BY <3>1, <3>2
    <3>4. \A y \in up[i] \cap Existing : y <= n /\ y \in up[n - y]
      BY <2>2, <3>1
    <3>5. CASE x \in up[i]
      BY <3>4, <3>5
    <3>6. CASE x \notin up[i]
      <4>1. PICK m \in up[i] \ {NoNode} : x = parent[m]
        BY <3>3, <3>6 DEF Above
      <4>2. m \in Existing
        BY <1>1, <3>1, <4>1
      <4>3. x < m /\ m <= n /\ m \in up[n - m] /\ x # NoNode
        BY <1>2, <1>3, <3>4, <4>1, <4>2
      <4>4. /\ (n - m) + 1 \in 1 .. MaxNodes /\ ((n - m) + 1) - 1 = n - m
            /\ n - x \in (n - m) + 1 .. MaxNodes /\ (n - m) + 1 \in 0 .. MaxNodes /\ x <= n
        BY <1>2, <4>2, <4>3
      <4>5. up[(n - m) + 1] = Above(up[((n - m) + 1) - 1])
        BY <1>1, <4>4
      <4>6. up[(n - m) + 1] = Above(up[n - m])
        BY <4>4, <4>5
      <4>7. x \in up[(n - m) + 1]
        BY <4>1, <4>3, <4>6 DEF Above
      <4>8. up[(n - m) + 1] \subseteq up[n - x]
        BY <1>5, <4>4
      <4>9. QED
        BY <4>4, <4>7, <4>8
    <3>7. QED
      BY <3>5, <3>6
  <2> HIDE DEF T
  <2>3. QED
    BY <2>1, <2>2, InductiveSet
<1>7. \A x \in up[MaxNodes] \cap Existing : x <= n /\ x \in up[n - x]
  BY <1>2, <1>6
<1> HIDE DEF T
<1>8. ASSUME NEW x \in Ancestors(n), parent[x] # NoNode PROVE parent[x] \in Ancestors(n)
  <2>1. x \in up[MaxNodes] \cap Existing
    BY <1>1, <1>2
  <2>2. x <= n /\ x \in up[n - x] /\ x # NoNode
    BY <1>2, <1>7, <2>1
  <2>3. /\ (n - x) + 1 \in 1 .. MaxNodes /\ ((n - x) + 1) - 1 = n - x
        /\ MaxNodes \in (n - x) + 1 .. MaxNodes /\ (n - x) + 1 \in 0 .. MaxNodes
    BY <1>2, <2>1, <2>2
  <2>4. up[(n - x) + 1] = Above(up[((n - x) + 1) - 1])
    BY <1>1, <2>3
  <2>5. up[(n - x) + 1] = Above(up[n - x])
    BY <2>3, <2>4
  <2>6. parent[x] \in up[(n - x) + 1]
    BY <2>2, <2>5 DEF Above
  <2>7. up[(n - x) + 1] \subseteq up[MaxNodes]
    BY <1>5, <2>3
  <2>8. QED
    BY <1>1, <1>8, <2>6, <2>7
<1>9. n \in Ancestors(n)
  <2>1. 0 \in 0 .. MaxNodes /\ MaxNodes \in 0 .. MaxNodes
    BY <1>2
  <2>2. up[0] \subseteq up[MaxNodes]
    BY <1>5, <2>1
  <2>3. QED
    BY <1>1, <1>2, <2>2
<1>10. Ancestors(n) \in SUBSET Existing
  BY <1>1, <1>2
<1>11. QED
  BY <1>8, <1>9, <1>10 DEF Upright

-----------------------------------------------------------------------------

\* A node that is not removed, below one that is upright, is upright.
LEMMA UprightBelow ==
  ASSUME PathInv, NEW a \in Existing, NEW n \in Existing, Upright(a),
         n \notin REMOVED, parent[n] = a
  PROVE  Upright(n)
<1>1. PICK A \in SUBSET Existing :
        /\ a \in A /\ A \cap REMOVED = {}
        /\ \A x \in A : parent[x] # NoNode => parent[x] \in A
  BY DEF Upright
<1>2. A \cup {n} \in SUBSET Existing /\ n \in A \cup {n} /\ (A \cup {n}) \cap REMOVED = {}
  BY <1>1
<1>3. \A x \in A \cup {n} : parent[x] # NoNode => parent[x] \in A \cup {n}
  BY <1>1
<1>4. QED
  BY <1>2, <1>3 DEF Upright

LEMMA RootUpright ==
  ASSUME PathInv
  PROVE  Upright(Root)
<1>1. Root \in Existing /\ Root \notin REMOVED /\ parent[Root] = NoNode
  BY ExistingAreNodes DEF PathInv, Ages
<1>2. {Root} \in SUBSET Existing /\ {Root} \cap REMOVED = {}
  BY <1>1
<1>3. QED
  BY <1>1, <1>2 DEF Upright

LEMMA LookUpright ==
  ASSUME PathInv, GoesUpright, Looks
  PROVE  GoesUpright'
<1>1. UNCHANGED <<created, name, index, parent, children, removedChildren, REMOVED>>
  BY LookKeepsShape DEF shapeVars
<1>2. \A m : Upright(m)' <=> Upright(m)
  BY <1>1 DEF Upright, Existing
<1>3. ASSUME call' = Idle PROVE GoesUpright'
  <2>1. Idle.at = NoNode
    BY DEF Idle
  <2>2. QED
    BY <1>3, <2>1 DEF GoesUpright, Walking
<1>4. ASSUME NEW n \in Nodes, Walking, call.rest # << >>, MoveTo(n),
             Upright(call.at) => Upright(n)
      PROVE  GoesUpright'
  <2>1. call \in Calls /\ call' = [call EXCEPT !.at = n, !.rest = Tail(call.rest)]
    BY <1>4, WalkExists, MoveIsCall DEF PathInv, TreeInv
  <2>2. call'.at = n /\ call'.from = call.from /\ call'.create = call.create
    BY <2>1 DEF Calls
  <2>3. call'.create /\ Upright(call'.from) => Upright(n)
    BY <1>4, <2>2 DEF GoesUpright
  <2>4. Upright(call.from)' <=> Upright(call'.from)
    BY <1>1 DEF Upright, Existing
  <2>5. Upright(call.at)' <=> Upright(n)
    BY <1>1, <2>2 DEF Upright, Existing
  <2>6. QED
    BY <2>3, <2>4, <2>5 DEF GoesUpright
<1>5. CASE GetNodeCalls
  <2>1. call' = Idle \/ call'.at = call'.from
    BY <1>5 DEF GetNodeCalls, GetNodeCached, GetNode, GetNodeIndex, Walk
  <2>2. ASSUME call'.at = call'.from PROVE GoesUpright'
    BY <2>2 DEF GoesUpright
  <2>3. QED
    BY <1>3, <2>1, <2>2
<1>6. CASE Arrive \/ PastRoot \/ NotThere
  BY <1>3, <1>6 DEF Arrive, PastRoot, NotThere, Return
<1>7. CASE ToRoot
  BY <1>4, <1>7, RootIsNode, RootUpright DEF ToRoot, ComponentIs
<1>8. CASE ToSelf
  <2>1. call.at \in Nodes
    BY <1>8, WalkExists, ExistingAreNodes DEF ToSelf, ComponentIs, PathInv
  <2>2. QED
    BY <1>4, <1>8, <2>1 DEF ToSelf, ComponentIs
<1>9. CASE ToParent
  <2>1. call.at \in Existing /\ parent[call.at] # NoNode
    BY <1>9, WalkExists DEF ToParent, ComponentIs, PathInv
  <2>2. PICK n \in Nodes : n = parent[call.at]
    BY <2>1, ExistingAreNodes DEF PathInv, Ages
  <2>3. Upright(call.at) => Upright(n)
    BY <2>1, <2>2 DEF Upright
  <2>4. QED
    BY <1>4, <1>9, <2>2, <2>3 DEF ToParent, ComponentIs
<1>10. CASE ToChild
  <2>1. PICK n \in Named(children) : MoveTo(n)
    BY <1>10 DEF ToChild
  <2>2. AtName /\ call.at \in Nodes /\ call.at \in Existing
    BY <1>10, AtNode, WalkExists DEF ToChild, AtName, PathInv
  <2>3. n \in children[call.at] /\ n \in Held(call.at)
    BY <2>1 DEF Named, Slot, Held
  <2>4. n \in Existing /\ n \in Nodes /\ n # Root /\ parent[n] = call.at
    BY <2>2, <2>3, ExistingAreNodes DEF PathInv, TreeInv, Shape
  <2>5. n \notin REMOVED
    BY <2>3, <2>4 DEF PathInv, TreeInv, NodesAreKept, NoNodeIsLost
  <2>6. Upright(call.at) => Upright(n)
    BY <2>2, <2>4, <2>5, UprightBelow
  <2>7. QED
    BY <1>4, <2>1, <2>2, <2>4, <2>6 DEF AtName
<1>11. QED
  BY <1>5, <1>6, <1>7, <1>8, <1>9, <1>10 DEF Looks

\* A node that comes back may be what its own way here was missing.
LEMMA ReviveUpright ==
  ASSUME PathInv, GoesUpright, Revive
  PROVE  GoesUpright'
<1>1. PICK n \in Named(removedChildren) : REMOVED' = REMOVED \ {n} /\ MoveTo(n)
  BY DEF Revive
<1>2. AtName /\ Walking /\ call.create /\ UNCHANGED <<created, parent>>
  BY DEF Revive, AtName
<1>3. call.at \in Nodes /\ call.at \in Existing /\ n \in Held(call.at)
  BY <1>1, <1>2, AtNode, WalkExists DEF Named, Slot, Held, PathInv
<1>4. n \in Existing /\ n \in Nodes /\ n # Root /\ parent[n] = call.at
  BY <1>3, ExistingAreNodes DEF PathInv, TreeInv, Shape
<1>5. call \in Calls /\ call' = [call EXCEPT !.at = n, !.rest = Tail(call.rest)]
  BY <1>1, <1>2, <1>4, WalkExists, MoveIsCall DEF PathInv, TreeInv, AtName
<1>6. call'.at = n /\ call'.from = call.from
  BY <1>5 DEF Calls
<1>7. PICK f : f = call.from
  OBVIOUS
<1>8. ASSUME Upright(f)' PROVE Upright(n)'
  <2>1. PICK A \in SUBSET Existing :
          /\ f \in A /\ A \cap REMOVED' = {}
          /\ \A x \in A : parent[x] # NoNode => parent[x] \in A
    BY <1>2, <1>8 DEF Upright, Existing
  <2>2. CASE n \in A
    BY <1>2, <2>1, <2>2 DEF Upright, Existing
  <2>3. CASE n \notin A
    <3>1. A \cap REMOVED = {}
      BY <1>1, <2>1, <2>3
    <3>2. Upright(f)
      BY <2>1, <3>1 DEF Upright
    <3>3. Upright(call.at)
      BY <1>2, <1>7, <3>2 DEF GoesUpright
    <3>4. PICK B \in SUBSET Existing :
            /\ call.at \in B /\ B \cap REMOVED = {}
            /\ \A x \in B : parent[x] # NoNode => parent[x] \in B
      BY <3>3 DEF Upright
    <3>5. B \cup {n} \in SUBSET Existing' /\ n \in B \cup {n} /\ (B \cup {n}) \cap REMOVED' = {}
      BY <1>1, <1>2, <1>4, <3>4 DEF Existing
    <3>6. \A x \in B \cup {n} : parent'[x] # NoNode => parent'[x] \in B \cup {n}
      BY <1>2, <1>4, <3>4
    <3>7. QED
      BY <3>5, <3>6 DEF Upright
  <2>4. QED
    BY <2>2, <2>3
<1>9. Upright(call.from)' => Upright(call.at)'
  <2>1. call'.from = f /\ call'.at = n
    BY <1>6, <1>7
  <2>2. QED
    BY <1>8, <2>1
<1>10. QED
  BY <1>9 DEF GoesUpright

LEMMA NewUpright ==
  ASSUME PathInv, GoesUpright, New
  PROVE  GoesUpright'
<1>1. Grows /\ Existing' = Existing \cup {created + 1} /\ created + 1 \in Nodes \ Existing
  BY NewGrows DEF PathInv
<1>2. PICK n \in Nodes : n = created + 1
  BY <1>1
<1>3. /\ parent' = [parent EXCEPT ![n] = call.at] /\ REMOVED' = REMOVED
      /\ MoveTo(n) /\ AtName /\ Walking /\ call.create
  BY <1>2 DEF New, Add, AtName
<1>4. call.at \in Existing /\ call.from \in Existing /\ n \notin Existing /\ NoNode \notin Nodes
  BY <1>1, <1>2, <1>3, WalkExists, MaxNodesAssumption DEF PathInv
<1>5. call \in Calls /\ call' = [call EXCEPT !.at = n, !.rest = Tail(call.rest)]
  BY <1>2, <1>3, WalkExists, MoveIsCall DEF PathInv, TreeInv, AtName
<1>6. call'.at = n /\ call'.from = call.from
  BY <1>5 DEF Calls
<1>7. /\ \A m \in Existing : parent'[m] = parent[m]
      /\ parent'[n] = call.at /\ n \notin REMOVED
      /\ \A m \in Existing : parent[m] \in Existing \cup {NoNode}
  <2>1. \A m \in Existing : parent'[m] = parent[m]
    BY <1>1 DEF Grows
  <2>2. parent'[n] = call.at
    BY <1>3 DEF PathInv, TreeInv, TreeTypeOK
  <2>3. n \notin REMOVED
    BY <1>4 DEF PathInv, TreeInv, TreeTypeOK
  <2>4. \A m \in Existing : parent[m] \in Existing \cup {NoNode}
    BY DEF PathInv, Ages
  <2>5. QED
    BY <2>1, <2>2, <2>3, <2>4
<1>8. PICK f \in Existing : f = call.from
  BY <1>4
<1>9. ASSUME Upright(f)' PROVE Upright(n)'
  <2>1. PICK A \in SUBSET Existing' :
          /\ f \in A /\ A \cap REMOVED' = {}
          /\ \A x \in A : parent'[x] # NoNode => parent'[x] \in A
    BY <1>9 DEF Upright
  <2>2. /\ A \ {n} \in SUBSET Existing /\ f \in A \ {n} /\ (A \ {n}) \cap REMOVED = {}
        /\ \A x \in A \ {n} : parent[x] # NoNode => parent[x] \in A \ {n}
    BY <1>1, <1>2, <1>3, <1>4, <1>7, <1>8, <2>1
  <2>3. Upright(f)
    BY <2>2 DEF Upright
  <2>4. Upright(call.at)
    BY <1>3, <1>8, <2>3 DEF GoesUpright
  <2>5. PICK B \in SUBSET Existing :
          /\ call.at \in B /\ B \cap REMOVED = {}
          /\ \A x \in B : parent[x] # NoNode => parent[x] \in B
    BY <2>4 DEF Upright
  <2>6. B \cup {n} \in SUBSET Existing' /\ n \in B \cup {n} /\ (B \cup {n}) \cap REMOVED' = {}
    BY <1>1, <1>2, <1>3, <1>7, <2>5
  <2>7. \A x \in B \cup {n} : parent'[x] # NoNode => parent'[x] \in B \cup {n}
    BY <1>7, <2>5
  <2>8. QED
    BY <2>6, <2>7 DEF Upright
<1>10. Upright(call.from)' => Upright(call.at)'
  <2>1. call'.from = f /\ call'.at = n
    BY <1>6, <1>8
  <2>2. QED
    BY <1>9, <2>1
<1>11. QED
  BY <1>10 DEF GoesUpright

WayInv == PathInv /\ GoesUpright

LEMMA WayStep ==
  ASSUME WayInv, TreeNext
  PROVE  WayInv'
<1>1. PathInv'
  BY PathStep DEF WayInv
<1>2. CASE Removals
  <2>1. call' = Idle
    BY <1>2 DEF Removals, RemoveChild, RemoveChildren, Erase
  <2>2. Idle.at = NoNode
    BY DEF Idle
  <2>3. QED
    BY <1>1, <2>1, <2>2 DEF WayInv, GoesUpright, Walking
<1>3. CASE Looks
  BY <1>1, <1>3, LookUpright DEF WayInv
<1>4. CASE Revive
  BY <1>1, <1>4, ReviveUpright DEF WayInv
<1>5. CASE New
  BY <1>1, <1>5, NewUpright DEF WayInv
<1>6. QED
  BY <1>2, <1>3, <1>4, <1>5 DEF TreeNext, FindNode, Looks

LEMMA WayStutters ==
  ASSUME WayInv, UNCHANGED tree_vars
  PROVE  WayInv'
<1>1. UNCHANGED <<call, created, parent, REMOVED>>
  BY DEF tree_vars, shapeVars
<1>2. GoesUpright'
  <2>1. \A m : Upright(m)' <=> Upright(m)
    BY <1>1 DEF Upright, Existing
  <2>2. Upright(call.from)' <=> Upright(call.from)
    BY <1>1 DEF Upright, Existing
  <2>3. Upright(call.at)' <=> Upright(call.at)
    BY <1>1 DEF Upright, Existing
  <2>4. QED
    BY <1>1, <2>2, <2>3 DEF WayInv, GoesUpright, Walking
<1>3. QED
  BY <1>2, PathStutters DEF WayInv

\* What a walk that creates returns from a node that stands.
FindsOne ==
  Walking /\ call' = Idle /\ call.create /\ Ancestors(call.from) \cap REMOVED = {}
    => result' # NoNode

LEMMA WalkFinds ==
  ASSUME WayInv, TreeNext
  PROVE  FindsOne
<1> SUFFICES ASSUME Walking, call' = Idle, call.create,
                    Ancestors(call.from) \cap REMOVED = {}
             PROVE  result' # NoNode
  BY DEF FindsOne
<1>1. PathInv /\ TreeInv /\ call \in Calls /\ call.at \in Existing /\ call.from \in Existing
  BY WalkExists DEF WayInv, PathInv
<1>2. Upright(call.at)
  BY <1>1, AncestorsUpright DEF WayInv, GoesUpright
<1>3. call.at \notin REMOVED /\ call.at # NoNode
  BY <1>2 DEF Upright, Walking
<1>4. Idle.at = NoNode
  BY DEF Idle
<1>5. call # Idle
  BY <1>3, <1>4
<1>6. ASSUME NEW n \in Nodes, MoveTo(n), call.rest # << >> PROVE FALSE
  <2>1. call' = [call EXCEPT !.at = n, !.rest = Tail(call.rest)]
    BY <1>1, <1>6, MoveIsCall DEF TreeInv
  <2>2. call'.at = n
    BY <1>1, <2>1 DEF Calls
  <2>3. QED
    BY <1>4, <2>2, MaxNodesAssumption
<1>7. CASE Arrive
  <2>1. result' = call.at
    BY <1>3, <1>7 DEF Arrive, Return
  <2>2. QED
    BY <1>3, <2>1
<1>8. CASE PastRoot
  BY <1>8, MaxNodesAssumption DEF PastRoot, Return
<1>9. CASE GetNodeCalls \/ Removals
  BY <1>5, <1>9 DEF GetNodeCalls, GetNodeCached, GetNode, GetNodeIndex, Removals, RemoveChild,
                    RemoveChildren, Erase
<1>10. CASE ToRoot
  BY <1>6, <1>10, RootIsNode DEF ToRoot, ComponentIs
<1>11. CASE ToSelf
  BY <1>1, <1>6, <1>11, ExistingAreNodes DEF ToSelf, ComponentIs
<1>12. CASE ToParent
  <2>1. parent[call.at] \in Nodes
    BY <1>1, <1>12, ExistingAreNodes DEF ToParent, TreeInv, TreeTypeOK
  <2>2. QED
    BY <1>6, <1>12, <2>1 DEF ToParent, ComponentIs
<1>13. CASE ToChild \/ Revive
  <2>1. PICK n \in Named(children) \cup Named(removedChildren) : MoveTo(n)
    BY <1>13 DEF ToChild, Revive
  <2>2. n \in Nodes /\ AtName
    BY <1>1, <1>13, <2>1, AtNode DEF ToChild, Revive, Named, Slot
  <2>3. QED
    BY <1>6, <2>1, <2>2 DEF AtName
<1>14. CASE New
  <2>1. created + 1 \in Nodes /\ AtName /\ MoveTo(created + 1)
    BY <1>1, <1>14, NewGrows DEF New, Add
  <2>2. QED
    BY <1>6, <2>1 DEF AtName
<1>15. CASE NotThere
  BY <1>15 DEF NotThere
<1>16. QED
  BY <1>7, <1>8, <1>9, <1>10, <1>11, <1>12, <1>13, <1>14, <1>15 DEF TreeNext, FindNode

\* getNode(path, true) returns a node unless the path leads past the root or was asked of
\* a node that is removed or below one, for any paths, names and number of nodes: the
\* setters that take a path use what it returns without looking.
THEOREM Create_Finds == TreeSpec => CreateFinds
<1>1. TreeInit => WayInv
  <2> SUFFICES ASSUME TreeInit PROVE WayInv
    OBVIOUS
  <2>1. call = Idle /\ Idle.at = NoNode
    BY DEF TreeInit, Idle
  <2>2. QED
    BY <2>1, PathStarts DEF WayInv, GoesUpright, Walking
<1>2. WayInv /\ [TreeNext]_tree_vars => WayInv'
  BY WayStep, WayStutters
<1>3. WayInv /\ [TreeNext]_tree_vars => [FindsOne]_tree_vars
  BY WalkFinds
<1>4. TreeSpec => [][FindsOne]_tree_vars
  BY <1>1, <1>2, <1>3, PTL DEF TreeSpec
<1>5. QED
  BY <1>4 DEF CreateFinds, FindsOne

-----------------------------------------------------------------------------
(* The values: the conversions *)

LEMMA KindsAreTypes ==
  /\ NumericTypes \subseteq {"BOOL", "INT", "LONG", "FLOAT", "DOUBLE"}
  /\ ValueTypes = NumericTypes \cup {"STRING", "UNSPECIFIED"}
  /\ Kinds = NumericTypes \cup {"STRING"} /\ TextTypes = {"STRING", "UNSPECIFIED"}
  /\ NumericTypes \cap TextTypes = {}
  /\ "NONE" \notin ValueTypes /\ "ALIAS" \notin ValueTypes
BY TypesAssumption DEF ValueTypes, Kinds, TextTypes

LEMMA TruncTruncs ==
  ASSUME NEW v \in Numbers
  PROVE  /\ Trunc(v) \in Numbers /\ Trunc(v) \in Int /\ Trunc(v) % One = 0
         /\ Trunc(Trunc(v)) = Trunc(v)
<1>1. v \in Int /\ Trunc(v) \in Numbers /\ Trunc(v) \in Int
  BY NumbersAssumption, WholeAssumption
<1>2. PICK u \in Int : Trunc(v) = u * 2
  <2>1. CASE v >= 0
    <3>1. Trunc(v) = (v \div 2) * 2 /\ v \div 2 \in Int
      BY <1>1, <2>1 DEF Trunc
    <3>2. QED
      BY <3>1
  <2>2. CASE ~(v >= 0)
    <3>1. Trunc(v) = (-(-v \div 2)) * 2 /\ -(-v \div 2) \in Int
      BY <1>1, <2>2 DEF Trunc
    <3>2. QED
      BY <3>1
  <2>3. QED
    BY <2>1, <2>2
<1>3. Trunc(u * 2) = u * 2 /\ (u * 2) % 2 = 0
  BY DEF Trunc
<1>4. QED
  BY <1>1, <1>2, <1>3 DEF One

LEMMA NumberIs ==
  /\ \A v : Number(v)[1] = "number" /\ Number(v)[2] = v
  /\ \A s : Text(s)[1] = "text" /\ Text(s)[2] = s
  /\ \A v, u : Number(v) = Number(u) <=> v = u
BY DEF Number, Text

\* The values of each type.
LEMMA ValuesAre ==
  /\ \A k \in TextTypes : Values(k) = {Text(s) : s \in Strings}
  /\ "BOOL" \in NumericTypes => Values("BOOL") = {Number(0), Number(One)}
  /\ \A k \in {"INT", "LONG"} \cap NumericTypes : Values(k) = {Number(Trunc(v)) : v \in Numbers}
  /\ \A k \in {"FLOAT", "DOUBLE"} \cap NumericTypes : Values(k) = {Number(v) : v \in Numbers}
<1>1. \A k \in NumericTypes : Values(k) = {FromNumber(v, k) : v \in Numbers}
  BY KindsAreTypes DEF Values
<1>2. \A k \in TextTypes : Values(k) = {Text(s) : s \in Strings}
  BY DEF Values
<1>3. ASSUME "BOOL" \in NumericTypes PROVE Values("BOOL") = {Number(0), Number(One)}
  <2>1. 0 \in Numbers /\ One \in Numbers /\ One # 0
    BY NumbersAssumption DEF One
  <2>2. FromNumber(0, "BOOL") = Number(0)
    BY DEF FromNumber, Truth
  <2>3. \A v \in Numbers : v # 0 => FromNumber(v, "BOOL") = Number(One)
    BY DEF FromNumber, Truth
  <2>4. QED
    BY <1>1, <1>3, <2>1, <2>2, <2>3
<1>4. \A k \in {"INT", "LONG"} \cap NumericTypes : Values(k) = {Number(Trunc(v)) : v \in Numbers}
  <2>1. \A k \in {"INT", "LONG"}, v \in Numbers : FromNumber(v, k) = Number(Trunc(v))
    BY DEF FromNumber
  <2>2. QED
    BY <1>1, <2>1
<1>5. \A k \in {"FLOAT", "DOUBLE"} \cap NumericTypes : Values(k) = {Number(v) : v \in Numbers}
  <2>1. \A k \in {"FLOAT", "DOUBLE"}, v \in Numbers : FromNumber(v, k) = Number(v)
    BY DEF FromNumber
  <2>2. QED
    BY <1>1, <2>1
<1>6. QED
  BY <1>2, <1>3, <1>4, <1>5

Digits == {Atoi, Strtol, Strtod}

\* Every conversion gives a value of its type.
LEMMA ConvertGives ==
  ASSUME NEW from \in ValueTypes, NEW to \in ValueTypes, NEW value \in Values(from),
         NEW digits \in Digits
  PROVE  Convert(value, from, to, digits) \in Values(to)
<1>1. \A d \in Digits, s \in Strings : d[s] \in Numbers
  BY LibraryAssumption DEF Digits
<1>2. \A v \in Numbers, k \in NumericTypes : FromNumber(v, k) \in Values(k)
  BY KindsAreTypes DEF Values
<1>3. \A k \in TextTypes : Values(k) = {Text(s) : s \in Strings}
  BY ValuesAre
<1>4. CASE from \in TextTypes
  <2>1. PICK s \in Strings : value = Text(s) /\ value[2] = s
    BY <1>3, <1>4, NumberIs
  <2>2. CASE to \in TextTypes
    BY <1>3, <1>4, <2>1, <2>2 DEF Convert
  <2>3. CASE to \in NumericTypes
    <3>1. Convert(value, from, to, digits) = FromText(s, to, digits)
      BY <1>4, <2>1, <2>3, KindsAreTypes DEF Convert
    <3>2. CASE to = "BOOL"
      <4>1. FromText(s, to, digits) \in {Number(0), Number(One)}
        BY <3>2 DEF FromText, Truth
      <4>2. QED
        BY <2>3, <3>1, <3>2, <4>1, ValuesAre
    <3>3. CASE to = "INT"
      <4>1. FromText(s, to, digits) = Number(Trunc(Atoi[s])) /\ Atoi[s] \in Numbers
        BY <1>1, <3>3 DEF FromText, Digits
      <4>2. QED
        BY <2>3, <3>1, <3>3, <4>1, ValuesAre
    <3>4. CASE to = "LONG"
      <4>1. FromText(s, to, digits) = Number(Trunc(Strtol[s])) /\ Strtol[s] \in Numbers
        BY <1>1, <3>4 DEF FromText, Digits
      <4>2. QED
        BY <2>3, <3>1, <3>4, <4>1, ValuesAre
    <3>5. CASE to \in {"FLOAT", "DOUBLE"}
      <4>1. FromText(s, to, digits) = Number(Strtod[s]) /\ Strtod[s] \in Numbers
        BY <1>1, <3>5 DEF FromText, Digits
      <4>2. QED
        BY <2>3, <3>1, <3>5, <4>1, ValuesAre
    <3>6. QED
      BY <2>3, <3>2, <3>3, <3>4, <3>5, KindsAreTypes
  <2>4. QED
    BY <2>2, <2>3, KindsAreTypes
<1>5. CASE from \in NumericTypes
  <2>1. PICK v \in Numbers : value[2] = v
    <3>1. ASSUME NEW u \in Numbers PROVE FromNumber(u, from)[2] \in Numbers
      BY NumbersAssumption, WholeAssumption, NumberIs DEF FromNumber, Truth
    <3>2. QED
      BY <1>5, <3>1, KindsAreTypes DEF Values
  <2>2. CASE to \in TextTypes
    <3>1. Convert(value, from, to, digits) = ToText(v, from)
      BY <1>5, <2>1, <2>2, KindsAreTypes DEF Convert
    <3>2. ToText(v, from) \in {Text(s) : s \in Strings}
      BY StringsAssumption, LibraryAssumption DEF ToText
    <3>3. QED
      BY <1>3, <2>2, <3>1, <3>2
  <2>3. CASE to \in NumericTypes
    <3>1. Convert(value, from, to, digits) = FromNumber(v, to)
      BY <1>5, <2>1, <2>3, KindsAreTypes DEF Convert
    <3>2. QED
      BY <1>2, <2>3, <3>1
  <2>4. QED
    BY <2>2, <2>3, KindsAreTypes
<1>6. QED
  BY <1>4, <1>5, KindsAreTypes

\* A value of a type stays what it is.
LEMMA ConvertSame ==
  ASSUME NEW k \in ValueTypes, NEW value \in Values(k), NEW digits
  PROVE  Convert(value, k, k, digits) = value
<1>1. CASE k \in TextTypes
  BY <1>1 DEF Convert
<1>2. CASE k \in NumericTypes
  <2>1. Convert(value, k, k, digits) = FromNumber(value[2], k)
    BY <1>2, KindsAreTypes DEF Convert
  <2>2. CASE k = "BOOL"
    <3>1. value \in {Number(0), Number(One)}
      BY <1>2, <2>2, ValuesAre
    <3>2. FromNumber(0, k) = Number(0) /\ FromNumber(One, k) = Number(One)
      BY <2>2 DEF FromNumber, Truth, One
    <3>3. QED
      BY <2>1, <3>1, <3>2, NumberIs
  <2>3. CASE k \in {"INT", "LONG"}
    <3>1. PICK v \in Numbers : value = Number(Trunc(v))
      BY <1>2, <2>3, ValuesAre
    <3>2. FromNumber(Trunc(v), k) = Number(Trunc(Trunc(v)))
      BY <2>3 DEF FromNumber
    <3>3. QED
      BY <2>1, <3>1, <3>2, TruncTruncs, NumberIs
  <2>4. CASE k \in {"FLOAT", "DOUBLE"}
    <3>1. PICK v \in Numbers : value = Number(v)
      BY <1>2, <2>4, ValuesAre
    <3>2. FromNumber(v, k) = Number(v)
      BY <2>4 DEF FromNumber
    <3>3. QED
      BY <2>1, <3>1, <3>2, NumberIs
  <2>5. QED
    BY <1>2, <2>2, <2>3, <2>4, KindsAreTypes
<1>3. QED
  BY <1>1, <1>2, KindsAreTypes

\* What a type can hold comes back as it was.
LEMMA ConvertBack ==
  ASSUME NEW k \in ValueTypes, NEW t \in ValueTypes, Holds(t, k), NEW value \in Values(k),
         NEW digits \in Digits
  PROVE  Convert(Convert(value, k, t, digits), t, GetterOf(k), Strtod) = value
<1>1. CASE k \in TextTypes
  <2>1. t \in TextTypes /\ GetterOf(k) = "STRING"
    BY <1>1 DEF Holds, GetterOf, TextTypes
  <2>2. QED
    BY <1>1, <2>1 DEF Convert, TextTypes
<1>2. CASE k \in NumericTypes
  <2>0. k \notin TextTypes /\ GetterOf(k) = k
    BY <1>2, KindsAreTypes DEF GetterOf
  <2>1. PICK v : v = value[2]
    OBVIOUS
  <2>2. CASE t \in NumericTypes
    <3>1. /\ Convert(value, k, t, digits) = FromNumber(v, t)
          /\ Convert(FromNumber(v, t), t, k, Strtod) = FromNumber(FromNumber(v, t)[2], k)
      BY <2>0, <2>1, <2>2, KindsAreTypes DEF Convert
    <3> SUFFICES FromNumber(FromNumber(v, t)[2], k) = value
      BY <2>0, <3>1
    <3>2. CASE k = "BOOL"
      <4>1. value = Number(v) /\ v \in {0, One}
        BY <1>2, <2>1, <3>2, ValuesAre, NumberIs
      <4>2. FromNumber(v, t) = Number(v)
        BY <4>1 DEF FromNumber, Truth, Trunc, One
      <4>3. FromNumber(v, k) = Number(v)
        BY <3>2, <4>1 DEF FromNumber, Truth, One
      <4>4. QED
        BY <4>1, <4>2, <4>3, NumberIs
    <3>3. CASE k \in {"INT", "LONG"}
      <4>1. PICK u \in Numbers : value = Number(Trunc(u)) /\ v = Trunc(u)
        BY <1>2, <2>1, <3>3, ValuesAre, NumberIs
      <4>2. t \in {"INT", "LONG", "FLOAT", "DOUBLE"}
        BY <2>2, <3>3, KindsAreTypes DEF Holds
      <4>3. FromNumber(v, t) = Number(v) /\ FromNumber(v, k) = Number(v)
        BY <3>3, <4>1, <4>2, TruncTruncs DEF FromNumber
      <4>4. QED
        BY <4>1, <4>3, NumberIs
    <3>4. CASE k \in {"FLOAT", "DOUBLE"}
      <4>1. value = Number(v)
        BY <1>2, <2>1, <3>4, ValuesAre, NumberIs
      <4>2. t \in {"FLOAT", "DOUBLE"}
        BY <2>2, <3>4, KindsAreTypes DEF Holds
      <4>3. FromNumber(v, t) = Number(v) /\ FromNumber(v, k) = Number(v)
        BY <3>4, <4>2 DEF FromNumber
      <4>4. QED
        BY <4>1, <4>3, NumberIs
    <3>5. QED
      BY <1>2, <3>2, <3>3, <3>4, KindsAreTypes
  <2>3. CASE t \in TextTypes
    <3>1. /\ Convert(value, k, t, digits) = ToText(v, k)
          /\ \A s : Convert(Text(s), t, k, Strtod) = FromText(s, k, Strtod)
      BY <2>0, <2>1, <2>3, NumberIs DEF Convert
    <3>2. CASE k = "BOOL"
      <4>1. value = Number(v) /\ v \in {0, One}
        BY <1>2, <2>1, <3>2, ValuesAre, NumberIs
      <4>2. ToText(v, k) = Text(IF v # 0 THEN "true" ELSE "false")
        BY <3>2 DEF ToText
      <4>3. /\ FromText("true", k, Strtod) = Number(One)
            /\ FromText("false", k, Strtod) = Number(0)
        BY <3>2, LibraryAssumption DEF FromText, Truth
      <4>4. CASE v = 0
        BY <2>0, <3>1, <4>1, <4>2, <4>3, <4>4
      <4>5. CASE v = One
        <5>1. v # 0
          BY <4>5 DEF One
        <5>2. QED
          BY <2>0, <3>1, <4>1, <4>2, <4>3, <4>5, <5>1
      <4>6. QED
        BY <4>1, <4>4, <4>5
    <3>3. CASE k \in {"INT", "LONG"}
      <4>1. PICK u \in Numbers : value = Number(Trunc(u)) /\ v = Trunc(u)
        BY <1>2, <2>1, <3>3, ValuesAre, NumberIs
      <4>2. ToText(v, k) = Text(Written[v])
        BY <3>3 DEF ToText
      <4>3. Atoi[Written[v]] = v /\ Strtol[Written[v]] = v /\ Trunc(v) = v
        BY <4>1, TruncTruncs, LibraryAssumption
      <4>4. FromText(Written[v], k, Strtod) = Number(v)
        BY <3>3, <4>3 DEF FromText
      <4>5. QED
        BY <2>0, <3>1, <4>1, <4>2, <4>4
    <3>4. CASE k \in {"FLOAT", "DOUBLE"}
      <4>1. value = Number(v) /\ v \in Numbers
        BY <1>2, <2>1, <3>4, ValuesAre, NumberIs
      <4>2. ToText(v, k) = Text(Written[v])
        BY <3>4 DEF ToText
      <4>3. FromText(Written[v], k, Strtod) = Number(v)
        BY <3>4, <4>1, LibraryAssumption DEF FromText
      <4>4. QED
        BY <2>0, <3>1, <4>1, <4>2, <4>3
    <3>5. QED
      BY <1>2, <3>2, <3>3, <3>4, KindsAreTypes
  <2>4. QED
    BY <2>2, <2>3, KindsAreTypes
<1>3. QED
  BY <1>1, <1>2, KindsAreTypes

-----------------------------------------------------------------------------
(* Aliases *)

NodeRecords ==
  [type : ValueTypes \cup {"NONE", "ALIAS"}, tied : BOOLEAN,
   attr : SUBSET Attributes, target : Props \cup {NoTarget},
   raw : SUBSET Functions, local : Contents, outside : Contents]

\* What a node holds is of its type, in the place where its getters look.
HoldsItsType(s) ==
  /\ s.tied => s.type \in Kinds /\ s.outside \in Values(s.type) /\ s.local = Zero
  /\ ~s.tied /\ s.type \in ValueTypes => s.local \in Values(s.type)
  /\ ~s.tied /\ s.type \notin ValueTypes => s.local = Zero

\* An alias stands for an older node.
NodesOK(w) ==
  /\ w \in [Props -> NodeRecords]
  /\ \A n \in Props : /\ HoldsItsType(w[n])
                      /\ w[n].type = "ALIAS" => w[n].target \in Props /\ w[n].target < n

\* A chain goes on from the node that an alias stands for.
LEMMA ChainGoesOn ==
  ASSUME NEW w, NodesOK(w)
  PROVE  \A n \in Props :
           /\ w[n].type = "ALIAS" => Chain(w, n) = {n} \cup Chain(w, w[n].target)
           /\ w[n].type # "ALIAS" => Chain(w, n) = {n}
<1> DEFINE Def(hop) ==
             hop = [m \in Props |->
                      IF w[m].type = "ALIAS" THEN {m} \cup hop[w[m].target] ELSE {m}]
           Closed(A) == \A x \in A : w[x].type = "ALIAS" => w[x].target \in A
           g == [m \in Props |-> {x \in Props : \A A \in SUBSET Props :
                                                  Closed(A) /\ m \in A => x \in A}]
           h == CHOOSE hop : Def(hop)
<1>1. \A m \in Props : w[m].type = "ALIAS" => w[m].target \in Props
  BY DEF NodesOK
<1>2. \A m \in Props : g[m] = {x \in Props : \A A \in SUBSET Props : Closed(A) /\ m \in A => x \in A}
  OBVIOUS
<1>3. ASSUME NEW m \in Props, w[m].type # "ALIAS" PROVE g[m] = {m}
  <2>1. {m} \in SUBSET Props /\ Closed({m})
    BY <1>3
  <2> HIDE DEF Closed, g
  <2>2. QED
    BY <1>2, <2>1
<1>4. ASSUME NEW m \in Props, w[m].type = "ALIAS" PROVE g[m] = {m} \cup g[w[m].target]
  <2>1. PICK t \in Props : t = w[m].target
    BY <1>1, <1>4
  <2>2. \A A \in SUBSET Props : Closed(A) /\ m \in A => t \in A
    BY <1>4, <2>1
  <2>3. ASSUME NEW A \in SUBSET Props, Closed(A), t \in A
        PROVE  A \cup {m} \in SUBSET Props /\ Closed(A \cup {m})
    BY <2>1, <2>3
  <2> HIDE DEF Closed, g
  <2>4. g[m] \subseteq {m} \cup g[t]
    <3> SUFFICES ASSUME NEW x \in g[m], x # m, NEW A \in SUBSET Props, Closed(A), t \in A
                 PROVE  x \in A
      BY <1>2
    <3>1. A \cup {m} \in SUBSET Props /\ Closed(A \cup {m})
      BY <2>3
    <3>2. x \in A \cup {m}
      BY <1>2, <3>1
    <3>3. QED
      BY <3>2
  <2>5. {m} \cup g[t] \subseteq g[m]
    <3>1. m \in g[m]
      BY <1>2
    <3>2. g[t] \subseteq g[m]
      BY <1>2, <2>2
    <3>3. QED
      BY <3>1, <3>2
  <2>6. QED
    BY <2>1, <2>4, <2>5
<1>5. Def(g)
  <2>1. g = [m \in Props |-> g[m]]
    OBVIOUS
  <2>2. \A m \in Props : g[m] = IF w[m].type = "ALIAS" THEN {m} \cup g[w[m].target] ELSE {m}
    BY <1>3, <1>4
  <2> HIDE DEF g
  <2>3. QED
    BY <2>1, <2>2
<1>6. \A n : Chain(w, n) = h[n]
  BY DEF Chain
<1>7. Def(h)
  <2> HIDE DEF Def
  <2>1. QED
    BY <1>5
<1> HIDE DEF h
<1>8. ASSUME NEW m \in Props
      PROVE  h[m] = IF w[m].type = "ALIAS" THEN {m} \cup h[w[m].target] ELSE {m}
  BY ONLY <1>7, <1>8
<1> HIDE DEF Def
<1>9. QED
  BY <1>6, <1>8

\* What holds of a node if it holds of all older ones holds of every node.
LEMMA OlderFirst ==
  ASSUME NEW T \in SUBSET Props,
         \A n \in Props : (\A m \in Props : m < n => m \in T) => n \in T
  PROVE  T = Props
<1> DEFINE M == Props \ T
<1>1. M \in SUBSET Nat
  BY AliasAssumption
<1>2. ASSUME M # {} PROVE FALSE
  <2>1. PICK n \in M : \A m \in M : n <= m
    BY <1>1, <1>2, LeastElement
  <2>2. \A m \in Props : m < n => m \in T
    BY <1>1, <2>1, AliasAssumption
  <2>3. QED
    BY <2>1, <2>2
<1>3. QED
  BY <1>2

IsEnd(w, n, f) ==
  /\ f \in Chain(w, n) /\ w[f].type # "ALIAS"
  /\ \A m \in Chain(w, n) : w[m].type # "ALIAS" => m = f

\* A chain has one end.
LEMMA ChainEnds ==
  ASSUME NEW w, NodesOK(w)
  PROVE  \A n \in Props : Chain(w, n) \subseteq Props /\ IsEnd(w, n, Final(w, n))
<1> DEFINE T == {n \in Props : Chain(w, n) \subseteq Props /\ \E f : IsEnd(w, n, f)}
<1>1. ASSUME NEW n \in Props, \A m \in Props : m < n => m \in T PROVE n \in T
  <2>1. CASE w[n].type = "ALIAS"
    <3>1. PICK t \in T : t = w[n].target
      BY <1>1, <2>1 DEF NodesOK
    <3>2. Chain(w, n) = {n} \cup Chain(w, t)
      BY <2>1, <3>1, ChainGoesOn
    <3>3. PICK f : IsEnd(w, t, f)
      BY <3>1
    <3>4. IsEnd(w, n, f)
      BY <2>1, <3>2, <3>3 DEF IsEnd
    <3>5. QED
      BY <3>1, <3>2, <3>4
  <2>2. CASE w[n].type # "ALIAS"
    <3>1. Chain(w, n) = {n}
      BY <2>2, ChainGoesOn
    <3>2. IsEnd(w, n, n)
      BY <2>2, <3>1 DEF IsEnd
    <3>3. QED
      BY <3>1, <3>2
  <2>3. QED
    BY <2>1, <2>2
<1>2. T = Props
  <2>1. T \in SUBSET Props
    OBVIOUS
  <2> HIDE DEF T
  <2>2. QED
    BY <1>1, <2>1, OlderFirst
<1>3. ASSUME NEW n \in Props, NEW f, IsEnd(w, n, f) PROVE Final(w, n) = f
  BY <1>3 DEF Final, IsEnd
<1>4. ASSUME NEW n \in Props PROVE Chain(w, n) \subseteq Props /\ IsEnd(w, n, Final(w, n))
  <2>1. n \in T
    BY <1>2
  <2>2. PICK f : IsEnd(w, n, f)
    BY <2>1
  <2>3. Final(w, n) = f
    BY <1>3, <2>2
  <2>4. QED
    BY <2>1, <2>2, <2>3
<1>5. QED
  BY <1>4

LEMMA FinalIsNode ==
  ASSUME NEW w, NodesOK(w), NEW n \in Props
  PROVE  /\ Final(w, n) \in Props /\ w[Final(w, n)].type # "ALIAS"
         /\ Final(w, n) \in Chain(w, n) /\ Chain(w, n) \subseteq Props
         /\ w[n].type # "ALIAS" => Final(w, n) = n /\ Chain(w, n) = {n}
<1>1. Chain(w, n) \subseteq Props /\ IsEnd(w, n, Final(w, n))
  BY ChainEnds
<1>2. w[n].type # "ALIAS" => Chain(w, n) = {n}
  BY ChainGoesOn
<1>3. QED
  BY <1>1, <1>2 DEF IsEnd

\* The same nodes are aliases of the same nodes.
SameAliases(v, w) ==
  \A m \in Props : /\ v[m].type = "ALIAS" <=> w[m].type = "ALIAS"
                   /\ w[m].type = "ALIAS" => v[m].target = w[m].target

LEMMA ChainStays ==
  ASSUME NEW v, NEW w, NodesOK(v), NodesOK(w), SameAliases(v, w)
  PROVE  \A n \in Props : Chain(v, n) = Chain(w, n) /\ Final(v, n) = Final(w, n)
<1> DEFINE T == {n \in Props : Chain(v, n) = Chain(w, n)}
<1>1. ASSUME NEW n \in Props, \A m \in Props : m < n => m \in T PROVE n \in T
  <2>1. CASE w[n].type = "ALIAS"
    <3>1. w[n].target \in T /\ w[n].target = v[n].target /\ v[n].type = "ALIAS"
      BY <1>1, <2>1 DEF NodesOK, SameAliases
    <3>2. Chain(w, n) = {n} \cup Chain(w, w[n].target)
      <4> HIDE DEF T
      <4>1. QED
        BY <2>1, ChainGoesOn
    <3>3. Chain(v, n) = {n} \cup Chain(v, v[n].target)
      <4> HIDE DEF T
      <4>1. QED
        BY <3>1, ChainGoesOn
    <3>4. Chain(v, w[n].target) = Chain(w, w[n].target)
      BY <3>1
    <3>5. Chain(v, n) = Chain(w, n)
      <4> HIDE DEF T
      <4>1. QED
        BY <3>1, <3>2, <3>3, <3>4
    <3>6. QED
      BY <3>5
  <2>2. CASE w[n].type # "ALIAS"
    <3>1. v[n].type # "ALIAS"
      BY <2>2 DEF SameAliases
    <3>2. Chain(v, n) = {n} /\ Chain(w, n) = {n}
      <4> HIDE DEF T
      <4>1. QED
        BY <2>2, <3>1, ChainGoesOn
    <3>3. QED
      BY <3>2
  <2>3. QED
    BY <2>1, <2>2
<1>2. T = Props
  <2>1. T \in SUBSET Props
    OBVIOUS
  <2> HIDE DEF T
  <2>2. QED
    BY <1>1, <2>1, OlderFirst
<1>3. ASSUME NEW n \in Props PROVE Final(v, n) = Final(w, n)
  <2>1. Chain(v, n) = Chain(w, n)
    BY <1>2
  <2>2. IsEnd(v, n, Final(v, n)) /\ IsEnd(w, n, Final(w, n)) /\ Chain(w, n) \subseteq Props
    BY ChainEnds
  <2>3. w[Final(v, n)].type # "ALIAS" /\ Final(v, n) \in Chain(w, n)
    BY <2>1, <2>2 DEF IsEnd, SameAliases
  <2>4. QED
    BY <2>2, <2>3 DEF IsEnd
<1>4. QED
  BY <1>2, <1>3

-----------------------------------------------------------------------------
(* One node *)

LEMMA ValuesAreContents ==
  /\ \A k \in ValueTypes : Values(k) \subseteq Contents
  /\ Zero \in Contents
  /\ \A k \in NumericTypes : Zero \in Values(k)
  /\ \A k \in ValueTypes : Default(k) \in Values(k)
<1>1. 0 \in Numbers /\ One \in Numbers
  BY NumbersAssumption
<1>2. Zero \in Contents
  BY <1>1 DEF Zero, Contents
<1>3. ASSUME NEW k \in NumericTypes
      PROVE  Values(k) \subseteq Contents /\ Zero \in Values(k) /\ Default(k) \in Values(k)
  <2>1. ASSUME NEW v \in Numbers PROVE FromNumber(v, k) \in Contents
    BY <1>1, WholeAssumption DEF FromNumber, Truth, Contents
  <2>2. Values(k) = {FromNumber(v, k) : v \in Numbers} /\ Default(k) = Zero
    BY KindsAreTypes DEF Values, Default
  <2>3. FromNumber(0, k) = Zero
    BY DEF FromNumber, Truth, Trunc, Zero
  <2>4. QED
    BY <1>1, <2>1, <2>2, <2>3
<1>4. ASSUME NEW k \in TextTypes PROVE Values(k) \subseteq Contents /\ Default(k) \in Values(k)
  <2>1. Values(k) = {Text(s) : s \in Strings} /\ Default(k) = Text("")
    BY DEF Values, Default
  <2>2. QED
    BY <2>1, StringsAssumption DEF Contents
<1>5. QED
  BY <1>2, <1>3, <1>4, KindsAreTypes

LEMMA ClearedIs ==
  ASSUME NEW s \in NodeRecords, NEW c, c = Cleared(s)
  PROVE  /\ c \in NodeRecords /\ HoldsItsType(c)
         /\ c.type = "NONE" /\ ~c.tied /\ c.attr = s.attr /\ c.target = NoTarget
         /\ c.raw = {} /\ c.local = Zero /\ c.outside = Zero
<1>1. PICK d \in NodeRecords : d = [s EXCEPT !.type = "NONE", !.tied = FALSE]
  <2>1. [s EXCEPT !.type = "NONE", !.tied = FALSE] \in NodeRecords
    BY DEF NodeRecords
  <2>2. QED
    BY <2>1
<1>2. d.type = "NONE" /\ ~d.tied /\ d.attr = s.attr
  BY <1>1 DEF NodeRecords
<1>3. PICK e \in NodeRecords : e = [d EXCEPT !.target = NoTarget, !.raw = {}]
  <2>1. [d EXCEPT !.target = NoTarget, !.raw = {}] \in NodeRecords
    BY DEF NodeRecords
  <2>2. QED
    BY <2>1
<1>4. e.type = "NONE" /\ ~e.tied /\ e.attr = s.attr /\ e.target = NoTarget /\ e.raw = {}
  BY <1>2, <1>3 DEF NodeRecords
<1>5. c = [e EXCEPT !.local = Zero, !.outside = Zero]
  BY <1>1, <1>3 DEF Cleared, NodeRecords
<1>6. Zero \in Contents
  BY ValuesAreContents
<1>7. c \in NodeRecords
  BY <1>5, <1>6 DEF NodeRecords
<1>8. /\ c.type = "NONE" /\ ~c.tied /\ c.attr = s.attr /\ c.target = NoTarget
      /\ c.raw = {} /\ c.local = Zero /\ c.outside = Zero
  BY <1>4, <1>5 DEF NodeRecords
<1>9. HoldsItsType(c)
  BY <1>8, KindsAreTypes DEF HoldsItsType
<1>10. QED
  BY <1>7, <1>8, <1>9

\* A node takes the type of a setter only when it has none of its own.
LEMMA TypedIs ==
  ASSUME NEW s \in NodeRecords, HoldsItsType(s), s.type # "ALIAS", NEW k \in ValueTypes
  PROVE  /\ Typed(s, k) \in NodeRecords /\ Typed(s, k).type \in ValueTypes
         /\ Typed(s, k).attr = s.attr
         /\ Typed(s, k) = s \/ (~Typed(s, k).tied /\ Typed(s, k).type = k)
         /\ s.type \in Kinds \/ s.type = k => Typed(s, k) = s
<1>1. CASE s.type = "NONE" \/ (s.type = "UNSPECIFIED" /\ k # "UNSPECIFIED")
  <2>1. PICK c : c = Cleared(s)
    OBVIOUS
  <2>2. c \in NodeRecords /\ ~c.tied /\ c.attr = s.attr
    BY <2>1, ClearedIs
  <2>3. Typed(s, k) = [c EXCEPT !.type = k]
    BY <1>1, <2>1 DEF Typed
  <2>4. /\ Typed(s, k) \in NodeRecords /\ Typed(s, k).type = k /\ ~Typed(s, k).tied
        /\ Typed(s, k).attr = s.attr
    BY <2>2, <2>3 DEF NodeRecords
  <2>5. s.type \notin Kinds /\ s.type # k
    BY <1>1, KindsAreTypes
  <2>6. QED
    BY <2>4, <2>5
<1>2. CASE ~(s.type = "NONE" \/ (s.type = "UNSPECIFIED" /\ k # "UNSPECIFIED"))
  <2>1. Typed(s, k) = s
    BY <1>2 DEF Typed
  <2>2. s.type \in ValueTypes
    BY <1>2 DEF NodeRecords
  <2>3. QED
    BY <2>1, <2>2
<1>3. QED
  BY <1>1, <1>2

\* A setter leaves a value of the node's type; who reads the node finds it.
LEMMA StoredHolds ==
  ASSUME NEW s \in NodeRecords, HoldsItsType(s), s.type # "ALIAS", NEW k \in ValueTypes,
         NEW u, u = Typed(s, k), NEW value \in Values(u.type), NEW r, r = Stored(u, value)
  PROVE  /\ r \in NodeRecords /\ HoldsItsType(r)
         /\ r.type = u.type /\ r.attr = s.attr /\ r.tied = u.tied /\ r.raw = u.raw
         /\ Taken(u) /\ (r.tied => "getter" \in r.raw) => Content(r) = value
<1>1. /\ u \in NodeRecords /\ u.type \in ValueTypes /\ u.attr = s.attr
      /\ u = s \/ (~u.tied /\ u.type = k)
  BY TypedIs
<1>2. value \in Contents
  BY <1>1, ValuesAreContents
<1>3. CASE ~Taken(u)
  <2>1. u.tied /\ r = u
    BY <1>3 DEF Taken, Stored
  <2>2. u = s
    BY <1>1, <2>1
  <2>3. QED
    BY <1>1, <1>3, <2>1, <2>2
<1>4. CASE Taken(u) /\ u.tied
  <2>1. r = [u EXCEPT !.outside = value] /\ u = s
    BY <1>1, <1>4 DEF Stored
  <2>2. /\ r \in NodeRecords /\ r.outside = value /\ r.type = u.type /\ r.attr = u.attr
        /\ r.tied = u.tied /\ r.raw = u.raw /\ r.local = u.local
    BY <1>1, <1>2, <2>1 DEF NodeRecords
  <2>3. HoldsItsType(r)
    BY <1>4, <2>1, <2>2 DEF HoldsItsType
  <2>4. "getter" \in r.raw => Content(r) = value
    BY <1>4, <2>2 DEF Content
  <2>5. QED
    BY <1>1, <1>4, <2>2, <2>3, <2>4
<1>5. CASE Taken(u) /\ ~u.tied
  <2>1. r = [u EXCEPT !.local = value]
    BY <1>5 DEF Stored
  <2>2. /\ r \in NodeRecords /\ r.local = value /\ r.type = u.type /\ r.attr = u.attr
        /\ r.tied = u.tied /\ r.raw = u.raw
    BY <1>1, <1>2, <2>1 DEF NodeRecords
  <2>3. HoldsItsType(r)
    BY <1>1, <1>5, <2>2 DEF HoldsItsType
  <2>4. Content(r) = value
    BY <1>5, <2>2 DEF Content
  <2>5. QED
    BY <1>1, <2>2, <2>3, <2>4
<1>6. QED
  BY <1>3, <1>4, <1>5

\* What a node holds, seen through its getter.
LEMMA ContentIs ==
  ASSUME NEW s \in NodeRecords, HoldsItsType(s), s.type \in ValueTypes
  PROVE  Content(s) \in Values(s.type)
BY ValuesAreContents DEF HoldsItsType, Content

-----------------------------------------------------------------------------
(* The operations *)

LEMMA GetGives ==
  ASSUME NEW w, NodesOK(w), NEW n \in Props, NEW k \in ValueTypes
  PROVE  Get(w, n, k) \in Values(k)
<1> DEFINE s == w[Final(w, n)]
<1>1. Final(w, n) \in Props /\ s.type # "ALIAS"
  BY FinalIsNode
<1>2. s \in NodeRecords /\ HoldsItsType(s)
  BY <1>1 DEF NodesOK
<1>3. CASE ~Permits(w, n, "READ") \/ s.type = "NONE"
  BY <1>3, ValuesAreContents DEF Get
<1>4. CASE ~(~Permits(w, n, "READ") \/ s.type = "NONE")
  <2>1. s.type \in ValueTypes
    BY <1>1, <1>2, <1>4 DEF NodeRecords
  <2>2. Get(w, n, k) = Convert(Content(s), s.type, k, Strtod)
    BY <1>4 DEF Get
  <2>3. Content(s) \in Values(s.type)
    BY <1>2, <2>1, ContentIs
  <2>4. Strtod \in Digits
    BY DEF Digits
  <2> HIDE DEF s
  <2>5. QED
    BY <2>1, <2>2, <2>3, <2>4, ConvertGives
<1>5. QED
  BY <1>3, <1>4

Replaced(v, w, n, s) == v = [w EXCEPT ![n] = s]

\* Replacing one node by another that is no alias, or an alias of an older node.
LEMMA ReplaceKeeps ==
  ASSUME NEW w, NodesOK(w), NEW n \in Props, NEW s, s \in NodeRecords, HoldsItsType(s),
         s.type = "ALIAS" => s.target \in Props /\ s.target < n,
         NEW v, Replaced(v, w, n, s)
  PROVE  NodesOK(v) /\ v[n] = s /\ \A m \in Props \ {n} : v[m] = w[m]
<1>1. w \in [Props -> NodeRecords]
  BY DEF NodesOK
<1>2. v \in [Props -> NodeRecords] /\ v[n] = s /\ \A m \in Props \ {n} : v[m] = w[m]
  BY <1>1 DEF Replaced
<1>3. NodesOK(v)
  BY <1>2 DEF NodesOK
<1>4. QED
  BY <1>2, <1>3

LEMMA SetIs ==
  ASSUME NEW w, NodesOK(w), NEW n \in Props, NEW k \in ValueTypes, NEW value \in Values(k),
         NEW f, f = Final(w, n), NEW v, v = Set(w, n, k, value)
  PROVE  /\ NodesOK(v) /\ SameAliases(v, w)
         /\ \A m \in Props : v[m].attr = w[m].attr
         /\ w[f].type \in Kinds => v[f].type = w[f].type /\ v[f].raw = w[f].raw
         /\ Returns(w, n, k) =>
              /\ v[f].type \in ValueTypes
              /\ (v[f].tied => "getter" \in v[f].raw)
                   => Content(v[f]) = Convert(value, k, v[f].type, Atoi)
<1>1. f \in Props /\ w[f].type # "ALIAS"
  BY FinalIsNode
<1>2. w[f] \in NodeRecords /\ HoldsItsType(w[f])
  BY <1>1 DEF NodesOK
<1>3. PICK s : s = w[f]
  OBVIOUS
<1>4. PICK u : u = Typed(s, k)
  OBVIOUS
<1>5. u.type \in ValueTypes
  BY <1>1, <1>2, <1>3, <1>4, TypedIs
<1>6. PICK c : c = Convert(value, k, u.type, Atoi)
  OBVIOUS
<1>7. c \in Values(u.type)
  <2>1. Atoi \in Digits
    BY DEF Digits
  <2>2. QED
    BY <1>5, <1>6, <2>1, ConvertGives
<1>8. PICK r : r = Stored(u, c)
  OBVIOUS
<1>9. /\ r \in NodeRecords /\ HoldsItsType(r) /\ r.type = u.type /\ r.attr = s.attr
      /\ s.type \in Kinds => r.type = s.type /\ r.raw = s.raw
      /\ Taken(u) /\ (r.tied => "getter" \in r.raw) => Content(r) = c
  <2>1. /\ r \in NodeRecords /\ HoldsItsType(r) /\ r.type = u.type /\ r.attr = s.attr
        /\ r.raw = u.raw
        /\ Taken(u) /\ (r.tied => "getter" \in r.raw) => Content(r) = c
    BY <1>1, <1>2, <1>3, <1>4, <1>7, <1>8, StoredHolds
  <2>2. s.type \in Kinds => u = s
    BY <1>1, <1>2, <1>3, <1>4, TypedIs
  <2>3. QED
    BY <2>1, <2>2
<1>10. CASE ~Permits(w, n, "WRITE")
  <2>1. v = w
    BY <1>10 DEF Set
  <2>2. QED
    BY <1>10, <2>1 DEF Returns, SameAliases
<1>11. CASE Permits(w, n, "WRITE")
  <2>1. Replaced(v, w, f, r)
    BY <1>3, <1>4, <1>6, <1>8, <1>11 DEF Set, Replaced
  <2>2. r.type # "ALIAS"
    BY <1>5, <1>9, KindsAreTypes
  <2>3. NodesOK(v) /\ v[f] = r /\ \A m \in Props \ {f} : v[m] = w[m]
    BY <1>1, <1>9, <2>1, <2>2, ReplaceKeeps
  <2>4. SameAliases(v, w)
    BY <1>1, <2>2, <2>3 DEF SameAliases
  <2>5. Returns(w, n, k) => Taken(u)
    BY <1>3, <1>4 DEF Returns
  <2>6. \A m \in Props : v[m].attr = w[m].attr
    BY <1>3, <1>9, <2>3
  <2>7. QED
    BY <1>3, <1>5, <1>6, <1>9, <2>3, <2>4, <2>5, <2>6
<1>12. QED
  BY <1>10, <1>11

\* The same but for the attributes.
SameValues(x, v) ==
  \A m \in Props : /\ x[m].type = v[m].type /\ x[m].tied = v[m].tied
                   /\ x[m].target = v[m].target /\ x[m].raw = v[m].raw
                   /\ x[m].local = v[m].local /\ x[m].outside = v[m].outside

\* What a setter sets is read back, also after a change of attributes.
LEMMA SetGet ==
  ASSUME NEW w, NodesOK(w), NEW n \in Props, NEW k \in ValueTypes, NEW value \in Values(k),
         NEW v, v = Set(w, n, k, value), NEW x, NodesOK(x), SameValues(x, v),
         Returns(w, n, k), Readable(x, n), Holds(x[Final(x, n)].type, k)
  PROVE  Get(x, n, GetterOf(k)) = value
<1>1. PICK f \in Props : f = Final(w, n)
  BY FinalIsNode
<1>2. /\ NodesOK(v) /\ SameAliases(v, w) /\ v[f].type \in ValueTypes
      /\ (v[f].tied => "getter" \in v[f].raw)
           => Content(v[f]) = Convert(value, k, v[f].type, Atoi)
  BY <1>1, SetIs
<1>3. SameAliases(x, v)
  BY DEF SameAliases, SameValues
<1>4. Final(v, n) = f
  BY <1>1, <1>2, ChainStays
<1>5. Final(x, n) = f
  BY <1>2, <1>3, <1>4, ChainStays
<1>6. PICK t \in ValueTypes : t = x[f].type /\ t = v[f].type
  BY <1>1, <1>2 DEF SameValues
<1>7. Permits(x, n, "READ") /\ (x[f].tied => "getter" \in x[f].raw) /\ Holds(t, k)
  BY <1>5, <1>6 DEF Readable
<1>8. /\ x[f].tied = v[f].tied /\ x[f].raw = v[f].raw /\ x[f].local = v[f].local
      /\ x[f].outside = v[f].outside /\ x[f].type = v[f].type
  BY <1>1 DEF SameValues
<1>9. Content(x[f]) = Content(v[f])
  BY <1>8 DEF Content
<1>10. Content(x[f]) = Convert(value, k, t, Atoi)
  BY <1>2, <1>6, <1>7, <1>8, <1>9
<1>11. Get(x, n, GetterOf(k)) = Convert(Content(x[f]), t, GetterOf(k), Strtod)
  BY <1>5, <1>6, <1>7, KindsAreTypes DEF Get
<1>12. Atoi \in Digits
  BY DEF Digits
<1>13. QED
  BY <1>7, <1>10, <1>11, <1>12, ConvertBack

\* What tie() makes of a node.
TiedTo(w, n, k, functions, value) ==
  [Cleared(w[n]) EXCEPT !.type = k, !.tied = TRUE, !.raw = functions, !.outside = value]

LEMMA TiedIs ==
  ASSUME NEW w, NodesOK(w), NEW n \in Props, NEW k \in Kinds, NEW value \in Values(k),
         NEW functions \in SUBSET Functions, NEW s, s = TiedTo(w, n, k, functions, value)
  PROVE  /\ s \in NodeRecords /\ HoldsItsType(s) /\ s.type = k /\ s.tied /\ s.raw = functions
         /\ s.outside = value /\ s.attr = w[n].attr
<1>1. k \in ValueTypes /\ value \in Contents
  BY ValuesAreContents, KindsAreTypes
<1>2. PICK c : c = Cleared(w[n])
  OBVIOUS
<1>3. c \in NodeRecords /\ c.local = Zero /\ c.attr = w[n].attr
  <2>1. w[n] \in NodeRecords
    BY DEF NodesOK
  <2>2. QED
    BY <1>2, <2>1, ClearedIs
<1>4. PICK d \in NodeRecords : d = [c EXCEPT !.type = k, !.tied = TRUE]
  <2>1. [c EXCEPT !.type = k, !.tied = TRUE] \in NodeRecords
    BY <1>1, <1>3 DEF NodeRecords
  <2>2. QED
    BY <2>1
<1>5. d.type = k /\ d.tied /\ d.local = Zero /\ d.attr = w[n].attr
  BY <1>3, <1>4 DEF NodeRecords
<1>6. s = [d EXCEPT !.raw = functions, !.outside = value]
  BY <1>2, <1>3, <1>4 DEF TiedTo, NodeRecords
<1>7. s \in NodeRecords
  BY <1>1, <1>6 DEF NodeRecords
<1>8. /\ s.type = k /\ s.tied /\ s.raw = functions /\ s.outside = value /\ s.local = Zero
      /\ s.attr = w[n].attr
  BY <1>5, <1>6 DEF NodeRecords
<1>9. HoldsItsType(s)
  BY <1>8 DEF HoldsItsType
<1>10. QED
  BY <1>7, <1>8, <1>9

LEMMA TieKeeps ==
  ASSUME NEW w, NodesOK(w), NEW n \in Props, NEW k \in Kinds, NEW value \in Values(k),
         NEW functions \in SUBSET Functions, NEW useDefault \in BOOLEAN
  PROVE  NodesOK(Tie(w, n, k, functions, value, useDefault))
<1>1. k \in ValueTypes
  BY KindsAreTypes
<1>2. PICK s : s = TiedTo(w, n, k, functions, value)
  OBVIOUS
<1>3. s \in NodeRecords /\ HoldsItsType(s) /\ s.type = k
  BY <1>2, TiedIs
<1>4. PICK v : Replaced(v, w, n, s)
  BY DEF Replaced
<1>5. NodesOK(v)
  BY <1>1, <1>3, <1>4, ReplaceKeeps, KindsAreTypes
<1>6. PICK old : old = Get(w, n, k)
  OBVIOUS
<1>7. old \in Values(k)
  BY <1>1, <1>6, GetGives
<1>8. PICK x : x = Set(v, n, k, old)
  OBVIOUS
<1>9. NodesOK(x)
  BY <1>1, <1>5, <1>7, <1>8, SetIs
<1>10. Tie(w, n, k, functions, value, useDefault) \in {v, x}
  BY <1>2, <1>4, <1>6, <1>8 DEF Tie, TiedTo, Replaced
<1>11. QED
  BY <1>5, <1>9, <1>10

UntiedFrom(w, n) == [Cleared(w[n]) EXCEPT !.type = w[n].type, !.local = Get(w, n, w[n].type)]

LEMMA UntiedIs ==
  ASSUME NEW w, NodesOK(w), NEW n \in Props, w[n].tied, NEW s, s = UntiedFrom(w, n)
  PROVE  /\ s \in NodeRecords /\ HoldsItsType(s) /\ s.type = w[n].type /\ ~s.tied
         /\ s.local = Get(w, n, w[n].type) /\ s.attr = w[n].attr
         /\ w[n].type \in Kinds
<1>1. w[n] \in NodeRecords /\ w[n].type \in Kinds
  BY DEF NodesOK, HoldsItsType
<1>2. PICK k \in ValueTypes : k = w[n].type
  BY <1>1, KindsAreTypes
<1>3. PICK value \in Values(k) : value = Get(w, n, k)
  BY GetGives
<1>4. PICK c \in NodeRecords : c = Cleared(w[n]) /\ ~c.tied /\ c.attr = w[n].attr
  <2>1. PICK d : d = Cleared(w[n])
    OBVIOUS
  <2>2. QED
    BY <1>1, <2>1, ClearedIs
<1>5. s = [c EXCEPT !.type = k, !.local = value]
  BY <1>2, <1>3, <1>4 DEF UntiedFrom
<1>6. value \in Contents
  BY ValuesAreContents
<1>7. s \in NodeRecords
  BY <1>5, <1>6 DEF NodeRecords
<1>8. s.type = k /\ ~s.tied /\ s.local = value /\ s.attr = w[n].attr
  BY <1>4, <1>5 DEF NodeRecords
<1>9. HoldsItsType(s)
  BY <1>8 DEF HoldsItsType
<1>10. QED
  BY <1>1, <1>2, <1>3, <1>7, <1>8, <1>9

LEMMA CopyIs ==
  ASSUME NEW w, NodesOK(w), NEW m \in Props, NEW n \in Props, NEW x, x = Copy(w, m, n),
         NEW k, k = CopiedType(w, m)
  PROVE  /\ NodesOK(x)
         /\ k # "NONE" =>
              /\ k \in ValueTypes /\ GetterOf(k) \in ValueTypes
              /\ Get(w, m, GetterOf(k)) \in Values(k)
              /\ SameValues(x, Set(w, n, k, Get(w, m, GetterOf(k))))
<1>1. k \in ValueTypes \cup {"NONE"}
  BY FinalIsNode DEF CopiedType, NodesOK, NodeRecords
<1>2. ASSUME k # "NONE"
      PROVE  /\ k \in ValueTypes /\ GetterOf(k) \in ValueTypes
             /\ Get(w, m, GetterOf(k)) \in Values(k)
  <2>1. k \in ValueTypes /\ GetterOf(k) \in ValueTypes
    BY <1>1, <1>2, KindsAreTypes DEF GetterOf
  <2>2. Values(GetterOf(k)) = Values(k)
    BY DEF GetterOf, Values, TextTypes
  <2>3. QED
    BY <2>1, <2>2, GetGives
<1>3. PICK v : v = IF k = "NONE" THEN w ELSE Set(w, n, k, Get(w, m, GetterOf(k)))
  OBVIOUS
<1>4. NodesOK(v)
  <2>1. CASE k = "NONE"
    BY <1>3, <2>1
  <2>2. CASE k # "NONE"
    <3>1. PICK value \in Values(k) : value = Get(w, m, GetterOf(k))
      BY <1>2, <2>2
    <3>2. v = Set(w, n, k, value)
      BY <1>3, <2>2, <3>1
    <3>3. QED
      BY <1>2, <2>2, <3>2, SetIs
  <2>3. QED
    BY <2>1, <2>2
<1>5. PICK s : s = [v[n] EXCEPT !.attr = v[m].attr]
  OBVIOUS
<1>6. v[n] \in NodeRecords /\ v[m] \in NodeRecords /\ HoldsItsType(v[n])
  BY <1>4 DEF NodesOK
<1>7. /\ s \in NodeRecords /\ s.type = v[n].type /\ s.tied = v[n].tied
      /\ s.target = v[n].target /\ s.raw = v[n].raw /\ s.local = v[n].local
      /\ s.outside = v[n].outside
  BY <1>5, <1>6 DEF NodeRecords
<1>8. HoldsItsType(s)
  BY <1>6, <1>7 DEF HoldsItsType
<1>9. s.type = "ALIAS" => s.target \in Props /\ s.target < n
  BY <1>4, <1>7 DEF NodesOK
<1>10. Replaced(x, v, n, s)
  BY <1>3, <1>5 DEF Copy, Replaced
<1>11. NodesOK(x) /\ x[n] = s /\ \A l \in Props \ {n} : x[l] = v[l]
  BY <1>4, <1>7, <1>8, <1>9, <1>10, ReplaceKeeps
<1>12. SameValues(x, v)
  <2>1. ASSUME NEW l \in Props
        PROVE  /\ x[l].type = v[l].type /\ x[l].tied = v[l].tied
               /\ x[l].target = v[l].target /\ x[l].raw = v[l].raw
               /\ x[l].local = v[l].local /\ x[l].outside = v[l].outside
    <3>1. CASE l = n
      BY <1>7, <1>11, <3>1
    <3>2. CASE l # n
      BY <1>11, <3>2
    <3>3. QED
      BY <3>1, <3>2
  <2>2. QED
    BY <2>1 DEF SameValues
<1>13. k # "NONE" => SameValues(x, Set(w, n, k, Get(w, m, GetterOf(k))))
  BY <1>3, <1>12
<1>14. QED
  BY <1>2, <1>11, <1>13

-----------------------------------------------------------------------------
(* The steps *)

LEMMA NodeStarts ==
  ASSUME NodeInit
  PROVE  NodesOK(node)
<1>1. [type |-> "NONE", tied |-> FALSE, attr |-> Attributes, target |-> NoTarget,
       raw |-> {}, local |-> Zero, outside |-> Zero] \in NodeRecords
  BY ValuesAreContents DEF NodeRecords
<1>2. node \in [Props -> NodeRecords]
  BY <1>1 DEF NodeInit
<1>3. \A n \in Props : node[n].type = "NONE" /\ ~node[n].tied /\ node[n].local = Zero
  BY DEF NodeInit
<1>4. QED
  BY <1>2, <1>3, KindsAreTypes DEF NodesOK, HoldsItsType

LEMMA NodeStep ==
  ASSUME NodesOK(node), NodeNext
  PROVE  NodesOK(node')
<1>1. PICK n \in Props :
        \/ SetValue(n)
        \/ TieNode(n) \/ UntieNode(n) \/ Outside(n)
        \/ AliasNode(n) \/ UnaliasNode(n)
        \/ ClearValue(n) \/ SetAttributes(n) \/ CopyNode(n)
  BY DEF NodeNext
<1>2. PICK w, v : w = node /\ v = node'
  OBVIOUS
<1>3. NodesOK(w) /\ w[n] \in NodeRecords /\ HoldsItsType(w[n])
  BY <1>2 DEF NodesOK
<1> SUFFICES NodesOK(v)
  BY <1>2
<1>4. ASSUME NEW s, s \in NodeRecords, HoldsItsType(s),
             s.type = "ALIAS" => s.target \in Props /\ s.target < n, Replaced(v, w, n, s)
      PROVE  NodesOK(v)
  BY <1>3, <1>4, ReplaceKeeps
<1>5. CASE SetValue(n)
  <2>0. PICK k \in ValueTypes : \E value \in Values(k) : v = Set(w, n, k, value)
    BY <1>2, <1>5 DEF SetValue
  <2>1. PICK value \in Values(k) : v = Set(w, n, k, value)
    BY <2>0
  <2>2. PICK f : f = Final(w, n)
    OBVIOUS
  <2>3. QED
    BY <1>3, <2>1, <2>2, SetIs
<1>6. CASE TieNode(n)
  <2>0. PICK k \in Kinds, functions \in RawFunctions, useDefault \in BOOLEAN :
          \E value \in Values(k) : v = Tie(w, n, k, functions, value, useDefault)
    BY <1>2, <1>6 DEF TieNode
  <2>1. PICK value \in Values(k) : v = Tie(w, n, k, functions, value, useDefault)
    BY <2>0
  <2>2. functions \in SUBSET Functions
    BY TypesAssumption DEF Functions
  <2>3. QED
    BY <1>3, <2>1, <2>2, TieKeeps
<1>7. CASE UntieNode(n)
  <2>1. PICK s : s = UntiedFrom(w, n)
    OBVIOUS
  <2>2. w[n].tied /\ Replaced(v, w, n, s)
    BY <1>2, <1>7, <2>1 DEF UntieNode, Untie, UntiedFrom, Replaced
  <2>3. s \in NodeRecords /\ HoldsItsType(s) /\ s.type \in Kinds
    BY <1>3, <2>1, <2>2, UntiedIs
  <2>4. QED
    BY <1>4, <2>2, <2>3, KindsAreTypes
<1>8. CASE Outside(n)
  <2>1. PICK value \in Values(w[n].type) : v = [w EXCEPT ![n].outside = value]
    BY <1>2, <1>8 DEF Outside
  <2>2. w[n].tied /\ w[n].type \in Kinds /\ w[n].type \in ValueTypes
    BY <1>2, <1>3, <1>8, KindsAreTypes DEF Outside, HoldsItsType
  <2>3. value \in Contents
    BY <2>2, ValuesAreContents
  <2>4. PICK s : s = [w[n] EXCEPT !.outside = value]
    OBVIOUS
  <2>5. /\ s \in NodeRecords /\ s.type = w[n].type /\ s.tied = w[n].tied /\ s.outside = value
        /\ s.local = w[n].local
    BY <1>3, <2>3, <2>4 DEF NodeRecords
  <2>6. HoldsItsType(s)
    BY <1>3, <2>2, <2>5 DEF HoldsItsType
  <2>7. Replaced(v, w, n, s)
    BY <1>3, <2>1, <2>4 DEF Replaced, NodesOK
  <2>8. QED
    BY <1>4, <2>2, <2>5, <2>6, <2>7, KindsAreTypes
<1>9. CASE AliasNode(n)
  <2>1. PICK m \in Props : <<n, m>> \in MayAlias /\ v = Alias(w, n, m)
    BY <1>2, <1>9 DEF AliasNode
  <2>2. m < n
    <3>1. <<n, m>>[1] > <<n, m>>[2] /\ n \in Nat /\ m \in Nat
      BY <2>1, AliasAssumption
    <3>2. QED
      BY <3>1
  <2>3. PICK c : c = Cleared(w[n])
    OBVIOUS
  <2>4. c \in NodeRecords /\ ~c.tied /\ c.local = Zero
    BY <1>3, <2>3, ClearedIs
  <2>5. PICK s : s = [c EXCEPT !.type = "ALIAS", !.target = m]
    OBVIOUS
  <2>6. s \in NodeRecords /\ s.type = "ALIAS" /\ s.target = m /\ ~s.tied /\ s.local = Zero
    BY <2>4, <2>5 DEF NodeRecords
  <2>7. HoldsItsType(s)
    BY <2>6, KindsAreTypes DEF HoldsItsType
  <2>8. Replaced(v, w, n, s)
    BY <2>1, <2>3, <2>5 DEF Replaced, Alias
  <2>9. QED
    BY <1>4, <2>2, <2>6, <2>7, <2>8
<1>10. CASE UnaliasNode(n)
  <2>1. w[n].type = "ALIAS" /\ v = [w EXCEPT ![n].type = "NONE", ![n].target = NoTarget]
    BY <1>2, <1>10 DEF UnaliasNode, Unalias
  <2>2. ~w[n].tied /\ w[n].local = Zero
    BY <1>3, <2>1, KindsAreTypes DEF HoldsItsType
  <2>3. PICK s : s = [w[n] EXCEPT !.type = "NONE", !.target = NoTarget]
    OBVIOUS
  <2>4. s \in NodeRecords /\ s.type = "NONE" /\ ~s.tied /\ s.local = Zero
    BY <1>3, <2>2, <2>3 DEF NodeRecords
  <2>5. HoldsItsType(s)
    BY <2>4, KindsAreTypes DEF HoldsItsType
  <2>6. Replaced(v, w, n, s)
    BY <1>3, <2>1, <2>3 DEF Replaced, NodesOK
  <2>7. QED
    BY <1>4, <2>4, <2>5, <2>6
<1>11. CASE ClearValue(n)
  <2>1. PICK c : c = Cleared(w[n])
    OBVIOUS
  <2>2. c \in NodeRecords /\ HoldsItsType(c) /\ c.type = "NONE"
    BY <1>3, <2>1, ClearedIs
  <2>3. Replaced(v, w, n, c)
    BY <1>2, <1>11, <2>1 DEF ClearValue, Replaced
  <2>4. QED
    BY <1>4, <2>2, <2>3
<1>12. CASE SetAttributes(n)
  <2>1. PICK a \in SUBSET Attributes : v = [w EXCEPT ![n].attr = a]
    BY <1>2, <1>12 DEF SetAttributes
  <2>2. PICK s : s = [w[n] EXCEPT !.attr = a]
    OBVIOUS
  <2>3. /\ s \in NodeRecords /\ s.type = w[n].type /\ s.tied = w[n].tied
        /\ s.outside = w[n].outside /\ s.local = w[n].local /\ s.target = w[n].target
    BY <1>3, <2>2 DEF NodeRecords
  <2>4. HoldsItsType(s)
    BY <1>3, <2>3 DEF HoldsItsType
  <2>5. Replaced(v, w, n, s)
    BY <1>3, <2>1, <2>2 DEF Replaced, NodesOK
  <2>6. s.type = "ALIAS" => s.target \in Props /\ s.target < n
    BY <1>3, <2>3 DEF NodesOK
  <2>7. QED
    BY <1>4, <2>3, <2>4, <2>5, <2>6
<1>13. CASE CopyNode(n)
  <2>1. PICK m \in Props : v = Copy(w, m, n)
    BY <1>2, <1>13 DEF CopyNode
  <2>2. PICK k : k = CopiedType(w, m)
    OBVIOUS
  <2>3. QED
    BY <1>3, <2>1, <2>2, CopyIs
<1>14. QED
  BY <1>1, <1>5, <1>6, <1>7, <1>8, <1>9, <1>10, <1>11, <1>12, <1>13

-----------------------------------------------------------------------------
(* What the getters return *)

LEMMA UnionsHold ==
  ASSUME NodesOK(node)
  PROVE  UnionHoldsItsType
<1> SUFFICES ASSUME NEW n \in Props, NEW s, s = node[n]
             PROVE  IF ~s.tied /\ s.type \in TextTypes THEN s.local[1] = "text"
                    ELSE /\ s.local[1] = "number"
                         /\ s.tied \/ s.type \in {"NONE", "ALIAS"} => s.local = Zero
  BY DEF UnionHoldsItsType
<1>1. s \in NodeRecords /\ HoldsItsType(s)
  BY DEF NodesOK
<1>2. Zero[1] = "number"
  BY NumberIs DEF Zero
<1>3. ASSUME NEW k \in TextTypes, NEW value \in Values(k) PROVE value[1] = "text"
  BY <1>3, ValuesAre, NumberIs
<1>4. ASSUME NEW k \in NumericTypes, NEW value \in Values(k) PROVE value[1] = "number"
  <2>1. \A v : FromNumber(v, k)[1] = "number"
    BY NumberIs DEF FromNumber, Truth
  <2>2. QED
    BY <1>4, <2>1, KindsAreTypes DEF Values
<1>5. CASE s.tied
  BY <1>1, <1>2, <1>5 DEF HoldsItsType
<1>6. CASE ~s.tied /\ s.type \in TextTypes
  BY <1>1, <1>3, <1>6, KindsAreTypes DEF HoldsItsType
<1>7. CASE ~s.tied /\ s.type \in NumericTypes
  <2>1. s.local \in Values(s.type)
    BY <1>1, <1>7, KindsAreTypes DEF HoldsItsType
  <2>2. s.local[1] = "number"
    BY <1>4, <1>7, <2>1
  <2>3. QED
    BY <1>7, <2>2, KindsAreTypes
<1>8. CASE ~s.tied /\ s.type \in {"NONE", "ALIAS"}
  BY <1>1, <1>2, <1>8, KindsAreTypes DEF HoldsItsType
<1>9. s.type \in TextTypes \cup NumericTypes \cup {"NONE", "ALIAS"}
  BY <1>1, KindsAreTypes DEF NodeRecords
<1>10. QED
  BY <1>5, <1>6, <1>7, <1>8, <1>9

LEMMA GetterIsKind ==
  ASSUME NEW k \in Kinds
  PROVE  k \in ValueTypes /\ GetterOf(k) = k
BY KindsAreTypes DEF GetterOf

LEMMA SettersReadBack ==
  ASSUME NodesOK(node)
  PROVE  ReadsBack
<1> SUFFICES ASSUME NEW n \in Props, NEW k \in Kinds, NEW value \in Values(k),
                    NEW w, w = Set(node, n, k, value),
                    Returns(node, n, k), Readable(w, n), Holds(w[Final(w, n)].type, k)
             PROVE  Get(w, n, k) = value
  BY DEF ReadsBack
<1>1. PICK u : u = node
  OBVIOUS
<1>2. k \in ValueTypes /\ GetterOf(k) = k
  BY GetterIsKind
<1>3. PICK f : f = Final(u, n)
  OBVIOUS
<1>4. NodesOK(u) /\ w = Set(u, n, k, value) /\ Returns(u, n, k)
  BY <1>1
<1>5. NodesOK(w)
  BY <1>2, <1>3, <1>4, SetIs
<1>6. SameValues(w, w)
  BY DEF SameValues
<1>7. Get(w, n, GetterOf(k)) = value
  BY <1>2, <1>4, <1>5, <1>6, SetGet
<1>8. QED
  BY <1>2, <1>7

\* A node that may be read gives what it holds.
LEMMA GetHere ==
  ASSUME NEW w, NodesOK(w), NEW n \in Props, w[n].type \in ValueTypes, "READ" \in w[n].attr,
         NEW k
  PROVE  Get(w, n, k) = Convert(Content(w[n]), w[n].type, k, Strtod)
<1>1. w[n].type # "ALIAS" /\ w[n].type # "NONE"
  BY KindsAreTypes
<1>2. Final(w, n) = n /\ Chain(w, n) = {n}
  BY <1>1, FinalIsNode
<1>3. Permits(w, n, "READ")
  BY <1>2 DEF Permits
<1>4. QED
  BY <1>1, <1>2, <1>3 DEF Get

LEMMA UntieKeepsValue ==
  ASSUME NEW w, NodesOK(w), NEW n \in Props, w[n].attr = Attributes, w[n].tied, NEW k
  PROVE  Get(Untie(w, n), n, k) = Get(w, n, k)
<1>1. PICK s : s = UntiedFrom(w, n)
  OBVIOUS
<1>2. PICK v : v = Untie(w, n)
  OBVIOUS
<1>3. Replaced(v, w, n, s)
  BY <1>1, <1>2 DEF Untie, UntiedFrom, Replaced
<1>4. /\ s \in NodeRecords /\ HoldsItsType(s) /\ s.type = w[n].type /\ ~s.tied
      /\ s.local = Get(w, n, w[n].type) /\ s.attr = w[n].attr
      /\ w[n].type \in Kinds
  BY <1>1, UntiedIs
<1>5. PICK t \in ValueTypes : t = w[n].type /\ t # "ALIAS"
  BY <1>4, KindsAreTypes
<1>6. NodesOK(v) /\ v[n] = s
  BY <1>3, <1>4, <1>5, ReplaceKeeps
<1>7. "READ" \in w[n].attr /\ "READ" \in v[n].attr
  BY <1>4, <1>6 DEF Attributes
<1>8. PICK c \in Values(t) : c = Content(w[n])
  <2>1. w[n] \in NodeRecords /\ HoldsItsType(w[n])
    BY DEF NodesOK
  <2>2. QED
    BY <1>5, <2>1, ContentIs
<1>9. \A l : Get(w, n, l) = Convert(c, t, l, Strtod)
  BY <1>5, <1>7, <1>8, GetHere
<1>10. Convert(c, t, t, Strtod) = c
  BY <1>8, ConvertSame
<1>11. Content(s) = c
  BY <1>4, <1>5, <1>9, <1>10 DEF Content
<1>12. Get(v, n, k) = Convert(Content(v[n]), v[n].type, k, Strtod)
  BY <1>4, <1>5, <1>6, <1>7, GetHere
<1>13. QED
  BY <1>2, <1>4, <1>5, <1>6, <1>9, <1>11, <1>12

LEMMA TieKeepsValue ==
  ASSUME NEW w, NodesOK(w), NEW n \in Props, w[n].attr = Attributes,
         MayBind(w[n]), w[n].type # "NONE", NEW k \in Kinds, Holds(k, w[n].type),
         NEW x, x = Tie(w, n, k, Functions, Default(k), TRUE)
  PROVE  Get(x, n, GetterOf(w[n].type)) = Get(w, n, GetterOf(w[n].type))
<1>1. w[n] \in NodeRecords /\ HoldsItsType(w[n]) /\ w[n].type # "ALIAS"
  BY DEF NodesOK, MayBind
<1>2. PICK t \in ValueTypes : t = w[n].type
  BY <1>1 DEF NodeRecords
<1>3. "READ" \in Attributes /\ "WRITE" \in Attributes
  BY DEF Attributes
<1>4. PICK c \in Values(t) : c = Content(w[n])
  BY <1>1, <1>2, ContentIs
<1>5. \A l : Get(w, n, l) = Convert(c, t, l, Strtod)
  BY <1>2, <1>3, <1>4, GetHere
<1>6. k \in ValueTypes /\ Strtod \in Digits /\ k # "ALIAS" /\ k # "NONE"
  BY KindsAreTypes DEF Digits
<1>7. PICK old \in Values(k) : old = Get(w, n, k)
  BY <1>6, GetGives
<1>8. PICK s : s = TiedTo(w, n, k, Functions, Default(k))
  OBVIOUS
<1>9. /\ s \in NodeRecords /\ HoldsItsType(s) /\ s.type = k /\ s.tied /\ s.raw = Functions
      /\ s.attr = w[n].attr
  <2>1. Default(k) \in Values(k) /\ Functions \in SUBSET Functions
    BY <1>6, ValuesAreContents
  <2>2. QED
    BY <1>8, <2>1, TiedIs
<1>10. PICK v : Replaced(v, w, n, s)
  BY DEF Replaced
<1>11. NodesOK(v) /\ v[n] = s
  BY <1>6, <1>9, <1>10, ReplaceKeeps
<1>12. x = Set(v, n, k, old)
  BY <1>7, <1>8, <1>10 DEF Tie, TiedTo, Replaced
<1>13. Final(v, n) = n /\ Chain(v, n) = {n}
  BY <1>6, <1>9, <1>11, FinalIsNode
<1>14. Returns(v, n, k)
  <2>1. Permits(v, n, "WRITE")
    BY <1>3, <1>9, <1>11, <1>13 DEF Permits
  <2>2. Typed(s, k) = s
    BY <1>6, <1>9, TypedIs
  <2>3. Taken(s)
    BY <1>9 DEF Taken, Functions
  <2>4. QED
    BY <1>11, <1>13, <2>1, <2>2, <2>3 DEF Returns
<1>15. /\ NodesOK(x) /\ x[n].type = k /\ x[n].raw = Functions /\ x[n].attr = Attributes
       /\ Content(x[n]) = Convert(old, k, k, Atoi)
  <2>1. "getter" \in Functions
    BY DEF Functions
  <2>2. PICK f : f = Final(v, n)
    OBVIOUS
  <2>3. /\ NodesOK(x)
        /\ \A m \in Props : x[m].attr = v[m].attr
        /\ v[f].type \in Kinds => x[f].type = v[f].type /\ x[f].raw = v[f].raw
        /\ Returns(v, n, k) =>
             /\ x[f].type \in ValueTypes
             /\ (x[f].tied => "getter" \in x[f].raw)
                  => Content(x[f]) = Convert(old, k, x[f].type, Atoi)
    <3>1. k \in ValueTypes /\ NodesOK(v)
      BY <1>6, <1>11
    <3>2. QED
      BY ONLY n \in Props, old \in Values(k), <3>1, <1>12, <2>2, SetIs
  <2>4. QED
    BY <1>9, <1>11, <1>13, <1>14, <2>1, <2>2, <2>3
<1>16. Content(x[n]) = old
  BY <1>15, <1>6, ConvertSame
<1>17. PICK g : g = GetterOf(t)
  OBVIOUS
<1>18. Get(x, n, g) = Convert(old, k, g, Strtod)
  BY <1>3, <1>6, <1>15, <1>16, GetHere
<1>19. Convert(Convert(c, t, k, Strtod), k, g, Strtod) = c
  BY <1>2, <1>6, <1>17, ConvertBack
<1>20. Get(x, n, g) = c
  BY <1>5, <1>7, <1>18, <1>19
<1>21. Convert(c, t, g, Strtod) = c
  <2>1. CASE t = "UNSPECIFIED"
    BY <1>17, <2>1 DEF GetterOf, Convert, TextTypes
  <2>2. CASE t # "UNSPECIFIED"
    BY <1>17, <2>2, ConvertSame DEF GetterOf
  <2>3. QED
    BY <2>1, <2>2
<1>22. QED
  BY <1>2, <1>5, <1>17, <1>20, <1>21

LEMMA BindingKeeps ==
  ASSUME NodesOK(node)
  PROVE  BindingKeepsValue
<1>1. PICK w : w = node
  OBVIOUS
<1> SUFFICES ASSUME NEW n \in Props, w[n].attr = Attributes
             PROVE  /\ w[n].tied => \A k \in Kinds : Get(Untie(w, n), n, k) = Get(w, n, k)
                    /\ MayBind(w[n]) /\ w[n].type # "NONE" =>
                         \A k \in Kinds : Holds(k, w[n].type) =>
                           Get(Tie(w, n, k, Functions, Default(k), TRUE), n,
                               GetterOf(w[n].type))
                             = Get(w, n, GetterOf(w[n].type))
  BY <1>1 DEF BindingKeepsValue
<1>2. NodesOK(w)
  BY <1>1
<1>3. w[n].tied => \A k \in Kinds : Get(Untie(w, n), n, k) = Get(w, n, k)
  BY <1>2, UntieKeepsValue
<1>4. ASSUME MayBind(w[n]), w[n].type # "NONE", NEW k \in Kinds, Holds(k, w[n].type)
      PROVE  Get(Tie(w, n, k, Functions, Default(k), TRUE), n, GetterOf(w[n].type))
               = Get(w, n, GetterOf(w[n].type))
  <2>1. PICK x : x = Tie(w, n, k, Functions, Default(k), TRUE)
    OBVIOUS
  <2>2. Get(x, n, GetterOf(w[n].type)) = Get(w, n, GetterOf(w[n].type))
    BY <1>2, <1>4, <2>1, TieKeepsValue
  <2>3. QED
    BY <2>1, <2>2
<1>5. QED
  BY <1>3, <1>4

LEMMA CopiesAgree ==
  ASSUME NodesOK(node)
  PROVE  CopyAgrees
<1>1. PICK u : u = node
  OBVIOUS
<1> SUFFICES ASSUME NEW m \in Props, NEW n \in Props,
                    NEW k, k = CopiedType(u, m), NEW w, w = Copy(u, m, n),
                    k # "NONE", Returns(u, n, k), Readable(w, n),
                    Holds(w[Final(w, n)].type, k)
             PROVE  Get(w, n, GetterOf(k)) = Get(u, m, GetterOf(k))
  BY <1>1 DEF CopyAgrees
<1>2. NodesOK(u)
  BY <1>1
<1>3. /\ NodesOK(w) /\ k \in ValueTypes /\ Get(u, m, GetterOf(k)) \in Values(k)
      /\ SameValues(w, Set(u, n, k, Get(u, m, GetterOf(k))))
  BY <1>2, CopyIs
<1>4. PICK value \in Values(k) : value = Get(u, m, GetterOf(k))
  BY <1>3
<1>5. PICK v : v = Set(u, n, k, value)
  OBVIOUS
<1>6. SameValues(w, v)
  BY <1>3, <1>4, <1>5
<1>7. Get(w, n, GetterOf(k)) = value
  BY <1>2, <1>3, <1>5, <1>6, SetGet
<1>8. QED
  BY <1>4, <1>7

LEMMA NodesStayOK == NodeSpec => []NodesOK(node)
<1>1. NodeInit => NodesOK(node)
  BY NodeStarts
<1>2. NodesOK(node) /\ [NodeNext]_node => NodesOK(node)'
  <2>1. ASSUME NodesOK(node), NodeNext PROVE NodesOK(node')
    BY <2>1, NodeStep
  <2>2. ASSUME NodesOK(node), node' = node PROVE NodesOK(node')
    BY <2>2
  <2>3. NodesOK(node)' <=> NodesOK(node')
    BY DEF NodesOK
  <2>4. QED
    BY <2>1, <2>2, <2>3
<1>3. QED
  BY <1>1, <1>2, PTL DEF NodeSpec

\* A value survives the types, texts, ties and aliases between who sets it and who reads
\* it, for any nodes, numbers and texts, and through any chain of aliases.
THEOREM Values_AreRight == NodeSpec => []ValuesAreRight
<1>1. NodesOK(node) => ValuesAreRight
  BY UnionsHold, SettersReadBack DEF ValuesAreRight
<1>2. QED
  BY <1>1, NodesStayOK, PTL

\* It survives being tied to a variable, untied again, and copied to another node.
THEOREM Values_AreHandedOn == NodeSpec => []ValuesAreHandedOn
<1>1. NodesOK(node) => ValuesAreHandedOn
  BY BindingKeeps, CopiesAgree DEF ValuesAreHandedOn
<1>2. QED
  BY <1>1, NodesStayOK, PTL

=============================================================================
