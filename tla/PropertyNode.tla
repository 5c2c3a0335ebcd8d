---------------------------- MODULE PropertyNode ----------------------------
(***************************************************************************)
(* The value of a property node, src/props/props.cxx: its type, its two    *)
(* unions, the conversions of the accessors, ties to variables outside,    *)
(* aliases, and copyProperties() of src/props/props_io.cxx for leaves.     *)
(*                                                                         *)
(* Numbers count halves, so that 3 is 1.5; the numbers of the model fit    *)
(* every C type.  A text is what the C library reads in it (Atoi, Strtol,  *)
(* Strtod) and is what it writes for a number (Written).                  *)
(***************************************************************************)
EXTENDS Integers

CONSTANTS
  Props,       \* the nodes
  MayAlias,    \* the pairs <<node, target>> for which alias() is called
  NoTarget,
  MayTie,      \* the nodes that are tied
  RawFunctions,  \* what ties have: sets of "getter" and "setter"
  NumericTypes,  \* those in use of BOOL, INT, LONG, FLOAT and DOUBLE
  Numbers, Strings,
  Atoi, Strtol, Strtod,  \* what is read in a text
  Written                \* how a number is written

One == 2

TextTypes    == {"STRING", "UNSPECIFIED"}
ValueTypes   == NumericTypes \cup TextTypes
Kinds        == NumericTypes \cup {"STRING"}   \* of the getters

ASSUME AliasAssumption ==
  MayAlias \subseteq Props \X Props /\ Props \subseteq Nat /\ \A p \in MayAlias : p[1] > p[2]
ASSUME TypesAssumption ==
  /\ NumericTypes \subseteq {"BOOL", "INT", "LONG", "FLOAT", "DOUBLE"}
  /\ MayTie \subseteq Props /\ NoTarget \notin Props
  /\ RawFunctions \subseteq SUBSET {"getter", "setter"}
ASSUME NumbersAssumption == Numbers \subseteq Int /\ {0, One} \subseteq Numbers
ASSUME StringsAssumption == {"", "true", "false"} \subseteq Strings
ASSUME LibraryAssumption ==
  /\ {Atoi, Strtol, Strtod} \subseteq [Strings -> Numbers]
  /\ Written \in [Numbers -> Strings]
  /\ Strtod["false"] = 0
  /\ \A v \in Numbers : Strtod[Written[v]] = v
  /\ \A v \in Numbers : v % One = 0 => Atoi[Written[v]] = v /\ Strtol[Written[v]] = v

VARIABLE
  node   \* the nodes: records of
         \*   type
         \*   tied
         \*   attr     which of READ and WRITE
         \*   target   _value of an alias: the node that it stands for
         \*   raw      _value of a tied node: which of a getter and a setter it has
         \*   local    _local_val
         \*   outside  the variable that is tied

Number(v) == <<"number", v>>
Text(s)   == <<"text", s>>

Contents == {Number(v) : v \in Numbers} \cup {Text(s) : s \in Strings}

\* All bits of a union are zero: the null pointer, too.
Zero == Number(0)

Default(k) == IF k \in TextTypes THEN Text("") ELSE Zero

Attributes == {"READ", "WRITE"}
Functions  == {"getter", "setter"}

NodeTypeOK ==
  node \in [Props -> [type : ValueTypes \cup {"NONE", "ALIAS"}, tied : BOOLEAN,
                      attr : SUBSET Attributes, target : Props \cup {NoTarget},
                      raw : SUBSET Functions, local : Contents, outside : Contents]]

\* SGPropertyNode()
NodeInit ==
  node = [n \in Props |->
            [type |-> "NONE", tied |-> FALSE, attr |-> Attributes, target |-> NoTarget,
             raw |-> {}, local |-> Zero, outside |-> Zero]]

-----------------------------------------------------------------------------
(* Conversions *)

\* Towards zero, as a cast to an integer does.
Trunc(v) == IF v >= 0 THEN (v \div 2) * 2 ELSE -((-v \div 2) * 2)

ASSUME WholeAssumption == \A v \in Numbers : Trunc(v) \in Numbers

Truth(b) == Number(IF b THEN One ELSE 0)

FromNumber(v, to) ==
  CASE to = "BOOL"            -> Truth(v # 0)
    [] to \in {"INT", "LONG"} -> Number(Trunc(v))
    [] OTHER                  -> Number(v)

\* Mutant: floating point numbers go through "%d" too.
ToTextWhole(v, from) ==
  Text(IF from = "BOOL" THEN IF v # 0 THEN "true" ELSE "false" ELSE Written[Trunc(v)])

ToText(v, from) ==
  Text(IF from = "BOOL" THEN IF v # 0 THEN "true" ELSE "false" ELSE Written[v])

\* Only truth is told differently when a text is set and when it is read.
FromText(s, to, digits) ==
  CASE to = "BOOL" -> Truth(s = "true" \/ digits[s] # 0)
    [] to = "INT"  -> Number(Trunc(Atoi[s]))
    [] to = "LONG" -> Number(Trunc(Strtol[s]))
    [] OTHER       -> Number(Strtod[s])

Convert(value, from, to, digits) ==
  CASE from \in TextTypes /\ to \in TextTypes -> value
    [] from \in TextTypes /\ to \notin TextTypes -> FromText(value[2], to, digits)
    [] from \notin TextTypes /\ to \in TextTypes -> ToText(value[2], from)
    [] OTHER -> FromNumber(value[2], to)

-----------------------------------------------------------------------------
(* Reading.  The operators have the nodes as their argument w, so that the       *)
(* properties can say what an operation would give.                             *)

\* The nodes that an access passes, one alias after another.
Chain(w, n) ==
  LET hop[m \in Props] == IF w[m].type = "ALIAS" THEN {m} \cup hop[w[m].target] ELSE {m}
  IN  hop[n]

Final(w, n) == CHOOSE m \in Chain(w, n) : w[m].type # "ALIAS"

Permits(w, n, a) == \A m \in Chain(w, n) : a \in w[m].attr

\* get_bool() to get_string(): a tie without getter gives the default.
Content(s) ==
  IF ~s.tied THEN s.local
  ELSE IF "getter" \in s.raw THEN s.outside ELSE Default(s.type)

\* getBoolValue() to getStringValue().
Get(w, n, k) ==
  LET s == w[Final(w, n)]
  IN  IF ~Permits(w, n, "READ") \/ s.type = "NONE" THEN Default(k)
      ELSE Convert(Content(s), s.type, k, Strtod)

-----------------------------------------------------------------------------
(* What becomes of one node *)

\* clearValue()
Cleared(s) ==
  [s EXCEPT !.type = "NONE", !.tied = FALSE, !.target = NoTarget, !.raw = {},
            !.local = Zero, !.outside = Zero]

\* A node without a type takes that of the setter; one that was read from a file without
\* a type does for every setter but setUnspecifiedValue().
Typed(s, k) ==
  IF s.type = "NONE" \/ (s.type = "UNSPECIFIED" /\ k # "UNSPECIFIED")
  THEN [Cleared(s) EXCEPT !.type = k] ELSE s

\* set_bool() to set_string(): a tie needs a setter.
Taken(s) == ~s.tied \/ "setter" \in s.raw

Stored(s, value) ==
  IF ~Taken(s) THEN s
  ELSE IF s.tied THEN [s EXCEPT !.outside = value] ELSE [s EXCEPT !.local = value]

-----------------------------------------------------------------------------
(* Operations: the nodes after each *)

\* setBoolValue() to setUnspecifiedValue(), k being the setter's type.
Set(w, n, k, value) ==
  LET f == Final(w, n)
      s == Typed(w[f], k)
  IN  IF Permits(w, n, "WRITE")
      THEN [w EXCEPT ![f] = Stored(s, Convert(value, k, s.type, Atoi))] ELSE w

Returns(w, n, k) == Permits(w, n, "WRITE") /\ Taken(Typed(w[Final(w, n)], k))

MayBind(s) == s.type # "ALIAS" /\ ~s.tied

\* tie(), for the six kinds.  It clears the value it found; with useDefault that is set
\* again, through the tie.
Tie(w, n, k, functions, value, useDefault) ==
  LET old == Get(w, n, k)
      v == [w EXCEPT ![n] = [Cleared(w[n]) EXCEPT !.type = k, !.tied = TRUE,
                                                  !.raw = functions, !.outside = value]]
  IN  IF useDefault /\ w[n].type # "NONE" THEN Set(v, n, k, old) ELSE v

\* Mutant: the tie is cut before the variable is read.
UntieFirst(w, n) ==
  LET k == w[n].type
  IN  [w EXCEPT ![n] = [Cleared(w[n]) EXCEPT !.type = k, !.local = Default(k)]]

\* untie(): the value is read as any caller would read it.
Untie(w, n) ==
  LET k == w[n].type
  IN  [w EXCEPT ![n] = [Cleared(w[n]) EXCEPT !.type = k, !.local = Get(w, n, k)]]

Alias(w, n, m) == [w EXCEPT ![n] = [Cleared(w[n]) EXCEPT !.type = "ALIAS", !.target = m]]

Unalias(w, n) == [w EXCEPT ![n].type = "NONE", ![n].target = NoTarget]

\* The getter that goes with a type.
GetterOf(k) == IF k = "UNSPECIFIED" THEN "STRING" ELSE k

\* The type that getType() gives.
CopiedType(w, m) == w[Final(w, m)].type

\* copyProperties() of nodes without children.  The attributes are copied last and
\* whatever the setter returned.
Copy(w, m, n) ==
  LET k == CopiedType(w, m)
      v == IF k = "NONE" THEN w ELSE Set(w, n, k, Get(w, m, GetterOf(k)))
  IN  [v EXCEPT ![n].attr = v[m].attr]

-----------------------------------------------------------------------------

Values(k) == IF k \in TextTypes THEN {Text(s) : s \in Strings}
             ELSE {FromNumber(v, k) : v \in Numbers}

SetValue(n) ==
  \E k \in ValueTypes : \E value \in Values(k) : node' = Set(node, n, k, value)

TieNode(n) ==
  /\ n \in MayTie /\ MayBind(node[n])
  /\ \E k \in Kinds, functions \in RawFunctions, useDefault \in BOOLEAN :
       \E value \in Values(k) : node' = Tie(node, n, k, functions, value, useDefault)

UntieNode(n) == node[n].tied /\ node' = Untie(node, n)

\* The program changes its variable.
Outside(n) ==
  /\ node[n].tied
  /\ \E value \in Values(node[n].type) : node' = [node EXCEPT ![n].outside = value]

AliasNode(n) ==
  /\ MayBind(node[n])
  /\ \E m \in Props : <<n, m>> \in MayAlias /\ node' = Alias(node, n, m)

UnaliasNode(n) == node[n].type = "ALIAS" /\ node' = Unalias(node, n)

\* By removeChild(), or when a file gives the type of a node.
ClearValue(n) == node' = [node EXCEPT ![n] = Cleared(@)]

SetAttributes(n) == \E a \in SUBSET Attributes : node' = [node EXCEPT ![n].attr = a]

CopyNode(n) == \E m \in Props \ {n} : node' = Copy(node, m, n)

NodeNext ==
  \E n \in Props :
    \/ SetValue(n)
    \/ TieNode(n) \/ UntieNode(n) \/ Outside(n)
    \/ AliasNode(n) \/ UnaliasNode(n)
    \/ ClearValue(n) \/ SetAttributes(n) \/ CopyNode(n)

NodeSpec == NodeInit /\ [][NodeNext]_node

-----------------------------------------------------------------------------
(* Properties *)

\* set_string() deletes what the local union holds and getStringValue() follows it: it
\* holds a text as long as an untied node has a text type, and is all zero while the node
\* has no value of its own, through any sequence of retyping, ties and aliases.
UnionHoldsItsType ==
  \A n \in Props :
    LET s == node[n]
    IN  IF ~s.tied /\ s.type \in TextTypes THEN s.local[1] = "text"
        ELSE /\ s.local[1] = "number"
             /\ s.tied \/ s.type \in {"NONE", "ALIAS"} => s.local = Zero

\* A node of type t can hold every value that a setter of type k gives it.
Holds(t, k) ==
  CASE k = "BOOL"                -> TRUE
    [] k \in {"INT", "LONG"}     -> t # "BOOL"
    [] k \in {"FLOAT", "DOUBLE"} -> t \in {"FLOAT", "DOUBLE"} \cup TextTypes
    [] OTHER                     -> t \in TextTypes

Readable(w, n) ==
  /\ Permits(w, n, "READ")
  /\ w[Final(w, n)].tied => "getter" \in w[Final(w, n)].raw

\* What a setter that returns true sets is read back with the getter of its type, through
\* aliases, ties and whatever type the node already has, if the node can hold the value.
ReadsBack ==
  \A n \in Props, k \in Kinds : \A value \in Values(k) :
    LET w == Set(node, n, k, value)
    IN  Returns(node, n, k) /\ Readable(w, n) /\ Holds(w[Final(w, n)].type, k)
          => Get(w, n, k) = value

\* "The SGPropertyNode will not change during a session, even if the property is bound
\* and unbound multiple times" (props.hxx:118): what every getter returns is the same after
\* untie(), and after tie() with useDefault to a variable that can hold it, when the node
\* may be read and written.
BindingKeepsValue ==
  \A n \in Props : node[n].attr = Attributes =>
    /\ node[n].tied => \A k \in Kinds : Get(Untie(node, n), n, k) = Get(node, n, k)
    /\ MayBind(node[n]) /\ node[n].type # "NONE" =>
         \A k \in Kinds : Holds(k, node[n].type) =>
           LET w == Tie(node, n, k, Functions, Default(k), TRUE)
               g == GetterOf(node[n].type)
           IN  Get(w, n, g) = Get(node, n, g)

\* When copyProperties() returns true, the copy reads as the original did with the getter
\* of the original's type, if the copy can hold it; one may be an alias of the other.
CopyAgrees ==
  \A m, n \in Props :
    LET k == CopiedType(node, m)
        w == Copy(node, m, n)
    IN  k # "NONE" /\ Returns(node, n, k)
          /\ Readable(w, n) /\ Holds(w[Final(w, n)].type, k)
          => Get(w, n, GetterOf(k)) = Get(node, m, GetterOf(k))

\* A value survives whatever types, texts, ties and aliases it passes through between one
\* who sets it and one who reads it (props.cxx:480-760, 1184-1535).
ValuesAreRight == UnionHoldsItsType /\ ReadsBack

\* A value survives being handed from one place to another: from a node to a variable and
\* back, or to another node (props.cxx:1537-1716, props_io.cxx:565-625).
ValuesAreHandedOn == BindingKeepsValue /\ CopyAgrees

=============================================================================
