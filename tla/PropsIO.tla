-------------------------------- MODULE PropsIO --------------------------------
(***************************************************************************)
(* Property files, src/src/props/props_io.cxx: PropsVisitor makes nodes of  *)
(* what the XML parser tells it, readProperties() reads the files that a    *)
(* file includes in the middle of it, writeProperties() makes a file of the *)
(* nodes.  Here a tree is read, written, and read back into an empty one.   *)
(*                                                                          *)
(* A file is given by its elements; the parser's calls follow from them.    *)
(* Aliases are left out, and so are ties and listeners, see PropertyNode;   *)
(* "long" and "float" are read as "int" and "double" are.                   *)
(***************************************************************************)
EXTENDS Integers, Sequences, SequencesExt, FiniteSets

CONSTANTS
  Files,       \* the files that can be included: from names to contents,
               \* which are sequences of elements, records
               \*   name, n (-1 if there is none), type and include ("none" if
               \*   there is none), flags, text, inside
  Masters,     \* the contents of the files that the program may begin with
  PropNames,
  Reads        \* what the value is, as a text, when a text is read as a type

ASSUME ReadsAssumption == \A t \in DOMAIN Reads : \A s \in DOMAIN Reads[t] : Reads[t][Reads[t][s]] = Reads[t][s]

VARIABLES
  master,      \* contents of the file that the program reads
  tree,        \* the nodes in the order in which they were made, the root first
  readers,     \* readProperties() in readProperties(), the outermost first
  phase,       \* reading, read or threw; restoring, restored or lost
  output,      \* the elements that were written
  saved        \* the tree that was written, and what of it was asked for

ioVars == <<master, tree, readers, phase, output, saved>>

NoIndex == -1
DEFAULT_MODE == {"READ", "WRITE"}
Types == {"bool", "int", "double", "string", "unspecified"}

NewNode(parent, name, index) ==
  [parent |-> parent, name |-> name, index |-> index, type |-> "NONE", value |-> "", attr |-> DEFAULT_MODE]
EmptyTree == <<NewNode(0, "", 0)>>

\* The parser's calls: an element begins, characters, it ends.
RECURSIVE Calls(_)
Calls(elements) ==
  IF elements = <<>> THEN <<>>
  ELSE LET e == Head(elements)
       IN  <<[call |-> "startElement", element |-> e]>>
             \o (IF e.text = "" THEN <<>> ELSE <<[call |-> "data", element |-> e]>>)
             \o Calls(e.inside) \o <<[call |-> "endElement", element |-> e]>> \o Calls(Tail(elements))

Reader(calls, root) == [calls |-> calls, root |-> root, data |-> "", states |-> <<>>, failed |-> FALSE]
PropsState(n, type, mode) == [node |-> n, type |-> type, mode |-> mode, counters |-> [s \in PropNames |-> 0]]

ReaderCreated ==
  /\ tree = EmptyTree
  /\ readers = <<Reader(Calls(master), 1)>>
  /\ phase = "reading"
  /\ output = <<>> /\ saved = [tree |-> EmptyTree, all |-> FALSE]

IoInit == master \in Masters /\ ReaderCreated

-----------------------------------------------------------------------------
Innermost == Last(readers)
Top == Last(Innermost.states)
AtRoot == Innermost.states = <<>>
Now == Head(Innermost.calls)

Offspring(t, n) == SelectSeq([k \in DOMAIN t |-> k], LAMBDA k : t[k].parent = n)
IsLeaf(t, n) == Offspring(t, n) = <<>>

IsCall(call) == readers # <<>> /\ Innermost.calls # <<>> /\ Now.call = call
Onward(reader) == [reader EXCEPT !.calls = Tail(@)]
With(reader) == [readers EXCEPT ![Len(readers)] = reader]

\* An exception ends the innermost reading; the one around it keeps the
\* exception and goes on.
Throw ==
  IF Len(readers) = 1 THEN readers' = <<>> /\ phase' = IF phase = "reading" THEN "threw" ELSE "lost"
  ELSE readers' = [Front(readers) EXCEPT ![Len(readers) - 1].failed = TRUE] /\ UNCHANGED phase

\* The file is read before the element goes on; if it cannot be opened, that is
\* an exception as well.
Include(reader, file, n) ==
  CASE file = "none"       -> readers' = With(reader)
    [] file \in DOMAIN Files -> readers' = Append(With(reader), Reader(Calls(Files[file]), n))
    [] OTHER               -> readers' = With([reader EXCEPT !.failed = TRUE])

StartList ==
  /\ IsCall("startElement") /\ AtRoot
  /\ IF Now.element.name = "PropertyList"
     THEN /\ Include([Onward(Innermost) EXCEPT !.data = "", !.states = <<PropsState(Innermost.root, "", DEFAULT_MODE)>>],
                     Now.element.include, Innermost.root)
          /\ UNCHANGED phase
     ELSE Throw
  /\ UNCHANGED <<master, tree, output, saved>>

\* Mutant: an index that is given does not count.
CountOnlyUnnumbered(counters, e) == IF e.n = NoIndex THEN [counters EXCEPT ![e.name] = @ + 1] ELSE counters

Count(counters, e) ==
  [counters EXCEPT ![e.name] = IF e.n = NoIndex THEN @ + 1 ELSE IF @ > e.n THEN @ ELSE e.n + 1]

\* What is said of attributes with "y" and "n".
IsFlag(flag) == flag \in {"y", "n"}
Mode(flags) ==
  {a \in {"READ", "WRITE", "ARCHIVE"} :
     IF a \in DOMAIN flags THEN flags[a] = "y" ELSE a \in DEFAULT_MODE}

\* clearValue() asks for no permission.  It comes after the include, which
\* never touches the value of the node that it is read into.
Cleared(n, type) == IF type = "none" THEN n ELSE [n EXCEPT !.type = "NONE", !.value = ""]

StartElement ==
  /\ IsCall("startElement") /\ ~AtRoot
  /\ LET e     == Now.element
         index == IF e.n = NoIndex THEN Top.counters[e.name] ELSE e.n
         slot  == {k \in DOMAIN tree : tree[k].parent = Top.node /\ tree[k].name = e.name /\ tree[k].index = index}
         grown == IF slot = {} THEN Append(tree, NewNode(Top.node, e.name, index)) ELSE tree
         n     == IF slot = {} THEN Len(grown) ELSE CHOOSE k \in slot : TRUE
         type  == IF e.type = "none" THEN "unspecified" ELSE e.type
         counted == Append(Front(Innermost.states), [Top EXCEPT !.counters = Count(@, e)])
     IN  IF \A a \in DOMAIN e.flags : IsFlag(e.flags[a])
         THEN /\ tree' = [grown EXCEPT ![n] = Cleared(@, e.type)]
              /\ Include([Onward(Innermost) EXCEPT !.data = "", !.states = Append(counted, PropsState(n, type, Mode(e.flags)))],
                         e.include, n)
              /\ UNCHANGED phase
         ELSE tree' = grown /\ Throw
  /\ UNCHANGED <<master, output, saved>>

CharacterData ==
  /\ IsCall("data")
  /\ readers' = With([Onward(Innermost) EXCEPT !.data = IF IsLeaf(tree, Top.node) THEN @ \o Now.element.text ELSE @])
  /\ UNCHANGED <<master, tree, phase, output, saved>>

\* set<type>Value(): a node without a type takes the one of the value, any
\* other keeps its own.
Set(n, type, text) ==
  IF "WRITE" \notin n.attr THEN n
  ELSE LET becomes == IF n.type = "NONE" \/ (n.type = "unspecified" /\ type # "unspecified") THEN type ELSE n.type
       IN  [n EXCEPT !.type = becomes, !.value = Reads[becomes][Reads[type][text]]]

\* The root's type is "", which is no type: an empty list throws.
EndElement ==
  /\ IsCall("endElement")
  /\ LET leaf == IsLeaf(tree, Top.node)
     IN  IF leaf /\ Top.type \notin Types THEN Throw /\ UNCHANGED tree
         ELSE /\ tree' = [tree EXCEPT ![Top.node] =
                            [(IF leaf THEN Set(@, Top.type, Innermost.data) ELSE @) EXCEPT !.attr = Top.mode]]
              /\ readers' = With([Onward(Innermost) EXCEPT !.states = Front(@)])
              /\ UNCHANGED phase
  /\ UNCHANGED <<master, output, saved>>

\* readProperties() returns, or throws what an include threw.
Finish ==
  /\ readers # <<>> /\ Innermost.calls = <<>>
  /\ IF Innermost.failed THEN Throw
     ELSE /\ readers' = Front(readers)
          /\ phase' = CASE Len(readers) > 1 -> phase [] phase = "reading" -> "read" [] OTHER -> "restored"
  /\ UNCHANGED <<master, tree, output, saved>>

-----------------------------------------------------------------------------
(* writeProperties() *)

RECURSIVE isArchivable(_, _)
isArchivable(t, n) ==
  "ARCHIVE" \in t[n].attr \/ \E k \in DOMAIN t : t[k].parent = n /\ isArchivable(t, k)

\* Mutant: the index is left out.
WrittenUnnumbered(t, n, type, text, inside) ==
  [name |-> t[n].name, n |-> NoIndex, type |-> type, include |-> "none", flags |-> <<>>, text |-> text, inside |-> inside]

Written(t, n, type, text, inside) ==
  [name |-> t[n].name, n |-> IF t[n].index = 0 THEN NoIndex ELSE t[n].index, type |-> type, include |-> "none",
   flags |-> <<>>, text |-> text, inside |-> inside]

\* The type that is written is none for an unspecified value; what may not be
\* read is written as "".
getStringValue(node) == IF "READ" \in node.attr THEN node.value ELSE ""

HasValue(t, n, all) == t[n].type # "NONE" /\ (all \/ "ARCHIVE" \in t[n].attr)

\* A node that has both is written twice, once for the value and once for the
\* children.
RECURSIVE writeNode(_, _, _)
writeNode(t, n, all) ==
  LET inside == Offspring(t, n)
      each(k) == writeNode(t, inside[k], all)
  IN
  IF ~all /\ ~isArchivable(t, n) THEN <<>>
  ELSE (IF HasValue(t, n, all)
        THEN <<Written(t, n, IF t[n].type = "unspecified" THEN "none" ELSE t[n].type, getStringValue(t[n]), <<>>)>> ELSE <<>>)
       \o (IF inside # <<>> THEN <<Written(t, n, "none", "", FlattenSeq([k \in DOMAIN inside |-> each(k)]))>> ELSE <<>>)

PropertyList(elements) ==
  <<[name |-> "PropertyList", n |-> NoIndex, type |-> "none", include |-> "none", flags |-> <<>>, text |-> "",
     inside |-> elements]>>

Write(all) ==
  /\ phase = "read"
  /\ output' = FlattenSeq([k \in DOMAIN Offspring(tree, 1) |-> writeNode(tree, Offspring(tree, 1)[k], all)])
  /\ saved' = [tree |-> tree, all |-> all]
  /\ tree' = EmptyTree
  /\ readers' = <<Reader(Calls(PropertyList(output')), 1)>>
  /\ phase' = "restoring"
  /\ UNCHANGED master

IoNext ==
  \/ StartList \/ StartElement \/ CharacterData \/ EndElement \/ Finish
  \/ \E all \in BOOLEAN : Write(all)

IoSpec == IoInit /\ [][IoNext]_ioVars

-----------------------------------------------------------------------------
RECURSIVE PathOf(_, _)
PathOf(t, n) == IF t[n].parent = 0 THEN <<>> ELSE Append(PathOf(t, t[n].parent), <<t[n].name, t[n].index>>)

ValuesOf(t, nodes) == {<<PathOf(t, n), t[n].type, t[n].value>> : n \in {k \in nodes : t[k].type # "NONE"}}

\* What the elements of a file mean, one setting after another.  Without a
\* number an element is the one behind all of its name that precede it.
IndexOf(elements, k) ==
  LET index[j \in DOMAIN elements] ==
        LET before == {index[i] : i \in {m \in 1..(j - 1) : elements[m].name = elements[j].name}}
        IN  IF elements[j].n # NoIndex THEN elements[j].n
            ELSE IF before = {} THEN 0 ELSE 1 + CHOOSE x \in before : \A y \in before : y <= x
  IN  index[k]

Inside(file) == IF file \in DOMAIN Files THEN Files[file][1].inside ELSE <<>>

RECURSIVE Settings(_, _)
Settings(elements, path) ==
  LET each(e, p) ==
        LET inner == Settings(Inside(e.include), p) \o Settings(e.inside, p)
        IN  IF inner # <<>> THEN inner
            ELSE <<[path |-> p, type |-> e.type, text |-> e.text, protects |-> "WRITE" \notin Mode(e.flags)]>>
  IN  FlattenSeq([k \in DOMAIN elements |-> each(elements[k], Append(path, <<elements[k].name, IndexOf(elements, k)>>))])

MasterSettings == Settings(Inside(master[1].include), <<>>) \o Settings(master[1].inside, <<>>)

(* A configuration is a file and what it includes (data/config/main.xml).   *)
(* An include is read before what its element contains (props_io.cxx:       *)
(* 158-171, 214-232), and an element without "n" follows those of its name  *)
(* in its own file only (:175-186).  So each leaf has the last value that   *)
(* the files give it, as the type that they gave it last, however elements  *)
(* are numbered, repeated and included - unless one of them protects it.    *)
SettingsHold ==
  phase = "read" =>
    \A n \in {k \in 2..Len(tree) : IsLeaf(tree, k)} :
      LET settings == SelectSeq(MasterSettings, LAMBDA c : c.path = PathOf(tree, n))
          types    == SelectSeq(settings, LAMBDA c : c.type # "none")
          type     == IF types = <<>> THEN "unspecified" ELSE Last(types).type
      IN  /\ settings # <<>>
          /\ (\A k \in 1..(Len(settings) - 1) : ~settings[k].protects) =>
               tree[n].type = type /\ tree[n].value = Reads[type][Last(settings).text]

\* A node that is not written first of its name needs an index that is
\* written, one with a value may have no children, and one without a value
\* must not be written empty, as it is if it is archived and no child of it is.
Restorable(s) ==
  LET t == s.tree
      IsWritten(n) == (s.all \/ isArchivable(t, n)) /\ (HasValue(t, n, s.all) \/ ~IsLeaf(t, n))
  IN  \A n \in {k \in DOMAIN t : IsWritten(k)} :
        /\ HasValue(t, n, s.all) => IsLeaf(t, n) /\ "READ" \in t[n].attr
        /\ ~IsLeaf(t, n) => \E k \in DOMAIN t : t[k].parent = n /\ IsWritten(k)
        /\ t[n].index = 0 =>
             \A k \in 1..(n - 1) : IsWritten(k) => <<t[k].parent, t[k].name>> # <<t[n].parent, t[n].name>>

(* writeProperties() and readProperties() agree: what is written, all or    *)
(* what is archived (props_io.cxx:478-519), comes back under the same names *)
(* and indices with the same types and values.  A list of nothing does not  *)
(* come back at all: the root has no type (:171, :243-270).                 *)
WrittenReadsBack ==
  /\ phase = "lost" => output = <<>>
  /\ phase = "restored" /\ Restorable(saved) =>
       ValuesOf(tree, DOMAIN tree) =
         ValuesOf(saved.tree, {n \in DOMAIN saved.tree : HasValue(saved.tree, n, saved.all)})
=============================================================================
