---------------------------- MODULE MC_Properties ----------------------------
(***************************************************************************)
(* Instances of PropertyTree and PropertyNode in one run.  Neither part of *)
(* a node disturbs the other: a behaviour is one of the tree or one of the *)
(* values, while the other stays as it starts.                             *)
(***************************************************************************)
EXTENDS PropertyTree, PropertyNode

MCTexts == {"a", "a[1]", "./../a", "/a/a"}

Upwards   == Component("..", -1)
Downwards == Component("a", 0)

MCParse == [t \in MCTexts |->
  CASE t = "a"      -> <<Downwards>>
    [] t = "a[1]"   -> <<Component("a", 1)>>
    [] t = "./../a" -> <<Component(".", -1), Upwards, Downwards>>
    [] t = "/a/a"   -> <<Component("", -1), Downwards, Downwards>>]

MCBare == [s \in {"a"} |-> "a"]

MCMayAlias == {<<2, 1>>}
MCRawFunctions == SUBSET {"getter", "setter"}

MCStrings == {"", "true", "false", "0", "1", "1.5"}
MCNumbers == {0, 2, 3}

\* What is read in "1.5" as a whole number and as any number.
ReadAs(fraction) == [s \in MCStrings |-> CASE s = "1" -> 2 [] s = "1.5" -> fraction [] OTHER -> 0]

MCAtoi   == ReadAs(2)
MCStrtol == ReadAs(2)
MCStrtod == ReadAs(3)
MCWritten  == [v \in MCNumbers |-> CASE v = 0 -> "0" [] v = 2 -> "1" [] v = 3 -> "1.5"]

PropertiesInit == TreeInit /\ NodeInit

PropertiesNext ==
  \/ NodeInit /\ TreeNext /\ UNCHANGED node
  \/ TreeInit /\ NodeNext /\ UNCHANGED tree_vars

PropertiesSpec == PropertiesInit /\ [][PropertiesNext]_<<tree_vars, node>>

==============================================================================
