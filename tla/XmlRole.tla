------------------------------- MODULE XmlRole -------------------------------
(***************************************************************************)
(* The part of a document before its root element (src/src/xml/xmlrole.c):  *)
(* each state of the prolog is a handler that looks at the next token,      *)
(* chooses the next handler and says which role the token plays.  With it   *)
(* goes what prologProcessor() (src/src/xml/xmlparse.c) checks of the       *)
(* groups in an element declaration.                                        *)
(*                                                                          *)
(* A token is named for what it looks like; a name whose spelling a handler *)
(* compares is named for its spelling.  A handler is a table from the       *)
(* tokens it knows: any other is a syntax error.                            *)
(***************************************************************************)
EXTENDS Naturals, Sequences, TLC

-----------------------------------------------------------------------------
\* Tokens.

AttributeTypes == {"CDATA", "ID", "IDREF", "IDREFS", "ENTITY", "ENTITIES", "NMTOKEN", "NMTOKENS"}
Keywords == AttributeTypes \cup {"SYSTEM", "PUBLIC", "NDATA", "NOTATION", "EMPTY", "ANY"}
Name     == {"name"} \cup Keywords        \* XML_TOK_NAME
AnyName  == Name \cup {"prefix:name"}     \* or XML_TOK_PREFIXED_NAME
Openings == {"<!DOCTYPE", "<!ENTITY", "<!ATTLIST", "<!ELEMENT", "<!NOTATION", "<!other"}
PoundNames == {"#IMPLIED", "#REQUIRED", "#FIXED", "#PCDATA", "#other"}

Tokens ==
  AnyName \cup Openings \cup PoundNames \cup
  {"S", "PI", "COMMENT", "XML_DECL", "BOM", "INSTANCE_START", "literal", "%", "%name;", "nmtoken",
   "[", "]", ">", "(", ")", ")?", ")*", ")+", ",", "|", "name?", "name*", "name+"}

-----------------------------------------------------------------------------
\* The handlers.

To(h, role) == [to |-> h, role |-> role]
Each(toks, h, role) == [t \in toks |-> To(h, role)]

\* What nearly every handler begins with: white space changes nothing.
Blank(h) == "S" :> To(h, "NONE")

prolog0 ==
  Each({"S", "PI", "COMMENT"}, "prolog1", "NONE") @@ "XML_DECL" :> To("prolog1", "XML_DECL")
    @@ "BOM" :> To("prolog0", "NONE") @@ "<!DOCTYPE" :> To("doctype0", "NONE")
    @@ "INSTANCE_START" :> To("error", "INSTANCE_START")
prolog1 ==
  Each({"S", "PI", "COMMENT", "BOM"}, "prolog1", "NONE") @@ "<!DOCTYPE" :> To("doctype0", "NONE")
    @@ "INSTANCE_START" :> To("error", "INSTANCE_START")
prolog2 ==
  Each({"S", "PI", "COMMENT"}, "prolog2", "NONE") @@ "INSTANCE_START" :> To("error", "INSTANCE_START")

doctype0 == Blank("doctype0") @@ Each(AnyName, "doctype1", "DOCTYPE_NAME")
doctype1 ==
  Blank("doctype1") @@ "[" :> To("internalSubset", "NONE") @@ ">" :> To("prolog2", "DOCTYPE_CLOSE")
    @@ "SYSTEM" :> To("doctype3", "NONE") @@ "PUBLIC" :> To("doctype2", "NONE")
doctype2 == Blank("doctype2") @@ "literal" :> To("doctype3", "DOCTYPE_PUBLIC_ID")
doctype3 == Blank("doctype3") @@ "literal" :> To("doctype4", "DOCTYPE_SYSTEM_ID")
doctype4 ==
  Blank("doctype4") @@ "[" :> To("internalSubset", "NONE") @@ ">" :> To("prolog2", "DOCTYPE_CLOSE")
doctype5 == Blank("doctype5") @@ ">" :> To("prolog2", "DOCTYPE_CLOSE")

internalSubset ==
  Each({"S", "PI", "COMMENT"}, "internalSubset", "NONE")
    @@ "<!ENTITY" :> To("entity0", "NONE") @@ "<!ATTLIST" :> To("attlist0", "NONE")
    @@ "<!ELEMENT" :> To("element0", "NONE") @@ "<!NOTATION" :> To("notation0", "NONE")
    @@ "%name;" :> To("internalSubset", "PARAM_ENTITY_REF") @@ "]" :> To("doctype5", "NONE")

entity0 ==
  Blank("entity0") @@ "%" :> To("entity1", "NONE") @@ Each(Name, "entity2", "GENERAL_ENTITY_NAME")
entity1 == Blank("entity1") @@ Each(Name, "entity7", "PARAM_ENTITY_NAME")
entity2 ==
  Blank("entity2") @@ "SYSTEM" :> To("entity4", "NONE") @@ "PUBLIC" :> To("entity3", "NONE")
    @@ "literal" :> To("declClose", "ENTITY_VALUE")
entity3 == Blank("entity3") @@ "literal" :> To("entity4", "ENTITY_PUBLIC_ID")
entity4 == Blank("entity4") @@ "literal" :> To("entity5", "ENTITY_SYSTEM_ID")
entity5 ==
  Blank("entity5") @@ ">" :> To("internalSubset", "NONE") @@ "NDATA" :> To("entity6", "NONE")
entity6 == Blank("entity6") @@ Each(Name, "declClose", "ENTITY_NOTATION_NAME")
entity7 ==
  Blank("entity7") @@ "SYSTEM" :> To("entity9", "NONE") @@ "PUBLIC" :> To("entity8", "NONE")
    @@ "literal" :> To("declClose", "ENTITY_VALUE")
entity8 == Blank("entity8") @@ "literal" :> To("entity9", "ENTITY_PUBLIC_ID")
entity9 == Blank("entity9") @@ "literal" :> To("declClose", "ENTITY_SYSTEM_ID")

notation0 == Blank("notation0") @@ Each(Name, "notation1", "NOTATION_NAME")
notation1 ==
  Blank("notation1") @@ "SYSTEM" :> To("notation3", "NONE") @@ "PUBLIC" :> To("notation2", "NONE")
notation2 == Blank("notation2") @@ "literal" :> To("notation4", "NOTATION_PUBLIC_ID")
notation3 == Blank("notation3") @@ "literal" :> To("declClose", "NOTATION_SYSTEM_ID")
notation4 ==
  Blank("notation4") @@ "literal" :> To("declClose", "NOTATION_SYSTEM_ID")
    @@ ">" :> To("internalSubset", "NOTATION_NO_SYSTEM_ID")

attlist0 == Blank("attlist0") @@ Each(AnyName, "attlist1", "ATTLIST_ELEMENT_NAME")
attlist1 ==
  Blank("attlist1") @@ ">" :> To("internalSubset", "NONE") @@ Each(AnyName, "attlist2", "ATTRIBUTE_NAME")
attlist2 ==
  Blank("attlist2") @@ [t \in AttributeTypes |-> To("attlist8", "ATTRIBUTE_TYPE_" \o t)]
    @@ "NOTATION" :> To("attlist5", "NONE") @@ "(" :> To("attlist3", "NONE")
attlist3 == Blank("attlist3") @@ Each(AnyName \cup {"nmtoken"}, "attlist4", "ATTRIBUTE_ENUM_VALUE")
attlist4 == Blank("attlist4") @@ ")" :> To("attlist8", "NONE") @@ "|" :> To("attlist3", "NONE")
attlist5 == Blank("attlist5") @@ "(" :> To("attlist6", "NONE")
attlist6 == Blank("attlist6") @@ Each(Name, "attlist7", "ATTRIBUTE_NOTATION_VALUE")
attlist7 == Blank("attlist7") @@ ")" :> To("attlist8", "NONE") @@ "|" :> To("attlist6", "NONE")
attlist8 ==
  Blank("attlist8") @@ "#IMPLIED" :> To("attlist1", "IMPLIED_ATTRIBUTE_VALUE")
    @@ "#REQUIRED" :> To("attlist1", "REQUIRED_ATTRIBUTE_VALUE") @@ "#FIXED" :> To("attlist9", "NONE")
    @@ "literal" :> To("attlist1", "DEFAULT_ATTRIBUTE_VALUE")
attlist9 == Blank("attlist9") @@ "literal" :> To("attlist1", "FIXED_ATTRIBUTE_VALUE")

\* A name in a group, with what may follow it.
ContentElement ==
  Each(AnyName, "element7", "CONTENT_ELEMENT") @@ "name?" :> To("element7", "CONTENT_ELEMENT_OPT")
    @@ "name*" :> To("element7", "CONTENT_ELEMENT_REP") @@ "name+" :> To("element7", "CONTENT_ELEMENT_PLUS")

element0 == Blank("element0") @@ Each(AnyName, "element1", "ELEMENT_NAME")
element1 ==
  Blank("element1") @@ "EMPTY" :> To("declClose", "CONTENT_EMPTY") @@ "ANY" :> To("declClose", "CONTENT_ANY")
    @@ "(" :> To("element2", "GROUP_OPEN")
element2 ==
  Blank("element2") @@ "#PCDATA" :> To("element3", "CONTENT_PCDATA") @@ "(" :> To("element6", "GROUP_OPEN")
    @@ ContentElement
element3 ==
  Blank("element3") @@ Each({")", ")*"}, "declClose", "GROUP_CLOSE_REP") @@ "|" :> To("element4", "NONE")
element4 == Blank("element4") @@ Each(AnyName, "element5", "CONTENT_ELEMENT")
element5 ==
  Blank("element5") @@ ")*" :> To("declClose", "GROUP_CLOSE_REP") @@ "|" :> To("element4", "NONE")
element6 == Blank("element6") @@ "(" :> To("element6", "GROUP_OPEN") @@ ContentElement

\* Where a group is closed: the next handler depends on the level.
element7 ==
  Blank("element7") @@ ")" :> To("AfterGroup", "GROUP_CLOSE") @@ ")*" :> To("AfterGroup", "GROUP_CLOSE_REP")
    @@ ")?" :> To("AfterGroup", "GROUP_CLOSE_OPT") @@ ")+" :> To("AfterGroup", "GROUP_CLOSE_PLUS")
    @@ "," :> To("element6", "GROUP_SEQUENCE") @@ "|" :> To("element6", "GROUP_CHOICE")

declClose == Blank("declClose") @@ ">" :> To("internalSubset", "NONE")

Handlers ==
  [prolog0 |-> prolog0, prolog1 |-> prolog1, prolog2 |-> prolog2, doctype0 |-> doctype0,
   doctype1 |-> doctype1, doctype2 |-> doctype2, doctype3 |-> doctype3, doctype4 |-> doctype4,
   doctype5 |-> doctype5, internalSubset |-> internalSubset, entity0 |-> entity0,
   entity1 |-> entity1, entity2 |-> entity2, entity3 |-> entity3, entity4 |-> entity4,
   entity5 |-> entity5, entity6 |-> entity6, entity7 |-> entity7, entity8 |-> entity8,
   entity9 |-> entity9, notation0 |-> notation0, notation1 |-> notation1, notation2 |-> notation2,
   notation3 |-> notation3, notation4 |-> notation4, attlist0 |-> attlist0, attlist1 |-> attlist1,
   attlist2 |-> attlist2, attlist3 |-> attlist3, attlist4 |-> attlist4, attlist5 |-> attlist5,
   attlist6 |-> attlist6, attlist7 |-> attlist7, attlist8 |-> attlist8, attlist9 |-> attlist9,
   element0 |-> element0, element1 |-> element1, element2 |-> element2, element3 |-> element3,
   element4 |-> element4, element5 |-> element5, element6 |-> element6, element7 |-> element7,
   declClose |-> declClose]

syntaxError == To("error", "ERROR")

\* Closing the outermost group ends the content, closing another does not.
AfterGroup(state) == IF state.level = 1 THEN "declClose" ELSE "element7"

\* The level after a token of this role.
LevelAfter(state, role) ==
  CASE state.handler = "element1" /\ role = "GROUP_OPEN" -> 1
    [] state.handler = "element2" /\ role = "GROUP_OPEN" -> 2
    [] state.handler = "element6" /\ role = "GROUP_OPEN" -> state.level + 1
    [] state.handler = "element7" /\ role \in {"GROUP_CLOSE", "GROUP_CLOSE_REP", "GROUP_CLOSE_OPT", "GROUP_CLOSE_PLUS"}
         -> state.level - 1
    [] OTHER -> state.level

\* The role of a token, and the PROLOG_STATE that it leaves.
XmlTokenRole(state, tok) ==
  LET known  == Handlers[state.handler]
      answer == IF tok \in DOMAIN known THEN known[tok] ELSE syntaxError
  IN  [role |-> answer.role,
       state |-> [handler |-> IF answer.to = "AfterGroup" THEN AfterGroup(state) ELSE answer.to,
                  level |-> LevelAfter(state, answer.role)]]

XmlPrologStateInit == [handler |-> "prolog0", level |-> 0]

-----------------------------------------------------------------------------
\* prologProcessor() on the roles of groups and errors; "connector" is the
\* parser's groupConnector[], by level.

Connectors == [GROUP_SEQUENCE |-> ",", GROUP_CHOICE |-> "|"]

\* Mutant: only a choice in a sequence is found.
MixedOneWay(connector, level, role) == role = "GROUP_CHOICE" /\ connector[level] = ","

\* A group is a sequence or a choice, not both.
Mixed(connector, level, role) ==
  role \in DOMAIN Connectors /\ connector[level] \notin {"", Connectors[role]}

RoleError(connector, level, tok, role) ==
  CASE role = "ERROR" /\ tok = "%name;"                   -> "PARAM_ENTITY_REF"
    [] role = "ERROR" /\ tok = "XML_DECL"                 -> "MISPLACED_XML_PI"
    [] role = "ERROR" \/ Mixed(connector, level, role)    -> "SYNTAX"
    [] OTHER                                              -> "NONE"

\* "level" is the one after the token.
ConnectorAfter(connector, level, role) ==
  CASE role = "GROUP_OPEN"        -> (level :> "") @@ connector
    [] role \in DOMAIN Connectors -> [connector EXCEPT ![level] = Connectors[role]]
    [] OTHER                      -> connector
==============================================================================
