------------------------------- MODULE XmlProlog ------------------------------
(***************************************************************************)
(* The tables of XmlRole at work: a machine that is given the tokens of a   *)
(* prolog, with the grammar of XML to compare it with.                      *)
(***************************************************************************)
EXTENDS XmlRole, SequencesExt, FiniteSets

CONSTANTS
  MaxLength,   \* longest declaration, in tokens, that is tried
  Common,      \* the tokens of which such a declaration consists
  FullLength   \* longest declaration of any tokens

VARIABLES
  prologState, \* PROLOG_STATE: the handler, and how many groups are open
  groupConnector,
  outcome,     \* what prologProcessor() will return: NONE while it goes on
  written,     \* history: what the document consists of so far
  complete     \* history: the declaration that the last token completed

prologVars == <<prologState, groupConnector, outcome, written, complete>>

handler == prologState.handler

-----------------------------------------------------------------------------
PrologInit ==
  /\ prologState = XmlPrologStateInit
  /\ groupConnector = <<>>
  /\ outcome = "NONE"
  /\ written = [outline |-> <<>>, doctype |-> <<>>, decl |-> <<>>]
  /\ complete = <<>>

\* History: the document as an outline, its doctype and the declaration that
\* is being read, without white space; of what is complete only its kind.
Misc == {"S", "PI", "COMMENT"}

Recorded(tok, answer) ==
  LET said == <<tok, answer.role>>
      whole == answer.role # "ERROR" /\ ~Mixed(groupConnector, prologState.level, answer.role)
  IN
  CASE handler \in {"prolog0", "prolog1"} /\ answer.state.handler = "doctype0" ->
         [written EXCEPT !.doctype = <<said>>]
    [] handler \in {"prolog0", "prolog1", "prolog2"} ->
         [written EXCEPT !.outline = IF @ # <<>> /\ whole /\ {tok, Last(@)} \subseteq Misc THEN @ ELSE Append(@, tok)]
    [] tok = "S" /\ whole -> written
    [] written.decl # <<>> \/ (handler = "internalSubset" /\ tok \in Openings) ->
         [written EXCEPT !.decl = IF whole /\ answer.state.handler = "internalSubset" THEN <<>> ELSE Append(@, said)]
    [] whole /\ answer.state.handler = "prolog2" ->
         [outline |-> Append(written.outline, "DOCTYPE"), doctype |-> <<>>, decl |-> <<>>]
    [] whole /\ handler = "internalSubset" /\ answer.state.handler = "internalSubset" -> written
    [] OTHER -> [written EXCEPT !.doctype = Append(@, said)]

\* History: what has just been completed.
Complete(tok, answer) ==
  CASE written.decl # <<>> /\ answer.state.handler = "internalSubset" -> Append(written.decl, <<tok, answer.role>>)
    [] written.doctype # <<>> /\ answer.state.handler = "prolog2" -> Append(written.doctype, <<tok, answer.role>>)
    [] OTHER -> <<>>

\* The handlers that look at how a name is spelled.
Spelled == {"doctype1", "entity2", "entity5", "entity7", "notation1", "attlist2", "element1"}

TokensOf(s) == [n \in DOMAIN s |-> s[n][1]]

\* The bounds of a declaration: many tokens of some kinds or a few of any.
Tractable(toks) == Len(toks) <= FullLength \/ (Len(toks) <= MaxLength /\ Range(toks) \subseteq Common)

\* What is tried next: a declaration only in a doctype without more.
Tried(tok) ==
  /\ tok \in Keywords => handler \in Spelled
  /\ Tractable(Append(TokensOf(written.decl), tok))
  /\ handler = "internalSubset" /\ tok \in Openings => written.outline = <<>> /\ Len(written.doctype) = 3
  /\ tok = "BOM" => written.outline = <<>>

Token ==
  /\ outcome = "NONE"
  /\ \E tok \in Tokens :
       LET answer == XmlTokenRole(prologState, tok)
           error  == RoleError(groupConnector, prologState.level, tok, answer.role)
       IN  /\ Tried(tok)
           /\ prologState' = answer.state
           /\ groupConnector' = ConnectorAfter(groupConnector, answer.state.level, answer.role)
           /\ outcome' = IF answer.role = "INSTANCE_START" THEN "CONTENT" ELSE error
           /\ written' = Recorded(tok, answer)
           /\ complete' = Complete(tok, answer)

PrologSpec == PrologInit /\ [][Token]_prologVars

-----------------------------------------------------------------------------
\* The grammar, from the productions of XML 1.0 (22, 28, 45 to 59, 71 to 76,
\* 82), with the role of each token; sentences within the bounds.

\* The sequences of one of A and one of B, up to a length.
Within(length, A, B) ==
  UNION {{s \in {a \o b : a \in {x \in A : Len(x) = n}, b \in {x \in B : Len(x) <= length - n}} :
            Tractable(TokensOf(s))} : n \in 0..length}
Then(A, B) == Within(MaxLength, A, B)
OneOf(toks, role) == {<<<<t, role>>>> : t \in toks}
Plain(tok) == OneOf({tok}, "NONE")
Optional(A) == A \cup {<<>>}

\* More than three of anything do not fit.
Times(A) ==
  LET more[n \in 0..3] == IF n = 0 THEN {<<>>} ELSE {<<>>} \cup Then(A, more[n - 1])
  IN  more[3]

LooseName(role) == OneOf({"name", "prefix:name"}, role)
Literal(role) == OneOf({"literal"}, role)

Particles ==
  LooseName("CONTENT_ELEMENT") \cup OneOf({"name?"}, "CONTENT_ELEMENT_OPT")
    \cup OneOf({"name*"}, "CONTENT_ELEMENT_REP") \cup OneOf({"name+"}, "CONTENT_ELEMENT_PLUS")
GroupEnd ==
  OneOf({")"}, "GROUP_CLOSE") \cup OneOf({")*"}, "GROUP_CLOSE_REP")
    \cup OneOf({")?"}, "GROUP_CLOSE_OPT") \cup OneOf({")+"}, "GROUP_CLOSE_PLUS")

\* Of the declaration, three tokens stand around a group, and two are its own.
Groups(particles) ==
  LET length == MaxLength - 5
      list(sep) ==
        LET more[n \in 0..length] ==
              IF n = 0 THEN {<<>>} ELSE {<<>>} \cup Within(length, Within(length, sep, particles), more[n - 1])
        IN  Within(length, particles, more[length])
  IN  Within(MaxLength - 3, OneOf({"("}, "GROUP_OPEN"),
        Within(MaxLength - 4, list(OneOf({","}, "GROUP_SEQUENCE")) \cup list(OneOf({"|"}, "GROUP_CHOICE")), GroupEnd))

\* Groups in groups; deeper ones are longer than MaxLength.
Children ==
  LET deep[d \in 0..3] == IF d = 0 THEN {} ELSE Groups(Particles \cup deep[d - 1])
  IN  deep[3]

MixedContent ==
  Then(OneOf({"("}, "GROUP_OPEN"), Then(OneOf({"#PCDATA"}, "CONTENT_PCDATA"),
    OneOf({")", ")*"}, "GROUP_CLOSE_REP")
      \cup Then(Times(Then(Plain("|"), LooseName("CONTENT_ELEMENT"))), OneOf({")*"}, "GROUP_CLOSE_REP"))))

ElementDecl ==
  Then(Then(Plain("<!ELEMENT"), LooseName("ELEMENT_NAME")),
       OneOf({"EMPTY"}, "CONTENT_EMPTY") \cup OneOf({"ANY"}, "CONTENT_ANY") \cup MixedContent \cup Children)

Alternatives(A) == Then(Plain("("), Then(Then(A, Times(Then(Plain("|"), A))), Plain(")")))

AttributeType ==
  UNION {OneOf({t}, "ATTRIBUTE_TYPE_" \o t) : t \in AttributeTypes}
    \cup Then(Plain("NOTATION"), Alternatives(OneOf({"name"}, "ATTRIBUTE_NOTATION_VALUE")))
    \cup Alternatives(OneOf({"name", "prefix:name", "nmtoken"}, "ATTRIBUTE_ENUM_VALUE"))

DefaultDecl ==
  OneOf({"#REQUIRED"}, "REQUIRED_ATTRIBUTE_VALUE") \cup OneOf({"#IMPLIED"}, "IMPLIED_ATTRIBUTE_VALUE")
    \cup Literal("DEFAULT_ATTRIBUTE_VALUE") \cup Then(Plain("#FIXED"), Literal("FIXED_ATTRIBUTE_VALUE"))

AttlistDecl ==
  Then(Then(Plain("<!ATTLIST"), LooseName("ATTLIST_ELEMENT_NAME")),
       Times(Then(LooseName("ATTRIBUTE_NAME"), Then(AttributeType, DefaultDecl))))

ExternalId(public, system) ==
  Then(Plain("SYSTEM"), Literal(system)) \cup Then(Plain("PUBLIC"), Then(Literal(public), Literal(system)))

EntityDecl ==
  Then(Plain("<!ENTITY"),
    Then(OneOf({"name"}, "GENERAL_ENTITY_NAME"),
      Literal("ENTITY_VALUE")
        \cup Then(ExternalId("ENTITY_PUBLIC_ID", "ENTITY_SYSTEM_ID"),
                  Optional(Then(Plain("NDATA"), OneOf({"name"}, "ENTITY_NOTATION_NAME")))))
    \cup Then(Plain("%"), Then(OneOf({"name"}, "PARAM_ENTITY_NAME"),
      Literal("ENTITY_VALUE") \cup ExternalId("ENTITY_PUBLIC_ID", "ENTITY_SYSTEM_ID"))))

NotationDecl ==
  Then(Then(Plain("<!NOTATION"), OneOf({"name"}, "NOTATION_NAME")),
       ExternalId("NOTATION_PUBLIC_ID", "NOTATION_SYSTEM_ID")
         \cup Then(Plain("PUBLIC"), Literal("NOTATION_PUBLIC_ID")))

\* A public identifier alone ends a notation with a role of its own.
Declarations ==
  Then(ElementDecl \cup AttlistDecl \cup EntityDecl, Plain(">"))
    \cup {IF s[Len(s)] = <<"literal", "NOTATION_PUBLIC_ID">>
          THEN Append(s, <<">", "NOTATION_NO_SYSTEM_ID">>) ELSE Append(s, <<">", "NONE">>) : s \in NotationDecl}

\* The bounds do not apply to the declaration around the others.
DoctypeDecl ==
  {<<<<"<!DOCTYPE", "NONE">>>> \o name \o external \o subset \o <<<<">", "DOCTYPE_CLOSE">>>> :
     name \in LooseName("DOCTYPE_NAME"),
     external \in Optional(ExternalId("DOCTYPE_PUBLIC_ID", "DOCTYPE_SYSTEM_ID")),
     subset \in {<<>>, <<<<"[", "NONE">>, <<"]", "NONE">>>>}}

Beginnings(sentences) == UNION {{SubSeq(s, 1, n) : n \in 0..Len(s)} : s \in sentences}
DeclarationsBegin == {TokensOf(s) : s \in Beginnings(Declarations)}
DoctypesBegin == {TokensOf(s) : s \in Beginnings(DoctypeDecl)}

\* Prolog and root element: of several blanks, comments and instructions one.
Outlines ==
  {bom \o xml \o before \o doctype \o <<"INSTANCE_START">> :
     bom \in {<<>>, <<"BOM">>}, xml \in {<<>>, <<"XML_DECL">>}, before \in {<<>>} \cup {<<m>> : m \in Misc},
     doctype \in {<<>>, <<"DOCTYPE">>} \cup {<<"DOCTYPE", m>> : m \in Misc}}
OutlinesBegin == Beginnings(Outlines)

-----------------------------------------------------------------------------
(* What the prolog takes is what XML's grammar says, with the roles that    *)
(* the parser acts on: a declaration is complete exactly when it is a       *)
(* sentence, and a token is refused only where no sentence goes on with it. *)
(* "level" and the connectors of groups are left as they are from one       *)
(* declaration to the next (xmlrole.c:865, xmlparse.c:2211-2235).           *)
PrologIsGrammatical ==
  /\ complete # <<>> => complete \in Declarations \cup DoctypeDecl
  /\ outcome = "CONTENT" => written.outline \in Outlines
  /\ outcome \notin {"NONE", "CONTENT"} =>
       CASE written.decl # <<>>    -> TokensOf(written.decl) \notin DeclarationsBegin
         [] written.doctype # <<>> -> TokensOf(written.doctype) \notin DoctypesBegin
         [] OTHER                  -> written.outline \notin OutlinesBegin
==============================================================================
