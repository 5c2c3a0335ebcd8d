-------------------------------- MODULE MC_Xml --------------------------------
(***************************************************************************)
(* The prolog's tables, the parser that uses them and the reader of         *)
(* property files that uses the parser: a behaviour is one of the tables,   *)
(* which are given tokens, of the parser, which is given documents, or of   *)
(* the reader, which is given elements, while the others stay as they start.*)
(*                                                                          *)
(* A document is composed of pieces, of which each is known to mean         *)
(* something wherever it stands.                                            *)
(***************************************************************************)
EXTENDS XmlProlog, XmlParse, PropsIO

VARIABLE machine   \* which one moves

mcVars == <<machine, prologVars, parseVars, ioVars>>

\* A piece: text, events and how reading ends in it, if it does, so many
\* bytes from its beginning.
Good(text, events) ==
  [text |-> text, events |-> events, verdict |-> "DONE", at |-> 0, early |-> FALSE, untold |-> 0, loose |-> {}]
Wrong(text, events, verdict, at) == [Good(text, events) EXCEPT !.verdict = verdict, !.at = at]
Early(text, events, verdict, at) == [Wrong(text, events, verdict, at) EXCEPT !.early = TRUE]
EarlyLast(text, events, verdict, at) == [Early(text, events, verdict, at) EXCEPT !.untold = 1]
\* Behind the root element: a CR LF at each of these places is white space.
WithLineEnds(piece, places) == [piece EXCEPT !.loose = places]

Said(text) == Chars(Characters(text))
Starts(name, atts) ==
  <<"start", Characters(name), [n \in DOMAIN atts |-> <<Characters(atts[n][1]), Characters(atts[n][2])>>]>>
Ends(name) == <<"end", Characters(name)>>
Instructs(target, data) == <<"pi", Characters(target), Characters(data)>>

Extended(d, piece) ==
  IF d.verdict # "DONE" THEN [d EXCEPT !.text = @ \o Characters(piece.text)]
  ELSE [piece EXCEPT !.text = d.text \o Characters(@), !.events = d.events \o @, !.at = Len(d.text) + 1 + @,
                     !.loose = d.loose \cup {Len(d.text) + 1 + k : k \in @}]
Composed(pieces) == FoldLeft(Extended, [Good("", <<>>) EXCEPT !.text = <<>>], pieces)

-----------------------------------------------------------------------------
Item(text) == Good(text, Said(text))
Root == Good("<r>", <<Starts("r", <<>>)>>)
Close == Good("</r\n>", <<Ends("r")>>)
Both(name, atts) == <<Starts(name, atts), Ends(name)>>

\* What an element may contain without a DTD.
Items ==
  <<Item("a\nb"), Good("\r\n", Said("\n")), Good("x\r", Said("x\n")), Item("]"), Item(">"), Item("{}"),
    Good("&lt;&#65;&#x4a;", Said("<AJ")),
    Good("<![CDATA[<]\r\n]{}]]>", Said("<]\n]{}")),
    Good("<!-- - ]]> -->", <<>>),
    Good("<?p q\r?>", <<Instructs("p", "q\n")>>),
    Good("<k a='1 2' b=\"x\r\ny&amp;\"/>", Both("k", <<<<"a", "1 2">>, <<"b", "x y&">>>>)),
    Good("<k>v</k >", <<Starts("k", <<>>)>> \o Said("v") \o <<Ends("k")>>)>>

\* What is wrong with it; the last of them at the end of the document.
WrongItems ==
  <<Wrong("\n]]>", Said("\n"), "INVALID_TOKEN", 3), Wrong("&u;", <<>>, "UNDEFINED_ENTITY", 0),
    Wrong("<k>\n</r>", <<Starts("k", <<>>)>> \o Said("\n"), "TAG_MISMATCH", 6),
    Wrong("<k a=''\n b='' a=''/>", <<>>, "DUPLICATE_ATTRIBUTE", 14),
    Wrong("\n&#0;", Said("\n"), "BAD_CHAR_REF", 1), Wrong("<k a='\n&#xD800;'/>", <<>>, "BAD_CHAR_REF", 7),
    Wrong("<?xml v?>", <<>>, "MISPLACED_XML_PI", 0), Wrong("<k a='<'/>", <<>>, "INVALID_TOKEN", 6)>>
EarlyItems ==
  <<Early("<k", <<>>, "UNCLOSED_TOKEN", 0), Early("<![CDATA[x\n", Said("x\n"), "UNCLOSED_CDATA_SECTION", 11),
    EarlyLast("x]", Said("x]"), "NO_ELEMENTS", 2), EarlyLast("x\r", Said("x\n"), "NO_ELEMENTS", 1),
    Early("{", <<>>, "PARTIAL_CHAR", 0), Early("</r", <<>>, "UNCLOSED_TOKEN", 0)>>

Epilogs ==
  <<Good("\n<!-- -->\n<?e?>", <<Instructs("e", "")>>), Good("\r", <<>>), Wrong("\nx ", <<>>, "JUNK_AFTER_DOC_ELEMENT", 1),
    Wrong("<!-- \n--\n>", <<>>, "INVALID_TOKEN", 8), Early("\n<?e", <<>>, "UNCLOSED_TOKEN", 1),
    WithLineEnds(Wrong("\r\n\r\nx ", <<>>, "JUNK_AFTER_DOC_ELEMENT", 4), {0, 2}),
    WithLineEnds(Wrong("<!--\r\n-->\r\n<k>", <<>>, "JUNK_AFTER_DOC_ELEMENT", 11), {9}),
    WithLineEnds(Early("\r\n<?e\r\n", <<>>, "UNCLOSED_TOKEN", 2), {0})>>

\* Declarations, and what they make of content.
Declaring(text) == Good("<!DOCTYPE r [" \o text \o "]>\r\n", <<>>)
E1 == "<!ENTITY e 'x&#38;amp;y'>"
E2 == "<!ENTITY e 'no'><!ENTITY t\n'<k a=\"&e;\">&e;</k>]'>"
A1 == "<!ATTLIST r a CDATA ' d&e;' b NMTOKENS #IMPLIED c ID #FIXED 'c' b CDATA 'z'>"
Declared1 == Declaring(E1 \o E2 \o A1)
RootWith(tag, b) == Good(tag, <<Starts("r", b)>>)
DefaultRoot == RootWith("<r>", <<<<"a", " dx&y">>, <<"c", "c">>, <<"b", "z">>>>)
GivenRoot == RootWith("<r b=' p\n q ' a='&#32;'>", <<<<"b", "p q">>, <<"a", " ">>, <<"c", "c">>>>)

Ref(decl, text, events) == <<Declaring(decl), Root, Good(text, events), Close>>
WrongRef(decl, text, events, verdict) == <<Declaring(decl), Root, Wrong(text, events, verdict, 0)>>
WrongDecl(text, verdict, at) == <<Wrong("<!DOCTYPE r [\n" \o text, <<>>, verdict, 14 + at)>>

DtdDocuments ==
  <<<<Declared1, DefaultRoot, Good("&t;&e;", <<Starts("k", <<<<"a", "x&y">>>>)>> \o Said("x&y") \o <<Ends("k")>> \o Said("]x&y")), Close>>,
    <<Declared1, GivenRoot, Item("v"), Close>>,
    Ref("<!ENTITY c '<![CDATA[<]]>\r\n<!-- --><?p?>]]'>", "&c;", Said("<\n") \o <<Instructs("p", "")>> \o Said("]]")),
    Ref("<!ELEMENT r (a?,(b|c)+)*><!NOTATION n PUBLIC 'p'><!ENTITY x SYSTEM 's'>%p;", "&x;&y;", <<>>),
    <<Good("<!DOCTYPE r SYSTEM 's'>", <<>>), Root, Good("&y;", <<>>), Close>>,
    <<Good("<?xml version='1.0' standalone='yes'?>\n<!DOCTYPE r PUBLIC 'p' 's'>", <<>>), Root,
      Wrong("&y;", <<>>, "UNDEFINED_ENTITY", 0)>>,
    WrongRef("<!ENTITY a '&b;'><!ENTITY b '-&a;'>", "&a;", Said("-"), "RECURSIVE_ENTITY_REF"),
    WrongRef("<!ENTITY a '&b;'><!ENTITY b '&a;'>", "<k a='&a;'/>", <<>>, "RECURSIVE_ENTITY_REF"),
    WrongRef("<!ENTITY a '</r>'>", "&a;", <<>>, "ASYNC_ENTITY"),
    WrongRef("<!ENTITY a '<k>'>", "&a;", <<Starts("k", <<>>)>>, "ASYNC_ENTITY"),
    WrongRef("<!ENTITY a '&u;'>", "&a;", <<>>, "UNDEFINED_ENTITY"),
    WrongRef("<!ENTITY a SYSTEM 's' NDATA n>", "&a;", <<>>, "BINARY_ENTITY_REF"),
    WrongRef("<!ENTITY a SYSTEM 's'>", "<k a='&a;'/>", <<>>, "ATTRIBUTE_EXTERNAL_ENTITY_REF"),
    WrongDecl("<!ELEMENT a (b,\nc|d)>", "SYNTAX", 17), WrongDecl("<!ENTITY a '\n%p;'>", "SYNTAX", 13),
    WrongDecl("<!ENTITY a PUBLIC '\n{}' 's'>", "SYNTAX", 20), WrongDecl("<!ENTITY % a '\n&#4;'>", "BAD_CHAR_REF", 15),
    WrongDecl("<!ATTLIST a b CDATA '\n&u;'>", "UNDEFINED_ENTITY", 22), WrongDecl("<!ENTITY a b>", "SYNTAX", 11)>>

Prologs ==
  <<<<Good("<?xml version='1.0' encoding='UTF-8'?>\n<!-- <r> -->", <<>>), Good("<?go x\r\ny?>", <<Instructs("go", "x\ny")>>)>>,
    <<Good("<?xml version='1.0' encoding='iso-8859-1'?>", <<>>)>>>>
WrongProlog ==
  <<<<Wrong("<?xml version='1.0'\nencoding='x'?>", <<>>, "UNKNOWN_ENCODING", 30)>>,
    <<Wrong("<?xml version='1.0'\nencoding='Utf-16'?>", <<>>, "INCORRECT_ENCODING", 30)>>,
    <<Wrong("<?xml\nversion='1.0' standalone='maybe'?>", <<>>, "SYNTAX", 31)>>,
    <<Wrong("\n<?xml version='1.0'?>", <<>>, "MISPLACED_XML_PI", 1)>>, <<Wrong("\n<\n", <<>>, "INVALID_TOKEN", 2)>>,
    <<Early("\r", <<>>, "UNCLOSED_TOKEN", 0)>>>>

\* One or two of the items, each followed by each.
Pairs == [n \in 1..(Len(Items) * Len(Items)) |-> <<Root, Items[((n - 1) \div Len(Items)) + 1], Items[((n - 1) % Len(Items)) + 1], Close>>]
MCInputs ==
  LET inRoot(n) == <<Root, Items[((n * 5) % Len(Items)) + 1]>>
      lists == Pairs \o DtdDocuments \o WrongProlog
        \o [n \in DOMAIN WrongItems |-> inRoot(n) \o <<WrongItems[n], Close>>]
        \o [n \in DOMAIN EarlyItems |-> inRoot(n) \o <<EarlyItems[n]>>]
        \o [n \in DOMAIN Epilogs |-> <<Root, Close, Epilogs[n]>>]
        \o [n \in DOMAIN Prologs |-> Prologs[n] \o <<Good("<r/>", Both("r", <<>>))>>]
      ways == [from : {"stream"}, size : {1, 2, 3, 7, 100}] \cup [from : {"memory"}, size : {0}]
  IN  {Composed(lists[n]) @@ way : n \in DOMAIN lists, way \in ways}

-----------------------------------------------------------------------------
\* Property files: up to two elements of every kind, or three plain ones that
\* may have the same name and index.
Leaf(name, n, type, text) == [name |-> name, n |-> n, type |-> type, include |-> "none", flags |-> <<>>, text |-> text, inside |-> <<>>]

PlainLeaves ==
  {Leaf("a", n, c[1], c[2]) : n \in {-1, 0, 1}, c \in {<<"none", "x">>, <<"int", "5">>}}

\* Types, values, protection, children, includes, and what is wrong.
AnyElements == PlainLeaves
  \cup {Leaf("a", -1, "bool", "5"), Leaf("b", -1, "none", "true"), Leaf("b", -1, "none", ""),
        [Leaf("a", 0, "string", "5") EXCEPT !.flags = [a \in {"WRITE", "ARCHIVE"} |-> IF a = "WRITE" THEN "n" ELSE "y"]]}
  \cup {[Leaf("b", -1, "int", "") EXCEPT !.inside = <<Leaf("a", -1, "int", "x"), Leaf("a", 1, "none", "5")>>],
        [Leaf("b", -1, "none", "") EXCEPT !.inside = <<[Leaf("a", 1, "double", "5") EXCEPT !.flags = [a \in {"ARCHIVE"} |-> "y"]]>>],
        [Leaf("b", -1, "none", "true") EXCEPT !.include = "part.xml"],
        [Leaf("a", 0, "none", "") EXCEPT !.include = "part.xml", !.inside = <<Leaf("a", -1, "none", "7")>>],
        [Leaf("b", -1, "none", "x") EXCEPT !.include = "missing.xml"],
        Leaf("b", -1, "text", "x"), [Leaf("b", -1, "none", "x") EXCEPT !.flags = [a \in {"READ"} |-> "no"]],
        [Leaf("b", -1, "none", "x") EXCEPT !.flags = [a \in {"READ"} |-> "n"]],
        [Leaf("b", 1, "none", "") EXCEPT !.include = "empty.xml"], [Leaf("b", 1, "none", "") EXCEPT !.include = "other.xml"]}

PropsFile(elements, include) == <<[PropertyList(elements)[1] EXCEPT !.include = include]>>
MCMasters ==
  {PropsFile(elements, include) : elements \in UNION {[1..n -> AnyElements] : n \in 0..2}, include \in {"none", "part.xml"}}
  \cup {PropsFile(<<e1, e2, e3>>, "none") : e1 \in PlainLeaves, e2 \in PlainLeaves, e3 \in PlainLeaves}
  \cup {<<Leaf("b", -1, "none", "")>>}

MCFiles ==
  [f \in {"part.xml", "empty.xml", "other.xml"} |->
    CASE f = "part.xml" -> PropsFile(<<Leaf("a", -1, "int", "5"), Leaf("a", -1, "none", "7")>>, "none")
      [] f = "empty.xml" -> PropsFile(<<>>, "none")
      [] f = "other.xml" -> <<Leaf("b", -1, "none", "")>>]

MCReads ==
  [t \in Types |-> [s \in {"", "x", "0", "5", "7", "true", "false"} |->
     CASE t \in {"string", "unspecified"} -> s
       [] t = "bool"  -> IF s \in {"true", "5", "7"} THEN "true" ELSE "false"
       [] OTHER       -> IF s \in {"5", "7"} THEN s ELSE "0"]]

-----------------------------------------------------------------------------
\* Names of every kind, groups, separators, and one of each kind of value.
MCCommon ==
  {"SYSTEM", "PUBLIC", "NDATA", "NOTATION", "CDATA", "S", "%", "literal", ">", "<!ENTITY", "<!ELEMENT", "<!ATTLIST", "<!NOTATION",
   "name", "name?", "(", ")", ")*", ",", "|", "#PCDATA", "#IMPLIED", "#FIXED"}

\* The one that stays as it starts has the shortest document, or a file
\* without properties.
Shortest == CHOOSE i \in Inputs : \A j \in Inputs : Len(i.text) <= Len(j.text)

Starting(m) ==
  /\ machine = m
  /\ input \in IF m = "parser" THEN Inputs ELSE {Shortest}
  /\ master \in IF m = "props" THEN Masters ELSE {PropsFile(<<>>, "none")}
  /\ PrologInit /\ ParserCreated /\ ReaderCreated

Init == \E m \in {"prolog", "parser", "props"} : Starting(m)

Next ==
  \/ machine = "prolog" /\ Token /\ UNCHANGED <<machine, parseVars, ioVars>>
  \/ machine = "parser" /\ ParseNext /\ UNCHANGED <<machine, prologVars, ioVars>>
  \/ machine = "props" /\ IoNext /\ UNCHANGED <<machine, prologVars, parseVars>>

Spec == Init /\ [][Next]_mcVars
=============================================================================
