------------------------------- MODULE XmlParse -------------------------------
(***************************************************************************)
(* Reading a configuration file: readXML() (src/src/xml/easyxml.cxx) gives  *)
(* the parser (src/src/xml/xmlparse.c) one buffer after the other, and the  *)
(* parser calls back for elements, characters and instructions.  A call of  *)
(* XML_Parse() goes on where the last one stopped: what of a buffer is not  *)
(* a complete token is kept and read again in front of the next buffer.     *)
(*                                                                          *)
(* Each action is one token.  Scanner and prolog are those of XmlTok and    *)
(* XmlRole.  easyxml installs no other handlers, and no namespaces; memory  *)
(* does not run out.                                                        *)
(***************************************************************************)
EXTENDS XmlTok, XmlRole, SequencesExt, FiniteSets

CONSTANT
  Inputs       \* documents: the text and what it means, see the properties;
               \* whether it is read from a stream, in buffers of what size,
               \* or from memory

VARIABLES
  input,       \* the one that is read
  fed,         \* how much of the document the parser has been given
  call,        \* XML_Parse() as it runs: "more" or "final"; "idle"; "over"
  processor,   \* prolog, content, cdata, epilog
  left,        \* where it is; between calls, what is left over begins here
  encoding,    \* the encoding has been chosen
  prolog,      \* prologState and groupConnector
  dtd,         \* entities, default attributes and what is being declared
  tags,        \* tagStack, the innermost element last
  open,        \* openInternalEntities, the innermost last
  eventPtr,    \* 0 is none, Stale if it points into a buffer of another call
  position,    \* line ends before positionPtr
  errorCode,   \* NONE while all is well, then errorCode, DONE at the end
  reported     \* what the visitor has been told; characters one by one

parseVars == <<input, fed, call, processor, left, encoding, prolog, dtd, tags, open, eventPtr, position, errorCode, reported>>

Stale == -1

EmptyDtd ==
  [entities |-> <<>>, attributes |-> <<>>, complete |-> TRUE, standalone |-> FALSE, hadExternalDoctype |-> FALSE,
   declEntity |-> <<>>, declElementType |-> <<>>, declAttributeId |-> <<>>, declAttributeIsCdata |-> FALSE]

ParserCreated ==
  /\ fed = 0 /\ call = "idle" /\ processor = "prolog" /\ left = 1
  /\ encoding = FALSE
  /\ prolog = [state |-> XmlPrologStateInit, connector |-> <<>>]
  /\ dtd = EmptyDtd
  /\ tags = <<>> /\ open = <<>>
  /\ eventPtr = 0
  /\ position = [line |-> 0, ptr |-> 1]
  /\ errorCode = "NONE"
  /\ reported = <<>>

ParseInit == input \in Inputs /\ ParserCreated

-----------------------------------------------------------------------------
\* The text that is being read: the document, or an entity in it.  Only a call
\* that is not the last may leave the end of the document for later.

InEntity == open # <<>>
Entity == dtd.entities[Last(open).name]
Document == input.text
Text == IF InEntity THEN Entity.text ELSE SubSeq(Document, 1, fed)
Here == IF InEntity THEN Last(open).s ELSE left
InCdata == IF InEntity THEN Last(open).cdata ELSE processor = "cdata"
startTagLevel == IF InEntity THEN Last(open).level ELSE 0

\* Mutant: what an entity ends with may go on in the next buffer.
MayWaitAnywhere == call = "more"

MayWait == call = "more" /\ ~InEntity

\* From memory everything is given at once, and no end is told.
FromMemory == input.from = "memory"
BufferSize == IF FromMemory THEN Len(Document) ELSE input.size

\* Mutant: positionPtr stays at the beginning of what was read last.
LineFromStart(ptr) == IF ptr = Stale THEN Stale ELSE position.line + updatePosition(Document, 1, ptr) + 1

LineOf(ptr) ==
  CASE ptr = 0 -> position.line + 1
    [] ptr = Stale -> Stale
    [] OTHER -> position.line + updatePosition(Document, position.ptr, ptr) + 1

\* XML_Parse() returns 1 and what lies behind "next" is left over.
Return(next) ==
  /\ left' = next
  /\ position' = IF call = "more" THEN [line |-> position.line + updatePosition(Document, position.ptr, next), ptr |-> next]
                 ELSE position
  /\ call' = IF call = "final" \/ FromMemory THEN "over" ELSE "idle"
  /\ errorCode' = IF call = "final" \/ FromMemory THEN "DONE" ELSE "NONE"
  /\ UNCHANGED <<tags, open, reported>>

\* It returns 0.  Inside of an entity the event is the reference to it.
Fail(error, ptr) ==
  /\ errorCode' = error
  /\ call' = "over"
  /\ eventPtr' = IF InEntity THEN eventPtr ELSE ptr
  /\ UNCHANGED <<processor, left, tags, open, position>>

\* "s = next" in the loops.
MoveOn(next) ==
  /\ IF InEntity THEN open' = [open EXCEPT ![Len(open)].s = next] /\ UNCHANGED <<left, eventPtr>>
     ELSE left' = next /\ eventPtr' = next /\ UNCHANGED open
  /\ UNCHANGED <<call, position, errorCode>>

Report(events) == reported' = reported \o events
Chars(text) == [i \in DOMAIN text |-> <<"char", text[i]>>]

-----------------------------------------------------------------------------
\* Values of attributes and entities.

\* References in "text" from i are replaced.  "acc" is the pool, "opened" the
\* entities that are being replaced.
Value(error, ptr, text) == [error |-> error, ptr |-> ptr, text |-> text]

RECURSIVE appendAttributeValue(_, _, _, _, _), appendToken(_, _, _, _, _, _)
appendAttributeValue(text, i, isCdata, opened, acc) ==
  appendToken(text, i, isCdata, opened, acc, XmlTokOf(text, "value", i))

appendToken(text, i, isCdata, opened, acc, token) ==
  LET name    == SubSeq(text, i + 1, token.next - 2)
      space   == IF ~isCdata /\ (acc = <<>> \/ Last(acc) = " ") THEN <<>> ELSE <<" ">>
      no(error, k) == Value(error, IF opened = {} THEN k ELSE 0, <<>>)
      goOn(more)   == appendAttributeValue(text, IF token.tok = "TRAILING_CR" THEN i + 1 ELSE token.next, isCdata, opened,
                                           acc \o more)
      CharIs(n) == IF n = -1 THEN no("BAD_CHAR_REF", i) ELSE goOn(IF n = 32 THEN space ELSE XmlUtf8Encode(n))
      InnerIs(inner) == IF inner.error # "NONE" THEN no(inner.error, eventPtr)
                        ELSE appendAttributeValue(text, token.next, isCdata, opened, inner.text)
      EntityIs(entity) ==
        CASE name \in opened            -> no("RECURSIVE_ENTITY_REF", i)
          [] name \notin opened /\ entity.kind = "binary"   -> no("BINARY_ENTITY_REF", i)
          [] name \notin opened /\ entity.kind = "external" -> no("ATTRIBUTE_EXTERNAL_ENTITY_REF", i)
          [] OTHER -> InnerIs(appendAttributeValue(entity.text, 1, isCdata, opened \cup {name}, acc))
  IN
  CASE token.tok = "NONE"               -> Value("NONE", 0, acc)
    [] token.tok = "INVALID"            -> no("INVALID_TOKEN", token.next)
    [] token.tok = "PARTIAL"            -> no("INVALID_TOKEN", i)
    [] token.tok = "DATA_CHARS"         -> goOn(SubSeq(text, i, token.next - 1))
    [] token.tok \in {"TRAILING_CR", "ATTRIBUTE_VALUE_S", "DATA_NEWLINE"} -> goOn(space)
    [] token.tok = "CHAR_REF"           -> CharIs(charRefNumber(text, i, token.next))
    [] OTHER ->
       IF name \in DOMAIN predefinedEntityName THEN goOn(<<predefinedEntityName[name]>>)
       ELSE IF name \in DOMAIN dtd.entities THEN EntityIs(dtd.entities[name])
       ELSE IF dtd.complete THEN no("UNDEFINED_ENTITY", i) ELSE goOn(<<>>)

OpenNames == {open[n].name : n \in DOMAIN open}

Trimmed(value, isCdata) ==
  IF ~isCdata /\ value.text # <<>> /\ Last(value.text) = " " THEN [value EXCEPT !.text = Front(@)] ELSE value
storeAttributeValue(text, i, isCdata) == Trimmed(appendAttributeValue(text, i, isCdata, OpenNames, <<>>), isCdata)

\* A '%' that begins no reference is a token that the loop does not know: abort().
RECURSIVE storeEntityValue(_, _, _), storeToken(_, _, _, _)
storeEntityValue(text, i, acc) == storeToken(text, i, acc, XmlTokOf(text, "entity", i))

storeToken(text, i, acc, token) ==
  LET goOn(more) == storeEntityValue(text, IF token.tok = "TRAILING_CR" THEN i + 1 ELSE token.next, acc \o more)
      CharIs(n) == IF n = -1 THEN Value("BAD_CHAR_REF", i, <<>>) ELSE goOn(XmlUtf8Encode(n))
  IN
  CASE token.tok = "NONE"     -> Value("NONE", 0, acc)
    [] token.tok = "%name;"   -> Value("SYNTAX", i, <<>>)
    [] token.tok = "%"        -> Value("ABORT", i, <<>>)
    [] token.tok = "PARTIAL"  -> Value("INVALID_TOKEN", i, <<>>)
    [] token.tok = "INVALID"  -> Value("INVALID_TOKEN", token.next, <<>>)
    [] token.tok \in {"TRAILING_CR", "DATA_NEWLINE"} -> goOn(<<"\n">>)
    [] token.tok = "CHAR_REF" -> CharIs(charRefNumber(text, i, token.next))
    [] OTHER                  -> goOn(SubSeq(text, i, token.next - 1))

\* The attributes that a tag ends up with, or where it is wrong.
DefaultsOf(name) == IF name \in DOMAIN dtd.attributes THEN dtd.attributes[name] ELSE <<>>

NotSpecified(given, name) == \A n \in DOMAIN given : given[n][1] # name

RECURSIVE withDefaults(_, _)
withDefaults(given, defaults) ==
  IF defaults = <<>> THEN given
  ELSE LET d == Head(defaults)
       IN  withDefaults(IF d.value # "none" /\ NotSpecified(given, d.name)
                        THEN Append(given, <<d.name, d.text>>) ELSE given, Tail(defaults))

StoredAtts(atts, values, defaults) ==
  LET bad == {n \in DOMAIN atts : values[n].error # "NONE"}
      first == CHOOSE n \in bad : \A m \in bad : n <= m
  IN
  IF bad # {} THEN [error |-> values[first].error, ptr |-> values[first].ptr, atts |-> <<>>]
  ELSE [error |-> "NONE", ptr |-> 0,
        atts |-> withDefaults([n \in DOMAIN atts |-> <<atts[n].name, values[n].text>>], defaults)]

AttsOf(text, atts, defaults) ==
  LET isCdata(a) == \A n \in DOMAIN defaults :
                      defaults[n].name = a.name /\ (\A m \in 1..(n - 1) : defaults[m].name # a.name) => defaults[n].isCdata
      value(n, a) ==
        IF \E m \in 1..(n - 1) : atts[m].name = a.name THEN Value("DUPLICATE_ATTRIBUTE", a.at, <<>>)
        ELSE IF a.normalized THEN Value("NONE", 0, SubSeq(text, a.from, a.to))
        ELSE storeAttributeValue(SubSeq(text, 1, a.to), a.from, isCdata(a))
  IN  StoredAtts(atts, [n \in DOMAIN atts |-> value(n, atts[n])], defaults)

storeAtts(text, i, name) == AttsOf(text, getAtts(text, i), DefaultsOf(name))

-----------------------------------------------------------------------------
\* readXML() calls XML_Parse().

Begin(kind, upto) ==
  /\ call = "idle"
  /\ call' = kind
  /\ fed' = upto
  /\ position' = [position EXCEPT !.ptr = left]
  /\ eventPtr' = IF processor = "prolog" THEN (IF eventPtr = 0 THEN 0 ELSE Stale) ELSE left
  /\ UNCHANGED <<input, processor, left, encoding, prolog, dtd, tags, open, errorCode, reported>>

ReadBuffer ==
  /\ fed < Len(Document)
  /\ Begin("more", IF fed + BufferSize > Len(Document) THEN Len(Document) ELSE fed + BufferSize)

EndOfFile == ~FromMemory /\ fed = Len(Document) /\ Begin("final", fed)

-----------------------------------------------------------------------------
\* prologProcessor().

\* A token as the handlers of XmlRole know it.
Spelling(text, names, other) ==
  LET spelled == {n \in names : Characters(n) = text}
  IN  IF spelled = {} THEN other ELSE CHOOSE n \in spelled : TRUE

AsRole(text, i, token) ==
  LET word == SubSeq(text, i, token.next - 1)
  IN
  CASE token.tok = "DECL_OPEN"  -> Spelling(word, Openings, "<!other")
    [] token.tok = "POUND_NAME" -> Spelling(word, PoundNames, "#other")
    [] token.tok = "name"       -> Spelling(word, Keywords, "name")
    [] OTHER -> token.tok

\* What a role does to the DTD, and what may be wrong with it.
defineAttribute(value) ==
  LET d == [name |-> dtd.declAttributeId, isCdata |-> dtd.declAttributeIsCdata, value |-> value.error, text |-> value.text]
  IN  IF dtd.complete THEN [dtd EXCEPT !.attributes = (dtd.declElementType :> Append(DefaultsOf(dtd.declElementType), d)) @@ @]
      ELSE dtd

\* The first declaration of an entity counts; predefined ones need none.
IsNew(name) == dtd.complete /\ name \notin DOMAIN dtd.entities \cup DOMAIN predefinedEntityName

DeclareEntity(entity) ==
  IF dtd.declEntity = <<>> THEN dtd ELSE [dtd EXCEPT !.entities = (dtd.declEntity :> entity) @@ @]

Does(changed) == [dtd |-> changed, error |-> "NONE", ptr |-> 0]
Refuses(error, ptr) == [dtd |-> dtd, error |-> error, ptr |-> ptr]

\* getEncodingIndex(): the names are compared as upper case, and of the last two a comma
\* is missing.  The text is read on as UTF-8: in the two other encodings of one byte that
\* is right for the characters of ASCII only.
OneByte  == {Characters(n) : n \in {"", "ISO-8859-1", "US-ASCII", "UTF-8"}}
TwoBytes == {Characters(n) : n \in {"UTF-16", "UTF-16BEUTF-16LE"}}

processXmlDecl(xml) ==
  CASE xml.bad # 0 -> Refuses("SYNTAX", xml.bad)
    [] xml.bad = 0 /\ UpperCase(xml.encoding) \in OneByte  -> Does([dtd EXCEPT !.standalone = xml.standalone])
    [] xml.bad = 0 /\ UpperCase(xml.encoding) \in TwoBytes -> Refuses("INCORRECT_ENCODING", xml.encodingAt)
    [] OTHER                                               -> Refuses("UNKNOWN_ENCODING", xml.encodingAt)

DefaultDeclared(value) == IF value.error = "NONE" THEN Does(defineAttribute(value)) ELSE Refuses(value.error, value.ptr)
ValueDeclared(value) ==
  IF value.error = "NONE" THEN Does(DeclareEntity([kind |-> "internal", text |-> value.text]))
  ELSE Refuses(value.error, value.ptr)

RoleEffect(role, text, i, next) ==
  LET word    == SubSeq(text, i, next - 1)
      inner   == SubSeq(text, 1, next - 2)
      badId   == {k \in (i + 1)..(next - 2) : text[k] \notin PublicIdBytes}
  IN
  CASE role = "XML_DECL"          -> processXmlDecl(doParseXmlDecl(text, i, next))
    [] role = "DOCTYPE_SYSTEM_ID" -> Does([dtd EXCEPT !.hadExternalDoctype = TRUE])
    [] role \in {"DOCTYPE_PUBLIC_ID", "ENTITY_PUBLIC_ID", "NOTATION_PUBLIC_ID"} ->
         IF badId = {} THEN Does(dtd) ELSE Refuses("SYNTAX", CHOOSE k \in badId : \A j \in badId : k <= j)
    [] role = "ATTLIST_ELEMENT_NAME"    -> Does([dtd EXCEPT !.declElementType = word])
    [] role = "ATTRIBUTE_NAME"          -> Does([dtd EXCEPT !.declAttributeId = word, !.declAttributeIsCdata = FALSE])
    [] role = "ATTRIBUTE_TYPE_CDATA"    -> Does([dtd EXCEPT !.declAttributeIsCdata = TRUE])
    [] role \in {"IMPLIED_ATTRIBUTE_VALUE", "REQUIRED_ATTRIBUTE_VALUE"} -> Does(defineAttribute(Value("none", 0, <<>>)))
    [] role \in {"DEFAULT_ATTRIBUTE_VALUE", "FIXED_ATTRIBUTE_VALUE"} ->
         DefaultDeclared(storeAttributeValue(inner, i + 1, dtd.declAttributeIsCdata))
    [] role = "GENERAL_ENTITY_NAME" ->
         Does(IF IsNew(word)
              THEN [dtd EXCEPT !.declEntity = word, !.entities = (word :> [kind |-> "external", text |-> <<>>]) @@ @]
              ELSE [dtd EXCEPT !.declEntity = <<>>])
    [] role = "PARAM_ENTITY_NAME"       -> Does([dtd EXCEPT !.declEntity = <<>>])
    [] role = "ENTITY_VALUE"            -> ValueDeclared(storeEntityValue(inner, i + 1, <<>>))
    [] role = "ENTITY_NOTATION_NAME"    -> Does(DeclareEntity([kind |-> "binary", text |-> <<>>]))
    [] role = "PARAM_ENTITY_REF"        -> Does([dtd EXCEPT !.complete = FALSE])
    [] OTHER                            -> Does(dtd)

\* Carriage returns in an instruction.
RECURSIVE normalizeLines(_)
normalizeLines(text) ==
  IF text = <<>> THEN <<>>
  ELSE IF Head(text) # "\r" THEN <<Head(text)>> \o normalizeLines(Tail(text))
  ELSE <<"\n">> \o normalizeLines(IF Len(text) > 1 /\ text[2] = "\n" THEN Tail(Tail(text)) ELSE Tail(text))

reportProcessingInstruction(text, i, next) ==
  LET end == i + 2 + nameLength(text, i + 2)
  IN  <<<<"pi", NameAt(text, i + 2), normalizeLines(SubSeq(text, skipS(text, end), next - 3))>>>>

\* The token at hand, for the processor at work.
TokenHere ==
  IF processor = "prolog" /\ ~encoding THEN initScan(Text, left)
  ELSE XmlTokOf(Text, IF processor \in {"prolog", "epilog"} THEN "prolog" ELSE IF InCdata THEN "cdata" ELSE "content", Here)

Incomplete == {"NONE", "PARTIAL", "PARTIAL_CHAR", "TRAILING_CR"}

\* Without a complete token; initScan() chooses the encoding once it has two
\* bytes.
EndOfPrologText(token) ==
  /\ processor = "prolog"
  /\ token.tok \in Incomplete \cup {"INVALID"}
  /\ encoding' = (encoding \/ (fed > left /\ ~HasMark(Text, left, 2)))
  /\ IF call = "more" /\ token.tok # "INVALID" THEN Return(left) /\ UNCHANGED <<processor, eventPtr>>
     ELSE /\ CASE token.tok = "INVALID"      -> Fail("INVALID_TOKEN", token.next)
               [] token.tok = "TRAILING_CR"  -> Fail("NO_ELEMENTS", left + 1)
               [] token.tok = "NONE"         -> Fail("NO_ELEMENTS", eventPtr)
               [] token.tok = "PARTIAL"      -> Fail("UNCLOSED_TOKEN", eventPtr)
               [] token.tok = "PARTIAL_CHAR" -> Fail("PARTIAL_CHAR", eventPtr)
          /\ UNCHANGED reported
  /\ UNCHANGED <<input, fed, prolog, dtd>>

\* Behind a byte order mark "left" is what "next" happened to hold: the model ends.
WithEffect(token, effect, answer, tok, error) ==
  IF error # "NONE" THEN Fail(error, left) /\ UNCHANGED <<dtd, reported>>
  ELSE IF token.tok = "BOM" THEN Fail("LOST", Stale) /\ UNCHANGED <<dtd, reported>>
  ELSE IF effect.error # "NONE" THEN Fail(effect.error, effect.ptr) /\ UNCHANGED <<dtd, reported>>
  ELSE /\ dtd' = effect.dtd
       /\ left' = token.next
       /\ eventPtr' = IF answer.role = "NONE" /\ tok \in {"PI", "COMMENT"} THEN left ELSE eventPtr
       /\ Report(IF tok = "PI" THEN reportProcessingInstruction(Text, left, token.next) ELSE <<>>)
       /\ UNCHANGED <<call, processor, tags, open, position, errorCode>>

PrologToken(token) ==
  /\ processor = "prolog"
  /\ token.tok \notin Incomplete \cup {"INVALID"}
  /\ \E tok \in {AsRole(Text, left, token)} : \E answer \in {XmlTokenRole(prolog.state, tok)} :
       /\ answer.role # "INSTANCE_START"
       /\ encoding' = TRUE
       /\ prolog' = [state |-> answer.state, connector |-> ConnectorAfter(prolog.connector, answer.state.level, answer.role)]
       /\ WithEffect(token, RoleEffect(answer.role, Text, left, token.next), answer, tok,
                     RoleError(prolog.connector, prolog.state.level, tok, answer.role))
  /\ UNCHANGED <<input, fed>>

InstanceStart(token) ==
  /\ processor = "prolog"
  /\ \E answer \in {XmlTokenRole(prolog.state, token.tok)} :
       /\ answer.role = "INSTANCE_START"
       /\ prolog' = [prolog EXCEPT !.state = answer.state]
  /\ encoding' = TRUE
  /\ processor' = "content"
  /\ dtd' = [dtd EXCEPT !.complete = @ /\ ~dtd.hadExternalDoctype]
  /\ eventPtr' = left
  /\ UNCHANGED <<input, fed, call, left, tags, open, position, errorCode, reported>>

-----------------------------------------------------------------------------
\* doContent() and doCdataSection(), for the document and for entities.

\* The token at hand is one of these.
Is(token, st, toks) ==
  /\ processor \in {"content", "cdata"} /\ InCdata = (st = "cdata")
  /\ token.tok \in toks
  /\ UNCHANGED <<input, fed, encoding, prolog, dtd>>

\* The end of an entity, or of a document that has no end.
EndOfText(ptr) ==
  CASE InEntity /\ Len(tags) = startTagLevel ->
         /\ open' = Front(open)
         /\ IF Len(open) = 1 THEN left' = Last(open).next /\ eventPtr' = left' /\ UNCHANGED processor
            ELSE UNCHANGED <<left, eventPtr, processor>>
         /\ UNCHANGED <<call, tags, position, errorCode>>
    [] InEntity /\ Len(tags) # startTagLevel -> Fail("ASYNC_ENTITY", ptr)
    [] OTHER -> Fail("NO_ELEMENTS", ptr)

ContentEnds(token) ==
  /\ Is(token, "content", Incomplete \cup {"TRAILING_RSQB"})
  /\ IF MayWait THEN Return(left) /\ UNCHANGED <<processor, eventPtr>>
     ELSE CASE token.tok = "NONE"          -> EndOfText(eventPtr) /\ UNCHANGED reported
            [] token.tok = "TRAILING_CR"   -> EndOfText(eventPtr) /\ Report(Chars(<<"\n">>))
            [] token.tok = "TRAILING_RSQB" -> EndOfText(Len(Text) + 1) /\ Report(Chars(SubSeq(Text, Here, Len(Text))))
            [] token.tok = "PARTIAL"       -> Fail("UNCLOSED_TOKEN", eventPtr) /\ UNCHANGED reported
            [] token.tok = "PARTIAL_CHAR"  -> Fail("PARTIAL_CHAR", eventPtr) /\ UNCHANGED reported

ContentInvalid(token) ==
  /\ Is(token, "content", {"INVALID", "XML_DECL"})
  /\ IF token.tok = "INVALID" THEN Fail("INVALID_TOKEN", token.next) ELSE Fail("MISPLACED_XML_PI", eventPtr)
  /\ UNCHANGED reported

\* An entity is open while its text is read: the outer text goes on at "next".
EntityRef(token) ==
  LET name == SubSeq(Text, Here + 1, token.next - 2)
      known == name \in DOMAIN dtd.entities
      Skip == MoveOn(token.next) /\ UNCHANGED <<processor, tags>>
  IN
  /\ Is(token, "content", {"ENTITY_REF"})
  /\ CASE name \in DOMAIN predefinedEntityName -> Skip /\ Report(Chars(<<predefinedEntityName[name]>>))
       [] name \notin DOMAIN predefinedEntityName \cup DOMAIN dtd.entities ->
            /\ IF dtd.complete \/ dtd.standalone THEN Fail("UNDEFINED_ENTITY", eventPtr) ELSE Skip
            /\ UNCHANGED reported
       [] known /\ name \in OpenNames -> Fail("RECURSIVE_ENTITY_REF", eventPtr) /\ UNCHANGED reported
       [] known /\ dtd.entities[name].kind = "binary" -> Fail("BINARY_ENTITY_REF", eventPtr) /\ UNCHANGED reported
       [] known /\ dtd.entities[name].kind = "external" -> Skip /\ UNCHANGED reported
       [] OTHER ->
            /\ open' = Append(IF InEntity THEN [open EXCEPT ![Len(open)].s = token.next] ELSE open,
                              [name |-> name, s |-> 1, level |-> Len(tags), cdata |-> FALSE, next |-> token.next])
            /\ UNCHANGED <<call, processor, left, tags, eventPtr, position, errorCode, reported>>

\* Behind the root element the epilog begins.
AfterElement(level) == processor' = IF level = 0 THEN "epilog" ELSE processor

Stored(token, stored, Element(_)) ==
  IF stored.error # "NONE" THEN Fail(stored.error, IF stored.ptr = 0 THEN eventPtr ELSE stored.ptr) /\ UNCHANGED reported
  ELSE Element(stored.atts) /\ MoveOn(token.next)

StartTag(token) ==
  LET name == NameAt(Text, Here + 1)
      Element(atts) == tags' = Append(tags, name) /\ Report(<<<<"start", name, atts>>>>) /\ UNCHANGED processor
  IN  Is(token, "content", {"START_TAG_WITH_ATTS", "START_TAG_NO_ATTS"}) /\ Stored(token, storeAtts(Text, Here, name), Element)

EmptyElement(token) ==
  LET name == NameAt(Text, Here + 1)
      Element(atts) ==
        Report(<<<<"start", name, atts>>, <<"end", name>>>>) /\ AfterElement(Len(tags)) /\ UNCHANGED tags
  IN  Is(token, "content", {"EMPTY_ELEMENT_WITH_ATTS", "EMPTY_ELEMENT_NO_ATTS"})
        /\ Stored(token, storeAtts(Text, Here, name), Element)

EndTag(token) ==
  LET name == NameAt(Text, Here + 2)
  IN
  /\ Is(token, "content", {"END_TAG"})
  /\ CASE Len(tags) = startTagLevel -> Fail("ASYNC_ENTITY", eventPtr) /\ UNCHANGED reported
       [] Len(tags) # startTagLevel /\ Last(tags) # name -> Fail("TAG_MISMATCH", Here + 2) /\ UNCHANGED reported
       [] OTHER ->
            /\ tags' = Front(tags)
            /\ Report(<<<<"end", name>>>>)
            /\ MoveOn(token.next)
            /\ AfterElement(Len(tags) - 1)

CharRef(token) ==
  /\ Is(token, "content", {"CHAR_REF"})
  /\ \E n \in {charRefNumber(Text, Here, token.next)} :
       IF n = -1 THEN Fail("BAD_CHAR_REF", eventPtr) /\ UNCHANGED reported
       ELSE Report(Chars(XmlUtf8Encode(n))) /\ MoveOn(token.next) /\ UNCHANGED <<processor, tags>>

\* Tokens that only say something, or nothing.
Says(token, events) == Report(events) /\ MoveOn(token.next) /\ UNCHANGED <<processor, tags>>

Newline(token) == \E st \in {"content", "cdata"} : Is(token, st, {"DATA_NEWLINE"}) /\ Says(token, Chars(<<"\n">>))
DataChars(token) ==
  \E st \in {"content", "cdata"} :
    Is(token, st, {"DATA_CHARS"}) /\ Says(token, Chars(SubSeq(Text, Here, token.next - 1)))
Instruction(token) ==
  Is(token, "content", {"PI"}) /\ Says(token, reportProcessingInstruction(Text, Here, token.next))
Comment(token) == Is(token, "content", {"COMMENT"}) /\ Says(token, <<>>)

\* In and out of a CDATA section.
CdataBrace(token) ==
  \E st \in {"content", "cdata"} :
    /\ Is(token, st, {"CDATA_SECT_OPEN", "CDATA_SECT_CLOSE"})
    /\ IF InEntity
       THEN /\ open' = [open EXCEPT ![Len(open)].cdata = ~@, ![Len(open)].s = token.next]
            /\ UNCHANGED <<processor, left, eventPtr>>
       ELSE /\ processor' = IF st = "content" THEN "cdata" ELSE "content"
            /\ left' = token.next /\ eventPtr' = token.next
            /\ UNCHANGED open
    /\ UNCHANGED <<call, tags, position, errorCode, reported>>

CdataEnds(token) ==
  /\ Is(token, "cdata", {"NONE", "PARTIAL", "PARTIAL_CHAR", "INVALID"})
  /\ IF token.tok # "INVALID" /\ MayWait THEN Return(left) /\ UNCHANGED <<processor, eventPtr>>
     ELSE /\ CASE token.tok = "INVALID"      -> Fail("INVALID_TOKEN", token.next)
               [] token.tok = "PARTIAL_CHAR" -> Fail("PARTIAL_CHAR", eventPtr)
               [] OTHER                      -> Fail("UNCLOSED_CDATA_SECTION", eventPtr)
          /\ UNCHANGED reported

-----------------------------------------------------------------------------
\* epilogProcessor().  A carriage return at the end of a buffer is not kept.
EpilogToken(token) ==
  /\ processor = "epilog"
  /\ CASE token.tok = "PI"              -> Says(token, reportProcessingInstruction(Text, left, token.next))
       [] token.tok \in {"S", "COMMENT"} -> Says(token, <<>>)
       [] token.tok \in {"NONE", "TRAILING_CR"} -> Return(fed + 1) /\ UNCHANGED <<processor, eventPtr>>
       [] token.tok \in {"PARTIAL", "PARTIAL_CHAR"} /\ call = "more" -> Return(left) /\ UNCHANGED <<processor, eventPtr>>
       [] token.tok = "INVALID"         -> Fail("INVALID_TOKEN", token.next) /\ UNCHANGED reported
       [] OTHER -> /\ Fail(CASE token.tok = "PARTIAL" -> "UNCLOSED_TOKEN" [] token.tok = "PARTIAL_CHAR" -> "PARTIAL_CHAR"
                             [] OTHER -> "JUNK_AFTER_DOC_ELEMENT", left)
                   /\ UNCHANGED reported
  /\ UNCHANGED <<input, fed, encoding, prolog, dtd>>

ParseToken ==
  /\ call \in {"more", "final"}
  /\ \E token \in {TokenHere} :
       \/ EndOfPrologText(token) \/ PrologToken(token) \/ InstanceStart(token)
       \/ ContentEnds(token) \/ ContentInvalid(token) \/ EntityRef(token)
       \/ StartTag(token) \/ EmptyElement(token) \/ EndTag(token) \/ CharRef(token)
       \/ Newline(token) \/ DataChars(token) \/ Instruction(token) \/ Comment(token)
       \/ CdataBrace(token) \/ CdataEnds(token)
       \/ EpilogToken(token)

ParseNext == ReadBuffer \/ EndOfFile \/ ParseToken

ParseSpec == ParseInit /\ [][ParseNext]_parseVars

-----------------------------------------------------------------------------
\* What a document means: the events in it, the error that it ends with, DONE
\* if there is none, where that is, whether it is only one at the end, "early",
\* and how many of the last events are then known only when the end is told.

\* In memory the end of a document is never told to the parser: that it comes too
\* early is no error.
EndsUntold == FromMemory /\ input.early
Verdict == IF EndsUntold THEN "DONE" ELSE input.verdict

(* However the file is cut into buffers (easyxml.cxx:216-245), the visitor  *)
(* is told what the document says, each thing once and in order, with       *)
(* entities replaced, attributes completed and line ends made one character,*)
(* and reading a file ends with the document's error or with none.  A       *)
(* buffer may end in a reference, in a character of two bytes, in a CR LF   *)
(* or in a ]]> (xmlparse.c:1066-1117, 1756-1826).                           *)
(*                                                                          *)
(* A document in memory that breaks off is taken for a whole one: readXML() *)
(* returns, the visitor is told endXML(), has been told of elements that    *)
(* begin and not of their end, and not the last characters                  *)
(* (easyxml.cxx:298-312 passes isFinal = false and nothing after it).  That *)
(* is not what easyxml.hxx says of it: "the parser will have reported all   *)
(* of the data in the XML document", with an exception "if there is a       *)
(* problem" (404-423), starts and ends are "balanced" and endXML() comes    *)
(* "only if there have been no parsing errors" (261-287).                   *)
MeansWhatItSays ==
  /\ IsPrefix(reported, input.events)
  /\ call = "over" =>
       /\ errorCode = Verdict
       /\ Len(reported) = Len(input.events) - IF EndsUntold THEN input.untold ELSE 0

\* A line ends with LF, CR or both.
LineAt(text, ptr) ==
  1 + Cardinality({k \in 1..(ptr - 1) : text[k] = "\n" \/ (text[k] = "\r" /\ (k = ptr - 1 \/ text[k + 1] # "\n"))})

\* A CR LF behind the root element of which a buffer ends with the CR.
CutBehindRoot == IF FromMemory THEN {} ELSE {k \in input.loose : k % BufferSize = 0 /\ k < input.at}

(* The line in the message of sg_io_exception (easyxml.cxx:228-232) is the  *)
(* one in which the document is wrong, wherever the buffers end, but for a  *)
(* CR LF in the white space behind the root element: epilogProcessor() does *)
(* not keep the CR at the end of a buffer for the next one                  *)
(* (xmlparse.c:2291-2300), and what is then wrong is said to be one line    *)
(* further down for each such end.  Else lines are counted from call to     *)
(* call (xmlparse.c:781, 818, 883-890).  Documents that end before their    *)
(* first element, but not in a CR, are left out: prologProcessor() does not *)
(* note where (xmlparse.c:1980-1985), and eventPtr points into a buffer of  *)
(* another call, or nowhere.                                                *)
ErrorLineIsRight ==
  call = "over" /\ errorCode # "DONE" => LineOf(eventPtr) = LineAt(Document, input.at) + Cardinality(CutBehindRoot)

=============================================================================
