-------------------------------- MODULE XmlTok --------------------------------
(***************************************************************************)
(* The scanner of the XML parser (src/src/xml/xmltok_impl.c) for text in    *)
(* UTF-8, without namespaces.  Each C function is an automaton over bytes;  *)
(* here it is a table: for each state, what to do at each byte it knows.    *)
(* A byte that a state does not know makes the token invalid.               *)
(*                                                                          *)
(* A text is a sequence of characters.  '{' stands for the first and '}'    *)
(* for the second byte of a character of two bytes that may begin a name;   *)
(* '^', '$' and '~' for the bytes of the byte order mark.  States are named *)
(* for what has been read.                                                  *)
(***************************************************************************)
EXTENDS Naturals, Integers, Sequences, TLC

Characters(s) == [i \in 1..Len(s) |-> SubSeq(s, i, i)]
Bytes(s) == {SubSeq(s, i, i) : i \in 1..Len(s)}

Letters == [lower |-> Characters("abcdefghijklmnopqrstuvwxyz"), upper |-> Characters("ABCDEFGHIJKLMNOPQRSTUVWXYZ")]
UpperCase(text) ==
  [n \in DOMAIN text |->
     IF \E k \in 1..26 : Letters.lower[k] = text[n] THEN Letters.upper[CHOOSE k \in 1..26 : Letters.lower[k] = text[n]]
     ELSE text[n]]

-----------------------------------------------------------------------------
\* The classes of bytes.  ':' is an ordinary name character.
HexLetters == Bytes("abcdefABCDEF")
NameStart  == HexLetters \cup Bytes("ghijklmnopqrstuvwxyzGHIJKLMNOPQRSTUVWXYZ_:")
Digits     == Bytes("0123456789")
NameChars  == NameStart \cup Digits \cup {".", "-"}
White      == {" ", "\t", "\n", "\r"}
Lead       == "{"
Trail      == "}"
NonXml     == {"\f", Trail}
Others     == Bytes("!\"#$%&'()*+,/;<=>?[]|^~$")
AllBytes   == NameChars \cup White \cup NonXml \cup {Lead} \cup Others

-----------------------------------------------------------------------------
\* What a state does at a byte: go on behind it, look at it again in another
\* state, take a character of two bytes, or end the token, which ends so many
\* bytes behind this one.
Go(st)        == [do |-> "go", st |-> st]
Stay(st)      == [do |-> "stay", st |-> st]
Wide(st, cut) == [do |-> "wide", st |-> st, cut |-> cut]
Found(tok, n) == [do |-> "found", tok |-> tok, skip |-> n]
Invalid       == Found("INVALID", 0)

On(bytes, verdict) == [b \in bytes |-> verdict]
Otherwise(verdict) == On(AllBytes, verdict)
WideOr(st) == Lead :> Wide(st, Found("PARTIAL_CHAR", 0))
AtEnd(tok) == "end" :> Found(tok, 0)

\* CHECK_NMSTRT_CASES, CHECK_NAME_CASES, INVALID_CASES with what follows it.
NameBegins(st) == On(NameStart, Go(st)) @@ WideOr(st)
NameGoesOn(st) == On(NameChars, Go(st)) @@ WideOr(st)
Data(st) == WideOr(st) @@ On(AllBytes \ NonXml, Go(st))
DataInBounds(st) == Lead :> Wide(st, Found("DATA_CHARS", 0)) @@ On(AllBytes \ NonXml, Go(st))

-----------------------------------------------------------------------------
scanComment ==
  "<!-" :> ("-" :> Go("<!--"))
  @@ "<!--" :> ("-" :> Go("<!-- -") @@ Data("<!--"))
  @@ "<!-- -" :> ("-" :> Go("<!-- --") @@ Otherwise(Stay("<!--")))
  @@ "<!-- --" :> (">" :> Found("COMMENT", 1))

scanDecl ==
  "<!" :> ("-" :> Go("<!-") @@ "[" :> Found("COND_SECT_OPEN", 1) @@ On(NameStart, Go("<!name")))
  @@ "<!name" :> (On(White, Found("DECL_OPEN", 0)) @@ "%" :> Go("<!name%") @@ On(NameStart, Go("<!name")))
  @@ "<!name%" :> (On(White \cup {"%"}, Found("INVALID", -1)) @@ Otherwise(Found("DECL_OPEN", -1)))

\* A target is looked at when it is complete, see ScanPi.
scanPi ==
  "<?" :> NameBegins("<?name")
  @@ "<?name" :> (NameGoesOn("<?name") @@ On(White \cup {"?"}, Found("TARGET", 0)))
  @@ "<?name " :> ("?" :> Go("<?name ?") @@ Data("<?name "))
  @@ "<?name ?" :> (">" :> Found("PI", 1) @@ Otherwise(Stay("<?name ")))
  @@ "<?name?" :> (">" :> Found("PI", 1))

cdataSectionTok ==
  "cdata" :> (AtEnd("NONE") @@ "]" :> Go("cdata, ]") @@ "\r" :> Go("cdata, CR")
                @@ "\n" :> Found("DATA_NEWLINE", 1) @@ Data("cdata, chars"))
  @@ "cdata, ]" :> ("]" :> Go("cdata, ]]") @@ Otherwise(Stay("cdata, chars")))
  @@ "cdata, ]]" :> (">" :> Found("CDATA_SECT_CLOSE", 1) @@ Otherwise(Found("DATA_CHARS", -1)))
  @@ "cdata, CR" :> ("\n" :> Found("DATA_NEWLINE", 1) @@ Otherwise(Found("DATA_NEWLINE", 0)))
  @@ "cdata, chars" :> (AtEnd("DATA_CHARS") @@ On(NonXml \cup {"\r", "\n", "]"}, Found("DATA_CHARS", 0))
                          @@ DataInBounds("cdata, chars"))

scanEndTag ==
  "</" :> NameBegins("</name")
  @@ "</name" :> (NameGoesOn("</name") @@ On(White, Go("</name ")) @@ ">" :> Found("END_TAG", 1))
  @@ "</name " :> (On(White, Go("</name ")) @@ ">" :> Found("END_TAG", 1))

\* A reference behind "in"; what to do behind an entity's and a character's.
scanHexCharRef(in, char) ==
  (in \o "&#x") :> On(Digits \cup HexLetters, Go(in \o "&#xF"))
  @@ (in \o "&#xF") :> (On(Digits \cup HexLetters, Go(in \o "&#xF")) @@ ";" :> char)
scanCharRef(in, char) ==
  (in \o "&#") :> ("x" :> Go(in \o "&#x") @@ On(Digits, Go(in \o "&#0")))
  @@ (in \o "&#0") :> (On(Digits, Go(in \o "&#0")) @@ ";" :> char)
  @@ scanHexCharRef(in, char)
scanRef(in, entity, char) ==
  (in \o "&") :> (NameBegins(in \o "&name") @@ "#" :> Go(in \o "&#"))
  @@ (in \o "&name") :> (NameGoesOn(in \o "&name") @@ ";" :> entity)
  @@ scanCharRef(in, char)

\* An attribute's value between these quotes.
AttributeValue(quote) ==
  LET value == "<e a=" \o quote
  IN  value :> (quote :> Go("<e a=v") @@ "&" :> Go(value \o "&") @@ "<" :> Invalid @@ Data(value))
        @@ scanRef(value, Go(value), Go(value))

scanAtts ==
  "<e a" :> (NameGoesOn("<e a") @@ On(White, Go("<e a ")) @@ "=" :> Go("<e a="))
  @@ "<e a " :> (On(White, Go("<e a ")) @@ "=" :> Go("<e a="))
  @@ "<e a=" :> (On(White, Go("<e a=")) @@ "\"" :> Go("<e a=\"") @@ "'" :> Go("<e a='"))
  @@ AttributeValue("\"") @@ AttributeValue("'")
  @@ "<e a=v" :> (On(White, Go("<e a=v ")) @@ "/" :> Go("<e a=v/") @@ ">" :> Found("START_TAG_WITH_ATTS", 1))
  @@ "<e a=v " :> (NameBegins("<e a") @@ On(White, Go("<e a=v ")) @@ "/" :> Go("<e a=v/")
                     @@ ">" :> Found("START_TAG_WITH_ATTS", 1))
  @@ "<e a=v/" :> (">" :> Found("EMPTY_ELEMENT_WITH_ATTS", 1))

scanLt ==
  "<" :> (NameBegins("<e") @@ "!" :> Go("<e!") @@ "?" :> Found("PI?", 1) @@ "/" :> Go("</"))
  @@ "<e!" :> ("-" :> Go("<!-") @@ "[" :> Found("CDATA?", 1))
  @@ "<e" :> (NameGoesOn("<e") @@ On(White, Go("<e ")) @@ "/" :> Go("<e/") @@ ">" :> Found("START_TAG_NO_ATTS", 1))
  @@ "<e " :> (NameBegins("<e a") @@ On(White, Go("<e ")) @@ "/" :> Go("<e/") @@ ">" :> Found("START_TAG_NO_ATTS", 1))
  @@ "<e/" :> (">" :> Found("EMPTY_ELEMENT_NO_ATTS", 1))

contentTok ==
  "content" :> (AtEnd("NONE") @@ "<" :> Go("<") @@ "&" :> Go("&") @@ "\r" :> Go("content, CR")
                  @@ "\n" :> Found("DATA_NEWLINE", 1) @@ "]" :> Go("content, ]") @@ Data("chars"))
  @@ "content, CR" :> (AtEnd("TRAILING_CR") @@ "\n" :> Found("DATA_NEWLINE", 1) @@ Otherwise(Found("DATA_NEWLINE", 0)))
  @@ "content, ]" :> (AtEnd("TRAILING_RSQB") @@ "]" :> Go("content, ]]") @@ Otherwise(Stay("chars")))
  @@ "content, ]]" :> (AtEnd("TRAILING_RSQB") @@ ">" :> Invalid @@ Otherwise(Stay("chars, ]")))
  @@ "chars" :> (AtEnd("DATA_CHARS") @@ "]" :> Go("chars, ]")
                   @@ On(NonXml \cup {"&", "<", "\r", "\n"}, Found("DATA_CHARS", 0)) @@ DataInBounds("chars"))
  @@ "chars, ]" :> ("end" :> Found("DATA_CHARS", -1) @@ "]" :> Go("chars, ]]") @@ Otherwise(Stay("chars")))
  @@ "chars, ]]" :> ("end" :> Found("DATA_CHARS", -2) @@ ">" :> Invalid @@ Otherwise(Stay("chars, ]")))
  @@ scanRef("", Found("ENTITY_REF", 1), Found("CHAR_REF", 1))

scanPercent ==
  "%" :> (NameBegins("%name") @@ On(White \cup {"%"}, Found("%", 0)))
  @@ "%name" :> (NameGoesOn("%name") @@ ";" :> Found("%name;", 1))

scanPoundName ==
  "#" :> NameBegins("#name")
  @@ "#name" :> (NameGoesOn("#name") @@ On(White \cup {")", ">", "%", "|"}, Found("POUND_NAME", 0)))

scanLit(quote) ==
  ("literal " \o quote) :> (quote :> Go("literal") @@ Data("literal " \o quote))
  @@ "literal" :> (On(White \cup {">", "%", "["}, Found("literal", 0)))

\* A name that has begun with a character that may, or may not, begin a name.
NameTok(kind) ==
  kind :> (NameGoesOn(kind) @@ On(White \cup {">", ")", ",", "|", "[", "%"}, Found(kind, 0))
             @@ [b \in IF kind = "name" THEN {"+", "*", "?"} ELSE {} |-> Found(kind \o b, 1)])

prologTok ==
  "prolog" :> (AtEnd("NONE") @@ "\"" :> Go("literal \"") @@ "'" :> Go("literal '") @@ "<" :> Go("prolog <")
                 @@ "\r" :> Go("prolog CR") @@ On(White, Go("S")) @@ "%" :> Go("%") @@ "]" :> Go("]")
                 @@ ")" :> Go(")") @@ [b \in {",", "[", "(", "|", ">"} |-> Found(b, 1)] @@ "#" :> Go("#")
                 @@ NameBegins("name") @@ On(NameChars, Go("nmtoken")))
  @@ "prolog <" :> ("!" :> Go("<!") @@ "?" :> Found("PI?", 1) @@ On(NameStart \cup {Lead}, Found("INSTANCE_START", -1)))
  @@ "prolog CR" :> (AtEnd("TRAILING_CR") @@ Otherwise(Stay("S")))
  @@ "S" :> (AtEnd("S") @@ On(White \ {"\r"}, Go("S")) @@ "\r" :> Go("S CR") @@ Otherwise(Found("S", 0)))
  @@ "S CR" :> ("end" :> Found("S", -1) @@ Otherwise(Stay("S")))
  @@ "]" :> ("]" :> Go("]]") @@ Otherwise(Found("]", 0)))
  @@ "]]" :> (">" :> Found("]]>", 1) @@ Otherwise(Found("]", -1)))
  @@ ")" :> ([b \in {"*", "?", "+"} |-> Found(")" \o b, 1)] @@ On(White \cup {">", ",", "|", ")"}, Found(")", 0)))
  @@ NameTok("name") @@ NameTok("nmtoken")

\* Inside of literals the characters have been looked at before.
attributeValueTok ==
  "value" :> (AtEnd("NONE") @@ "&" :> Go("&") @@ "<" :> Invalid @@ "\n" :> Found("DATA_NEWLINE", 1)
                @@ "\r" :> Go("content, CR") @@ On(White, Found("ATTRIBUTE_VALUE_S", 1)) @@ Otherwise(Go("value, chars")))
  @@ "value, chars" :> (AtEnd("DATA_CHARS") @@ On(White \cup {"&"}, Found("DATA_CHARS", 0)) @@ "<" :> Invalid
                          @@ Otherwise(Go("value, chars")))

entityValueTok ==
  "entity" :> (AtEnd("NONE") @@ "&" :> Go("&") @@ "%" :> Go("%") @@ "\n" :> Found("DATA_NEWLINE", 1)
                 @@ "\r" :> Go("content, CR") @@ Otherwise(Go("entity, chars")))
  @@ "entity, chars" :> (AtEnd("DATA_CHARS") @@ On({"&", "%", "\n", "\r"}, Found("DATA_CHARS", 0))
                           @@ Otherwise(Go("entity, chars")))

Scanners ==
  scanComment @@ scanDecl @@ scanPi @@ cdataSectionTok @@ scanEndTag @@ scanAtts @@ scanLt @@ contentTok
    @@ scanPercent @@ scanPoundName @@ scanLit("\"") @@ scanLit("'") @@ prologTok @@ attributeValueTok @@ entityValueTok

\* The token at i: what it is and where the next one begins.
Tok(tok, next) == [tok |-> tok, next |-> next]

RECURSIVE Scan(_, _, _)
Scan(text, st, i) ==
  LET byte    == IF i > Len(text) THEN "end" ELSE text[i]
      known   == Scanners[st]
      verdict == IF byte \in DOMAIN known THEN known[byte]
                 ELSE IF byte = "end" THEN Found("PARTIAL", 0) ELSE Invalid
  IN
  CASE verdict.do = "go"    -> Scan(text, verdict.st, i + 1)
    [] verdict.do = "stay"  -> Scan(text, verdict.st, i)
    [] verdict.do = "wide"  -> IF i = Len(text) THEN Tok(verdict.cut.tok, i) ELSE Scan(text, verdict.st, i + 2)
    [] verdict.do = "found" -> Tok(verdict.tok, i + verdict.skip)

\* <?xml is a declaration, <?XML and the like are reserved.
checkPiTarget(target) ==
  CASE target = Characters("xml") -> "XML_DECL"
    [] Len(target) = 3 /\ target[1] \in {"x", "X"} /\ target[2] \in {"m", "M"} /\ target[3] \in {"l", "L"}
         -> "INVALID"
    [] OTHER -> "PI"

PiEnds(tok, rest) == IF rest.tok = "PI" THEN Tok(tok, rest.next) ELSE rest
PiGoesOn(text, tok, i) ==
  IF tok = "INVALID" THEN Tok(tok, i)
  ELSE PiEnds(tok, Scan(text, IF text[i] = "?" THEN "<?name?" ELSE "<?name ", i + 1))
PiOf(text, i, name) ==
  IF name.tok = "TARGET" THEN PiGoesOn(text, checkPiTarget(SubSeq(text, i, name.next - 1)), name.next) ELSE name
ScanPi(text, i) == PiOf(text, i, Scan(text, "<?", i))

\* Behind <![: all of CDATA[ must be there to be looked at.
scanCdataSection(text, i) ==
  LET cdata == Characters("CDATA[")
      wrong == {n \in 1..6 : text[i + n - 1] # cdata[n]}
  IN
  CASE Len(text) - i + 1 < 6 -> Tok("PARTIAL", i)
    [] OTHER -> IF wrong = {} THEN Tok("CDATA_SECT_OPEN", i + 6)
                ELSE Tok("INVALID", i - 1 + CHOOSE n \in wrong : \A m \in wrong : n <= m)

Completed(text, token) ==
  CASE token.tok = "PI?"    -> ScanPi(text, token.next)
    [] token.tok = "CDATA?" -> scanCdataSection(text, token.next)
    [] OTHER -> token

XmlTokOf(text, st, i) == Completed(text, Scan(text, st, i))

\* The first token decides on the encoding, for which it takes two bytes.
\* Behind the mark of UTF-8 "next" is not set: 0.
ByteOrderMark == Characters("^$~")
HasMark(text, i, n) == Len(text) >= i + n - 1 /\ SubSeq(text, i, i + n - 1) = SubSeq(ByteOrderMark, 1, n)
initScan(text, i) ==
  CASE i > Len(text)         -> Tok("NONE", i)
    [] i = Len(text)         -> Tok("PARTIAL", i)
    [] HasMark(text, i, 3)   -> Tok("BOM", 0)
    [] HasMark(text, i, 2) /\ i + 1 = Len(text) -> Tok("PARTIAL", i)
    [] OTHER                 -> XmlTokOf(text, "prolog", i)

-----------------------------------------------------------------------------
\* What is asked of text that has been scanned.

\* i is behind the last character of the name, of the white space, at i.
RECURSIVE Past(_, _, _)
Past(text, bytes, i) == IF i <= Len(text) /\ text[i] \in bytes THEN Past(text, bytes, i + 1) ELSE i

nameLength(text, i) == Past(text, NameChars \cup {Lead, Trail}, i) - i
skipS(text, i) == Past(text, White, i)
NameAt(text, i) == SubSeq(text, i, i + nameLength(text, i) - 1)
nameMatchesAscii(text, i, name) == NameAt(text, i) = Characters(name)

predefinedEntityName ==
  Characters("lt") :> "<" @@ Characters("gt") :> ">" @@ Characters("amp") :> "&"
    @@ Characters("quot") :> "\"" @@ Characters("apos") :> "'"

PublicIdBytes == (NameChars \cup White \cup Bytes("'()+,/=?;!*%#$")) \ {"\t"}
isPublicId(text, i, next) == \A k \in (i + 1)..(next - 2) : text[k] \in PublicIdBytes

DigitValue ==
  [b \in Digits \cup HexLetters |->
     (CHOOSE n \in 1..22 : SubSeq("0123456789abcdefABCDEF", n, n) = b) - 1]

\* -1 as soon as it is no character any more.
RECURSIVE Number(_, _, _)
Number(text, base, i) ==
  IF text[i] \notin DOMAIN DigitValue THEN 0
  ELSE LET before == Number(text, base, i - 1)
           digit  == LET v == DigitValue[text[i]] IN IF v > 15 THEN v - 6 ELSE v
       IN  IF before = -1 \/ before * base + digit >= 1114112 THEN -1 ELSE before * base + digit

checkCharRefNumber(n) ==
  IF n \in 55296..57343 \cup (0..31 \ {9, 10, 13}) \cup {65534, 65535} THEN -1 ELSE n

\* The number of the reference that ends before "next".
charRefNumber(text, i, next) ==
  checkCharRefNumber(Number(text, IF text[i + 2] = "x" THEN 16 ELSE 10, next - 2))

\* Any character that is not ASCII is the one of two bytes.
XmlUtf8Encode(n) ==
  CASE n = 9 -> <<"\t">> [] n = 10 -> <<"\n">> [] n = 13 -> <<"\r">>
    [] n \in 32..64 -> <<SubSeq(" !\"#$%&'()*+,-./0123456789:;<=>?@", n - 31, n - 31)>>
    [] n \in 65..90 -> <<SubSeq("ABCDEFGHIJKLMNOPQRSTUVWXYZ", n - 64, n - 64)>>
    [] n \in 97..122 -> <<SubSeq("abcdefghijklmnopqrstuvwxyz", n - 96, n - 96)>>
    [] OTHER -> <<Lead, Trail>>

\* The attributes of a tag at i: name, value and whether the value can be
\* taken as it is.  "state" is inName, other or the open quote.
RECURSIVE AttsFrom(_, _, _, _)
AttsFrom(text, i, state, atts) ==
  LET byte  == text[i]
      n     == Len(atts)
      quoted == state \in {"\"", "'"}
      raw(a) == [a EXCEPT ![n].normalized = FALSE]
  IN
  CASE byte \in NameStart \cup {Lead, Trail} /\ state = "other" ->
         AttsFrom(text, i + 1, "inName", Append(atts, [name |-> NameAt(text, i), at |-> i, from |-> 0, to |-> 0,
                                                       normalized |-> TRUE]))
    [] byte \in {"\"", "'"} /\ ~quoted -> AttsFrom(text, i + 1, byte, [atts EXCEPT ![n].from = i + 1])
    [] quoted /\ byte = state          -> AttsFrom(text, i + 1, "other", [atts EXCEPT ![n].to = i - 1])
    [] byte = "&"                      -> AttsFrom(text, i + 1, state, raw(atts))
    [] byte \in White /\ state = "inName" -> AttsFrom(text, i + 1, "other", atts)
    [] byte \in White /\ quoted ->
         AttsFrom(text, i + 1, state,
           IF byte # " " \/ i = atts[n].from \/ text[i + 1] \in {" ", state} THEN raw(atts) ELSE atts)
    [] byte \in {">", "/"} /\ ~quoted  -> atts
    [] OTHER                           -> AttsFrom(text, i + 1, state, atts)

getAtts(text, i) == AttsFrom(text, i + 1, "inName", <<>>)

\* Line ends from "from" to before "to": CR, LF or CR LF.
RECURSIVE updatePosition(_, _, _)
updatePosition(text, from, to) ==
  CASE from >= to -> 0
    [] from < to /\ text[from] = "\r" ->
         1 + updatePosition(text, IF from + 1 < to /\ text[from + 1] = "\n" THEN from + 2 ELSE from + 1, to)
    [] from < to /\ text[from] = "\n" -> 1 + updatePosition(text, from + 1, to)
    [] OTHER -> updatePosition(text, from + 1, to)

-----------------------------------------------------------------------------
\* <?xml version="1.0" encoding="UTF-8" standalone="yes"?>

\* One of the pseudo attributes: its name, "" if there is none, its value.
ValueBytes == (NameChars \ {":"})
parsePseudoAttribute(text, i) ==
  LET begin  == skipS(text, i)
      name   == Past(text, (AllBytes \ White) \ {"="}, begin)
      equals == skipS(text, name)
      quote  == skipS(text, equals + 1)
      end    == Past(text, ValueBytes, quote + 1)
      at(k)  == IF k <= Len(text) THEN text[k] ELSE "end"
      no(k)  == [ok |-> FALSE, next |-> k, name |-> <<>>, nameAt |-> k, value |-> <<>>, valueAt |-> k]
  IN
  CASE begin > Len(text)              -> [no(i) EXCEPT !.ok = TRUE]
    [] begin = i                      -> no(i)
    [] at(equals) # "=" \/ name = begin -> no(equals)
    [] at(quote) \notin {"\"", "'"}   -> no(quote)
    [] at(end) # at(quote)            -> no(end)
    [] OTHER -> [ok |-> TRUE, next |-> end + 1, name |-> SubSeq(text, begin, name - 1), nameAt |-> begin,
                 value |-> SubSeq(text, quote + 1, end - 1), valueAt |-> quote + 1]

\* Of the declaration from s to before "next": where it goes wrong, 0 if it
\* does not, and what it says.
doParseXmlDecl(text, s, next) ==
  LET inner == SubSeq(text, 1, next - 3)
      ThirdIs(second, named, third) ==
        LET said(bad, yes) == [bad |-> bad, encoding |-> IF named THEN second.value ELSE <<>>,
                               encodingAt |-> second.valueAt, standalone |-> yes]
            end == skipS(inner, third.next)
        IN
        CASE ~second.ok -> said(second.next, FALSE)
          [] second.ok /\ second.name = <<>> -> said(0, FALSE)
          [] named /\ (second.value = <<>> \/ second.value[1] \notin NameStart \ {"_"}) -> said(second.valueAt, FALSE)
          [] ~third.ok -> said(third.next, FALSE)
          [] third.ok /\ third.name = <<>> -> said(0, FALSE)
          [] third.name # Characters("standalone") -> said(third.nameAt, FALSE)
          [] third.value \notin {Characters("yes"), Characters("no")} -> said(third.valueAt, FALSE)
          [] OTHER -> said(IF end > Len(inner) THEN 0 ELSE end, third.value = Characters("yes"))
      SecondIs(second) ==
        IF second.ok /\ second.name = Characters("encoding")
        THEN ThirdIs(second, TRUE, parsePseudoAttribute(inner, second.next)) ELSE ThirdIs(second, FALSE, second)
      FirstIs(version) ==
        IF version.ok /\ version.name = Characters("version") THEN SecondIs(parsePseudoAttribute(inner, version.next))
        ELSE [bad |-> IF version.name = <<>> THEN version.next ELSE version.nameAt, encoding |-> <<>>, encodingAt |-> 0,
              standalone |-> FALSE]
  IN  FirstIs(parsePseudoAttribute(inner, s + 5))
=============================================================================
