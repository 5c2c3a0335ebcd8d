------------------------------- MODULE ImuText -------------------------------
(***************************************************************************)
(* The text messages of two IMUs: imu_vn100_get(), imu_vn100_read() and    *)
(* imu_vn100_parse_msg() of src/sensors/imu_vn100.cxx, and                 *)
(* sf_6DOFv4_get_imu(), read_6DOFv4() and parse_6DOFv4_msg() of            *)
(* src/sensors/imu_sf6DOFv4.cxx, the same machine over other texts;        *)
(* "device" says which, and never changes.  Characters are their codes.    *)
(* The line loses characters and delivers what is left in parts; a call    *)
(* that gets the IMU data reads all there is.                              *)
(***************************************************************************)
EXTENDS Integers, Sequences, SequencesExt, FiniteSets

CONSTANTS
  Samples,    \* the messages of the device: name and fields, each a text without commas
  Name,       \* the name of those that are read: "VNCMV"
  Fields,     \* Fields[d]: how many texts a message of d has: 11 and 10
  MinLength,  \* of a message of the VN100: 9
  MaxLength,  \* max_len - 1: what msg has room for
  MaxSamples, MaxLost  \* bounds

Text == Seq(0 .. 127)

Devices == {"vn100", "sf6DOFv4"}

ASSUME SamplesAssumption == Samples \subseteq Seq(Text) \ {<< >>}
ASSUME NameAssumption    == Name \in Text
ASSUME FieldsAssumption  == Fields \in [Devices -> Nat \ {0}]
ASSUME LengthsAssumption == 3 < MinLength /\ MinLength < MaxLength

VARIABLES
  device,
  samples,       \* the messages sent
  way,           \* characters on the way
  port,          \* characters that read() can return
  lost,          \* how many the line has lost
  mode,          \* state of imu_vn100_read(): 0 before a message, 1 in one
  msg,           \* its first counter characters
  \* History:
  got            \* the messages that were published

textVars == <<device, samples, way, port, lost, mode, msg, got>>

-----------------------------------------------------------------------------
(* Characters *)

Star == 42
LF   == 10

\* '$' and '\r', 'A' and 'Z'.
Begin == IF device = "vn100" THEN 36 ELSE 65
End   == IF device = "vn100" THEN 13 ELSE 90

\* A comma or a blank.
Separator == IF device = "vn100" THEN 44 ELSE 32

HexDigit(d) == IF d < 10 THEN 48 + d ELSE 55 + d

\* A bit of the XOR of the characters: whether an odd number of them has it.
Parity(text, bit) == Cardinality({i \in DOMAIN text : (text[i] \div bit) % 2 = 1}) % 2

\* "%02X" of the sum, cut to two digits.
SumDigits(text) ==
  <<HexDigit(4 * Parity(text, 64) + 2 * Parity(text, 32) + Parity(text, 16)),
    HexDigit(8 * Parity(text, 8) + 4 * Parity(text, 4) + 2 * Parity(text, 2) + Parity(text, 1))>>

Join(texts) == Tail(FlattenSeq([i \in DOMAIN texts |-> <<Separator>> \o texts[i]]))

\* The devices are not in the repository: the VN100 sums as its driver does.
Body(m) ==
  IF device = "vn100" THEN Join(m) \o <<Star>> \o SumDigits(Join(m)) ELSE Join(m)

Ending == IF device = "vn100" THEN <<End, LF>> ELSE <<End>>

Line(m) == <<Begin>> \o Body(m) \o Ending

\* One character more: a new part, or the last part goes on.
Parted(parts, c) ==
  IF c = Separator THEN Append(parts, << >>)
  ELSE [parts EXCEPT ![Len(parts)] = Append(@, c)]

Parts(text) ==
  LET parts[i \in 0 .. Len(text)] ==
        IF i = 0 THEN << << >> >> ELSE Parted(parts[i - 1], text[i])
  IN  parts[Len(text)]

\* Without the empty ones.
Words(parts) ==
  FlattenSeq([i \in DOMAIN parts |-> IF parts[i] = << >> THEN << >> ELSE <<parts[i]>>])

\* Texts between commas, or the words of a text.
Split(text) == IF device = "vn100" THEN Parts(text) ELSE Words(Parts(text))

-----------------------------------------------------------------------------
(* imu_vn100_parse_msg(), parse_6DOFv4_msg() *)

Core(text) == SubSeq(text, 1, Len(text) - 3)

\* Mutant: the sum is not compared.
SumNotCompared(text) == Len(text) >= MinLength

SumAgrees(text) ==
  /\ Len(text) >= MinLength
  /\ SumDigits(Core(text)) = SubSeq(text, Len(text) - 1, Len(text))

Accepted(text) ==
  IF device = "vn100"
  THEN /\ SumAgrees(text)
       /\ Split(Core(text))[1] = Name
       /\ Len(Split(Core(text))) = Fields[device]
  ELSE Len(Split(text)) = Fields[device]

\* What the driver publishes of it.
Published(text) == Split(IF device = "vn100" THEN Core(text) ELSE text)

-----------------------------------------------------------------------------
(* imu_vn100_get(), sf_6DOFv4_get_imu() *)

\* A call: what it has to itself and what it leaves in the port.
Call == [mode |-> mode, msg |-> msg, got |-> << >>, over |-> FALSE, left |-> << >>]

\* The end of a message.  A message that is rejected ends the call too.
Finish(call) ==
  IF Accepted(call.msg)
  THEN [call EXCEPT !.mode = 0, !.got = Append(@, Published(call.msg))]
  ELSE [call EXCEPT !.mode = 0, !.over = TRUE]

Full(call) == call.mode = 1 /\ Len(call.msg) = MaxLength

\* One character.  When msg is full, one more is read and dropped.
ReadChar(call, c) ==
  CASE call.over                -> [call EXCEPT !.left = Append(@, c)]
    [] ~call.over /\ call.mode = 0 ->
         IF c = Begin THEN [call EXCEPT !.mode = 1, !.msg = << >>] ELSE call
    [] ~call.over /\ call.mode = 1 ->
         IF c = End \/ Full(call) THEN Finish(call) ELSE [call EXCEPT !.msg = Append(@, c)]

AtEnd(call) == IF ~call.over /\ Full(call) THEN Finish(call) ELSE call

ReadAll ==
  LET read[i \in 0 .. Len(port)] ==
        IF i = 0 THEN Call ELSE ReadChar(read[i - 1], port[i])
  IN  read[Len(port)]

get_imu ==
  /\ port # << >>
  /\ LET call == AtEnd(ReadAll)
     IN  /\ mode' = call.mode
         /\ msg' = IF call.mode = 1 THEN call.msg ELSE << >>
         /\ port' = call.left
         /\ got' = got \o call.got
  /\ UNCHANGED <<device, samples, way, lost>>

-----------------------------------------------------------------------------
(* The device and the line *)

SendSample(m) ==
  /\ way = << >> /\ Len(samples) < MaxSamples
  /\ samples' = Append(samples, m)
  /\ way' = Line(m)
  /\ UNCHANGED <<device, port, lost, mode, msg, got>>

\* Of a message at most one character is lost, before any of it is delivered.
LoseChar ==
  /\ lost < MaxLost
  /\ samples # << >> /\ way = Line(Last(samples))
  /\ \E i \in DOMAIN way : way' = RemoveAt(way, i)
  /\ lost' = lost + 1
  /\ UNCHANGED <<device, samples, port, mode, msg, got>>

\* A part, or the rest behind what has not been read yet.
Deliver ==
  /\ \E n \in 1 .. Len(way) :
       /\ port = << >> \/ n = Len(way)
       /\ port' = port \o SubSeq(way, 1, n)
       /\ way' = SubSeq(way, n + 1, Len(way))
  /\ UNCHANGED <<device, samples, lost, mode, msg, got>>

-----------------------------------------------------------------------------

TextInit ==
  /\ device \in Devices
  /\ samples = << >> /\ way = << >> /\ port = << >>
  /\ lost = 0
  /\ mode = 0 /\ msg = << >>
  /\ got = << >>

TextNext ==
  (\E m \in Samples : SendSample(m)) \/ LoseChar \/ Deliver \/ get_imu

TextSpec == TextInit /\ [][TextNext]_textVars

-----------------------------------------------------------------------------
(* Properties *)

\* What is published was sent, whole and in this order, whether messages run into each
\* other, are cut at the length of the buffer or come over several calls: for the VN100 by
\* a line that loses at most one character of a message (imu_vn100.cxx:246-281), for the
\* device without a sum only by one that has not lost any (imu_sf6DOFv4.cxx:225-232).
SamplesAsSent ==
  device = "vn100" \/ lost = 0 =>
    \E places \in [DOMAIN got -> DOMAIN samples] :
      /\ \A i, j \in DOMAIN got : i < j => places[i] < places[j]
      /\ \A i \in DOMAIN got : got[i] = samples[places[i]]

=============================================================================
