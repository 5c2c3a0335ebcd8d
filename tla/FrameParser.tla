----------------------------- MODULE FrameParser -----------------------------
(***************************************************************************)
(* The byte parsers of the binary receivers: read_ublox5() of              *)
(* src/sensors/gps_ublox5.cxx and ardupilot_read() of                      *)
(* src/sensors/ardupilot.cxx.  They are the same machine over different    *)
(* frames; "driver" says which, and never changes.                         *)
(*                                                                         *)
(* A call reads what the port has, so it may end before any byte: EndCall  *)
(* is free to, and a byte need not wait in the port.  The line may lose    *)
(* bytes, and the driver may open it in the middle of a frame.             *)
(***************************************************************************)
EXTENDS Integers, Sequences, SequencesExt

CONSTANTS
  Messages,   \* what a device sends: id and payload, none of them empty
  Room,       \* 400, the longest payload that read_ublox5() takes
  MaxFrames,  \* bound on the frames sent
  MaxLosses   \* bound on the bytes lost

Byte == 0 .. 255

ASSUME MessagesAssumption ==
  \A m \in Messages : m.id \in Byte /\ m.payload \in Seq(Byte) \ {<< >>}
ASSUME BoundsAssumption == Room \in Nat \ {0} /\ MaxFrames \in Nat /\ MaxLosses \in Nat

VARIABLES
  driver,
  sent,      \* the messages sent
  out,       \* what is still to come of the last one's frame
  losses,
  calling,   \* a call is in progress
  state,     \* of the parser, which keeps it between calls; so are the next four
  header,    \* class or packet id, and length, as read
  cksum,     \* cksum_A and cksum_B
  cksum_lo,
  payload,   \* payload[0 .. counter - 1]
  \* History:
  hurt,      \* places in sent of the frames that lost bytes; 0 when opened inside a frame
  split,     \* a call began after some of the payload was read
  out_of_step,  \* the places of the frames that began inside what was taken for a frame
  accepted   \* what was handed to parse_ublox5_msg() or ardupilot_parse()

lineVars   == <<driver, sent, out, losses, hurt, out_of_step>>
parserVars == <<state, header, cksum, cksum_lo, payload, split>>
vars == <<lineVars, calling, parserVars, accepted>>

Drivers == {"ublox5", "ardupilot"}

-----------------------------------------------------------------------------
(* Frames *)

Sync(d) == IF d = "ublox5" THEN <<181, 98>> ELSE <<147, 224>>

\* Of the classes of ublox5 messages the driver only knows 1.
IdBytes(d, id) == IF d = "ublox5" THEN <<1, id>> ELSE <<id>>

LengthBytes(d, n) == IF d = "ublox5" THEN <<n % 256, n \div 256>> ELSE <<n>>

HeaderLength(d) == IF d = "ublox5" THEN 4 ELSE 2

\* Both sums after one more byte, in uint8_t.
Sum(c, b) ==
  LET a == (c[1] + b) % 256
  IN  <<a, (c[2] + a) % 256>>

\* The device is not in the repository: it computes the sums as the drivers check them.
DeviceSum(c, b) == <<(c[1] + b) % 256, (c[2] + c[1] + b) % 256>>

\* After each number of bytes.
DeviceSums(bytes) ==
  LET sum[n \in 0 .. Len(bytes)] == IF n = 0 THEN <<0, 0>> ELSE DeviceSum(sum[n - 1], bytes[n])
  IN  sum

Covered(d, m) == IdBytes(d, m.id) \o LengthBytes(d, Len(m.payload)) \o m.payload

Encode(d, m) ==
  LET covered == Covered(d, m)
      sum == DeviceSums(covered)[Len(covered)]
  IN  Sync(d) \o covered \o <<sum[1], sum[2]>>

\* Those whose length fits in the bytes for it.
LengthLimit(d) == IF d = "ublox5" THEN 65536 ELSE 256
Sendable(d) == {m \in Messages : Len(m.payload) < LengthLimit(d)}

\* What the header says.
Id(h) == h[IF driver = "ublox5" THEN 2 ELSE 1]
PayloadLength(h) == IF driver = "ublox5" THEN h[4] * 256 + h[3] ELSE h[2]

-----------------------------------------------------------------------------

ParserStates == {"sync0", "sync1", "header", "payload", "cksum_A", "cksum_B"}

\* What an array that is not static may hold in the next call.
Garbage == 256

TypeOK ==
  /\ driver \in Drivers
  /\ sent \in Seq(Sendable(driver)) /\ Len(sent) <= MaxFrames
  /\ out \in Seq(Byte)
  /\ losses \in 0 .. MaxLosses
  /\ calling \in BOOLEAN
  /\ state \in ParserStates
  /\ header \in Seq(Byte) /\ Len(header) <= HeaderLength(driver)
  /\ cksum \in Byte \X Byte /\ cksum_lo \in Byte
  /\ payload \in Seq(Byte \cup {Garbage})
  /\ hurt \subseteq 0 .. Len(sent)
  /\ split \in BOOLEAN
  /\ out_of_step \subseteq 1 .. Len(sent)
  /\ accepted \in Seq([place : 0 .. Len(sent), payload : Seq(Byte \cup {Garbage}), split : BOOLEAN])

Init ==
  /\ driver \in Drivers
  /\ sent = << >>
  /\ out \in UNION {Suffixes(Tail(Encode(driver, m))) : m \in Sendable(driver)}
  /\ hurt = IF out = << >> THEN {} ELSE {0}
  /\ losses = 0
  /\ calling = FALSE
  /\ state = "sync0" /\ header = << >> /\ payload = << >>
  /\ cksum = <<0, 0>> /\ cksum_lo = 0
  /\ split = FALSE /\ out_of_step = {}
  /\ accepted = << >>

-----------------------------------------------------------------------------
(* The device and the line *)

Send(m) ==
  /\ out = << >> /\ Len(sent) < MaxFrames
  /\ sent' = Append(sent, m)
  /\ out' = Encode(driver, m)
  /\ out_of_step' = IF state \in {"sync0", "sync1"} THEN out_of_step
                    ELSE out_of_step \cup {Len(sent')}
  /\ UNCHANGED <<driver, losses, hurt, calling, parserVars, accepted>>

Lose ==
  /\ out # << >> /\ losses < MaxLosses
  /\ out' = Tail(out)
  /\ losses' = losses + 1
  /\ hurt' = hurt \cup {Len(sent)}
  /\ UNCHANGED <<driver, sent, out_of_step, calling, parserVars, accepted>>

-----------------------------------------------------------------------------
(* Calls *)

\* Mutant: neither payload is static.
BeginCallOnStack ==
  /\ ~calling /\ calling' = TRUE
  /\ split' = (split \/ payload # << >>)
  /\ payload' \in {payload, [i \in DOMAIN payload |-> Garbage]}
  /\ UNCHANGED <<lineVars, state, header, cksum, cksum_lo, accepted>>

\* read_ublox5() has its payload on the stack: what it read in an earlier call may
\* or may not be there.
BeginCall ==
  /\ ~calling /\ calling' = TRUE
  /\ split' = (split \/ payload # << >>)
  /\ \/ UNCHANGED payload
     \/ /\ driver = "ublox5"
        /\ payload' = [i \in DOMAIN payload |-> Garbage]
  /\ UNCHANGED <<lineVars, state, header, cksum, cksum_lo, accepted>>

\* The port has nothing more: read() returns no byte.  Then too it is asked whether the
\* payload is complete, which one of no bytes is.
EndCall ==
  /\ calling /\ calling' = FALSE
  /\ state' = IF state = "payload" /\ Len(payload) >= PayloadLength(header) THEN "cksum_A" ELSE state
  /\ UNCHANGED <<lineVars, header, cksum, cksum_lo, payload, split, accepted>>

\* read() returns the next byte of the line.
Read ==
  /\ calling
  /\ out # << >> /\ out' = Tail(out)
  /\ UNCHANGED <<driver, sent, losses, hurt, out_of_step>>

Input == Head(out)

\* Back to looking for a frame, where a call begins with everything cleared.
Rescan ==
  /\ state' = "sync0" /\ calling' = FALSE
  /\ header' = << >> /\ payload' = << >> /\ cksum' = <<0, 0>>
  /\ split' = FALSE
  /\ UNCHANGED cksum_lo

-----------------------------------------------------------------------------
(* One byte in each state *)

\* Anything but the first sync byte is skipped.
ReadSync0 ==
  /\ Read /\ state = "sync0"
  /\ state' = IF Input = Sync(driver)[1] THEN "sync1" ELSE "sync0"
  /\ UNCHANGED <<calling, header, cksum, cksum_lo, payload, split, accepted>>

\* The first sync byte may come again; after it the call is over all the same, as
\* none of the states that follow is the next.
ReadSync1 ==
  /\ Read /\ state = "sync1"
  /\ CASE Input = Sync(driver)[2] ->
            state' = "header" /\ UNCHANGED <<calling, header, cksum, cksum_lo, payload, split>>
       [] Input = Sync(driver)[1] ->
            calling' = FALSE /\ UNCHANGED parserVars
       [] OTHER -> Rescan
  /\ UNCHANGED accepted

\* A length that the payload has no room for is not a frame's.
Oversize(n) == driver = "ublox5" /\ n > Room

ReadHeader ==
  /\ Read /\ state = "header"
  /\ LET h == Append(header, Input)
     IN  IF Len(h) = HeaderLength(driver) /\ Oversize(PayloadLength(h))
         THEN Rescan
         ELSE /\ header' = h
              /\ cksum' = Sum(cksum, Input)
              /\ state' = IF Len(h) = HeaderLength(driver) THEN "payload" ELSE "header"
              /\ UNCHANGED <<calling, cksum_lo, payload, split>>
  /\ UNCHANGED accepted

\* A byte is read before it is asked whether the payload is complete.
ReadPayload ==
  /\ Read /\ state = "payload"
  /\ payload' = Append(payload, Input)
  /\ cksum' = Sum(cksum, Input)
  /\ state' = IF Len(payload') >= PayloadLength(header) THEN "cksum_A" ELSE "payload"
  /\ UNCHANGED <<calling, header, cksum_lo, split, accepted>>

ReadCksumA ==
  /\ Read /\ state = "cksum_A"
  /\ cksum_lo' = Input
  /\ state' = "cksum_B"
  /\ UNCHANGED <<calling, header, cksum, payload, split, accepted>>

\* The frame whose last byte is read, if it is the one that was parsed.
PlaceOf(h) ==
  IF /\ out' = << >> /\ sent # << >>
     /\ LET m == sent[Len(sent)] IN Id(h) = m.id /\ PayloadLength(h) = Len(m.payload)
  THEN Len(sent) ELSE 0

\* Mutant: one of the two sums is enough.
PassesAny(b) == cksum_lo = cksum[1] \/ b = cksum[2]

Passes(b) == cksum_lo = cksum[1] /\ b = cksum[2]

Accept ==
  accepted' = Append(accepted,
    [place |-> PlaceOf(header), payload |-> payload, split |-> split])

\* The end of a record and of the call, whether the checksum passes or not.
ReadCksumB ==
  /\ Read /\ state = "cksum_B"
  /\ IF Passes(Input) THEN Accept ELSE UNCHANGED accepted
  /\ Rescan

-----------------------------------------------------------------------------

Next ==
  \/ \E m \in Sendable(driver) : Send(m)
  \/ Lose
  \/ BeginCall \/ EndCall
  \/ ReadSync0 \/ ReadSync1 \/ ReadHeader \/ ReadPayload \/ ReadCksumA \/ ReadCksumB

Spec == Init /\ [][Next]_vars

-----------------------------------------------------------------------------
(* Properties *)

\* read_ublox5() can only answer for a payload that came in one call, for the sums do not
\* cover what is left in an array on the stack.
Answers(a) == driver = "ardupilot" \/ ~a.split

Delivery ==
  INSTANCE FrameDelivery WITH
    delivered <- [i \in DOMAIN accepted |->
                    [place |-> accepted[i].place,
                     payload |-> IF accepted[i].place = 0 \/ Answers(accepted[i]) THEN accepted[i].payload
                                 ELSE sent[accepted[i].place].payload]]

\* What is parsed was sent, in this order and at most once, and with its payload where
\* the driver can answer for it, whatever bytes the line loses and wherever it was
\* opened (gps_ublox5.cxx:388, 489-507, ardupilot.cxx:353, 436-455).
ParsedInOrder == Delivery!Spec

\* The frames that have come and gone.
Gone == 1 .. (IF out = << >> THEN Len(sent) ELSE Len(sent) - 1)

\* Those that did not come whole, and those that read_ublox5() has no room for.
Spoilt == hurt \cup {k \in DOMAIN sent : Oversize(Len(sent[k].payload))}

Parsed(k) ==
  \E i \in DOMAIN accepted :
    /\ accepted[i].place = k
    /\ Answers(accepted[i]) => accepted[i].payload = sent[k].payload

\* A frame is parsed, with the payload it was sent with, unless it is spoilt, or an
\* earlier one is and the parser was in what it took for a frame when this one began: one
\* that comes to a parser that looks for a frame is never missed, whatever sync bytes come
\* before it or are in its payload and however the calls cut it
\* (gps_ublox5.cxx:394-418, 464-507, ardupilot.cxx:343-460).
FramesArrive ==
  \A k \in Gone : Parsed(k) \/ k \in Spoilt \/ (k \in out_of_step /\ \E j \in Spoilt : j < k)

=============================================================================
