---------------------------- MODULE StreamProofs ----------------------------
(***************************************************************************)
(* Proofs about what streams of bytes carry: the packets of the telemetry  *)
(* downlink, the lines of the telnet sessions, and both directions of the  *)
(* serial port server, which lends its port to one client at a time; for   *)
(* any sizes, any buffers, any way in which the bytes are cut and joined   *)
(* and polls nested to any depth.                                          *)
(***************************************************************************)
EXTENDS Downlink, Telnet, UartServer, SequenceLemmas, FiniteSetTheorems, TLAPS

-----------------------------------------------------------------------------
(* The downlink *)

Framed(packets) == [i \in 1 .. Len(packets) |-> PacketBytes(packets[i])]

StreamInv ==
  /\ serial_buffer \in Seq(DownBytes) /\ port \in Seq(DownBytes)
  /\ undelivered \in Seq(DownPackets)
  /\ wp_index \in Nat
  /\ port \o serial_buffer = FlattenSeq(Framed(undelivered))

LEMMA BytesAssociate ==
  \A x, y, z \in Seq(DownBytes) : Associate(x, y, z)
BY PartsAssociate

LEMMA BytesCancel ==
  \A x, y, z \in Seq(DownBytes) : x \o y = x \o z => y = z
BY ConcatSimplifications

LEMMA PacketHasBytes ==
  ASSUME NEW p \in DownPackets
  PROVE  PacketBytes(p) \in Seq(DownBytes) /\ Len(PacketBytes(p)) = Size[p.stream]
<1>1. Size[p.stream] \in 1 .. 256 /\ p.stream \in AllStreams
  BY SizeAssumption DEF DownPackets
<1>2. \A k \in 1 .. Size[p.stream] : [packet |-> p, pos |-> k] \in DownBytes
  BY <1>1 DEF DownBytes
<1>3. PICK n \in Nat : n = Size[p.stream]
  BY <1>1
<1>4. PICK f \in [1 .. n -> DownBytes] : f = PacketBytes(p)
  BY <1>2, <1>3 DEF PacketBytes
<1>5. f \in Seq(DownBytes) /\ Len(f) = n
  OBVIOUS
<1>6. QED
  BY <1>3, <1>4, <1>5

LEMMA FramedType ==
  ASSUME NEW packets \in Seq(DownPackets)
  PROVE  /\ Framed(packets) \in Seq(Seq(DownBytes))
         /\ Len(Framed(packets)) = Len(packets)
         /\ \A i \in 1 .. Len(packets) : Framed(packets)[i] = PacketBytes(packets[i])
<1>1. \A i \in 1 .. Len(packets) : PacketBytes(packets[i]) \in Seq(DownBytes)
  BY PacketHasBytes
<1>2. Framed(packets) \in [1 .. Len(packets) -> Seq(DownBytes)]
  BY <1>1 DEF Framed
<1>3. QED
  BY <1>2 DEF Framed

LEMMA FramedAppend ==
  ASSUME NEW packets \in Seq(DownPackets), NEW p \in DownPackets
  PROVE  Framed(Append(packets, p)) = Append(Framed(packets), PacketBytes(p))
<1> DEFINE more == Append(packets, p)
           long == Append(Framed(packets), PacketBytes(p))
<1>1. /\ more \in Seq(DownPackets) /\ Len(more) = Len(packets) + 1 /\ Len(packets) \in Nat
      /\ \A i \in 1 .. Len(packets) : more[i] = packets[i]
      /\ more[Len(packets) + 1] = p
  OBVIOUS
<1>2. /\ Framed(packets) \in Seq(Seq(DownBytes)) /\ Len(Framed(packets)) = Len(packets)
      /\ \A i \in 1 .. Len(packets) : Framed(packets)[i] = PacketBytes(packets[i])
      /\ PacketBytes(p) \in Seq(DownBytes)
  BY FramedType, PacketHasBytes
<1>3. /\ long \in Seq(Seq(DownBytes)) /\ Len(long) = Len(packets) + 1
      /\ \A i \in 1 .. Len(packets) : long[i] = Framed(packets)[i]
      /\ long[Len(packets) + 1] = PacketBytes(p)
  BY <1>2, AppendProperties
<1> HIDE DEF more, long
<1>4. /\ Framed(more) \in Seq(Seq(DownBytes)) /\ Len(Framed(more)) = Len(more)
      /\ \A i \in 1 .. Len(more) : Framed(more)[i] = PacketBytes(more[i])
  BY <1>1, FramedType
<1>5. \A i \in 1 .. Len(more) : Framed(more)[i] = long[i]
  <2>1. ASSUME NEW i \in 1 .. Len(more) PROVE Framed(more)[i] = long[i]
    <3>1. CASE i = Len(packets) + 1
      BY <1>1, <1>3, <1>4, <3>1
    <3>2. CASE i \in 1 .. Len(packets)
      BY <1>1, <1>2, <1>3, <1>4, <3>2
    <3>3. QED
      BY <1>1, <3>1, <3>2
  <2>2. QED
    BY <2>1
<1>6. Framed(more) = long
  BY <1>1, <1>3, <1>4, <1>5, SeqEqual
<1>7. QED
  BY <1>6 DEF more, long

LEMMA FramedTail ==
  ASSUME NEW packets \in Seq(DownPackets), packets # << >>
  PROVE  /\ Framed(packets) # << >>
         /\ Head(Framed(packets)) = PacketBytes(Head(packets))
         /\ Tail(Framed(packets)) = Framed(Tail(packets))
<1> DEFINE less == Tail(packets)
           short == Tail(Framed(packets))
<1>1. /\ less \in Seq(DownPackets) /\ Len(packets) \in Nat \ {0} /\ Len(less) = Len(packets) - 1
      /\ \A i \in 1 .. Len(less) : less[i] = packets[i + 1]
      /\ Head(packets) = packets[1]
  OBVIOUS
<1>2. /\ Framed(packets) \in Seq(Seq(DownBytes)) /\ Len(Framed(packets)) = Len(packets)
      /\ \A i \in 1 .. Len(packets) : Framed(packets)[i] = PacketBytes(packets[i])
  BY FramedType
<1>3. Framed(packets) # << >>
  BY <1>1, <1>2
<1>4. /\ short \in Seq(Seq(DownBytes)) /\ Len(short) = Len(packets) - 1
      /\ \A i \in 1 .. Len(less) : short[i] = Framed(packets)[i + 1]
      /\ Head(Framed(packets)) = Framed(packets)[1]
  BY <1>1, <1>2, <1>3
<1>5. Head(Framed(packets)) = PacketBytes(Head(packets))
  BY <1>1, <1>2, <1>4
<1> HIDE DEF less, short
<1>6. /\ Framed(less) \in Seq(Seq(DownBytes)) /\ Len(Framed(less)) = Len(less)
      /\ \A i \in 1 .. Len(less) : Framed(less)[i] = PacketBytes(less[i])
  BY <1>1, FramedType
<1>7. \A i \in 1 .. Len(less) : Framed(less)[i] = short[i]
  <2>1. ASSUME NEW i \in 1 .. Len(less) PROVE Framed(less)[i] = short[i]
    <3>1. i + 1 \in 1 .. Len(packets)
      BY <1>1
    <3>2. QED
      BY <1>1, <1>2, <1>4, <1>6, <3>1
  <2>2. QED
    BY <2>1
<1>8. Framed(less) = short
  BY <1>1, <1>4, <1>6, <1>7, SeqEqual
<1>9. QED
  BY <1>3, <1>5, <1>8 DEF less, short

\* However many bytes the driver takes, the stream is the same.
LEMMA FlushKeeps ==
  ASSUME NEW opened, NEW fifo \in Seq(DownBytes), port \in Seq(DownBytes),
         FlushSerial(opened, fifo)
  PROVE  /\ port' \in Seq(DownBytes) /\ serial_buffer' \in Seq(DownBytes)
         /\ port' \o serial_buffer' = port \o fifo
<1>1. PICK n \in 0 .. Len(fifo) :
        /\ port' = port \o SubSeq(fifo, 1, n)
        /\ serial_buffer' = SubSeq(fifo, n + 1, Len(fifo))
  <2>1. PICK n \in 0 .. Smaller(Smaller(Len(fifo), WriteMax), PortMax - Len(port)) :
          /\ port' = port \o SubSeq(fifo, 1, n)
          /\ serial_buffer' = SubSeq(fifo, n + 1, Len(fifo))
    BY DEF FlushSerial
  <2>2. Len(fifo) \in Nat /\ WriteMax \in Nat /\ PortMax - Len(port) \in Int
    BY BufferAssumption
  <2>3. n \in 0 .. Len(fifo)
    BY <2>1, <2>2 DEF Smaller
  <2>4. QED
    BY <2>1, <2>3
<1>2. PICK a \in Seq(DownBytes) : a = port
  OBVIOUS
<1>3. PICK b \in Seq(DownBytes) : b = SubSeq(fifo, 1, n)
  BY CutJoins
<1>4. PICK c \in Seq(DownBytes) : c = SubSeq(fifo, n + 1, Len(fifo))
  BY CutJoins
<1>5. fifo = b \o c
  <2>1. fifo = SubSeq(fifo, 1, n) \o SubSeq(fifo, n + 1, Len(fifo))
    BY CutJoins
  <2>2. QED
    BY ONLY <1>3, <1>4, <2>1
<1>6. (a \o b) \o c = a \o (b \o c)
  <2>1. Associate(a, b, c)
    BY ONLY a \in Seq(DownBytes), b \in Seq(DownBytes), c \in Seq(DownBytes), BytesAssociate
  <2>2. QED
    BY ONLY <2>1 DEF Associate
<1>7. a \o b \in Seq(DownBytes)
  BY ToSetJoin
<1>8. port' = a \o b /\ serial_buffer' = c
  BY <1>1, <1>2, <1>3, <1>4
<1>9. port' \o serial_buffer' = port \o fifo
  BY ONLY <1>2, <1>5, <1>6, <1>8
<1>10. QED
  BY <1>7, <1>8, <1>9

\* A packet goes into the fifo whole or not at all.
LEMMA LinkWriteKeeps ==
  ASSUME StreamInv, NEW p \in DownPackets, LinkWrite(p), wp_index' \in Nat
  PROVE  StreamInv'
<1>1. PICK fifo \in Seq(DownBytes) : fifo = AppendWhole(serial_buffer, p)
  <2>1. serial_buffer \in Seq(DownBytes) /\ PacketBytes(p) \in Seq(DownBytes)
    BY PacketHasBytes DEF StreamInv
  <2>2. serial_buffer \o PacketBytes(p) \in Seq(DownBytes)
    BY <2>1, ToSetJoin
  <2>3. QED
    BY <2>1, <2>2 DEF AppendWhole
<1>2. /\ port' \in Seq(DownBytes) /\ serial_buffer' \in Seq(DownBytes)
      /\ port' \o serial_buffer' = port \o fifo
  BY <1>1, FlushKeeps DEF LinkWrite, StreamInv
<1>3. CASE Fits(serial_buffer, p)
  <2>1. undelivered' = Append(undelivered, p) /\ fifo = serial_buffer \o PacketBytes(p)
    BY <1>1, <1>3 DEF LinkWrite, AppendWhole
  <2>2. PICK u \in Seq(DownPackets) : u = undelivered
    BY DEF StreamInv
  <2>3. PICK more \in Seq(DownPackets) : more = Append(u, p)
    <3>1. Append(u, p) \in Seq(DownPackets)
      BY ToSetAppend
    <3>2. QED
      BY <3>1
  <2>4. PICK seqs \in Seq(Seq(DownBytes)) : seqs = Framed(u)
    BY FramedType
  <2>5. PICK x \in Seq(DownBytes) : x = PacketBytes(p)
    BY PacketHasBytes
  <2>6. Framed(more) = Append(seqs, x)
    BY <2>3, <2>4, <2>5, FramedAppend
  <2>7. FlattenSeq(Append(seqs, x)) = FlattenSeq(seqs) \o x
    BY FlattenAppend
  <2>8. PICK a \in Seq(DownBytes) : a = port
    BY DEF StreamInv
  <2>9. PICK b \in Seq(DownBytes) : b = serial_buffer
    BY DEF StreamInv
  <2>10. (a \o b) \o x = a \o (b \o x)
    <3>1. Associate(a, b, x)
      BY ONLY a \in Seq(DownBytes), b \in Seq(DownBytes), x \in Seq(DownBytes), BytesAssociate
    <3>2. QED
      BY ONLY <3>1 DEF Associate
  <2>11. a \o b = FlattenSeq(seqs)
    BY <2>2, <2>4, <2>8, <2>9 DEF StreamInv
  <2>12. port' \o serial_buffer' = a \o (b \o x)
    BY <1>2, <2>1, <2>5, <2>8, <2>9
  <2>13. port' \o serial_buffer' = FlattenSeq(Framed(more))
    BY ONLY <2>6, <2>7, <2>10, <2>11, <2>12
  <2>14. undelivered' = more
    BY <2>1, <2>2, <2>3
  <2>15. QED
    BY <1>2, <2>13, <2>14 DEF StreamInv
<1>4. CASE ~Fits(serial_buffer, p)
  <2>1. undelivered' = undelivered /\ fifo = serial_buffer
    BY <1>1, <1>4 DEF LinkWrite, AppendWhole
  <2>2. QED
    BY <1>2, <2>1 DEF StreamInv
<1>5. QED
  BY <1>3, <1>4

\* The ground takes the first packet off the stream.
LEMMA GroundKeeps ==
  ASSUME StreamInv, GroundReceive
  PROVE  StreamInv'
<1>1. PICK u \in Seq(DownPackets) : u = undelivered
  BY DEF StreamInv
<1>2. /\ u # << >> /\ IsPrefix(PacketBytes(Head(u)), port)
      /\ port' = SubSeq(port, Size[Head(u).stream] + 1, Len(port))
      /\ undelivered' = Tail(u)
      /\ UNCHANGED <<serial_buffer, wp_index>>
  BY <1>1 DEF GroundReceive
<1>3. Head(u) \in DownPackets /\ Tail(u) \in Seq(DownPackets)
  BY <1>2
<1>4. PICK x \in Seq(DownBytes) : x = PacketBytes(Head(u)) /\ Len(x) = Size[Head(u).stream]
  BY <1>3, PacketHasBytes
<1>5. PICK a \in Seq(DownBytes) : a = port
  BY DEF StreamInv
<1>6. PICK b \in Seq(DownBytes) : b = serial_buffer
  BY DEF StreamInv
<1>7. Len(x) \in 0 .. Len(a) /\ x = SubSeq(a, 1, Len(x))
  <2>1. Len(x) <= Len(a) /\ SubSeq(x, 1, Len(x)) = SubSeq(a, 1, Len(x))
    BY <1>2, <1>4, <1>5 DEF IsPrefix
  <2>2. SubSeq(x, 1, Len(x)) = x
    BY SubSeqFull
  <2>3. QED
    BY <2>1, <2>2
<1>8. PICK c \in Seq(DownBytes) : c = SubSeq(a, Len(x) + 1, Len(a))
  BY <1>7, CutJoins
<1>9. a = x \o c
  <2>1. a = SubSeq(a, 1, Len(x)) \o SubSeq(a, Len(x) + 1, Len(a))
    BY <1>7, CutJoins
  <2>2. QED
    BY ONLY <1>7, <1>8, <2>1
<1>10. (x \o c) \o b = x \o (c \o b)
  <2>1. Associate(x, c, b)
    BY ONLY x \in Seq(DownBytes), b \in Seq(DownBytes), c \in Seq(DownBytes), BytesAssociate
  <2>2. QED
    BY ONLY <2>1 DEF Associate
<1>11. PICK seqs \in Seq(Seq(DownBytes)) : seqs = Framed(u)
  BY FramedType
<1>12. seqs # << >> /\ Head(seqs) = x /\ Tail(seqs) = Framed(Tail(u))
  BY <1>2, <1>4, <1>11, FramedTail
<1>13. PICK less \in Seq(Seq(DownBytes)) : less = Tail(seqs)
  <2>1. Tail(seqs) \in Seq(Seq(DownBytes))
    BY <1>12
  <2>2. QED
    BY <2>1
<1>14. FlattenSeq(seqs) = x \o FlattenSeq(less)
  BY <1>12, <1>13, FlattenTail
<1>15. PICK d \in Seq(DownBytes) : d = FlattenSeq(less)
  BY x \in Seq(DownBytes), FlattenAppend
<1>16. PICK e \in Seq(DownBytes) : e = c \o b
  <2>1. c \o b \in Seq(DownBytes)
    BY ToSetJoin
  <2>2. QED
    BY <2>1
<1>17. a \o b = FlattenSeq(seqs)
  BY <1>1, <1>5, <1>6, <1>11 DEF StreamInv
<1>18. x \o e = x \o d
  BY ONLY <1>9, <1>14, <1>15, <1>16, <1>10, <1>17
<1>19. e = d
  BY ONLY <1>18, x \in Seq(DownBytes), e \in Seq(DownBytes), d \in Seq(DownBytes),
          BytesCancel
<1>20. port' = c /\ serial_buffer' = b
  BY <1>2, <1>4, <1>5, <1>6, <1>8
<1>21. port' \o serial_buffer' = FlattenSeq(Framed(undelivered'))
  BY <1>2, <1>12, <1>13, <1>15, <1>16, <1>19, <1>20
<1>22. QED
  BY <1>2, <1>3, <1>20, <1>21 DEF StreamInv

LEMMA StreamStarts ==
  ASSUME DownInit
  PROVE  StreamInv
<1>1. serial_buffer = << >> /\ port = << >> /\ undelivered = << >> /\ wp_index = 0
  BY DEF DownInit
<1>2. Framed(<< >>) = << >>
  BY DEF Framed
<1>3. << >> \o << >> = << >>
  OBVIOUS
<1>4. FlattenSeq(<< >>) = << >>
  BY FlattenNone
<1>5. QED
  BY <1>1, <1>2, <1>3, <1>4 DEF StreamInv

LEMMA StreamStep ==
  ASSUME StreamInv, DownNext
  PROVE  StreamInv'
<1>1. ASSUME NEW s \in Streams, SkipPacket(s) PROVE StreamInv'
  BY <1>1 DEF SkipPacket, StreamInv
<1>2. ASSUME NEW s \in Streams, SendPacket(s) PROVE StreamInv'
  <2>1. [stream |-> s, index |-> HomeIndex] \in DownPackets
    BY <1>2 DEF DownPackets, AllStreams, Indices
  <2>2. LinkWrite([stream |-> s, index |-> HomeIndex]) /\ wp_index' = wp_index
    BY <1>2 DEF SendPacket
  <2>3. QED
    BY <2>1, <2>2, LinkWriteKeeps DEF StreamInv
<1>3. CASE SkipReport
  BY <1>3 DEF SkipReport, StreamInv
<1>4. CASE SendReport
  <2>1. wp_index \in Nat /\ NumWaypoints \in Nat
    BY BufferAssumption DEF StreamInv
  <2>2. [stream |-> AP, index |-> ReportIndex] \in DownPackets
    BY <2>1 DEF DownPackets, AllStreams, Indices, ReportIndex
  <2>3. LinkWrite([stream |-> AP, index |-> ReportIndex]) /\ wp_index' \in Nat
    BY <1>4, <2>1 DEF SendReport, NextIndex
  <2>4. QED
    BY <2>2, <2>3, LinkWriteKeeps
<1>5. CASE Flush
  <2>1. /\ port' \in Seq(DownBytes) /\ serial_buffer' \in Seq(DownBytes)
        /\ port' \o serial_buffer' = port \o serial_buffer
    BY <1>5, FlushKeeps DEF Flush, StreamInv
  <2>2. UNCHANGED <<wp_index, undelivered>>
    BY <1>5 DEF Flush
  <2>3. QED
    BY <2>1, <2>2 DEF StreamInv
<1>6. CASE GroundReceive
  BY <1>6, GroundKeeps
<1>7. QED
  BY <1>1, <1>2, <1>3, <1>4, <1>5, <1>6 DEF DownNext

\* What is between the link and the ground is whole packets in the order of the reports,
\* each once, for any sizes of packets, fifo and port and however little the port takes.
THEOREM Downlink_WholePackets == DownSpec => []StreamIsWholePackets
<1>1. DownInit => StreamInv
  BY StreamStarts
<1>2. StreamInv /\ [DownNext]_down_vars => StreamInv'
  <2>1. ASSUME StreamInv, UNCHANGED down_vars PROVE StreamInv'
    BY <2>1 DEF StreamInv, down_vars
  <2>2. QED
    BY <2>1, StreamStep
<1>3. StreamInv => StreamIsWholePackets
  BY DEF StreamInv, StreamIsWholePackets, Framed
<1>4. QED
  BY <1>1, <1>2, <1>3, PTL DEF DownSpec

-----------------------------------------------------------------------------
(* The telnet sessions: what a client typed and a session has not executed *)

Letters == (UNION {{l[i] : i \in DOMAIN l} : l \in Lines}) \ {Newline}
Chars   == Letters \cup {Newline}

LEMMA LinesHaveLetters ==
  ASSUME NEW l \in Lines
  PROVE  l \in Seq(Letters) /\ l \in Seq(Chars) /\ Append(l, Newline) \in Seq(Chars)
<1>1. l \in Seq({l[i] : i \in DOMAIN l} \ {Newline})
  BY TelnetAssumption
<1>2. {l[i] : i \in DOMAIN l} \ {Newline} \subseteq Letters
  <2>1. {l[i] : i \in DOMAIN l} \in {{k[i] : i \in DOMAIN k} : k \in Lines}
    OBVIOUS
  <2>2. QED
    BY <2>1 DEF Letters
<1>3. l \in Seq(Letters)
  BY <1>1, <1>2
<1>4. Letters \subseteq Chars /\ Newline \in Chars
  BY DEF Chars
<1>5. l \in Seq(Chars)
  BY <1>3, <1>4
<1>6. QED
  BY <1>3, <1>4, <1>5, ToSetAppend

\* The lines after the first n, as they are sent.
Waiting(lines, n) == [i \in 1 .. Len(lines) - n |-> Append(lines[n + i], Newline)]

LEMMA WaitingType ==
  ASSUME NEW lines \in Seq(Lines), NEW n \in 0 .. Len(lines)
  PROVE  /\ Waiting(lines, n) \in Seq(Seq(Chars))
         /\ Len(Waiting(lines, n)) = Len(lines) - n
         /\ \A i \in 1 .. Len(lines) - n : Waiting(lines, n)[i] = Append(lines[n + i], Newline)
<1>1. PICK k \in Nat : k = Len(lines) - n
  OBVIOUS
<1>2. \A i \in 1 .. k : lines[n + i] \in Lines
  BY <1>1
<1>3. \A i \in 1 .. k : Append(lines[n + i], Newline) \in Seq(Chars)
  BY <1>2, LinesHaveLetters
<1>4. Waiting(lines, n) = [i \in 1 .. k |-> Append(lines[n + i], Newline)]
  BY <1>1 DEF Waiting
<1>5. PICK f \in [1 .. k -> Seq(Chars)] : f = Waiting(lines, n)
  BY <1>3, <1>4
<1>6. f \in Seq(Seq(Chars)) /\ Len(f) = k
  OBVIOUS
<1>7. QED
  BY <1>1, <1>4, <1>5, <1>6

LEMMA WaitingMore ==
  ASSUME NEW lines \in Seq(Lines), NEW n \in 0 .. Len(lines), NEW l \in Lines
  PROVE  Waiting(Append(lines, l), n) = Append(Waiting(lines, n), Append(l, Newline))
<1>1. PICK more \in Seq(Lines) : /\ more = Append(lines, l) /\ Len(more) = Len(lines) + 1
                                 /\ \A i \in 1 .. Len(lines) : more[i] = lines[i]
                                 /\ more[Len(lines) + 1] = l
  <2>1. /\ Append(lines, l) \in Seq(Lines) /\ Len(Append(lines, l)) = Len(lines) + 1
        /\ \A i \in 1 .. Len(lines) : Append(lines, l)[i] = lines[i]
        /\ Append(lines, l)[Len(lines) + 1] = l
    BY AppendProperties
  <2>2. QED
    BY <2>1
<1>2. PICK k \in Nat : k = Len(lines) - n
  OBVIOUS
<1>3. PICK old \in Seq(Seq(Chars)) :
        /\ old = Waiting(lines, n) /\ Len(old) = k
        /\ \A i \in 1 .. k : old[i] = Append(lines[n + i], Newline)
  <2>1. /\ Waiting(lines, n) \in Seq(Seq(Chars)) /\ Len(Waiting(lines, n)) = Len(lines) - n
        /\ \A i \in 1 .. Len(lines) - n : Waiting(lines, n)[i] = Append(lines[n + i], Newline)
    BY WaitingType
  <2>2. QED
    BY <1>2, <2>1
<1>4. PICK x \in Seq(Chars) : x = Append(l, Newline)
  BY LinesHaveLetters
<1>5. PICK long \in Seq(Seq(Chars)) :
        /\ long = Append(old, x) /\ Len(long) = k + 1 /\ long[k + 1] = x
        /\ \A i \in 1 .. k : long[i] = old[i]
  <2>1. /\ Append(old, x) \in Seq(Seq(Chars)) /\ Len(Append(old, x)) = Len(old) + 1
        /\ \A i \in 1 .. Len(old) : Append(old, x)[i] = old[i]
        /\ Append(old, x)[Len(old) + 1] = x
    BY AppendProperties
  <2>2. QED
    BY <1>3, <2>1
<1>6. PICK new \in Seq(Seq(Chars)) :
        /\ new = Waiting(more, n) /\ Len(new) = k + 1
        /\ \A i \in 1 .. k + 1 : new[i] = Append(more[n + i], Newline)
  <2>1. n \in 0 .. Len(more) /\ Len(more) - n = k + 1
    BY <1>1, <1>2
  <2>2. /\ Waiting(more, n) \in Seq(Seq(Chars)) /\ Len(Waiting(more, n)) = Len(more) - n
        /\ \A i \in 1 .. Len(more) - n : Waiting(more, n)[i] = Append(more[n + i], Newline)
    BY <2>1, WaitingType
  <2>3. QED
    BY <2>1, <2>2
<1>7. \A i \in 1 .. k + 1 : new[i] = long[i]
  <2>1. ASSUME NEW i \in 1 .. k + 1 PROVE new[i] = long[i]
    <3>1. CASE i = k + 1
      <4>1. n + i = Len(lines) + 1
        BY <1>2, <3>1
      <4>2. QED
        BY <1>1, <1>4, <1>5, <1>6, <3>1, <4>1
    <3>2. CASE i \in 1 .. k
      <4>1. n + i \in 1 .. Len(lines) /\ i \in 1 .. k + 1
        BY <1>2, <3>2
      <4>2. more[n + i] = lines[n + i]
        BY <1>1, <4>1
      <4>3. long[i] = Append(lines[n + i], Newline)
        BY <1>3, <1>5, <3>2
      <4>4. new[i] = Append(more[n + i], Newline)
        BY <1>6, <4>1
      <4>5. QED
        BY <4>2, <4>3, <4>4
    <3>3. QED
      BY <3>1, <3>2
  <2>2. QED
    BY <2>1
<1>8. new = long
  <2>1. \A u, v \in Seq(Seq(Chars)) : Len(u) = Len(v) /\ (\A i \in 1 .. Len(u) : u[i] = v[i]) => u = v
    BY SeqEqual
  <2>2. Len(new) = Len(long) /\ \A i \in 1 .. Len(new) : new[i] = long[i]
    BY <1>5, <1>6, <1>7
  <2>3. new \in Seq(Seq(Chars)) /\ long \in Seq(Seq(Chars))
    OBVIOUS
  <2>4. QED
    BY ONLY <2>1, <2>2, <2>3, Zenon
<1>9. QED
  BY <1>1, <1>3, <1>4, <1>5, <1>6, <1>8

LEMMA WaitingLess ==
  ASSUME NEW lines \in Seq(Lines), NEW n \in 0 .. Len(lines), n < Len(lines)
  PROVE  /\ Waiting(lines, n) # << >>
         /\ Head(Waiting(lines, n)) = Append(lines[n + 1], Newline)
         /\ Tail(Waiting(lines, n)) = Waiting(lines, n + 1)
<1>1. PICK k \in Nat : k = Len(lines) - n /\ k >= 1
  OBVIOUS
<1>2. PICK old \in Seq(Seq(Chars)) :
        /\ old = Waiting(lines, n) /\ Len(old) = k
        /\ \A i \in 1 .. k : old[i] = Append(lines[n + i], Newline)
  <2>1. /\ Waiting(lines, n) \in Seq(Seq(Chars)) /\ Len(Waiting(lines, n)) = Len(lines) - n
        /\ \A i \in 1 .. Len(lines) - n : Waiting(lines, n)[i] = Append(lines[n + i], Newline)
    BY WaitingType
  <2>2. QED
    BY <1>1, <2>1
<1>3. old # << >> /\ Head(old) = Append(lines[n + 1], Newline)
  <2>1. old # << >> /\ Head(old) = old[1] /\ 1 \in 1 .. k
    BY <1>1, <1>2
  <2>2. QED
    BY <1>2, <2>1
<1>4. PICK short \in Seq(Seq(Chars)) :
        short = Tail(old) /\ Len(short) = k - 1 /\ \A i \in 1 .. k - 1 : short[i] = old[i + 1]
  <2>1. /\ Tail(old) \in Seq(Seq(Chars)) /\ Len(Tail(old)) = k - 1
        /\ \A i \in 1 .. k - 1 : Tail(old)[i] = old[i + 1]
    BY <1>1, <1>2, <1>3
  <2>2. QED
    BY <2>1
<1>5. PICK new \in Seq(Seq(Chars)) :
        /\ new = Waiting(lines, n + 1) /\ Len(new) = k - 1
        /\ \A i \in 1 .. k - 1 : new[i] = Append(lines[n + 1 + i], Newline)
  <2>1. n + 1 \in 0 .. Len(lines) /\ Len(lines) - (n + 1) = k - 1
    BY <1>1
  <2>2. /\ Waiting(lines, n + 1) \in Seq(Seq(Chars))
        /\ Len(Waiting(lines, n + 1)) = Len(lines) - (n + 1)
        /\ \A i \in 1 .. Len(lines) - (n + 1) :
             Waiting(lines, n + 1)[i] = Append(lines[n + 1 + i], Newline)
    BY <2>1, WaitingType
  <2>3. QED
    BY <2>1, <2>2
<1>6. \A i \in 1 .. k - 1 : new[i] = short[i]
  <2>1. ASSUME NEW i \in 1 .. k - 1 PROVE new[i] = short[i]
    <3>1. i + 1 \in 1 .. k /\ n + (i + 1) = n + 1 + i
      BY <1>1
    <3>2. old[i + 1] = Append(lines[n + 1 + i], Newline)
      BY <1>2, <3>1
    <3>3. QED
      BY <1>4, <1>5, <3>2
  <2>2. QED
    BY <2>1
<1>7. new = short
  BY <1>4, <1>5, <1>6, SeqEqual
<1>8. QED
  BY <1>2, <1>3, <1>4, <1>5, <1>7

LEMMA CharsAssociate ==
  \A x, y, z \in Seq(Chars) : Associate(x, y, z)
BY PartsAssociate

LEMMA CharsJoin ==
  \A x, y \in Seq(Chars) : x \o y \in Seq(Chars) /\ Len(x \o y) = Len(x) + Len(y)
BY ConcatProperties

\* What was read of a line and what follows in the session and on its way are the lines
\* after the first n; the command buffer holds what was read, if that fits.
Holds(in, way, command, lines, n) ==
  \E read \in Seq(Letters) :
    /\ read \o (in \o way) = FlattenSeq(Waiting(lines, n))
    /\ Len(read) <= CommandMax => command = read

LEMMA LettersAreChars ==
  /\ Newline \notin Letters /\ Newline \in Chars
  /\ \A x \in Seq(Letters) : x \in Seq(Chars)
  /\ \A x, y \in Seq(Letters) : x \o y \in Seq(Letters)
<1>1. Letters \subseteq Chars
  BY DEF Chars
<1>2. \A x \in Seq(Letters) : x \in Seq(Chars)
  BY <1>1
<1>3. \A x, y \in Seq(Letters) : x \o y \in Seq(Letters)
  BY ToSetJoin
<1>4. Newline \notin Letters /\ Newline \in Chars
  BY DEF Letters, Chars
<1>5. QED
  BY <1>2, <1>3, <1>4

LEMMA HoldsReceived ==
  ASSUME NEW in \in Seq(Chars), NEW way \in Seq(Chars), NEW command, NEW lines, NEW n,
         Holds(in, way, command, lines, n), NEW k \in 0 .. Len(way)
  PROVE  Holds(in \o SubSeq(way, 1, k), SubSeq(way, k + 1, Len(way)), command, lines, n)
<1>1. PICK a \in Seq(Chars) : a = SubSeq(way, 1, k)
  BY CutJoins
<1>2. PICK b \in Seq(Chars) : b = SubSeq(way, k + 1, Len(way))
  BY CutJoins
<1>3. way = a \o b
  <2>1. way = SubSeq(way, 1, k) \o SubSeq(way, k + 1, Len(way))
    BY CutJoins
  <2>2. QED
    BY ONLY <1>1, <1>2, <2>1
<1>4. (in \o a) \o b = in \o (a \o b)
  <2>1. Associate(in, a, b)
    BY ONLY in \in Seq(Chars), a \in Seq(Chars), b \in Seq(Chars), CharsAssociate
  <2>2. QED
    BY ONLY <2>1 DEF Associate
<1>5. (in \o a) \o b = in \o way
  BY ONLY <1>3, <1>4
<1>6. Holds(in \o a, b, command, lines, n)
  BY <1>5 DEF Holds
<1>7. QED
  BY ONLY <1>1, <1>2, <1>6

LEMMA HoldsTyped ==
  ASSUME NEW in \in Seq(Chars), NEW way \in Seq(Chars), NEW command,
         NEW lines \in Seq(Lines), NEW n \in 0 .. Len(lines), NEW l \in Lines,
         Holds(in, way, command, lines, n)
  PROVE  Holds(in, way \o Append(l, Newline), command, Append(lines, l), n)
<1>1. PICK x : x = Append(l, Newline) /\ x \in Seq(Chars)
  BY LinesHaveLetters
<1>2. x \in Seq(Chars)
  BY <1>1
<1>3. (in \o way) \o x = in \o (way \o x)
  <2>1. Associate(in, way, x)
    BY ONLY <1>2, in \in Seq(Chars), way \in Seq(Chars), CharsAssociate
  <2>2. QED
    BY ONLY <2>1 DEF Associate
<1>4. PICK read : /\ read \in Seq(Letters) /\ read \in Seq(Chars)
                  /\ read \o (in \o way) = FlattenSeq(Waiting(lines, n))
                  /\ Len(read) <= CommandMax => command = read
  BY LettersAreChars DEF Holds
<1>5. PICK m : m = in \o way /\ m \in Seq(Chars)
  BY CharsJoin
<1>6. read \in Seq(Chars) /\ m \in Seq(Chars)
  BY <1>4, <1>5
<1>7. (read \o m) \o x = read \o (m \o x)
  <2>1. Associate(read, m, x)
    BY ONLY <1>2, <1>6, CharsAssociate
  <2>2. QED
    BY ONLY <2>1 DEF Associate
<1>8. PICK seqs \in Seq(Seq(Chars)) : seqs = Waiting(lines, n)
  BY WaitingType
<1>9. FlattenSeq(Append(seqs, x)) = FlattenSeq(seqs) \o x
  BY <1>2, FlattenAppend
<1>10. Waiting(Append(lines, l), n) = Append(seqs, x)
  BY <1>1, <1>8, WaitingMore
<1>11. read \o (in \o (way \o x)) = FlattenSeq(Waiting(Append(lines, l), n))
  BY ONLY <1>3, <1>4, <1>5, <1>7, <1>8, <1>9, <1>10
<1>12. Holds(in, way \o x, command, Append(lines, l), n)
  BY <1>4, <1>11 DEF Holds
<1>13. QED
  BY ONLY <1>1, <1>12

Collecting(command, bytes) ==
  IF Len(command) + Len(bytes) <= CommandMax THEN command \o bytes ELSE command

\* What fits of a line has all been collected.
LEMMA CollectsAll ==
  ASSUME NEW read \in Seq(Letters), NEW bytes \in Seq(Letters), NEW command,
         Len(read) <= CommandMax => command = read, Len(read \o bytes) <= CommandMax
  PROVE  Collecting(command, bytes) = read \o bytes
<1>1. Len(read \o bytes) = Len(read) + Len(bytes) /\ Len(read) \in Nat /\ Len(bytes) \in Nat
  OBVIOUS
<1>2. CommandMax \in Nat
  BY TelnetAssumption
<1>3. command = read
  BY <1>1, <1>2
<1>4. QED
  BY <1>1, <1>3 DEF Collecting

LEMMA HoldsCollected ==
  ASSUME NEW in \in Seq(Letters), NEW way \in Seq(Chars), NEW command, NEW lines, NEW n,
         Holds(in, way, command, lines, n)
  PROVE  Holds(<< >>, way, Collecting(command, in), lines, n)
<1>1. PICK read \in Seq(Letters) :
        /\ read \o (in \o way) = FlattenSeq(Waiting(lines, n))
        /\ Len(read) <= CommandMax => command = read
  BY DEF Holds
<1>2. PICK x \in Seq(Chars) : x = read
  BY LettersAreChars
<1>3. PICK y \in Seq(Chars) : y = in
  BY LettersAreChars
<1>4. (x \o y) \o way = x \o (y \o way)
  <2>1. Associate(x, y, way)
    BY ONLY x \in Seq(Chars), y \in Seq(Chars), way \in Seq(Chars), CharsAssociate
  <2>2. QED
    BY ONLY <2>1 DEF Associate
<1>5. PICK all \in Seq(Letters) : all = read \o in
  BY LettersAreChars
<1>6. << >> \o way = way
  OBVIOUS
<1>7. all \o (<< >> \o way) = FlattenSeq(Waiting(lines, n))
  BY ONLY <1>1, <1>2, <1>3, <1>4, <1>5, <1>6
<1>8. Len(all) <= CommandMax => Collecting(command, in) = all
  BY <1>1, <1>5, CollectsAll
<1>9. QED
  BY <1>7, <1>8 DEF Holds

\* The bytes up to the first end of line complete the next line.
LEMMA HoldsExecuted ==
  ASSUME NEW bytes \in Seq(Letters), NEW rest \in Seq(Chars), NEW way \in Seq(Chars),
         NEW command, NEW lines \in Seq(Lines), NEW n \in 0 .. Len(lines),
         Holds(Append(bytes, Newline) \o rest, way, command, lines, n)
  PROVE  /\ n < Len(lines)
         /\ Holds(rest, way, << >>, lines, n + 1)
         /\ Len(lines[n + 1]) <= CommandMax => Collecting(command, bytes) = lines[n + 1]
<1>1. PICK read \in Seq(Letters) :
        /\ read \o ((Append(bytes, Newline) \o rest) \o way) = FlattenSeq(Waiting(lines, n))
        /\ Len(read) <= CommandMax => command = read
  BY DEF Holds
<1>2. PICK e : e = <<Newline>> /\ e \in Seq(Chars)
  <2>1. <<Newline>> \in Seq(Chars)
    BY LettersAreChars
  <2>2. QED
    BY <2>1
<1>3. PICK be : be = bytes \o e /\ be \in Seq(Chars)
  BY <1>2, LettersAreChars, CharsJoin
<1>4. be = Append(bytes, Newline)
  BY <1>2, <1>3, LettersAreChars, AppendIsConcat
<1>5. PICK m : m = rest \o way /\ m \in Seq(Chars)
  BY CharsJoin
<1>6. PICK all : all = read \o bytes /\ all \in Seq(Letters)
  BY LettersAreChars
<1>7. /\ read \in Seq(Chars) /\ bytes \in Seq(Chars) /\ e \in Seq(Chars) /\ be \in Seq(Chars)
      /\ m \in Seq(Chars)
  BY <1>2, <1>3, <1>5, LettersAreChars
<1>9. (read \o bytes) \o e = read \o (bytes \o e)
  <2>1. read \in Seq(Chars) /\ bytes \in Seq(Chars) /\ e \in Seq(Chars)
    BY <1>7
  <2>2. Associate(read, bytes, e)
    BY ONLY <2>1, CharsAssociate
  <2>3. QED
    BY ONLY <2>2 DEF Associate
<1>10. (be \o rest) \o way = be \o (rest \o way)
  <2>1. be \in Seq(Chars) /\ rest \in Seq(Chars) /\ way \in Seq(Chars)
    BY <1>7
  <2>2. Associate(be, rest, way)
    BY ONLY <2>1, CharsAssociate
  <2>3. QED
    BY ONLY <2>2 DEF Associate
<1>11. (read \o be) \o m = read \o (be \o m)
  <2>1. read \in Seq(Chars) /\ be \in Seq(Chars) /\ m \in Seq(Chars)
    BY <1>7
  <2>2. Associate(read, be, m)
    BY ONLY <2>1, CharsAssociate
  <2>3. QED
    BY ONLY <2>2 DEF Associate
<1>12. all \o e = Append(all, Newline)
  BY <1>2, <1>6, LettersAreChars, AppendIsConcat
<1>13. Append(all, Newline) \o m = FlattenSeq(Waiting(lines, n))
  BY ONLY <1>1, <1>3, <1>4, <1>5, <1>6, <1>9, <1>10, <1>11, <1>12
<1>14. n < Len(lines)
  <2>1. ASSUME ~ (n < Len(lines)) PROVE FALSE
    <3>1. n = Len(lines) /\ 1 .. Len(lines) - n = {}
      BY <2>1
    <3>2. Waiting(lines, n) = << >>
      BY <3>1 DEF Waiting
    <3>3. FlattenSeq(Waiting(lines, n)) = << >>
      BY <3>2, FlattenNone
    <3>4. Append(all, Newline) \o m # << >>
      <4>1. all \in Seq(Chars) /\ e \in Seq(Chars) /\ m \in Seq(Chars) /\ Len(e) = 1
        BY <1>2, <1>6, <1>7, LettersAreChars
      <4>2. PICK ae : ae = all \o e /\ ae \in Seq(Chars) /\ Len(ae) = Len(all) + Len(e)
        BY ONLY <4>1, CharsJoin
      <4>3. Len(ae \o m) = Len(ae) + Len(m)
        BY ONLY <4>1, <4>2, CharsJoin
      <4>4. Len(all) \in Nat /\ Len(m) \in Nat
        BY <4>1
      <4>5. Len(ae \o m) # 0
        BY <4>1, <4>2, <4>3, <4>4
      <4>6. ae \o m # << >>
        BY <4>5
      <4>7. QED
        BY <1>12, <4>2, <4>6
    <3>5. QED
      BY <1>13, <3>3, <3>4
  <2>2. QED
    BY <2>1
<1>15. PICK seqs \in Seq(Seq(Chars)) : seqs = Waiting(lines, n)
  BY WaitingType
<1>16. /\ seqs # << >> /\ Head(seqs) = Append(lines[n + 1], Newline)
       /\ Tail(seqs) = Waiting(lines, n + 1)
  BY <1>14, <1>15, WaitingLess
<1>17. FlattenSeq(seqs) = Head(seqs) \o FlattenSeq(Tail(seqs))
  BY <1>16, FlattenTail
<1>18. PICK l : l = lines[n + 1] /\ l \in Seq(Letters)
  <2>1. lines[n + 1] \in Lines
    BY <1>14
  <2>2. QED
    BY <2>1, LinesHaveLetters
<1>19. PICK d : d = FlattenSeq(Waiting(lines, n + 1)) /\ d \in Seq(Chars)
  <2>1. Waiting(lines, n + 1) \in Seq(Seq(Chars))
    BY <1>14, WaitingType
  <2>2. QED
    BY <2>1, <1>7, FlattenAppend
<1>20. Append(all, Newline) \o m = Append(l, Newline) \o d
  BY ONLY <1>13, <1>15, <1>16, <1>17, <1>18, <1>19
<1>21. all = l /\ m = d
  <2>1. all \in Seq(Letters) /\ l \in Seq(Letters) /\ m \in Seq(Chars) /\ d \in Seq(Chars)
    BY <1>6, <1>7, <1>18, <1>19
  <2>2. Marked(all, Newline, m) = Marked(l, Newline, d)
    BY ONLY <1>20 DEF Marked
  <2>3. all \in Seq(Chars) /\ l \in Seq(Chars)
    BY <2>1, LettersAreChars
  <2>4. Newline \notin Letters /\ Newline \in Chars
    BY LettersAreChars
  <2>5. QED
    BY ONLY <2>1, <2>2, <2>3, <2>4, FirstMark
<1>22. << >> \o (rest \o way) = FlattenSeq(Waiting(lines, n + 1))
  BY <1>5, <1>19, <1>21
<1>23. Holds(rest, way, << >>, lines, n + 1)
  <2>1. << >> \in Seq(Letters)
    OBVIOUS
  <2>2. Len(<< >>) <= CommandMax => << >> = << >>
    OBVIOUS
  <2>3. QED
    BY <1>22, <2>1, <2>2 DEF Holds
<1>24. Len(l) <= CommandMax => Collecting(command, bytes) = l
  BY <1>1, <1>6, <1>21, CollectsAll
<1>25. QED
  BY <1>14, <1>18, <1>23, <1>24

-----------------------------------------------------------------------------
(* The telnet sessions: the invariant *)

AsTyped(done, lines) ==
  /\ Len(done) <= Len(lines)
  /\ \A i \in DOMAIN done : Len(lines[i]) <= CommandMax => done[i] = lines[i]

\* A live session holds the lines it has not executed, a closed one nothing.
Served(live, in, way, command, lines, done) ==
  /\ AsTyped(done, lines)
  /\ IF live THEN Holds(in, way, command, lines, Len(done)) ELSE in = << >>

IsServed(s) ==
  Served(s \in connecting \cup isOpen, inBuffer[s], onTheWay[s], buffer[s], typed[s], executed[s])

BuffersOK ==
  /\ inBuffer \in [Sessions -> Seq(Chars)] /\ onTheWay \in [Sessions -> Seq(Chars)]
  /\ buffer \in [Sessions -> Seq(Chars)]
  /\ typed \in [Sessions -> Seq(Lines)]
  /\ executed \in [Sessions -> Seq(Seq(Chars))]

\* A session that is deleted was closed before, and none comes back.
ListsOK ==
  /\ isOpen \subseteq channels /\ should_delete \subseteq channels
  /\ isOpen \cap should_delete = {} /\ connecting \cap channels = {}
  /\ reads \cup writes \cup reading \subseteq channels
  /\ ~polling => reading = {}

TelnetInv == BuffersOK /\ ListsOK /\ \A s \in Sessions : IsServed(s)

LEMMA TelnetStarts ==
  ASSUME TelnetInit
  PROVE  TelnetInv
<1>1. BuffersOK
  BY DEF TelnetInit, BuffersOK
<1>2. ListsOK
  BY DEF TelnetInit, ListsOK
<1>3. ASSUME NEW s \in Sessions PROVE IsServed(s)
  <2>1. /\ inBuffer[s] = << >> /\ onTheWay[s] = << >> /\ buffer[s] = << >>
        /\ typed[s] = << >> /\ executed[s] = << >> /\ s \in connecting
    BY DEF TelnetInit
  <2>2. AsTyped(<< >>, << >>)
    BY DEF AsTyped
  <2>3. << >> \in Seq(Letters) /\ << >> \o (<< >> \o << >>) = << >>
    OBVIOUS
  <2>4. Waiting(<< >>, 0) = << >>
    BY DEF Waiting
  <2>5. FlattenSeq(Waiting(<< >>, 0)) = << >>
    BY <2>4, FlattenNone
  <2>6. Holds(<< >>, << >>, << >>, << >>, 0)
    BY <2>3, <2>5 DEF Holds
  <2>7. QED
    BY <2>1, <2>2, <2>6 DEF IsServed, Served
<1>4. QED
  BY <1>1, <1>2, <1>3 DEF TelnetInv

\* A step of one session leaves the others as they are.
LEMMA OneSession ==
  ASSUME TelnetInv, NEW s \in Sessions,
         \A r \in Sessions \ {s} :
           /\ inBuffer'[r] = inBuffer[r] /\ onTheWay'[r] = onTheWay[r] /\ buffer'[r] = buffer[r]
           /\ typed'[r] = typed[r] /\ executed'[r] = executed[r]
           /\ r \in connecting' \cup isOpen' <=> r \in connecting \cup isOpen,
         BuffersOK', ListsOK', IsServed(s)'
  PROVE  TelnetInv'
<1>1. ASSUME NEW r \in Sessions, r # s PROVE IsServed(r)'
  <2>1. IsServed(r)
    BY DEF TelnetInv
  <2>2. (r \in connecting' \cup isOpen') <=> (r \in connecting \cup isOpen)
    BY <1>1
  <2>3. /\ inBuffer'[r] = inBuffer[r] /\ onTheWay'[r] = onTheWay[r] /\ buffer'[r] = buffer[r]
        /\ typed'[r] = typed[r] /\ executed'[r] = executed[r]
    BY <1>1
  <2>4. QED
    BY <2>1, <2>2, <2>3 DEF IsServed, Served
<1>2. QED
  BY <1>1 DEF TelnetInv

LEMMA OthersRest ==
  ASSUME NEW s \in Sessions, NEW f, f \in [Sessions -> Seq(Chars)], NEW x, NEW g,
         g = [f EXCEPT ![s] = x]
  PROVE  /\ g[s] = x
         /\ \A r \in Sessions \ {s} : g[r] = f[r]
         /\ x \in Seq(Chars) => g \in [Sessions -> Seq(Chars)]
OBVIOUS

LEMMA CollectingType ==
  ASSUME NEW command \in Seq(Chars), NEW bytes \in Seq(Chars)
  PROVE  Collecting(command, bytes) \in Seq(Chars)
BY CharsJoin DEF Collecting

-----------------------------------------------------------------------------
(* The clients and poll() *)

LEMMA TelnetType ==
  ASSUME TelnetInv, NEW s \in Sessions, NEW l \in Lines, Type(s, l)
  PROVE  TelnetInv'
<1>1. /\ typed' = [typed EXCEPT ![s] = Append(@, l)]
      /\ onTheWay' = [onTheWay EXCEPT ![s] = @ \o Append(l, Newline)]
  BY DEF Type
<1>2. UNCHANGED <<inBuffer, buffer, executed, connecting, isOpen>>
  BY DEF Type, bufferVars, listVars
<1>3. UNCHANGED <<channels, should_delete, reads, writes, polling, reading>>
  BY DEF Type, listVars, pollVars
<1>4. ListsOK'
  BY <1>2, <1>3 DEF TelnetInv, ListsOK
<1>5. /\ typed \in [Sessions -> Seq(Lines)] /\ onTheWay \in [Sessions -> Seq(Chars)]
      /\ inBuffer[s] \in Seq(Chars) /\ executed[s] \in Seq(Seq(Chars))
  BY DEF TelnetInv, BuffersOK
<1>6. PICK x : x = onTheWay[s] \o Append(l, Newline) /\ x \in Seq(Chars)
  BY <1>5, LinesHaveLetters, CharsJoin
<1>7. PICK lines : lines = typed[s] /\ lines \in Seq(Lines)
  BY <1>5
<1>8. PICK more : /\ more = Append(lines, l) /\ more \in Seq(Lines) /\ Len(more) = Len(lines) + 1
                  /\ \A i \in 1 .. Len(lines) : more[i] = lines[i]
  <2>1. /\ Append(lines, l) \in Seq(Lines) /\ Len(Append(lines, l)) = Len(lines) + 1
        /\ \A i \in 1 .. Len(lines) : Append(lines, l)[i] = lines[i]
    BY <1>7, AppendProperties
  <2>2. QED
    BY <2>1
<1>9. /\ typed'[s] = more /\ typed' \in [Sessions -> Seq(Lines)]
      /\ \A r \in Sessions \ {s} : typed'[r] = typed[r]
  BY <1>1, <1>5, <1>7, <1>8
<1>10. /\ onTheWay'[s] = x /\ onTheWay' \in [Sessions -> Seq(Chars)]
       /\ \A r \in Sessions \ {s} : onTheWay'[r] = onTheWay[r]
  BY <1>1, <1>5, <1>6
<1>11. BuffersOK'
  BY <1>2, <1>9, <1>10 DEF TelnetInv, BuffersOK
<1>12. PICK done : done = executed[s] /\ done \in Seq(Seq(Chars))
  BY <1>5
<1>13. AsTyped(done, lines) /\ Len(done) \in 0 .. Len(lines)
  BY <1>7, <1>12 DEF TelnetInv, IsServed, Served, AsTyped
<1>14. AsTyped(done, more)
  <2>1. DOMAIN done = 1 .. Len(done)
    BY <1>12
  <2>2. \A i \in DOMAIN done : more[i] = lines[i]
    BY <1>8, <1>13, <2>1
  <2>3. Len(done) <= Len(more)
    BY <1>7, <1>8, <1>13
  <2>4. QED
    BY <1>13, <2>2, <2>3 DEF AsTyped
<1>15. CASE s \in connecting \cup isOpen
  <2>1. Holds(inBuffer[s], onTheWay[s], buffer[s], lines, Len(done))
    BY <1>7, <1>12, <1>15 DEF TelnetInv, IsServed, Served
  <2>2. inBuffer[s] \in Seq(Chars) /\ onTheWay[s] \in Seq(Chars)
    BY <1>5
  <2>3. Holds(inBuffer[s], onTheWay[s] \o Append(l, Newline), buffer[s], Append(lines, l), Len(done))
    BY <1>7, <1>13, <2>1, <2>2, HoldsTyped
  <2>4. IsServed(s)'
    BY <1>2, <1>6, <1>8, <1>9, <1>10, <1>12, <1>14, <1>15, <2>3 DEF IsServed, Served
  <2>5. QED
    BY <1>2, <1>4, <1>9, <1>10, <1>11, <2>4, OneSession
<1>16. CASE s \notin connecting \cup isOpen
  <2>1. inBuffer[s] = << >>
    BY <1>16 DEF TelnetInv, IsServed, Served
  <2>2. IsServed(s)'
    BY <1>2, <1>9, <1>12, <1>14, <1>16, <2>1 DEF IsServed, Served
  <2>3. QED
    BY <1>2, <1>4, <1>9, <1>10, <1>11, <2>2, OneSession
<1>17. QED
  BY <1>15, <1>16

\* Nothing that is said of a session changes.
LEMMA TelnetRests ==
  ASSUME TelnetInv, ListsOK', UNCHANGED <<bufferVars, onTheWay, typed, executed>>,
         connecting' \cup isOpen' = connecting \cup isOpen
  PROVE  TelnetInv'
<1>1. UNCHANGED <<inBuffer, buffer, onTheWay, typed, executed>>
  BY DEF bufferVars
<1>2. BuffersOK'
  BY <1>1 DEF TelnetInv, BuffersOK
<1>3. ASSUME NEW r \in Sessions PROVE IsServed(r)'
  <2>1. IsServed(r)
    BY DEF TelnetInv
  <2>2. (r \in connecting' \cup isOpen') <=> (r \in connecting \cup isOpen)
    OBVIOUS
  <2>3. QED
    BY <1>1, <2>1, <2>2 DEF IsServed, Served
<1>4. QED
  BY <1>2, <1>3 DEF TelnetInv

LEMMA TelnetPolls ==
  ASSUME TelnetInv,
         \/ BeginProcess \/ EndProcess
         \/ \E s \in Sessions : HangUp(s) \/ AcceptSession(s) \/ EndRead(s) \/ CommandThrows(s)
  PROVE  TelnetInv'
<1>1. CASE BeginProcess
  <2>1. /\ channels' = channels \ should_delete /\ should_delete' = {} /\ polling' = TRUE
        /\ reads' \subseteq isOpen \ should_delete /\ writes' \subseteq isOpen \ should_delete
        /\ ~polling
    BY <1>1 DEF BeginProcess
  <2>2. UNCHANGED <<isOpen, reading, bufferVars, executed>> /\ UNCHANGED clientVars
    BY <1>1 DEF BeginProcess
  <2>3. UNCHANGED <<connecting, onTheWay, typed>>
    BY <2>2 DEF clientVars
  <2>4. ListsOK'
    BY <2>1, <2>2, <2>3 DEF TelnetInv, ListsOK
  <2>5. QED
    BY <2>2, <2>3, <2>4, TelnetRests
<1>2. CASE EndProcess
  <2>1. reads = {} /\ writes = {} /\ reading = {}
    BY <1>2 DEF EndProcess
  <2>2. /\ UNCHANGED <<reads, writes, reading, bufferVars, executed>>
        /\ UNCHANGED clientVars /\ UNCHANGED listVars
    BY <1>2 DEF EndProcess
  <2>3. UNCHANGED <<channels, isOpen, should_delete, connecting, onTheWay, typed>>
    BY <2>2 DEF clientVars, listVars
  <2>4. ListsOK'
    BY <2>1, <2>2, <2>3 DEF TelnetInv, ListsOK
  <2>5. QED
    BY <2>2, <2>3, <2>4, TelnetRests
<1>3. ASSUME NEW s \in Sessions, HangUp(s) PROVE TelnetInv'
  <2>1. /\ UNCHANGED <<connecting, onTheWay, typed, bufferVars, executed>>
        /\ UNCHANGED listVars /\ UNCHANGED pollVars
    BY <1>3 DEF HangUp
  <2>2. UNCHANGED <<channels, isOpen, should_delete, reads, writes, polling, reading>>
    BY <2>1 DEF listVars, pollVars
  <2>3. ListsOK'
    BY <2>1, <2>2 DEF TelnetInv, ListsOK
  <2>4. QED
    BY <2>1, <2>2, <2>3, TelnetRests
<1>4. ASSUME NEW s \in Sessions, AcceptSession(s) PROVE TelnetInv'
  <2>1. /\ s \in connecting /\ connecting' = connecting \ {s}
        /\ channels' = channels \cup {s} /\ isOpen' = isOpen \cup {s}
        /\ UNCHANGED <<should_delete, bufferVars, onTheWay, typed, executed>>
        /\ UNCHANGED pollVars
    BY <1>4 DEF AcceptSession
  <2>2. UNCHANGED <<reads, writes, polling, reading>>
    BY <2>1 DEF pollVars
  <2>3. ListsOK'
    BY <2>1, <2>2 DEF TelnetInv, ListsOK
  <2>4. connecting' \cup isOpen' = connecting \cup isOpen
    BY <2>1
  <2>5. QED
    BY <2>1, <2>3, <2>4, TelnetRests
<1>5. ASSUME NEW s \in Sessions, EndRead(s) PROVE TelnetInv'
  <2>1. /\ reading' = {}
        /\ UNCHANGED <<reads, writes, polling, bufferVars, executed>>
        /\ UNCHANGED clientVars /\ UNCHANGED listVars
    BY <1>5 DEF EndRead
  <2>2. UNCHANGED <<channels, isOpen, should_delete, connecting, onTheWay, typed>>
    BY <2>1 DEF clientVars, listVars
  <2>3. ListsOK'
    BY <2>1, <2>2 DEF TelnetInv, ListsOK
  <2>4. QED
    BY <2>1, <2>2, <2>3, TelnetRests
<1>6. ASSUME NEW s \in Sessions, CommandThrows(s) PROVE TelnetInv'
  <2>1. /\ UNCHANGED <<bufferVars, executed>>
        /\ UNCHANGED clientVars /\ UNCHANGED listVars /\ UNCHANGED pollVars
    BY <1>6 DEF CommandThrows
  <2>2. /\ UNCHANGED <<channels, isOpen, should_delete, connecting, onTheWay, typed>>
        /\ UNCHANGED <<reads, writes, polling, reading>>
    BY <2>1 DEF clientVars, listVars, pollVars
  <2>3. ListsOK'
    BY <2>2 DEF TelnetInv, ListsOK
  <2>4. QED
    BY <2>1, <2>2, <2>3, TelnetRests
<1>7. QED
  BY <1>1, <1>2, <1>3, <1>4, <1>5, <1>6

LEMMA TelnetReceives ==
  ASSUME TelnetInv, NEW s \in Sessions, Receive(s)
  PROVE  TelnetInv'
<1>1. PICK way : way = onTheWay[s] /\ way \in Seq(Chars)
  BY DEF TelnetInv, BuffersOK
<1>2. PICK n : /\ n \in 0 .. Len(way)
               /\ inBuffer' = [inBuffer EXCEPT ![s] = @ \o SubSeq(way, 1, n)]
               /\ onTheWay' = [onTheWay EXCEPT ![s] = SubSeq(way, n + 1, Len(way))]
  <2>1. PICK n \in 1 .. Len(onTheWay[s]) :
          /\ inBuffer' = [inBuffer EXCEPT ![s] = @ \o SubSeq(onTheWay[s], 1, n)]
          /\ onTheWay' = [onTheWay EXCEPT ![s] = SubSeq(@, n + 1, Len(@))]
    BY DEF Receive
  <2>2. s \in Sessions /\ onTheWay \in [Sessions -> Seq(Chars)]
    BY DEF TelnetInv, BuffersOK
  <2>3. onTheWay' = [onTheWay EXCEPT ![s] = SubSeq(way, n + 1, Len(way))]
    BY <1>1, <2>1, <2>2
  <2>4. Len(way) \in Nat /\ n \in 1 .. Len(way)
    BY <1>1, <2>1
  <2>5. n \in 0 .. Len(way)
    BY <2>4
  <2>6. inBuffer' = [inBuffer EXCEPT ![s] = @ \o SubSeq(way, 1, n)]
    BY ONLY <1>1, <2>1
  <2>7. QED
    BY <2>3, <2>5, <2>6
<1>3. /\ s \in isOpen /\ reads' = reads \ {s} /\ reading' = {s} /\ polling
      /\ UNCHANGED <<writes, polling, buffer, connecting, typed, executed>>
      /\ UNCHANGED listVars
  BY DEF Receive
<1>4. UNCHANGED <<channels, isOpen, should_delete>>
  BY <1>3 DEF listVars
<1>5. ListsOK'
  BY <1>3, <1>4 DEF TelnetInv, ListsOK
<1>6. PICK a : a = SubSeq(way, 1, n) /\ a \in Seq(Chars)
  BY <1>1, <1>2, CutJoins
<1>7. PICK b : b = SubSeq(way, n + 1, Len(way)) /\ b \in Seq(Chars)
  BY <1>1, <1>2, CutJoins
<1>8. inBuffer \in [Sessions -> Seq(Chars)] /\ onTheWay \in [Sessions -> Seq(Chars)]
  BY DEF TelnetInv, BuffersOK
<1>9. PICK in : in = inBuffer[s] /\ in \in Seq(Chars)
  BY <1>8
<1>10. PICK x : x = in \o a /\ x \in Seq(Chars)
  BY <1>6, <1>9, CharsJoin
<1>11. /\ inBuffer'[s] = x /\ inBuffer' \in [Sessions -> Seq(Chars)]
       /\ \A r \in Sessions \ {s} : inBuffer'[r] = inBuffer[r]
  <2>1. inBuffer' = [inBuffer EXCEPT ![s] = x]
    BY <1>2, <1>6, <1>9, <1>10
  <2>2. QED
    BY <1>8, <1>10, <2>1, OthersRest
<1>12. /\ onTheWay'[s] = b /\ onTheWay' \in [Sessions -> Seq(Chars)]
       /\ \A r \in Sessions \ {s} : onTheWay'[r] = onTheWay[r]
  <2>1. onTheWay' = [onTheWay EXCEPT ![s] = b]
    BY <1>2, <1>7
  <2>2. QED
    BY <1>7, <1>8, <2>1, OthersRest
<1>13. BuffersOK'
  BY <1>3, <1>11, <1>12 DEF TelnetInv, BuffersOK
<1>14. /\ AsTyped(executed[s], typed[s])
       /\ Holds(in, way, buffer[s], typed[s], Len(executed[s]))
  BY <1>1, <1>3, <1>9 DEF TelnetInv, IsServed, Served
<1>15. Holds(in \o SubSeq(way, 1, n), SubSeq(way, n + 1, Len(way)), buffer[s], typed[s], Len(executed[s]))
  BY <1>1, <1>2, <1>9, <1>14, HoldsReceived
<1>16. Holds(x, b, buffer[s], typed[s], Len(executed[s]))
  BY <1>6, <1>7, <1>10, <1>15
<1>17. IsServed(s)'
  BY <1>3, <1>4, <1>11, <1>12, <1>14, <1>16 DEF IsServed, Served
<1>18. QED
  BY <1>3, <1>4, <1>5, <1>11, <1>12, <1>13, <1>17, OneSession

LEMMA TelnetCloses ==
  ASSUME TelnetInv, NEW s \in Sessions, ReceiveEnd(s) \/ SendError(s)
  PROVE  TelnetInv'
<1>1. /\ s \in isOpen /\ isOpen' = isOpen \ {s}
      /\ inBuffer' = [inBuffer EXCEPT ![s] = << >>]
      /\ reads' \subseteq reads /\ writes' \subseteq writes
      /\ UNCHANGED <<channels, should_delete, polling, reading, buffer, executed>>
      /\ UNCHANGED clientVars
  BY DEF ReceiveEnd, SendError
<1>2. UNCHANGED <<connecting, onTheWay, typed>>
  BY <1>1 DEF clientVars
<1>3. ListsOK'
  BY <1>1, <1>2 DEF TelnetInv, ListsOK
<1>4. /\ inBuffer'[s] = << >> /\ inBuffer' \in [Sessions -> Seq(Chars)]
      /\ \A r \in Sessions \ {s} : inBuffer'[r] = inBuffer[r]
  <2>1. inBuffer \in [Sessions -> Seq(Chars)] /\ << >> \in Seq(Chars)
    BY DEF TelnetInv, BuffersOK
  <2>2. QED
    BY <1>1, <2>1, OthersRest
<1>5. BuffersOK'
  BY <1>1, <1>2, <1>4 DEF TelnetInv, BuffersOK
<1>6. s \notin connecting' \cup isOpen'
  BY <1>1, <1>2 DEF TelnetInv, ListsOK
<1>7. AsTyped(executed[s], typed[s])
  BY DEF TelnetInv, IsServed, Served
<1>8. IsServed(s)'
  BY <1>1, <1>2, <1>4, <1>6, <1>7 DEF IsServed, Served
<1>9. QED
  BY <1>1, <1>2, <1>3, <1>4, <1>5, <1>8, OneSession

LEMMA TelnetSends ==
  ASSUME TelnetInv, NEW s \in Sessions, SendAnswer(s)
  PROVE  TelnetInv'
<1>1. /\ writes' = writes \ {s}
      /\ UNCHANGED <<reads, polling, reading, inBuffer, buffer, executed>>
      /\ UNCHANGED clientVars /\ UNCHANGED listVars
  BY DEF SendAnswer
<1>2. UNCHANGED <<channels, isOpen, should_delete, connecting, onTheWay, typed>>
  BY <1>1 DEF clientVars, listVars
<1>3. ListsOK'
  BY <1>1, <1>2 DEF TelnetInv, ListsOK
<1>4. BuffersOK'
  BY <1>1, <1>2 DEF TelnetInv, BuffersOK
<1>5. IsServed(s)'
  <2>1. IsServed(s)
    BY DEF TelnetInv
  <2>2. QED
    BY <1>1, <1>2, <2>1 DEF IsServed, Served
<1>6. QED
  BY <1>1, <1>2, <1>3, <1>4, <1>5, OneSession

-----------------------------------------------------------------------------
(* The commands *)

\* The bytes before the first end of line, and the command they complete.
Chunk(s) == SubSeq(inBuffer[s], 1, First(s) - 1)

LEMMA TheLine ==
  ASSUME TelnetInv, NEW s \in Sessions, Terminators(s) # {}
  PROVE  /\ Chunk(s) \in Seq(Letters) /\ Rest(s) \in Seq(Chars)
         /\ inBuffer[s] = Append(Chunk(s), Newline) \o Rest(s)
         /\ Line(s) = Collecting(buffer[s], Chunk(s))
<1>1. PICK in : in = inBuffer[s] /\ in \in Seq(Chars)
  BY DEF TelnetInv, BuffersOK
<1>2. Terminators(s) \subseteq 1 .. Len(in) /\ \A i \in 1 .. Len(in) : i \in Terminators(s) <=> in[i] = Newline
  BY <1>1 DEF Terminators
<1>3. First(s) \in Terminators(s) /\ \A j \in Terminators(s) : First(s) <= j
  <2>1. Terminators(s) \subseteq Nat
    BY <1>2
  <2>2. PICK i \in Terminators(s) : \A j \in Terminators(s) : i <= j
    BY <2>1, LeastElement
  <2>3. QED
    BY <2>2 DEF First
<1>4. PICK k : k = First(s) /\ k \in 1 .. Len(in) /\ in[k] = Newline
  BY <1>2, <1>3
<1>5. \A i \in 1 .. k - 1 : in[i] \in Letters
  <2>1. ASSUME NEW i \in 1 .. k - 1 PROVE in[i] \in Letters
    <3>1. i \in 1 .. Len(in) /\ ~ (k <= i)
      BY <1>1, <1>4
    <3>2. i \notin Terminators(s)
      BY <1>3, <1>4, <3>1
    <3>3. in[i] # Newline /\ in[i] \in Chars
      BY <1>1, <1>2, <3>1, <3>2
    <3>4. QED
      BY <3>3 DEF Chars
  <2>2. QED
    BY <2>1
<1>6. /\ SubSeq(in, 1, k - 1) \in Seq(Letters) /\ SubSeq(in, k + 1, Len(in)) \in Seq(Chars)
      /\ in = Append(SubSeq(in, 1, k - 1), Newline) \o SubSeq(in, k + 1, Len(in))
  <2>1. in \in Seq(Chars) /\ k \in 1 .. Len(in)
    BY <1>1, <1>4
  <2>2. /\ SubSeq(in, 1, k - 1) \in Seq(Chars) /\ SubSeq(in, k + 1, Len(in)) \in Seq(Chars)
        /\ in = Append(SubSeq(in, 1, k - 1), in[k]) \o SubSeq(in, k + 1, Len(in))
    BY ONLY <2>1, MarkCuts
  <2>3. SubSeq(in, 1, k - 1) \in Seq(Letters)
    BY <1>1, <1>4, <1>5
  <2>4. QED
    BY <1>4, <2>2, <2>3
<1>7. Line(s) = Collecting(buffer[s], Chunk(s))
  BY DEF Line, Collected, Collecting, Chunk
<1>8. QED
  BY <1>1, <1>4, <1>6, <1>7 DEF Chunk, Rest

\* A command is the next line that was typed.
LEMMA NextLine ==
  ASSUME TelnetInv, NEW s \in Sessions, Terminators(s) # {}
  PROVE  /\ s \in connecting \cup isOpen
         /\ Line(s) \in Seq(Chars) /\ Rest(s) \in Seq(Chars)
         /\ Append(executed[s], Line(s)) \in Seq(Seq(Chars))
         /\ AsTyped(Append(executed[s], Line(s)), typed[s])
         /\ Len(Append(executed[s], Line(s))) = Len(executed[s]) + 1
         /\ Holds(Rest(s), onTheWay[s], << >>, typed[s], Len(executed[s]) + 1)
<1>1. PICK done : done = executed[s] /\ done \in Seq(Seq(Chars))
  BY DEF TelnetInv, BuffersOK
<1>2. PICK lines : lines = typed[s] /\ lines \in Seq(Lines)
  BY DEF TelnetInv, BuffersOK
<1>3. PICK way : way = onTheWay[s] /\ way \in Seq(Chars)
  BY DEF TelnetInv, BuffersOK
<1>4. PICK bytes : bytes = Chunk(s) /\ bytes \in Seq(Letters)
  BY TheLine
<1>5. PICK rest : rest = Rest(s) /\ rest \in Seq(Chars)
  BY TheLine
<1>6. /\ inBuffer[s] = Append(bytes, Newline) \o rest
      /\ Line(s) = Collecting(buffer[s], bytes)
  BY <1>4, <1>5, TheLine
<1>7. s \in connecting \cup isOpen
  <2>1. inBuffer[s] # << >>
    BY DEF Terminators
  <2>2. QED
    BY <2>1 DEF TelnetInv, IsServed, Served
<1>8. AsTyped(done, lines) /\ Holds(Append(bytes, Newline) \o rest, way, buffer[s], lines, Len(done))
  BY <1>1, <1>2, <1>3, <1>6, <1>7 DEF TelnetInv, IsServed, Served
<1>9. Len(done) \in 0 .. Len(lines)
  BY <1>1, <1>2, <1>8 DEF AsTyped
<1>10. /\ Len(done) < Len(lines)
       /\ Holds(rest, way, << >>, lines, Len(done) + 1)
       /\ Len(lines[Len(done) + 1]) <= CommandMax => Collecting(buffer[s], bytes) = lines[Len(done) + 1]
  <2>1. /\ lines \in Seq(Lines) /\ way \in Seq(Chars) /\ bytes \in Seq(Letters)
        /\ rest \in Seq(Chars) /\ Len(done) \in 0 .. Len(lines)
    BY <1>2, <1>3, <1>4, <1>5, <1>9
  <2>2. Holds(Append(bytes, Newline) \o rest, way, buffer[s], lines, Len(done))
    BY <1>8
  <2>3. QED
    BY ONLY <2>1, <2>2, HoldsExecuted
<1>11. PICK line : line = Line(s) /\ line \in Seq(Chars)
  <2>1. buffer[s] \in Seq(Chars) /\ bytes \in Seq(Chars)
    BY <1>4, LettersAreChars DEF TelnetInv, BuffersOK
  <2>2. QED
    BY <1>6, <2>1, CollectingType
<1>12. /\ Append(done, line) \in Seq(Seq(Chars)) /\ Len(Append(done, line)) = Len(done) + 1
       /\ \A i \in 1 .. Len(done) : Append(done, line)[i] = done[i]
       /\ Append(done, line)[Len(done) + 1] = line
  BY <1>1, <1>11, AppendProperties
<1>13. PICK more : /\ more = Append(done, line) /\ more \in Seq(Seq(Chars)) /\ Len(more) = Len(done) + 1
                   /\ \A i \in 1 .. Len(done) : more[i] = done[i]
                   /\ more[Len(done) + 1] = line
  BY <1>12
<1>14. AsTyped(more, lines)
  <2>1. DOMAIN more = 1 .. Len(done) + 1 /\ DOMAIN done = 1 .. Len(done) /\ Len(done) \in Nat
    BY <1>1, <1>13
  <2>2. ASSUME NEW i \in DOMAIN more, Len(lines[i]) <= CommandMax PROVE more[i] = lines[i]
    <3>1. CASE i = Len(done) + 1
      BY <1>6, <1>10, <1>11, <1>13, <2>2, <3>1
    <3>2. CASE i # Len(done) + 1
      <4>1. i \in 1 .. Len(done)
        BY <2>1, <3>2
      <4>2. QED
        BY <1>8, <1>13, <2>1, <2>2, <4>1 DEF AsTyped
    <3>3. QED
      BY <3>1, <3>2
  <2>3. Len(more) <= Len(lines)
    BY <1>2, <1>10, <1>13, <2>1
  <2>4. QED
    BY <2>2, <2>3 DEF AsTyped
<1>15. QED
  BY <1>1, <1>2, <1>3, <1>5, <1>7, <1>10, <1>11, <1>13, <1>14

LEMMA TelnetCommands ==
  ASSUME TelnetInv, NEW s \in Sessions, Command(s)
  PROVE  TelnetInv'
<1>1. /\ Terminators(s) # {}
      /\ executed' = [executed EXCEPT ![s] = Append(@, Line(s))]
      /\ inBuffer' = [inBuffer EXCEPT ![s] = Rest(s)]
      /\ buffer' = [buffer EXCEPT ![s] = << >>]
      /\ UNCHANGED listVars /\ UNCHANGED pollVars /\ UNCHANGED clientVars
  BY DEF Command, AtLine, Executed
<1>2. /\ UNCHANGED <<channels, isOpen, should_delete, connecting, onTheWay, typed>>
      /\ UNCHANGED <<reads, writes, polling, reading>>
  BY <1>1 DEF listVars, pollVars, clientVars
<1>3. ListsOK'
  BY <1>2 DEF TelnetInv, ListsOK
<1>4. /\ inBuffer \in [Sessions -> Seq(Chars)] /\ buffer \in [Sessions -> Seq(Chars)]
      /\ executed \in [Sessions -> Seq(Seq(Chars))]
  BY DEF TelnetInv, BuffersOK
<1>5. PICK rest : /\ rest = Rest(s) /\ rest \in Seq(Chars)
                  /\ Holds(rest, onTheWay[s], << >>, typed[s], Len(executed[s]) + 1)
  BY <1>1, NextLine
<1>6. PICK done : /\ done = Append(executed[s], Line(s)) /\ done \in Seq(Seq(Chars))
                  /\ AsTyped(done, typed[s]) /\ Len(done) = Len(executed[s]) + 1
  BY <1>1, NextLine
<1>7. /\ inBuffer'[s] = rest /\ inBuffer' \in [Sessions -> Seq(Chars)]
      /\ \A r \in Sessions \ {s} : inBuffer'[r] = inBuffer[r]
  <2>1. inBuffer' = [inBuffer EXCEPT ![s] = rest]
    BY <1>1, <1>5
  <2>2. QED
    BY <1>4, <1>5, <2>1, OthersRest
<1>8. /\ buffer'[s] = << >> /\ buffer' \in [Sessions -> Seq(Chars)]
      /\ \A r \in Sessions \ {s} : buffer'[r] = buffer[r]
  <2>1. << >> \in Seq(Chars)
    OBVIOUS
  <2>2. QED
    BY <1>1, <1>4, <2>1, OthersRest
<1>9. /\ executed'[s] = done /\ executed' \in [Sessions -> Seq(Seq(Chars))]
      /\ \A r \in Sessions \ {s} : executed'[r] = executed[r]
  <2>1. executed' = [executed EXCEPT ![s] = done]
    BY <1>1, <1>6
  <2>2. QED
    BY <1>4, <1>6, <2>1
<1>10. BuffersOK'
  BY <1>2, <1>7, <1>8, <1>9 DEF TelnetInv, BuffersOK
<1>11. s \in connecting' \cup isOpen'
  BY <1>1, <1>2, NextLine
<1>12. Holds(rest, onTheWay[s], << >>, typed[s], Len(done))
  BY <1>5, <1>6
<1>13. IsServed(s)'
  BY <1>2, <1>6, <1>7, <1>8, <1>9, <1>11, <1>12 DEF IsServed, Served
<1>14. QED
  BY <1>2, <1>3, <1>7, <1>8, <1>9, <1>10, <1>13, OneSession

LEMMA TelnetQuits ==
  ASSUME TelnetInv, NEW s \in Sessions, CommandQuit(s)
  PROVE  TelnetInv'
<1>1. /\ Terminators(s) # {} /\ s \in reading
      /\ executed' = [executed EXCEPT ![s] = Append(@, Line(s))]
      /\ isOpen' = isOpen \ {s} /\ should_delete' = should_delete \cup {s}
      /\ inBuffer' = [inBuffer EXCEPT ![s] = << >>]
      /\ buffer' = [buffer EXCEPT ![s] = Line(s)]
      /\ UNCHANGED channels /\ UNCHANGED pollVars /\ UNCHANGED clientVars
  BY DEF CommandQuit, AtLine, Executed
<1>2. UNCHANGED <<connecting, onTheWay, typed, reads, writes, polling, reading>>
  BY <1>1 DEF pollVars, clientVars
<1>3. ListsOK' /\ s \notin connecting' \cup isOpen'
  <2>1. ListsOK
    BY DEF TelnetInv
  <2>2. QED
    BY <1>1, <1>2, <2>1 DEF ListsOK
<1>4. /\ inBuffer \in [Sessions -> Seq(Chars)] /\ buffer \in [Sessions -> Seq(Chars)]
      /\ executed \in [Sessions -> Seq(Seq(Chars))]
  BY DEF TelnetInv, BuffersOK
<1>5. PICK line : line = Line(s) /\ line \in Seq(Chars)
  BY <1>1, NextLine
<1>6. PICK done : /\ done = Append(executed[s], Line(s)) /\ done \in Seq(Seq(Chars))
                  /\ AsTyped(done, typed[s])
  BY <1>1, NextLine
<1>7. /\ inBuffer'[s] = << >> /\ inBuffer' \in [Sessions -> Seq(Chars)]
      /\ \A r \in Sessions \ {s} : inBuffer'[r] = inBuffer[r]
  <2>1. << >> \in Seq(Chars)
    OBVIOUS
  <2>2. QED
    BY <1>1, <1>4, <2>1, OthersRest
<1>8. /\ buffer' \in [Sessions -> Seq(Chars)]
      /\ \A r \in Sessions \ {s} : buffer'[r] = buffer[r]
  <2>1. buffer' = [buffer EXCEPT ![s] = line]
    BY <1>1, <1>5
  <2>2. QED
    BY <1>4, <1>5, <2>1, OthersRest
<1>9. /\ executed'[s] = done /\ executed' \in [Sessions -> Seq(Seq(Chars))]
      /\ \A r \in Sessions \ {s} : executed'[r] = executed[r]
  <2>1. executed' = [executed EXCEPT ![s] = done]
    BY <1>1, <1>6
  <2>2. QED
    BY <1>4, <1>6, <2>1
<1>10. BuffersOK'
  BY <1>2, <1>7, <1>8, <1>9 DEF TelnetInv, BuffersOK
<1>11. IsServed(s)'
  BY <1>2, <1>3, <1>6, <1>7, <1>9 DEF IsServed, Served
<1>12. QED
  BY <1>1, <1>2, <1>3, <1>7, <1>8, <1>9, <1>10, <1>11, OneSession

LEMMA TelnetCollects ==
  ASSUME TelnetInv, NEW s \in Sessions, CollectRest(s)
  PROVE  TelnetInv'
<1>1. /\ inBuffer[s] # << >> /\ Terminators(s) = {}
      /\ inBuffer' = [inBuffer EXCEPT ![s] = << >>]
      /\ buffer' = [buffer EXCEPT ![s] = Collected(s, inBuffer[s])]
      /\ UNCHANGED executed
      /\ UNCHANGED listVars /\ UNCHANGED pollVars /\ UNCHANGED clientVars
  BY DEF CollectRest
<1>2. /\ UNCHANGED <<channels, isOpen, should_delete, connecting, onTheWay, typed>>
      /\ UNCHANGED <<reads, writes, polling, reading>>
  BY <1>1 DEF listVars, pollVars, clientVars
<1>3. ListsOK'
  BY <1>2 DEF TelnetInv, ListsOK
<1>4. inBuffer \in [Sessions -> Seq(Chars)] /\ buffer \in [Sessions -> Seq(Chars)]
  BY DEF TelnetInv, BuffersOK
<1>5. PICK in : in = inBuffer[s] /\ in \in Seq(Chars)
  BY <1>4
<1>6. in \in Seq(Letters)
  <2>1. \A i \in 1 .. Len(in) : in[i] # Newline /\ in[i] \in Chars
    BY <1>1, <1>5 DEF Terminators
  <2>2. \A i \in 1 .. Len(in) : in[i] \in Letters
    BY <2>1 DEF Chars
  <2>3. QED
    BY <1>5, <2>2
<1>7. PICK command : command = buffer[s] /\ command \in Seq(Chars)
  BY <1>4
<1>8. PICK more : more = Collecting(command, in) /\ more \in Seq(Chars)
  BY <1>5, <1>7, CollectingType
<1>9. /\ inBuffer'[s] = << >> /\ inBuffer' \in [Sessions -> Seq(Chars)]
      /\ \A r \in Sessions \ {s} : inBuffer'[r] = inBuffer[r]
  <2>1. << >> \in Seq(Chars)
    OBVIOUS
  <2>2. QED
    BY <1>1, <1>4, <2>1, OthersRest
<1>10. /\ buffer'[s] = more /\ buffer' \in [Sessions -> Seq(Chars)]
       /\ \A r \in Sessions \ {s} : buffer'[r] = buffer[r]
  <2>1. buffer' = [buffer EXCEPT ![s] = more]
    BY <1>1, <1>5, <1>7, <1>8 DEF Collected, Collecting
  <2>2. QED
    BY <1>4, <1>8, <2>1, OthersRest
<1>11. BuffersOK'
  BY <1>1, <1>2, <1>9, <1>10 DEF TelnetInv, BuffersOK
<1>12. AsTyped(executed[s], typed[s]) /\ s \in connecting \cup isOpen
  BY <1>1 DEF TelnetInv, IsServed, Served
<1>13. Holds(in, onTheWay[s], command, typed[s], Len(executed[s])) /\ onTheWay[s] \in Seq(Chars)
  BY <1>5, <1>7, <1>12 DEF TelnetInv, BuffersOK, IsServed, Served
<1>14. Holds(<< >>, onTheWay[s], more, typed[s], Len(executed[s]))
  BY <1>6, <1>8, <1>13, HoldsCollected
<1>15. IsServed(s)'
  BY <1>1, <1>2, <1>9, <1>10, <1>12, <1>14 DEF IsServed, Served
<1>16. QED
  BY <1>1, <1>2, <1>3, <1>9, <1>10, <1>11, <1>15, OneSession

LEMMA TelnetStep ==
  ASSUME TelnetInv, [TelnetNext]_telnet_vars
  PROVE  TelnetInv'
<1>1. CASE Process
  BY <1>1, TelnetPolls, TelnetReceives, TelnetCloses, TelnetSends, TelnetCommands, TelnetQuits,
     TelnetCollects DEF Process
<1>2. CASE \E s \in Sessions : AcceptSession(s) \/ HangUp(s) \/ \E l \in Lines : Type(s, l)
  BY <1>2, TelnetPolls, TelnetType
<1>3. CASE UNCHANGED telnet_vars
  <2>1. /\ UNCHANGED <<executed, bufferVars>>
        /\ UNCHANGED listVars /\ UNCHANGED pollVars /\ UNCHANGED clientVars
    BY <1>3 DEF telnet_vars
  <2>2. /\ UNCHANGED <<channels, isOpen, should_delete, connecting, onTheWay, typed>>
        /\ UNCHANGED <<reads, writes, polling, reading>>
    BY <2>1 DEF listVars, pollVars, clientVars
  <2>3. ListsOK'
    BY <2>2 DEF TelnetInv, ListsOK
  <2>4. QED
    BY <2>1, <2>2, <2>3, TelnetRests
<1>4. QED
  BY <1>1, <1>2, <1>3 DEF TelnetNext

\* However the network cuts and joins what clients type, commands are executed in the order
\* typed and each once, those that fit the command buffer as they were typed, and poll()
\* never touches a session that was deleted (PropsChannel in telnet.cxx): for any sessions,
\* lines and sizes of the buffers.
THEOREM Telnet_SessionsAreServed == TelnetSpec => []SessionsAreServed
<1>1. TelnetInit => TelnetInv
  BY TelnetStarts
<1>2. TelnetInv /\ [TelnetNext]_telnet_vars => TelnetInv'
  BY TelnetStep
<1>3. TelnetInv => SessionsAreServed
  <2>1. SUFFICES ASSUME TelnetInv PROVE SessionsAreServed
    OBVIOUS
  <2>2. NoStaleChannel
    BY <2>1 DEF TelnetInv, ListsOK, NoStaleChannel
  <2>3. \A s \in Sessions : AsTyped(executed[s], typed[s])
    BY <2>1 DEF TelnetInv, IsServed, Served
  <2>4. ExecutedAsTyped
    BY <2>3 DEF AsTyped, ExecutedAsTyped
  <2>5. QED
    BY <2>2, <2>4 DEF SessionsAreServed
<1>4. QED
  BY <1>1, <1>2, <1>3, PTL DEF TelnetSpec

-----------------------------------------------------------------------------
(* The serial port server *)

\* The channels that an inner poll() closes when it returns.
TurnedAway == {polls[i].then : i \in DOMAIN polls}

\* The channels are those of connections that were accepted, the count is theirs, and all
\* of them but one are on the way out.
OneInv ==
  /\ polls \in Seq(Poll)
  /\ accepted \in Nat /\ pending \in Nat /\ accepted + pending <= MaxClients
  /\ open \subseteq 1 .. accepted
  /\ connection_count = Cardinality(open)
  /\ \A c, d \in open \ TurnedAway : c = d

LEMMA OpenIsFinite ==
  ASSUME OneInv
  PROVE  /\ IsFiniteSet(open)
         /\ open \subseteq Clients
         /\ Server \notin open
         /\ Cardinality(open) \in Nat
<1>1. IsFiniteSet(1 .. accepted)
  BY FS_Interval DEF OneInv
<1>2. IsFiniteSet(open)
  BY <1>1, FS_Subset DEF OneInv
<1>3. open \subseteq Clients
  BY UartAssumption DEF OneInv, Clients
<1>4. QED
  BY <1>2, <1>3, FS_CardinalityType DEF Clients, Server

-----------------------------------------------------------------------------
(* What happens to the polls in progress *)

\* A poll that goes on, with one channel less to look at, turns away the same channels.
LEMMA PollGoesOn ==
  ASSUME polls \in Seq(Poll), polls # << >>, NEW c,
         polls' = ReadDone(c) \/ polls' = WriteDone(c)
  PROVE  /\ polls' \in Seq(Poll)
         /\ Len(polls') = Len(polls)
         /\ \A i \in DOMAIN polls : polls'[i].then = polls[i].then
         /\ TurnedAway' = TurnedAway
<1> DEFINE k == Len(polls)
<1>1. k \in DOMAIN polls /\ polls[k] \in Poll
  OBVIOUS
<1>2. CASE polls' = ReadDone(c)
  <2>1. polls' = [polls EXCEPT ![k] = [polls[k] EXCEPT !.reads = @ \ {c}]]
    BY <1>2 DEF ReadDone
  <2>2. [polls[k] EXCEPT !.reads = @ \ {c}] \in Poll
    BY <1>1 DEF Poll
  <2>3. [polls[k] EXCEPT !.reads = @ \ {c}].then = polls[k].then
    BY <1>1 DEF Poll
  <2>4. polls' \in Seq(Poll) /\ Len(polls') = k
    BY <2>1, <2>2
  <2>5. \A i \in DOMAIN polls : polls'[i].then = polls[i].then
    BY <2>1, <2>3
  <2>6. QED
    BY <2>4, <2>5 DEF TurnedAway
<1>3. CASE polls' = WriteDone(c)
  <2>1. polls' = [polls EXCEPT ![k] = [polls[k] EXCEPT !.writes = @ \ {c}]]
    BY <1>3 DEF WriteDone
  <2>2. [polls[k] EXCEPT !.writes = @ \ {c}] \in Poll
    BY <1>1 DEF Poll
  <2>3. [polls[k] EXCEPT !.writes = @ \ {c}].then = polls[k].then
    BY <1>1 DEF Poll
  <2>4. polls' \in Seq(Poll) /\ Len(polls') = k
    BY <2>1, <2>2
  <2>5. \A i \in DOMAIN polls : polls'[i].then = polls[i].then
    BY <2>1, <2>3
  <2>6. QED
    BY <2>4, <2>5 DEF TurnedAway
<1>4. QED
  BY <1>2, <1>3

\* A channel that is closed leaves the count right and the rest as it was.
LEMMA CloseCounts ==
  ASSUME OneInv, NEW c \in open, Close(c), UNCHANGED <<accepted, pending>>,
         polls' \in Seq(Poll), TurnedAway \subseteq TurnedAway' \cup {c}
  PROVE  OneInv'
<1>1. open' = open \ {c} /\ connection_count' = connection_count - 1
  BY DEF Close
<1>2. Cardinality(open \ {c}) = Cardinality(open) - 1
  BY OpenIsFinite, FS_RemoveElement
<1>3. open' \ TurnedAway' \subseteq open \ TurnedAway
  BY <1>1
<1>4. QED
  BY <1>1, <1>2, <1>3 DEF OneInv

\* A channel that is opened is a new one.
LEMMA OpenCounts ==
  ASSUME OneInv, pending > 0
  PROVE  /\ accepted + 1 \notin open
         /\ open \cup {accepted + 1} \subseteq 1 .. accepted + 1
         /\ Cardinality(open \cup {accepted + 1}) = Cardinality(open) + 1
<1>1. accepted + 1 \notin open
  BY DEF OneInv
<1>2. open \cup {accepted + 1} \subseteq 1 .. accepted + 1
  BY DEF OneInv
<1>3. QED
  BY <1>1, <1>2, OpenIsFinite, FS_AddElement

\* Nothing that the invariant speaks of changes.
LEMMA OneRests ==
  ASSUME OneInv, UNCHANGED <<open, connection_count, accepted, pending>>,
         polls' \in Seq(Poll), TurnedAway \subseteq TurnedAway' \cup {Server}
  PROVE  OneInv'
<1>1. open' \ TurnedAway' \subseteq open \ TurnedAway
  BY OpenIsFinite
<1>2. QED
  BY <1>1 DEF OneInv

-----------------------------------------------------------------------------
(* The steps *)

LEMMA OneStarts ==
  ASSUME UartInit
  PROVE  OneInv
<1>1. open = {} /\ connection_count = 0 /\ polls = << >> /\ accepted = 0 /\ pending = 0
  BY DEF UartInit
<1>2. polls \in Seq(Poll)
  BY <1>1
<1>3. Cardinality({}) = 0
  BY FS_EmptySet
<1>4. MaxClients \in Nat
  BY UartAssumption
<1>5. QED
  BY <1>1, <1>2, <1>3, <1>4 DEF OneInv

LEMMA OneStutters ==
  ASSUME OneInv, UNCHANGED uart_vars
  PROVE  OneInv'
<1>1. UNCHANGED <<open, connection_count, accepted, pending, polls>>
  BY DEF uart_vars, serverVars, worldVars
<1>2. QED
  BY <1>1 DEF OneInv, TurnedAway

LEMMA OneWorld ==
  ASSUME OneInv, UartWorld
  PROVE  OneInv'
<1>1. CASE Connect
  <2>1. UNCHANGED <<open, connection_count, polls, accepted>>
    BY <1>1 DEF Connect, serverVars
  <2>2. pending' = pending + 1 /\ accepted + pending < MaxClients
    BY <1>1 DEF Connect
  <2>3. MaxClients \in Nat
    BY UartAssumption
  <2>4. QED
    BY <2>1, <2>2, <2>3 DEF OneInv, TurnedAway
<1>2. CASE ~Connect
  <2>1. UNCHANGED <<open, connection_count, polls, accepted, pending>>
    BY <1>2 DEF UartWorld, ConsoleSends, ClientSends, ClientEnds, serverVars
  <2>2. QED
    BY <2>1 DEF OneInv, TurnedAway
<1>3. QED
  BY <1>1, <1>2

LEMMA OneBegins ==
  ASSUME OneInv, BeginPoll
  PROVE  OneInv'
<1>1. polls = << >>
  BY DEF BeginPoll
<1>2. TurnedAway = {}
  BY <1>1 DEF TurnedAway
<1>3. PICK p \in Ready : polls' = <<p>>
  BY DEF BeginPoll
<1>4. p \in Poll
  <2>1. open \subseteq Clients
    BY OpenIsFinite
  <2>2. QED
    BY <2>1 DEF Ready, Poll
<1>5. UNCHANGED <<open, connection_count, accepted, pending>>
  BY DEF BeginPoll, worldVars
<1>6. QED
  BY <1>2, <1>3, <1>4, <1>5, OneRests

\* The first client: no other channel is open.
LEMMA OneAccepts ==
  ASSUME OneInv, Accept
  PROVE  OneInv'
<1>1. /\ NextRead(Server) /\ pending > 0 /\ connection_count < 1
      /\ pending' = pending - 1 /\ accepted' = accepted + 1
      /\ open' = open \cup {accepted + 1}
      /\ connection_count' = connection_count + 1
      /\ polls' = ReadDone(Server)
  BY DEF Accept
<1>2. Cardinality(open) = 0
  BY <1>1, OpenIsFinite DEF OneInv
<1>3. open = {}
  BY <1>2, OpenIsFinite, FS_EmptySet
<1>4. polls' \in Seq(Poll) /\ TurnedAway' = TurnedAway
  BY <1>1, PollGoesOn DEF NextRead, Polling, OneInv
<1>5. accepted' \in Nat /\ pending' \in Nat /\ accepted' + pending' <= MaxClients
  BY <1>1, UartAssumption DEF OneInv
<1>6. open' \subseteq 1 .. accepted' /\ connection_count' = Cardinality(open')
  BY <1>1, OpenCounts DEF OneInv
<1>7. \A c, d \in open' \ TurnedAway' : c = d
  BY <1>1, <1>3
<1>8. QED
  BY <1>4, <1>5, <1>6, <1>7 DEF OneInv

\* A second one is on the way out with the poll() that it starts.
LEMMA RejectTurnsAway ==
  ASSUME OneInv, Reject
  PROVE  polls' \in Seq(Poll) /\ polls # << >> /\ TurnedAway' = TurnedAway \cup {accepted + 1}
<1>1. /\ NextRead(Server) /\ pending > 0
      /\ pending' = pending - 1 /\ accepted' = accepted + 1
      /\ open' = open \cup {accepted + 1}
      /\ connection_count' = connection_count + 1
  BY DEF Reject
<1> DEFINE done == ReadDone(Server)
<1>2. accepted + 1 \in Clients
  BY <1>1, UartAssumption DEF OneInv, Clients
<1>3. PICK p \in Poll : p.then = accepted + 1 /\ polls' = Append(done, p)
  <2> DEFINE room  == Len(in_buffer) < BufferMax
             toRead == {c \in open' : room /\ Heard(c)} \cup {s \in {Server} : room /\ pending' > 0}
  <2>1. PICK toWrite \in SUBSET {c \in open' : out_buffer' # << >>} :
          polls' = Append(done, [reads |-> toRead, writes |-> toWrite, then |-> accepted'])
    BY DEF Reject
  <2>2. toRead \in SUBSET (Clients \cup {Server}) /\ toWrite \in SUBSET Clients
    BY <1>1, <1>2, OpenIsFinite
  <2>3. [reads |-> toRead, writes |-> toWrite, then |-> accepted'] \in Poll
    BY <1>1, <1>2, <2>2 DEF Poll
  <2>4. QED
    BY <1>1, <2>1, <2>3
<1>4. /\ polls # << >> /\ done \in Seq(Poll) /\ Len(done) = Len(polls)
      /\ \A i \in DOMAIN polls : done[i].then = polls[i].then
  <2>1. polls \in Seq(Poll) /\ polls # << >>
    BY <1>1 DEF OneInv, NextRead, Polling
  <2>2. Len(polls) \in DOMAIN polls /\ polls[Len(polls)] \in Poll
    BY <2>1
  <2>3. done = [polls EXCEPT ![Len(polls)] = [polls[Len(polls)] EXCEPT !.reads = @ \ {Server}]]
    BY DEF ReadDone
  <2>4. [polls[Len(polls)] EXCEPT !.reads = @ \ {Server}] \in Poll
    BY <2>2 DEF Poll
  <2>5. [polls[Len(polls)] EXCEPT !.reads = @ \ {Server}].then = polls[Len(polls)].then
    BY <2>2 DEF Poll
  <2> HIDE DEF done
  <2>6. QED
    BY <2>1, <2>2, <2>3, <2>4, <2>5
<1> HIDE DEF done
<1>5. polls' \in Seq(Poll)
  BY <1>3, <1>4
<1>6. TurnedAway' = TurnedAway \cup {accepted + 1}
  <2>1. polls \in Seq(Poll)
    BY DEF OneInv
  <2>2. DOMAIN polls' = 1 .. Len(polls) + 1 /\ DOMAIN polls = 1 .. Len(polls)
    BY <1>3, <1>4, <2>1
  <2>3. \A i \in DOMAIN polls : polls'[i].then = polls[i].then
    BY <1>3, <1>4, <2>1
  <2>4. polls'[Len(polls) + 1].then = accepted + 1
    BY <1>3, <1>4, <2>1
  <2>5. Len(polls) \in Nat
    BY <2>1
  <2>6. QED
    BY <2>2, <2>3, <2>4, <2>5 DEF TurnedAway
<1>7. QED
  BY <1>4, <1>5, <1>6

LEMMA OneRejects ==
  ASSUME OneInv, Reject
  PROVE  OneInv'
<1>1. /\ pending > 0 /\ pending' = pending - 1 /\ accepted' = accepted + 1
      /\ open' = open \cup {accepted + 1}
      /\ connection_count' = connection_count + 1
  BY DEF Reject
<1>2. accepted' \in Nat /\ pending' \in Nat /\ accepted' + pending' <= MaxClients
  BY <1>1, UartAssumption DEF OneInv
<1>3. open' \subseteq 1 .. accepted' /\ connection_count' = Cardinality(open')
  BY <1>1, OpenCounts DEF OneInv
<1>4. open' \ TurnedAway' \subseteq open \ TurnedAway
  BY <1>1, RejectTurnsAway
<1>5. QED
  BY <1>2, <1>3, <1>4, RejectTurnsAway DEF OneInv

\* A channel that is looked at, whichever handler runs.
LEMMA OneHandles ==
  ASSUME OneInv, NEW c \in Clients, Handle(c)
  PROVE  OneInv'
<1>1. polls # << >> /\ polls \in Seq(Poll) /\ (polls' = ReadDone(c) \/ polls' = WriteDone(c))
  BY DEF Handle, SkipClosed, ReadBytes, ReadEnd, ReadError, Write, WriteError, OneInv,
         NextRead, NextWrite, Polling
<1>2. polls' \in Seq(Poll) /\ TurnedAway' = TurnedAway
  BY <1>1, PollGoesOn
<1>3. CASE ReadEnd(c) \/ ReadError(c) \/ WriteError(c)
  <2>1. c \in open /\ Close(c) /\ UNCHANGED worldVars
    BY <1>3 DEF ReadEnd, ReadError, WriteError
  <2>2. UNCHANGED <<accepted, pending>>
    BY <2>1 DEF worldVars
  <2>3. QED
    BY <1>2, <2>1, <2>2, CloseCounts
<1>4. CASE SkipClosed(c) \/ ReadBytes(c) \/ Write(c)
  <2>1. UNCHANGED <<open, connection_count, accepted, pending>>
    BY <1>4 DEF SkipClosed, ReadBytes, Write, worldVars
  <2>2. QED
    BY <1>2, <2>1, OneRests
<1>5. QED
  BY <1>3, <1>4 DEF Handle

\* The poll() that ends takes the channel that it turned away with it.
LEMMA EndPollTurns ==
  ASSUME OneInv, EndPoll
  PROVE  /\ polls' \in Seq(Poll) /\ polls \in Seq(Poll) /\ polls # << >>
         /\ Len(polls) = 1 => polls' = << >>
         /\ TurnedAway \subseteq TurnedAway' \cup {Top.then}
         /\ TurnedAway' \subseteq TurnedAway
<1> DEFINE k == Len(polls)
<1>1. polls \in Seq(Poll) /\ polls # << >> /\ k \in Nat \ {0} /\ polls[k] \in Poll
  BY DEF EndPoll, Polling, OneInv
<1>2. polls' = SubSeq(polls, 1, k - 1) /\ Top = polls[k]
  BY DEF EndPoll, Front, Top, Last
<1>3. /\ polls' \in Seq(Poll) /\ DOMAIN polls' = 1 .. k - 1
      /\ \A i \in 1 .. k - 1 : polls'[i] = polls[i]
  BY <1>1, <1>2
<1>4. DOMAIN polls = 1 .. k
  BY <1>1
<1>5. TurnedAway \subseteq TurnedAway' \cup {Top.then}
  <2>1. ASSUME NEW i \in 1 .. k
        PROVE  polls[i].then \in TurnedAway' \cup {Top.then}
    <3>1. CASE i = k
      BY <3>1, <1>2
    <3>2. CASE i # k
      <4>1. i \in 1 .. k - 1
        BY <3>2, <1>1
      <4>2. polls'[i].then \in TurnedAway'
        BY <4>1, <1>3 DEF TurnedAway
      <4>3. QED
        BY <4>1, <4>2, <1>3
    <3>3. QED
      BY <3>1, <3>2
  <2>2. QED
    BY <2>1, <1>4 DEF TurnedAway
<1>6. TurnedAway' \subseteq TurnedAway
  BY <1>1, <1>3, <1>4 DEF TurnedAway
<1>7. ASSUME k = 1 PROVE polls' = << >>
  BY <1>1, <1>3, <1>7
<1>8. QED
  BY <1>1, <1>3, <1>5, <1>6, <1>7

LEMMA OneEndsPoll ==
  ASSUME OneInv, EndPoll
  PROVE  OneInv'
<1>1. UNCHANGED worldVars
  BY DEF EndPoll
<1>2. UNCHANGED <<accepted, pending>>
  BY <1>1 DEF worldVars
<1>3. CASE Top.then \in open
  <2>1. Close(Top.then)
    BY <1>3 DEF EndPoll
  <2>2. QED
    BY <1>2, <1>3, <2>1, EndPollTurns, CloseCounts
<1>4. CASE Top.then \notin open
  <2>1. UNCHANGED <<open, connection_count>>
    BY <1>4 DEF EndPoll
  <2>2. open' \ TurnedAway' \subseteq open \ TurnedAway
    BY <1>4, <2>1, EndPollTurns
  <2>3. QED
    BY <1>2, <2>1, <2>2, EndPollTurns DEF OneInv
<1>5. QED
  BY <1>3, <1>4

LEMMA OneStep ==
  ASSUME OneInv, UartNext
  PROVE  OneInv'
<1>1. CASE WriteConsole \/ ReadConsole \/ ConsoleQuiet
  <2>1. UNCHANGED <<open, connection_count, accepted, pending, polls>>
    BY <1>1 DEF WriteConsole, ReadConsole, ConsoleQuiet, worldVars
  <2>2. QED
    BY <2>1 DEF OneInv, TurnedAway
<1>2. QED
  BY <1>1, OneWorld, OneBegins, OneAccepts, OneRejects, OneHandles, OneEndsPoll DEF UartNext

\* With no poll() in progress nobody is on the way out.
LEMMA AtMostOne ==
  ASSUME OneInv
  PROVE  OneConnection
<1>1. ASSUME polls = << >> PROVE Cardinality(open) <= 1
  <2>1. TurnedAway = {}
    BY <1>1 DEF TurnedAway
  <2>2. \A c, d \in open : c = d
    BY <2>1 DEF OneInv
  <2>3. CASE open = {}
    BY <2>3, FS_EmptySet
  <2>4. CASE open # {}
    <3>1. PICK c \in open : open = {c}
      BY <2>2, <2>4
    <3>2. Cardinality({c}) = 1
      BY FS_Singleton
    <3>3. QED
      BY <3>1, <3>2
  <2>5. QED
    BY <2>3, <2>4
<1>2. QED
  BY <1>1 DEF OneConnection, OneInv

\* The server counts its open channels right through any nesting of polls, any error and
\* any closing, and lends the port to at most one client whenever its main loop runs.
THEOREM One_Connection == UartSpec => []OneConnection
<1>1. UartInit => OneInv
  BY OneStarts
<1>2. OneInv /\ [UartNext]_uart_vars => OneInv'
  BY OneStep, OneStutters
<1>3. OneInv => OneConnection
  BY AtMostOne
<1>4. QED
  BY <1>1, <1>2, <1>3, PTL DEF UartSpec

-----------------------------------------------------------------------------
(* What goes up: from the clients to the console *)

UpBytes == Clients \X Nat

\* The bytes of one client come in the order of their numbers.
UpBefore == {p \in UpBytes \X UpBytes : p[1][1] = p[2][1] => p[1][2] < p[2][2]}

UpOrder ==
  /\ InOrder(UpBefore, toConsole) /\ InOrder(UpBefore, in_buffer)
  /\ Before(UpBefore, ToSet(toConsole), ToSet(in_buffer))
  /\ \A c \in Clients :
       /\ InOrder(UpBefore, toServer[c])
       /\ Before(UpBefore, ToSet(toConsole), ToSet(toServer[c]))
       /\ Before(UpBefore, ToSet(in_buffer), ToSet(toServer[c]))

UpKept ==
  \A n \in 1 .. ups : \E c \in Clients :
    \/ <<c, n>> \in ToSet(toServer[c]) \cup ToSet(in_buffer) \cup ToSet(toConsole)
    \/ Thrown("up", <<c, n>>)

\* Whoever reads and closes, the bytes that are under way follow each other from the
\* console back to each client.
UpInv ==
  /\ ups \in Nat
  /\ toConsole \in Seq(UpBytes) /\ in_buffer \in Seq(UpBytes)
  /\ toServer \in [Clients -> Seq(UpBytes)]
  /\ \A c \in Clients : \A b \in ToSet(toServer[c]) : b[1] = c /\ b[2] <= ups
  /\ \A b \in ToSet(toConsole) \cup ToSet(in_buffer) : b[2] <= ups
  /\ UpOrder
  /\ UpKept

LEMMA UpStarts ==
  ASSUME UartInit
  PROVE  UpInv
<1>1. /\ ups = 0 /\ toConsole = << >> /\ in_buffer = << >>
      /\ toServer = [c \in Clients |-> << >>]
  BY DEF UartInit
<1>2. toServer \in [Clients -> Seq(UpBytes)] /\ << >> \in Seq(UpBytes)
  BY <1>1
<1>3. UpOrder
  BY <1>1, InOrderFew, ToSetNone DEF UpOrder, Before
<1>4. UpKept
  BY <1>1 DEF UpKept
<1>5. QED
  BY <1>1, <1>2, <1>3, <1>4, ToSetNone DEF UpInv

LEMMA UpRests ==
  ASSUME UpInv, UNCHANGED <<ups, toConsole, in_buffer, toServer>>, cleared \subseteq cleared'
  PROVE  UpInv'
<1>1. UpOrder'
  BY DEF UpInv, UpOrder
<1>2. UpKept'
  BY DEF UpInv, UpKept, Thrown
<1>3. QED
  BY <1>1, <1>2 DEF UpInv

LEMMA UpEmptied ==
  ASSUME UpInv, UNCHANGED <<ups, toConsole, toServer>>, in_buffer' = << >>,
         cleared \subseteq cleared', \A b \in ToSet(in_buffer) : Thrown("up", b)'
  PROVE  UpInv'
<1>1. UpOrder'
  BY InOrderFew, ToSetNone DEF UpInv, UpOrder, Before
<1>2. UpKept'
  BY DEF UpInv, UpKept, Thrown
<1>3. in_buffer' \in Seq(UpBytes) /\ ToSet(in_buffer') = {}
  BY ToSetNone
<1>4. QED
  BY <1>1, <1>2, <1>3 DEF UpInv

LEMMA UpSends ==
  ASSUME UpInv, NEW c \in Clients, ClientSends(c)
  PROVE  UpInv'
<1>1. /\ ups' = ups + 1
      /\ toServer' = [toServer EXCEPT ![c] = Append(@, <<c, ups + 1>>)]
      /\ UNCHANGED <<toConsole, in_buffer, cleared>>
  BY DEF ClientSends, serverVars, history
<1>2. ups \in Nat /\ toServer \in [Clients -> Seq(UpBytes)]
  BY DEF UpInv
<1>3. PICK b \in UpBytes : b = <<c, ups + 1>>
  <2>1. <<c, ups + 1>> \in UpBytes
    BY <1>2 DEF UpBytes
  <2>2. QED
    BY <2>1
<1>4. PICK old \in Seq(UpBytes) : old = toServer[c]
  BY <1>2
<1>5. PICK new \in Seq(UpBytes) : new = Append(old, b)
  <2>1. Append(old, b) \in Seq(UpBytes)
    BY ToSetAppend
  <2>2. QED
    BY <2>1
<1>6. toServer' = [toServer EXCEPT ![c] = new]
  BY <1>1, <1>3, <1>4, <1>5
<1>7. ToSet(new) = ToSet(old) \cup {b}
  BY <1>5, ToSetAppend
<1>8. \A a \in UpBytes : a[2] <= ups => <<a, b>> \in UpBefore
  BY <1>2, <1>3 DEF UpBefore, UpBytes
<1>9. ToSet(toConsole) \subseteq UpBytes /\ ToSet(in_buffer) \subseteq UpBytes /\ ToSet(old) \subseteq UpBytes
  BY ToSetType DEF UpInv
<1>10. /\ Before(UpBefore, ToSet(toConsole), {b}) /\ Before(UpBefore, ToSet(in_buffer), {b})
       /\ Before(UpBefore, ToSet(old), {b})
  BY <1>4, <1>8, <1>9 DEF UpInv, Before
<1>11. InOrder(UpBefore, new)
  BY <1>4, <1>5, <1>10, InOrderAppend DEF UpInv, UpOrder
<1>12. toServer' \in [Clients -> Seq(UpBytes)]
  BY <1>2, <1>6
<1>13. \A d \in Clients : toServer'[d] = IF d = c THEN new ELSE toServer[d]
  BY <1>2, <1>6
<1>14. UpOrder'
  BY <1>1, <1>4, <1>7, <1>10, <1>11, <1>13 DEF UpInv, UpOrder, Before
<1>15. UpKept'
  <2>1. ASSUME NEW n \in 1 .. ups'
        PROVE  \E d \in Clients :
                 \/ <<d, n>> \in ToSet(toServer'[d]) \cup ToSet(in_buffer') \cup ToSet(toConsole')
                 \/ Thrown("up", <<d, n>>)'
    <3>1. CASE n = ups + 1
      BY <1>3, <1>7, <1>13, <3>1
    <3>2. CASE n # ups + 1
      <4>1. n \in 1 .. ups
        BY <1>1, <1>2, <3>2
      <4>2. PICK d \in Clients :
              \/ <<d, n>> \in ToSet(toServer[d]) \cup ToSet(in_buffer) \cup ToSet(toConsole)
              \/ Thrown("up", <<d, n>>)
        BY <4>1 DEF UpInv, UpKept
      <4>3. ToSet(toServer[d]) \subseteq ToSet(toServer'[d])
        BY <1>4, <1>7, <1>13
      <4>4. QED
        BY <1>1, <4>2, <4>3 DEF Thrown
    <3>3. QED
      BY <3>1, <3>2
  <2>2. QED
    BY <2>1 DEF UpKept
<1>16. \A d \in Clients : \A a \in ToSet(toServer'[d]) : a[1] = d /\ a[2] <= ups'
  <2>1. ASSUME NEW d \in Clients, NEW a \in ToSet(toServer'[d])
        PROVE  a[1] = d /\ a[2] <= ups'
    <3>1. CASE d = c /\ a = b
      BY <1>1, <1>2, <1>3, <3>1
    <3>2. CASE a \in ToSet(toServer[d])
      <4>1. a[1] = d /\ a[2] <= ups
        BY <3>2 DEF UpInv
      <4>2. a \in UpBytes
        BY <1>2, <3>2, ToSetType
      <4>3. QED
        BY <1>1, <1>2, <4>1, <4>2 DEF UpBytes
    <3>3. QED
      BY <1>4, <1>7, <1>13, <3>1, <3>2
  <2>2. QED
    BY <2>1
<1>17. \A a \in ToSet(toConsole) \cup ToSet(in_buffer) : a[2] <= ups + 1
  BY <1>2, <1>9 DEF UpInv, UpBytes
<1>18. (\A a \in ToSet(toConsole) \cup ToSet(in_buffer) : a[2] <= ups)'
  BY <1>1, <1>17
<1>19. ups' \in Nat /\ toConsole' \in Seq(UpBytes) /\ in_buffer' \in Seq(UpBytes)
  BY <1>1, <1>2 DEF UpInv
<1>20. QED
  BY <1>12, <1>14, <1>15, <1>16, <1>18, <1>19 DEF UpInv

\* What is read of a client is the first part of what it sent, or nothing.
LEMMA KeptIsFirst ==
  ASSUME NEW c, NEW bytes \in Seq(UpBytes), in_buffer \in Seq(UpBytes)
  PROVE  \E n \in 0 .. Len(bytes) : Kept(c, bytes) = SubSeq(bytes, 1, n)
<1> DEFINE room == BufferMax - Len(in_buffer)
           kept == Kept(c, bytes)
<1> USE DEF Kept, Room
<1>1. Len(bytes) \in Nat /\ room \in Int
  BY UartAssumption
<1>2. CASE StillFull(c) \/ room <= 0
  <2>1. CASE StillFull(c)
    BY <1>1, <2>1
  <2>2. CASE ~StillFull(c)
    <3>1. kept = SubSeq(bytes, 1, room) /\ room <= 0
      BY <1>1, <1>2, <2>2
    <3>2. SubSeq(bytes, 1, room) = << >> /\ SubSeq(bytes, 1, 0) = << >>
      BY <1>1, <3>1, SubSeqEmpty
    <3>3. QED
      BY <1>1, <3>1, <3>2
  <2>3. QED
    BY <2>1, <2>2
<1>3. CASE ~StillFull(c) /\ room > 0 /\ Len(bytes) >= room
  BY <1>1, <1>3
<1>4. CASE ~StillFull(c) /\ room > 0 /\ ~(Len(bytes) >= room)
  <2>1. kept = bytes
    BY <1>4
  <2>2. SubSeq(bytes, 1, Len(bytes)) = bytes
    BY SubSeqFull
  <2>3. Len(bytes) \in 0 .. Len(bytes)
    BY <1>1
  <2>4. kept = SubSeq(bytes, 1, Len(bytes))
    BY <2>1, <2>2
  <2>5. QED
    BY <2>3, <2>4
<1>5. QED
  BY <1>1, <1>2, <1>3, <1>4

LEMMA UpReads ==
  ASSUME UpInv, NEW c \in Clients, ReadBytes(c)
  PROVE  UpInv'
<1>1. PICK bytes \in Seq(UpBytes) : bytes = toServer[c]
  BY DEF UpInv
<1>2. PICK kept : /\ kept = Kept(c, bytes)
                  /\ in_buffer' = in_buffer \o kept
                  /\ cleared' = cleared \cup {<<"up", b, Server>> : b \in ToSet(bytes) \ ToSet(kept)}
  BY <1>1 DEF ReadBytes
<1>3. /\ toServer' = [toServer EXCEPT ![c] = << >>]
      /\ UNCHANGED <<ups, toConsole>>
  BY DEF ReadBytes
<1>4. PICK old \in Seq(UpBytes) : old = in_buffer
  BY DEF UpInv
<1>5. \E n \in 0 .. Len(bytes) : kept = SubSeq(bytes, 1, n)
  <2>1. in_buffer \in Seq(UpBytes)
    BY DEF UpInv
  <2>2. QED
    BY <1>2, <2>1, KeptIsFirst
<1>6. /\ kept \in Seq(UpBytes) /\ InOrder(UpBefore, kept)
      /\ ToSet(kept) \subseteq ToSet(bytes)
  <2>1. PICK n \in 0 .. Len(bytes) : kept = SubSeq(bytes, 1, n)
    BY <1>5
  <2>2. InOrder(UpBefore, bytes)
    BY <1>1 DEF UpInv, UpOrder
  <2>3. QED
    BY <2>1, <2>2, CutJoins, InOrderCut
<1>7. PICK new \in Seq(UpBytes) : new = old \o kept /\ in_buffer' = new
  BY <1>2, <1>4, <1>6, ToSetJoin
<1>8. ToSet(new) = ToSet(old) \cup ToSet(kept)
  BY <1>6, <1>7, ToSetJoin
<1>9. /\ InOrder(UpBefore, old) /\ Before(UpBefore, ToSet(old), ToSet(bytes))
      /\ Before(UpBefore, ToSet(toConsole), ToSet(bytes))
      /\ Before(UpBefore, ToSet(toConsole), ToSet(old))
      /\ InOrder(UpBefore, toConsole)
  BY <1>1, <1>4 DEF UpInv, UpOrder
<1>10. Before(UpBefore, ToSet(old), ToSet(kept)) /\ Before(UpBefore, ToSet(toConsole), ToSet(new))
  BY <1>6, <1>8, <1>9 DEF Before
<1>11. InOrder(UpBefore, new)
  BY <1>6, <1>7, <1>9, <1>10, InOrderJoin
<1>12. toServer \in [Clients -> Seq(UpBytes)]
  BY DEF UpInv
<1>13. \A d \in Clients : toServer'[d] = IF d = c THEN << >> ELSE toServer[d]
  BY <1>3, <1>12
<1>14. \A d \in Clients \ {c} : Before(UpBefore, ToSet(kept), ToSet(toServer[d]))
  <2>1. ASSUME NEW d \in Clients \ {c}, NEW a \in ToSet(kept), NEW b \in ToSet(toServer[d])
        PROVE  <<a, b>> \in UpBefore
    <3>1. a[1] = c /\ b[1] = d
      BY <1>1, <1>6, <2>1 DEF UpInv
    <3>2. a \in UpBytes /\ b \in UpBytes
      BY <1>6, <1>12, ToSetType
    <3>3. QED
      BY <3>1, <3>2 DEF UpBefore
  <2>2. QED
    BY <2>1 DEF Before
<1>15. UpOrder'
  <2>1. ASSUME NEW d \in Clients
        PROVE  /\ InOrder(UpBefore, toServer'[d])
               /\ Before(UpBefore, ToSet(toConsole), ToSet(toServer'[d]))
               /\ Before(UpBefore, ToSet(new), ToSet(toServer'[d]))
    <3>1. CASE d = c
      BY <1>13, <3>1, InOrderFew, ToSetNone DEF Before
    <3>2. CASE d # c
      <4>1. toServer'[d] = toServer[d]
        BY <1>13, <3>2
      <4>2. /\ InOrder(UpBefore, toServer[d])
            /\ Before(UpBefore, ToSet(toConsole), ToSet(toServer[d]))
            /\ Before(UpBefore, ToSet(old), ToSet(toServer[d]))
        BY <1>4 DEF UpInv, UpOrder
      <4>3. Before(UpBefore, ToSet(kept), ToSet(toServer[d]))
        BY <1>14, <3>2
      <4>4. QED
        BY <1>8, <4>1, <4>2, <4>3 DEF Before
    <3>3. QED
      BY <3>1, <3>2
  <2>2. QED
    BY <1>3, <1>7, <1>9, <1>10, <1>11, <2>1 DEF UpOrder
<1>16. UpKept'
  <2>1. ASSUME NEW n \in 1 .. ups
        PROVE  \E d \in Clients :
                 \/ <<d, n>> \in ToSet(toServer'[d]) \cup ToSet(in_buffer') \cup ToSet(toConsole')
                 \/ Thrown("up", <<d, n>>)'
    <3>1. PICK d \in Clients :
            \/ <<d, n>> \in ToSet(toServer[d]) \cup ToSet(in_buffer) \cup ToSet(toConsole)
            \/ Thrown("up", <<d, n>>)
      BY DEF UpInv, UpKept
    <3>2. CASE <<d, n>> \in ToSet(toServer[d])
      <4>1. CASE d # c
        BY <1>13, <3>2, <4>1
      <4>2. CASE d = c
        <5>1. <<d, n>> \in ToSet(bytes)
          BY <1>1, <3>2, <4>2
        <5>2. <<d, n>> \in ToSet(kept) \/ Thrown("up", <<d, n>>)'
          BY <1>2, <5>1 DEF Thrown
        <5>3. QED
          BY <1>7, <1>8, <5>2
      <4>3. QED
        BY <4>1, <4>2
    <3>3. CASE <<d, n>> \in ToSet(in_buffer) \cup ToSet(toConsole)
      BY <1>3, <1>4, <1>7, <1>8, <3>3
    <3>4. CASE Thrown("up", <<d, n>>)
      BY <1>2, <3>4 DEF Thrown
    <3>5. QED
      BY <3>1, <3>2, <3>3, <3>4
  <2>2. QED
    BY <1>3, <2>1 DEF UpKept
<1>17. toServer' \in [Clients -> Seq(UpBytes)]
  <2>1. << >> \in Seq(UpBytes)
    OBVIOUS
  <2>2. QED
    BY <1>3, <1>12, <2>1
<1>18. \A d \in Clients : \A b \in ToSet(toServer'[d]) : b[1] = d /\ b[2] <= ups
  BY <1>13, ToSetNone DEF UpInv
<1>19. \A b \in ToSet(toConsole) \cup ToSet(new) : b[2] <= ups
  BY <1>1, <1>4, <1>6, <1>8 DEF UpInv
<1>20. QED
  BY <1>3, <1>7, <1>15, <1>16, <1>17, <1>18, <1>19 DEF UpInv

\* The console takes the first part of the buffer.
LEMMA UpWrites ==
  ASSUME UpInv, WriteConsole
  PROVE  UpInv'
<1>1. PICK old \in Seq(UpBytes) : old = in_buffer
  BY DEF UpInv
<1>2. PICK n \in 0 .. Len(old) :
        /\ toConsole' = toConsole \o SubSeq(old, 1, n)
        /\ in_buffer' = SubSeq(old, n + 1, Len(old))
  BY <1>1 DEF WriteConsole
<1>3. UNCHANGED <<ups, toServer, cleared>>
  BY DEF WriteConsole, worldVars
<1>4. PICK sent \in Seq(UpBytes) : sent = SubSeq(old, 1, n)
  BY CutJoins
<1>5. PICK rest \in Seq(UpBytes) : rest = SubSeq(old, n + 1, Len(old))
  BY CutJoins
<1>6. /\ InOrder(UpBefore, sent) /\ InOrder(UpBefore, rest)
      /\ Before(UpBefore, ToSet(sent), ToSet(rest))
      /\ ToSet(old) = ToSet(sent) \cup ToSet(rest)
  <2>1. InOrder(UpBefore, old)
    BY <1>1 DEF UpInv, UpOrder
  <2>2. QED
    BY <1>4, <1>5, <2>1, InOrderCut
<1>7. PICK got \in Seq(UpBytes) : got = toConsole
  BY DEF UpInv
<1>8. PICK new \in Seq(UpBytes) : new = got \o sent /\ toConsole' = new
  BY <1>2, <1>4, <1>7, ToSetJoin
<1>9. ToSet(new) = ToSet(got) \cup ToSet(sent)
  BY <1>8, ToSetJoin
<1>10. InOrder(UpBefore, got) /\ Before(UpBefore, ToSet(got), ToSet(old))
  BY <1>1, <1>7 DEF UpInv, UpOrder
<1>11. /\ Before(UpBefore, ToSet(got), ToSet(sent)) /\ Before(UpBefore, ToSet(new), ToSet(rest))
  BY <1>6, <1>9, <1>10 DEF Before
<1>12. InOrder(UpBefore, new)
  BY <1>6, <1>8, <1>10, <1>11, InOrderJoin
<1>13. in_buffer' = rest
  BY <1>2, <1>5
<1>14. \A c \in Clients :
         /\ InOrder(UpBefore, toServer[c])
         /\ Before(UpBefore, ToSet(new), ToSet(toServer[c]))
         /\ Before(UpBefore, ToSet(rest), ToSet(toServer[c]))
  <2>1. ASSUME NEW c \in Clients
        PROVE  /\ InOrder(UpBefore, toServer[c])
               /\ Before(UpBefore, ToSet(got), ToSet(toServer[c]))
               /\ Before(UpBefore, ToSet(old), ToSet(toServer[c]))
    BY <1>1, <1>7 DEF UpInv, UpOrder
  <2>2. QED
    BY <1>6, <1>9, <2>1 DEF Before
<1>15. UpOrder'
  BY <1>3, <1>6, <1>8, <1>11, <1>12, <1>13, <1>14 DEF UpOrder
<1>16. ToSet(new) \cup ToSet(rest) = ToSet(toConsole) \cup ToSet(in_buffer)
  BY <1>1, <1>6, <1>7, <1>9
<1>17. UpKept'
  BY <1>3, <1>8, <1>13, <1>16 DEF UpInv, UpKept, Thrown
<1>18. QED
  BY <1>3, <1>8, <1>13, <1>15, <1>16, <1>17 DEF UpInv

LEMMA UpStutters ==
  ASSUME UpInv, UNCHANGED uart_vars
  PROVE  UpInv'
<1>1. UNCHANGED <<ups, toConsole, in_buffer, toServer, cleared>>
  BY DEF uart_vars, serverVars, worldVars, history
<1>2. QED
  BY <1>1, UpRests

\* The buffers are emptied on purpose.
LEMMA UpCloses ==
  ASSUME OneInv, UpInv, NEW c \in open, Close(c), UNCHANGED <<ups, toConsole, toServer>>
  PROVE  UpInv'
<1>1. in_buffer' = << >> /\ cleared \subseteq cleared'
  BY DEF Close
<1>2. \A b \in ToSet(in_buffer) : Thrown("up", b)'
  BY OpenIsFinite DEF Close, Thrown
<1>3. QED
  BY <1>1, <1>2, UpEmptied

LEMMA UpStep ==
  ASSUME OneInv, UpInv, UartNext
  PROVE  UpInv'
<1>1. ASSUME NEW c \in Clients, ClientSends(c) PROVE UpInv'
  BY <1>1, UpSends
<1>2. ASSUME NEW c \in Clients, ReadBytes(c) PROVE UpInv'
  BY <1>2, UpReads
<1>3. CASE WriteConsole
  BY <1>3, UpWrites
<1>4. ASSUME NEW c \in Clients, ReadEnd(c) \/ ReadError(c) \/ WriteError(c) PROVE UpInv'
  <2>1. c \in open /\ Close(c) /\ UNCHANGED toConsole /\ UNCHANGED worldVars
    BY <1>4 DEF ReadEnd, ReadError, WriteError
  <2>2. UNCHANGED <<ups, toServer>>
    BY <2>1 DEF worldVars
  <2>3. QED
    BY <2>1, <2>2, UpCloses
<1>5. CASE EndPoll
  <2>1. UNCHANGED <<ups, toConsole, toServer>>
    BY <1>5 DEF EndPoll, worldVars
  <2>2. CASE Top.then \in open
    <3>1. Close(Top.then)
      BY <1>5, <2>2 DEF EndPoll
    <3>2. QED
      BY <2>1, <2>2, <3>1, UpCloses
  <2>3. CASE Top.then \notin open
    <3>1. UNCHANGED <<in_buffer, cleared>>
      BY <1>5, <2>3 DEF EndPoll
    <3>2. QED
      BY <2>1, <3>1, UpRests
  <2>4. QED
    BY <2>2, <2>3
<1>6. CASE Connect \/ ConsoleSends \/ \E c \in Clients : ClientEnds(c)
  <2>1. UNCHANGED <<ups, toConsole, in_buffer, toServer, cleared>>
    BY <1>6 DEF Connect, ConsoleSends, ClientEnds, serverVars, history
  <2>2. QED
    BY <2>1, UpRests
<1>7. CASE BeginPoll \/ Accept \/ Reject
  <2>1. UNCHANGED <<ups, toConsole, in_buffer, toServer, cleared>>
    BY <1>7 DEF BeginPoll, Accept, Reject, worldVars, history
  <2>2. QED
    BY <2>1, UpRests
<1>8. ASSUME NEW c \in Clients, SkipClosed(c) \/ Write(c) PROVE UpInv'
  <2>1. UNCHANGED <<ups, toConsole, in_buffer, toServer, cleared>>
    BY <1>8 DEF SkipClosed, Write, worldVars, history
  <2>2. QED
    BY <2>1, UpRests
<1>9. CASE ReadConsole
  <2>1. UNCHANGED <<ups, toConsole, in_buffer, toServer>>
    BY <1>9 DEF ReadConsole
  <2>2. cleared \subseteq cleared'
    BY <1>9 DEF ReadConsole
  <2>3. QED
    BY <2>1, <2>2, UpRests
<1>10. CASE ConsoleQuiet
  <2>1. UNCHANGED <<ups, toConsole, in_buffer, toServer, cleared>>
    BY <1>10 DEF ConsoleQuiet, worldVars, history
  <2>2. QED
    BY <2>1, UpRests
<1>11. QED
  BY <1>1, <1>2, <1>3, <1>4, <1>5, <1>6, <1>7, <1>8, <1>9, <1>10
  DEF UartNext, UartWorld, Handle

-----------------------------------------------------------------------------
(* What goes down: from the console to the clients *)

\* The console's bytes come in the order of their numbers, the message anywhere.
DownBefore == {p \in Nat \X Nat : p[1] # Notice /\ p[2] # Notice => p[1] < p[2]}

DownOrder ==
  /\ InOrder(DownBefore, out_buffer) /\ InOrder(DownBefore, console)
  /\ Before(DownBefore, ToSet(out_buffer), ToSet(console))
  /\ \A c \in Clients :
       /\ InOrder(DownBefore, fromServer[c])
       /\ Before(DownBefore, ToSet(fromServer[c]), ToSet(out_buffer))
       /\ Before(DownBefore, ToSet(fromServer[c]), ToSet(console))

DownKept ==
  \A b \in 1 .. downs :
    \/ b \in ToSet(console) \/ b \in ToSet(out_buffer)
    \/ \E c \in Clients : b \in ToSet(fromServer[c])
    \/ Thrown("down", b)

\* The bytes that are under way follow each other from any client back to the console.
DownInv ==
  /\ downs \in Nat
  /\ console \in Seq(Nat) /\ out_buffer \in Seq(Nat)
  /\ fromServer \in [Clients -> Seq(Nat)]
  /\ \A b \in ToSet(console) \cup ToSet(out_buffer) : b <= downs
  /\ \A c \in Clients : \A b \in ToSet(fromServer[c]) : b <= downs
  /\ DownOrder
  /\ DownKept

LEMMA DownStarts ==
  ASSUME UartInit
  PROVE  DownInv
<1>1. /\ downs = 0 /\ console = << >> /\ out_buffer = << >>
      /\ fromServer = [c \in Clients |-> << >>]
  BY DEF UartInit
<1>2. fromServer \in [Clients -> Seq(Nat)] /\ << >> \in Seq(Nat)
  BY <1>1
<1>3. DownOrder
  BY <1>1, InOrderFew, ToSetNone DEF DownOrder, Before
<1>4. DownKept
  BY <1>1 DEF DownKept
<1>5. QED
  BY <1>1, <1>2, <1>3, <1>4, ToSetNone DEF DownInv

LEMMA DownRests ==
  ASSUME DownInv, UNCHANGED <<downs, console, out_buffer, fromServer>>, cleared \subseteq cleared'
  PROVE  DownInv'
<1>1. DownOrder'
  BY DEF DownInv, DownOrder
<1>2. DownKept'
  BY DEF DownInv, DownKept, Thrown
<1>3. QED
  BY <1>1, <1>2 DEF DownInv

LEMMA DownCloses ==
  ASSUME OneInv, DownInv, NEW c \in open, Close(c), UNCHANGED <<downs, console, fromServer>>
  PROVE  DownInv'
<1>1. out_buffer' = << >> /\ cleared \subseteq cleared'
  BY DEF Close
<1>2. \A b \in ToSet(out_buffer) : Thrown("down", b)'
  BY OpenIsFinite DEF Close, Thrown
<1>3. DownOrder'
  BY <1>1, InOrderFew, ToSetNone DEF DownInv, DownOrder, Before
<1>4. DownKept'
  BY <1>1, <1>2 DEF DownInv, DownKept, Thrown
<1>5. out_buffer' \in Seq(Nat) /\ ToSet(out_buffer') = {}
  BY <1>1, ToSetNone
<1>6. QED
  BY <1>3, <1>4, <1>5 DEF DownInv

LEMMA DownSends ==
  ASSUME DownInv, ConsoleSends
  PROVE  DownInv'
<1>1. /\ downs' = downs + 1 /\ console' = Append(console, downs + 1)
      /\ UNCHANGED <<out_buffer, fromServer, cleared>>
  BY DEF ConsoleSends, serverVars, history
<1>2. downs \in Nat /\ fromServer \in [Clients -> Seq(Nat)]
  BY DEF DownInv
<1>3. PICK b \in Nat : b = downs + 1
  BY <1>2
<1>4. PICK old \in Seq(Nat) : old = console
  BY DEF DownInv
<1>5. PICK new \in Seq(Nat) : new = Append(old, b)
  <2>1. Append(old, b) \in Seq(Nat)
    BY ToSetAppend
  <2>2. QED
    BY <2>1
<1>6. console' = new
  BY <1>1, <1>3, <1>4, <1>5
<1>7. ToSet(new) = ToSet(old) \cup {b}
  BY <1>5, ToSetAppend
<1>8. \A a \in Nat : a <= downs => <<a, b>> \in DownBefore
  BY <1>2, <1>3 DEF DownBefore
<1>9. ToSet(out_buffer) \subseteq Nat /\ ToSet(old) \subseteq Nat
  BY ToSetType DEF DownInv
<1>10. Before(DownBefore, ToSet(out_buffer), {b}) /\ Before(DownBefore, ToSet(old), {b})
  BY <1>4, <1>8, <1>9 DEF DownInv, Before
<1>11. InOrder(DownBefore, new)
  BY <1>4, <1>5, <1>10, InOrderAppend DEF DownInv, DownOrder
<1>12. \A c \in Clients : Before(DownBefore, ToSet(fromServer[c]), {b})
  <2>1. \A c \in Clients : ToSet(fromServer[c]) \subseteq Nat
    BY <1>2, ToSetType
  <2>2. QED
    BY <1>8, <2>1 DEF DownInv, Before
<1>13. DownOrder'
  BY <1>1, <1>4, <1>6, <1>7, <1>10, <1>11, <1>12 DEF DownInv, DownOrder, Before
<1>14. DownKept'
  <2>1. \A n \in 1 .. downs' : n = b \/ n \in 1 .. downs
    BY <1>1, <1>2, <1>3
  <2>2. b \in ToSet(new) /\ ToSet(console) \subseteq ToSet(new)
    BY <1>4, <1>7
  <2>3. QED
    BY <1>1, <1>6, <2>1, <2>2 DEF DownInv, DownKept, Thrown
<1>15. (\A a \in ToSet(console) \cup ToSet(out_buffer) : a <= downs)'
  <2>1. \A a \in ToSet(old) \cup ToSet(out_buffer) : a \in Nat /\ a <= downs
    BY <1>4, <1>9 DEF DownInv
  <2>2. \A a \in ToSet(new) \cup ToSet(out_buffer) : a <= downs + 1
    BY <1>2, <1>3, <1>7, <2>1
  <2>3. QED
    BY <1>1, <1>6, <2>2
<1>16. \A c \in Clients : \A a \in ToSet(fromServer'[c]) : a <= downs'
  <2>1. \A c \in Clients : ToSet(fromServer[c]) \subseteq Nat
    BY <1>2, ToSetType
  <2>2. QED
    BY <1>1, <1>2, <2>1 DEF DownInv
<1>17. downs' \in Nat /\ console' \in Seq(Nat) /\ out_buffer' \in Seq(Nat) /\ fromServer' \in [Clients -> Seq(Nat)]
  BY <1>1, <1>2, <1>6 DEF DownInv
<1>18. QED
  BY <1>13, <1>14, <1>15, <1>16, <1>17 DEF DownInv

\* The message to a client that is turned away.
LEMMA DownNotifies ==
  ASSUME DownInv, out_buffer' = Notified,
         UNCHANGED <<downs, console, fromServer, cleared>>
  PROVE  DownInv'
<1>1. CASE out_buffer' = out_buffer
  BY <1>1, DownRests
<1>2. CASE out_buffer' # out_buffer
  <2>1. PICK old \in Seq(Nat) : old = out_buffer
    BY DEF DownInv
  <2>2. Notice \in Nat /\ \A a \in Nat : <<a, Notice>> \in DownBefore /\ <<Notice, a>> \in DownBefore
    BY DEF DownBefore, Notice
  <2>3. PICK new \in Seq(Nat) : new = Append(old, Notice) /\ out_buffer' = new
    <3>1. Append(old, Notice) \in Seq(Nat)
      BY <2>2, ToSetAppend
    <3>2. out_buffer' = Append(old, Notice)
      BY <1>2, <2>1 DEF Notified
    <3>3. QED
      BY <3>1, <3>2
  <2>4. ToSet(new) = ToSet(old) \cup {Notice}
    BY <2>2, <2>3, ToSetAppend
  <2>5. /\ ToSet(old) \subseteq Nat /\ ToSet(console) \subseteq Nat
        /\ \A c \in Clients : ToSet(fromServer[c]) \subseteq Nat
    BY ToSetType DEF DownInv
  <2>6. /\ Before(DownBefore, ToSet(old), {Notice}) /\ Before(DownBefore, {Notice}, ToSet(console))
        /\ \A c \in Clients : Before(DownBefore, ToSet(fromServer[c]), {Notice})
    BY <2>2, <2>5 DEF Before
  <2>7. InOrder(DownBefore, new)
    BY <2>1, <2>2, <2>3, <2>6, InOrderAppend DEF DownInv, DownOrder
  <2>8. DownOrder'
    BY <2>1, <2>3, <2>4, <2>6, <2>7 DEF DownInv, DownOrder, Before
  <2>9. DownKept'
    BY <2>1, <2>3, <2>4 DEF DownInv, DownKept, Thrown
  <2>10. (\A b \in ToSet(console) \cup ToSet(out_buffer) : b <= downs)'
    BY <2>1, <2>3, <2>4 DEF DownInv, Notice
  <2>11. QED
    BY <2>3, <2>8, <2>9, <2>10 DEF DownInv
<1>3. QED
  BY <1>1, <1>2

\* What send() takes is the first part of the buffer.
LEMMA DownWrites ==
  ASSUME DownInv, NEW c \in Clients, Write(c)
  PROVE  DownInv'
<1>1. PICK old \in Seq(Nat) : old = out_buffer
  BY DEF DownInv
<1>2. PICK n \in 0 .. Len(old) :
        /\ out_buffer' = SubSeq(old, n + 1, Len(old))
        /\ fromServer' = [fromServer EXCEPT ![c] = @ \o SubSeq(old, 1, n)]
  <2>1. PICK n \in 0 .. ChunkMax : n <= Len(out_buffer) /\ Sent(c, n)
    BY DEF Write
  <2>2. n \in 0 .. Len(old)
    BY <1>1, <2>1, UartAssumption
  <2>3. QED
    BY <1>1, <2>1, <2>2 DEF Sent
<1>3. UNCHANGED <<downs, console, cleared>>
  BY DEF Write, worldVars
<1>4. PICK sent \in Seq(Nat) : sent = SubSeq(old, 1, n)
  BY CutJoins
<1>5. PICK rest \in Seq(Nat) : rest = SubSeq(old, n + 1, Len(old))
  BY CutJoins
<1>6. /\ InOrder(DownBefore, sent) /\ InOrder(DownBefore, rest)
      /\ Before(DownBefore, ToSet(sent), ToSet(rest))
      /\ ToSet(old) = ToSet(sent) \cup ToSet(rest)
  <2>1. InOrder(DownBefore, old)
    BY <1>1 DEF DownInv, DownOrder
  <2>2. QED
    BY <1>4, <1>5, <2>1, InOrderCut
<1>7. fromServer \in [Clients -> Seq(Nat)]
  BY DEF DownInv
<1>8. PICK got \in Seq(Nat) : got = fromServer[c]
  BY <1>7
<1>9. PICK new \in Seq(Nat) : new = got \o sent
  <2>1. got \o sent \in Seq(Nat)
    BY ToSetJoin
  <2>2. QED
    BY <2>1
<1>10. /\ fromServer' \in [Clients -> Seq(Nat)]
       /\ \A d \in Clients : fromServer'[d] = IF d = c THEN new ELSE fromServer[d]
  BY <1>2, <1>4, <1>7, <1>8, <1>9
<1>11. ToSet(new) = ToSet(got) \cup ToSet(sent)
  BY <1>9, ToSetJoin
<1>12. /\ InOrder(DownBefore, got) /\ Before(DownBefore, ToSet(got), ToSet(old))
       /\ Before(DownBefore, ToSet(got), ToSet(console))
       /\ Before(DownBefore, ToSet(old), ToSet(console))
  BY <1>1, <1>8 DEF DownInv, DownOrder
<1>13. /\ Before(DownBefore, ToSet(got), ToSet(sent))
       /\ Before(DownBefore, ToSet(new), ToSet(rest))
       /\ Before(DownBefore, ToSet(new), ToSet(console))
       /\ Before(DownBefore, ToSet(rest), ToSet(console))
  BY <1>6, <1>11, <1>12 DEF Before
<1>14. InOrder(DownBefore, new)
  BY <1>6, <1>9, <1>12, <1>13, InOrderJoin
<1>15. out_buffer' = rest
  BY <1>2, <1>5
<1>16. \A d \in Clients :
         /\ InOrder(DownBefore, fromServer'[d])
         /\ Before(DownBefore, ToSet(fromServer'[d]), ToSet(rest))
         /\ Before(DownBefore, ToSet(fromServer'[d]), ToSet(console))
  <2>1. ASSUME NEW d \in Clients, d # c
        PROVE  /\ InOrder(DownBefore, fromServer'[d])
               /\ Before(DownBefore, ToSet(fromServer'[d]), ToSet(rest))
               /\ Before(DownBefore, ToSet(fromServer'[d]), ToSet(console))
    <3>1. /\ InOrder(DownBefore, fromServer[d])
          /\ Before(DownBefore, ToSet(fromServer[d]), ToSet(old))
          /\ Before(DownBefore, ToSet(fromServer[d]), ToSet(console))
      BY <1>1 DEF DownInv, DownOrder
    <3>2. QED
      BY <1>6, <1>10, <2>1, <3>1 DEF Before
  <2>2. QED
    BY <1>10, <1>13, <1>14, <2>1
<1>17. DownOrder'
  BY <1>3, <1>6, <1>13, <1>15, <1>16 DEF DownInv, DownOrder
<1>18. DownKept'
  <2>1. ASSUME NEW b \in 1 .. downs
        PROVE  \/ b \in ToSet(console) \/ b \in ToSet(rest)
               \/ \E d \in Clients : b \in ToSet(fromServer'[d])
               \/ Thrown("down", b)
    <3>1. CASE b \in ToSet(out_buffer)
      BY <1>1, <1>6, <1>10, <1>11, <3>1
    <3>2. CASE \E d \in Clients : b \in ToSet(fromServer[d])
      <4>1. PICK d \in Clients : b \in ToSet(fromServer[d])
        BY <3>2
      <4>2. b \in ToSet(fromServer'[d])
        BY <1>8, <1>10, <1>11, <4>1
      <4>3. QED
        BY <4>2
    <3>3. QED
      BY <3>1, <3>2 DEF DownInv, DownKept
  <2>2. QED
    BY <1>3, <1>15, <2>1 DEF DownKept, Thrown
<1>19. \A d \in Clients : \A b \in ToSet(fromServer'[d]) : b <= downs
  <2>1. \A b \in ToSet(sent) : b <= downs
    BY <1>1, <1>6 DEF DownInv
  <2>2. \A d \in Clients : \A b \in ToSet(fromServer[d]) : b <= downs
    BY DEF DownInv
  <2>3. QED
    BY <1>8, <1>10, <1>11, <2>1, <2>2
<1>20. \A b \in ToSet(console) \cup ToSet(rest) : b <= downs
  BY <1>1, <1>6 DEF DownInv
<1>21. QED
  BY <1>3, <1>10, <1>15, <1>17, <1>18, <1>19, <1>20 DEF DownInv

\* What is read from the console goes to the buffer whole, or is lost whole.
LEMMA DownReads ==
  ASSUME DownInv, ReadConsole
  PROVE  DownInv'
<1>1. PICK old \in Seq(Nat) : old = console
  BY DEF DownInv
<1>2. PICK n \in 0 .. Len(old) :
        /\ console' = SubSeq(old, n + 1, Len(old))
        /\ \/ out_buffer' = out_buffer \o SubSeq(old, 1, n) /\ UNCHANGED cleared
           \/ /\ cleared' = cleared \cup {<<"down", b, Server>> : b \in ToSet(SubSeq(old, 1, n))}
              /\ UNCHANGED out_buffer
  <2>1. PICK n \in 1 .. ChunkMax :
          /\ n <= Len(old)
          /\ console' = SubSeq(old, n + 1, Len(old))
          /\ IF Len(out_buffer) + n <= BufferMax
             THEN out_buffer' = out_buffer \o SubSeq(old, 1, n) /\ UNCHANGED cleared
             ELSE /\ cleared' = cleared \cup {<<"down", b, Server>> : b \in ToSet(SubSeq(old, 1, n))}
                  /\ UNCHANGED out_buffer
    BY <1>1 DEF ReadConsole
  <2>2. n \in 0 .. Len(old)
    BY <2>1, UartAssumption
  <2>3. QED
    BY <2>1, <2>2
<1>3. UNCHANGED <<downs, fromServer>>
  BY DEF ReadConsole
<1>4. PICK bytes \in Seq(Nat) : bytes = SubSeq(old, 1, n)
  BY CutJoins
<1>5. PICK rest \in Seq(Nat) : rest = SubSeq(old, n + 1, Len(old))
  BY CutJoins
<1>6. /\ InOrder(DownBefore, bytes) /\ InOrder(DownBefore, rest)
      /\ Before(DownBefore, ToSet(bytes), ToSet(rest))
      /\ ToSet(old) = ToSet(bytes) \cup ToSet(rest)
  <2>1. InOrder(DownBefore, old)
    BY <1>1 DEF DownInv, DownOrder
  <2>2. QED
    BY <1>4, <1>5, <2>1, InOrderCut
<1>7. PICK queued \in Seq(Nat) : queued = out_buffer
  BY DEF DownInv
<1>8. /\ InOrder(DownBefore, queued) /\ Before(DownBefore, ToSet(queued), ToSet(old))
      /\ \A c \in Clients :
           /\ InOrder(DownBefore, fromServer[c])
           /\ Before(DownBefore, ToSet(fromServer[c]), ToSet(queued))
           /\ Before(DownBefore, ToSet(fromServer[c]), ToSet(old))
  BY <1>1, <1>7 DEF DownInv, DownOrder
<1>9. console' = rest
  BY <1>2, <1>5
<1>10. CASE out_buffer' = queued \o bytes /\ UNCHANGED cleared
  <2>1. PICK new \in Seq(Nat) : new = queued \o bytes /\ out_buffer' = new
    BY <1>10, ToSetJoin
  <2>2. ToSet(new) = ToSet(queued) \cup ToSet(bytes)
    BY <2>1, ToSetJoin
  <2>3. /\ Before(DownBefore, ToSet(queued), ToSet(bytes))
        /\ Before(DownBefore, ToSet(new), ToSet(rest))
    BY <1>6, <1>8, <2>2 DEF Before
  <2>4. InOrder(DownBefore, new)
    BY <1>6, <1>8, <2>1, <2>3, InOrderJoin
  <2>5. \A c \in Clients :
          /\ InOrder(DownBefore, fromServer[c])
          /\ Before(DownBefore, ToSet(fromServer[c]), ToSet(new))
          /\ Before(DownBefore, ToSet(fromServer[c]), ToSet(rest))
    BY <1>6, <1>8, <2>2 DEF Before
  <2>6. DownOrder'
    BY <1>3, <1>6, <1>9, <2>1, <2>3, <2>4, <2>5 DEF DownOrder
  <2>7. ToSet(new) \cup ToSet(rest) = ToSet(out_buffer) \cup ToSet(console)
    BY <1>1, <1>6, <1>7, <2>2
  <2>8. DownKept'
    BY <1>3, <1>9, <1>10, <2>1, <2>7 DEF DownInv, DownKept, Thrown
  <2>9. QED
    BY <1>3, <1>9, <2>1, <2>6, <2>7, <2>8 DEF DownInv
<1>11. CASE /\ cleared' = cleared \cup {<<"down", b, Server>> : b \in ToSet(bytes)}
            /\ UNCHANGED out_buffer
  <2>1. Before(DownBefore, ToSet(queued), ToSet(rest))
    BY <1>6, <1>8 DEF Before
  <2>2. \A c \in Clients : Before(DownBefore, ToSet(fromServer[c]), ToSet(rest))
    BY <1>6, <1>8 DEF Before
  <2>3. DownOrder'
    BY <1>3, <1>6, <1>7, <1>8, <1>9, <1>11, <2>1, <2>2 DEF DownOrder
  <2>4. DownKept'
    BY <1>1, <1>3, <1>6, <1>9, <1>11 DEF DownInv, DownKept, Thrown
  <2>5. \A b \in ToSet(rest) \cup ToSet(out_buffer) : b <= downs
    BY <1>1, <1>6 DEF DownInv
  <2>6. QED
    BY <1>3, <1>9, <1>11, <2>3, <2>4, <2>5 DEF DownInv
<1>12. QED
  BY <1>2, <1>4, <1>7, <1>10, <1>11

LEMMA DownStutters ==
  ASSUME DownInv, UNCHANGED uart_vars
  PROVE  DownInv'
<1>1. UNCHANGED <<downs, console, out_buffer, fromServer, cleared>>
  BY DEF uart_vars, serverVars, worldVars, history
<1>2. QED
  BY <1>1, DownRests

LEMMA DownStep ==
  ASSUME OneInv, DownInv, UartNext
  PROVE  DownInv'
<1>1. CASE ConsoleSends
  BY <1>1, DownSends
<1>2. ASSUME NEW c \in Clients, Write(c) PROVE DownInv'
  BY <1>2, DownWrites
<1>3. CASE ReadConsole
  BY <1>3, DownReads
<1>4. ASSUME NEW c \in Clients, ReadEnd(c) \/ ReadError(c) \/ WriteError(c) PROVE DownInv'
  <2>1. c \in open /\ Close(c) /\ UNCHANGED fromServer /\ UNCHANGED worldVars
    BY <1>4 DEF ReadEnd, ReadError, WriteError
  <2>2. UNCHANGED <<downs, console>>
    BY <2>1 DEF worldVars
  <2>3. QED
    BY <2>1, <2>2, DownCloses
<1>5. CASE EndPoll
  <2>1. UNCHANGED <<downs, console, fromServer>>
    BY <1>5 DEF EndPoll, worldVars
  <2>2. CASE Top.then \in open
    <3>1. Close(Top.then)
      BY <1>5, <2>2 DEF EndPoll
    <3>2. QED
      BY <2>1, <2>2, <3>1, DownCloses
  <2>3. CASE Top.then \notin open
    <3>1. UNCHANGED <<out_buffer, cleared>>
      BY <1>5, <2>3 DEF EndPoll
    <3>2. QED
      BY <2>1, <3>1, DownRests
  <2>4. QED
    BY <2>2, <2>3
<1>6. CASE Reject
  <2>1. out_buffer' = Notified /\ UNCHANGED <<downs, console, fromServer, cleared>>
    BY <1>6 DEF Reject, history
  <2>2. QED
    BY <2>1, DownNotifies
<1>7. CASE Connect \/ \E c \in Clients : ClientSends(c) \/ ClientEnds(c)
  <2>1. UNCHANGED <<downs, console, out_buffer, fromServer, cleared>>
    BY <1>7 DEF Connect, ClientSends, ClientEnds, serverVars, history
  <2>2. QED
    BY <2>1, DownRests
<1>8. CASE BeginPoll \/ Accept \/ ConsoleQuiet
  <2>1. UNCHANGED <<downs, console, out_buffer, fromServer, cleared>>
    BY <1>8 DEF BeginPoll, Accept, ConsoleQuiet, worldVars, history
  <2>2. QED
    BY <2>1, DownRests
<1>9. ASSUME NEW c \in Clients, SkipClosed(c) PROVE DownInv'
  <2>1. UNCHANGED <<downs, console, out_buffer, fromServer, cleared>>
    BY <1>9 DEF SkipClosed, worldVars, history
  <2>2. QED
    BY <2>1, DownRests
<1>10. ASSUME NEW c \in Clients, ReadBytes(c) PROVE DownInv'
  <2>1. UNCHANGED <<downs, console, out_buffer, fromServer>>
    BY <1>10 DEF ReadBytes
  <2>2. cleared \subseteq cleared'
    BY <1>10 DEF ReadBytes
  <2>3. QED
    BY <2>1, <2>2, DownRests
<1>11. CASE WriteConsole
  <2>1. UNCHANGED <<downs, console, out_buffer, fromServer, cleared>>
    BY <1>11 DEF WriteConsole, worldVars
  <2>2. QED
    BY <2>1, DownRests
<1>12. QED
  BY <1>1, <1>2, <1>3, <1>4, <1>5, <1>6, <1>7, <1>8, <1>9, <1>10, <1>11
  DEF UartNext, UartWorld, Handle

-----------------------------------------------------------------------------
(* Whose bytes are lost to whom *)

\* A byte that came to nothing by the close of another client's channel.
Innocent(e) == e[1] = "up" /\ e[3] \notin {Server, e[2][1]}

\* Those on the way out are the clients that handleAccept() turned away, and when the main
\* loop goes on none of them is open; what waits for the console is of open channels.
AwayInv ==
  /\ rejected \subseteq 1 .. accepted
  /\ TurnedAway \subseteq rejected \cup {Server}
  /\ rejected \cap open \subseteq TurnedAway
  /\ at # "poll" => polls = << >>
  /\ \A b \in ToSet(in_buffer) : b[1] \in open
  /\ \A b \in ToSet(toConsole) : b[1] \in (1 .. accepted) \ rejected
  /\ \A e \in cleared : Innocent(e) => {e[3], e[2][1]} \cap rejected # {}

LEMMA AwayStarts ==
  ASSUME UartInit
  PROVE  AwayInv
<1>1. /\ rejected = {} /\ polls = << >> /\ open = {} /\ in_buffer = << >>
      /\ toConsole = << >> /\ cleared = {}
  BY DEF UartInit
<1>2. TurnedAway = {}
  BY <1>1 DEF TurnedAway
<1>3. QED
  BY <1>1, <1>2, ToSetNone DEF AwayInv

LEMMA AwayRests ==
  ASSUME AwayInv, UNCHANGED <<accepted, rejected, polls, at, open, in_buffer, toConsole, cleared>>
  PROVE  AwayInv'
BY DEF AwayInv, TurnedAway

\* A channel that is closed empties the bytes of another only if one of the two is on the
\* way out.
LEMMA AwayCloses ==
  ASSUME OneInv, AwayInv, NEW c \in open, Close(c),
         UNCHANGED <<accepted, rejected, toConsole>>,
         TurnedAway' \subseteq TurnedAway, TurnedAway \subseteq TurnedAway' \cup {c},
         at' # "poll" => polls' = << >>
  PROVE  AwayInv'
<1>1. /\ open' = open \ {c} /\ in_buffer' = << >>
      /\ cleared' = cleared \cup {<<"up", b, c>> : b \in ToSet(in_buffer)}
                            \cup {<<"down", b, c>> : b \in ToSet(out_buffer)}
  BY DEF Close
<1>2. rejected' \cap open' \subseteq TurnedAway'
  BY <1>1 DEF AwayInv
<1>3. ASSUME NEW e \in cleared', Innocent(e)
      PROVE  {e[3], e[2][1]} \cap rejected # {}
  <2>1. CASE e \in cleared
    BY <1>3, <2>1 DEF AwayInv
  <2>2. CASE e \notin cleared
    <3>1. PICK b \in ToSet(in_buffer) : e = <<"up", b, c>>
      BY <1>1, <1>3, <2>2 DEF Innocent
    <3>2. b[1] \in open /\ b[1] # c
      BY <1>3, <3>1 DEF AwayInv, Innocent
    <3>3. c \in TurnedAway \/ b[1] \in TurnedAway
      BY <3>2 DEF OneInv
    <3>4. c \in rejected \/ b[1] \in rejected
      BY <3>2, <3>3, OpenIsFinite DEF AwayInv
    <3>5. QED
      BY <3>1, <3>4
  <2>3. QED
    BY <2>1, <2>2
<1>4. QED
  BY <1>1, <1>2, <1>3, ToSetNone DEF AwayInv

LEMMA AwayAccepts ==
  ASSUME OneInv, AwayInv, Accept \/ Reject
  PROVE  AwayInv'
<1>1. /\ polls # << >> /\ polls \in Seq(Poll) /\ accepted' = accepted + 1
      /\ open' = open \cup {accepted + 1} /\ UNCHANGED <<at, in_buffer, toConsole, cleared>>
  BY DEF Accept, Reject, NextRead, Polling, OneInv, history
<1>2. at = "poll"
  BY <1>1 DEF AwayInv
<1>3. accepted + 1 \notin rejected /\ accepted \in Nat
  BY DEF OneInv, AwayInv
<1>4. CASE Accept
  <2>1. polls' = ReadDone(Server) /\ UNCHANGED rejected
    BY <1>4 DEF Accept, history
  <2>2. TurnedAway' = TurnedAway
    BY <1>1, <2>1, PollGoesOn
  <2>3. QED
    BY <1>1, <1>2, <1>3, <2>1, <2>2 DEF AwayInv
<1>5. CASE Reject
  <2>1. rejected' = rejected \cup {accepted + 1}
    BY <1>5 DEF Reject
  <2>2. TurnedAway' = TurnedAway \cup {accepted + 1}
    BY <1>5, RejectTurnsAway
  <2>3. \A b \in ToSet(toConsole) : b[1] \in (1 .. accepted + 1) \ (rejected \cup {accepted + 1})
    BY <1>3 DEF AwayInv
  <2>4. \A e \in cleared : Innocent(e) => {e[3], e[2][1]} \cap (rejected \cup {accepted + 1}) # {}
    BY DEF AwayInv
  <2>5. rejected \cup {accepted + 1} \subseteq 1 .. accepted + 1
    BY <1>3 DEF AwayInv
  <2>6. /\ TurnedAway' \subseteq rejected' \cup {Server}
        /\ rejected' \cap open' \subseteq TurnedAway'
    BY <1>1, <2>1, <2>2 DEF AwayInv
  <2>7. (at # "poll" => polls = << >>)' /\ \A b \in ToSet(in_buffer') : b[1] \in open'
    BY <1>1, <1>2 DEF AwayInv
  <2>8. QED
    BY <1>1, <2>1, <2>3, <2>4, <2>5, <2>6, <2>7 DEF AwayInv
<1>6. QED
  BY <1>4, <1>5

\* What is read is of an open channel; what finds no room is lost to nobody's close.
LEMMA AwayReads ==
  ASSUME AwayInv, UpInv, NEW c \in open, c \in Clients, ReadBytes(c),
         UNCHANGED <<accepted, rejected, open, at>>, TurnedAway' = TurnedAway, at = "poll"
  PROVE  AwayInv'
<1>1. PICK bytes \in Seq(UpBytes) : bytes = toServer[c]
  BY DEF UpInv
<1>2. PICK kept : /\ kept = Kept(c, bytes)
                  /\ in_buffer' = in_buffer \o kept
                  /\ cleared' = cleared \cup {<<"up", b, Server>> : b \in ToSet(bytes) \ ToSet(kept)}
  BY <1>1 DEF ReadBytes
<1>3. PICK n \in 0 .. Len(bytes) : kept = SubSeq(bytes, 1, n)
  <2>1. in_buffer \in Seq(UpBytes)
    BY DEF UpInv
  <2>2. QED
    BY <1>2, <2>1, KeptIsFirst
<1>4. kept \in Seq(UpBytes) /\ ToSet(kept) \subseteq ToSet(bytes)
  <2>1. InOrder(UpBefore, bytes)
    BY <1>1 DEF UpInv, UpOrder
  <2>2. QED
    BY <1>3, <2>1, CutJoins, InOrderCut
<1>5. ToSet(in_buffer') = ToSet(in_buffer) \cup ToSet(kept)
  <2>1. PICK old \in Seq(UpBytes) : old = in_buffer
    BY DEF UpInv
  <2>2. PICK new \in Seq(UpBytes) : new = kept
    BY <1>4
  <2>3. ToSet(old \o new) = ToSet(old) \cup ToSet(new)
    BY ToSetJoin
  <2>4. QED
    BY <1>2, <2>1, <2>2, <2>3
<1>6. \A b \in ToSet(in_buffer') : b[1] \in open'
  BY <1>1, <1>4, <1>5 DEF AwayInv, UpInv
<1>7. \A e \in cleared' : Innocent(e) => {e[3], e[2][1]} \cap rejected # {}
  <2>1. \A e \in cleared' : e \in cleared \/ e[3] = Server
    BY <1>2
  <2>2. QED
    BY <2>1 DEF AwayInv, Innocent
<1>8. UNCHANGED toConsole
  BY DEF ReadBytes
<1>9. QED
  BY <1>6, <1>7, <1>8 DEF AwayInv

LEMMA AwayHandles ==
  ASSUME OneInv, AwayInv, UpInv, NEW c \in Clients, Handle(c)
  PROVE  AwayInv'
<1>1. /\ polls # << >> /\ polls \in Seq(Poll) /\ (polls' = ReadDone(c) \/ polls' = WriteDone(c))
      /\ UNCHANGED <<at, rejected, toConsole>> /\ UNCHANGED accepted
  BY DEF Handle, SkipClosed, ReadBytes, ReadEnd, ReadError, Write, WriteError, OneInv,
         NextRead, NextWrite, Polling, worldVars, history
<1>2. TurnedAway' = TurnedAway
  BY <1>1, PollGoesOn
<1>3. at = "poll"
  BY <1>1 DEF AwayInv
<1>4. CASE ReadEnd(c) \/ ReadError(c) \/ WriteError(c)
  <2>1. c \in open /\ Close(c)
    BY <1>4 DEF ReadEnd, ReadError, WriteError
  <2>2. QED
    BY <1>1, <1>2, <1>3, <2>1, AwayCloses
<1>5. CASE SkipClosed(c) \/ Write(c)
  <2>1. UNCHANGED <<open, in_buffer, cleared>>
    BY <1>5 DEF SkipClosed, Write, history
  <2>2. QED
    BY <1>1, <1>2, <1>3, <2>1 DEF AwayInv
<1>6. CASE ReadBytes(c)
  <2>1. c \in open /\ UNCHANGED open
    BY <1>6 DEF ReadBytes
  <2>2. QED
    BY <1>1, <1>2, <1>3, <1>6, <2>1, AwayReads
<1>7. QED
  BY <1>4, <1>5, <1>6 DEF Handle

LEMMA AwayEndsPoll ==
  ASSUME OneInv, AwayInv, EndPoll
  PROVE  AwayInv'
<1>1. /\ UNCHANGED <<toConsole, rejected>> /\ UNCHANGED accepted
      /\ at' = IF Len(polls) = 1 THEN "write" ELSE at
  BY DEF EndPoll, worldVars
<1>2. at = "poll"
  BY EndPollTurns DEF AwayInv
<1>3. at' # "poll" => polls' = << >>
  BY <1>1, <1>2, EndPollTurns
<1>4. CASE Top.then \in open
  <2>1. Close(Top.then)
    BY <1>4 DEF EndPoll
  <2>2. QED
    BY <1>1, <1>3, <1>4, <2>1, EndPollTurns, AwayCloses
<1>5. CASE Top.then \notin open
  <2>1. UNCHANGED <<open, in_buffer, cleared>>
    BY <1>5 DEF EndPoll
  <2>2. rejected \cap open \subseteq TurnedAway'
    BY <1>5, EndPollTurns DEF AwayInv
  <2>3. QED
    BY <1>1, <1>3, <2>1, <2>2, EndPollTurns DEF AwayInv
<1>6. QED
  BY <1>4, <1>5

\* When the console is written to, nothing of a client that was turned away is left.
LEMMA AwayWrites ==
  ASSUME AwayInv, OneInv, UpInv, WriteConsole
  PROVE  AwayInv'
<1>1. /\ at = "write" /\ at' = "read" /\ UNCHANGED <<polls, open, rejected, cleared>>
      /\ UNCHANGED accepted
  BY DEF WriteConsole, worldVars
<1>2. polls = << >>
  BY <1>1 DEF AwayInv
<1>3. rejected \cap open = {} /\ TurnedAway = {}
  BY <1>2 DEF AwayInv, TurnedAway
<1>4. PICK old \in Seq(UpBytes) : old = in_buffer
  BY DEF UpInv
<1>5. PICK n \in 0 .. Len(old) :
        /\ toConsole' = toConsole \o SubSeq(old, 1, n)
        /\ in_buffer' = SubSeq(old, n + 1, Len(old))
  BY <1>4 DEF WriteConsole
<1>6. PICK sent \in Seq(UpBytes) : sent = SubSeq(old, 1, n)
  BY CutJoins
<1>7. ToSet(old) = ToSet(sent) \cup ToSet(in_buffer')
  <2>1. InOrder(UpBefore, old)
    BY <1>4 DEF UpInv, UpOrder
  <2>2. QED
    BY <1>5, <1>6, <2>1, InOrderCut
<1>8. ToSet(toConsole') = ToSet(toConsole) \cup ToSet(sent)
  BY <1>5, <1>6, ToSetJoin DEF UpInv
<1>9. \A b \in ToSet(old) : b[1] \in (1 .. accepted) \ rejected /\ b[1] \in open
  BY <1>3, <1>4 DEF AwayInv, OneInv
<1>10. TurnedAway' = TurnedAway
  BY <1>1 DEF TurnedAway
<1>11. QED
  BY <1>1, <1>2, <1>7, <1>8, <1>9, <1>10 DEF AwayInv

LEMMA AwayStep ==
  ASSUME OneInv, AwayInv, UpInv, UartNext
  PROVE  AwayInv'
<1>1. CASE UartWorld
  <2>1. UNCHANGED <<accepted, rejected, polls, at, open, in_buffer, toConsole, cleared>>
    BY <1>1 DEF UartWorld, Connect, ConsoleSends, ClientSends, ClientEnds, serverVars, history
  <2>2. QED
    BY <2>1, AwayRests
<1>2. CASE BeginPoll
  <2>1. /\ polls = << >> /\ at = "poll"
        /\ UNCHANGED <<accepted, rejected, at, open, in_buffer, toConsole, cleared>>
    BY <1>2 DEF BeginPoll, worldVars, history
  <2>2. PICK p \in Ready : polls' = <<p>>
    BY <1>2 DEF BeginPoll
  <2>3. p.then = Server
    BY <2>2 DEF Ready
  <2>4. TurnedAway = {} /\ TurnedAway' = {Server}
    BY <2>1, <2>2, <2>3 DEF TurnedAway
  <2>5. QED
    BY <2>1, <2>4 DEF AwayInv
<1>3. CASE ReadConsole
  <2>1. /\ at = "read" /\ at' = "poll"
        /\ UNCHANGED <<accepted, rejected, polls, open, in_buffer, toConsole>>
    BY <1>3 DEF ReadConsole
  <2>2. \A e \in cleared' : e \in cleared \/ e[1] = "down"
    BY <1>3 DEF ReadConsole
  <2>3. QED
    BY <2>1, <2>2 DEF AwayInv, Innocent, TurnedAway
<1>4. CASE ConsoleQuiet
  <2>1. /\ at' = "poll"
        /\ UNCHANGED <<accepted, rejected, polls, open, in_buffer, toConsole, cleared>>
    BY <1>4 DEF ConsoleQuiet, worldVars, history
  <2>2. QED
    BY <2>1 DEF AwayInv, TurnedAway
<1>5. QED
  BY <1>1, <1>2, <1>3, <1>4, AwayAccepts, AwayHandles, AwayEndsPoll, AwayWrites DEF UartNext

LEMMA AwayStutters ==
  ASSUME AwayInv, UNCHANGED uart_vars
  PROVE  AwayInv'
<1>1. UNCHANGED <<accepted, rejected, polls, at, open, in_buffer, toConsole, cleared>>
  BY DEF uart_vars, serverVars, worldVars, history
<1>2. QED
  BY <1>1, AwayRests

LEMMA NothingLost ==
  ASSUME UpInv, DownInv, AwayInv
  PROVE  BytesAreKept
<1>1. ASSUME NEW i \in DOMAIN (toConsole \o in_buffer), NEW j \in DOMAIN (toConsole \o in_buffer),
             i < j, (toConsole \o in_buffer)[i][1] = (toConsole \o in_buffer)[j][1]
      PROVE  (toConsole \o in_buffer)[i][2] < (toConsole \o in_buffer)[j][2]
  <2>1. InOrder(UpBefore, toConsole \o in_buffer)
    BY InOrderJoin DEF UpInv, UpOrder
  <2>2. <<(toConsole \o in_buffer)[i], (toConsole \o in_buffer)[j]>> \in UpBefore
    BY <1>1, <2>1 DEF InOrder
  <2>3. QED
    BY <1>1, <2>2 DEF UpBefore
<1>2. ASSUME NEW c \in Clients,
             NEW i \in DOMAIN (fromServer[c] \o out_buffer), NEW j \in DOMAIN (fromServer[c] \o out_buffer),
             i < j, Notice \notin {(fromServer[c] \o out_buffer)[i], (fromServer[c] \o out_buffer)[j]}
      PROVE  (fromServer[c] \o out_buffer)[i] < (fromServer[c] \o out_buffer)[j]
  <2>1. InOrder(DownBefore, fromServer[c] \o out_buffer)
    <3>1. fromServer[c] \in Seq(Nat) /\ out_buffer \in Seq(Nat)
      BY DEF DownInv
    <3>2. QED
      BY <3>1, InOrderJoin DEF DownInv, DownOrder
  <2>2. <<(fromServer[c] \o out_buffer)[i], (fromServer[c] \o out_buffer)[j]>> \in DownBefore
    BY <1>2, <2>1 DEF InOrder
  <2>3. QED
    BY <1>2, <2>2 DEF DownBefore
<1>3. NothingReordered
  BY <1>1, <1>2 DEF NothingReordered
<1>4. NothingLeaks
  BY DEF UpInv, UpKept, DownInv, DownKept, NothingLeaks
<1>5. TurnedAwayIsUnheard
  BY DEF AwayInv, Innocent, TurnedAwayIsUnheard
<1>6. QED
  BY <1>3, <1>4, <1>5 DEF BytesAreKept

\* Through partial writes, polls within polls, errors and closings, a byte that the server
\* read is written once and in its turn, or waits in the buffer, or was thrown away by a
\* close or for want of room; of a client that is turned away none is written, and of a
\* client that is not, none is thrown away by the end of another one that is not: for any
\* sizes, any number of clients and of bytes.
THEOREM Uart_BytesAreKept == UartSpec => []BytesAreKept
<1> DEFINE IInv == OneInv /\ AwayInv /\ UpInv /\ DownInv
<1>1. UartInit => IInv
  BY OneStarts, AwayStarts, UpStarts, DownStarts
<1>2. IInv /\ [UartNext]_uart_vars => IInv'
  BY OneStep, OneStutters, AwayStep, AwayStutters, UpStep, UpStutters, DownStep, DownStutters
<1>3. IInv => BytesAreKept
  BY NothingLost
<1>4. QED
  BY <1>1, <1>2, <1>3, PTL DEF UartSpec

=============================================================================
