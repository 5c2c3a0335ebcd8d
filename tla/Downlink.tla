------------------------------ MODULE Downlink ------------------------------
(***************************************************************************)
(* The telemetry side of the remote link over a uart: the skip counters of *)
(* remote_link_imu(), remote_link_ap() and the others, the fifo of whole   *)
(* packets in front of a port that takes a few bytes at a time             *)
(* (src/comms/remote_link.cpp with netBuffer of src/comms/netBuffer.h),    *)
(* and the waypoint that FGRouteMgr::update() reports in each autopilot    *)
(* packet (src/control/route_mgr.cxx).                                     *)
(*                                                                         *)
(* A packet is its stream and, for the autopilot stream, the index of the  *)
(* waypoint in it.  A byte is a packet and a position; framing, checksum   *)
(* and the other contents are left out.                                    *)
(***************************************************************************)
EXTENDS Integers, SequencesExt

CONSTANTS
  Streams,       \* the kinds of packets but the autopilot's
  Size,          \* framed size of a packet, by stream
  SkipCount,     \* /config/remote-link/...-skip, by stream
  FifoMax,     \* the size of serial_buffer
  WriteMax,      \* bytes_per_loop
  PortMax,       \* bytes that the uart driver holds
  NumWaypoints   \* size of the route

AP == "ap"
AllStreams == Streams \cup {AP}
HomeIndex  == 65535

ASSUME StreamsAssumption == AP \notin Streams
ASSUME SizeAssumption == Size \in [AllStreams -> 1 .. 256]
ASSUME SkipAssumption == SkipCount \in [AllStreams -> Int]
ASSUME BufferAssumption ==
  /\ FifoMax \in Nat /\ WriteMax \in Nat \ {0} /\ PortMax \in Nat \ {0}
  /\ NumWaypoints \in Nat

VARIABLES
  link_open,
  serial_buffer,  \* the fifo
  port,           \* bytes the driver holds, the oldest first
  skip,           \* the static skip counters
  wp_index,       \* the static wp_index of FGRouteMgr::update()
  \* History:
  undelivered,    \* the packets that are wholly or partly in serial_buffer or port
  reported        \* the index in the last autopilot packet handed to the link

down_vars == <<link_open, serial_buffer, port, skip, wp_index, undelivered, reported>>

Indices == 0 .. (NumWaypoints - 1) \cup {HomeIndex}
DownPackets == [stream : AllStreams, index : Indices]
DownBytes   == [packet : DownPackets, pos : 1 .. 256]
NotYet  == -1

PacketBytes(p) == [k \in 1 .. Size[p.stream] |-> [packet |-> p, pos |-> k]]

\* skip_count as the code corrects it, and as one unsigned byte holds it.
Corrected(n) == IF n < 0 THEN 0 ELSE n
Byte(n)      == n % 256

DownTypeOK ==
  /\ link_open \in BOOLEAN
  /\ serial_buffer \in Seq(DownBytes) /\ Len(serial_buffer) <= FifoMax
  /\ port \in Seq(DownBytes) /\ Len(port) <= PortMax
  /\ skip \in [AllStreams -> 0 .. 255]
  /\ wp_index \in 0 .. NumWaypoints
  /\ undelivered \in Seq(DownPackets)
  /\ reported \in Indices \cup {NotYet}

\* The skip counters start at random, my_random(), so that the streams spread.
DownInit ==
  /\ link_open \in BOOLEAN
  /\ serial_buffer = << >> /\ port = << >>
  /\ skip \in [AllStreams -> UNION {0 .. Corrected(SkipCount[s]) : s \in AllStreams}]
  /\ \A s \in AllStreams : skip[s] <= 255 /\ skip[s] <= Corrected(SkipCount[s])
  /\ wp_index = 0
  /\ undelivered = << >>
  /\ reported = NotYet

-----------------------------------------------------------------------------
(* The serial fifo *)

\* Mutant: a fifo that is not full takes any packet.
FitsUntilFull(buffer, p) == Len(buffer) < FifoMax

Fits(buffer, p) == Len(buffer) + Size[p.stream] <= FifoMax

Smaller(m, n) == IF m < n THEN m ELSE n

\* Mutant: what fits of a packet is put into the fifo.
AppendPart(buffer, p) ==
  buffer \o SubSeq(PacketBytes(p), 1, Smaller(Size[p.stream], FifoMax - Len(buffer)))

\* netBuffer::append(): the whole packet or nothing.
AppendWhole(buffer, p) == IF Fits(buffer, p) THEN buffer \o PacketBytes(p) ELSE buffer

\* remote_link_flush_serial(): the driver takes some of at most WriteMax bytes.
FlushSerial(open, buffer) ==
  \E written \in 0 .. Smaller(Smaller(Len(buffer), WriteMax), PortMax - Len(port)) :
    /\ open \/ written = 0
    /\ port' = port \o SubSeq(buffer, 1, written)
    /\ serial_buffer' = SubSeq(buffer, written + 1, Len(buffer))

\* link_write(): a link that is not open is opened first, which may fail; the
\* packet waits in the fifo all the same.
LinkWrite(p) ==
  /\ link_open' \in {link_open, TRUE}
  /\ FlushSerial(link_open', AppendWhole(serial_buffer, p))
  /\ undelivered' = IF Fits(serial_buffer, p) THEN Append(undelivered, p) ELSE undelivered

\* The main loop's call at 5 Hz.
Flush ==
  /\ FlushSerial(link_open, serial_buffer)
  /\ UNCHANGED <<link_open, skip, wp_index, undelivered, reported>>

-----------------------------------------------------------------------------
(* The streams *)

Skip(s) == skip[s] > 0 /\ skip' = [skip EXCEPT ![s] = @ - 1]
Due(s)  == skip[s] = 0 /\ skip' = [skip EXCEPT ![s] = Byte(Corrected(SkipCount[s]))]

\* remote_link_imu() and its like.
SkipPacket(s) ==
  /\ Skip(s)
  /\ UNCHANGED <<link_open, serial_buffer, port, wp_index, undelivered, reported>>

SendPacket(s) ==
  /\ Due(s)
  /\ LinkWrite([stream |-> s, index |-> HomeIndex])
  /\ UNCHANGED <<wp_index, reported>>

ReportIndex == IF wp_index < NumWaypoints THEN wp_index ELSE HomeIndex

\* Mutant: home is left out of the turn.
NextIndexWithoutHome(n) == IF n + 1 >= NumWaypoints THEN 0 ELSE n + 1

NextIndex(n) == IF n + 1 >= NumWaypoints + 1 THEN 0 ELSE n + 1

\* FGRouteMgr::update() reports the waypoints in turn and then home; the turn
\* moves on when remote_link_ap() returns true, whether or not the fifo took
\* the packet.
SkipReport ==
  /\ Skip(AP)
  /\ UNCHANGED <<link_open, serial_buffer, port, wp_index, undelivered, reported>>

SendReport ==
  /\ Due(AP)
  /\ LinkWrite([stream |-> AP, index |-> ReportIndex])
  /\ reported' = ReportIndex
  /\ wp_index' = NextIndex(wp_index)

-----------------------------------------------------------------------------
(* The ground takes the bytes; it can tell a packet when it has all of it.   *)

GroundReceive ==
  /\ undelivered # << >> /\ IsPrefix(PacketBytes(Head(undelivered)), port)
  /\ port' = SubSeq(port, Size[Head(undelivered).stream] + 1, Len(port))
  /\ undelivered' = Tail(undelivered)
  /\ UNCHANGED <<link_open, serial_buffer, skip, wp_index, reported>>

-----------------------------------------------------------------------------

DownNext ==
  \/ \E s \in Streams : SkipPacket(s) \/ SendPacket(s)
  \/ SkipReport
  \/ SendReport
  \/ Flush
  \/ GroundReceive

\* The route manager runs at 25 Hz.
DownSpec == DownInit /\ [][DownNext]_down_vars /\ WF_down_vars(SkipReport \/ SendReport)

-----------------------------------------------------------------------------
(* Properties *)

\* What is on its way is the packets that the fifo took, whole, in order and
\* once each, however little the port takes at a time and however often the
\* fifo is full (link_write(), remote_link_flush_serial()).
StreamIsWholePackets ==
  port \o serial_buffer = FlattenSeq([i \in 1 .. Len(undelivered) |-> PacketBytes(undelivered[i])])

\* Once there are reports, every waypoint and home get their turn in them, again and
\* again (route_mgr.cxx:282-308).
EveryWaypointReported == \A i \in Indices : reported # NotYet ~> reported = i

=============================================================================
