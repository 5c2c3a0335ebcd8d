-------------------------------- MODULE Mnav --------------------------------
(***************************************************************************)
(* The MNAV board, src/sensors/mnav.cpp: mnav_start_nonblock_read() and    *)
(* mnav_read_nonblock() as IMU_update() calls them, what mnav_get_imu(),   *)
(* mnav_get_airdata() and mnav_get_gps() publish of it in the same tick,   *)
(* and the servo commands that Actuator_update() sends back.               *)
(*                                                                         *)
(* A packet is a sequence of bytes: two of sync, the type, data and a sum  *)
(* of 16 bits.  One with GPS data has a mark in it.  The line may lose     *)
(* bytes; a call ends when the port is empty or its time is over.          *)
(***************************************************************************)
EXTENDS Integers, Sequences, SequencesExt

CONSTANTS
  Payloads,       \* Payloads[t]: what the board sends between type and sum
  SensorLength,   \* SENSOR_PACKET_LENGTH, 51
  FullLength,     \* FULL_PACKET_SIZE, 86
  GpsAt,          \* where a full packet is marked: 33 from zero
  MaxPackets, MaxDropped,  \* bounds
  Deflections     \* what actuators are set to, in 1/32768

\* 'S' and 's' are packets without GPS data, 'N' and 'n' those with it.
SensorTypes == {83, 115}
FullTypes   == {78, 110}
Types       == SensorTypes \cup FullTypes

LengthOf(t) == IF t \in SensorTypes THEN SensorLength ELSE FullLength

ASSUME LengthAssumption ==
  /\ {SensorLength, FullLength} \subseteq Nat
  /\ 5 < SensorLength /\ SensorLength < FullLength /\ GpsAt \in 4 .. FullLength - 2
ASSUME PayloadAssumption ==
  /\ DOMAIN Payloads \subseteq Types
  /\ \A t \in DOMAIN Payloads : \A p \in Payloads[t] :
       p \in Seq(0 .. 255) /\ Len(p) = LengthOf(t) - 5
ASSUME DeflectionsAssumption == Deflections \subseteq -32768 .. 32768

VARIABLES
  packets,         \* those sent
  line,            \* bytes to come of the last one
  dropped_bytes,
  reading,         \* IMU_update() is reading
  headerOK,        \* sync bytes found by this call
  input_buffer,    \* what is kept between calls: none, or at least sync and type
  imu_data,        \* the packet last decoded
  gps_data,
  imu_data_valid, gps_data_valid,
  servo_in,        \* the packet that the receiver's channels were decoded from
  imu_node,        \* the packets that were published
  gps_node,
  commanded,       \* what the actuator nodes are set to
  servo_out        \* the channels that were last sent

readVars == <<reading, headerOK, input_buffer>>
dataVars == <<imu_data, gps_data, imu_data_valid, gps_data_valid, servo_in>>
nodeVars == <<imu_node, gps_node>>
servoVars == <<commanded, servo_out>>
mnavVars == <<packets, line, dropped_bytes, readVars, dataVars, nodeVars, servoVars>>

-----------------------------------------------------------------------------
(* Packets *)

SyncByte == 85

Summed(bytes) == FoldLeft(LAMBDA a, b : (a + b) % 65536, 0, bytes)

\* The board is not in the repository: it sums as checksum() does.
Packet(t, payload) ==
  LET sum == Summed(<<t>> \o payload)
  IN  <<SyncByte, SyncByte, t>> \o payload \o <<sum \div 256, sum % 256>>

checksum(p) ==
  p[Len(p) - 1] * 256 + p[Len(p)] = Summed(SubSeq(p, 3, Len(p) - 2))

-----------------------------------------------------------------------------
(* The board and the line *)

SendPacket(t, payload) ==
  /\ line = << >> /\ Len(packets) < MaxPackets
  /\ packets' = Append(packets, Packet(t, payload))
  /\ line' = Packet(t, payload)
  /\ UNCHANGED <<dropped_bytes, readVars, dataVars, nodeVars, servoVars>>

DropByte ==
  /\ line # << >> /\ dropped_bytes < MaxDropped
  /\ line' = Tail(line)
  /\ dropped_bytes' = dropped_bytes + 1
  /\ UNCHANGED <<packets, readVars, dataVars, nodeVars, servoVars>>

-----------------------------------------------------------------------------
(* mnav_read_nonblock() *)

\* Mutant: the flags stay.
BeginStale ==
  /\ ~reading /\ reading' = TRUE
  /\ headerOK' = 0
  /\ UNCHANGED <<packets, line, dropped_bytes, input_buffer, dataVars, nodeVars, servoVars>>

\* mnav_start_nonblock_read()
BeginRead ==
  /\ ~reading /\ reading' = TRUE
  /\ headerOK' = 0
  /\ imu_data_valid' = FALSE /\ gps_data_valid' = FALSE
  /\ UNCHANGED <<packets, line, dropped_bytes, input_buffer, imu_data, gps_data,
                 servo_in, nodeVars, servoVars>>

NextByte ==
  /\ reading
  /\ line # << >> /\ line' = Tail(line)
  /\ UNCHANGED <<packets, dropped_bytes, reading, nodeVars, servoVars>>

\* Two in a row begin a packet.
ReadSync ==
  /\ NextByte /\ input_buffer = << >> /\ headerOK < 2
  /\ headerOK' = IF Head(line) = SyncByte THEN headerOK + 1 ELSE 0
  /\ UNCHANGED <<input_buffer, dataVars>>

\* A packet of another type ends at once, and the search begins again.
ReadType ==
  /\ NextByte /\ input_buffer = << >> /\ headerOK = 2
  /\ input_buffer' = IF Head(line) \in Types THEN <<SyncByte, SyncByte, Head(line)>> ELSE << >>
  /\ headerOK' = 0
  /\ UNCHANGED dataVars

Decode(p) ==
  /\ imu_data' = p /\ imu_data_valid' = TRUE
  /\ servo_in' = IF p[3] \in {83, 78} THEN p ELSE servo_in
  /\ IF p[3] \in FullTypes /\ p[GpsAt] = 71  \* 'G'
     THEN gps_data' = p /\ gps_data_valid' = TRUE
     ELSE UNCHANGED <<gps_data, gps_data_valid>>

ReadData ==
  /\ NextByte /\ input_buffer # << >>
  /\ LET p == Append(input_buffer, Head(line))
     IN  IF Len(p) < LengthOf(p[3])
         THEN input_buffer' = p /\ UNCHANGED dataVars
         ELSE /\ input_buffer' = << >>
              /\ IF checksum(p) THEN Decode(p) ELSE UNCHANGED dataVars
  /\ UNCHANGED headerOK

\* The end of the call: a sync that is not complete is forgotten, a packet goes on with
\* the next call.  The sections that follow publish what this call decoded.
EndRead ==
  /\ reading /\ reading' = FALSE
  /\ headerOK' = 0
  /\ imu_node' = IF imu_data_valid THEN Append(imu_node, imu_data) ELSE imu_node
  /\ gps_node' = IF gps_data_valid THEN Append(gps_node, gps_data) ELSE gps_node
  /\ UNCHANGED <<packets, line, dropped_bytes, input_buffer, dataVars, servoVars>>

-----------------------------------------------------------------------------
(* mnav_gen_servo() and mnav_send_short_servo_cmd() *)

Channels == 0 .. 7

\* The servo position of a deflection, in uint16_t.  Full deflection is no int16_t: the
\* conversion wraps or saturates.
Positions(v) == IF v = 32768 THEN {0, 65535} ELSE {32768 + v}

\* The throttle is 0 to 1, all others are -1 to 1.
Deflection(c, v) == IF c = 2 THEN 2 * v - 32768 ELSE v

\* The channels 4 to 7 are all written to channel 0, and the last one stays there.
Written(c, command) ==
  IF c = 0 THEN Positions(command[7]) ELSE Positions(Deflection(c, command[c]))

\* One actuator is moved; the short command takes the channels 0 to 3.
SendServo ==
  /\ ~reading
  /\ \E c \in {0, 1, 2, 3, 7}, v \in Deflections :
       /\ c = 2 => v >= 0
       /\ commanded' = [[i \in Channels |-> 0] EXCEPT ![c] = v]
  /\ \E p0 \in Written(0, commanded'), p1 \in Written(1, commanded'),
        p2 \in Written(2, commanded'), p3 \in Written(3, commanded') :
       servo_out' = <<p0, p1, p2, p3>>
  /\ UNCHANGED <<packets, line, dropped_bytes, readVars, dataVars, nodeVars>>

-----------------------------------------------------------------------------

MnavTypeOK ==
  /\ Len(packets) <= MaxPackets /\ dropped_bytes \in 0 .. MaxDropped
  /\ headerOK \in 0 .. 2
  /\ input_buffer # << >> =>
       Len(input_buffer) \in 3 .. LengthOf(input_buffer[3]) - 1

MnavInit ==
  /\ packets = << >> /\ line = << >> /\ dropped_bytes = 0
  /\ reading = FALSE /\ headerOK = 0 /\ input_buffer = << >>
  /\ imu_data = << >> /\ gps_data = << >>
  /\ imu_data_valid = FALSE /\ gps_data_valid = FALSE
  /\ servo_in = << >>
  /\ imu_node = << >> /\ gps_node = << >>
  /\ commanded = [c \in Channels |-> 0] /\ servo_out = << >>

ReadNext ==
  \/ \E t \in DOMAIN Payloads : \E p \in Payloads[t] : SendPacket(t, p)
  \/ DropByte
  \/ BeginRead \/ ReadSync \/ ReadType \/ ReadData \/ EndRead

MnavNext == ReadNext \/ SendServo

MnavSpec == MnavInit /\ [][MnavNext]_mnavVars

-----------------------------------------------------------------------------
(* Properties *)

\* These are of the packets sent some, in their order.
WereSent(seq) ==
  \E places \in [DOMAIN seq -> DOMAIN packets] :
    /\ \A i, j \in DOMAIN seq : i < j => places[i] < places[j]
    /\ \A i \in DOMAIN seq : seq[i] = packets[places[i]]

\* What the nodes are given was sent, whole, in order and each packet at most once, by a
\* line that loses a byte and over calls that end anywhere; and GPS data is that of a
\* packet that has some (imu_mgr.cxx:128-133, mnav.cpp:368-501).
MnavAsSent ==
  /\ WereSent(imu_node) /\ WereSent(gps_node)
  /\ \A i \in DOMAIN gps_node : gps_node[i][3] \in FullTypes

=============================================================================
