----------------------------- MODULE RemoteLink -----------------------------
(***************************************************************************)
(* The command side of the remote link (src/comms/remote_link.cpp): how a  *)
(* command line gets from the ground station through a link that loses     *)
(* bytes into the program, and how its sequence number gets back in the    *)
(* autopilot status packets.                                               *)
(*                                                                         *)
(* A command is known by its place in the order the operator gave it.  Its *)
(* line is LineLength bytes and a newline; a byte is known by its command  *)
(* and its position in the line.  The checksum is taken to be perfect: it  *)
(* accepts the bytes of one whole line and nothing else.                   *)
(*                                                                         *)
(* The link is a uart, or a socket to a uart server which may shut down    *)
(* and come back.  The ground station is not part of this repository: it   *)
(* is modelled as what makes sense of the sequence numbers, a station that *)
(* sends a command again until a status packet returns its number.         *)
(***************************************************************************)
EXTENDS Integers, Sequences

CONSTANTS
  SequenceNumbers,  \* the station numbers commands 1 .. SequenceNumbers and over again
  LineLength,       \* bytes of a command line
  BufSize,          \* BUF_SIZE
  MaxCommands,      \* bound: commands the operator gives
  MaxUplink,        \* bound: bytes on the way to the aircraft
  MaxDownlink,      \* bound: status packets on the way to the ground
  MaxLosses,        \* bound: times that bytes are lost
  MaxShutdowns      \* bound: times the server shuts down

ASSUME NumbersAssumption == SequenceNumbers \in 2 .. 127
ASSUME LineAssumption == LineLength \in Nat \ {0} /\ BufSize \in Nat /\ LineLength < BufSize
ASSUME BoundsAssumption ==
  /\ MaxCommands \in Nat /\ MaxUplink \in Nat /\ MaxDownlink \in Nat
  /\ MaxLosses \in Nat /\ MaxShutdowns \in Nat

VARIABLES
  link_type,          \* ugUART or ugSOCKET
  link_open,
  connected,          \* the other end holds the connection (the port is open)
  link_sequence_num,  \* /status/remote-link-sequence-num
  last_sequence_num,
  command_buf,        \* read_link_command()'s unfinished line
  uplink,             \* bytes on the way to the aircraft
  downlink,           \* sequence numbers on the way to the ground
  sending,            \* the command that the station is sending
  losses, shutdowns,
  executed            \* history: the commands executed

aircraftVars == <<link_open, link_sequence_num, last_sequence_num, command_buf, executed>>
linkVars == <<connected, uplink, downlink, losses, shutdowns>>
vars == <<link_type, aircraftVars, linkVars, sending>>

LinkTypes == {"uart", "socket"}
Commands  == 1 .. MaxCommands
Newline   == [cmd |-> 0, pos |-> 0]
Bytes     == [cmd : Commands, pos : 1 .. LineLength] \cup {Newline}
Line(c)   == [k \in 1 .. LineLength |-> [cmd |-> c, pos |-> k]]

SequenceNum(c) == ((c - 1) % SequenceNumbers) + 1

\* The status packet has one signed byte for the sequence number.
Int8(n) == ((n + 128) % 256) - 128

TypeOK ==
  /\ link_type \in LinkTypes
  /\ link_open \in BOOLEAN /\ connected \in BOOLEAN
  /\ link_sequence_num \in 0 .. SequenceNumbers
  /\ last_sequence_num \in {-1} \cup 1 .. SequenceNumbers
  /\ command_buf \in Seq(Bytes \ {Newline}) /\ Len(command_buf) < BufSize
  /\ uplink \in Seq(Bytes) /\ downlink \in Seq(0 .. SequenceNumbers)
  /\ sending \in 1 .. MaxCommands + 1
  /\ losses \in 0 .. MaxLosses /\ shutdowns \in 0 .. MaxShutdowns
  /\ executed \in Seq(Commands)

\* remote_link_init() at the start opens the link or fails to.
Init ==
  /\ link_type \in LinkTypes
  /\ link_open \in BOOLEAN /\ connected = link_open
  /\ link_sequence_num = 0 /\ last_sequence_num = -1
  /\ command_buf = << >> /\ uplink = << >> /\ downlink = << >>
  /\ sending = 1
  /\ losses = 0 /\ shutdowns = 0
  /\ executed = << >>

-----------------------------------------------------------------------------
(* Ground station and link *)

\* A line sent to an aircraft that is not connected is lost.
GroundSend ==
  /\ sending \in Commands
  /\ connected /\ Len(uplink) + LineLength < MaxUplink
  /\ uplink' = uplink \o Append(Line(sending), Newline)
  /\ UNCHANGED <<link_type, aircraftVars, connected, downlink, losses, shutdowns, sending>>

\* The number of the command being sent acknowledges it, any other is ignored.
GroundReceive ==
  /\ downlink # << >>
  /\ downlink' = Tail(downlink)
  /\ sending' = IF sending \in Commands /\ Head(downlink) = SequenceNum(sending)
                THEN sending + 1 ELSE sending
  /\ UNCHANGED <<link_type, aircraftVars, connected, uplink, losses, shutdowns>>

\* s without its elements from i to j.
Without(s, i, j) ==
  [k \in 1 .. Len(s) - (j - i + 1) |-> IF k < i THEN s[k] ELSE s[k + (j - i + 1)]]

LoseBytes(i, j) ==
  /\ losses < MaxLosses
  /\ i <= j
  /\ uplink' = Without(uplink, i, j)
  /\ losses' = losses + 1
  /\ UNCHANGED <<link_type, aircraftVars, connected, downlink, shutdowns, sending>>

\* Bytes that the server has not passed on are lost, by LoseBytes, or come later.
ServerShutdown ==
  /\ link_type = "socket" /\ connected
  /\ shutdowns < MaxShutdowns
  /\ connected' = FALSE
  /\ shutdowns' = shutdowns + 1
  /\ UNCHANGED <<link_type, aircraftVars, uplink, downlink, losses, sending>>

-----------------------------------------------------------------------------
(* Writing: every packet goes through link_write(), which first opens a link *)
(* that is not open.  Opening it resets the sequence number to report.       *)

\* remote_link_init() that succeeds.
Open ==
  /\ ~link_open
  /\ link_open' = TRUE /\ connected' = TRUE
  /\ link_sequence_num' = 0

\* A status packet that arrives.  Its sequence number was put into it before
\* link_write() was called.
StatusArrives ==
  /\ Len(downlink) < MaxDownlink
  /\ downlink' = Append(downlink, Int8(link_sequence_num))
  /\ \/ link_open /\ connected /\ UNCHANGED <<link_open, connected, link_sequence_num>>
     \/ Open
  /\ UNCHANGED <<link_type, last_sequence_num, command_buf, executed, uplink, losses,
                 shutdowns, sending>>

\* Any other packet, or a status packet that is lost, by a full serial buffer
\* too.  A packet for a server that has shut down is lost, or send() fails
\* with EPIPE.
OtherPacket ==
  /\ \/ Open
     \/ /\ link_type = "socket" /\ link_open /\ ~connected
        /\ link_open' = FALSE
        /\ UNCHANGED <<connected, link_sequence_num>>
  /\ UNCHANGED <<link_type, last_sequence_num, command_buf, executed, uplink, downlink,
                 losses, shutdowns, sending>>

-----------------------------------------------------------------------------
(* Reading: remote_link_command(), called by the main loop at 5 Hz.          *)

Room == BufSize - Len(command_buf)

\* The first newline among the bytes that still fit, or 0.
EndOfLine ==
  IF \E k \in 1 .. Len(uplink) : k <= Room /\ uplink[k] = Newline
  THEN CHOOSE k \in 1 .. Len(uplink) :
         uplink[k] = Newline /\ \A j \in 1 .. k - 1 : uplink[j] # Newline
  ELSE 0

\* No end of line in all there is to read: it is kept for the next call.
ReadPart ==
  /\ uplink # << >> /\ EndOfLine = 0 /\ Len(uplink) < Room
  /\ command_buf' = command_buf \o uplink
  /\ uplink' = << >>
  /\ UNCHANGED <<link_type, link_open, link_sequence_num, last_sequence_num, executed,
                 connected, downlink, losses, shutdowns, sending>>

\* Mutant: a full buffer is never emptied.
ReadOverflowKeeps ==
  /\ EndOfLine = 0 /\ Len(uplink) >= Room
  /\ command_buf' = command_buf \o SubSeq(uplink, 1, Room)
  /\ uplink' = SubSeq(uplink, Room + 2, Len(uplink))
  /\ UNCHANGED <<link_type, link_open, link_sequence_num, last_sequence_num, executed,
                 connected, downlink, losses, shutdowns, sending>>

\* The buffer is full: what it holds is dropped, and the byte that was read
\* after it is gone.
ReadOverflow ==
  /\ EndOfLine = 0 /\ Len(uplink) >= Room
  /\ command_buf' = << >>
  /\ uplink' = SubSeq(uplink, Room + 2, Len(uplink))
  /\ UNCHANGED <<link_type, link_open, link_sequence_num, last_sequence_num, executed,
                 connected, downlink, losses, shutdowns, sending>>

\* The line that has been read.
ReadLine == command_buf \o SubSeq(uplink, 1, EndOfLine - 1)

TakeLine ==
  /\ EndOfLine # 0
  /\ command_buf' = << >>
  /\ uplink' = SubSeq(uplink, EndOfLine + 1, Len(uplink))
  /\ UNCHANGED <<link_type, link_open, connected, downlink, losses, shutdowns, sending>>

\* A line that fails the checksum.
RejectLine ==
  /\ TakeLine
  /\ \A c \in Commands : ReadLine # Line(c)
  /\ UNCHANGED <<link_sequence_num, last_sequence_num, executed>>

\* A command that differs from the last one in its number is executed, and its
\* number is the one to report.
ExecuteCommand(c) ==
  /\ link_sequence_num' = SequenceNum(c)
  /\ last_sequence_num' = SequenceNum(c)
  /\ executed' = Append(executed, c)

\* Mutant: repeated commands are not told apart.
ReadCommandAgain(c) ==
  TakeLine /\ ReadLine = Line(c) /\ ExecuteCommand(c)

ReadCommand(c) ==
  /\ TakeLine
  /\ ReadLine = Line(c)
  /\ IF SequenceNum(c) # last_sequence_num
     THEN ExecuteCommand(c)
     ELSE UNCHANGED <<link_sequence_num, last_sequence_num, executed>>

Read == ReadPart \/ ReadOverflow \/ RejectLine \/ \E c \in Commands : ReadCommand(c)

-----------------------------------------------------------------------------

Next ==
  \/ GroundSend
  \/ GroundReceive
  \/ \E i, j \in 1 .. Len(uplink) : LoseBytes(i, j)
  \/ ServerShutdown
  \/ StatusArrives
  \/ OtherPacket
  \/ Read

\* The timer calls the readers and the writers over and over, the station sends
\* and listens, a server comes back, and not every status packet is lost.
Fairness ==
  /\ WF_vars(GroundSend) /\ WF_vars(GroundReceive)
  /\ WF_vars(Read) /\ WF_vars(OtherPacket) /\ WF_vars(StatusArrives)

Spec == Init /\ [][Next]_vars /\ Fairness

-----------------------------------------------------------------------------
(* Properties *)

Delivery == INSTANCE CommandDelivery WITH acknowledged <- sending - 1

\* Whatever bytes are lost and whenever the link is opened again, commands are
\* executed in order, exactly once, and acknowledged only then (the sequence
\* numbers of remote_link_command(), 552-572).
ExactlyOnce == Delivery!Spec

\* Every command given is acknowledged in the end.
Acknowledged(c) == sending = c ~> sending > c

\* ... over a uart (link_write() and remote_link_command()).
UartAcknowledges == link_type = "uart" => \A c \in Commands : Acknowledged(c)

\* ... over every link ("register that we've received this message correctly",
\* remote_link.cpp:569).
EveryLinkAcknowledges == \A c \in Commands : Acknowledged(c)

=============================================================================
