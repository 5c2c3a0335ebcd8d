----------------------------- MODULE UartServer -----------------------------
(***************************************************************************)
(* The server that lends a serial port to a network client:                *)
(* utils/uartserv/uartserv.cxx, netbuffer.cxx and netbuffer.hxx, over the  *)
(* poll() of src/comms/netChannel.cxx.  Its three buffers are static: all  *)
(* channels share them.                                                    *)
(*                                                                         *)
(* Bytes of the console are numbered as it sent them, those of a client    *)
(* are <<client, number>>; 0 is the message to a client that is turned     *)
(* away, taken for one byte.                                               *)
(***************************************************************************)
EXTENDS Integers, Sequences, SequencesExt, FiniteSets

CONSTANTS
  BufferMax,   \* bytes of in_buffer, and of out_buffer
  ChunkMax,    \* bytes that a write() to a client, or a read from the console, takes
  MaxClients,  \* bound on the connections made
  MaxBytes     \* bound on the bytes that clients and the console send

ASSUME UartAssumption == {BufferMax, ChunkMax, MaxClients, MaxBytes} \subseteq Nat \ {0}

Server  == 0
Clients == 1 .. MaxClients
Notice  == 0

VARIABLES
  \* The server:
  polls,             \* poll() in progress: innermost last
  at,                \* the step of the main loop
  open,              \* client channels that are not closed
  full,              \* the flag of every channel
  connection_count,
  in_buffer, out_buffer,
  running,
  \* The clients and the console:
  accepted, pending, \* connections that were accepted, and that wait for it
  toServer,          \* toServer[c]: on the way from c
  ended,             \* the clients that closed or lost their connection: "fin" or "reset"
  console,           \* sent by the console and not read
  ups, downs,        \* bytes sent so far
  \* History:
  fromServer,        \* fromServer[c]: what c received
  toConsole,         \* what the console received
  rejected,          \* the clients that handleAccept() turned away
  cleared            \* <<way, byte, cause>>: thrown away by the close() of a client's channel
                     \* or, the cause is Server, for want of room

serverVars == <<polls, at, open, full, connection_count, in_buffer, out_buffer, running>>
worldVars  == <<accepted, pending, toServer, ended, console, ups, downs>>
history    == <<fromServer, toConsole, rejected, cleared>>
uart_vars  == <<serverVars, worldVars, history>>

Steps == {"poll", "write", "read"}

\* A poll(): the channels that are ready to read and to write, and the channel that
\* handleAccept() closes when it returns.
Poll == [reads : SUBSET (Clients \cup {Server}), writes : SUBSET Clients,
         then : Clients \cup {Server}]

UartTypeOK ==
  /\ polls \in Seq(Poll) /\ Len(polls) <= MaxClients + 1
  /\ at \in Steps
  /\ open \subseteq Clients
  /\ full \subseteq Clients
  /\ connection_count \in Int
  /\ in_buffer \in Seq(Clients \X (1 .. MaxBytes)) /\ Len(in_buffer) <= BufferMax
  /\ out_buffer \in Seq(0 .. MaxBytes) /\ Len(out_buffer) <= BufferMax
  /\ running \in BOOLEAN
  /\ accepted \in 0 .. MaxClients /\ pending \in 0 .. MaxClients
  /\ accepted + pending <= MaxClients
  /\ DOMAIN toServer = Clients /\ DOMAIN ended = Clients
  /\ ups \in 0 .. MaxBytes /\ downs \in 0 .. MaxBytes
  /\ rejected \subseteq 1 .. accepted

UartInit ==
  /\ polls = << >> /\ at = "poll"
  /\ open = {} /\ full = {} /\ connection_count = 0
  /\ in_buffer = << >> /\ out_buffer = << >>
  /\ running = TRUE
  /\ accepted = 0 /\ pending = 0
  /\ toServer = [c \in Clients |-> << >>]
  /\ ended = [c \in Clients |-> "no"]
  /\ console = << >>
  /\ ups = 0 /\ downs = 0
  /\ fromServer = [c \in Clients |-> << >>]
  /\ toConsole = << >>
  /\ rejected = {} /\ cleared = {}

-----------------------------------------------------------------------------
(* The clients and the console *)

Connect ==
  /\ accepted + pending < MaxClients
  /\ pending' = pending + 1
  /\ UNCHANGED <<serverVars, accepted, toServer, ended, console, ups, downs, history>>

\* A connection that waits in the listen queue is made: its client may send or end.
ClientSends(c) ==
  /\ c <= accepted + pending /\ ended[c] = "no" /\ ups + downs < MaxBytes
  /\ ups' = ups + 1
  /\ toServer' = [toServer EXCEPT ![c] = Append(@, <<c, ups'>>)]
  /\ UNCHANGED <<serverVars, accepted, pending, ended, console, downs, history>>

ClientEnds(c) ==
  /\ c <= accepted + pending /\ ended[c] = "no"
  /\ \E how \in {"fin", "reset"} : ended' = [ended EXCEPT ![c] = how]
  /\ UNCHANGED <<serverVars, accepted, pending, toServer, console, ups, downs, history>>

ConsoleSends ==
  /\ ups + downs < MaxBytes
  /\ downs' = downs + 1
  /\ console' = Append(console, downs')
  /\ UNCHANGED <<serverVars, accepted, pending, toServer, ended, ups, history>>

-----------------------------------------------------------------------------
(* poll() *)

\* A client has something to recv(): bytes or the end.
Heard(c) == toServer[c] # << >> \/ ended[c] # "no"

\* select() on what readable() and writable() allow: nothing is read while in_buffer is
\* full, not even a connection.  The call may time out before a client takes bytes.
Ready ==
  LET room  == Len(in_buffer) < BufferMax
      reads == {c \in open : room /\ Heard(c)} \cup {s \in {Server} : room /\ pending > 0}
  IN  {[reads |-> reads, writes |-> writes, then |-> Server] :
         writes \in SUBSET {c \in open : out_buffer # << >>}}

BeginPoll ==
  /\ running /\ at = "poll" /\ polls = << >>
  /\ \E p \in Ready : polls' = <<p>>
  /\ UNCHANGED <<at, open, full, connection_count, in_buffer, out_buffer, running,
                 worldVars, history>>

Polling == running /\ polls # << >>

Top == Last(polls)

\* The channels are a list with the newest first and the server's own last.
Newest(channels) == CHOOSE c \in channels : \A d \in channels : d <= c

NextRead(c) == Polling /\ Top.reads # {} /\ c = Newest(Top.reads)

ReadDone(c) == [polls EXCEPT ![Len(polls)].reads = @ \ {c}]

NextWrite(c) == Polling /\ Top.reads = {} /\ Top.writes # {} /\ c = Newest(Top.writes)

WriteDone(c) == [polls EXCEPT ![Len(polls)].writes = @ \ {c}]

\* Closed by a poll() inside this one.  (Of the channels to read none is: the server's own,
\* whose handler alone closes another channel, comes last.)
SkipClosed(c) ==
  /\ c \in Clients \ open /\ NextWrite(c)
  /\ polls' = WriteDone(c)
  /\ UNCHANGED <<at, open, full, connection_count, in_buffer, out_buffer, running,
                 worldVars, history>>

\* Mutant: handleClose() forgets the count.
CloseUncounted(c) ==
  /\ open' = open \ {c}
  /\ connection_count' = connection_count
  /\ in_buffer' = << >> /\ out_buffer' = << >>
  /\ cleared' = cleared \cup {<<"up", b, c>> : b \in ToSet(in_buffer)}
                        \cup {<<"down", b, c>> : b \in ToSet(out_buffer)}

\* close() of an open channel: handleClose() empties the buffers of all.
Close(c) ==
  /\ open' = open \ {c}
  /\ connection_count' = connection_count - 1
  /\ in_buffer' = << >> /\ out_buffer' = << >>
  /\ cleared' = cleared \cup {<<"up", b, c>> : b \in ToSet(in_buffer)}
                        \cup {<<"down", b, c>> : b \in ToSet(out_buffer)}

\* The flag of a new channel is not initialised.
NewChannel(c) == \E flag \in BOOLEAN : full' = IF flag THEN full \cup {c} ELSE full

Notified == IF Len(out_buffer) < BufferMax THEN Append(out_buffer, Notice) ELSE out_buffer

\* handleAccept() of the first client.
Accept ==
  /\ NextRead(Server) /\ pending > 0 /\ connection_count < 1
  /\ pending' = pending - 1 /\ accepted' = accepted + 1
  /\ NewChannel(accepted')
  /\ open' = open \cup {accepted'}
  /\ connection_count' = connection_count + 1
  /\ polls' = ReadDone(Server)
  /\ UNCHANGED <<at, in_buffer, out_buffer, running, toServer, ended, console, ups, downs, history>>

\* Of a second one: the message goes to the shared buffer, after what is there for the
\* served client, and a poll() of all channels, its own with them, runs inside this one.
Reject ==
  /\ NextRead(Server) /\ pending > 0 /\ connection_count >= 1
  /\ pending' = pending - 1 /\ accepted' = accepted + 1
  /\ NewChannel(accepted')
  /\ open' = open \cup {accepted'}
  /\ connection_count' = connection_count + 1
  /\ out_buffer' = Notified
  /\ LET room  == Len(in_buffer) < BufferMax
         reads == {c \in open' : room /\ Heard(c)} \cup {s \in {Server} : room /\ pending' > 0}
     IN  \E writes \in SUBSET {c \in open' : out_buffer' # << >>} :
           polls' = Append(ReadDone(Server), [reads |-> reads, writes |-> writes, then |-> accepted'])
  /\ rejected' = rejected \cup {accepted'}
  /\ UNCHANGED <<at, in_buffer, running, toServer, ended, console, ups, downs,
                 fromServer, toConsole, cleared>>

\* Once full, only a buffer that is half empty is filled again.
StillFull(c) == c \in full /\ BufferMax - Len(in_buffer) < Len(in_buffer)

Room == BufferMax - Len(in_buffer)

Kept(c, bytes) ==
  IF StillFull(c) THEN << >> ELSE IF Len(bytes) >= Room THEN SubSeq(bytes, 1, Room) ELSE bytes

\* handleRead(), lossy: recv() takes all there is into tmp_buffer.
ReadBytes(c) ==
  /\ c \in open /\ NextRead(c) /\ toServer[c] # << >>
  /\ LET bytes == toServer[c]
         kept  == Kept(c, bytes)
     IN  /\ in_buffer' = in_buffer \o kept
         /\ full' = IF StillFull(c) \/ Len(bytes) >= Room THEN full \cup {c} ELSE full \ {c}
         /\ cleared' = cleared \cup {<<"up", b, Server>> : b \in ToSet(bytes) \ ToSet(kept)}
  /\ toServer' = [toServer EXCEPT ![c] = << >>]
  /\ polls' = ReadDone(c)
  /\ UNCHANGED <<at, open, connection_count, out_buffer, running, accepted, pending, ended,
                 console, ups, downs, fromServer, toConsole, rejected>>

\* recv() returns 0: the client closed.
ReadEnd(c) ==
  /\ c \in open /\ NextRead(c) /\ toServer[c] = << >> /\ ended[c] = "fin"
  /\ Close(c)
  /\ full' = IF StillFull(c) THEN full
             ELSE IF Len(in_buffer) = BufferMax THEN full \cup {c} ELSE full \ {c}
  /\ polls' = ReadDone(c)
  /\ UNCHANGED <<at, running, worldVars, fromServer, toConsole, rejected>>

\* recv() returns -1, which is used as a number of bytes: unless the channel drops what it
\* reads, append() copies size_t(-1) bytes, and that is the end of the server.
ReadError(c) ==
  /\ c \in open /\ NextRead(c) /\ toServer[c] = << >> /\ ended[c] = "reset"
  /\ Close(c)
  /\ running' = StillFull(c)
  /\ polls' = ReadDone(c)
  /\ UNCHANGED <<at, full, worldVars, fromServer, toConsole, rejected>>

\* Mutant: after a partial send() nothing is removed.
SentKept(c, n) ==
  /\ out_buffer' = IF n < Len(out_buffer) THEN out_buffer ELSE << >>
  /\ fromServer' = [fromServer EXCEPT ![c] = @ \o SubSeq(out_buffer, 1, n)]

Sent(c, n) ==
  /\ out_buffer' = SubSeq(out_buffer, n + 1, Len(out_buffer))
  /\ fromServer' = [fromServer EXCEPT ![c] = @ \o SubSeq(out_buffer, 1, n)]

\* handleWrite(): send() takes some of the first bytes, or none.
Write(c) ==
  /\ c \in open /\ NextWrite(c) /\ ended[c] # "reset"
  /\ \E n \in 0 .. ChunkMax : n <= Len(out_buffer) /\ Sent(c, n)
  /\ polls' = WriteDone(c)
  /\ UNCHANGED <<at, open, full, connection_count, in_buffer, running, worldVars,
                 toConsole, rejected, cleared>>

WriteError(c) ==
  /\ c \in open /\ NextWrite(c) /\ ended[c] = "reset" /\ out_buffer # << >>
  /\ Close(c)
  /\ polls' = WriteDone(c)
  /\ UNCHANGED <<at, full, running, worldVars, fromServer, toConsole, rejected>>

\* The inner poll() returns to handleAccept(), which closes the channel; the outer one to
\* the main loop.
EndPoll ==
  /\ Polling /\ Top.reads = {} /\ Top.writes = {}
  /\ polls' = Front(polls)
  /\ at' = IF Len(polls) = 1 THEN "write" ELSE at
  /\ IF Top.then \in open THEN Close(Top.then)
     ELSE UNCHANGED <<open, connection_count, in_buffer, out_buffer, cleared>>
  /\ UNCHANGED <<full, running, worldVars, fromServer, toConsole, rejected>>

-----------------------------------------------------------------------------
(* The rest of the main loop *)

\* write_port() takes some of the buffer, all of it or none.
WriteConsole ==
  /\ running /\ at = "write" /\ at' = "read"
  /\ \E n \in 0 .. Len(in_buffer) :
       /\ toConsole' = toConsole \o SubSeq(in_buffer, 1, n)
       /\ in_buffer' = SubSeq(in_buffer, n + 1, Len(in_buffer))
  /\ UNCHANGED <<polls, open, full, connection_count, out_buffer, running, worldVars,
                 fromServer, rejected, cleared>>

\* select() looks at the descriptor after the console's: the server's socket, which was
\* opened after it.  The console is read only when a client waits to be accepted.
ReadConsole ==
  /\ running /\ at = "read" /\ at' = "poll"
  /\ pending > 0 /\ console # << >>
  /\ \E n \in 1 .. ChunkMax :
       LET bytes == SubSeq(console, 1, n)
       IN  /\ n <= Len(console)
           /\ console' = SubSeq(console, n + 1, Len(console))
           /\ IF Len(out_buffer) + n <= BufferMax
              THEN out_buffer' = out_buffer \o bytes /\ UNCHANGED cleared
              ELSE /\ cleared' = cleared \cup {<<"down", b, Server>> : b \in ToSet(bytes)}
                   /\ UNCHANGED out_buffer
  /\ UNCHANGED <<polls, open, full, connection_count, in_buffer, running, accepted, pending,
                 toServer, ended, ups, downs, fromServer, toConsole, rejected>>

ConsoleQuiet ==
  /\ running /\ at = "read" /\ at' = "poll"
  /\ pending = 0 \/ console = << >>
  /\ UNCHANGED <<polls, open, full, connection_count, in_buffer, out_buffer, running,
                 worldVars, history>>

Handle(c) ==
  SkipClosed(c) \/ ReadBytes(c) \/ ReadEnd(c) \/ ReadError(c) \/ Write(c) \/ WriteError(c)

UartWorld == Connect \/ ConsoleSends \/ \E c \in Clients : ClientSends(c) \/ ClientEnds(c)

UartNext ==
  \/ UartWorld
  \/ BeginPoll \/ Accept \/ Reject \/ EndPoll
  \/ \E c \in Clients : Handle(c)
  \/ WriteConsole \/ ReadConsole \/ ConsoleQuiet

UartSpec == UartInit /\ [][UartNext]_uart_vars

-----------------------------------------------------------------------------
(* Properties *)

\* "The network server is hardwired to allow one connection at a time and reject any
\* other connection attempts" (uartserv.cxx:11): the count
\* that decides is that of the open channels through any closing, and outside poll()
\* there is at most one of them.
OneConnection ==
  /\ connection_count = Cardinality(open)
  /\ polls = << >> => Cardinality(open) <= 1

\* No byte is sent twice or out of order, to the console from any client or to any client.
NothingReordered ==
  /\ LET s == toConsole \o in_buffer
     IN  \A i, j \in DOMAIN s : i < j /\ s[i][1] = s[j][1] => s[i][2] < s[j][2]
  /\ \A c \in Clients :
       LET s == fromServer[c] \o out_buffer
       IN  \A i, j \in DOMAIN s : i < j /\ Notice \notin {s[i], s[j]} => s[i] < s[j]

Thrown(way, b) == \E cause \in Clients \cup {Server} : <<way, b, cause>> \in cleared

\* A byte that was read is in its buffer or at the other end, unless a close or a buffer
\* without room threw it away: what is written in part loses none.
NothingLeaks ==
  /\ \A b \in 1 .. downs :
       \/ b \in ToSet(console) \/ b \in ToSet(out_buffer)
       \/ \E c \in Clients : b \in ToSet(fromServer[c])
       \/ Thrown("down", b)
  /\ \A n \in 1 .. ups : \E c \in Clients :
       \/ <<c, n>> \in ToSet(toServer[c]) \cup ToSet(in_buffer) \cup ToSet(toConsole)
       \/ Thrown("up", <<c, n>>)

\* A client that is turned away may have sent already, and the poll() inside its
\* handleAccept() reads it into the buffer that the served client's bytes are in: none of
\* that comes to the console.  A client loses what the server read of it to want of room, to
\* the end of its own connection or to the turning away of another, never to a client that
\* was served before or after it.
TurnedAwayIsUnheard ==
  /\ \A b \in ToSet(toConsole) : b[1] \notin rejected
  /\ \A e \in cleared :
       e[1] = "up" /\ e[3] \notin {Server, e[2][1]} => {e[3], e[2][1]} \cap rejected # {}

\* What the server's buffers do to the bytes (uartserv.cxx:94-180, netbuffer.cxx:40-125):
\* they repeat none, change no order, let none of a client that is turned away through, and
\* lose none but for want of room and at a close().  That is less than "the network server
\* layer attempts to buffer everything and lose nothing" (uartserv.cxx:109-110) promises:
\* the buffers are one pair for all channels and every close() empties both, so that a
\* client that only tries to connect makes the served one lose what waits there, in both
\* directions (netbuffer.cxx:118-124, netbuffer.hxx:194-202).  And what the console sent may go
\* to the client that is turned away.
BytesAreKept == NothingReordered /\ NothingLeaks /\ TurnedAwayIsUnheard

=============================================================================
