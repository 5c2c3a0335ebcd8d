------------------------------- MODULE Telnet -------------------------------
(***************************************************************************)
(* The telnet sessions of the flight program: UGTelnet and PropsChannel of *)
(* src/comms/telnet.cxx over netChat.cxx, netBuffer.h and the poll() of    *)
(* netChannel.cxx.  process() calls poll() in every tick; a session reads  *)
(* bytes, cuts them into lines and executes them as commands.              *)
(*                                                                         *)
(* A line is a sequence of letters.  What a command does to the properties *)
(* and what it answers is left out, but for how much it answers.           *)
(***************************************************************************)
EXTENDS Integers, Sequences

CONSTANTS
  Sessions,
  Lines,       \* what clients type: sequences of letters
  MaxLines,    \* bound on the lines of a client
  InMax,       \* bytes of in_buffer
  CommandMax,  \* bytes of PropsChannel::buffer
  OutMax,      \* bytes of out_buffer
  AnswerSize,  \* bytes of an answer, which is pushed before the prompt
  Quit,        \* the line "quit"
  BadPath,     \* a line other than "cd" with a path that parse_path() throws for
  Newline

ASSUME TelnetAssumption ==
  /\ {MaxLines, InMax, CommandMax, OutMax, AnswerSize} \subseteq Nat \ {0}
  /\ {Quit, BadPath} \subseteq Lines
  /\ \A l \in Lines : l \in Seq({l[i] : i \in DOMAIN l} \ {Newline})

VARIABLES
  died,          \* the program, of an exception
  channels,      \* the sessions' objects that exist
  isOpen,        \* those that are not closed
  should_delete,
  reads, writes, \* of the poll() in progress
  polling,
  reading,       \* the session in the loop of handleBufferRead(), if any
  inBuffer, buffer, outBuffer,   \* in_buffer and out_buffer of the channel
  \* The clients:
  connecting,    \* sessions whose client waits to be accepted
  onTheWay,      \* bytes to the session
  gone,          \* clients that closed
  \* History:
  typed,         \* the lines of each client
  executed       \* the commands of each session

listVars   == <<channels, isOpen, should_delete>>
pollVars   == <<reads, writes, polling, reading>>
bufferVars == <<inBuffer, buffer, outBuffer>>
clientVars == <<connecting, onTheWay, gone, typed>>
telnet_vars == <<died, listVars, pollVars, bufferVars, clientVars, executed>>

TelnetInit ==
  /\ died = FALSE
  /\ channels = {} /\ isOpen = {} /\ should_delete = {}
  /\ reads = {} /\ writes = {} /\ polling = FALSE /\ reading = {}
  /\ inBuffer = [s \in Sessions |-> << >>]
  /\ buffer = [s \in Sessions |-> << >>]
  /\ outBuffer = [s \in Sessions |-> 0]
  /\ connecting = Sessions /\ gone = {}
  /\ onTheWay = [s \in Sessions |-> << >>]
  /\ typed = [s \in Sessions |-> << >>]
  /\ executed = [s \in Sessions |-> << >>]

-----------------------------------------------------------------------------
(* The clients *)

Type(s, l) ==
  /\ Len(typed[s]) < MaxLines /\ s \notin gone
  /\ typed' = [typed EXCEPT ![s] = Append(@, l)]
  /\ onTheWay' = [onTheWay EXCEPT ![s] = @ \o Append(l, Newline)]
  /\ UNCHANGED <<died, listVars, pollVars, bufferVars, connecting, gone, executed>>

HangUp(s) ==
  /\ s \notin connecting \cup gone
  /\ gone' = gone \cup {s}
  /\ UNCHANGED <<died, listVars, pollVars, bufferVars, connecting, onTheWay, typed, executed>>

-----------------------------------------------------------------------------
(* poll() *)

\* Channels to delete go first.
BeginProcess ==
  /\ ~died /\ ~polling
  /\ channels' = channels \ should_delete /\ should_delete' = {}
  /\ LET ready == isOpen \ should_delete
     IN  /\ reads' = {s \in ready : Len(inBuffer[s]) < InMax /\ (onTheWay[s] # << >> \/ s \in gone)}
         /\ writes' = {s \in ready : outBuffer[s] > 0}
  /\ polling' = TRUE
  /\ UNCHANGED <<died, isOpen, reading, bufferVars, clientVars, executed>>

\* handleAccept()
AcceptSession(s) ==
  /\ ~died /\ polling /\ reading = {}
  /\ s \in connecting
  /\ connecting' = connecting \ {s}
  /\ channels' = channels \cup {s} /\ isOpen' = isOpen \cup {s}
  /\ UNCHANGED <<died, should_delete, pollVars, bufferVars, onTheWay, gone, typed, executed>>

\* recv() gives some of the bytes that came, as many as there is room for.
Receive(s) ==
  /\ ~died /\ polling /\ reading = {}
  /\ s \in reads /\ s \in isOpen /\ onTheWay[s] # << >>
  /\ \E n \in 1 .. Len(onTheWay[s]) :
       /\ Len(inBuffer[s]) + n <= InMax
       /\ inBuffer' = [inBuffer EXCEPT ![s] = @ \o SubSeq(onTheWay[s], 1, n)]
       /\ onTheWay' = [onTheWay EXCEPT ![s] = SubSeq(@, n + 1, Len(@))]
  /\ reads' = reads \ {s} /\ reading' = {s}
  /\ UNCHANGED <<died, listVars, writes, polling, buffer, outBuffer, connecting, gone, typed, executed>>

\* recv() returns 0: the session is closed, and its object is never deleted.
ReceiveEnd(s) ==
  /\ ~died /\ polling /\ reading = {}
  /\ s \in reads /\ s \in isOpen /\ onTheWay[s] = << >> /\ s \in gone
  /\ isOpen' = isOpen \ {s}
  /\ inBuffer' = [inBuffer EXCEPT ![s] = << >>]
  /\ outBuffer' = [outBuffer EXCEPT ![s] = 0]
  /\ reads' = reads \ {s}
  /\ UNCHANGED <<died, channels, should_delete, writes, polling, reading, buffer, clientVars, executed>>

\* send() takes some of what is there.
SendAnswer(s) ==
  /\ ~died /\ polling /\ reads = {} /\ reading = {}
  /\ s \in writes
  /\ \/ s \in isOpen /\ \E n \in 0 .. outBuffer[s] : outBuffer' = [outBuffer EXCEPT ![s] = n]
     \/ s \notin isOpen /\ UNCHANGED outBuffer
  /\ writes' = writes \ {s}
  /\ UNCHANGED <<died, listVars, reads, polling, reading, inBuffer, buffer, clientVars, executed>>

\* send() fails when the client is gone.
SendError(s) ==
  /\ ~died /\ polling /\ reads = {} /\ reading = {}
  /\ s \in writes /\ s \in isOpen /\ s \in gone /\ outBuffer[s] > 0
  /\ isOpen' = isOpen \ {s}
  /\ inBuffer' = [inBuffer EXCEPT ![s] = << >>]
  /\ outBuffer' = [outBuffer EXCEPT ![s] = 0]
  /\ writes' = writes \ {s}
  /\ UNCHANGED <<died, channels, should_delete, reads, polling, reading, buffer, clientVars, executed>>

EndProcess ==
  /\ ~died /\ polling /\ reads = {} /\ writes = {} /\ reading = {}
  /\ polling' = FALSE
  /\ UNCHANGED <<died, listVars, reads, writes, reading, bufferVars, clientVars, executed>>

-----------------------------------------------------------------------------
(* handleBufferRead(), one round of its loop at a time *)

Terminators(s) == {i \in DOMAIN inBuffer[s] : inBuffer[s][i] = Newline}

\* collectIncomingData(): what does not fit is dropped, and nobody is told.
Collected(s, bytes) ==
  IF Len(buffer[s]) + Len(bytes) <= CommandMax THEN buffer[s] \o bytes ELSE buffer[s]

\* A push is taken whole or not at all; the prompt comes after the answer.
Pushed(n) ==
  LET answered == IF n + AnswerSize <= OutMax THEN n + AnswerSize ELSE n
  IN  IF answered < OutMax THEN answered + 1 ELSE answered

First(s) == CHOOSE i \in Terminators(s) : \A j \in Terminators(s) : i <= j

Line(s) == Collected(s, SubSeq(inBuffer[s], 1, First(s) - 1))

Rest(s) == SubSeq(inBuffer[s], First(s) + 1, Len(inBuffer[s]))

AtLine(s) == ~died /\ s \in reading /\ Terminators(s) # {}

Executed(s) == executed' = [executed EXCEPT ![s] = Append(@, Line(s))]

\* foundTerminator()
Command(s) ==
  /\ AtLine(s) /\ Line(s) \notin {Quit, BadPath}
  /\ Executed(s)
  /\ inBuffer' = [inBuffer EXCEPT ![s] = Rest(s)]
  /\ buffer' = [buffer EXCEPT ![s] = << >>]
  /\ outBuffer' = [outBuffer EXCEPT ![s] = Pushed(@)]
  /\ UNCHANGED <<died, listVars, pollVars, clientVars>>

\* Mutant: "quit" deletes the session at once.
CommandDeletes(s) ==
  /\ AtLine(s) /\ Line(s) = Quit
  /\ Executed(s)
  /\ isOpen' = isOpen \ {s} /\ channels' = channels \ {s}
  /\ inBuffer' = [inBuffer EXCEPT ![s] = << >>]
  /\ outBuffer' = [outBuffer EXCEPT ![s] = 0]
  /\ buffer' = [buffer EXCEPT ![s] = Line(s)]
  /\ UNCHANGED <<died, should_delete, pollVars, clientVars>>

\* close() and shouldDelete(); the buffer keeps the command.
CommandQuit(s) ==
  /\ AtLine(s) /\ Line(s) = Quit
  /\ Executed(s)
  /\ isOpen' = isOpen \ {s} /\ should_delete' = should_delete \cup {s}
  /\ inBuffer' = [inBuffer EXCEPT ![s] = << >>]
  /\ outBuffer' = [outBuffer EXCEPT ![s] = 0]
  /\ buffer' = [buffer EXCEPT ![s] = Line(s)]
  /\ UNCHANGED <<died, channels, pollVars, clientVars>>

\* Only "cd" catches what parse_path() throws.
CommandThrows(s) ==
  /\ AtLine(s) /\ Line(s) = BadPath
  /\ died' = TRUE
  /\ UNCHANGED <<listVars, pollVars, bufferVars, clientVars, executed>>

\* No terminator, and none has a prefix: all is collected.
CollectRest(s) ==
  /\ ~died /\ s \in reading /\ inBuffer[s] # << >> /\ Terminators(s) = {}
  /\ buffer' = [buffer EXCEPT ![s] = Collected(s, inBuffer[s])]
  /\ inBuffer' = [inBuffer EXCEPT ![s] = << >>]
  /\ UNCHANGED <<died, listVars, pollVars, outBuffer, clientVars, executed>>

\* Mutant: one round of the loop.
EndReadEarly(s) ==
  /\ ~died /\ s \in reading /\ (inBuffer[s] = << >> \/ executed[s] # << >>)
  /\ reading' = {}
  /\ UNCHANGED <<died, listVars, reads, writes, polling, bufferVars, clientVars, executed>>

EndRead(s) ==
  /\ ~died /\ s \in reading /\ inBuffer[s] = << >>
  /\ reading' = {}
  /\ UNCHANGED <<died, listVars, reads, writes, polling, bufferVars, clientVars, executed>>

-----------------------------------------------------------------------------

Process ==
  \/ BeginProcess \/ EndProcess
  \/ \E s \in Sessions :
       \/ Receive(s) \/ ReceiveEnd(s) \/ SendAnswer(s) \/ SendError(s)
       \/ Command(s) \/ CommandQuit(s) \/ CommandThrows(s) \/ CollectRest(s) \/ EndRead(s)

TelnetNext ==
  \/ Process
  \/ \E s \in Sessions : AcceptSession(s) \/ HangUp(s) \/ \E l \in Lines : Type(s, l)

\* The main loop goes on calling process(), and poll() returns.
TelnetSpec == TelnetInit /\ [][TelnetNext]_telnet_vars /\ WF_telnet_vars(Process)

-----------------------------------------------------------------------------
(* Properties *)

\* However the network cuts and joins the lines, commands are executed in the order typed
\* and each once, and every line that fits the command buffer as it was typed, also after
\* lines that do not fit.
ExecutedAsTyped ==
  \A s \in Sessions :
    /\ Len(executed[s]) <= Len(typed[s])
    /\ \A i \in DOMAIN executed[s] :
         Len(typed[s][i]) <= CommandMax => executed[s][i] = typed[s][i]

\* poll() touches no session that was deleted, also when a command of the same poll() was
\* "quit".
NoStaleChannel == isOpen \cup reads \cup writes \cup reading \subseteq channels

\* A session is served right from the first line to the last (telnet.cxx:145-330).
SessionsAreServed == ExecutedAsTyped /\ NoStaleChannel

\* Every line of an accepted client is executed, unless the session or the program ends:
\* no line is left behind in a buffer that is only looked at when more bytes come.
EveryLineExecuted ==
  \A s \in Sessions : \A n \in 1 .. MaxLines :
    s \notin connecting /\ Len(typed[s]) >= n
      ~> Len(executed[s]) >= n \/ s \notin isOpen \/ died

=============================================================================
