# A TLA+ model of the MicroGear autopilot

MicroGear is a small UAV autopilot in C++.  One program, `src/main/ugear_gumstix.cpp`,
runs everything from a 50 Hz interval timer: the handler reads the sensors, steers
the route, runs the control loops, moves the actuators and talks to the ground
station.  There are no threads and the handler does not interrupt itself, but it is
driven by a world of its own pace: receivers, a radio that loses bytes, an operator
who repeats himself, a pilot with a switch, and a clock that the GPS sets.

All paths below are relative to the repository; `src/...` is its source directory.

## Inventory

| Component | State | Operations | Hard behaviour | Correct when |
|---|---|---|---|---|
| Main loop, `src/main/ugear_gumstix.cpp` | counters, `initial_home`, `last_command_time`, `read_command` | `timer_handler()` and its sections | order of the sections, their periods, the failsafe's clock | each section sees what the ones before left; a lost link means flying home |
| Route manager, `src/control/route_mgr.cxx`, `route.cxx`, `waypoint.cxx` | mode, home, waypoints, current waypoint | set home, set mode, replace a waypoint, `update()` | home from two sources, relative waypoints, stale GPS | the aircraft is steered at the point the mode asks for; relative waypoints follow the home |
| GPS manager, `src/sensors/gps_mgr.cpp`, and drivers | settling, time of the last fix | `GPS_update()`, `GPS_age()` | settling, fixes that stop, the clock reset | age is the age of the last fix of a settled receiver |
| Clock, `src/util/timing.cpp` | start of the epoch | `get_Time()`, its reset | time stamps of another epoch | timeouts are on time |
| Remote link, commands, `src/comms/remote_link.cpp` | unfinished line, last sequence number | read, check, execute, acknowledge | lost bytes, repeated lines, reconnects | exactly once, in order, acknowledged |
| Remote link, telemetry | fifo, skip counters, waypoint turn | `link_write()`, flush, `remote_link_*()` | full fifo, partial writes | whole packets, every waypoint in turn |
| Control, `src/control/control.cpp`, `xmlauto.cxx` | `fcs_enabled`, locks, stages | `control_update()`, stage updates, `ap.reinit()` | switching in flight, locks set by hand, uneven and negative `dt`, stages built twice, updates that are not made | the locks are those of the mode; stages compute what their names say and begin from the output they find |
| Actuators, `src/actuators/act_mgr.cpp` | throttle unlock state | `Actuator_update()` | unlock sequence over mode changes | no throttle near the ground unless unlocked |
| Pilot input, `src/sensors/pilot_mgr.cxx` | master switch | `PilotInput_update()` | packets that do not come | the pilot's switch decides |
| Byte parsers, `src/sensors/gps_ublox5.cxx`, `ardupilot.cxx` | state, header, sums, payload | `read_ublox5()`, `ardupilot_read()` | lost bytes, messages in parts, sync bytes in data | what is parsed was sent, whole and in order |
| IMUs, `src/sensors/imu_vn100.cxx`, `imu_sf6DOFv4.cxx`, `mnav.cpp` | unfinished message, gyro bias | read, parse, publish, servo commands | text cut and joined, a bias averaged by the clock | what is published was sent; the bias is of the first seconds |
| Air data, `src/sensors/airdata_mgr.cpp` | time stamps, filtered and ground altitude | `AirData_update()` | the clock reset, gaps | the altitude above ground by pressure follows the readings; the ground stays the ground |
| Navigation filters, `src/filters/` | fixes used, status, covariances, matrices | initialise, propagate, correct | stamps of two epochs, products that skip zeros | every fix corrects; the covariance is what the filter says |
| Property tree, `src/props/` | nodes, path caches, values, ties, aliases | look up, create, remove, get, set, tie, copy, read and write files | caches of removed nodes, conversions, includes that override | a path leads to the node of that name; what was set is read; files mean what they say |
| XML parser, `src/xml/` | scanner, prolog state, entities, buffers | `readXML()`, `XML_Parse()` | buffers that end anywhere, entities in entities | the callbacks are what the document says, errors are at their line |
| Telnet, `src/comms/telnet.cxx`, `netChannel.cxx`, `netChat.cxx` | channel list, line buffers | poll, get, set, run, quit | lines cut and joined, sessions that end in the middle of a poll | commands are executed as typed, in order |
| Uart server, `utils/uartserv/` | two lossy buffers, connection count | accept, read, write, close | a poll inside a poll, full buffers | one connection, bytes in order, nothing of a client that is turned away, losses only where they are known |
| Packetizer, logging, health | buffers, skip counters | packets of each stream | encodings | layouts agree with the ground |

How they interact: everything goes through calls from `timer_handler()` in a fixed
order and through the property tree (shared variables).  GPS gives the age to the
home, the route and the navigation status; the remote link calls the route manager;
the route manager calls the remote link to report waypoints; the filters give the
throttle safety its altitude (`main.xml` names `/position/altitude-filter-agl-ft`); pilot input and
telnet write the switches that control and actuators read; configuration files reach all of them through the XML parser and the tree; every
part that has a timeout reads the clock that the ublox5 driver resets.  The uart server is
a program of its own at the other end of a link.  The full list of components, with what
is not modelled and why, is in `PROJECT.json` under `components`; what is hard to test
is under `hazards`.

## Modules

Flight:

* **RouteMgr**: the route manager's variables and one action per operation.  A place is
  a pair of signed integers in units of the code's threshold, a waypoint is an offset
  and the reference from which its position was last computed; `steer` is the point
  that the target ground track leads to.  Distances are a choice ("near").
* **MainLoop** (EXTENDS RouteMgr): one tick as steps `idle -> gps -> home -> link ->
  failsafe -> route`.  Each step is one section of `timer_handler()`: `StartTick` lines
  112-134, `GpsQuiet`, `GpsFix`, `GpsTimeUtc` for line 156 with the driver, `InitialHome`
  184-197, `Command` and `LinkNotDue` 209-232, `Failsafe` 234-250, `RouteUpdate` 280-288.
  `now` is real time in ticks, `epoch` the tick at which `get_Time()` was zero.
* **FlightControl**: the steps `input -> telnet -> control -> actuators` of a tick.  `locks` is
  the set of those that have the value their stages wait for; a PID stage is its `enabled`
  flag and its `elapsedTime`, a PI stage its `enabled` flag and integral.  In the telnet step any
  number of commands set the master switch, the mode, the throttle, the throttle channel and
  every lock, or build the stages anew; `by_hand` has the locks that were set so.
* **Stages**: what FlightControl leaves out of a stage: the incremental PID with its two
  copies (`control_init()` builds every stage twice), and two digital filters, in integers.
  A step `ComponentsUpdate` is a tick in which `control_update()` updates the stages, which is
  none while the master switch is off; between two of them the lock and the output may change
  any number of times.  `engaged` remembers what a copy began with and what it added up and cut
  off, so that the increments can be compared with the sum.
* **SensorClock**: the clock and the order of the sensor sections, for the modules
  that EXTEND it: **AirData** (a reading is the tick it was taken in, an average the set of
  readings in it; what it ends in is `/position/altitude-pressure-agl-ft`, which telnet can read
  and no code does), **Navigation** (when filters run and which fixes they take in),
  **GyroBias**.

Communication:

* **RemoteLink**: the link byte by byte.  A byte is known by its command and its position
  in the line, so a line with a byte missing, or glued to the next one, is a line that
  the checksum rejects.  `Read` is one call of `remote_link_command()`; `Open` is
  `remote_link_init()` called from `link_write()`.  The ground station is not in the
  repository: it is assumed to repeat a command until its number comes back, which is what
  the sequence numbers are for.  In MainLoop a read may return any command, which
  includes everything that RemoteLink lets through.
* **CommandDelivery**: what the link promises, in two actions.  `RemoteLink!ExactlyOnce`
  is that RemoteLink implements it, with `acknowledged <- sending - 1`.
* **Downlink**: skip counters, the fifo of whole packets, a port that takes some bytes at
  a time, and the waypoint reports of `FGRouteMgr::update()`.
* **UartServer**: the main loop of the server over a stack of polls, because a client that
  is turned away runs a poll inside the one that accepted it.  A client may send and end while it
  waits to be accepted.  Bytes are numbered by sender, and a byte that is thrown away is kept with
  the channel whose `close()` did it, or the server for want of room.
* **Telnet**: channel list, poll, line buffers, sessions that end; a line is a sequence of
  letters, a command is the line it came as.
* **FrameParser**: the byte machine that `read_ublox5()` and `ardupilot_read()` share, over
  bytes with their values and sums modulo 256; `driver` chooses the sync bytes, the header
  and whether the payload is static.  The states 2 to 5 of the one and 2 and 3 of the other
  are the state "header" with the bytes read so far.  A call may end before any byte, so the
  line needs no buffer.  What is left in the payload of `read_ublox5()` from one call to the
  next is a choice: the array is automatic.  `Room` is the longest payload that it takes.
  `FramesArrive` says that a frame is parsed unless it is `Spoilt` (it lost a byte, or is too long),
  or an earlier one is and the parser was inside what it took for that one when this one began.
* **FrameDelivery**: what a driver promises: places and payloads of messages, each as it was sent
  and later than the one before.  `FrameParser!ParsedInOrder` is that FrameParser implements it.
* **ImuText**: the two text drivers, one machine over other texts, with the exclusive-or
  sum of the VN100, each bit of it as a parity.  **Mnav**: the non-blocking read of the MNAV board, what of it is
  published, its servo command.

Estimation:

* **Matrix**: `matrix.c` and the frames of `navfunc.cpp`, function by function, over the
  integers modulo a prime (`Modulus`).  Elimination, inverses and rotations are then exact
  and every identity of real matrices that does not compare sizes holds or fails as it does
  for rational numbers; pivots are chosen by size there and by "not zero" here.  Of a singular matrix
  `mat_inv()` frees the output and returns `NULL` (`matrix.c:607-613`), which its callers do not look
  at: the model says "singular" and what is done with freed memory is left out.
  **MatrixLaws** has the definitions to compare with: the determinant by permutations, the
  inverse by its products.
* **AttitudeFilter**, **PositionFilter**: the covariances of `ahrs.cpp` and `nav.cpp` with
  their shortcuts and global matrices, and `textbook`, `expected`: the same by full products.
  What the state contributes to a matrix is a choice, so nothing depends on estimates.

Data:

* **PropertyTree**: nodes, children, removed children, the path cache of every node,
  `getNode()` as it creates one component after the other.  **PropertyNode**: two nodes'
  values, with the unions of the C++ class, conversions, ties, aliases and copies.
* **PropsIO**: `readProperties()` as a stack of visitors (an include is read inside the
  element that names it) and `writeProperties()`.
* **XmlRole**: the handlers of `xmlrole.c` as tables from tokens to the next handler and the
  role.  **XmlProlog**: the machine that they make, with the grammar of XML to compare it
  with.  **XmlTok**: `xmltok_impl.c` for UTF-8 as tables from bytes to states, one table for
  each C function.  **XmlParse** (EXTENDS XmlTok and XmlRole): `xmlparse.c`, one action per
  token, and the loop of `readXML()` that cuts a file into buffers.

The modules **MC_*** give constants their values.  MC_FlightControl (FlightControl and Stages),
MC_Sensors (the sensors and, from MC_Filters, the filters' arithmetic), MC_Links, MC_Properties,
MC_Filters and MC_Xml hold several machines of which one moves in a behaviour: they share
no state in the code either, except through the operations named above, and one run then
asks one question of all that are of a kind.

The theorems are in **MainLoopProofs** (the main loop and the stages), **FlightControlProofs**,
**SensorProofs** (gyro bias, navigation filters, air data, byte parsers, text
messages of the IMUs, MNAV board),
**RemoteLinkProofs**, **StreamProofs** (the downlink, the telnet sessions, the serial port
server), **FilterProofs** (the covariance of the attitude filter) and **PropertyTreeProofs** (the
tree and the values).  **SequenceLemmas** has what they share about sequences: folds, flattening, order,
and induction and recursion over the natural numbers, stated with sets and functions where the
library's theorems have operators.

Definitions marked "Mutant:" are wrong on purpose: each is a plausible bug that the
property it is paired with (`mutants` in `PROJECT.json`) must find.

## Runs

| Run | Shows | Bounds |
|---|---|---|
| `MainLoop.cfg` | failsafe, home, waypoints, ground track, the inductive invariant | 10 ticks, periods 3 and 2, timeouts 2 to 3 ticks, 2 places (one of negative coordinates), 2 courses, a route of an absolute and a relative waypoint |
| `RemoteLink.cfg` | exactly once, acknowledgement over a uart | 3 commands numbered 1, 2, 1; lines of 2 bytes, a buffer of 4, 2 losses of any run of bytes, 1 shutdown |
| `FlightControl.cfg` | throttle lock, PID timing, locks, the inductive invariant; the sums of the stages | 4 units of time in ticks of 1 or 2, three throttle settings, one lock set by hand at a time; 4 updates of the stages with `dt` of -1, 1 and 2 |
| `Sensors.cfg` | byte and text parsers publish what was sent, in order; altitude above ground, gyro bias and fixes over the clock reset; the matrix package, the attitude covariance | 3 frames after the rest of another and 2 lost bytes, messages with sync bytes in their payload, one that `read_ublox5()` has no room for; 3 texts of the same sum and 1 lost character; 3 packets of the MNAV and 1 lost byte; 8 ticks of the clock, limits of 1 and 2; 125 matrices of three rows out of five (equal, dependent, zero on the diagonal), rotations by 0 and the angle of 3-4-5, 3 updates of the covariance |
| `Links.cfg` | whole packets and fair reports; one connection and its bytes; sessions executed as typed | 3 streams with packets of 2 and 3 bytes, one that never skips, a fifo of two packets, 2 waypoints and home; 2 clients, buffers of 2 bytes, 3 bytes in all, either way; 3 lines of up to 3 letters in buffers of 2 to 4 |
| `Properties.cfg` | nodes, paths, values, ties and copies | 3 nodes of one name and two indices, 4 paths (up, down, absolute, indexed) from 2 nodes; 2 nodes of values 0, 1, 1.5 and 6 texts, all types in use, ties with any of getter and setter |
| `Xml.cfg` | prolog against grammar, documents however they are cut, property files | every declaration of 5 tokens, and of 10 of the usual ones; 200 documents of every construct, right and wrong, in buffers of 1, 2, 3, 7, 100 bytes and from memory; files of 2 elements of every kind or 3 plain ones |

The bounds are the smallest at which the cases meet: every period divides the flight
several times and is different from the others, every timeout expires and is renewed,
the clock is reset before, between and after the events that are stamped; sequence
numbers come round; a line is split, overflows the buffer and loses its newline; the fifo
is full when a packet comes; the throttle sequence is completed in part in one mode and
goes on after another; a false frame begins inside a frame and ends inside the next one or
never; a client that waits has sent already and is turned away while another is served and its bytes
are in the buffers; a removed node
comes back while its path is remembered by two others; a buffer ends in every token.
`Year` keeps its real value, as no fix at all must be older than every limit.

A property is the conjunction of what its comment names: `NodesAreKept`, `PathsAreRight`,
`ValuesAreRight`, `ValuesAreHandedOn`, `SessionsAreServed`, `BytesAreKept`, `FramesArrive`,
`MatricesAreRight` and `StagesAreRight` are each made of named parts.

`CHECK_DEADLOCK FALSE` is set because the bounds (`MaxTick`, `MaxTime`, the numbers of
commands, frames, lines, updates) end a flight, because the uart server and the flight
program may stop, and because a document and a file end.

Five runs state what a comment of the code says and find it violated; each is under
`findings`:

* `GoCommand.cfg`: the main loop sets route mode after every valid command, so `go,home`
  lasts for no time at all.
* `SouthWestHome.cfg`: a home with negative longitude and latitude is rejected, `fabs()`
  has its parenthesis in the wrong place.
* `Reconnect.cfg`: after a reconnect the last command's number is not reported again, so a
  station that waits for it waits for ever.
* `Reengagement.cfg`: stages are not updated while the master switch is off, so a stage whose
  lock went off meanwhile goes on from its old output and not, as its comment has it, from the
  value it finds.
* `NavCovariance.cfg`: the loop that makes `I - K*H` leaves out row 0, so that the position
  filter's covariance is not `(I - K*H)*P`.

What the models follow the code in, and a reader might take for an error of theirs:

* After the clock reset the failsafe is late, PID stages sleep and the altitude above ground
  stands still, each for as long as the ended epoch was; the properties say that this is the
  worst that happens.
* The initial home needs a receiver that has settled for 10 seconds (`gps_mgr.cpp:195`), not the 20
  that the comment on that section says (`ugear_gumstix.cpp:184-185`): `HomeFromSettledFix` speaks of
  the 10.
* The comments of `act_mgr.cpp` say that near the ground the throttle is "completely turned off"
  (237-239), and so in "any mode that is not sas" (282-286).  The code lets it through in every mode
  once the override was earned in sas mode, for the rest of the flight, and while the pilot flies
  the throttle channel keeps its value: `ThrottleNeverRisesNearGround` says what is left, that it
  does not rise.
* Telnet's `set` may write any node, so the locks need not be those of the mode: `LocksAsEngaged`
  speaks of those that no session has set since the switch last changed them.
* A PI stage that the master switch turns on again continues its old integral, and a PID stage its
  old output (`BeginsFromOutput`): `StagesAreRight` counts from the last update that found the
  lock off.
* The uart server "attempts to buffer everything and lose nothing" (`uartserv.cxx:109-110`), but its
  buffers are one pair for all channels and every `close()` empties both
  (`netbuffer.hxx:194-202`): a client that is turned away makes the served one lose what waits
  there, in both directions, and may be sent what was meant for the other.  `BytesAreKept` says
  that nothing else is lost but for want of room, and nothing of a client that is turned away comes to the port.
* A document in memory that breaks off gives no error, as
  `readXML(buf, size)` never makes the final call, though `easyxml.hxx:404-423` promises an exception
  for any problem and 261-287 an end for each start: `MeansWhatItSays` says how much of such a
  document is reported (`EndsUntold`, `untold`).
* `epilogProcessor()` does not keep the CR at the end of a buffer (`xmlparse.c:2291-2300`), so
  that a CR LF cut there counts as two lines: `ErrorLineIsRight` says that the line of an error
  behind it is late by just as many (`CutBehindRoot`).
* A message of the ublox5 that comes in two reads is parsed from whatever the stack has
  (`gps_ublox5.cxx:388`): what the parsers promise leaves its payload out (`Answers`).
* The turn of waypoint reports goes on when the fifo drops a report: `EveryWaypointReported` is
  about the turn.
* Of two equal declarations of an attribute the first that has a default wins; `%` before white
  space in an entity's value reaches `abort()`; a byte order mark leaves the scanner where it was;
  a comma that is missing in `xmltok.c:1359-1360` makes `UTF-16BE` and `UTF-16LE` one name, and
  neither is known.
* A node with a value and children is written twice and read back as two nodes; index 0 is
  not written; an archived node whose children are not is written empty; an empty list
  cannot be read.
* `mnav_gen_servo` writes channels 5 to 8 to one place; the main loop marks
  `/status/navigation` invalid while the filters and the log use `/health/navigation`.

## Fairness

Most modules check safety only and assume none.  `Downlink` assumes that
`FGRouteMgr::update()` goes on being called (WF of its two outcomes), and `Telnet` that
`process()` is: the 25 Hz and 5 Hz counters of the main loop give both.  `RemoteLink` assumes
that the timer keeps calling the readers and writers (`Read`, `OtherPacket`, `StatusArrives`),
that the station sends and listens, and that a server that went down comes back; losses and
shutdowns are bounded in number, so not every line is lost.  Strong fairness is not needed.

## Proofs

`MainLoopProofs` proves, for every route, every set of places and every value of the
periods and timeouts, that the main loop's specification satisfies what `MainLoop.cfg`
checks on a small instance.  The properties are not inductive alone.  `IInv` adds what the
sections rely on: `CountersInv` (a section's counter is below its period once the section
has run), `ClockInv` (the clock was reset at most once and its time is at most real time),
`StampsInv` (time stamps of any epoch are at most the tick they were taken at, and a
receiver that has settled had its first fix `Settle` ago), `FailsafeInv` (the failsafe's
outcome still holds at the end of the tick).  One lemma per conjunct shows that every
action preserves it; `NextInvariant` puts them together.  The action properties follow from
`IInv` and one step.  Assumed are only the assumptions on the constants that the modules
state (`PlacesAssumption` and so on), all of which TLC evaluates in the runs.

`FlightControlProofs` does the same for the control section: its type invariant, that the
locks are those of the mode the autopilot was switched on in but for those that telnet set, that a
PID stage waits no
longer than its interval and the ended epoch, that the throttle never rises near the
ground, and that only zero, full and zero throttle in sas mode unlock it.  None of these is
inductive alone.  `ClockInv` says by how much a tick's `dt` is short of the tick (by the
epoch that ended, in the first tick after a reset, and by nothing in every other);
`WaitedInv` that the PID stage has counted all it waited for but that epoch, with what a
reset has still to take while it is `Outstanding`; `LocksInv` and `UnlockInv` relate the
locks to the mode at engagement and what was set by hand (`LockByHand`), and the unlock state to what
was seen of the sequence.

`SensorProofs` does it for the three modules that stand on SensorClock, in a flight of any
length and with any limits.  The gyro bias is of the first seconds by the clock of either
epoch: `BiasInv` adds that a sample of this tick is in it only after the section that takes
it.  Every fix is used: `NavInv` says that a stamp is of this epoch or of the ended one, so
that a fix is passed over only until the clock has caught up.  The altitude above ground takes
in each reading by its third tick: `PipelineInv` follows a reading from the ardupilot through
two sections, with the stamp it has at each, and `FreshInv` says when what is on its way
was taken.  None of the three properties says enough about stamps to be inductive alone.

It also proves what the byte parsers do with any messages, any bytes lost at any places and any cuts
into calls: `Frames_Arrive` is that no frame that comes whole to a parser looking for one is
missed.  `FrameInv` adds where the parser is: `InStep` says of a `Whole` frame, one that lost
nothing and did not begin inside another, that what is left on the line is the rest of its bytes and
that the parser has read just the others, with the header and the payload of the message and the
sums that the device had when it had sent as much (`StageAt`).  Two facts carry it.  The sums
of the parser, reduced after every addition, are those of the device, reduced once (`SumIsDeviceSum`).
And a header read in step gives back the length that was put into its bytes (`HeaderSays`), so that the
payload ends where the checksum begins.  Assumed is that an id is a byte and no payload is empty
(`MessagesAssumption`), and that a device sends no payload longer than its length bytes can say
(`Sendable`).  The parsers also implement FrameDelivery, in two theorems: `Frames_Undisturbed` on a
line that spoils nothing, whatever sums the frames have; `Frames_Delivery` on any line, as far
as what is handed on is a frame that was sent (`SumsTell`).  That hypothesis is needed, because
a checksum of 16 bits can be right by accident, and it says nothing of what the theorem is
about: that frames are handed on in the order they were sent and none twice, which follows from
`InThePast`.

Of the MNAV board it proves `MnavAsSent` for any packets, lengths and losses, again in two theorems.
`Mnav_AsSent` takes as a hypothesis that the sum of 16 bits tells the packet that is being sent
from everything else the driver may have put together (`MnavSumsTell`; TLC finds it true in the
states of the run).  `MnavInv` then says that each node has packets out of those that have come and gone, in
their order, and that one decoded in this call and not yet published is later than all of them:
two packets may come in one call, and the first of them is overwritten.  `Mnav_Undisturbed` needs
nothing of the sum on a line that drops nothing, with calls that do not end inside the sync bytes
(those are forgotten at the end of a call): there the driver's buffer and the line are, joined,
the packet (`MnavInStep`).

Of the text messages of the IMUs `Samples_Undisturbed` proves `SamplesAsSent` for both devices,
for any messages and however the line delivers them and the calls end, on a line that loses
nothing.  `TextsArePlain` is what the format asks of a message: the buffer has room for it, its
end is not inside it, and no text of it has a separator in it (or is empty, for the device that puts
blanks between them).  TLC finds that true of the messages of the run.  `TextInv` says that what
is in the port and behind it on the way is the rest of the lines that were sent, from between two of
them or from inside one whose beginning is in `msg`; that what is split at the separators is the
texts that were joined is proved on the way (`PartsOfJoin`, `AllAreWords`).  Nothing is asked of the sum, because every
message that is ended was sent; the theorem is about the machine that finds where it ends.

The stages, in `MainLoopProofs`: `PidInv` says of each of the two copies what it has added up
since an update found its lock on after one that found it off, including what the limits cut off,
and that a stage that is off has no error of before; that the copies keep step is part of it,
because they write one output.  Nothing is assumed of what happens between updates: locks, outputs and
`ap.reinit()` are steps of the specification.  `MeanInv`
is what the moving average is: the running total is the sum of the window, a recursive
function, but for what was missed while no time passed.

`StreamProofs` proves that the serial port server lends its port to one client, for any number of clients.
The count is right at once; that at most one channel is open when the main loop runs needs
`TurnedAway`, the channels that a poll in progress will close when it returns: all open ones
but one are among them, however deep the polls are nested.  It also proves that bytes are kept.
`UpInv` and `DownInv` order everything that is under way: what has arrived, then what is in the
server's buffer, then what is on the wire, each in the order of the numbers, and say that a
byte is in one of these places or among those that were thrown away.  The order of what has
arrived is not inductive without the other two.  `AwayInv` is for the clients that are turned
away: what waits for the port is of open channels only, what came to it is of none that was turned
away, and of two open channels one is on its way out (`OneInv`), so a `close()` that empties
the bytes of another client's is that client's turning away or its own.

It proves that the downlink is whole packets, for any sizes of packets and fifo and
any number of bytes that the port takes at a time: what is in the port and in the fifo together
is the packets that the ground has not received (`StreamInv`), so that taking bytes from one to the
other changes nothing and a packet that does not fit is left out whole.  And it proves that telnet
sessions execute what was typed: `TelnetInv` says of a live session that its line buffer,
its channel's buffer and what is on the way are, joined, the line in progress and the lines not yet
executed (`Holds`), and of a closed one that its buffer is empty, which is why a session that
ends in the middle of a poll executes nothing afterwards.  Assumed of lines is that they have no
newline in them.

`PropertyTreeProofs` proves, for any paths and number of nodes, that children are kept
(`NodesAreKept`) and that no cache answers a bare name with a removed node.  A parent's lists
are right only together with the parents that the nodes name (`Shape`).  The caches need
`CacheInv`, which follows a `getNode()` in progress: what it is about to remember for a bare
name is the child it has found, so the one entry that `removeChild()` clears is the one that
can lead to that child.

Of paths of any length it proves that what a cache answers is what a walk would find
(`PathsAreRight`).  `PathInv` relates what is remembered to a trail of nodes, one for each
component of the path (`Reaches`): a walk in progress has a trail for the components behind it,
what it then remembers has one for all of them, and a trail stays one as long as no node
is dropped, because nodes never change their names or parents.  Two trails of one path from one
node end at the same node.  A `getNode()` that creates returns a node (`CreateFinds`): from a
node that no removal reaches it only comes to such nodes (`GoesUpright` in `WayInv`), as it
brings back a removed child before it goes to it.

Of values it proves that what is set is read, with the conversions of both sides, and that ties,
unties and copies keep it, for any numbers, any texts and any chains of aliases.  `NodesOK`: a node
holds a value of its type in the place where its getters look, the union or the variable it is tied
to, and an alias stands for a node before it in some order, so that a chain ends and setting
a node changes no chain.  The order is an assumption (`AliasAssumption`), and a needed one:
`alias()` does not look for cycles, and on one every getter would run for ever.  Assumed of
the C library is that a number reads back from its text (`LibraryAssumption`): that
holds for the numbers that six digits, or ten for a double, write exactly.  The proof showed
that two alternatives of `Convert` overlapped, so that the module did not say what a text becomes
as a text of another type, though it came out as meant; and that copying needs no exception for nodes
that share a chain of aliases, which `CopyAgrees` no longer makes.

`RemoteLinkProofs` proves that RemoteLink implements CommandDelivery, for any numbering,
line length, buffers, losses and reconnects.  `LinkInv`: only two neighbouring commands are
ever under way, the last one executed and the one being sent, in order on the way up and in
order on the way back; neighbours differ in their numbers because there are at least two of
those, and a number survives the cut to one signed byte because there are at most 127.  A
command that comes again therefore carries the number that was seen last, and a new one
does not.

`FilterProofs` proves that the covariance of the attitude filter is the one of the formulas in the
code's comments, for any prime, quaternions, rates, intervals, noise and number of updates.  The
code leaves products out for three reasons, and each is a lemma: terms that are zero, because a
Jacobian has no columns for the biases (`NoBias`); rows that are those of the unit matrix
(`UnitBias`); and columns of `mat77` that are never written.  For the last there has to be an
invariant (`CovarianceInv`): they are the zeros the matrix was made with.  It needs no inverse to be
right, only that `mat_inv()` returns a matrix over the field (`InvIs`, through the elimination and both
substitutions), and that the inverse of one number is its reciprocal (`InvOfOne`), because the heading
is corrected by a division.  That the covariance is symmetric is the second theorem.  `(I - K*H)*P` is
`P - A*V*A'` for `A = P*H'` and the inverse `V`, which takes the algebra of matrices: products are
associative (`Associative`, by exchanging two sums: `TotalsExchange`) and distributive, transposing
reverses them, and what inverts a symmetric matrix is symmetric.  So here `mat_inv()` has to invert what
it is given (`GainsInverted`): of a singular matrix the code goes on with whatever elimination has left.
TLC finds that true in every state of the run, and `MatricesAreRight` says of `mat_inv()` that
it is the inverse of any matrix that is not singular.

Only model-checked:

* `ParsedInOrder` and `MnavAsSent` without the hypotheses of their theorems, and
  `SamplesAsSent` on a line that loses characters.  They do not hold for every value of the
  constants: messages can be chosen such that a false frame, begun inside one and ended in
  another, or a text that lost a character, has the right checksum and is taken.  What the run shows
  is that the parsers are right with its messages, among which are frames inside frames.
* Liveness (`Downlink`, `Telnet`, the acknowledgements of `RemoteLink`), which is out of the
  prover's reach.
* `MatricesAreRight`, as far as it compares eliminations with determinants, and the properties of XmlProlog,
  XmlParse and PropsIO, which compare recursive functions over documents with definitions
  by other such functions.  Induction over data is proved here only where a set or a function can
  take the place of the theorems' operator, as in SequenceLemmas.

## Not modelled

* Floating point: great circles, the wind triangle, packet layouts, what the filters
  estimate, the scaling of sensor values.  Covariances and matrices are modelled, but over a
  field in which nothing is rounded, so nothing is said of their conditioning.
* Of the autopilot's stages the derivative term (`Td` is at most 0.001 in every
  configuration), the predictor and the exponential filters.
* `eCntrans()` of `navfunc.cpp`, which nothing calls.
* Of the XML parser text in other encodings than UTF-8 (which names of encodings are taken is
  modelled), namespaces, external entity parsers, the
  default and comment handlers, `getContext()`, `dtdCopy()` and running out of memory:
  `readXML()` uses none of them.  Exceptions that a visitor throws through the C parser.
* Of property files, aliases; of the tree, change listeners (no user in the flight program)
  and the parsing of a path into components, which is a constant.
* The altitude above ground of the filter (`filter_mgr.cpp:190-214`), which the configuration gives
  the throttle safety: FlightControl has the comparison as a choice.
* Several GPS receivers at a time, the simulator's IMU, the blocking read of the MNAV and the
  older main program for it.
* Serial port, sockets and logging (system calls, whose outcomes are choices in the modules
  that use them), the health monitor, CAS, the route generator, benchmarks and scripts.

## Plan

Done: the order of the work was the flight program's core (route manager, main loop,
command link, control section) with its proofs, then telemetry and the byte parsers, the
sensors' clock, the two servers, the property tree, the filters' arithmetic, the
configuration files from bytes to nodes.

Left, in the order of what they would add:

1. That `mat_inv()` inverts every matrix that is not singular, which would take the place of the
   hypothesis of `Covariance_AsWritten`.
2. The composition of MainLoop with RemoteLink and of FlightControl with Stages and the filter's
   altitude above ground, in place of the choices that stand for them.
3. The exponential and second order filters and the predictor; logging's flush round.
