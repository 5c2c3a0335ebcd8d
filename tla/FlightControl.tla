---------------------------- MODULE FlightControl ----------------------------
(***************************************************************************)
(* The control section of timer_handler(): the master switch and the mode  *)
(* as the tick finds them, control_update() of src/control/control.cpp     *)
(* with one PID and one PI stage of src/control/xmlauto.cxx, and the       *)
(* throttle of Actuator_update() in src/actuators/act_mgr.cpp.             *)
(*                                                                         *)
(* Time is in ticks.  A tick is as long as the handler of the last one     *)
(* made it, up to MaxDelay.  The clock is reset at most once, after "dt"   *)
(* was computed (GPS_update(), see MainLoop), so that the next dt is       *)
(* negative by about the length of the epoch that ended.                   *)
(*                                                                         *)
(* control_init() builds every stage twice; both copies see the same       *)
(* inputs and dt in the same tick and go through the states modelled here, *)
(* so one copy of each is kept.                                            *)
(*                                                                         *)
(* A lock is on while it has the value that its stages wait for, which is  *)
(* also the one that control_update() gives it; its other values are all   *)
(* the same to them.  The configuration that ap.reinit() reads again is    *)
(* taken to be the one of before.                                          *)
(***************************************************************************)
EXTENDS Integers, Sequences, FiniteSets

CONSTANTS
  LockNames,  \* of the nodes under /autopilot/locks, those that are modelled
  DesiredTs,  \* the PID stage's sampling interval
  Errors,     \* reference minus input of the PI stage, times Ki
  Levels,     \* throttle settings in percent
  MaxDelay,   \* the longest tick
  MaxByHand,  \* bound on the locks that telnet has set at a time
  MaxTime     \* bound on the length of a flight

ASSUME TimesAssumption ==
  DesiredTs \in Nat /\ MaxDelay \in Nat \ {0} /\ MaxTime \in Nat /\ MaxByHand \in Nat

ASSUME LocksAssumption == {"heading", "roll", "speed"} \subseteq LockNames

ASSUME LevelsAssumption == Levels \subseteq 0 .. 100 /\ 0 \in Levels

ASSUME ErrorsAssumption == Errors \subseteq Int

VARIABLES
  phase,                  \* the section that runs next
  now, epoch, last_time,  \* real time, when get_Time() was 0, master "dt" of the main loop
  set_system_time, dt,
  master_switch,          \* /autopilot/master-switch
  fcs_mode,               \* /config/fcs/mode
  fcs_enabled,            \* static in control_update()
  locks,                  \* those of /autopilot/locks/* that are on
  pid,                    \* the PID stage: enabled, elapsedTime
  pi,                     \* the PI stage: enabled, int_sum
  output_throttle,        \* /controls/engine/throttle
  act_throttle,           \* /actuators/actuator/channel[2]
  sas_throttle_state, sas_throttle_override,
  \* History, which nothing but properties reads:
  tick,                   \* how long this tick really is
  near_ground,            \* the throttle safety found the aircraft low in this tick
  engaged_mode,           \* fcs_mode when fcs_enabled was set
  by_hand,                \* locks that telnet set since control_update() did
  waited,                 \* time the PID stage has been updated for without computing
  sas_seen                \* zero and full throttle, as they alternated in sas mode

clockVars    == <<now, epoch, last_time, set_system_time, dt, tick>>
inputVars    == <<master_switch, fcs_mode, output_throttle>>
lockVars     == <<locks, engaged_mode, by_hand>>
componentVars == <<pid, pi, waited>>
controlVars  == <<fcs_enabled, lockVars, componentVars>>
throttleVars == <<act_throttle, sas_throttle_state, sas_throttle_override,
                  near_ground, sas_seen>>
vars == <<phase, clockVars, inputVars, controlVars, throttleVars>>

FcsModes == {"route", "cas", "sas"}

\* The locks that switching on sets; "sas" is not a mode that control_update() knows.
LocksOf(m) ==
  IF m = "route" THEN LockNames ELSE LockNames \cap {"roll", "pitch", "pointing"}

EngagingModes == {"route", "cas"}

TypeOK ==
  /\ phase \in {"input", "telnet", "control", "actuators"}
  /\ now \in Nat /\ epoch \in 0 .. now /\ last_time \in 0 .. now
  /\ set_system_time \in BOOLEAN
  /\ dt \in Int /\ tick \in 0 .. MaxDelay
  /\ master_switch \in BOOLEAN /\ fcs_mode \in FcsModes /\ fcs_enabled \in BOOLEAN
  /\ locks \subseteq LockNames /\ by_hand \subseteq LockNames
  /\ pid \in [enabled : BOOLEAN, elapsedTime : {e \in Int : e <= DesiredTs}]
  /\ pi \in [enabled : BOOLEAN, int_sum : Int]
  /\ output_throttle \in Levels /\ act_throttle \in Levels
  /\ sas_throttle_state \in 0 .. 3 /\ sas_throttle_override \in BOOLEAN
  /\ near_ground \in BOOLEAN
  /\ engaged_mode \in FcsModes
  /\ waited \in Nat
  /\ sas_seen \in Seq({"zero", "full"})

\* Stages as they are built.
NewPid == [enabled |-> FALSE, elapsedTime |-> 0]
NewPi  == [enabled |-> FALSE, int_sum |-> 0]

Init ==
  /\ phase = "input"
  /\ now = 0 /\ epoch = 0 /\ last_time = 0 /\ dt = 0 /\ tick = 0 /\ set_system_time = FALSE
  /\ master_switch = TRUE   \* Actuator_init() leaves it on
  /\ fcs_mode \in FcsModes
  /\ output_throttle = 0 /\ act_throttle = 0
  /\ fcs_enabled = FALSE /\ locks = {} /\ by_hand = {} /\ engaged_mode = fcs_mode
  /\ pid = NewPid
  /\ pi = NewPi
  /\ waited = 0
  /\ sas_throttle_state = 0 /\ sas_throttle_override = FALSE
  /\ near_ground = FALSE /\ sas_seen = <<>>

-----------------------------------------------------------------------------
(* The tick starts: dt, then the GPS may reset the clock, then a pilot       *)
(* packet may set the master switch.                                         *)

Input(d, reset) ==
  /\ phase = "input" /\ phase' = "telnet"
  /\ now + d <= MaxTime
  /\ now' = now + d
  /\ tick' = d
  /\ dt' = (now + d - epoch) - last_time
  /\ last_time' = now + d - epoch
  /\ IF reset
     THEN ~set_system_time /\ set_system_time' = TRUE /\ epoch' = now + d
     ELSE UNCHANGED <<set_system_time, epoch>>
  /\ near_ground' = FALSE
  /\ UNCHANGED <<fcs_mode, output_throttle, controlVars, act_throttle,
                 sas_throttle_state, sas_throttle_override, sas_seen>>

\* No pilot packet came in this tick.
InputWithoutPilot(d, reset) ==
  /\ Input(d, reset)
  /\ UNCHANGED master_switch

\* A pilot packet: its manual switch decides who flies.
InputWithPilot(d, reset) ==
  /\ Input(d, reset)
  /\ \E pilot_manual \in BOOLEAN : master_switch' = ~pilot_manual

-----------------------------------------------------------------------------
(* The operator's telnet sessions: any number of commands.                   *)

\* "set" of what the main loop, the mode switch and the stages read.
TelnetSet ==
  /\ phase = "telnet"
  /\ \/ master_switch' \in BOOLEAN /\ UNCHANGED <<fcs_mode, output_throttle>>
     \/ fcs_mode' \in FcsModes /\ UNCHANGED <<master_switch, output_throttle>>
     \/ output_throttle' \in Levels /\ UNCHANGED <<master_switch, fcs_mode>>
  /\ UNCHANGED <<phase, clockVars, controlVars, throttleVars>>

\* "set" of a lock, to the value that its stages wait for or to another.
TelnetSetLock(l) ==
  /\ phase = "telnet"
  /\ locks' \in {locks \cup {l}, locks \ {l}}
  /\ by_hand' = by_hand \cup {l} /\ Cardinality(by_hand') <= MaxByHand
  /\ UNCHANGED <<phase, clockVars, inputVars, fcs_enabled, engaged_mode, componentVars, throttleVars>>

\* "set" of the throttle channel itself.
TelnetSetChannel ==
  /\ phase = "telnet"
  /\ act_throttle' \in Levels
  /\ UNCHANGED <<phase, clockVars, inputVars, controlVars,
                 sas_throttle_state, sas_throttle_override, near_ground, sas_seen>>

\* "run ap.reinit()": the stages are built anew, whoever flies.
TelnetReinit ==
  /\ phase = "telnet"
  /\ pid' = NewPid /\ pi' = NewPi
  /\ waited' = 0
  /\ UNCHANGED <<phase, clockVars, inputVars, fcs_enabled, lockVars, throttleVars>>

TelnetDone ==
  /\ phase = "telnet" /\ phase' = "control"
  /\ UNCHANGED <<clockVars, inputVars, controlVars, throttleVars>>

-----------------------------------------------------------------------------
(* control_update(dt) *)

\* Mutant: the time is cleared before it is compared, so it never adds up.
ElapsedOfThisTickOnly(p) == [p EXCEPT !.elapsedTime = dt]

Elapse(p) == [p EXCEPT !.elapsedTime = p.elapsedTime + dt]

\* Mutant: a tick late.
PidComputesLate(p) == Elapse(p).elapsedTime > DesiredTs + 1

PidComputes(p) == Elapse(p).elapsedTime > DesiredTs

\* FGPIDController::update(): the lock is looked at only when it computes.
UpdatePid ==
  IF PidComputes(pid)
  THEN /\ pid' = [enabled |-> "roll" \in locks', elapsedTime |-> 0]
       /\ waited' = 0
  ELSE /\ pid' = Elapse(pid)
       /\ waited' = waited + tick

\* FGPISimpleController::update(): the integral starts from zero when the stage
\* finds that its lock has come on since its last update.
UpdatePi ==
  IF "heading" \in locks'
  THEN \E error \in Errors :
         pi' = [enabled |-> TRUE,
                int_sum |-> (IF pi.enabled THEN pi.int_sum ELSE 0) + error * dt]
  ELSE pi' = [pi EXCEPT !.enabled = FALSE]

\* Any throttle may come out of the stage that drives it.
DriveThrottle ==
  IF "speed" \in locks' THEN output_throttle' \in Levels ELSE UNCHANGED output_throttle

\* The stages are updated after the locks were set.
UpdateAutopilot == UpdatePid /\ UpdatePi /\ DriveThrottle

\* Mutant: the locks follow the mode, but not the switch.
KeepLocks ==
  /\ ~master_switch
  /\ fcs_enabled' = FALSE
  /\ UNCHANGED <<componentVars, lockVars, output_throttle>>

\* The master switch is off: the stages are not updated at all.
Disengage ==
  /\ ~master_switch
  /\ fcs_enabled' = FALSE
  /\ IF fcs_enabled THEN locks' = {} /\ by_hand' = {} ELSE UNCHANGED <<locks, by_hand>>
  /\ UNCHANGED <<componentVars, engaged_mode, output_throttle>>

Engage ==
  /\ master_switch /\ ~fcs_enabled /\ fcs_mode \in EngagingModes
  /\ fcs_enabled' = TRUE
  /\ locks' = LocksOf(fcs_mode)
  /\ engaged_mode' = fcs_mode /\ by_hand' = {}
  /\ UpdateAutopilot

\* The mode is not looked at again while the autopilot is on.
StayEngaged ==
  /\ master_switch /\ fcs_enabled
  /\ UNCHANGED <<fcs_enabled, lockVars>>
  /\ UpdateAutopilot

\* Switched on in a mode that control_update() does not know.
NotEngaged ==
  /\ master_switch /\ ~fcs_enabled /\ fcs_mode \notin EngagingModes
  /\ UNCHANGED <<controlVars, output_throttle>>

Control ==
  /\ phase = "control" /\ phase' = "actuators"
  /\ Disengage \/ Engage \/ StayEngaged \/ NotEngaged
  /\ UNCHANGED <<clockVars, master_switch, fcs_mode, throttleVars>>

-----------------------------------------------------------------------------
(* Actuator_update(): the throttle part of set_actuator_values_ap(), and    *)
(* set_actuator_values_pilot(), which leaves every actuator as it is.       *)

IsZero(throttle) == throttle < 5
IsFull(throttle) == throttle > 95

\* Mutant: the override is live at full throttle already.
UnlockAtFull ==
  /\ sas_throttle_state' =
       CASE sas_throttle_state = 0 /\ IsZero(output_throttle) -> 1
         [] sas_throttle_state = 1 /\ IsFull(output_throttle) -> 3
         [] OTHER -> sas_throttle_state
  /\ sas_throttle_override' = (sas_throttle_state' = 3)

\* The sequence zero, full, zero throttle, followed in sas mode only.
StepUnlock ==
  /\ sas_throttle_state' =
       CASE sas_throttle_state = 0 /\ IsZero(output_throttle) -> 1
         [] sas_throttle_state = 1 /\ IsFull(output_throttle) -> 2
         [] sas_throttle_state = 2 /\ IsZero(output_throttle) -> 3
         [] OTHER -> sas_throttle_state
  /\ sas_throttle_override' = (sas_throttle_state' = 3)

UnlockThrottle ==
  IF ~sas_throttle_override /\ fcs_mode = "sas"
  THEN StepUnlock
  ELSE UNCHANGED <<sas_throttle_state, sas_throttle_override>>

\* What the pilot has shown in sas mode: zero and full throttle, without repeats.
Seen(class) ==
  IF sas_seen # <<>> /\ sas_seen[Len(sas_seen)] = class THEN sas_seen ELSE Append(sas_seen, class)

RecordThrottle ==
  sas_seen' =
    CASE fcs_mode = "sas" /\ IsZero(output_throttle) -> Seen("zero")
      [] fcs_mode = "sas" /\ IsFull(output_throttle) -> Seen("full")
      [] OTHER -> sas_seen

\* Mutant: the safety only holds a throttle that the tick before had off.
SafeThrottle(low) ==
  IF low /\ ~sas_throttle_override' /\ act_throttle = 0 THEN 0 ELSE output_throttle

ThrottleOut(low) ==
  IF low /\ ~sas_throttle_override' THEN 0 ELSE output_throttle

ActuateAutopilot(low) ==
  /\ master_switch
  /\ UnlockThrottle
  /\ RecordThrottle
  /\ act_throttle' = ThrottleOut(low)

ActuatePilot ==
  /\ ~master_switch
  /\ UNCHANGED <<act_throttle, sas_throttle_state, sas_throttle_override, sas_seen>>

Actuators(low) ==
  /\ phase = "actuators" /\ phase' = "input"
  /\ near_ground' = low
  /\ ActuateAutopilot(low) \/ ActuatePilot
  /\ UNCHANGED <<clockVars, inputVars, controlVars>>

-----------------------------------------------------------------------------

Next ==
  \/ \E d \in 1 .. MaxDelay, reset \in BOOLEAN :
       InputWithoutPilot(d, reset) \/ InputWithPilot(d, reset)
  \/ TelnetSet
  \/ \E l \in LockNames : TelnetSetLock(l)
  \/ TelnetSetChannel
  \/ TelnetReinit
  \/ TelnetDone
  \/ Control
  \/ \E low \in BOOLEAN : Actuators(low)

Spec == Init /\ [][Next]_vars

-----------------------------------------------------------------------------
(* Properties *)

\* What a sequence of throttle classes has shown.
Zero(s) == \E i \in DOMAIN s : s[i] = "zero"
ZeroFull(s) == \E i, j \in DOMAIN s : i < j /\ s[i] = "zero" /\ s[j] = "full"
ZeroFullZero(s) ==
  \E i, j, k \in DOMAIN s : i < j /\ j < k /\ s[i] = "zero" /\ s[j] = "full" /\ s[k] = "zero"

\* Throttle is only let through near the ground after zero, full and zero
\* throttle, in this order, were each seen while the autopilot was switched on in
\* sas mode; other modes and manual flight in between neither count nor start the
\* sequence again (act_mgr.cpp:254-280).
OverrideEarned == sas_throttle_override <=> ZeroFullZero(sas_seen)

\* Actuator_update() never raises the throttle in a tick that finds the aircraft
\* near the ground, unless the override was earned, whoever flies
\* (act_mgr.cpp:287-301, 332-336).  The comments there ask for more than the code
\* does and this says: throttle "completely turned off" below 100 feet (237-239),
\* and in "any mode that is not sas" (282-286).  The override that was earned in sas
\* mode holds in every mode and is never taken back, and the pilot's branch
\* leaves a throttle that is on as it is.
ThrottleNeverRisesNearGround ==
  [][phase = "actuators" /\ act_throttle' > act_throttle =>
       ~near_ground' \/ sas_throttle_override']_vars

\* A PID stage that is updated computes at its sampling interval; a clock reset
\* can stop it for the length of the epoch that it ended and no longer
\* (xmlauto.cxx:240-246).
PidComputesInTime == waited <= DesiredTs + epoch

\* Between ticks the locks are those of the mode in which the master switch was
\* turned on, whatever the mode is now, and none are left once it is off, but for
\* locks that a telnet session has set by hand since the switch last changed them
\* (control.cpp:130-205, telnet.cxx:239-249).
LocksAsEngaged ==
  phase = "actuators" =>
    /\ fcs_enabled => master_switch /\ locks \ by_hand = LocksOf(engaged_mode) \ by_hand
    /\ ~fcs_enabled => locks \subseteq by_hand

-----------------------------------------------------------------------------
(* The inductive invariant. *)

\* The clock was reset in this tick.
JustReset == set_system_time /\ epoch = now

\* last_time is of the epoch that ended until the next tick, whose dt is short of
\* the tick by that epoch.
ClockInv ==
  /\ ~set_system_time => epoch = 0
  /\ last_time = IF JustReset THEN now ELSE now - epoch
  /\ phase \in {"telnet", "control"} =>
       /\ tick - dt \in {0, epoch}
       /\ ~set_system_time \/ JustReset => dt = tick

\* What a reset still has to take from the time that stages count.
Outstanding ==
  IF JustReset THEN epoch
  ELSE IF phase \in {"telnet", "control"} THEN tick - dt ELSE 0

\* The PID stage has counted all it waited for but the epoch that ended.
WaitedInv == pid.elapsedTime + epoch >= waited + Outstanding

LocksInv ==
  /\ fcs_enabled => locks \ by_hand = LocksOf(engaged_mode) \ by_hand
  /\ ~fcs_enabled => locks \subseteq by_hand
  /\ phase = "actuators" /\ fcs_enabled => master_switch

\* The unlock state is how much of zero, full, zero has been seen in this order.
UnlockInv ==
  /\ sas_throttle_state >= 1 <=> Zero(sas_seen)
  /\ sas_throttle_state >= 2 <=> ZeroFull(sas_seen)
  /\ sas_throttle_state = 3 <=> ZeroFullZero(sas_seen)
  /\ sas_throttle_override <=> sas_throttle_state = 3

IInv == TypeOK /\ ClockInv /\ WaitedInv /\ LocksInv /\ UnlockInv

=============================================================================
