------------------------ MODULE FlightControlProofs ------------------------
(***************************************************************************)
(* Proofs about FlightControl, for every sampling interval, set of throttle *)
(* settings and length of a tick.  The invariant IInv is proved one         *)
(* conjunct at a time; the properties follow from it.                       *)
(***************************************************************************)
EXTENDS FlightControl, TLAPS

-----------------------------------------------------------------------------
(* What one more class says of a sequence of throttle classes. *)

Classes == {"zero", "full"}

LEMMA AppendZero ==
  ASSUME NEW s \in Seq(Classes)
  PROVE  LET t == Append(s, "zero")
         IN  Zero(t) /\ (ZeroFull(t) <=> ZeroFull(s))
               /\ (ZeroFullZero(t) <=> ZeroFullZero(s) \/ ZeroFull(s))
<1> DEFINE t == Append(s, "zero")
           n == Len(s)
<1>1. n \in Nat /\ DOMAIN s = 1 .. n /\ DOMAIN t = 1 .. n + 1
  OBVIOUS
<1>2. t[n + 1] = "zero" /\ \A i \in 1 .. n : t[i] = s[i]
  OBVIOUS
<1> HIDE DEF n, t
<1>3. Zero(t)
  BY <1>1, <1>2 DEF Zero
<1>4. ZeroFull(t) <=> ZeroFull(s)
  BY <1>1, <1>2 DEF ZeroFull
<1>5. ZeroFullZero(t) <=> ZeroFullZero(s) \/ ZeroFull(s)
  <2>1. ASSUME ZeroFullZero(t) PROVE ZeroFullZero(s) \/ ZeroFull(s)
    BY <2>1, <1>1, <1>2 DEF ZeroFullZero, ZeroFull
  <2>2. ASSUME ZeroFullZero(s) PROVE ZeroFullZero(t)
    BY <2>2, <1>1, <1>2 DEF ZeroFullZero
  <2>3. ASSUME ZeroFull(s) PROVE ZeroFullZero(t)
    <3>1. PICK i, j \in 1 .. n : i < j /\ s[i] = "zero" /\ s[j] = "full"
      BY <2>3, <1>1 DEF ZeroFull
    <3>2. i < j /\ j < n + 1 /\ t[i] = "zero" /\ t[j] = "full" /\ t[n + 1] = "zero"
      BY <3>1, <1>1, <1>2
    <3> QED
      BY <3>2, <1>1 DEF ZeroFullZero
  <2> QED
    BY <2>1, <2>2, <2>3
<1> QED
  BY <1>3, <1>4, <1>5 DEF t

LEMMA AppendFull ==
  ASSUME NEW s \in Seq(Classes)
  PROVE  LET t == Append(s, "full")
         IN  /\ Zero(t) <=> Zero(s)
             /\ ZeroFull(t) <=> ZeroFull(s) \/ Zero(s)
             /\ ZeroFullZero(t) <=> ZeroFullZero(s)
<1> DEFINE t == Append(s, "full")
           n == Len(s)
<1>1. n \in Nat /\ DOMAIN s = 1 .. n /\ DOMAIN t = 1 .. n + 1
  OBVIOUS
<1>2. t[n + 1] = "full" /\ \A i \in 1 .. n : t[i] = s[i]
  OBVIOUS
<1> HIDE DEF n, t
<1>3. Zero(t) <=> Zero(s)
  BY <1>1, <1>2 DEF Zero
<1>4. ZeroFull(t) <=> ZeroFull(s) \/ Zero(s)
  <2>1. ASSUME ZeroFull(t) PROVE ZeroFull(s) \/ Zero(s)
    BY <2>1, <1>1, <1>2 DEF ZeroFull, Zero
  <2>2. ASSUME ZeroFull(s) PROVE ZeroFull(t)
    BY <2>2, <1>1, <1>2 DEF ZeroFull
  <2>3. ASSUME Zero(s) PROVE ZeroFull(t)
    <3>1. PICK i \in 1 .. n : s[i] = "zero"
      BY <2>3, <1>1 DEF Zero
    <3>2. i < n + 1 /\ t[i] = "zero" /\ t[n + 1] = "full"
      BY <3>1, <1>1, <1>2
    <3> QED
      BY <3>2, <1>1 DEF ZeroFull
  <2> QED
    BY <2>1, <2>2, <2>3
<1>5. ZeroFullZero(t) <=> ZeroFullZero(s)
  BY <1>1, <1>2 DEF ZeroFullZero
<1> QED
  BY <1>3, <1>4, <1>5 DEF t

LEMMA SeenZero ==
  ASSUME sas_seen \in Seq(Classes)
  PROVE  /\ Seen("zero") \in Seq(Classes)
         /\ Zero(Seen("zero"))
         /\ ZeroFull(Seen("zero")) <=> ZeroFull(sas_seen)
         /\ ZeroFullZero(Seen("zero")) <=> ZeroFullZero(sas_seen) \/ ZeroFull(sas_seen)
<1> DEFINE n == Len(sas_seen)
<1>1. CASE sas_seen # << >> /\ sas_seen[n] = "zero"
  <2>1. Seen("zero") = sas_seen
    BY <1>1 DEF Seen
  <2>2. n \in Nat /\ n > 0 /\ DOMAIN sas_seen = 1 .. n
    BY <1>1
  <2>3. Zero(sas_seen)
    BY <1>1, <2>2 DEF Zero
  <2>4. ASSUME ZeroFull(sas_seen) PROVE ZeroFullZero(sas_seen)
    <3>1. PICK i, j \in 1 .. n : i < j /\ sas_seen[i] = "zero" /\ sas_seen[j] = "full"
      BY <2>4, <2>2 DEF ZeroFull
    <3>2. j < n
      BY <3>1, <1>1, <2>2
    <3> QED
      BY <3>1, <3>2, <1>1, <2>2 DEF ZeroFullZero
  <2> QED
    BY <2>1, <2>3, <2>4
<1>2. CASE ~(sas_seen # << >> /\ sas_seen[n] = "zero")
  <2>1. Seen("zero") = Append(sas_seen, "zero")
    BY <1>2 DEF Seen
  <2>2. Append(sas_seen, "zero") \in Seq(Classes)
    BY DEF Classes
  <2> QED
    BY <2>1, <2>2, AppendZero
<1> QED
  BY <1>1, <1>2

LEMMA SeenFull ==
  ASSUME sas_seen \in Seq(Classes)
  PROVE  /\ Seen("full") \in Seq(Classes)
         /\ Zero(Seen("full")) <=> Zero(sas_seen)
         /\ ZeroFull(Seen("full")) <=> ZeroFull(sas_seen) \/ Zero(sas_seen)
         /\ ZeroFullZero(Seen("full")) <=> ZeroFullZero(sas_seen)
<1> DEFINE n == Len(sas_seen)
<1>1. CASE sas_seen # << >> /\ sas_seen[n] = "full"
  <2>1. Seen("full") = sas_seen
    BY <1>1 DEF Seen
  <2>2. n \in Nat /\ n > 0 /\ DOMAIN sas_seen = 1 .. n
    BY <1>1
  <2>3. ASSUME Zero(sas_seen) PROVE ZeroFull(sas_seen)
    <3>1. PICK i \in 1 .. n : sas_seen[i] = "zero"
      BY <2>3, <2>2 DEF Zero
    <3>2. i < n
      BY <3>1, <1>1, <2>2
    <3> QED
      BY <3>1, <3>2, <1>1, <2>2 DEF ZeroFull
  <2> QED
    BY <2>1, <2>3
<1>2. CASE ~(sas_seen # << >> /\ sas_seen[n] = "full")
  <2>1. Seen("full") = Append(sas_seen, "full")
    BY <1>2 DEF Seen
  <2>2. Append(sas_seen, "full") \in Seq(Classes)
    BY DEF Classes
  <2> QED
    BY <2>1, <2>2, AppendFull
<1> QED
  BY <1>1, <1>2

-----------------------------------------------------------------------------
(* Types *)

LEMMA InitInvariant == Init => IInv
<1> SUFFICES ASSUME Init PROVE IInv
  OBVIOUS
<1>1. TypeOK
  <2>1. NewPid \in [enabled : BOOLEAN, elapsedTime : {e \in Int : e <= DesiredTs}]
    BY TimesAssumption DEF NewPid
  <2>2. NewPi \in [enabled : BOOLEAN, int_sum : Int]
    BY DEF NewPi
  <2>3. << >> \in Seq(Classes)
    OBVIOUS
  <2>4. output_throttle \in Levels /\ act_throttle \in Levels /\ tick \in 0 .. MaxDelay
    BY TimesAssumption, LevelsAssumption DEF Init
  <2>5. /\ set_system_time \in BOOLEAN /\ master_switch \in BOOLEAN /\ fcs_enabled \in BOOLEAN
        /\ sas_throttle_override \in BOOLEAN /\ near_ground \in BOOLEAN
    BY Zenon DEF Init
  <2>6. /\ locks \subseteq LockNames /\ by_hand \subseteq LockNames
        /\ fcs_mode \in FcsModes /\ engaged_mode \in FcsModes
    BY DEF Init
  <2>7. /\ phase = "input" /\ now = 0 /\ epoch = 0 /\ last_time = 0 /\ dt = 0 /\ waited = 0
        /\ sas_throttle_state = 0 /\ sas_seen = << >> /\ pid = NewPid /\ pi = NewPi
    BY DEF Init
  <2> QED
    BY <2>1, <2>2, <2>3, <2>4, <2>5, <2>6, <2>7 DEF TypeOK, Classes
<1>2. ClockInv
  BY DEF Init, ClockInv, JustReset
<1>3. WaitedInv
  BY DEF Init, WaitedInv, Outstanding, JustReset, NewPid
<1>4. LocksInv
  BY DEF Init, LocksInv
<1>5. UnlockInv
  BY DEF Init, UnlockInv, Zero, ZeroFull, ZeroFullZero
<1> QED
  BY <1>1, <1>2, <1>3, <1>4, <1>5 DEF IInv

\* The stages stay of their types.
LEMMA AutopilotType ==
  ASSUME TypeOK, UpdateAutopilot
  PROVE  /\ pid' \in [enabled : BOOLEAN, elapsedTime : {e \in Int : e <= DesiredTs}]
         /\ pi' \in [enabled : BOOLEAN, int_sum : Int]
         /\ waited' \in Nat
         /\ output_throttle' \in Levels
<1>1. /\ pid \in [enabled : BOOLEAN, elapsedTime : {e \in Int : e <= DesiredTs}]
      /\ pi \in [enabled : BOOLEAN, int_sum : Int]
      /\ waited \in Nat /\ tick \in Nat /\ dt \in Int /\ output_throttle \in Levels
  BY TimesAssumption DEF TypeOK
<1>2. pid' \in [enabled : BOOLEAN, elapsedTime : {e \in Int : e <= DesiredTs}] /\ waited' \in Nat
  <2>1. CASE PidComputes(pid)
    <3>1. pid' = [enabled |-> "roll" \in locks', elapsedTime |-> 0] /\ waited' = 0
      BY <2>1 DEF UpdateAutopilot, UpdatePid
    <3>2. pid'.elapsedTime = 0 /\ pid' = [enabled |-> pid'.enabled, elapsedTime |-> 0]
      BY <3>1
    <3>3. pid'.enabled \in BOOLEAN
      <4>1. CASE "roll" \in locks'
        BY <3>1, <4>1
      <4>2. CASE "roll" \notin locks'
        BY <3>1, <4>2
      <4> QED
        BY <4>1, <4>2
    <3> QED
      BY <3>1, <3>2, <3>3, TimesAssumption
  <2>2. CASE ~PidComputes(pid)
    <3>1. pid' = [pid EXCEPT !.elapsedTime = pid.elapsedTime + dt] /\ waited' = waited + tick
      BY <2>2 DEF UpdateAutopilot, UpdatePid, Elapse
    <3>2. pid'.elapsedTime <= DesiredTs
      BY <2>2, <3>1, <1>1, TimesAssumption DEF PidComputes, Elapse
    <3> QED
      BY <3>1, <3>2, <1>1
  <2> QED
    BY <2>1, <2>2
<1>3. pi' \in [enabled : BOOLEAN, int_sum : Int]
  <2>1. CASE "heading" \in locks'
    <3>1. PICK error \in Errors :
            pi' = [enabled |-> TRUE,
                   int_sum |-> (IF pi.enabled THEN pi.int_sum ELSE 0) + error * dt]
      BY <2>1 DEF UpdateAutopilot, UpdatePi
    <3>2. error * dt \in Int
      BY <1>1, ErrorsAssumption
    <3> QED
      BY <3>1, <3>2, <1>1
  <2>2. CASE "heading" \notin locks'
    BY <2>2, <1>1 DEF UpdateAutopilot, UpdatePi
  <2> QED
    BY <2>1, <2>2
<1>4. output_throttle' \in Levels
  BY <1>1 DEF UpdateAutopilot, DriveThrottle
<1> QED
  BY <1>2, <1>3, <1>4

LEMMA InputType ==
  ASSUME TypeOK, ClockInv, NEW d \in 1 .. MaxDelay, NEW reset \in BOOLEAN, Input(d, reset)
  PROVE  /\ phase' = "telnet"
         /\ now' \in Nat /\ epoch' \in 0 .. now' /\ last_time' \in 0 .. now'
         /\ set_system_time' \in BOOLEAN /\ dt' \in Int /\ tick' \in 0 .. MaxDelay
<1>1. /\ now \in Nat /\ epoch \in 0 .. now /\ last_time \in 0 .. now
      /\ set_system_time \in BOOLEAN /\ d \in Nat
  BY TimesAssumption DEF TypeOK
<1>2. now' = now + d /\ tick' = d /\ last_time' = now + d - epoch
  BY DEF Input
<1>3. dt' = (now + d - epoch) - last_time
  BY DEF Input
<1>4. epoch' \in {epoch, now + d}
  BY DEF Input
<1>5. set_system_time' \in BOOLEAN
  BY <1>1, Zenon DEF Input
<1>6. phase' = "telnet"
  BY DEF Input
<1>7. tick' \in 0 .. MaxDelay
  BY <1>2, TimesAssumption
<1> QED
  BY <1>1, <1>2, <1>3, <1>4, <1>5, <1>6, <1>7

LEMMA ActuatorsType ==
  ASSUME TypeOK, NEW low \in BOOLEAN, Actuators(low)
  PROVE  /\ phase' = "input" /\ near_ground' \in BOOLEAN
         /\ act_throttle' \in Levels
         /\ sas_throttle_state' \in 0 .. 3 /\ sas_throttle_override' \in BOOLEAN
         /\ sas_seen' \in Seq(Classes)
<1>1. sas_seen \in Seq(Classes)
  BY DEF TypeOK, Classes
<1>2. sas_throttle_state \in 0 .. 3 /\ sas_throttle_override \in BOOLEAN
      /\ act_throttle \in Levels /\ output_throttle \in Levels
  BY DEF TypeOK
<1>3. phase' = "input" /\ near_ground' \in BOOLEAN
  BY DEF Actuators
<1>4. CASE ActuatePilot
  BY <1>1, <1>2, <1>3, <1>4 DEF ActuatePilot
<1>5. CASE ActuateAutopilot(low)
  <2>1. act_throttle' \in {0, output_throttle}
    BY <1>5 DEF ActuateAutopilot, ThrottleOut
  <2>2. sas_throttle_state' \in 0 .. 3
    BY <1>5, <1>2 DEF ActuateAutopilot, UnlockThrottle, StepUnlock
  <2>3. sas_throttle_override' \in BOOLEAN
    BY <1>5, <1>2, Zenon DEF ActuateAutopilot, UnlockThrottle, StepUnlock
  <2>4. sas_seen' \in {Seen("zero"), Seen("full"), sas_seen}
    BY <1>5 DEF ActuateAutopilot, RecordThrottle
  <2> QED
    BY <2>1, <2>2, <2>3, <2>4, <1>1, <1>2, <1>3, SeenZero, SeenFull, LevelsAssumption
<1> QED
  BY <1>4, <1>5 DEF Actuators

\* What Control leaves of the types.
LEMMA ControlType ==
  ASSUME TypeOK, Control
  PROVE  /\ phase' = "actuators"
         /\ pid' \in [enabled : BOOLEAN, elapsedTime : {e \in Int : e <= DesiredTs}]
         /\ pi' \in [enabled : BOOLEAN, int_sum : Int]
         /\ waited' \in Nat
         /\ output_throttle' \in Levels
         /\ fcs_enabled' \in BOOLEAN
         /\ locks' \subseteq LockNames /\ by_hand' \subseteq LockNames
         /\ engaged_mode' \in FcsModes
<1>1. phase' = "actuators"
  BY DEF Control
<1>2. /\ pid \in [enabled : BOOLEAN, elapsedTime : {e \in Int : e <= DesiredTs}]
      /\ pi \in [enabled : BOOLEAN, int_sum : Int]
      /\ waited \in Nat /\ output_throttle \in Levels /\ fcs_enabled \in BOOLEAN
      /\ locks \subseteq LockNames /\ by_hand \subseteq LockNames
      /\ engaged_mode \in FcsModes /\ fcs_mode \in FcsModes
  BY DEF TypeOK
<1>3. CASE Disengage
  <2>1. /\ UNCHANGED <<pid, pi, waited, engaged_mode, output_throttle>>
        /\ fcs_enabled' = FALSE /\ locks' \in {{}, locks} /\ by_hand' \in {{}, by_hand}
    BY <1>3, Zenon DEF Disengage, componentVars
  <2>2. fcs_enabled' \in BOOLEAN
    BY <2>1, Zenon
  <2> QED
    BY <1>1, <1>2, <2>1, <2>2
<1>4. CASE Engage
  <2>1. UpdateAutopilot /\ engaged_mode' = fcs_mode /\ by_hand' = {}
    BY <1>4 DEF Engage
  <2>2. locks' \subseteq LockNames
    BY <1>4 DEF Engage, LocksOf
  <2>3. fcs_enabled' \in BOOLEAN
    BY <1>4, Zenon DEF Engage
  <2> QED
    BY <1>1, <1>2, <2>1, <2>2, <2>3, AutopilotType
<1>5. CASE StayEngaged
  <2>1. UpdateAutopilot
    BY <1>5 DEF StayEngaged
  <2>2. UNCHANGED <<fcs_enabled, locks, by_hand, engaged_mode>>
    BY <1>5 DEF StayEngaged, lockVars
  <2> QED
    BY <1>1, <1>2, <2>1, <2>2, AutopilotType
<1>6. CASE NotEngaged
  <2>1. UNCHANGED <<pid, pi, waited, engaged_mode, output_throttle, fcs_enabled, locks, by_hand>>
    BY <1>6 DEF NotEngaged, controlVars, lockVars, componentVars
  <2> QED
    BY <1>1, <1>2, <2>1
<1> QED
  BY <1>3, <1>4, <1>5, <1>6 DEF Control

LEMMA NextType == TypeOK /\ ClockInv /\ [Next]_vars => TypeOK'
<1> SUFFICES ASSUME TypeOK, ClockInv, [Next]_vars PROVE TypeOK'
  OBVIOUS
<1>1. ASSUME NEW d \in 1 .. MaxDelay, NEW reset \in BOOLEAN,
             InputWithoutPilot(d, reset) \/ InputWithPilot(d, reset)
      PROVE  TypeOK'
  <2>1. Input(d, reset)
    BY <1>1 DEF InputWithoutPilot, InputWithPilot
  <2>2. master_switch' \in BOOLEAN
    <3>1. master_switch \in BOOLEAN
      BY DEF TypeOK
    <3>2. CASE InputWithoutPilot(d, reset)
      BY <3>1, <3>2, Zenon DEF InputWithoutPilot
    <3>3. CASE InputWithPilot(d, reset)
      BY <3>3, Zenon DEF InputWithPilot
    <3> QED
      BY <1>1, <3>2, <3>3
  <2>3. UNCHANGED <<fcs_mode, output_throttle, controlVars, act_throttle,
                    sas_throttle_state, sas_throttle_override, sas_seen>>
    BY <2>1 DEF Input
  <2>4. near_ground' \in BOOLEAN
    BY <2>1, Zenon DEF Input
  <2> QED
    BY <2>1, <2>2, <2>3, <2>4, InputType DEF TypeOK, controlVars, lockVars, componentVars
<1>2. CASE TelnetSet
  <2>1. /\ master_switch \in BOOLEAN /\ fcs_mode \in FcsModes /\ output_throttle \in Levels
    BY DEF TypeOK
  <2>2. master_switch' \in BOOLEAN
    BY <1>2, <2>1, Zenon DEF TelnetSet
  <2>3. fcs_mode' \in FcsModes /\ output_throttle' \in Levels
    BY <1>2, <2>1 DEF TelnetSet
  <2>4. UNCHANGED <<phase, clockVars, controlVars, throttleVars>>
    BY <1>2 DEF TelnetSet
  <2> QED
    BY <2>2, <2>3, <2>4 DEF TypeOK, clockVars, controlVars, lockVars, componentVars, throttleVars
<1>l. ASSUME NEW l \in LockNames, TelnetSetLock(l) PROVE TypeOK'
  <2>1. locks' \subseteq LockNames /\ by_hand' \subseteq LockNames
    BY <1>l DEF TelnetSetLock, TypeOK
  <2>2. UNCHANGED <<phase, clockVars, inputVars, fcs_enabled, engaged_mode, componentVars, throttleVars>>
    BY <1>l DEF TelnetSetLock
  <2> QED
    BY <2>1, <2>2 DEF TypeOK, clockVars, inputVars, componentVars, throttleVars
<1>c. CASE TelnetSetChannel
  <2>1. act_throttle' \in Levels
    BY <1>c DEF TelnetSetChannel
  <2>2. UNCHANGED <<phase, clockVars, inputVars, controlVars,
                    sas_throttle_state, sas_throttle_override, near_ground, sas_seen>>
    BY <1>c DEF TelnetSetChannel
  <2> QED
    BY <2>1, <2>2 DEF TypeOK, clockVars, inputVars, controlVars, lockVars, componentVars
<1>3. CASE TelnetReinit
  <2>1. pid' \in [enabled : BOOLEAN, elapsedTime : {e \in Int : e <= DesiredTs}]
    BY <1>3, TimesAssumption DEF TelnetReinit, NewPid
  <2>2. pi' \in [enabled : BOOLEAN, int_sum : Int]
    BY <1>3 DEF TelnetReinit, NewPi
  <2>3. waited' \in Nat
    BY <1>3 DEF TelnetReinit
  <2>4. UNCHANGED <<phase, clockVars, inputVars, fcs_enabled, lockVars, throttleVars>>
    BY <1>3 DEF TelnetReinit
  <2> QED
    BY <2>1, <2>2, <2>3, <2>4 DEF TypeOK, clockVars, inputVars, lockVars, throttleVars
<1>4. CASE TelnetDone
  BY <1>4 DEF TelnetDone, TypeOK, clockVars, inputVars, controlVars, lockVars, componentVars, throttleVars
<1>5. CASE Control
  <2>1. UNCHANGED <<clockVars, master_switch, fcs_mode, throttleVars>>
    BY <1>5 DEF Control
  <2> QED
    BY <1>5, <2>1, ControlType DEF TypeOK, clockVars, throttleVars
<1>6. ASSUME NEW low \in BOOLEAN, Actuators(low) PROVE TypeOK'
  <2>1. UNCHANGED <<clockVars, inputVars, controlVars>>
    BY <1>6 DEF Actuators
  <2> QED
    BY <1>6, <2>1, ActuatorsType DEF TypeOK, clockVars, inputVars, controlVars, lockVars, componentVars, Classes
<1>7. CASE UNCHANGED vars
  BY <1>7 DEF TypeOK, vars, clockVars, inputVars, controlVars, lockVars, componentVars, throttleVars
<1> QED
  BY <1>1, <1>2, <1>l, <1>c, <1>3, <1>4, <1>5, <1>6, <1>7 DEF Next

-----------------------------------------------------------------------------
(* The clock and the time that the PID stage counts *)

\* The clock variables as arithmetic sees them.
LEMMA ClockType ==
  ASSUME TypeOK
  PROVE  /\ now \in Nat /\ epoch \in Nat /\ epoch <= now /\ last_time \in Int
         /\ dt \in Int /\ tick \in Nat /\ waited \in Nat
         /\ pid.elapsedTime \in Int /\ pid.elapsedTime <= DesiredTs
BY TimesAssumption DEF TypeOK

\* What the start of a tick does to the clock, and what a reset in it leaves to take.
LEMMA InputClock ==
  ASSUME TypeOK, ClockInv, phase = "input",
         NEW d \in 1 .. MaxDelay, NEW reset \in BOOLEAN, Input(d, reset)
  PROVE  /\ ClockInv'
         /\ epoch' \in Nat /\ Outstanding' \in Nat
         /\ epoch' - Outstanding' = epoch - Outstanding
<1>1. /\ now \in Nat /\ epoch \in Nat /\ epoch <= now /\ last_time \in Int
      /\ d \in Nat /\ d > 0
  BY ClockType, TimesAssumption
<1>2. /\ phase' = "telnet" /\ now' = now + d /\ tick' = d /\ last_time' = now + d - epoch
      /\ dt' = (now + d - epoch) - last_time
  BY DEF Input
<1>3. /\ ~set_system_time => epoch = 0
      /\ last_time = IF JustReset THEN now ELSE now - epoch
  BY DEF ClockInv
<1>4. CASE reset
  <2>1. ~set_system_time /\ set_system_time' /\ epoch' = now + d
    BY <1>4 DEF Input
  <2>2. epoch = 0 /\ last_time = now /\ ~JustReset /\ JustReset'
    BY <2>1, <1>1, <1>2, <1>3 DEF JustReset
  <2>3. last_time' = now' /\ dt' = tick'
    BY <2>2, <1>1, <1>2
  <2>4. ClockInv'
    BY <2>1, <2>2, <2>3, <1>1, <1>2 DEF ClockInv
  <2>5. Outstanding = 0 /\ Outstanding' = epoch'
    BY <2>2 DEF Outstanding
  <2> QED
    BY <2>1, <2>2, <2>4, <2>5, <1>1
<1>5. CASE ~reset
  <2>1. (set_system_time' <=> set_system_time) /\ epoch' = epoch
    <3>1. UNCHANGED <<set_system_time, epoch>>
      BY <1>5 DEF Input
    <3> QED
      BY <3>1, Zenon
  <2>2. ~JustReset' /\ last_time' = now' - epoch'
    BY <2>1, <1>1, <1>2 DEF JustReset
  <2>3. CASE JustReset
    <3>1. set_system_time' /\ tick' - dt' = epoch'
      BY <2>1, <2>3, <1>1, <1>2, <1>3 DEF JustReset
    <3>2. ClockInv'
      BY <3>1, <2>2, <1>2 DEF ClockInv
    <3>3. Outstanding = epoch /\ Outstanding' = epoch'
      BY <3>1, <2>2, <2>3, <1>2 DEF Outstanding
    <3> QED
      BY <3>2, <3>3, <2>1, <1>1
  <2>4. CASE ~JustReset
    <3>1. dt' = tick'
      BY <2>4, <1>1, <1>2, <1>3
    <3>2. ClockInv'
      BY <3>1, <2>1, <2>2, <1>1, <1>2, <1>3 DEF ClockInv
    <3>3. Outstanding = 0 /\ Outstanding' = 0
      BY <3>1, <2>2, <2>4, <1>1, <1>2 DEF Outstanding
    <3> QED
      BY <3>2, <3>3, <2>1, <1>1
  <2> QED
    BY <2>3, <2>4
<1> QED
  BY <1>4, <1>5

\* Where the clock stands still, only the phase decides what of ClockInv is asked.
LEMMA ClockKept ==
  ASSUME ClockInv, UNCHANGED clockVars,
         phase' \in {"telnet", "control"} => phase \in {"telnet", "control"}
  PROVE  ClockInv' /\ (JustReset' <=> JustReset)
<1>1. /\ now' = now /\ epoch' = epoch /\ last_time' = last_time /\ tick' = tick /\ dt' = dt
  BY DEF clockVars
<1>2. set_system_time' <=> set_system_time
  <2>1. set_system_time' = set_system_time
    BY DEF clockVars
  <2> QED
    BY <2>1, Zenon
<1>3. JustReset' <=> JustReset
  BY <1>1, <1>2 DEF JustReset
<1> QED
  BY <1>1, <1>2, <1>3 DEF ClockInv

LEMMA NextClock == TypeOK /\ ClockInv /\ [Next]_vars => ClockInv'
<1> SUFFICES ASSUME TypeOK, ClockInv, [Next]_vars PROVE ClockInv'
  OBVIOUS
<1>1. ASSUME NEW d \in 1 .. MaxDelay, NEW reset \in BOOLEAN,
             InputWithoutPilot(d, reset) \/ InputWithPilot(d, reset)
      PROVE  ClockInv'
  <2>1. Input(d, reset) /\ phase = "input"
    BY <1>1 DEF InputWithoutPilot, InputWithPilot, Input
  <2> QED
    BY <2>1, InputClock
<1>2. CASE TelnetSet
  BY <1>2, ClockKept DEF TelnetSet
<1>l. ASSUME NEW l \in LockNames, TelnetSetLock(l) PROVE ClockInv'
  BY <1>l, ClockKept DEF TelnetSetLock
<1>c. CASE TelnetSetChannel
  BY <1>c, ClockKept DEF TelnetSetChannel
<1>3. CASE TelnetReinit
  BY <1>3, ClockKept DEF TelnetReinit
<1>4. CASE TelnetDone
  BY <1>4, ClockKept DEF TelnetDone
<1>5. CASE Control
  BY <1>5, ClockKept DEF Control
<1>6. ASSUME NEW low \in BOOLEAN, Actuators(low) PROVE ClockInv'
  BY <1>6, ClockKept DEF Actuators
<1>7. CASE UNCHANGED vars
  BY <1>7, ClockKept DEF vars
<1> QED
  BY <1>1, <1>2, <1>l, <1>c, <1>3, <1>4, <1>5, <1>6, <1>7 DEF Next

LEMMA SameOutstanding ==
  ASSUME NEW p \in Int, NEW w \in Nat, NEW e \in Nat, NEW o \in Nat,
         NEW e1 \in Nat, NEW o1 \in Nat,
         e1 - o1 = e - o, p + e >= w + o
  PROVE  p + e1 >= w + o1
OBVIOUS

\* Nothing more than the epoch is ever outstanding.
LEMMA OutstandingBound ==
  ASSUME TypeOK, ClockInv
  PROVE  Outstanding \in Nat /\ Outstanding <= epoch
BY ClockType DEF ClockInv, Outstanding

\* One update of the stages.
LEMMA AutopilotWaited ==
  ASSUME TypeOK, ClockInv, WaitedInv, phase = "control", phase' = "actuators",
         UNCHANGED clockVars, UpdateAutopilot
  PROVE  WaitedInv'
<1>1. /\ epoch \in Nat /\ dt \in Int /\ tick \in Nat /\ waited \in Nat
      /\ pid.elapsedTime \in Int
  BY ClockType
<1>2. epoch' = epoch /\ (JustReset' <=> JustReset)
  BY ClockKept DEF clockVars
<1>3. Outstanding' = IF JustReset THEN epoch ELSE 0
  BY <1>2 DEF Outstanding
<1>4. CASE PidComputes(pid)
  <2>1. pid'.elapsedTime = 0 /\ waited' = 0
    BY <1>4 DEF UpdateAutopilot, UpdatePid
  <2> QED
    BY <2>1, <1>1, <1>2, <1>3 DEF WaitedInv
<1>5. CASE ~PidComputes(pid)
  <2>1. pid' = Elapse(pid) /\ waited' = waited + tick
    BY <1>5 DEF UpdateAutopilot, UpdatePid
  <2>2. pid'.elapsedTime = pid.elapsedTime + dt
    BY <2>1, <1>1 DEF Elapse, TypeOK
  <2>3. Outstanding' = Outstanding - (tick - dt)
    BY <1>1, <1>3 DEF Outstanding, ClockInv, JustReset
  <2>4. Outstanding \in Nat
    BY OutstandingBound
  <2> QED
    BY <2>1, <2>2, <2>3, <2>4, <1>1, <1>2 DEF WaitedInv
<1> QED
  BY <1>4, <1>5

LEMMA NextWaited == TypeOK /\ ClockInv /\ WaitedInv /\ [Next]_vars => WaitedInv'
<1> SUFFICES ASSUME TypeOK, ClockInv, WaitedInv, [Next]_vars PROVE WaitedInv'
  OBVIOUS
<1>t. /\ epoch \in Nat /\ dt \in Int /\ tick \in Nat /\ waited \in Nat
      /\ pid.elapsedTime \in Int /\ Outstanding \in Nat /\ Outstanding <= epoch
  BY ClockType, OutstandingBound
<1>1. ASSUME NEW d \in 1 .. MaxDelay, NEW reset \in BOOLEAN,
             InputWithoutPilot(d, reset) \/ InputWithPilot(d, reset)
      PROVE  WaitedInv'
  <2>1. Input(d, reset) /\ phase = "input"
    BY <1>1 DEF InputWithoutPilot, InputWithPilot, Input
  <2>2. pid' = pid /\ waited' = waited
    BY <2>1 DEF Input, controlVars, componentVars
  <2>3. /\ epoch' \in Nat /\ Outstanding' \in Nat
        /\ epoch' - Outstanding' = epoch - Outstanding
    BY <2>1, InputClock
  <2>4. pid.elapsedTime + epoch >= waited + Outstanding
    BY DEF WaitedInv
  <2>5. pid.elapsedTime + epoch' >= waited + Outstanding'
    BY <2>3, <2>4, <1>t, SameOutstanding
  <2> QED
    BY <2>2, <2>5 DEF WaitedInv
<1>2. CASE TelnetSet \/ TelnetSetChannel \/ \E l \in LockNames : TelnetSetLock(l)
  <2>1. UNCHANGED <<phase, clockVars, componentVars>>
    BY <1>2 DEF TelnetSet, TelnetSetChannel, TelnetSetLock, controlVars
  <2>2. JustReset' <=> JustReset
    BY <2>1, ClockKept
  <2> QED
    BY <2>1, <2>2 DEF WaitedInv, Outstanding, clockVars, componentVars
<1>3. CASE TelnetReinit
  <2>1. UNCHANGED <<phase, clockVars>> /\ pid'.elapsedTime = 0 /\ waited' = 0
    BY <1>3 DEF TelnetReinit, NewPid
  <2>2. JustReset' <=> JustReset
    BY <2>1, ClockKept
  <2>3. Outstanding' = Outstanding /\ epoch' = epoch
    BY <2>1, <2>2 DEF Outstanding, clockVars
  <2> QED
    BY <2>1, <2>3, <1>t DEF WaitedInv
<1>4. CASE TelnetDone
  <2>1. UNCHANGED <<clockVars, controlVars>> /\ phase = "telnet" /\ phase' = "control"
    BY <1>4 DEF TelnetDone
  <2>2. JustReset' <=> JustReset
    BY <2>1, ClockKept
  <2> QED
    BY <2>1, <2>2 DEF WaitedInv, Outstanding, clockVars, controlVars, componentVars
<1>5. CASE Control
  <2>1. UNCHANGED clockVars /\ phase = "control" /\ phase' = "actuators"
    BY <1>5 DEF Control
  <2>2. CASE Engage
    BY <2>1, <2>2, AutopilotWaited DEF Engage
  <2>3. CASE StayEngaged
    BY <2>1, <2>3, AutopilotWaited DEF StayEngaged
  <2>4. CASE Disengage \/ NotEngaged
    <3>1. pid' = pid /\ waited' = waited
      BY <2>4 DEF Disengage, NotEngaged, controlVars, componentVars
    <3>2. epoch' = epoch /\ (JustReset' <=> JustReset)
      BY <2>1, ClockKept DEF clockVars
    <3>3. Outstanding' \in Nat /\ Outstanding' <= Outstanding
      BY <3>2, <2>1, <1>t DEF Outstanding
    <3> QED
      BY <3>1, <3>2, <3>3, <1>t DEF WaitedInv
  <2> QED
    BY <1>5, <2>2, <2>3, <2>4 DEF Control
<1>6. ASSUME NEW low \in BOOLEAN, Actuators(low) PROVE WaitedInv'
  <2>1. UNCHANGED <<clockVars, controlVars>> /\ phase = "actuators" /\ phase' = "input"
    BY <1>6 DEF Actuators
  <2>2. JustReset' <=> JustReset
    BY <2>1, ClockKept
  <2> QED
    BY <2>1, <2>2 DEF WaitedInv, Outstanding, clockVars, controlVars, componentVars
<1>7. CASE UNCHANGED vars
  <2>1. UNCHANGED <<phase, clockVars, controlVars>>
    BY <1>7 DEF vars
  <2>2. JustReset' <=> JustReset
    BY <2>1, ClockKept
  <2> QED
    BY <2>1, <2>2 DEF WaitedInv, Outstanding, clockVars, controlVars, componentVars
<1> QED
  BY <1>1, <1>2, <1>3, <1>4, <1>5, <1>6, <1>7 DEF Next

-----------------------------------------------------------------------------
(* The locks *)

\* A step that leaves the locks alone only has to keep the switch on.
LEMMA LocksKept ==
  ASSUME LocksInv, fcs_enabled' = fcs_enabled, UNCHANGED lockVars, phase' # "actuators"
  PROVE  LocksInv'
<1>1. fcs_enabled' <=> fcs_enabled
  BY Zenon
<1> QED
  BY <1>1 DEF LocksInv, lockVars

\* What is set by hand is no longer asked for.
LEMMA LockByHand ==
  ASSUME LocksInv, NEW l, TelnetSetLock(l)
  PROVE  LocksInv'
<1>1. fcs_enabled' <=> fcs_enabled
  <2>1. fcs_enabled' = fcs_enabled
    BY DEF TelnetSetLock
  <2> QED
    BY <2>1, Zenon
<1>2. phase' = "telnet" /\ engaged_mode' = engaged_mode
  BY DEF TelnetSetLock
<1>3. locks' \in {locks \cup {l}, locks \ {l}} /\ by_hand' = by_hand \cup {l}
  BY DEF TelnetSetLock
<1>4. fcs_enabled => locks' \ by_hand' = LocksOf(engaged_mode') \ by_hand'
  BY <1>2, <1>3 DEF LocksInv
<1>5. ~fcs_enabled => locks' \subseteq by_hand'
  BY <1>3 DEF LocksInv
<1> QED
  BY <1>1, <1>2, <1>4, <1>5 DEF LocksInv

LEMMA ControlLocks ==
  ASSUME LocksInv, Control
  PROVE  LocksInv'
<1>1. (master_switch' <=> master_switch) /\ phase' = "actuators"
  <2>1. UNCHANGED master_switch
    BY DEF Control
  <2>2. phase' = "actuators"
    BY DEF Control
  <2> QED
    BY <2>1, <2>2, Zenon
<1>2. CASE Disengage
  <2>1. ~fcs_enabled'
    BY <1>2, Zenon DEF Disengage
  <2>2. locks' \subseteq by_hand'
    BY <1>2 DEF Disengage, LocksInv
  <2> QED
    BY <2>1, <2>2 DEF LocksInv
<1>3. CASE Engage
  <2>1. /\ fcs_enabled' /\ master_switch
        /\ locks' = LocksOf(fcs_mode) /\ engaged_mode' = fcs_mode
    BY <1>3 DEF Engage
  <2> QED
    BY <2>1, <1>1, Zenon DEF LocksInv
<1>4. CASE StayEngaged
  <2>1. /\ fcs_enabled /\ master_switch
        /\ locks' = locks /\ by_hand' = by_hand /\ engaged_mode' = engaged_mode
    BY <1>4 DEF StayEngaged, lockVars
  <2>2. fcs_enabled'
    BY <1>4, Zenon DEF StayEngaged
  <2> QED
    BY <2>1, <2>2, <1>1 DEF LocksInv
<1>5. CASE NotEngaged
  <2>1. ~fcs_enabled /\ locks' = locks /\ by_hand' = by_hand
    BY <1>5 DEF NotEngaged, controlVars, lockVars
  <2>2. ~fcs_enabled'
    BY <1>5, Zenon DEF NotEngaged, controlVars
  <2> QED
    BY <2>1, <2>2 DEF LocksInv
<1> QED
  BY <1>2, <1>3, <1>4, <1>5 DEF Control

LEMMA NextLocks == LocksInv /\ [Next]_vars => LocksInv'
<1> SUFFICES ASSUME LocksInv, [Next]_vars PROVE LocksInv'
  OBVIOUS
<1>1. ASSUME NEW d \in 1 .. MaxDelay, NEW reset \in BOOLEAN,
             InputWithoutPilot(d, reset) \/ InputWithPilot(d, reset)
      PROVE  LocksInv'
  BY <1>1, LocksKept DEF InputWithoutPilot, InputWithPilot, Input, controlVars
<1>2. CASE TelnetSet
  <2>1. phase' = "telnet" /\ UNCHANGED controlVars
    BY <1>2 DEF TelnetSet
  <2> QED
    BY <2>1, LocksKept DEF controlVars
<1>l. ASSUME NEW l \in LockNames, TelnetSetLock(l) PROVE LocksInv'
  BY <1>l, LockByHand
<1>c. CASE TelnetSetChannel
  <2>1. phase' = "telnet" /\ UNCHANGED controlVars
    BY <1>c DEF TelnetSetChannel
  <2> QED
    BY <2>1, LocksKept DEF controlVars
<1>3. CASE TelnetReinit
  <2>1. phase' = "telnet" /\ UNCHANGED <<fcs_enabled, lockVars>>
    BY <1>3 DEF TelnetReinit
  <2> QED
    BY <2>1, LocksKept
<1>4. CASE TelnetDone
  BY <1>4, LocksKept DEF TelnetDone, controlVars
<1>5. CASE Control
  BY <1>5, ControlLocks
<1>6. ASSUME NEW low \in BOOLEAN, Actuators(low) PROVE LocksInv'
  BY <1>6, LocksKept DEF Actuators, controlVars
<1>7. CASE UNCHANGED vars
  <2>1. UNCHANGED <<phase, inputVars, controlVars>>
    BY <1>7 DEF vars
  <2>2. (fcs_enabled' <=> fcs_enabled) /\ (master_switch' <=> master_switch)
    BY <2>1, Zenon DEF inputVars, controlVars
  <2> QED
    BY <2>1, <2>2 DEF LocksInv, controlVars, lockVars
<1> QED
  BY <1>1, <1>2, <1>l, <1>c, <1>3, <1>4, <1>5, <1>6, <1>7 DEF Next

-----------------------------------------------------------------------------
(* The sequence that unlocks the throttle *)

LEMMA UnlockKept ==
  ASSUME UnlockInv, sas_throttle_state' = sas_throttle_state, sas_seen' = sas_seen,
         sas_throttle_override' = sas_throttle_override
  PROVE  UnlockInv'
<1>1. sas_throttle_override' <=> sas_throttle_override
  BY Zenon
<1> QED
  BY <1>1 DEF UnlockInv, Zero, ZeroFull, ZeroFullZero

\* One look at the throttle in sas mode, before the override is live.
LEMMA UnlockStep ==
  ASSUME UnlockInv, sas_seen \in Seq(Classes), sas_throttle_state \in 0 .. 3,
         output_throttle \in 0 .. 100, fcs_mode = "sas",
         ~sas_throttle_override, StepUnlock, RecordThrottle
  PROVE  UnlockInv'
<1>1. /\ sas_throttle_state >= 1 <=> Zero(sas_seen)
      /\ sas_throttle_state >= 2 <=> ZeroFull(sas_seen)
      /\ sas_throttle_state # 3 /\ ~ZeroFullZero(sas_seen)
  BY DEF UnlockInv
<1>2. sas_throttle_override' <=> sas_throttle_state' = 3
  BY Zenon DEF StepUnlock
<1>3. CASE IsZero(output_throttle)
  <2>1. ~IsFull(output_throttle)
    BY <1>3 DEF IsZero, IsFull
  <2>2. sas_seen' = Seen("zero")
    BY <1>3, <2>1 DEF RecordThrottle
  <2>3. sas_throttle_state' = IF sas_throttle_state = 0 THEN 1
                              ELSE IF sas_throttle_state = 2 THEN 3 ELSE sas_throttle_state
    BY <1>3, <2>1 DEF StepUnlock
  <2>4. /\ Zero(sas_seen') /\ (ZeroFull(sas_seen') <=> ZeroFull(sas_seen))
        /\ ZeroFullZero(sas_seen') <=> ZeroFull(sas_seen)
    BY <2>2, <1>1, SeenZero
  <2> QED
    BY <2>3, <2>4, <1>1, <1>2 DEF UnlockInv
<1>4. CASE ~IsZero(output_throttle) /\ IsFull(output_throttle)
  <2>1. sas_seen' = Seen("full")
    BY <1>4 DEF RecordThrottle
  <2>2. sas_throttle_state' = IF sas_throttle_state = 1 THEN 2 ELSE sas_throttle_state
    BY <1>4 DEF StepUnlock
  <2>3. /\ Zero(sas_seen') <=> Zero(sas_seen)
        /\ ZeroFull(sas_seen') <=> ZeroFull(sas_seen) \/ Zero(sas_seen)
        /\ ~ZeroFullZero(sas_seen')
    BY <2>1, <1>1, SeenFull
  <2> QED
    BY <2>2, <2>3, <1>1, <1>2 DEF UnlockInv
<1>5. CASE ~IsZero(output_throttle) /\ ~IsFull(output_throttle)
  <2>1. sas_seen' = sas_seen /\ sas_throttle_state' = sas_throttle_state
    BY <1>5 DEF RecordThrottle, StepUnlock
  <2> QED
    BY <2>1, <1>1, <1>2 DEF UnlockInv
<1> QED
  BY <1>3, <1>4, <1>5

\* Once the override is live nothing that is seen takes it back.
LEMMA UnlockedStays ==
  ASSUME UnlockInv, sas_seen \in Seq(Classes), sas_throttle_override,
         UNCHANGED <<sas_throttle_state, sas_throttle_override>>, RecordThrottle
  PROVE  UnlockInv'
<1>1. Zero(sas_seen) /\ ZeroFull(sas_seen) /\ ZeroFullZero(sas_seen) /\ sas_throttle_state = 3
  BY DEF UnlockInv
<1>2. sas_seen' \in {Seen("zero"), Seen("full"), sas_seen}
  BY DEF RecordThrottle
<1>3. Zero(sas_seen') /\ ZeroFull(sas_seen') /\ ZeroFullZero(sas_seen')
  BY <1>1, <1>2, SeenZero, SeenFull
<1>4. sas_throttle_override'
  BY Zenon
<1>5. sas_throttle_state' = 3
  BY <1>1
<1> QED
  BY <1>3, <1>4, <1>5 DEF UnlockInv

LEMMA ActuatorsUnlock ==
  ASSUME TypeOK, UnlockInv, NEW low \in BOOLEAN, Actuators(low)
  PROVE  UnlockInv'
<1>1. /\ sas_seen \in Seq(Classes) /\ sas_throttle_state \in 0 .. 3
      /\ output_throttle \in 0 .. 100
  BY LevelsAssumption DEF TypeOK, Classes
<1>2. CASE ActuatePilot
  BY <1>2, UnlockKept DEF ActuatePilot
<1>3. CASE ActuateAutopilot(low)
  <2>1. UnlockThrottle /\ RecordThrottle
    BY <1>3 DEF ActuateAutopilot
  <2>2. CASE sas_throttle_override
    <3>1. UNCHANGED <<sas_throttle_state, sas_throttle_override>>
      BY <2>1, <2>2 DEF UnlockThrottle
    <3> QED
      BY <3>1, <2>1, <2>2, <1>1, UnlockedStays
  <2>3. CASE ~sas_throttle_override /\ fcs_mode = "sas"
    <3>1. StepUnlock
      BY <2>1, <2>3 DEF UnlockThrottle
    <3> QED
      BY <3>1, <2>1, <2>3, <1>1, UnlockStep
  <2>4. CASE fcs_mode # "sas" /\ ~sas_throttle_override
    <3>1. UNCHANGED <<sas_throttle_state, sas_throttle_override>>
      BY <2>1, <2>4 DEF UnlockThrottle
    <3>2. sas_seen' = sas_seen
      BY <2>1, <2>4 DEF RecordThrottle
    <3> QED
      BY <3>1, <3>2, UnlockKept
  <2> QED
    BY <2>2, <2>3, <2>4
<1> QED
  BY <1>2, <1>3 DEF Actuators

LEMMA NextUnlock == TypeOK /\ UnlockInv /\ [Next]_vars => UnlockInv'
<1> SUFFICES ASSUME TypeOK, UnlockInv, [Next]_vars PROVE UnlockInv'
  OBVIOUS
<1>1. ASSUME UNCHANGED <<sas_throttle_state, sas_throttle_override, sas_seen>> PROVE UnlockInv'
  BY <1>1, UnlockKept
<1>2. ASSUME NEW d \in 1 .. MaxDelay, NEW reset \in BOOLEAN,
             InputWithoutPilot(d, reset) \/ InputWithPilot(d, reset)
      PROVE  UNCHANGED <<sas_throttle_state, sas_throttle_override, sas_seen>>
  BY <1>2 DEF InputWithoutPilot, InputWithPilot, Input
<1>3. ASSUME \/ TelnetSet \/ TelnetSetChannel \/ TelnetReinit \/ TelnetDone \/ Control
             \/ \E l \in LockNames : TelnetSetLock(l)
      PROVE  UNCHANGED <<sas_throttle_state, sas_throttle_override, sas_seen>>
  BY <1>3 DEF TelnetSet, TelnetSetLock, TelnetSetChannel, TelnetReinit, TelnetDone, Control, throttleVars
<1>4. ASSUME NEW low \in BOOLEAN, Actuators(low) PROVE UnlockInv'
  BY <1>4, ActuatorsUnlock
<1>5. ASSUME UNCHANGED vars PROVE UNCHANGED <<sas_throttle_state, sas_throttle_override, sas_seen>>
  BY <1>5 DEF vars, throttleVars
<1> QED
  BY <1>1, <1>2, <1>3, <1>4, <1>5 DEF Next

-----------------------------------------------------------------------------
(* The theorems *)

\* The invariant of the control section: the types, the clock and the epoch that a
\* reset ended, what the PID stage has counted, the locks of control_update() and
\* the unlock sequence of Actuator_update().
THEOREM Control_Invariant == Spec => []IInv
<1>1. Init => IInv
  BY InitInvariant
<1>2. IInv /\ [Next]_vars => IInv'
  BY NextType, NextClock, NextWaited, NextLocks, NextUnlock DEF IInv
<1> QED
  BY <1>1, <1>2, PTL DEF Spec

\* Every variable of the control section keeps its type; in particular the PID
\* stage's elapsed time never ends a tick beyond its sampling interval.
THEOREM Control_TypeCorrect == Spec => []TypeOK
<1>1. IInv => TypeOK
  BY DEF IInv
<1> QED
  BY <1>1, Control_Invariant, PTL

\* A PID stage that is updated computes at its sampling interval, but for the epoch
\* that a clock reset took from its elapsed time: xmlauto.cxx adds up a dt that is
\* negative once.
THEOREM Pid_ComputesInTime == Spec => []PidComputesInTime
<1>1. IInv => PidComputesInTime
  <2> SUFFICES ASSUME IInv PROVE PidComputesInTime
    OBVIOUS
  <2>1. TypeOK /\ ClockInv /\ pid.elapsedTime + epoch >= waited + Outstanding
    BY DEF IInv, WaitedInv
  <2>2. /\ epoch \in Nat /\ waited \in Nat /\ pid.elapsedTime \in Int
        /\ pid.elapsedTime <= DesiredTs /\ Outstanding \in Nat
    BY <2>1, ClockType, OutstandingBound
  <2> QED
    BY <2>1, <2>2, TimesAssumption DEF PidComputesInTime
<1> QED
  BY <1>1, Control_Invariant, PTL

\* After control_update() the locks are those of the mode in which the master
\* switch was turned on, and none are left once it is off, but for those that a
\* telnet session has set by hand since.
THEOREM Locks_AsEngaged == Spec => []LocksAsEngaged
<1>1. IInv => LocksAsEngaged
  BY DEF IInv, LocksInv, LocksAsEngaged
<1> QED
  BY <1>1, Control_Invariant, PTL

\* The throttle override is live exactly when zero, full and zero throttle were
\* seen, in this order, with the autopilot on in sas mode.
THEOREM Override_Earned == Spec => []OverrideEarned
<1>1. IInv => OverrideEarned
  BY DEF IInv, UnlockInv, OverrideEarned
<1> QED
  BY <1>1, Control_Invariant, PTL

\* Actuator_update() never raises the throttle near the ground without the
\* override, whoever flies and whatever a telnet session has put there.
THEOREM Throttle_NeverRises == Spec => ThrottleNeverRisesNearGround
<1> DEFINE Rises == phase = "actuators" /\ act_throttle' > act_throttle =>
                      ~near_ground' \/ sas_throttle_override'
<1>1. ASSUME TypeOK, Next PROVE Rises
  <2>1. act_throttle \in 0 .. 100 /\ output_throttle \in 0 .. 100
    BY <1>1, LevelsAssumption DEF TypeOK
  <2>2. ASSUME NEW low \in BOOLEAN, Actuators(low) PROVE Rises
    <3>1. CASE ActuatePilot
      <4>1. act_throttle' = act_throttle
        BY <3>1 DEF ActuatePilot
      <4> QED
        BY <4>1, <2>1
    <3>2. CASE ActuateAutopilot(low)
      <4>1. near_ground' <=> low
        BY <2>2, Zenon DEF Actuators
      <4>2. act_throttle' = IF low /\ ~sas_throttle_override' THEN 0 ELSE output_throttle
        BY <3>2 DEF ActuateAutopilot, ThrottleOut
      <4> QED
        BY <4>1, <4>2, <2>1
    <3> QED
      BY <2>2, <3>1, <3>2 DEF Actuators
  <2>3. phase = "actuators" => \E low \in BOOLEAN : Actuators(low)
    BY <1>1 DEF Next, InputWithoutPilot, InputWithPilot, Input, TelnetSet, TelnetSetLock,
                TelnetSetChannel, TelnetReinit, TelnetDone, Control
  <2> QED
    BY <2>2, <2>3
<1>2. TypeOK /\ [Next]_vars => [Rises]_vars
  BY <1>1
<1> QED
  BY <1>2, Control_TypeCorrect, PTL DEF Spec, ThrottleNeverRisesNearGround

=============================================================================
