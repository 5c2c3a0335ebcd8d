------------------------------- MODULE Stages -------------------------------
(***************************************************************************)
(* The arithmetic of the autopilot's stages, src/control/xmlauto.cxx: a    *)
(* PID controller, which control_init() builds twice so that its second    *)
(* copy runs after the first on the same output, and two of the digital    *)
(* filters.                                                                *)
(*                                                                         *)
(* Numbers are integers in units in which Kp and Ti are one.  The          *)
(* derivative term is left out: Td is at most 0.001 in every configuration *)
(* of the repository.                                                      *)
(*                                                                         *)
(* A tick here is one in which control_update() updates the stages at all; *)
(* while the master switch is off it does not (control.cpp:206), nothing   *)
(* of a stage changes, and none of them is told.  So between two updates   *)
(* the lock may go off and come on again and others may write the output,  *)
(* any number of times: FlightControl says when.                           *)
(***************************************************************************)
EXTENDS Integers, Sequences

CONSTANTS
    Readings,    \* values of the input property
    Reference,   \* the value of the reference
    Interval,    \* desiredTs, the sampling interval
    u_min,       \* the limits of the output
    u_max,
    Steps,       \* values of dt: negative after a reset of the clock
    Positions,   \* what others write to the output
    Samples,     \* the window of the moving average
    MaxRate,     \* the noise spike filter's rateOfChange
    MaxTicks     \* bounds the number of updates

ASSUME StagesAssumption ==
    /\ Readings \subseteq Int
    /\ Reference \in Int
    /\ Interval \in Nat
    /\ u_min \in Int /\ u_max \in Int /\ u_min <= u_max
    /\ Steps \subseteq Int
    /\ Positions \subseteq Int
    /\ Samples \in Nat \ {0}
    /\ MaxRate \in Nat
    /\ MaxTicks \in Nat

VARIABLES
    stage,     \* the two copies: enabled, u_n_1, ep_n_1, elapsedTime
    output,    \* the output property, output_list[0]
    lock,      \* whether enable_prop has enable_value
    input,     \* the filters' last inputs, the newest first
    total,     \* Samples times the moving average's output
    calmed,    \* the noise spike filter's output
    ticks,     \* the number of updates, bounded
    \* History, which nothing but properties reads:
    engaged,   \* what each copy began with and added up since
    taken,     \* others wrote the output since the copies last did
    due,       \* the copies have not computed since the lock came on
    missed     \* inputs that the moving average never added

stageVars == <<stage, output, lock, input, total, calmed, ticks, engaged, taken, due, missed>>

Copies == 1..2

-----------------------------------------------------------------------------
(* FGPIDController::update() *)

Clipped(u) == IF u < u_min THEN u_min ELSE IF u > u_max THEN u_max ELSE u

\* What saturation lets through of an increment.
AntiWindup(delta, u_n_1) ==
    IF delta > u_max - u_n_1 THEN u_max - u_n_1
    ELSE IF delta < u_min - u_n_1 THEN u_min - u_n_1
    ELSE delta

\* Mutant: a disabled stage keeps the proportional error of before.
DisabledKeepsError(s) == [s EXCEPT !.stage.enabled = FALSE, !.stage.u_n_1 = 0]

\* u_n and ep_n are zero, and become the last values.
Disabled(s) ==
    [s EXCEPT !.stage.enabled = FALSE, !.stage.u_n_1 = 0, !.stage.ep_n_1 = 0]

\* A stage that is on computes its increment from the time since it last did.
\* One that has just come on begins with the value it finds in the output.
Computed(s, Ts, y_n) ==
    LET fresh == ~s.stage.enabled
        u_n_1 == IF fresh THEN Clipped(s.output) ELSE s.stage.u_n_1
        e_n   == Reference - y_n
        ep_n  == Reference - y_n   \* beta is one
        wish  == (ep_n - s.stage.ep_n_1) + Ts * e_n
        delta == AntiWindup(wish, u_n_1)
        was   == IF fresh THEN [seed |-> u_n_1, sum |-> 0, cut |-> 0] ELSE s.engaged
    IN  [stage   |-> [enabled |-> TRUE, u_n_1 |-> u_n_1 + delta, ep_n_1 |-> ep_n,
                      elapsedTime |-> s.stage.elapsedTime],
         output  |-> u_n_1 + delta,
         engaged |-> [was EXCEPT !.sum = @ + Ts * e_n, !.cut = @ + delta - wish]]

\* The sampling interval has passed.
Computes(pid, dt) == pid.elapsedTime + dt > Interval

PidUpdate(s, dt, y_n) ==
    LET elapsed == s.stage.elapsedTime + dt
    IN  IF ~Computes(s.stage, dt) THEN [s EXCEPT !.stage.elapsedTime = elapsed]
        ELSE LET now == [s EXCEPT !.stage.elapsedTime = 0]
             IN  IF lock THEN Computed(now, elapsed, y_n) ELSE Disabled(now)

-----------------------------------------------------------------------------
(* FGDigitalFilter::update(), which remembers its input in every call and  *)
(* goes on only when dt is positive.                                       *)

Remembered(y) == <<y>> \o SubSeq(input, 1, Samples)

\* Samples times the output, as output[0] + (input[0] - input.back()) / samples.
MovingAverage(window) == total + window[1] - window[Samples + 1]

NoiseSpike(y, dt) ==
    LET maxChange == MaxRate * dt
    IN  IF calmed - y > maxChange THEN calmed - maxChange
        ELSE IF calmed - y < -maxChange THEN calmed + maxChange
        ELSE y

-----------------------------------------------------------------------------
NewStage == [enabled |-> FALSE, u_n_1 |-> 0, ep_n_1 |-> 0, elapsedTime |-> 0]

StagesInit ==
    /\ stage = [c \in Copies |-> NewStage]
    /\ output \in Positions
    /\ lock = FALSE
    /\ input = [i \in 1..(Samples + 1) |-> 0]
    /\ total = 0
    /\ calmed = 0
    /\ ticks = 0
    /\ engaged = [c \in Copies |-> [seed |-> 0, sum |-> 0, cut |-> 0]]
    /\ taken = FALSE /\ due = TRUE
    /\ missed = 0

\* The copies write the output when they compute with the lock on.
RecordWritten(dt) ==
    IF lock /\ Computes(stage[1], dt) THEN taken' = FALSE /\ due' = FALSE ELSE UNCHANGED <<taken, due>>

\* FGXMLAutopilot::update() over the components, the copies in turn.
ComponentsUpdate(dt, y) ==
    LET first  == PidUpdate([stage |-> stage[1], output |-> output, engaged |-> engaged[1]], dt, y)
        second == PidUpdate([stage |-> stage[2], output |-> first.output, engaged |-> engaged[2]], dt, y)
        window == Remembered(y)
    IN  /\ ticks < MaxTicks
        /\ ticks' = ticks + 1
        /\ stage' = <<first.stage, second.stage>>
        /\ output' = second.output
        /\ engaged' = <<first.engaged, second.engaged>>
        /\ RecordWritten(dt)
        /\ input' = window
        /\ total' = IF dt > 0 THEN MovingAverage(window) ELSE total
        /\ calmed' = IF dt > 0 THEN NoiseSpike(y, dt) ELSE calmed
        /\ missed' = IF dt > 0 THEN missed ELSE missed + window[1] - window[Samples + 1]
        /\ UNCHANGED lock

\* control_update() or a telnet session sets the lock.
SetLock(on) ==
    /\ lock # on
    /\ lock' = on
    /\ due' = (due \/ on)
    /\ UNCHANGED <<stage, output, input, total, calmed, ticks, engaged, taken, missed>>

\* The output is a node like any other: control_update() as it engages (the
\* targets of roll and pitch), another stage or a telnet session writes it,
\* whatever the lock and the stages are at.
OutputElsewhere(u) ==
    /\ output # u
    /\ output' = u
    /\ taken' = TRUE
    /\ UNCHANGED <<stage, lock, input, total, calmed, ticks, engaged, due, missed>>

\* ap.reinit(): the components are deleted and built anew.
Reinit ==
    /\ stage' = [c \in Copies |-> NewStage]
    /\ input' = [i \in 1..(Samples + 1) |-> 0] /\ total' = 0 /\ missed' = 0
    /\ calmed' = 0
    /\ due' = TRUE
    /\ UNCHANGED <<output, lock, ticks, engaged, taken>>

StagesNext ==
    \/ \E dt \in Steps, y \in Readings : ComponentsUpdate(dt, y)
    \/ \E on \in BOOLEAN : SetLock(on)
    \/ \E u \in Positions : OutputElsewhere(u)
    \/ Reinit

StagesSpec == StagesInit /\ [][StagesNext]_stageVars

-----------------------------------------------------------------------------
\* The increments add up to the controller of the textbook: what the stage began
\* with, the proportional error and the integral over all the time of its updates
\* since, less what saturation cut off; within the limits.  It began when an update
\* found the lock on after one that found it off, or after it was built
\* (xmlauto.cxx:240-321).  A lock that goes off and comes on between two updates,
\* as when the pilot has the master switch meanwhile, makes no new beginning: see
\* BeginsFromOutput.
PidIsItsSum ==
    \A c \in Copies :
        stage[c].enabled =>
            /\ stage[c].u_n_1 = engaged[c].seed + stage[c].ep_n_1 + engaged[c].sum + engaged[c].cut
            /\ stage[c].u_n_1 \in u_min..u_max

\* The two copies of a controller compute in the same ticks and add up the same
\* errors, and the second has the last word until someone else writes: its output
\* differs from what one copy would write by what the two began with and what
\* saturation cut off.
CopiesKeepStep ==
    /\ stage[1].enabled = stage[2].enabled
    /\ stage[1].elapsedTime = stage[2].elapsedTime
    /\ stage[1].enabled =>
         /\ stage[1].ep_n_1 = stage[2].ep_n_1
         /\ engaged[1].sum = engaged[2].sum
         /\ taken \/ output = stage[2].u_n_1

\* The sum of the last k inputs.
Summed[k \in 0..Samples] == IF k = 0 THEN 0 ELSE Summed[k - 1] + input[k]

\* The moving average is the mean of the last inputs but for those of calls in
\* which no time passed, which it has lost for good.
AverageIsMean == total = Summed[Samples] - missed

\* What the stages compute is what their names say.
StagesAreRight == PidIsItsSum /\ CopiesKeepStep /\ AverageIsMean

\* The copy that has the last word goes on, when it first computes after its lock came
\* on, from the value that the update finds in the output (xmlauto.cxx:250 "first time
\* being enabled, seed u_n with current property tree value").  Not so in the code: a
\* stage learns that its lock is off only in an update that computes, and
\* control_update() makes no updates while the master switch is off.
BeginsFromOutput ==
    [][due /\ ~due' /\ stage[2].enabled => stage[2].u_n_1 = Clipped(output)]_stageVars
=============================================================================
