------------------------------- MODULE Ramps -------------------------------
(***************************************************************************)
(* Motion core (app/src/Ramps.c).  SynchroRefreshTimerIsr runs at every    *)
(* tick of TIM9 and no task preempts it: it samples the encoders, follows  *)
(* them through the ratio of each scale in sync, advances the index or the *)
(* jog ramp, and emits at most one step.  updateSpeedTask and              *)
(* servoEnableTask run at low priority between ticks, and the line         *)
(* protocol writes any variable of the registry between any two steps.     *)
(*                                                                         *)
(* Speeds are steps per second; a tick is 1/Clock second.  The floats of   *)
(* the ramps are integers, and the acceleration is Accel per tick.  Every  *)
(* use of a position is a 16-bit difference and every use of a step count  *)
(* a signed word, so both are kept modulo their width.                     *)
(***************************************************************************)
EXTENDS Integers, FiniteSetsExt

CONSTANTS
  Scales,
  HalfCounter,  \* half the range of an encoder counter (2^15)
  HalfWord,     \* half the range of a step count (2^31)
  HalfInt,      \* half the range of the arithmetic of a ratio (2^31)
  CycleRange,   \* the range of servoCycles (2^16)
  Clock,        \* ticks per second (100000)
  Accel,        \* change of speed per tick
  Moves,        \* counts an encoder can move in one tick
  Sessions,     \* what one session exercises: the variables the host sets, how many writes
                \* (a bound), and the moves of the encoders
  Nums, Dens, MaxSpeeds, JogSpeeds, IndexSpeeds, Targets, Presets, \* what the host writes
  Defaults      \* what the settings hold at start: a ratio and a maximum speed

Magnitude(x) == IF x < 0 THEN -x ELSE x

ASSUME ScaleAssumption == IsFiniteSet(Scales)
ASSUME WidthAssumption ==
  /\ HalfCounter \in Nat \ {0} /\ HalfWord \in Nat \ {0} /\ HalfInt \in Nat \ {0}
  /\ CycleRange \in Nat \ {0, 1}
ASSUME RateAssumption == Clock \in Nat \ {0} /\ Accel \in Nat \ {0}
\* An encoder turns by less than half its counter in one tick.
ASSUME MoveAssumption == Moves \subseteq (1 - HalfCounter)..(HalfCounter - 1)
ASSUME DefaultsAssumption ==
  Defaults.num \in Nums /\ Defaults.den \in Dens /\ Defaults.max \in Int
ASSUME SessionAssumption == \A h \in Sessions : h.moves \subseteq Moves /\ h.limit \in Nat
\* A ratio is small enough that following it does not overflow.
ASSUME RatioAssumption ==
  \A n \in Nums, d \in Dens \ {0} :
    Magnitude(n) * (HalfCounter - 1) + Magnitude(d) <= HalfInt
ASSUME WriteAssumption ==
  /\ Nums \subseteq Int /\ Dens \subseteq Int /\ Targets \subseteq Int
  /\ MaxSpeeds \subseteq Int /\ JogSpeeds \subseteq Int /\ IndexSpeeds \subseteq Int
  /\ Presets \subseteq 0..(2 * HalfCounter - 1)

VARIABLES
  counter,  \* the encoder timers, and scalesDeltaPos.position
  scale,    \* shared.scales and scalesSyncDeltaPos, per scale
  servo,    \* shared.servo and rampsDeltaPos.error
  mode,     \* fastData.servoMode: 0 off, 1 sync and index, 2 jog
  step,     \* step generation: servoCycles, its counter, servoPreviousDirection
  pins,     \* STEP, DIR and ENA (TRUE: the driver is enabled)
  enable,   \* servoEnableTask: where it is
  session,  \* the session this is
  writes,   \* writes of the host so far
  touched,  \* history: position or denominator written since the last tick
  drift,    \* history: motion asked of the follower less motion commanded
  off,      \* history: the host switched the servo off with no scale in sync
  dirFree   \* history: the last slot left DIR to chance (standstill, or dout)

vars == <<counter, scale, servo, mode, step, pins, enable, session, writes, touched,
          drift, off, dirFree>>

(***************************************************************************)
(* Arithmetic: the casts to int16_t and int32_t, and C division.  SDIV by  *)
(* zero is 0 on this core, so x / 0 = 0 and x % 0 = x.                     *)
(***************************************************************************)
Signed(x, half) == ((x + half) % (2 * half)) - half
Int16(x) == Signed(x, HalfCounter)
Quotient(a, b) ==
  IF b = 0 THEN 0
  ELSE LET q == Magnitude(a) \div Magnitude(b) IN IF (a < 0) = (b < 0) THEN q ELSE -q
Remainder(a, b) == a - b * Quotient(a, b)
Least(a, b) == IF a < b THEN a ELSE b
Greatest(a, b) == IF a > b THEN a ELSE b

Init ==
  /\ counter = [s \in Scales |-> 0]
  /\ scale = [s \in Scales |-> [pos |-> 0, old |-> 0, err |-> 0, num |-> Defaults.num,
                               den |-> Defaults.den, sync |-> FALSE, inv |-> FALSE]]
  /\ servo = [desired |-> 0, current |-> 0, tgt |-> 0, speed |-> 0, err |-> 0,
              max |-> Defaults.max, idx |-> 0, jog |-> 0]
  /\ mode = 0
  /\ step = [cycles |-> 0, count |-> 0, prev |-> 0]
  /\ pins = [step |-> FALSE, dir |-> FALSE, ena |-> TRUE]
  /\ enable = "delay" /\ session \in Sessions /\ writes = 0
  /\ touched = [s \in Scales |-> FALSE]
  /\ drift = [s \in Scales |-> 0]
  /\ off = FALSE /\ dirFree = TRUE

(***************************************************************************)
(* The interrupt.                                                          *)
(***************************************************************************)
\* What the sampled counter says the scale moved by, and deltaPositionAndError.
Delta(s, mv) ==
  LET d == Int16(((counter[s] + mv[s]) % (2 * HalfCounter)) - counter[s])
  IN  IF scale[s].inv THEN -d ELSE d
NewPos(s, mv) == (scale[s].pos + Delta(s, mv)) % (2 * HalfCounter)
\* (mutant: the difference of two positions is not cut to 16 bits)
StartValue_Wide(s, mv) ==
  Signed((NewPos(s, mv) - scale[s].old) * scale[s].num + scale[s].err, HalfInt)
StartValue(s, mv) ==
  Signed(Int16(NewPos(s, mv) - scale[s].old) * scale[s].num + scale[s].err, HalfInt)
ScaledDelta(s, mv) == Quotient(StartValue(s, mv), scale[s].den)
Followed(s, mv) ==
  [scale[s] EXCEPT !.pos = NewPos(s, mv), !.old = NewPos(s, mv),
                   !.err = Remainder(StartValue(s, mv), scale[s].den)]

\* One tick of a ramp towards tgt > 0; updateIndexingPosition negates it for tgt < 0.
RampUp(tgt, v, cap) ==
  LET reach == 2 * Accel * Clock * tgt    \* compared with v * v: stopDistance
      faster == IF reach > v * v /\ v < cap THEN Least(v + Accel, cap) ELSE v
  IN  IF reach < v * v THEN Greatest(faster - Accel, 0) ELSE faster

IndexCap == IF servo.idx <= 0 \/ servo.idx > servo.max THEN servo.max ELSE servo.idx
IndexSpeed == IF servo.tgt > 0 THEN RampUp(servo.tgt, servo.speed, IndexCap)
              ELSE -RampUp(-servo.tgt, -servo.speed, IndexCap)

\* updateJogPosition: start towards jog, then stop what exceeds it.
JogStarted ==
  CASE servo.jog > 0 /\ servo.speed < servo.jog -> Least(servo.speed + Accel, servo.jog)
    [] servo.jog < 0 /\ servo.speed > servo.jog -> Greatest(servo.speed - Accel, servo.jog)
    [] OTHER -> servo.speed
JogSpeed ==
  CASE JogStarted > 0 /\ JogStarted > servo.jog -> Greatest(JogStarted - Accel, 0)
    [] JogStarted < 0 /\ JogStarted < servo.jog -> Least(JogStarted + Accel, 0)
    [] OTHER -> JogStarted

\* The servo once the ramp of the mode has run at speed v (positionIncrement).
\* (mutant: the remainder of the position is dropped)
Advance_NoRemainder(v, togo) ==
  LET inc == Quotient(v, Clock)
  IN  [servo EXCEPT !.speed = v, !.err = 0, !.desired = @ + inc,
                    !.tgt = IF togo THEN @ - inc ELSE @]
Advance(v, togo) ==
  LET inc == Quotient(v + servo.err, Clock)
  IN  [servo EXCEPT !.speed = v, !.err = Remainder(v + servo.err, Clock),
                    !.desired = @ + inc, !.tgt = IF togo THEN @ - inc ELSE @]
\* (mutant: a move that has arrived keeps its speed)
Ramped ==
  CASE mode = 1 /\ servo.tgt = 0 -> [servo EXCEPT !.speed = 0]
    [] mode = 1 /\ servo.tgt # 0 -> Advance(IndexSpeed, TRUE)
    [] mode = 2 -> Advance(JogSpeed, FALSE)
    [] OTHER -> servo

Pull(mv) == MapThenSumSet(LAMBDA s : ScaledDelta(s, mv), {s \in Scales : scale[s].sync})
\* (mutants: the counter of a slot does not wrap; a reversal does not wait for DIR;
\* DIR is set only at a reversal)
NextCount_NoWrap == step.count + 1
Reversed_Never(direction) == FALSE
Reversed(direction) == direction # step.prev
DirDue_Forward(change) == change > 0
DirDue(change) == change # 0
Slot == mode # 0 /\ step.count = 0
NextCount == IF step.cycles = 0 THEN (step.count + 1) % CycleRange
             ELSE (step.count + 1) % step.cycles

StepOut(mv) ==
  LET ramped    == Ramped
      desired   == (ramped.desired + Pull(mv)) % (2 * HalfWord)
      change    == Signed(desired - servo.current, HalfWord)
      direction == IF change < 0 THEN -1 ELSE 1
      pulse     == Slot /\ ~Reversed(direction) /\ change # 0
  IN  /\ servo' = [ramped EXCEPT !.desired = desired,
                     !.current = IF pulse THEN (@ + direction) % (2 * HalfWord) ELSE @]
      /\ step' = [step EXCEPT !.count = NextCount,
                              !.prev = IF Slot THEN direction ELSE @]
      /\ pins' = [pins EXCEPT !.step = pulse,
                              !.dir = IF Slot /\ DirDue(change) THEN change > 0 ELSE @]
      /\ dirFree' = IF Slot THEN change = 0 ELSE dirFree

\* The motion asked of the follower is the one the encoder made, whatever is sampled.
Asked(s, mv) == IF scale[s].inv THEN -mv[s] ELSE mv[s]
Drift(s, mv) ==
  IF touched[s] \/ scale[s].den = 0 THEN Followed(s, mv).err
  ELSE drift[s] + scale[s].num * Asked(s, mv) - scale[s].den * ScaledDelta(s, mv)

Tick ==
  \E mv \in [Scales -> session.moves] :
    /\ counter' = [s \in Scales |-> (counter[s] + mv[s]) % (2 * HalfCounter)]
    /\ scale' = [s \in Scales |-> Followed(s, mv)]
    /\ StepOut(mv)
    /\ drift' = [s \in Scales |-> Drift(s, mv)]
    /\ touched' = [s \in Scales |-> FALSE]
    /\ UNCHANGED <<mode, enable, session, writes, off>>

(***************************************************************************)
(* The low-priority tasks.                                                 *)
(***************************************************************************)
\* updateSpeedTask: the ticks per step the maximum speed allows.
Period(speed) ==
  IF speed < 0 THEN 0
  ELSE IF speed = 0 THEN CycleRange - 1
  ELSE Least(Clock \div speed, CycleRange - 1)

SpeedTask ==
  /\ servo' = [servo EXCEPT !.max = Least(@, Clock)]
  /\ step' = [step EXCEPT !.cycles = Period(servo'.max)]
  /\ UNCHANGED <<counter, scale, mode, pins, enable, session, writes, touched, drift, off, dirFree>>

\* servoEnableTask, after its delay: the test, the write, and the pin.
\* (mutant: the servo is turned on with no scale in sync)
SyncWanted_Always == mode # 2
SyncWanted == (\E s \in Scales : scale[s].sync) /\ mode # 2
EnableTest ==
  /\ enable = "delay"
  /\ enable' = IF SyncWanted THEN "write" ELSE "pin"
  /\ UNCHANGED <<counter, scale, servo, mode, step, pins, session, writes, touched, drift, off, dirFree>>

EnableWrite ==
  /\ enable = "write"
  /\ mode' = 1 /\ enable' = "pin"
  /\ UNCHANGED <<counter, scale, servo, step, pins, session, writes, touched, drift, off, dirFree>>

EnablePin ==
  /\ enable = "pin"
  /\ pins' = [pins EXCEPT !.ena = mode # 0]
  /\ enable' = "delay"
  /\ UNCHANGED <<counter, scale, servo, mode, step, session, writes, touched, drift, off, dirFree>>

(***************************************************************************)
(* The host: set of one variable, and dout while the servo is off.         *)
(***************************************************************************)
Write(name) ==
  name \in session.writes /\ writes < session.limit /\ writes' = writes + 1 /\ session' = session

SetScale(name, s, new, jump) ==
  /\ Write(name)
  /\ scale' = [scale EXCEPT ![s] = new]
  /\ touched' = [touched EXCEPT ![s] = @ \/ jump]
  /\ off' = (off /\ ~new.sync)
  /\ UNCHANGED <<counter, servo, mode, step, pins, enable, drift, dirFree>>

SetPos == \E s \in Scales, v \in Presets : SetScale("pos", s, [scale[s] EXCEPT !.pos = v], TRUE)
SetNum == \E s \in Scales, v \in Nums : SetScale("num", s, [scale[s] EXCEPT !.num = v], FALSE)
SetDen == \E s \in Scales, v \in Dens : SetScale("den", s, [scale[s] EXCEPT !.den = v], TRUE)
SetSync == \E s \in Scales, b \in BOOLEAN : SetScale("sync", s, [scale[s] EXCEPT !.sync = b], FALSE)
SetDir == \E s \in Scales, b \in BOOLEAN : SetScale("dir", s, [scale[s] EXCEPT !.inv = b], FALSE)

SetServo(name, new) ==
  /\ Write(name)
  /\ servo' = new
  /\ UNCHANGED <<counter, scale, mode, step, pins, enable, touched, drift, off, dirFree>>

SetTgt == \E v \in Targets : SetServo("tgt", [servo EXCEPT !.tgt = v])
SetMax == \E v \in MaxSpeeds : SetServo("max", [servo EXCEPT !.max = v])
SetJog == \E v \in JogSpeeds : SetServo("jog", [servo EXCEPT !.jog = v])
SetIdx == \E v \in IndexSpeeds : SetServo("idx", [servo EXCEPT !.idx = v])

SetMode ==
  \E m \in 0..2 :
    /\ Write("mode")
    /\ mode' = m
    /\ off' = (m = 0 /\ enable # "write" /\ \A s \in Scales : ~scale[s].sync)
    /\ UNCHANGED <<counter, scale, servo, step, pins, enable, touched, drift, dirFree>>

Dout ==
  \E p \in DOMAIN pins, b \in BOOLEAN :
    /\ Write("dout")
    /\ mode = 0
    /\ pins' = [pins EXCEPT ![p] = b]
    /\ dirFree' = (dirFree \/ p = "dir")
    /\ UNCHANGED <<counter, scale, servo, mode, step, enable, touched, drift, off>>

Host ==
  \/ SetPos \/ SetNum \/ SetDen \/ SetSync \/ SetDir
  \/ SetTgt \/ SetMax \/ SetJog \/ SetIdx \/ SetMode \/ Dout

Next == Tick \/ SpeedTask \/ EnableTest \/ EnableWrite \/ EnablePin \/ Host

\* The timer never stops, and both tasks wake from their delays for ever.
Fairness == WF_vars(Tick) /\ WF_vars(SpeedTask)
            /\ WF_vars(EnableTest \/ EnableWrite \/ EnablePin)
Spec == Init /\ [][Next]_vars /\ Fairness

(***************************************************************************)
(* Properties.                                                             *)
(***************************************************************************)
\* Every variable has its type: words within their width, speeds within what the host may ask.
Position == 0..(2 * HalfCounter - 1)
StepCount == 0..(2 * HalfWord - 1)
Cycles == 0..(CycleRange - 1)
ScaleState == [pos: Position, old: Position, err: Int, num: Nums, den: Dens, sync: BOOLEAN,
               inv: BOOLEAN]
ServoState == [desired: StepCount, current: StepCount, tgt: Int, speed: Int, err: Int, max: Int,
               idx: Int, jog: Int]
StepState == [cycles: Cycles, count: Cycles, prev: {-1, 0, 1}]
PinState == [step: BOOLEAN, dir: BOOLEAN, ena: BOOLEAN]
TypeOK ==
  /\ counter \in [Scales -> Position] /\ scale \in [Scales -> ScaleState]
  /\ servo \in ServoState /\ mode \in 0..2 /\ step \in StepState /\ pins \in PinState
  /\ enable \in {"delay", "write", "pin"} /\ session \in Sessions
  /\ writes \in 0..session.limit
  /\ touched \in [Scales -> BOOLEAN] /\ drift \in [Scales -> Int]
  /\ off \in BOOLEAN /\ dirFree \in BOOLEAN

\* A follower never drifts: since the last reconfiguration, through any moves, reversals and
\* wraps of the 16-bit counter, what was commanded is within one step of num/den of the motion.
FollowerExact ==
  \A s \in Scales : scale[s].den # 0 /\ ~touched[s] => Magnitude(drift[s]) < Magnitude(scale[s].den)

\* The count and the motor agree: currentSteps moves exactly on a rising STEP, and by the
\* direction DIR shows the driver at that edge.
CountFollowsPins ==
  [][servo'.current # servo.current
       => pins'.step /\ servo'.current = (servo.current + (IF pins'.dir THEN 1 ELSE -1)) % (2 * HalfWord)]_vars

\* A reversal gives DIR a slot to settle: except out of standstill or after dout, the step is
\* taken with DIR as the slot before left it.
DirLeadsStep == [][servo'.current # servo.current /\ ~dirFree => pins'.dir = pins.dir]_vars

\* Switched off stays off: once the host has written mode 0 with no scale in sync, and outside
\* the test and write of servoEnableTask, nothing but the host turns the servo on again.
OffStaysOff == off => mode = 0

\* With the servo left in sync and index mode at some speed, and the encoders still, an index
\* move is delivered to its last step and the motor catches up with everything asked of it.
CatchesUp ==
  (session.moves = {0} /\ <>[](mode = 1 /\ servo.max > 0))
    => <>[](servo.tgt = 0 /\ servo.current = servo.desired)
=============================================================================
