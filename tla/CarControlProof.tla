--------------------------- MODULE CarControlProof ---------------------------
(***************************************************************************)
(* Proofs about the motor task and the commands (CarControl), for every    *)
(* speed table, number of ramp steps, set of stray values and set of       *)
(* command bytes that the assumptions of CarMotor allow.                   *)
(***************************************************************************)
EXTENDS CarControl, TLAPS

-----------------------------------------------------------------------------
(* Arithmetic of the ramps.                                                *)

(* All the proofs use of uint16: its maximum is a natural number.          *)
LEMMA U16 == MaxU16 \in Nat
  BY DEF MaxU16

(* A quotient is squeezed by what its dividend is squeezed by.             *)
LEMMA DivBound ==
  ASSUME NEW a \in Nat, NEW b \in Nat, b > 0, NEW c \in Nat, a <= c * b
  PROVE  /\ a \div b \in Nat
         /\ a \div b <= c
<1> DEFINE q == a \div b
<1>1. q \in Nat /\ b * q <= a
  BY SMT
<1>2. ASSUME q > c PROVE FALSE
  <2>1. b * q >= b * (c + 1)
    BY <1>1, <1>2, SMT
  <2>2. b * (c + 1) = c * b + b
    BY SMT
  <2> QED
    BY <1>1, <2>1, <2>2, SMT
<1> QED
  BY <1>1, <1>2

(* max_pwm, of stop and run ramp alike: attained and an upper bound.       *)
LEMMA MaxDutyBound ==
  ASSUME NEW d \in [Wheel -> 0..MaxU16]
  PROVE  /\ MaxDuty(d) \in 0..MaxU16
         /\ \A w \in Wheel : d[w] <= MaxDuty(d)
         /\ \E w \in Wheel : MaxDuty(d) = d[w]
<1> DEFINE D == {d[w] : w \in Wheel}
           P(m) == \A w \in Wheel : d[w] <= m
<1>1. \A w \in Wheel : d[w] \in 0..MaxU16
  OBVIOUS
<1>2. d[1] \in Int /\ d[2] \in Int /\ d[3] \in Int /\ Wheel = {1, 2, 3}
  BY <1>1, U16 DEF Wheel
<1>3. \E w \in Wheel : P(d[w])
  <2>1. CASE d[1] >= d[2] /\ d[1] >= d[3]
    BY <1>2, <2>1
  <2>2. CASE d[2] >= d[1] /\ d[2] >= d[3]
    BY <1>2, <2>2
  <2>3. CASE d[3] >= d[1] /\ d[3] >= d[2]
    BY <1>2, <2>3
  <2> QED
    BY <1>2, <2>1, <2>2, <2>3
<1>4. \E m \in D : P(m)
  BY <1>3
<1>5. MaxDuty(d) \in D /\ P(MaxDuty(d))
  BY <1>4 DEF MaxDuty
<1> QED
  BY <1>1, <1>5

(* A slowed duty stays within the old duty and under the new maximum.      *)
LEMMA ScaledBound ==
  ASSUME NEW p \in Nat, NEW m \in Nat, NEW s \in Nat, m + s > 0
  PROVE  /\ Scaled(p, m, s) \in Nat
         /\ Scaled(p, m, s) <= p
         /\ p <= m + s => Scaled(p, m, s) <= m
         /\ m = 0 => Scaled(p, m, s) = 0
<1>1. p * m \in Nat /\ p * m <= p * (m + s)
  BY SMT
<1>2. Scaled(p, m, s) \in Nat /\ Scaled(p, m, s) <= p
  BY <1>1, DivBound DEF Scaled
<1>3. ASSUME p <= m + s PROVE Scaled(p, m, s) <= m
  <2>1. p * m <= m * (m + s)
    BY <1>3, SMT
  <2> QED
    BY <1>1, <2>1, DivBound DEF Scaled
<1>4. ASSUME m = 0 PROVE Scaled(p, m, s) = 0
  BY <1>4, SMT DEF Scaled
<1> QED
  BY <1>2, <1>3, <1>4

(* A part k of n of a distance is no more than the distance.              *)
LEMMA PartBound ==
  ASSUME NEW x \in Nat, NEW n \in Nat, n > 0, NEW k \in Nat, k <= n
  PROVE  (k * x) \div n \in Nat /\ (k * x) \div n <= x
<1>1. k * x \in Nat /\ k * x <= x * n
  BY SMT
<1> QED
  BY <1>1, DivBound

(* A blended duty lies between its start and its target.                   *)
LEMMA BlendBound ==
  ASSUME NEW a \in 0..MaxU16, NEW t \in 0..MaxU16, NEW k \in Nat, k <= Steps
  PROVE  Blend(a, t, k) \in 0..MaxU16
<1>1. Steps \in Nat /\ Steps > 0 /\ a \in Nat /\ t \in Nat
  BY StepsAssumption, U16
<1>2. CASE t >= a
  <2> DEFINE q == (k * (t - a)) \div Steps
  <2>1. t - a \in Nat
    BY <1>1, <1>2
  <2>2. q \in Nat /\ q <= t - a
    BY <1>1, <2>1, PartBound
  <2>3. Blend(a, t, k) = a + q
    BY <1>2 DEF Blend
  <2> HIDE DEF q
  <2> QED
    BY <1>1, <2>2, <2>3, U16
<1>3. CASE ~(t >= a)
  <2> DEFINE q == (k * (a - t)) \div Steps
  <2>1. a - t \in Nat
    BY <1>1, <1>3
  <2>2. q \in Nat /\ q <= a - t
    BY <1>1, <2>1, PartBound
  <2>3. Blend(a, t, k) = a - q
    BY <1>3 DEF Blend
  <2> HIDE DEF q
  <2> QED
    BY <1>1, <2>2, <2>3, U16
<1> QED
  BY <1>2, <1>3

(* A run ramp's duty is a uint16 whatever wraps on the way.                *)
LEMMA TowardBound ==
  ASSUME NEW d \in 0..MaxU16, NEW t \in 0..MaxU16, NEW inc \in Nat
  PROVE  Toward(d, t, inc) \in 0..MaxU16
<1> DEFINE up == (d + inc) % (MaxU16 + 1)
           down == (d - inc) % (MaxU16 + 1)
<1>1. up \in 0..MaxU16 /\ down \in 0..MaxU16
  <2>1. d + inc \in Int /\ d - inc \in Int /\ MaxU16 + 1 > 0
    BY U16
  <2> QED
    BY <2>1, U16
<1>2. Toward(d, t, inc) \in {up, down, t, d}
  BY DEF Toward
<1> HIDE DEF up, down
<1> QED
  BY <1>1, <1>2

LEMMA DivPositive ==
  ASSUME NEW a \in Nat, NEW b \in Nat, b > 0, a >= b
  PROVE  a \div b > 0
<1> DEFINE q == a \div b
<1>1. q \in Nat /\ a < b * (q + 1)
  BY SMT
<1>2. ASSUME q = 0 PROVE FALSE
  BY <1>1, <1>2, SMT
<1> QED
  BY <1>1, <1>2

-----------------------------------------------------------------------------
(* The inductive invariant.  What the properties need beyond types is      *)
(* knowledge of the place the main loop is at: the request it is serving,  *)
(* that a car at rest or done with a ramp has either no duty at all or one *)
(* of at least Steps (so that the next stop ramp has a step_size), and     *)
(* that without torn commands an IDLE direction comes with an IDLE speed   *)
(* (so that no run ramp starts without a direction).                       *)

DrivenEnough == AllZero(ccr) \/ \E w \in Wheel : ccr[w] >= Steps

BaseInv ==
  /\ TypeOK
  /\ ~Torn => (gMotorDirection = IDLE => gMotorSpeedLevel = IDLE)
  /\ pc = "poll" => gControlMotorFlag = "IDLE"
  /\ pc \in {"poll", "task"} => DrivenEnough
  /\ pc = "settle" => gControlMotorFlag = "DIRECTION" /\ AllZero(ccr)
  /\ pc = "stop" => /\ gControlMotorFlag \in {"DIRECTION", "STOP"}
                    /\ size > 0
                    /\ \A w \in Wheel : ccr[w] <= top
  /\ pc = "run" => /\ gControlMotorFlag = "DIRECTION"
                   /\ goal >= Steps
                   /\ ~Torn => gMotorDirection \in {FORWARD, BACKWARD}
  /\ pc = "turn" => gControlMotorFlag = "TURN"

(* The constants as the proofs use them.                                   *)
LEMMA Constants ==
  /\ Steps \in Nat /\ Steps > 0
  /\ \A l \in 1..5 : Duty[l] \in 0..MaxU16 /\ Duty[l] >= Steps
  /\ \A l \in 1..3 : Inner[l] \in 0..MaxU16
  /\ Outer \in 0..MaxU16 /\ Outer >= Steps
  /\ Stray \subseteq 0..MaxU16
  /\ DOMAIN Duty = 1..5
<1>1. \A l \in 1..5 : Duty[l] \in 0..MaxU16
  BY DutyAssumption, U16
<1> QED
  BY <1>1, U16, DutyAssumption, InnerAssumption, OuterAssumption, StepsAssumption,
     StrayAssumption

LEMMA InitBase == Init => BaseInv
  BY U16, BoardAssumption
  DEF Init, MotorInit, BaseInv, TypeOK, ParametersValid, DrivenEnough, AllZero, Wheel, ControlFlag, Place,
      IDLE, FORWARD, BACKWARD, LEFT, RIGHT

(* Entering the stop ramp with a wheel driven.                             *)
LEMMA StopBeginsBase ==
  ASSUME BaseInv, DrivenEnough, ~AllZero(ccr), StopBegins,
         gControlMotorFlag \in {"DIRECTION", "STOP"}
  PROVE  BaseInv'
<1> DEFINE m == MaxDuty(ccr)
<1>1. ccr \in [Wheel -> 0..MaxU16]
  BY DEF BaseInv, TypeOK
<1>2. m \in 0..MaxU16 /\ \A w \in Wheel : ccr[w] <= m
  BY <1>1, MaxDutyBound
<1>3. m \in Nat /\ m >= Steps
  <2>1. PICK w \in Wheel : ccr[w] >= Steps
    BY DEF DrivenEnough
  <2>2. ccr[w] \in Int /\ m \in Nat /\ ccr[w] <= m
    BY <1>1, <1>2, <2>1, U16
  <2> QED
    BY <2>1, <2>2, Constants
<1>4. m \div Steps \in 0..MaxU16 /\ m \div Steps > 0
  <2>1. m <= m * Steps
    BY <1>3, Constants, SMT
  <2>2. m \div Steps \in Nat /\ m \div Steps <= m
    BY <1>3, <2>1, DivBound, Constants
  <2>3. m \div Steps > 0
    BY <1>3, DivPositive, Constants
  <2> QED
    BY <1>2, <2>2, <2>3, U16
<1>5. /\ top' = m /\ size' = m \div Steps /\ step' = 0 /\ pc' = "stop"
      /\ UNCHANGED <<globals, gControlMotorFlag, ccr, cw, runLocals, turnLocals>>
  BY DEF StopBegins
<1> HIDE DEF m
<1> QED
  BY <1>2, <1>4, <1>5
  DEF BaseInv, TypeOK, ParametersValid, globals, runLocals, turnLocals, Place, DrivenEnough, AllZero

(* The task returns with the duties it has brought about.                  *)
LEMMA ReturnBase ==
  ASSUME BaseInv, TaskReturns, UNCHANGED <<globals, cw>>,
         ccr' \in [Wheel -> 0..MaxU16], DrivenEnough'
  PROVE  BaseInv'
  BY U16
  DEF BaseInv, TypeOK, ParametersValid, TaskReturns, DropLocals, globals, Place, ControlFlag, Wheel

LEMMA PinsForType ==
  ASSUME NEW d
  PROVE  PinsFor(d) \in [Wheel -> BOOLEAN]
<1>1. CASE d = BACKWARD
  <2>1. PinsFor(d) = [w \in Wheel |-> w \notin Mirrored]
    BY <1>1 DEF PinsFor
  <2> QED
    BY <2>1
<1>2. CASE d # BACKWARD
  <2>1. PinsFor(d) = [w \in Wheel |-> w \in Mirrored]
    BY <1>2 DEF PinsFor
  <2> QED
    BY <2>1
<1> QED
  BY <1>1, <1>2

(* Entering the run ramp, or finding nothing to do.                        *)
LEMMA RunBeginsBase ==
  ASSUME BaseInv, DrivenEnough, RunBegins, gControlMotorFlag = "DIRECTION"
  PROVE  BaseInv'
<1> DEFINE gaps == [w \in Wheel |-> Gap(Duty[gMotorSpeedLevel], ccr[w])]
           delta == MaxDuty(gaps)
<1>1. ccr \in [Wheel -> 0..MaxU16] /\ cw \in [Wheel -> BOOLEAN]
  BY DEF BaseInv, TypeOK
<1>2. PinsFor(gMotorDirection) \in [Wheel -> BOOLEAN]
  BY PinsForType
<1>3. CASE ccr' = ccr /\ TaskReturns /\ UNCHANGED globals /\ cw' \in [Wheel -> BOOLEAN]
  <2>1. DrivenEnough' /\ ccr' \in [Wheel -> 0..MaxU16]
    BY <1>1, <1>3 DEF DrivenEnough, AllZero
  <2> QED
    BY <1>3, <2>1, U16
    DEF BaseInv, TypeOK, ParametersValid, TaskReturns, DropLocals, globals, Place, ControlFlag, Wheel
<1>4. CASE /\ gMotorSpeedLevel \in DOMAIN Duty
           /\ pc' = "run" /\ goal' = Duty[gMotorSpeedLevel]
           /\ base' = delta \div Steps /\ extra' = delta % Steps /\ step' = 0
           /\ cw' = PinsFor(gMotorDirection)
           /\ UNCHANGED <<globals, ccr, gControlMotorFlag, stopLocals, turnLocals>>
  <2>1. Duty[gMotorSpeedLevel] \in 0..MaxU16 /\ Duty[gMotorSpeedLevel] >= Steps
    BY <1>4, Constants
  <2>2. gaps \in [Wheel -> 0..MaxU16]
    <3>1. \A w \in Wheel : Gap(Duty[gMotorSpeedLevel], ccr[w]) \in 0..MaxU16
      BY <1>1, <2>1, U16 DEF Gap
    <3> QED
      BY <3>1
  <2>3. delta \in 0..MaxU16
    BY <2>2, MaxDutyBound
  <2> HIDE DEF delta
  <2>4. delta \in Nat /\ delta <= delta * Steps
    BY <2>3, U16, Constants, SMT
  <2>5. delta \div Steps \in Nat /\ delta \div Steps <= delta
    BY <2>4, DivBound, Constants
  <2>6. delta \div Steps \in 0..MaxU16 /\ delta % Steps \in Nat
    BY <2>3, <2>4, <2>5, U16, Constants
  <2>7. ~Torn => gMotorDirection \in {FORWARD, BACKWARD}
    BY <1>4, Constants DEF BaseInv, TypeOK, ParametersValid, IDLE
  <2> QED
    BY <1>2, <1>4, <2>1, <2>6, <2>7
    DEF BaseInv, TypeOK, ParametersValid, globals, stopLocals, turnLocals, Place
<1> QED
  BY <1>1, <1>2, <1>3, <1>4 DEF RunBegins

LEMMA TurnBeginsBase ==
  ASSUME BaseInv, DrivenEnough, TurnBegins, gControlMotorFlag = "TURN"
  PROVE  BaseInv'
<1>1. CASE gMotorTurnLevel > 3
  <2>1. TaskReturns /\ UNCHANGED <<globals, ccr, cw>>
    BY <1>1 DEF TurnBegins
  <2>2. ccr' \in [Wheel -> 0..MaxU16] /\ DrivenEnough'
    BY <2>1 DEF BaseInv, TypeOK, DrivenEnough, AllZero
  <2> QED
    BY <2>1, <2>2, ReturnBase
<1>2. CASE ~(gMotorTurnLevel > 3)
  <2>2. from' \in [Wheel -> 0..MaxU16]
    BY <1>2 DEF TurnBegins, BaseInv, TypeOK
  <2>3. slow' \in Wheel
    BY <1>2 DEF TurnBegins, SlowWheel, Wheel
  <2>4. inner' \in 0..MaxU16
    <3>1. inner' \in IF gMotorTurnLevel = 0 THEN Stray ELSE {Inner[gMotorTurnLevel]}
      BY <1>2 DEF TurnBegins
    <3>2. CASE gMotorTurnLevel = 0
      BY <3>1, <3>2, Constants
    <3>3. CASE gMotorTurnLevel # 0
      <4>1. gMotorTurnLevel \in 1..3
        BY <1>2, <3>3 DEF BaseInv, TypeOK
      <4> QED
        BY <3>1, <3>3, <4>1, Constants
    <3> QED
      BY <3>2, <3>3
  <2> QED
    BY <1>2, <2>2, <2>3, <2>4
    DEF TurnBegins, BaseInv, TypeOK, ParametersValid, globals, stopLocals, runLocals, Place
<1> QED
  BY <1>1, <1>2

(* The steps of the ramps.                                                 *)
LEMMA StopStepBase ==
  ASSUME BaseInv, StopStep
  PROVE  BaseInv'
<1> DEFINE max == IF top > size THEN top - size ELSE 0
           duties == [w \in Wheel |-> Scaled(ccr[w], max, size)]
<1>1. /\ ccr \in [Wheel -> 0..MaxU16] /\ top \in 0..MaxU16 /\ size \in 0..MaxU16
      /\ size > 0 /\ \A w \in Wheel : ccr[w] <= top
      /\ gControlMotorFlag \in {"DIRECTION", "STOP"} /\ step \in Nat
  BY DEF BaseInv, TypeOK, StopStep
<1>2. /\ max \in 0..MaxU16 /\ max \in Nat /\ size \in Nat /\ max + size > 0
      /\ max > 0 => max + size = top
  BY <1>1, U16
<1>3. ccr' = duties
  BY DEF StopStep
<1>4. \A w \in Wheel : /\ ccr'[w] \in 0..MaxU16
                       /\ max > 0 => ccr'[w] <= max
                       /\ max = 0 => ccr'[w] = 0
  <2> SUFFICES ASSUME NEW w \in Wheel
               PROVE  /\ ccr'[w] \in 0..MaxU16
                      /\ max > 0 => ccr'[w] <= max
                      /\ max = 0 => ccr'[w] = 0
    OBVIOUS
  <2>1. ccr[w] \in Nat /\ ccr[w] <= MaxU16 /\ ccr[w] <= top
    BY <1>1, U16
  <2>2. ccr'[w] = Scaled(ccr[w], max, size)
    BY <1>3
  <2> HIDE DEF max, duties
  <2>3. /\ ccr'[w] \in Nat /\ ccr'[w] <= ccr[w]
        /\ ccr[w] <= max + size => ccr'[w] <= max
        /\ max = 0 => ccr'[w] = 0
    BY <1>2, <2>1, <2>2, ScaledBound
  <2> QED
    BY <1>2, <2>1, <2>3, U16
<1>5. ccr' \in [Wheel -> 0..MaxU16]
  <2>1. ccr' = [w \in Wheel |-> ccr'[w]]
    BY <1>3
  <2> QED
    BY <1>4, <2>1
<1>6. max = 0 => AllZero(ccr)'
  BY <1>4 DEF AllZero
<1>7. CASE /\ max > 0 /\ top' = max /\ step' = step + 1
           /\ UNCHANGED <<gControlMotorFlag, pc, size, runLocals, turnLocals>>
  <2>1. pc' = "stop" /\ size' > 0 /\ \A w \in Wheel : ccr'[w] <= top'
    BY <1>1, <1>4, <1>7 DEF StopStep
  <2>2. UNCHANGED <<globals, cw>> /\ step' \in Nat /\ top' \in 0..MaxU16
    BY <1>1, <1>2, <1>7 DEF StopStep
  <2> HIDE DEF max, duties
  <2> QED
    BY <1>1, <1>5, <1>7, <2>1, <2>2
    DEF BaseInv, TypeOK, ParametersValid, globals, runLocals, turnLocals, Place
<1>8. CASE max = 0 /\ gControlMotorFlag = "STOP" /\ TaskReturns
  <2>1. UNCHANGED <<globals, cw>> /\ DrivenEnough'
    BY <1>6, <1>8 DEF StopStep, DrivenEnough
  <2> QED
    BY <1>5, <1>8, <2>1, ReturnBase
<1>9. CASE /\ max = 0 /\ gControlMotorFlag = "DIRECTION"
           /\ pc' = "settle" /\ DropLocals /\ UNCHANGED gControlMotorFlag
  <2>1. UNCHANGED <<globals, cw>> /\ AllZero(ccr)'
    BY <1>6, <1>9 DEF StopStep
  <2> HIDE DEF max, duties
  <2> QED
    BY <1>5, <1>9, <2>1, U16
    DEF BaseInv, TypeOK, ParametersValid, DropLocals, globals, Place, Wheel, DrivenEnough
<1> QED
  BY <1>7, <1>8, <1>9 DEF StopStep

LEMMA RunStepBase ==
  ASSUME BaseInv, RunStep
  PROVE  BaseInv'
<1> DEFINE inc == IF extra > 0 THEN base + 1 ELSE base
<1>1. /\ ccr \in [Wheel -> 0..MaxU16] /\ goal \in 0..MaxU16
      /\ inc \in Nat /\ extra \in Nat /\ step \in Nat
  BY U16 DEF BaseInv, TypeOK
<1>2. ccr' = [w \in Wheel |-> Toward(ccr[w], goal, inc)]
  BY DEF RunStep
<1> HIDE DEF inc
<1>3. ccr' \in [Wheel -> 0..MaxU16]
  <2>1. \A w \in Wheel : Toward(ccr[w], goal, inc) \in 0..MaxU16
    BY <1>1, TowardBound
  <2> QED
    BY <1>2, <2>1
<1>4. extra' \in Nat /\ step' \in Nat
  BY <1>1 DEF RunStep
<1> QED
  BY <1>3, <1>4
  DEF RunStep, BaseInv, TypeOK, ParametersValid, globals, stopLocals, turnLocals, Place

LEMMA RunEndsBase ==
  ASSUME BaseInv, RunEnds
  PROVE  BaseInv'
<1>1. goal \in 0..MaxU16 /\ goal >= Steps /\ ccr' = [w \in Wheel |-> goal]
  BY DEF BaseInv, TypeOK, RunEnds
<1>2. ccr' \in [Wheel -> 0..MaxU16] /\ ccr'[Front] >= Steps /\ Front \in Wheel
  BY <1>1 DEF Wheel, Front
<1> QED
  BY <1>2, ReturnBase DEF RunEnds, DrivenEnough

LEMMA TurnStepBase ==
  ASSUME BaseInv, TurnStep
  PROVE  BaseInv'
<1>1. /\ from \in [Wheel -> 0..MaxU16] /\ inner \in 0..MaxU16 /\ step \in Nat
      /\ step <= Steps
  BY DEF BaseInv, TypeOK, TurnStep
<1>2. PICK stray \in [Wheel \ InTable -> Stray] :
        ccr' = [w \in Wheel |-> Blend(IF w \in InTable THEN from[w] ELSE stray[w],
                                     TurnGoal(w), step)]
  BY DEF TurnStep
<1>3. ccr' \in [Wheel -> 0..MaxU16]
  <2> SUFFICES ASSUME NEW w \in Wheel
               PROVE  Blend(IF w \in InTable THEN from[w] ELSE stray[w], TurnGoal(w), step)
                        \in 0..MaxU16
    BY <1>2
  <2>1. TurnGoal(w) \in 0..MaxU16
    BY <1>1, Constants DEF TurnGoal
  <2>2. (IF w \in InTable THEN from[w] ELSE stray[w]) \in 0..MaxU16
    BY <1>1, <1>2, Constants
  <2> QED
    BY <1>1, <2>1, <2>2, BlendBound
<1> QED
  BY <1>1, <1>3
  DEF TurnStep, BaseInv, TypeOK, ParametersValid, globals, stopLocals, runLocals, turnLocals, Place

LEMMA TurnEndsBase ==
  ASSUME BaseInv, TurnEnds
  PROVE  BaseInv'
<1>1. inner \in 0..MaxU16 /\ ccr' = [w \in Wheel |-> TurnGoal(w)]
  BY DEF BaseInv, TypeOK, TurnEnds
<1>2. ccr' \in [Wheel -> 0..MaxU16]
  BY <1>1, Constants DEF TurnGoal
<1>3. \E w \in Wheel : ccr'[w] >= Steps
  <2>1. PICK w \in Wheel : w # slow
    BY DEF Wheel
  <2> QED
    BY <1>1, <2>1, Constants DEF TurnGoal
<1> QED
  BY <1>2, <1>3, ReturnBase DEF TurnEnds, DrivenEnough

(* The task from the main loop to the first HAL_Delay.                     *)
LEMMA TaskBase ==
  ASSUME BaseInv, TaskIdle \/ TaskDirection \/ TaskTurn \/ TaskStop \/ Settled
  PROVE  BaseInv'
<1>1. pc \in {"task", "settle"} => DrivenEnough
  BY DEF BaseInv, DrivenEnough
<1>2. CASE TaskIdle
  BY <1>2 DEF TaskIdle, BaseInv, TypeOK, ParametersValid, globals, stopLocals, runLocals, turnLocals,
      Place, DrivenEnough, AllZero
<1>3. CASE TaskDirection
  <2>1. CASE RunBegins
    BY <1>1, <1>3, <2>1, RunBeginsBase DEF TaskDirection
  <2>2. CASE ~AllZero(ccr) /\ StopBegins
    BY <1>1, <1>3, <2>2, StopBeginsBase DEF TaskDirection
  <2>3. CASE /\ AllZero(ccr) /\ pc' = "settle"
             /\ UNCHANGED <<globals, gControlMotorFlag, ccr, cw, step,
                            stopLocals, runLocals, turnLocals>>
    BY <1>3, <2>3
    DEF TaskDirection, BaseInv, TypeOK, ParametersValid, globals, stopLocals, runLocals, turnLocals,
        Place, DrivenEnough, AllZero
  <2> QED
    BY <1>3, <2>1, <2>2, <2>3 DEF TaskDirection
<1>4. CASE TaskTurn
  BY <1>1, <1>4, TurnBeginsBase DEF TaskTurn
<1>5. CASE TaskStop
  <2>1. CASE ~AllZero(ccr) /\ StopBegins
    BY <1>1, <1>5, <2>1, StopBeginsBase DEF TaskStop
  <2>2. CASE AllZero(ccr) /\ TaskReturns /\ UNCHANGED <<globals, ccr, cw>>
    <3>1. ccr' \in [Wheel -> 0..MaxU16] /\ DrivenEnough'
      BY <2>2 DEF BaseInv, TypeOK, DrivenEnough, AllZero
    <3> QED
      BY <2>2, <3>1, ReturnBase
  <2> QED
    BY <1>5, <2>1, <2>2 DEF TaskStop
<1>6. CASE Settled
  <2>1. gControlMotorFlag = "DIRECTION" /\ DrivenEnough
    BY <1>1, <1>6 DEF Settled, BaseInv
  <2> QED
    BY <1>6, <2>1, RunBeginsBase DEF Settled
<1> QED
  BY <1>2, <1>3, <1>4, <1>5, <1>6

(* The check of a command that is not torn is about what it stores.        *)
LEMMA CommandIsWhole ==
  ASSUME NEW c \in Command, ~Torn
  PROVE  c.ok <=> Valid(c)
<1>1. c.ok = Valid(c)
  BY DEF Command
<1> QED
  BY <1>1, Zenon

(* A command stores bytes, and those of one that is not torn are in range, *)
(* with a direction of IDLE only together with a speed of IDLE.            *)
LEMMA CommandBase ==
  ASSUME BaseInv, PollCommand
  PROVE  BaseInv'
<1>1. PICK c \in Command : ControlProtocolAnalysis(c)
  BY DEF PollCommand
<1> DEFINE Settings ==
             /\ gMotorDirection' \in 0..255 /\ gMotorSpeedLevel' \in 0..255
             /\ gMotorTurnDirection' \in {IDLE, LEFT, RIGHT}
             /\ gMotorTurnLevel' \in 0..255
             /\ gControlMotorFlag' \in ControlFlag
             /\ ~Torn => /\ gMotorDirection' \in {IDLE, FORWARD, BACKWARD}
                         /\ gMotorSpeedLevel' \in 0..5
                         /\ gMotorTurnLevel' \in 0..3
                         /\ gMotorDirection' = IDLE => gMotorSpeedLevel' = IDLE
<1>2. /\ gMotorDirection \in 0..255 /\ gMotorSpeedLevel \in 0..255
      /\ gMotorTurnDirection \in {IDLE, LEFT, RIGHT} /\ gMotorTurnLevel \in 0..255
      /\ gControlMotorFlag \in ControlFlag
      /\ ~Torn => /\ gMotorDirection \in {IDLE, FORWARD, BACKWARD}
                  /\ gMotorSpeedLevel \in 0..5
                  /\ gMotorTurnLevel \in 0..3
                  /\ gMotorDirection = IDLE => gMotorSpeedLevel = IDLE
  BY DEF BaseInv, TypeOK, ParametersValid
<1>0. /\ c.d4 \in 0..255 /\ c.d5 \in 0..255
      /\ ~Torn /\ c.ok => Valid(c)
  BY CommandAssumption, CommandIsWhole DEF Command
<1>3. ASSUME c.id = "A1", SetMotion(c) PROVE Settings
  <2>1. ~Torn /\ c.ok => c.d4 \in {FORWARD, BACKWARD} /\ c.d5 \in 0..5
    <3>1. Valid(c) => MotionOK(c.d4, c.d4, c.d5)
      BY <1>3 DEF Valid
    <3> QED
      BY <1>0, <3>1 DEF MotionOK, FORWARD, BACKWARD
  <2>2. FORWARD # IDLE /\ BACKWARD # IDLE
    BY DEF FORWARD, BACKWARD, IDLE
  <2>3. UNCHANGED <<gMotorTurnDirection, gMotorTurnLevel>> /\ gControlMotorFlag' \in ControlFlag
    BY <1>3 DEF SetMotion, ControlFlag
  <2>4. CASE c.ok
    <3>1. gMotorDirection' = c.d4 /\ gMotorSpeedLevel' = c.d5
      BY <1>3, <2>4 DEF SetMotion
    <3> QED
      BY <1>0, <1>2, <2>1, <2>2, <2>3, <2>4, <3>1
  <2>5. CASE ~c.ok
    <3>1. gMotorDirection' = gMotorDirection /\ gMotorSpeedLevel' = gMotorSpeedLevel
      BY <1>3, <2>5 DEF SetMotion
    <3> QED
      BY <1>2, <2>3, <3>1
  <2> QED
    BY <2>4, <2>5
<1>4. ASSUME NEW side \in {LEFT, RIGHT}, c.id # "A1", SetTurn(c, side) PROVE Settings
  <2>1. ~Torn /\ c.ok => c.d4 \in 0..3
    <3>1. Valid(c) => TurnOK(c.d4)
      BY <1>4 DEF Valid
    <3> QED
      BY <1>0, <3>1 DEF TurnOK
  <2>2. /\ UNCHANGED <<gMotorDirection, gMotorSpeedLevel>>
        /\ gControlMotorFlag' \in ControlFlag /\ gMotorTurnDirection' \in {IDLE, LEFT, RIGHT}
    BY <1>2, <1>4 DEF SetTurn, ControlFlag
  <2>3. gMotorTurnLevel' = IF c.ok THEN c.d4 ELSE gMotorTurnLevel
    BY <1>4 DEF SetTurn
  <2> QED
    BY <1>0, <1>2, <2>1, <2>2, <2>3
<1>5. ASSUME QueryStatus PROVE Settings
  BY <1>2, <1>5 DEF QueryStatus, globals
<1>6. ASSUME StopCar PROVE Settings
  BY <1>6 DEF StopCar, IDLE, ControlFlag
<1>7. ASSUME IgnoreUnknown PROVE Settings
  BY <1>2, <1>7 DEF IgnoreUnknown, globals
<1>8. A2Turn \in {LEFT, RIGHT} /\ LEFT + RIGHT - A2Turn \in {LEFT, RIGHT}
  BY CommandAssumption DEF LEFT, RIGHT
<1> HIDE DEF Settings
<1>9. \/ c.id = "A1" /\ SetMotion(c)
      \/ c.id # "A1" /\ (SetTurn(c, A2Turn) \/ SetTurn(c, LEFT + RIGHT - A2Turn))
      \/ QueryStatus \/ StopCar \/ IgnoreUnknown
  BY <1>1 DEF ControlProtocolAnalysis
<1>10. Settings
  BY <1>3, <1>4, <1>5, <1>6, <1>7, <1>8, <1>9
<1>11. pc' = "task" /\ UNCHANGED <<ccr, cw, step, stopLocals, runLocals, turnLocals>>
  BY DEF PollCommand
<1>12. DrivenEnough'
  BY <1>11 DEF PollCommand, BaseInv, DrivenEnough, AllZero
<1> QED
  BY <1>10, <1>11, <1>12
  DEF Settings, BaseInv, TypeOK, ParametersValid, stopLocals, runLocals, turnLocals, Place

LEMMA NextBase == BaseInv /\ [Next]_vars => BaseInv'
<1> SUFFICES ASSUME BaseInv, [Next]_vars PROVE BaseInv'
  OBVIOUS
<1>1. CASE PollCommand
  BY <1>1, CommandBase
<1>2. CASE Task
  BY <1>2, TaskBase, StopStepBase, RunStepBase, RunEndsBase, TurnStepBase, TurnEndsBase
  DEF Task, MotorNext
<1>3. CASE UNCHANGED vars
  BY <1>3 DEF vars, motorVars, globals, stopLocals, runLocals, turnLocals, BaseInv, TypeOK,
      ParametersValid, DrivenEnough, AllZero
<1> QED
  BY <1>1, <1>2, <1>3 DEF Next

LEMMA BaseInvariant == Spec => []BaseInv
  BY InitBase, NextBase, PTL DEF Spec

-----------------------------------------------------------------------------
(* On either board every g_ variable, duty, pin and ramp local keeps to    *)
(* its type: no duty leaves uint16, whatever a torn command has stored,    *)
(* and a command that is not torn stores no parameter that the tables of   *)
(* motor.c have no entry for but level 0.                                  *)
THEOREM TypeCorrect == Spec => []TypeOK
<1>1. BaseInv => TypeOK
  BY DEF BaseInv
<1> QED
  BY <1>1, BaseInvariant, PTL

(* On either board, and whatever stray values a turn has left in the       *)
(* compare registers, the loop of stop_all_motors_sync counts down: its    *)
(* step_size is never 0 and its max_pwm never below a wheel's duty.        *)
THEOREM StopAlwaysProgresses == Spec => []StopProgress
<1>1. BaseInv => StopProgress
  BY DEF BaseInv, StopProgress
<1> QED
  BY <1>1, BaseInvariant, PTL

-----------------------------------------------------------------------------
(* The stop ramp takes the iterations it is planned for, and never makes a *)
(* wheel faster.  step_size is a quotient that drops the remainder, so the *)
(* count needs tables whose duties lose less than one step_size by it: a   *)
(* duty of 39 with 20 steps would take 39 iterations.                      *)

StopTables ==
  /\ \A l \in 1..5 : Duty[l] % Steps <= Duty[l] \div Steps
  /\ Outer >= Steps * Steps

(* Between two ramps the fastest wheel has a duty of a table, or at least  *)
(* the one a turn gives the outer wheels.                                  *)
Cruising ==
  \/ AllZero(ccr)
  \/ \E l \in 1..5 : \A w \in Wheel : ccr[w] = Duty[l]
  \/ \E w \in Wheel : ccr[w] >= Outer

StopInv ==
  /\ BaseInv
  /\ pc \in {"poll", "task"} => Cruising
  /\ pc = "run" => \E l \in 1..5 : goal = Duty[l]
  /\ pc = "stop" => top > 0 /\ top <= (Steps + 1 - step) * size

LEMMA QuotientCovers ==
  ASSUME NEW m \in Nat, m % Steps <= m \div Steps \/ m >= Steps * Steps
  PROVE  m <= (Steps + 1) * (m \div Steps)
<1> DEFINE q == m \div Steps
           r == m % Steps
<1>1. Steps \in Nat /\ Steps > 0
  BY Constants
<1>2. q \in Nat /\ r \in Nat /\ r < Steps /\ m = Steps * q + r
  BY <1>1, SMT
<1>3. (Steps + 1) * q = Steps * q + q
  BY <1>1, <1>2, SMT
<1> HIDE DEF q, r
<1>4. r <= q
  <2>1. CASE m >= Steps * Steps
    <3>1. ASSUME q < Steps PROVE FALSE
      <4>1. Steps * (q + 1) <= Steps * Steps
        BY <1>1, <1>2, <3>1, SMT
      <4>2. Steps * (q + 1) = Steps * q + Steps
        BY <1>1, <1>2, SMT
      <4> QED
        BY <1>1, <1>2, <2>1, <4>1, <4>2, SMT
    <3> QED
      BY <1>1, <1>2, <3>1
  <2> QED
    BY <2>1 DEF q, r
<1>5. Steps * q \in Nat
  BY <1>1, <1>2, SMT
<1>6. m <= (Steps + 1) * q
  <2> DEFINE p == Steps * q
  <2> HIDE DEF p
  <2>1. m = p + r /\ (Steps + 1) * q = p + q /\ p \in Nat
    BY <1>2, <1>3, <1>5 DEF p
  <2> QED
    BY <1>2, <1>4, <2>1
<1> QED
  BY <1>6 DEF q

(* The fastest wheel of a cruising car is one the step_size suits.         *)
LEMMA StopIsPlanned ==
  ASSUME StopTables, BaseInv, Cruising, ~AllZero(ccr), StopBegins
  PROVE  top' > 0 /\ top' <= (Steps + 1 - step') * size'
<1> DEFINE m == MaxDuty(ccr)
<1>1. ccr \in [Wheel -> 0..MaxU16]
  BY DEF BaseInv, TypeOK
<1>2. m \in 0..MaxU16 /\ (\A w \in Wheel : ccr[w] <= m) /\ (\E w \in Wheel : m = ccr[w])
  BY <1>1, MaxDutyBound
<1>3. top' = m /\ size' = m \div Steps /\ step' = 0
  BY DEF StopBegins
<1>4. Steps \in Nat /\ Steps > 0 /\ Outer \in Nat /\ MaxU16 \in Nat
  BY Constants, U16
<1> HIDE DEF m
<1>5. m % Steps <= m \div Steps \/ m >= Steps * Steps
  <2>1. CASE \E l \in 1..5 : \A w \in Wheel : ccr[w] = Duty[l]
    BY <1>2, <2>1 DEF StopTables
  <2>2. CASE \E w \in Wheel : ccr[w] >= Outer
    <3>1. PICK w \in Wheel : ccr[w] >= Outer
      BY <2>2
    <3>2. ccr[w] \in Nat /\ m \in Nat /\ ccr[w] <= m /\ Outer >= Steps * Steps
          /\ Steps * Steps \in Nat
      BY <1>1, <1>2, <1>4, SMT DEF StopTables
    <3> DEFINE sq == Steps * Steps
    <3> HIDE DEF sq
    <3>3. m >= sq
      BY <1>4, <3>1, <3>2 DEF sq
    <3> QED
      BY <3>3 DEF sq
  <2> QED
    BY <2>1, <2>2 DEF Cruising
<1>6. m \in Nat /\ m <= (Steps + 1) * (m \div Steps)
  BY <1>2, <1>4, <1>5, QuotientCovers
<1>7. m > 0
  <2>1. PICK w \in Wheel : ccr[w] # 0
    BY DEF AllZero
  <2> QED
    BY <1>1, <1>2, <1>4, <2>1
<1>8. Steps + 1 - step' = Steps + 1
  BY <1>3, <1>4
<1> QED
  BY <1>3, <1>6, <1>7, <1>8

(* One iteration takes one step_size off what is planned for.              *)
LEMMA PlanShrinks ==
  ASSUME NEW t \in Nat, NEW s \in Nat, NEW k \in Nat, t > s,
         t <= (Steps + 1 - k) * s
  PROVE  t - s > 0 /\ t - s <= (Steps + 1 - (k + 1)) * s
<1> DEFINE n == Steps + 1 - k
<1>1. n \in Int /\ Steps + 1 - (k + 1) = n - 1
  BY Constants
<1> HIDE DEF n
<1>2. (n - 1) * s = n * s - s
  BY <1>1, SMT
<1>3. t <= n * s /\ n * s \in Int
  BY <1>1, SMT DEF n
<1> DEFINE p == n * s
<1> HIDE DEF p
<1>4. t - s <= p - s
  BY <1>3 DEF p
<1> QED
  BY <1>1, <1>2, <1>4 DEF p

(* While something is left of the plan, its iterations are not used up.    *)
LEMMA PlanLasts ==
  ASSUME NEW t \in Nat, NEW s \in Nat, NEW k \in Nat, t > 0,
         t <= (Steps + 1 - k) * s
  PROVE  k <= Steps
<1> SUFFICES ASSUME k > Steps PROVE FALSE
  BY Constants
<1> DEFINE n == Steps + 1 - k
<1>1. n \in Int /\ n <= 0
  BY Constants
<1> HIDE DEF n
<1>2. n * s <= 0
  BY <1>1, SMT
<1>3. t <= n * s /\ n * s \in Int
  BY <1>1, SMT DEF n
<1> DEFINE p == n * s
<1> HIDE DEF p
<1>4. t <= p /\ p <= 0 /\ p \in Int
  BY <1>2, <1>3 DEF p
<1> QED
  BY <1>4

LEMMA StopInit == Init => StopInv
<1> SUFFICES ASSUME Init PROVE StopInv
  OBVIOUS
<1>1. AllZero(ccr) /\ pc = "poll"
  BY DEF Init, MotorInit, AllZero
<1> QED
  BY <1>1, InitBase DEF StopInv, Cruising

LEMMA StopNext ==
  ASSUME StopTables, StopInv, [Next]_vars
  PROVE  StopInv'
<1> DEFINE Goal == /\ pc' \in {"poll", "task"} => Cruising'
                   /\ pc' = "run" => \E l \in 1..5 : goal' = Duty[l]
                   /\ pc' = "stop" => top' > 0 /\ top' <= (Steps + 1 - step') * size'
<1>1. BaseInv'
  BY NextBase DEF StopInv
<1>2. pc \in {"poll", "task"} => Cruising
  BY DEF StopInv
<1>3. pc = "settle" => Cruising
  BY DEF StopInv, BaseInv, Cruising
<1>4. ASSUME ccr' = ccr, Cruising PROVE Cruising'
  BY <1>4 DEF Cruising, AllZero
<1>5. ASSUME pc' = "poll", Cruising' PROVE Goal
  BY <1>5
<1>6. ASSUME StopBegins, Cruising, ~AllZero(ccr) PROVE Goal
  <2>1. top' > 0 /\ top' <= (Steps + 1 - step') * size'
    BY <1>6, StopIsPlanned DEF StopInv
  <2>2. pc' = "stop"
    BY <1>6 DEF StopBegins
  <2> QED
    BY <2>1, <2>2
<1>7. ASSUME RunBegins, Cruising PROVE Goal
  <2>1. CASE TaskReturns /\ ccr' = ccr
    BY <1>4, <1>5, <1>7, <2>1 DEF TaskReturns
  <2>2. CASE gMotorSpeedLevel \in DOMAIN Duty /\ pc' = "run" /\ goal' = Duty[gMotorSpeedLevel]
    BY <2>2, Constants
  <2> QED
    BY <1>7, <2>1, <2>2 DEF RunBegins
<1>8. CASE PollCommand
  <2>1. pc' = "task" /\ Cruising'
    BY <1>2, <1>4, <1>8 DEF PollCommand
  <2> QED
    BY <1>1, <2>1 DEF StopInv
<1>9. ASSUME TaskIdle PROVE Goal
  BY <1>2, <1>4, <1>5, <1>9 DEF TaskIdle
<1>10. ASSUME TaskDirection PROVE Goal
  <2>1. CASE pc' = "settle"
    BY <2>1
  <2> QED
    BY <1>2, <1>6, <1>7, <1>10, <2>1 DEF TaskDirection
<1>11. ASSUME Settled PROVE Goal
  BY <1>3, <1>7, <1>11 DEF Settled
<1>12. ASSUME TaskTurn PROVE Goal
  <2>1. pc' = "turn" \/ (pc' = "poll" /\ ccr' = ccr)
    BY <1>12 DEF TaskTurn, TurnBegins, TaskReturns
  <2> QED
    BY <1>2, <1>4, <1>12, <2>1 DEF TaskTurn
<1>13. ASSUME TaskStop PROVE Goal
  <2>1. CASE TaskReturns /\ ccr' = ccr
    BY <1>2, <1>4, <1>5, <1>13, <2>1 DEF TaskReturns, TaskStop
  <2> QED
    BY <1>2, <1>6, <1>13, <2>1 DEF TaskStop
<1>14. ASSUME StopStep PROVE Goal
  <2>1. /\ pc = "stop" /\ top \in Nat /\ size \in Nat /\ step \in Nat /\ size > 0
        /\ top <= (Steps + 1 - step) * size
        /\ ccr \in [Wheel -> 0..MaxU16]
    BY <1>14, U16 DEF StopStep, StopInv, BaseInv, TypeOK
  <2>2. CASE /\ top > size /\ top' = top - size /\ step' = step + 1 /\ size' = size
             /\ pc' = pc
    BY <2>1, <2>2, PlanShrinks
  <2>3. CASE ~(top > size)
    <3>1. ccr' = [w \in Wheel |-> Scaled(ccr[w], 0, size)]
      BY <1>14, <2>3 DEF StopStep
    <3>2. \A w \in Wheel : Scaled(ccr[w], 0, size) = 0
      BY <2>1, U16, ScaledBound
    <3>3. Cruising'
      BY <3>1, <3>2 DEF Cruising, AllZero
    <3>4. pc' \in {"poll", "settle"}
      BY <1>14, <2>3 DEF StopStep, TaskReturns
    <3> QED
      BY <3>3, <3>4
  <2>4. top > size => top - size > 0
    BY <2>1
  <2> QED
    BY <1>14, <2>2, <2>3, <2>4 DEF StopStep
<1>15. ASSUME RunStep PROVE Goal
  BY <1>15 DEF RunStep, StopInv
<1>16. ASSUME RunEnds PROVE Goal
  <2>1. PICK l \in 1..5 : goal = Duty[l]
    BY <1>16 DEF RunEnds, StopInv
  <2>2. \A w \in Wheel : ccr'[w] = Duty[l]
    BY <1>16, <2>1 DEF RunEnds
  <2> QED
    BY <1>5, <1>16, <2>2 DEF RunEnds, TaskReturns, Cruising
<1>17. ASSUME TurnStep PROVE Goal
  BY <1>17 DEF TurnStep
<1>18. ASSUME TurnEnds PROVE Goal
  <2>1. PICK w \in Wheel : w # slow
    BY DEF Wheel
  <2>2. ccr'[w] = Outer
    BY <1>18, <2>1 DEF TurnEnds, TurnGoal
  <2>3. Cruising'
    BY <2>2, Constants, U16 DEF Cruising
  <2> QED
    BY <1>5, <1>18, <2>3 DEF TurnEnds, TaskReturns
<1>19. ASSUME UNCHANGED vars PROVE Goal
  BY <1>19
  DEF vars, motorVars, stopLocals, runLocals, StopInv, Cruising, AllZero
<1>20. CASE Task \/ UNCHANGED vars
  <2> HIDE DEF Goal
  <2>1. Goal
    BY <1>9, <1>10, <1>11, <1>12, <1>13, <1>14, <1>15, <1>16, <1>17, <1>18, <1>19, <1>20
    DEF Task, MotorNext
  <2> QED
    BY <1>1, <2>1 DEF Goal, StopInv
<1> QED
  BY <1>8, <1>20 DEF Next

(* With tables that suit the number of steps, and whatever stray values a  *)
(* turn has left in the compare registers, a stop ramp never speeds a      *)
(* wheel up and ends after one iteration more than planned at the latest.  *)
THEOREM StopsInTime ==
  ASSUME StopTables PROVE Spec => StopSlows
<1>1. StopInv /\ [Next]_vars =>
        [pc = "stop" => step <= Steps /\ \A w \in Wheel : ccr'[w] <= ccr[w]]_vars
  <2> SUFFICES ASSUME StopInv, [Next]_vars, pc = "stop"
               PROVE  step <= Steps /\ \A w \in Wheel : ccr'[w] <= ccr[w]
    OBVIOUS
  <2>1. /\ top \in Nat /\ size \in Nat /\ step \in Nat /\ top > 0 /\ size > 0
        /\ top <= (Steps + 1 - step) * size
        /\ \A w \in Wheel : ccr[w] \in Nat
    BY U16 DEF StopInv, BaseInv, TypeOK
  <2>2. step <= Steps
    BY <2>1, PlanLasts
  <2>3. CASE StopStep
    <3> DEFINE max == IF top > size THEN top - size ELSE 0
    <3>1. ccr' = [w \in Wheel |-> Scaled(ccr[w], max, size)]
      BY <2>3 DEF StopStep
    <3>2. max \in Nat /\ max + size > 0
      BY <2>1
    <3> HIDE DEF max
    <3>3. \A w \in Wheel : Scaled(ccr[w], max, size) <= ccr[w]
      BY <2>1, <3>2, ScaledBound
    <3> QED
      BY <2>2, <3>1, <3>3
  <2>4. CASE UNCHANGED vars
    BY <2>1, <2>2, <2>4 DEF vars, motorVars
  <2>5. StopStep \/ UNCHANGED vars
    BY DEF Next, PollCommand, Task, MotorNext, TaskIdle, TaskDirection, TaskTurn, TaskStop,
       Settled, RunStep, RunEnds, TurnStep, TurnEnds
  <2> QED
    BY <2>3, <2>4, <2>5
<1>2. StopInv /\ [Next]_vars => StopInv'
  BY StopNext
<1> QED
  BY <1>1, <1>2, StopInit, PTL DEF Spec, StopSlows

-----------------------------------------------------------------------------
(* The run ramp.  What is left of the widest gap is what is left of the    *)
(* iterations times base_step, and of the remainder, of which every        *)
(* iteration takes one; so both are used up at once.  That no duty wraps   *)
(* on the way takes tables with room for a step below the slowest level    *)
(* and above the fastest, and turns of the documented levels: the stray    *)
(* duty that a turn of level 0 leaves to a wheel can make the step larger  *)
(* than the duty of another, which then wraps to nearly 65536.             *)

(* 1000, 20 and 100 in the code: 1000 div 20 + 1 = 51.                     *)
SoftTables(max) ==
  /\ \A l \in 1..5 : Duty[l] <= max /\ max \div Steps + 1 <= Duty[l]
  /\ \A l \in 1..3 : Inner[l] <= max
  /\ Outer <= max
  /\ max + max \div Steps + 1 <= MaxU16

DocumentedTurns == Bytes4 \subseteq 1..3 /\ ~Torn

RunInv(max) ==
  /\ BaseInv
  /\ pc \in {"poll", "task", "settle"} => \A w \in Wheel : ccr[w] <= max
  /\ gControlMotorFlag = "TURN" => gMotorTurnLevel \in 1..3
  /\ pc = "turn" => inner <= max
  /\ pc = "run" => /\ goal <= max
                   /\ base + 1 <= goal /\ goal + base + 1 <= MaxU16
                   /\ step <= Steps /\ extra <= Steps - step
                   /\ \A w \in Wheel : Gap(goal, ccr[w]) <= (Steps - step) * base + extra

(* A duty that cannot wrap comes nearer the target by the increment, or    *)
(* reaches it.                                                             *)
LEMMA TowardNears ==
  ASSUME NEW d \in 0..MaxU16, NEW t \in 0..MaxU16, NEW inc \in Nat,
         inc <= t, t + inc <= MaxU16
  PROVE  /\ Gap(Toward(d, t, inc), d) <= inc
         /\ Gap(t, Toward(d, t, inc)) <= IF Gap(t, d) > inc THEN Gap(t, d) - inc ELSE 0
<1>1. CASE d < t
  <2>1. d + inc \in 0..MaxU16 /\ (d + inc) % (MaxU16 + 1) = d + inc
    BY <1>1, U16
  <2>2. Toward(d, t, inc) = IF d + inc > t THEN t ELSE d + inc
    BY <1>1, <2>1 DEF Toward
  <2> QED
    BY <1>1, <2>1, <2>2, U16 DEF Gap
<1>2. CASE d > t
  <2>1. d - inc \in 0..MaxU16 /\ (d - inc) % (MaxU16 + 1) = d - inc
    BY <1>2, U16
  <2>2. Toward(d, t, inc) = IF d - inc < t THEN t ELSE d - inc
    BY <1>2, <2>1, U16 DEF Toward
  <2> QED
    BY <1>2, <2>1, <2>2, U16 DEF Gap
<1>3. CASE d = t
  BY <1>3, U16 DEF Toward, Gap
<1> QED
  BY <1>1, <1>2, <1>3, U16

LEMMA QuotientGrows ==
  ASSUME NEW a \in Nat, NEW b \in Nat, a <= b
  PROVE  a \div Steps \in Nat /\ a \div Steps <= b \div Steps
<1> DEFINE q == b \div Steps
           p == a \div Steps
<1>1. Steps \in Nat /\ Steps > 0
  BY Constants
<1>2. q \in Nat /\ b < Steps * (q + 1)
  BY <1>1, SMT
<1>3. p \in Nat /\ Steps * p <= a
  BY <1>1, SMT
<1> HIDE DEF p, q
<1>4. ASSUME p >= q + 1 PROVE FALSE
  <2>1. Steps * p >= Steps * (q + 1)
    BY <1>1, <1>2, <1>3, <1>4, SMT
  <2> DEFINE x == Steps * p
             y == Steps * (q + 1)
  <2>2. x \in Nat /\ y \in Nat
    BY <1>1, <1>2, <1>3, SMT
  <2>3. x <= a /\ b < y /\ x >= y
    BY <1>2, <1>3, <2>1
  <2> HIDE DEF x, y
  <2> QED
    BY <2>2, <2>3
<1>5. p <= q
  BY <1>2, <1>3, <1>4
<1> QED
  BY <1>3, <1>5 DEF p, q

(* Entering the run ramp with no duty above the maximum of the tables.     *)
LEMMA RunIsPlanned ==
  ASSUME NEW max \in Nat, SoftTables(max), BaseInv, \A w \in Wheel : ccr[w] <= max,
         RunBegins, pc' = "run"
  PROVE  /\ goal' <= max
         /\ base' + 1 <= goal' /\ goal' + base' + 1 <= MaxU16
         /\ step' <= Steps /\ extra' <= Steps - step'
         /\ \A w \in Wheel : Gap(goal', ccr'[w]) <= (Steps - step') * base' + extra'
<1> DEFINE target == Duty[gMotorSpeedLevel]
           gaps == [w \in Wheel |-> Gap(target, ccr[w])]
           delta == MaxDuty(gaps)
<1>1. /\ gMotorSpeedLevel \in 1..5 /\ goal' = target /\ base' = delta \div Steps
      /\ extra' = delta % Steps /\ step' = 0 /\ ccr' = ccr
  BY Constants DEF RunBegins, TaskReturns
<1>2. /\ target \in 0..MaxU16 /\ target <= max /\ max \div Steps + 1 <= target
      /\ ccr \in [Wheel -> 0..MaxU16]
      /\ Steps \in Nat /\ Steps > 0 /\ MaxU16 \in Nat
      /\ max + max \div Steps + 1 <= MaxU16
  BY <1>1, Constants, U16 DEF SoftTables, BaseInv, TypeOK
<1> HIDE DEF target
<1>3. \A w \in Wheel : Gap(target, ccr[w]) \in 0..MaxU16 /\ Gap(target, ccr[w]) <= max
  BY <1>2 DEF Gap
<1>4. gaps \in [Wheel -> 0..MaxU16] /\ \A w \in Wheel : gaps[w] <= max
  BY <1>3
<1>5. /\ delta \in 0..MaxU16 /\ (\A w \in Wheel : gaps[w] <= delta)
      /\ \E w \in Wheel : delta = gaps[w]
  BY <1>4, MaxDutyBound
<1>6. \A w \in Wheel : gaps[w] = Gap(target, ccr[w])
  OBVIOUS
<1>7. delta \in Nat /\ delta <= max
  BY <1>2, <1>4, <1>5
<1> HIDE DEF delta, gaps
<1> DEFINE q == delta \div Steps
           r == delta % Steps
           big == max \div Steps
<1>8. q \in Nat /\ q <= big /\ big \in Nat
  BY <1>7, QuotientGrows
<1>9. r \in Nat /\ r < Steps /\ delta = Steps * q + r
  BY <1>2, <1>7, SMT
<1>10. q + 1 <= target /\ target + q + 1 <= MaxU16
  <2>1. big + 1 <= target /\ max + big + 1 <= MaxU16
    BY <1>2
  <2> HIDE DEF q, big
  <2> QED
    BY <1>2, <1>8, <2>1
<1>11. /\ base' = q /\ extra' = r
  BY <1>1
<1> HIDE DEF q, r
<1>12. Steps - step' = Steps /\ step' <= Steps
  BY <1>1, <1>2
<1>13. \A w \in Wheel : Gap(goal', ccr'[w]) <= (Steps - step') * base' + extra'
  BY <1>1, <1>5, <1>6, <1>9, <1>11, <1>12
<1>14. extra' <= Steps - step'
  BY <1>2, <1>9, <1>11, <1>12
<1> QED
  BY <1>1, <1>2, <1>10, <1>11, <1>12, <1>13, <1>14

(* One iteration takes its increment off what is left for every wheel.     *)
LEMMA LeftShrinks ==
  ASSUME NEW n \in Nat, n > 0, NEW b \in Nat, NEW x \in Nat, x <= n,
         NEW g \in Nat, g <= n * b + x
  PROVE  LET inc == IF x > 0 THEN b + 1 ELSE b
             y == IF x > 0 THEN x - 1 ELSE 0
         IN  (IF g > inc THEN g - inc ELSE 0) <= (n - 1) * b + y
<1> DEFINE p == n * b
<1>1. p \in Nat /\ (n - 1) * b = p - b /\ (n - 1) * b \in Nat
  BY SMT
<1>2. g <= p + x
  OBVIOUS
<1> HIDE DEF p
<1>3. p - b >= 0
  BY <1>1
<1> QED
  BY <1>1, <1>2, <1>3

LEMMA RunInit == ASSUME NEW max \in Nat PROVE Init => RunInv(max)
<1> SUFFICES ASSUME Init PROVE RunInv(max)
  OBVIOUS
<1>1. \A w \in Wheel : ccr[w] = 0
  BY DEF Init, MotorInit
<1>2. pc = "poll" /\ gControlMotorFlag = "IDLE"
  BY DEF Init, MotorInit
<1> QED
  BY <1>1, <1>2, InitBase DEF RunInv

LEMMA RunStepPlanned ==
  ASSUME NEW max \in Nat, RunInv(max), RunStep
  PROVE  /\ \A w \in Wheel : Gap(ccr'[w], ccr[w]) <= base + 1
         /\ step' <= Steps /\ extra' <= Steps - step'
         /\ \A w \in Wheel : Gap(goal', ccr'[w]) <= (Steps - step') * base' + extra'
<1> DEFINE inc == IF extra > 0 THEN base + 1 ELSE base
           left == IF extra > 0 THEN extra - 1 ELSE 0
           n == Steps - step
<1>1. /\ ccr \in [Wheel -> 0..MaxU16] /\ goal \in 0..MaxU16
      /\ base \in Nat /\ extra \in Nat /\ step \in Nat /\ MaxU16 \in Nat
      /\ base + 1 <= goal /\ goal + base + 1 <= MaxU16
      /\ step < Steps /\ extra <= Steps - step
      /\ \A w \in Wheel : Gap(goal, ccr[w]) <= (Steps - step) * base + extra
  BY U16 DEF RunInv, RunStep, BaseInv, TypeOK
<1>2. /\ ccr' = [w \in Wheel |-> Toward(ccr[w], goal, inc)]
      /\ extra' = left /\ step' = step + 1 /\ goal' = goal /\ base' = base
  BY DEF RunStep
<1>3. n \in Nat /\ n > 0 /\ extra <= n /\ Steps - step' = n - 1 /\ step' <= Steps
  BY <1>1, <1>2, Constants
<1>4. inc \in Nat /\ inc <= base + 1 /\ inc <= goal /\ goal + inc <= MaxU16
  BY <1>1
<1>5. left <= n - 1
  BY <1>1, <1>3
<1>6. ASSUME NEW w \in Wheel
      PROVE  /\ Gap(ccr'[w], ccr[w]) <= base + 1
             /\ Gap(goal', ccr'[w]) <= (Steps - step') * base' + extra'
  <2> DEFINE new == Toward(ccr[w], goal, inc)
             g == Gap(goal, ccr[w])
  <2>1. ccr'[w] = new
    BY <1>2
  <2>2. new \in 0..MaxU16
    BY <1>1, <1>4, TowardBound
  <2>3. g \in Nat /\ g <= n * base + extra
    <3>1. g \in Nat
      BY <1>1 DEF Gap
    <3> QED
      BY <1>1, <3>1
  <2>4. Gap(new, ccr[w]) <= inc /\ Gap(goal, new) <= (IF g > inc THEN g - inc ELSE 0)
    BY <1>1, <1>4, TowardNears
  <2>5. (IF g > inc THEN g - inc ELSE 0) <= (n - 1) * base + left
    <3> HIDE DEF n, g
    <3> QED
      BY <1>1, <1>3, <2>3, LeftShrinks
  <2>6. Gap(new, ccr[w]) \in Int /\ Gap(goal, new) \in Int
    BY <1>1, <2>2 DEF Gap
  <2>7. (n - 1) * base + left \in Int
    <3>1. (n - 1) * base \in Int
      BY <1>1, <1>3, SMT
    <3> QED
      BY <1>1, <3>1
  <2>8. Gap(new, ccr[w]) <= base + 1
    <3> HIDE DEF inc, new, n, g, left
    <3> QED
      BY <1>1, <1>4, <2>4, <2>6
  <2>9. Gap(goal, new) <= (n - 1) * base + left
    <3> DEFINE s == IF g > inc THEN g - inc ELSE 0
               z == (n - 1) * base + left
    <3>1. s \in Int
      BY <1>4, <2>3
    <3>2. Gap(goal, new) <= s /\ s <= z /\ z \in Int
      BY <2>4, <2>5, <2>7
    <3> HIDE DEF s, z, new, n, g, left, inc
    <3>3. Gap(goal, new) <= z
      BY <2>6, <3>1, <3>2
    <3> QED
      BY <3>3 DEF z
  <2> QED
    BY <1>2, <1>3, <2>1, <2>8, <2>9
<1> QED
  BY <1>2, <1>3, <1>5, <1>6

(* With turns of the documented levels, each carried out, a command that   *)
(* asks for a turn leaves one of them in force.                            *)
LEMMA CommandTurns ==
  ASSUME NEW max \in Nat, DocumentedTurns, RunInv(max), PollCommand
  PROVE  gControlMotorFlag' = "TURN" => gMotorTurnLevel' \in 1..3
<1>1. PICK c \in Command : ControlProtocolAnalysis(c)
  BY DEF PollCommand
<1>2. c.d4 \in 1..3 /\ (c.ok <=> Valid(c))
  BY CommandIsWhole DEF Command, DocumentedTurns
<1>3. gControlMotorFlag = "IDLE"
  BY DEF RunInv, BaseInv, PollCommand
<1>4. ASSUME NEW side, c.id # "A1", SetTurn(c, side) PROVE gMotorTurnLevel' \in 1..3
  <2>1. Valid(c)
    BY <1>2, <1>4 DEF Valid, TurnOK
  <2> QED
    BY <1>2, <1>4, <2>1 DEF SetTurn
<1>5. \/ SetMotion(c)
      \/ c.id # "A1" /\ (SetTurn(c, A2Turn) \/ SetTurn(c, LEFT + RIGHT - A2Turn))
      \/ QueryStatus \/ StopCar \/ IgnoreUnknown
  BY <1>1 DEF ControlProtocolAnalysis
<1> QED
  BY <1>3, <1>4, <1>5 DEF SetMotion, QueryStatus, StopCar, IgnoreUnknown

LEMMA RunNext ==
  ASSUME NEW max \in Nat, SoftTables(max), DocumentedTurns, RunInv(max), [Next]_vars
  PROVE  RunInv(max)'
<1> DEFINE Low == \A w \in Wheel : ccr[w] <= max
           Planned == /\ goal <= max
                      /\ base + 1 <= goal /\ goal + base + 1 <= MaxU16
                      /\ step <= Steps /\ extra <= Steps - step
                      /\ \A w \in Wheel : Gap(goal, ccr[w]) <= (Steps - step) * base + extra
           Goal == /\ pc' \in {"poll", "task", "settle"} => Low'
                   /\ gControlMotorFlag' = "TURN" => gMotorTurnLevel' \in 1..3
                   /\ pc' = "turn" => inner' <= max
                   /\ pc' = "run" => Planned'
<1>1. BaseInv'
  BY NextBase DEF RunInv
<1>2. pc \in {"poll", "task", "settle"} => Low
  BY DEF RunInv
<1>3. gControlMotorFlag = "TURN" => gMotorTurnLevel \in 1..3
  BY DEF RunInv
<1>4. ASSUME ccr' = ccr, Low PROVE Low'
  BY <1>4
<1>5. ASSUME TaskReturns, Low' PROVE Goal
  BY <1>5 DEF TaskReturns
<1>6. ASSUME RunBegins, Low, gControlMotorFlag = "DIRECTION" PROVE Goal
  <2>1. CASE TaskReturns
    <3>1. ccr' = ccr
      BY <1>6 DEF RunBegins
    <3> QED
      BY <1>4, <1>5, <1>6, <2>1, <3>1
  <2>2. CASE pc' = "run" /\ UNCHANGED gControlMotorFlag
    <3>1. Planned'
      BY <1>6, <2>2, RunIsPlanned DEF RunInv
    <3> HIDE DEF Planned
    <3> QED
      BY <1>6, <2>2, <3>1
  <2> QED
    BY <1>6, <2>1, <2>2 DEF RunBegins
<1>7. ASSUME StopBegins PROVE Goal
  BY <1>3, <1>7 DEF StopBegins, globals
<1>8. ASSUME PollCommand PROVE Goal
  <2>1. pc' = "task" /\ Low'
    BY <1>2, <1>4, <1>8 DEF PollCommand
  <2> QED
    BY <1>8, <2>1, CommandTurns
<1>9. ASSUME TaskIdle PROVE Goal
  BY <1>2, <1>9 DEF TaskIdle
<1>10. ASSUME TaskDirection PROVE Goal
  <2>1. CASE pc' = "settle" /\ UNCHANGED <<gControlMotorFlag, ccr>>
    BY <1>2, <1>4, <1>10, <2>1 DEF TaskDirection
  <2> HIDE DEF Goal, Low
  <2> QED
    BY <1>2, <1>6, <1>7, <1>10, <2>1 DEF TaskDirection
<1>11. ASSUME Settled PROVE Goal
  <2>1. gControlMotorFlag = "DIRECTION"
    BY <1>11 DEF Settled, RunInv, BaseInv
  <2> HIDE DEF Goal, Low
  <2> QED
    BY <1>2, <1>6, <1>11, <2>1 DEF Settled
<1>12. ASSUME TaskTurn PROVE Goal
  <2>1. /\ gMotorTurnLevel \in 1..3 /\ ~(gMotorTurnLevel > 3) /\ gMotorTurnLevel # 0
        /\ Inner[gMotorTurnLevel] <= max
    BY <1>3, <1>12 DEF TaskTurn, SoftTables
  <2>2. /\ pc' = "turn" /\ inner' = Inner[gMotorTurnLevel]
        /\ UNCHANGED <<globals, gControlMotorFlag>>
    BY <1>12, <2>1 DEF TaskTurn, TurnBegins
  <2> QED
    BY <2>1, <2>2 DEF globals
<1>13. ASSUME TaskStop PROVE Goal
  <2>1. CASE TaskReturns /\ UNCHANGED ccr
    BY <1>2, <1>4, <1>5, <1>13, <2>1 DEF TaskStop
  <2> HIDE DEF Goal, Low
  <2> QED
    BY <1>7, <1>13, <2>1 DEF TaskStop
<1>14. ASSUME StopStep PROVE Goal
  <2>1. /\ pc = "stop" /\ top \in Nat /\ size \in Nat /\ size > 0
        /\ gControlMotorFlag \in {"DIRECTION", "STOP"}
        /\ ccr \in [Wheel -> 0..MaxU16]
    BY <1>14, U16 DEF StopStep, RunInv, BaseInv, TypeOK
  <2>2. CASE top > size /\ pc' = pc /\ UNCHANGED gControlMotorFlag
    BY <2>1, <2>2
  <2>3. CASE ~(top > size)
    <3>1. ccr' = [w \in Wheel |-> Scaled(ccr[w], 0, size)]
      BY <1>14, <2>3 DEF StopStep
    <3>2. \A w \in Wheel : Scaled(ccr[w], 0, size) = 0
      BY <2>1, U16, ScaledBound
    <3>3. Low'
      BY <3>1, <3>2
    <3>4. pc' \in {"poll", "settle"} /\ gControlMotorFlag' # "TURN"
      BY <1>14, <2>1, <2>3 DEF StopStep, TaskReturns
    <3> QED
      BY <3>3, <3>4
  <2>4. top > size => top - size > 0
    BY <2>1
  <2> QED
    BY <1>14, <2>2, <2>3, <2>4 DEF StopStep
<1>15. ASSUME RunStep PROVE Goal
  <2>1. Planned'
    <3>1. pc = "run" /\ goal' = goal /\ base' = base
      BY <1>15 DEF RunStep
    <3>2. goal <= max /\ base + 1 <= goal /\ goal + base + 1 <= MaxU16
      BY <3>1 DEF RunInv
    <3>3. goal' <= max /\ base' + 1 <= goal' /\ goal' + base' + 1 <= MaxU16
      BY <3>1, <3>2
    <3> QED
      BY <1>15, <3>3, RunStepPlanned
  <2>2. pc' = "run" /\ UNCHANGED <<globals, gControlMotorFlag>>
    BY <1>15 DEF RunStep
  <2> HIDE DEF Planned
  <2> QED
    BY <1>3, <2>1, <2>2 DEF globals
<1>16. ASSUME RunEnds PROVE Goal
  <2>1. goal <= max
    BY <1>16 DEF RunEnds, RunInv
  <2>2. Low'
    BY <1>16, <2>1 DEF RunEnds
  <2> QED
    BY <1>5, <1>16, <2>2 DEF RunEnds
<1>17. ASSUME TurnStep PROVE Goal
  BY <1>3, <1>17 DEF TurnStep, RunInv, turnLocals, globals
<1>18. ASSUME TurnEnds PROVE Goal
  <2>1. inner <= max /\ Outer <= max
    BY <1>18 DEF TurnEnds, RunInv, SoftTables
  <2>2. Low'
    BY <1>18, <2>1 DEF TurnEnds, TurnGoal
  <2> QED
    BY <1>5, <1>18, <2>2 DEF TurnEnds
<1>19. ASSUME UNCHANGED vars PROVE Goal
  <2>1. UNCHANGED <<globals, gControlMotorFlag, ccr, pc, step, goal, base, extra, inner>>
    BY <1>19 DEF vars, motorVars, runLocals, turnLocals
  <2>2. pc = "run" => Planned
    BY DEF RunInv
  <2>3. Planned' = Planned
    BY <2>1
  <2> QED
    BY <1>2, <1>3, <2>1, <2>2, <2>3 DEF RunInv, globals
<1> HIDE DEF Goal
<1>20. Goal
  BY <1>8, <1>9, <1>10, <1>11, <1>12, <1>13, <1>14, <1>15, <1>16, <1>17, <1>18, <1>19
  DEF Next, Task, MotorNext
<1> QED
  BY <1>1, <1>20 DEF Goal, RunInv

(* With tables that leave room for a step, turns of the documented levels  *)
(* and no torn command, no run ramp wraps a uint16, moves a duty by more   *)
(* than base_step and one in an iteration, or ends in a jump.              *)
THEOREM RunsSoftly ==
  ASSUME NEW CONSTANT max \in Nat, SoftTables(max), DocumentedTurns
  PROVE  Spec => SoftRun
<1>1. RunInv(max) /\ [Next]_vars =>
        [pc = "run" => \A w \in Wheel :
           Gap(ccr'[w], ccr[w]) <= IF step < Steps THEN base + 1 ELSE 0]_vars
  <2> SUFFICES ASSUME RunInv(max), [Next]_vars, pc = "run", NEW w \in Wheel
               PROVE  Gap(ccr'[w], ccr[w]) <= IF step < Steps THEN base + 1 ELSE 0
    OBVIOUS
  <2>1. /\ ccr \in [Wheel -> 0..MaxU16] /\ goal \in 0..MaxU16 /\ base \in Nat
        /\ extra \in Nat /\ step \in Nat /\ Steps \in Nat /\ MaxU16 \in Nat
        /\ step <= Steps /\ extra <= Steps - step
        /\ Gap(goal, ccr[w]) <= (Steps - step) * base + extra
    BY U16, Constants DEF RunInv, BaseInv, TypeOK
  <2>2. CASE RunStep
    <3>1. step < Steps
      BY <2>2 DEF RunStep
    <3> QED
      BY <2>2, <3>1, RunStepPlanned
  <2>3. CASE RunEnds
    <3>1. step = Steps /\ ccr'[w] = goal
      BY <2>3 DEF RunEnds
    <3>2. (Steps - step) * base = 0 /\ extra = 0
      BY <2>1, <3>1
    <3>3. Gap(goal, ccr[w]) <= 0
      BY <2>1, <3>2
    <3> QED
      BY <2>1, <3>1, <3>3
  <2>4. CASE UNCHANGED vars
    <3>1. ccr' = ccr
      BY <2>4 DEF vars, motorVars
    <3>2. Gap(ccr'[w], ccr[w]) = 0
      BY <2>1, <3>1 DEF Gap
    <3> QED
      BY <2>1, <3>2
  <2>5. RunStep \/ RunEnds \/ UNCHANGED vars
    BY DEF Next, PollCommand, Task, MotorNext, TaskIdle, TaskDirection, TaskTurn, TaskStop,
       Settled, StopStep, TurnStep, TurnEnds
  <2> QED
    BY <2>2, <2>3, <2>4, <2>5
<1>2. RunInv(max) /\ [Next]_vars => RunInv(max)'
  BY RunNext
<1>3. Init => RunInv(max)
  BY RunInit
<1> QED
  BY <1>1, <1>2, <1>3, PTL DEF Spec, SoftRun
=============================================================================
