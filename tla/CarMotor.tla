------------------------------ MODULE CarMotor ------------------------------
(***************************************************************************)
(* The motor half of the car's MCU firmware (Motor/motor.c): the control   *)
(* task that the main loop calls after the protocol handler, and the three *)
(* blocking ramps it runs.  A ramp writes the timer's compare registers    *)
(* and then sits in HAL_Delay; one action here is the code from one        *)
(* HAL_Delay to the next, so that interrupts and observers see every duty  *)
(* the wheels are really driven with.                                      *)
(*                                                                         *)
(* The same text serves the two boards the repository holds: wheel 3 is    *)
(* the front wheel, wheels 1 and 2 the rear ones, and what differs between *)
(* my_mcu (STM32F103) and my_l151_motor (STM32L151) is a constant.         *)
(***************************************************************************)
EXTENDS Integers

CONSTANTS
  Duty,       \* duty_table: compare value of each speed level 1..5
  Inner,      \* speed_inner_table: slow wheel of each turn level 1..3
  Outer,      \* speed_outer: the other two wheels of a turn
  Steps,      \* iterations of a 200 ms ramp (20 of 10 ms each)
  Stray,      \* uint16 values a read outside an array may return
  Mirrored,   \* wheels whose direction pin is inverted (motor 2 of the L151)
  InTable,    \* wheels whose channel_to_index stays inside current_pwm[]
  BootPin     \* level MX_GPIO_Init drives the direction pins to

Wheel == 1..3
Front == 3
MaxU16 == 65535

ASSUME DutyAssumption  == Duty \in [1..5 -> 1..MaxU16]
ASSUME InnerAssumption == Inner \in [1..3 -> 0..MaxU16]
ASSUME OuterAssumption == Outer \in 1..MaxU16
ASSUME StepsAssumption ==
  /\ Steps \in Nat \ {0}
  /\ \A l \in 1..5 : Duty[l] >= Steps   \* no stop ramp starts with step_size 0
  /\ Outer >= Steps
ASSUME StrayAssumption == Stray # {} /\ Stray \subseteq 0..MaxU16
ASSUME BoardAssumption ==
  /\ Mirrored \subseteq Wheel
  /\ InTable \subseteq Wheel
  /\ BootPin \in BOOLEAN

(* The enumerations of motor.h. *)
IDLE == 0        \* MY_CAR_DIRECTION_IDLE, MY_CAR_SPEED_IDLE, MY_TURN_IDLE
FORWARD == 1
BACKWARD == 2
LEFT == 1
RIGHT == 2
ControlFlag == {"IDLE", "DIRECTION", "TURN", "STOP"}

VARIABLES
  gMotorDirection, gMotorSpeedLevel, gMotorTurnDirection, gMotorTurnLevel,
  gControlMotorFlag,
  ccr,        \* TIM2 compare register of each wheel: its duty, 1000 = full
  cw,         \* direction pin of each wheel, TRUE = GPIO_PIN_SET
  pc,         \* where the main loop is: a call, or the HAL_Delay of a ramp
  top, size,  \* stop ramp: max_pwm and step_size
  step,       \* iterations done of the running ramp
  goal, base, extra,  \* run ramp: target_pwm, base_step, remainder
  from, slow, inner   \* turn ramp: current_pwm, the slow wheel, its target

globals == <<gMotorDirection, gMotorSpeedLevel, gMotorTurnDirection, gMotorTurnLevel>>
stopLocals == <<top, size>>
runLocals == <<goal, base, extra>>
turnLocals == <<from, slow, inner>>
motorVars == <<globals, gControlMotorFlag, ccr, cw, pc, step,
               stopLocals, runLocals, turnLocals>>

(* The main loop is in the protocol handler, about to call the task, in   *)
(* the 100 ms wait after a stop, or in one of the ramps.                   *)
Place == {"poll", "task", "stop", "settle", "run", "turn"}

MotorInit ==
  /\ gMotorDirection = IDLE /\ gMotorSpeedLevel = IDLE
  /\ gMotorTurnDirection = IDLE /\ gMotorTurnLevel = IDLE
  /\ gControlMotorFlag = "IDLE"
  /\ ccr = [w \in Wheel |-> 0]
  /\ cw = [w \in Wheel |-> BootPin]
  /\ pc = "poll"
  /\ top = 0 /\ size = 0 /\ step = 0
  /\ goal = 0 /\ base = 0 /\ extra = 0
  /\ from = [w \in Wheel |-> 0] /\ slow = 1 /\ inner = 0

-----------------------------------------------------------------------------
(* Helpers on duties. *)

MaxDuty(d) == CHOOSE m \in {d[w] : w \in Wheel} : \A w \in Wheel : d[w] <= m
AllZero(d) == \A w \in Wheel : d[w] = 0
Gap(a, b) == IF a > b THEN a - b ELSE b - a          \* labs(a - b)

(* What a wheel does under its pin, read the way motor_gpio_set_direction  *)
(* writes it: SET means backward, RESET on a mirrored motor.               *)
Heading(w) == IF cw[w] = (w \notin Mirrored) THEN BACKWARD ELSE FORWARD

(* A slip: the front wheel's pin is forgotten.                             *)
PinsForRearOnly(direction) ==
  [w \in Wheel |-> IF w = Front THEN BootPin ELSE (direction = BACKWARD) # (w \in Mirrored)]

(* motor_gpio_set_direction for every wheel: anything but BACKWARD drives  *)
(* the pin as FORWARD does.                                                *)
PinsFor(direction) ==
  IF direction = BACKWARD THEN [w \in Wheel |-> w \notin Mirrored]
                          ELSE [w \in Wheel |-> w \in Mirrored]

(* The direction the code derives from one pin (SET means BACKWARD).       *)
PinDirection(w) == IF cw[w] THEN BACKWARD ELSE FORWARD

(* The task returns to the main loop: flag IDLE, ramp locals out of scope. *)
DropLocals ==
  /\ top' = 0 /\ size' = 0 /\ step' = 0
  /\ goal' = 0 /\ base' = 0 /\ extra' = 0
  /\ from' = [w \in Wheel |-> 0] /\ slow' = 1 /\ inner' = 0
TaskReturns ==
  /\ gControlMotorFlag' = "IDLE"
  /\ pc' = "poll"
  /\ DropLocals

-----------------------------------------------------------------------------
(* stop_all_motors_sync(200). *)

(* A slip: the maximum is divided by the milliseconds of the ramp.         *)
StopBeginsByTime ==
  /\ top' = MaxDuty(ccr)
  /\ size' = MaxDuty(ccr) \div (10 * Steps)
  /\ step' = 0
  /\ pc' = "stop"
  /\ UNCHANGED <<globals, gControlMotorFlag, ccr, cw, runLocals, turnLocals>>

(* Its entry with a wheel turning.  A channel's pwm_values entry always    *)
(* equals its compare register, so ccr stands for both.                    *)
StopBegins ==
  /\ top' = MaxDuty(ccr)
  /\ size' = MaxDuty(ccr) \div Steps
  /\ step' = 0
  /\ pc' = "stop"
  /\ UNCHANGED <<globals, gControlMotorFlag, ccr, cw, runLocals, turnLocals>>

(* A slip: every wheel gets the maximum, whatever its own duty.            *)
ScaledToMaximum(duty, max, dec) == max

(* One duty of the proportional slow-down, as the maximum falls by dec to  *)
(* max; the uint32 product cannot overflow.                                *)
Scaled(duty, max, dec) == (duty * max) \div (max + dec)

(* One iteration.  The HAL_Delay after the last one and the return it      *)
(* leads to are one step with it: nothing else reads the locals.           *)
StopStep ==
  LET max == IF top > size THEN top - size ELSE 0
      duties == [w \in Wheel |-> Scaled(ccr[w], max, size)]
  IN /\ pc = "stop"
     /\ ccr' = duties
     /\ UNCHANGED <<globals, cw>>
     /\ \/ /\ max > 0
           /\ top' = max /\ step' = step + 1
           /\ UNCHANGED <<gControlMotorFlag, pc, size, runLocals, turnLocals>>
        \/ /\ max = 0 /\ gControlMotorFlag = "STOP"
           /\ TaskReturns
        \/ /\ max = 0 /\ gControlMotorFlag = "DIRECTION"
           /\ pc' = "settle"
           /\ DropLocals
           /\ UNCHANGED gControlMotorFlag

-----------------------------------------------------------------------------
(* motors_set_speed_soft(level, direction, 0): from its entry to the first *)
(* HAL_Delay, where it returns early on a bad level or when every wheel is *)
(* at the target.                                                          *)
RunBegins ==
  LET delta == MaxDuty([w \in Wheel |-> Gap(Duty[gMotorSpeedLevel], ccr[w])])
  IN \/ /\ gMotorSpeedLevel \notin DOMAIN Duty
        /\ TaskReturns
        /\ UNCHANGED <<globals, ccr, cw>>
     \/ /\ gMotorSpeedLevel \in DOMAIN Duty
        /\ cw' = PinsFor(gMotorDirection)
        /\ UNCHANGED <<globals, ccr>>
        /\ \/ delta = 0 /\ TaskReturns
           \/ /\ delta > 0
              /\ pc' = "run"
              /\ goal' = Duty[gMotorSpeedLevel]
              /\ base' = delta \div Steps
              /\ extra' = delta % Steps
              /\ step' = 0
              /\ UNCHANGED <<gControlMotorFlag, stopLocals, turnLocals>>

(* A slip: the target is passed.                                           *)
TowardUnclamped(duty, target, inc) ==
  IF duty < target THEN duty + inc ELSE IF duty > target THEN duty - inc ELSE duty

(* A duty moved towards the target by inc without passing it, in uint16.   *)
Toward(duty, target, inc) ==
  IF duty < target
    THEN LET up == (duty + inc) % (MaxU16 + 1) IN IF up > target THEN target ELSE up
  ELSE IF duty > target
    THEN LET down == (duty - inc) % (MaxU16 + 1) IN IF down < target THEN target ELSE down
  ELSE duty

(* One iteration of the for loop, remainder spread over the first ones.    *)
RunStep ==
  LET inc == IF extra > 0 THEN base + 1 ELSE base
  IN /\ pc = "run" /\ step < Steps
     /\ ccr' = [w \in Wheel |-> Toward(ccr[w], goal, inc)]
     /\ extra' = IF extra > 0 THEN extra - 1 ELSE 0
     /\ step' = step + 1
     /\ UNCHANGED <<globals, gControlMotorFlag, cw, pc, goal, base, stopLocals, turnLocals>>

(* A slip: one iteration more is awaited than the loop makes.              *)
RunEndsLate ==
  /\ pc = "run" /\ step = Steps + 1
  /\ ccr' = [w \in Wheel |-> goal]
  /\ TaskReturns
  /\ UNCHANGED <<globals, cw>>

RunEnds ==
  /\ pc = "run" /\ step = Steps
  /\ ccr' = [w \in Wheel |-> goal]
  /\ TaskReturns
  /\ UNCHANGED <<globals, cw>>

-----------------------------------------------------------------------------
(* car_turn_soft(turn direction, level, 0). *)

(* A slip: left and right exchanged.                                       *)
SlowWheelSwapped(turn, heading) ==
  IF turn = RIGHT THEN 2 ELSE IF heading = FORWARD THEN 1 ELSE 2

(* The wheel the turn slows, chosen from the turn and the pin of wheel 3.  *)
SlowWheel(turn, heading) ==
  IF turn = LEFT THEN 2 ELSE IF heading = FORWARD THEN 1 ELSE 2

(* Entry: the duties are saved in current_pwm; the target of level 0 is    *)
(* speed_inner_table[-1].                                                  *)
TurnBegins ==
  IF gMotorTurnLevel > 3
    THEN TaskReturns /\ UNCHANGED <<globals, ccr, cw>>
    ELSE /\ from' = ccr
         /\ slow' = SlowWheel(gMotorTurnDirection, PinDirection(Front))
         /\ inner' \in IF gMotorTurnLevel = 0 THEN Stray ELSE {Inner[gMotorTurnLevel]}
         /\ step' = 0
         /\ pc' = "turn"
         /\ UNCHANGED <<globals, gControlMotorFlag, ccr, cw, stopLocals, runLocals>>

TurnGoal(w) == IF w = slow THEN inner ELSE Outer

(* calculate_step_pwm with ratio = k/Steps: the product truncates towards  *)
(* zero, so the result never passes the target and the clamps never bite.  *)
(* The code's ratio is a float; at one of the 20 steps (0.65f < 0.65) an   *)
(* exact product may come out one count lower, which is abstracted.        *)
Blend(start, target, k) ==
  IF target >= start THEN start + (k * (target - start)) \div Steps
                     ELSE start - (k * (start - target)) \div Steps

(* current_pwm[channel_to_index(ch)] lies inside the array, and then holds *)
(* the wheel's own duty, only for the wheels of InTable; for the others it *)
(* is read from the stack around it, anew in every iteration.              *)
TurnStep ==
  /\ pc = "turn" /\ step <= Steps
  /\ \E stray \in [Wheel \ InTable -> Stray] :
       ccr' = [w \in Wheel |-> Blend(IF w \in InTable THEN from[w] ELSE stray[w],
                                    TurnGoal(w), step)]
  /\ step' = step + 1
  /\ UNCHANGED <<globals, gControlMotorFlag, cw, pc, stopLocals, runLocals, turnLocals>>

(* A slip: one iteration more is awaited than the loop makes.              *)
TurnEndsLate ==
  /\ pc = "turn" /\ step = Steps + 2
  /\ ccr' = [w \in Wheel |-> TurnGoal(w)]
  /\ TaskReturns
  /\ UNCHANGED <<globals, cw>>

TurnEnds ==
  /\ pc = "turn" /\ step = Steps + 1
  /\ ccr' = [w \in Wheel |-> TurnGoal(w)]
  /\ TaskReturns
  /\ UNCHANGED <<globals, cw>>

-----------------------------------------------------------------------------
(* my_motor_control_task, up to the first HAL_Delay of what it calls.      *)

TaskIdle ==
  /\ pc = "task" /\ gControlMotorFlag = "IDLE"
  /\ pc' = "poll"
  /\ UNCHANGED <<globals, gControlMotorFlag, ccr, cw, step,
                 stopLocals, runLocals, turnLocals>>

(* A slip: the car is not stopped before it turns round.                   *)
TaskDirectionNoStop == pc = "task" /\ gControlMotorFlag = "DIRECTION" /\ RunBegins

TaskDirection ==
  /\ pc = "task" /\ gControlMotorFlag = "DIRECTION"
  /\ \/ PinDirection(1) = gMotorDirection /\ RunBegins
     \/ PinDirection(1) # gMotorDirection /\ ~AllZero(ccr) /\ StopBegins
     \/ /\ PinDirection(1) # gMotorDirection /\ AllZero(ccr)
        /\ pc' = "settle"
        /\ UNCHANGED <<globals, gControlMotorFlag, ccr, cw, step,
                       stopLocals, runLocals, turnLocals>>

(* HAL_Delay(100) is over: my_motor_car_run.                               *)
Settled == pc = "settle" /\ RunBegins

TaskTurn == pc = "task" /\ gControlMotorFlag = "TURN" /\ TurnBegins

(* A slip: the request is taken without a ramp.                            *)
TaskStopSkipped ==
  /\ pc = "task" /\ gControlMotorFlag = "STOP"
  /\ TaskReturns
  /\ UNCHANGED <<globals, ccr, cw>>

TaskStop ==
  /\ pc = "task" /\ gControlMotorFlag = "STOP"
  /\ \/ ~AllZero(ccr) /\ StopBegins
     \/ AllZero(ccr) /\ TaskReturns /\ UNCHANGED <<globals, ccr, cw>>

MotorNext ==
  \/ TaskIdle \/ TaskDirection \/ TaskTurn \/ TaskStop
  \/ StopStep \/ Settled \/ RunStep \/ RunEnds \/ TurnStep \/ TurnEnds
=============================================================================
