----------------------------- MODULE CarControl -----------------------------
(***************************************************************************)
(* The command layer of the MCU firmware over the motor task:              *)
(* control_protocol_analysis (usart.c) takes a checked frame, updates the  *)
(* g_ variables, answers, and leaves a request in g_ControlMotorFlag that  *)
(* the task carries out before the main loop polls again.  How frames get  *)
(* here is CarUart's subject: a command is a record of what the analysis   *)
(* reads of data[3], data[4] and data[5].                                  *)
(*                                                                         *)
(* The analysis reads the parameters twice, to check them and to store     *)
(* them.  In a torn command the buffer has changed in between, and what is *)
(* stored is not what was checked.                                         *)
(***************************************************************************)
EXTENDS CarMotor

CONSTANTS
  Ids, Bytes4, Bytes5,   \* values of data[3], data[4], data[5] enumerated
  A2Turn,                \* what command A2 stores: LEFT (my_mcu) or RIGHT (L151)
  Torn                   \* TRUE: commands may be torn

ASSUME CommandAssumption ==
  /\ Bytes4 \subseteq 0..255 /\ Bytes5 \subseteq 0..255
  /\ A2Turn \in {LEFT, RIGHT} /\ Torn \in BOOLEAN

VARIABLE
  reply     \* packed by my_uart3_tx_to_BLE in this turn of the loop: ID, payload

vars == <<motorVars, reply>>

(* Slips: a speed level too many, no lower bound on the direction.         *)
MotionOKSixLevels(least, most, level) == 1 <= least /\ most <= 2 /\ level <= 6
MotionOKNoLowerBound(least, most, level) == most <= 2 /\ level <= 5

(* The checks of the parameters; A1 reads data[4] once for each bound.     *)
MotionOK(least, most, level) == 1 <= least /\ most <= 2 /\ level <= 5
TurnOK(level) == level <= 3

(* What is stored as d4 and d5 is valid; ok is what the check has found.   *)
Valid(c) == IF c.id = "A1" THEN MotionOK(c.d4, c.d4, c.d5) ELSE TurnOK(c.d4)

Command == {c \in [id : Ids, ok : BOOLEAN, d4 : Bytes4, d5 : Bytes5] : Torn \/ c.ok = Valid(c)}
NoReply == <<>>

Init ==
  /\ MotorInit
  /\ reply = NoReply

(* A1: bad parameters are not stored, but the task is asked all the same.  *)
SetMotion(c) ==
  /\ gMotorDirection' = IF c.ok THEN c.d4 ELSE gMotorDirection
  /\ gMotorSpeedLevel' = IF c.ok THEN c.d5 ELSE gMotorSpeedLevel
  /\ reply' = <<"A1", IF c.ok THEN 0 ELSE 1>>
  /\ gControlMotorFlag' = "DIRECTION"
  /\ UNCHANGED <<gMotorTurnDirection, gMotorTurnLevel>>

(* A2 and A3; the code answers both with the ID of A2.                     *)
SetTurn(c, side) ==
  /\ gMotorTurnDirection' = IF c.ok THEN side ELSE gMotorTurnDirection
  /\ gMotorTurnLevel' = IF c.ok THEN c.d4 ELSE gMotorTurnLevel
  /\ reply' = <<"A2", IF c.ok THEN 0 ELSE 1>>
  /\ gControlMotorFlag' = "TURN"
  /\ UNCHANGED <<gMotorDirection, gMotorSpeedLevel>>

QueryStatus ==
  /\ reply' = <<"A4", gMotorDirection, gMotorSpeedLevel,
                gMotorTurnDirection, gMotorTurnLevel>>
  /\ UNCHANGED <<globals, gControlMotorFlag>>

StopCar ==
  /\ gMotorDirection' = IDLE /\ gMotorSpeedLevel' = IDLE
  /\ gMotorTurnDirection' = IDLE /\ gMotorTurnLevel' = IDLE
  /\ reply' = <<"A5", 0>>
  /\ gControlMotorFlag' = "STOP"

IgnoreUnknown == reply' = NoReply /\ UNCHANGED <<globals, gControlMotorFlag>>

ControlProtocolAnalysis(c) ==
  CASE c.id = "A1" -> SetMotion(c)
    [] c.id = "A2" -> SetTurn(c, A2Turn)
    [] c.id = "A3" -> SetTurn(c, LEFT + RIGHT - A2Turn)
    [] c.id = "A4" -> QueryStatus
    [] c.id = "A5" -> StopCar
    [] OTHER -> IgnoreUnknown

(* The protocol handler finds a checked frame.  The task has cleared the   *)
(* flag before the loop comes round, so a request is never overwritten.    *)
PollCommand ==
  /\ pc = "poll" /\ pc' = "task"
  /\ \E c \in Command : ControlProtocolAnalysis(c)
  /\ UNCHANGED <<ccr, cw, step, stopLocals, runLocals, turnLocals>>

(* A turn of the loop without a command changes nothing and is a stutter. *)
(* The answer is out once the task goes on.                                *)
Task == MotorNext /\ reply' = NoReply

Next == PollCommand \/ Task

Spec == Init /\ [][Next]_vars

(* The main loop runs for ever and HAL_Delay returns (SysTick interrupts   *)
(* are never masked): every step of the task but not the arrival of a      *)
(* command is fair.                                                        *)
FairSpec == Spec /\ WF_vars(Task)

-----------------------------------------------------------------------------
(* The parameters in force are such as the check lets pass, or those of a  *)
(* stop.                                                                   *)
ParametersValid ==
  /\ gMotorDirection \in {IDLE, FORWARD, BACKWARD} /\ gMotorSpeedLevel \in 0..5
  /\ gMotorTurnDirection \in {IDLE, LEFT, RIGHT} /\ gMotorTurnLevel \in 0..3

(* Type invariant.                                                         *)
TypeOK ==
  /\ gMotorDirection \in 0..255 /\ gMotorSpeedLevel \in 0..255
  /\ gMotorTurnDirection \in {IDLE, LEFT, RIGHT} /\ gMotorTurnLevel \in 0..255
  /\ ~Torn => ParametersValid
  /\ gControlMotorFlag \in ControlFlag
  /\ ccr \in [Wheel -> 0..MaxU16]
  /\ cw \in [Wheel -> BOOLEAN]
  /\ pc \in Place
  /\ top \in 0..MaxU16 /\ size \in 0..MaxU16
  /\ step \in Nat
  /\ goal \in 0..MaxU16 /\ base \in 0..MaxU16 /\ extra \in Nat
  /\ from \in [Wheel -> 0..MaxU16] /\ slow \in Wheel /\ inner \in 0..MaxU16

-----------------------------------------------------------------------------
(* Safety.                                                                 *)

(* A direction pin is switched only while every wheel is undriven, as      *)
(* my_motor_control_task means to ensure by stopping first.                *)
DirectionAtRest == [][cw' # cw => AllZero(ccr)]_vars

(* The wheels of a driven car all turn the same way: a turn keeps the pins *)
(* it finds, so they must agree before it starts.                          *)
WheelsAgree == ~AllZero(ccr) => \A w \in Wheel : Heading(w) = Heading(Front)

(* A run ramp drives in the direction commanded, which is never IDLE (the  *)
(* else branch of motor_gpio_set_direction).                               *)
RunMatchesCommand == pc = "run" => \A w \in Wheel : Heading(w) = gMotorDirection

(* The run ramp is soft to its end: no iteration moves a duty by more than *)
(* base_step + 1 (no uint16 wraps), and the remainder is spread so that    *)
(* the closing SetCompare finds every wheel at the target.                 *)
SoftRun ==
  [][pc = "run" => \A w \in Wheel :
       Gap(ccr'[w], ccr[w]) <= IF step < Steps THEN base + 1 ELSE 0]_vars

(* The while loop of stop_all_motors_sync can always count down: step_size *)
(* is not 0, and max_pwm is never below the duty of a wheel.               *)
StopProgress == pc = "stop" => size > 0 /\ \A w \in Wheel : ccr[w] <= top

(* Slowing down is monotone for every wheel and takes at most one          *)
(* iteration more than the 200 ms the ramp is planned for.                 *)
StopSlows == [][pc = "stop" => step <= Steps /\ \A w \in Wheel : ccr'[w] <= ccr[w]]_vars

-----------------------------------------------------------------------------
(* Liveness.                                                               *)

(* The main loop always comes back to poll for the next command.           *)
Responsive == []<>(pc = "poll")

(* A stop request ends with every wheel undriven.                          *)
StopStops == gControlMotorFlag = "STOP" ~> AllZero(ccr)

-----------------------------------------------------------------------------
(* The task implements CarService.  What its user sees: where a request    *)
(* has got to, the parameters in force, and the duties between two ramps.  *)
ServicePhase == IF pc = "poll" THEN "ready" ELSE IF pc = "task" THEN "ordered" ELSE "changing"
ServiceSetting == [dir |-> gMotorDirection, level |-> gMotorSpeedLevel,
                   side |-> gMotorTurnDirection, sharp |-> gMotorTurnLevel]
ServiceDuty == IF pc \in {"stop", "run", "turn"} THEN <<>> ELSE ccr

Service == INSTANCE CarService WITH
  phase <- ServicePhase, request <- gControlMotorFlag, setting <- ServiceSetting,
  duty <- ServiceDuty, heading <- Heading(Front)

(* Every ramp ends exactly in the motion its request asks for, requests    *)
(* are carried out one by one, and the car turns round only at rest.       *)
ServiceSpec == Service!Spec
=============================================================================
