----------------------------- MODULE CarPinsProof -----------------------------
(***************************************************************************)
(* Proofs about a board whose motors are wired alike (my_mcu; on the L151  *)
(* board, with its mirrored motor, TLC refutes the same properties), for   *)
(* every speed table, number of ramp steps and set of command bytes, and   *)
(* whatever a turn reads outside its array: first its direction pins, then *)
(* that the task implements CarService.                                    *)
(***************************************************************************)
EXTENDS CarControlProof

WiredAlike == Mirrored = {}

(* What the pins need beyond BaseInv: they are equal at all times, so that *)
(* the task, which looks at wheel 1 only, knows them all, and during a run *)
(* ramp they are the ones of the command.                                  *)
PinsAgree == \A w \in Wheel : cw[w] = cw[1]
RunPins == pc = "run" => cw = PinsFor(gMotorDirection)
PinInv == BaseInv /\ PinsAgree /\ RunPins

(* Any setting of the pins by motor_gpio_set_direction makes them agree.   *)
LEMMA PinsForAgree ==
  ASSUME WiredAlike, NEW d
  PROVE  \A w \in Wheel : PinsFor(d)[w] = (d = BACKWARD)
<1>1. CASE d = BACKWARD
  <2>1. PinsFor(d) = [w \in Wheel |-> w \notin Mirrored]
    BY <1>1 DEF PinsFor
  <2> QED
    BY <1>1, <2>1 DEF WiredAlike
<1>2. CASE d # BACKWARD
  <2>1. PinsFor(d) = [w \in Wheel |-> w \in Mirrored]
    BY <1>2 DEF PinsFor
  <2> QED
    BY <1>2, <2>1 DEF WiredAlike
<1> QED
  BY <1>1, <1>2

(* Where pin 1 shows the direction commanded, setting the pins to it       *)
(* changes none of them.                                                   *)
LEMMA PinsKept ==
  ASSUME WiredAlike, PinInv, PinDirection(1) = gMotorDirection
  PROVE  PinsFor(gMotorDirection) = cw
<1>1. cw \in [Wheel -> BOOLEAN] /\ 1 \in Wheel
  BY DEF PinInv, BaseInv, TypeOK, Wheel
<1>2. cw[1] = (gMotorDirection = BACKWARD)
  BY <1>1 DEF PinDirection, FORWARD, BACKWARD
<1>3. \A w \in Wheel : PinsFor(gMotorDirection)[w] = cw[w]
  BY <1>2, PinsForAgree DEF PinInv, PinsAgree
<1> QED
  BY <1>1, <1>3, PinsForType

(* The start of a run ramp, or its early returns.                          *)
LEMMA RunBeginsPins ==
  ASSUME WiredAlike, PinInv, RunBegins,
         PinDirection(1) = gMotorDirection \/ AllZero(ccr)
  PROVE  /\ PinsAgree' /\ RunPins'
         /\ cw' # cw => AllZero(ccr)
<1>1. CASE TaskReturns /\ cw' = cw
  BY <1>1 DEF TaskReturns, PinInv, PinsAgree, RunPins
<1>2. CASE cw' = PinsFor(gMotorDirection) /\ UNCHANGED globals
  <2>1. PinsAgree'
    BY <1>2, PinsForAgree DEF PinsAgree, Wheel
  <2>2. RunPins'
    BY <1>2 DEF RunPins, PinsFor, globals
  <2>3. cw' # cw => AllZero(ccr)
    BY <1>2, PinsKept
  <2> QED
    BY <2>1, <2>2, <2>3
<1> QED
  BY <1>1, <1>2 DEF RunBegins

LEMMA InitPins == Init => PinInv
<1> SUFFICES ASSUME Init PROVE PinInv
  OBVIOUS
<1>1. BaseInv
  BY InitBase
<1>2. PinsAgree /\ RunPins
  BY DEF Init, MotorInit, PinsAgree, RunPins, Wheel
<1> QED
  BY <1>1, <1>2 DEF PinInv

(* Every step keeps the pins in agreement and switches them only at rest.  *)
LEMMA NextPins ==
  ASSUME WiredAlike, PinInv, [Next]_vars
  PROVE  PinInv' /\ (cw' # cw => AllZero(ccr))
<1>1. BaseInv'
  BY NextBase DEF PinInv
<1> DEFINE Goal == PinsAgree' /\ RunPins' /\ (cw' # cw => AllZero(ccr))
<1>2. ASSUME cw' = cw, pc' # "run" PROVE Goal
  BY <1>2 DEF PinInv, PinsAgree, RunPins
<1>3. ASSUME PollCommand PROVE Goal
  BY <1>2, <1>3 DEF PollCommand
<1>4. ASSUME TaskIdle \/ TaskTurn \/ TaskStop PROVE Goal
  <2>1. cw' = cw /\ pc' # "run"
    BY <1>4 DEF TaskIdle, TaskTurn, TaskStop, TurnBegins, StopBegins, TaskReturns
  <2> QED
    BY <1>2, <2>1
<1>5. ASSUME TaskDirection PROVE Goal
  <2>1. CASE PinDirection(1) = gMotorDirection /\ RunBegins
    BY <2>1, RunBeginsPins
  <2>2. CASE StopBegins
    BY <1>2, <2>2 DEF StopBegins
  <2>3. CASE pc' = "settle" /\ UNCHANGED <<globals, gControlMotorFlag, ccr, cw, step,
                                           stopLocals, runLocals, turnLocals>>
    BY <1>2, <2>3
  <2> QED
    BY <1>5, <2>1, <2>2, <2>3 DEF TaskDirection
<1>6. ASSUME Settled PROVE Goal
  <2>1. AllZero(ccr)
    BY <1>6 DEF Settled, PinInv, BaseInv
  <2> QED
    BY <1>6, <2>1, RunBeginsPins DEF Settled
<1>7. ASSUME StopStep \/ RunEnds \/ TurnEnds \/ TurnStep PROVE Goal
  <2>1. cw' = cw /\ pc' # "run"
    BY <1>7 DEF StopStep, RunEnds, TurnEnds, TurnStep, TaskReturns
  <2> QED
    BY <1>2, <2>1
<1>8. ASSUME RunStep PROVE Goal
  BY <1>8 DEF RunStep, PinInv, PinsAgree, RunPins, PinsFor, globals
<1>9. ASSUME UNCHANGED vars PROVE Goal
  BY <1>9 DEF vars, motorVars, globals, PinInv, PinsAgree, RunPins, PinsFor
<1> HIDE DEF Goal
<1>10. Goal
  BY <1>3, <1>4, <1>5, <1>6, <1>7, <1>8, <1>9 DEF Next, Task, MotorNext
<1> QED
  BY <1>1, <1>10 DEF Goal, PinInv

LEMMA PinInvariant ==
  ASSUME WiredAlike PROVE Spec => []PinInv
<1>1. PinInv /\ [Next]_vars => PinInv'
  BY NextPins
<1> QED
  BY <1>1, InitPins, PTL DEF Spec

-----------------------------------------------------------------------------
(* Where the motors are wired alike, the wheels of a driven car turn the   *)
(* same way at every moment, inside every ramp and after every sequence of *)
(* commands, torn or whole, though the code looks at pin 1 or pin 3 only.  *)
THEOREM PinsTogether ==
  ASSUME WiredAlike PROVE Spec => []WheelsAgree
<1>1. PinInv => WheelsAgree
  <2> SUFFICES ASSUME PinInv, NEW w \in Wheel PROVE Heading(w) = Heading(Front)
    BY DEF WheelsAgree
  <2>1. cw[w] = cw[Front]
    BY DEF PinInv, PinsAgree, Wheel, Front
  <2> QED
    BY <2>1 DEF Heading, WiredAlike
<1> QED
  BY <1>1, PinInvariant, PTL

(* Where the motors are wired alike, the pins are switched only while no   *)
(* wheel is driven: stopping first, as my_motor_control_task does, or not  *)
(* moving the pins at all.                                                 *)
THEOREM SwitchedAtRest ==
  ASSUME WiredAlike PROVE Spec => DirectionAtRest
<1>1. PinInv /\ [Next]_vars => [cw' # cw => AllZero(ccr)]_vars
  BY NextPins
<1> QED
  BY <1>1, PinInvariant, PTL DEF Spec, DirectionAtRest

(* Where the motors are wired alike and no command is torn, a run ramp     *)
(* drives every wheel the way that the command in force asks for, never    *)
(* with a direction of IDLE.                                               *)
THEOREM RunsAsCommanded ==
  ASSUME WiredAlike, ~Torn PROVE Spec => []RunMatchesCommand
<1>1. PinInv => RunMatchesCommand
  <2> SUFFICES ASSUME PinInv, pc = "run", NEW w \in Wheel
               PROVE  Heading(w) = gMotorDirection
    BY DEF RunMatchesCommand
  <2>1. cw[w] = (gMotorDirection = BACKWARD)
    BY PinsForAgree DEF PinInv, RunPins
  <2>2. gMotorDirection \in {FORWARD, BACKWARD}
    BY DEF PinInv, BaseInv
  <2> QED
    BY <2>1, <2>2 DEF Heading, WiredAlike, FORWARD, BACKWARD
<1> QED
  BY <1>1, PinInvariant, PTL

-----------------------------------------------------------------------------
(* CarService.  A request's end is what the parameters in force ask for    *)
(* because a ramp's locals were taken from them and still are (RunAsSet,   *)
(* TurnAsSet), and the car is turned round only by a request of the other *)
(* direction, which is remembered through the stop ramp and the wait after *)
(* it (Reversing).                                                         *)

RunAsSet == pc = "run" => gMotorSpeedLevel \in 1..5 /\ goal = Duty[gMotorSpeedLevel]
TurnAsSet ==
  pc = "turn" => /\ slow = SlowWheel(gMotorTurnDirection, PinDirection(Front))
                 /\ inner \in IF gMotorTurnLevel = 0 THEN Stray ELSE {Inner[gMotorTurnLevel]}
Reversing ==
  /\ pc = "settle" => PinDirection(1) # gMotorDirection
  /\ pc = "stop" /\ gControlMotorFlag = "DIRECTION" => PinDirection(1) # gMotorDirection
ServiceInv == PinInv /\ RunAsSet /\ TurnAsSet /\ Reversing

(* What the user sees of a step is a step of CarService, or nothing.       *)
ServiceStep == [Service!Next]_(Service!vars)

(* The heading the user sees is the one the task derives from pin 1.       *)
LEMMA HeadingIsPin ==
  ASSUME WiredAlike, PinInv
  PROVE  /\ Heading(Front) = PinDirection(Front)
         /\ PinDirection(1) = PinDirection(Front)
         /\ Heading(Front) \in 1..2
<1>1. cw[Front] = cw[1] /\ cw[Front] \in BOOLEAN
  BY DEF PinInv, PinsAgree, BaseInv, TypeOK, Wheel, Front
<1>2. Heading(Front) = IF cw[Front] THEN BACKWARD ELSE FORWARD
  BY <1>1 DEF Heading, WiredAlike
<1> QED
  BY <1>1, <1>2 DEF PinDirection, FORWARD, BACKWARD

(* A car whose wheels are undriven is at rest.                             *)
LEMMA RestIsZero ==
  ASSUME NEW d \in [Wheel -> 0..MaxU16]
  PROVE  AllZero(d) <=> d = Service!Rest
  BY DEF AllZero, Service!Rest, Service!Wheel, Wheel

(* The run ramp finds nothing to do just when the car runs as asked.       *)
LEMMA NoGap ==
  ASSUME NEW d \in [Wheel -> 0..MaxU16], NEW t \in 0..MaxU16
  PROVE  LET delta == MaxDuty([w \in Wheel |-> Gap(t, d[w])])
         IN  delta \in 0..MaxU16 /\ (delta = 0 <=> d = [w \in Wheel |-> t])
<1> DEFINE gaps == [w \in Wheel |-> Gap(t, d[w])]
           delta == MaxDuty(gaps)
<1>1. \A w \in Wheel : /\ Gap(t, d[w]) \in 0..MaxU16
                       /\ Gap(t, d[w]) = 0 <=> d[w] = t
  BY U16 DEF Gap
<1>2. gaps \in [Wheel -> 0..MaxU16]
  BY <1>1
<1>3. /\ delta \in 0..MaxU16
      /\ \A w \in Wheel : gaps[w] <= delta
      /\ \E w \in Wheel : delta = gaps[w]
  BY <1>2, MaxDutyBound
<1>4. \A w \in Wheel : gaps[w] = Gap(t, d[w])
  OBVIOUS
<1> HIDE DEF gaps, delta
<1>5. delta = 0 => \A w \in Wheel : d[w] = t
  <2> SUFFICES ASSUME delta = 0, NEW w \in Wheel PROVE d[w] = t
    OBVIOUS
  <2>1. gaps[w] = 0
    BY <1>2, <1>3, U16
  <2> QED
    BY <1>1, <1>4, <2>1
<1>6. (\A w \in Wheel : d[w] = t) => delta = 0
  BY <1>1, <1>3, <1>4
<1>7. (\A w \in Wheel : d[w] = t) <=> d = [w \in Wheel |-> t]
  OBVIOUS
<1> QED
  BY <1>3, <1>5, <1>6, <1>7 DEF delta, gaps

(* A command is an order: it stores parameters in range, all of them IDLE  *)
(* with a stop and none with what asks for nothing.                        *)
LEMMA CommandOrders ==
  ASSUME WiredAlike, ~Torn, ServiceInv, PollCommand
  PROVE  Service!Order
<1>1. TypeOK' /\ gControlMotorFlag = "IDLE" /\ UNCHANGED <<ccr, cw>>
      /\ pc = "poll" /\ pc' = "task"
  BY CommandBase DEF ServiceInv, PinInv, BaseInv, PollCommand
<1>2. PICK c \in Command : ControlProtocolAnalysis(c)
  BY DEF PollCommand
<1>3. \/ SetMotion(c) \/ SetTurn(c, A2Turn) \/ SetTurn(c, LEFT + RIGHT - A2Turn)
      \/ QueryStatus \/ StopCar \/ IgnoreUnknown
  BY <1>2 DEF ControlProtocolAnalysis
<1>4. ServiceSetting' \in Service!Setting
  BY <1>1 DEF TypeOK, ParametersValid, ServiceSetting, Service!Setting, IDLE, FORWARD, BACKWARD, LEFT, RIGHT
<1>5. gControlMotorFlag' = "STOP" => ServiceSetting' = Service!NoSetting
  BY <1>1, <1>3 DEF SetMotion, SetTurn, QueryStatus, StopCar, IgnoreUnknown,
     globals, ServiceSetting, Service!NoSetting, IDLE
<1>6. gControlMotorFlag' = "IDLE" => ServiceSetting' = ServiceSetting
  BY <1>1, <1>3 DEF SetMotion, SetTurn, QueryStatus, StopCar, IgnoreUnknown,
     globals, ServiceSetting
<1>7. gControlMotorFlag' \in {"IDLE", "DIRECTION", "TURN", "STOP"}
  BY <1>1 DEF TypeOK, ControlFlag
<1>8. UNCHANGED <<ServiceDuty, Heading(Front)>> /\ ServicePhase = "ready" /\ ServicePhase' = "ordered"
  BY <1>1 DEF ServiceDuty, Heading, ServicePhase
<1> QED
  BY <1>4, <1>5, <1>6, <1>7, <1>8 DEF Service!Order

(* The task has returned with what the request asked for.                  *)
LEMMA ReturnIsReady ==
  ASSUME TaskReturns
  PROVE  ServicePhase' = "ready" /\ gControlMotorFlag' = "IDLE" /\ ServiceDuty' = ccr'
  BY DEF TaskReturns, ServicePhase, ServiceDuty

(* The stop ramp begins for a stop, or before the car is turned round.     *)
LEMMA StopBeginsIsSeen ==
  ASSUME WiredAlike, ~Torn, ServiceInv, pc = "task", ~AllZero(ccr), StopBegins,
         \/ gControlMotorFlag = "STOP"
         \/ gControlMotorFlag = "DIRECTION" /\ PinDirection(1) # gMotorDirection
  PROVE  Service!Begin
<1>1. ccr \in [Wheel -> 0..MaxU16]
  BY DEF ServiceInv, PinInv, BaseInv, TypeOK, ParametersValid
<1>2. ServicePhase = "ordered" /\ ServicePhase' = "changing" /\ ServiceDuty' = <<>>
      /\ ServiceDuty = ccr
      /\ UNCHANGED <<gControlMotorFlag, ServiceSetting, Heading(Front)>>
  BY DEF StopBegins, globals, ServicePhase, ServiceDuty, ServiceSetting, Heading
<1>3. ccr # Service!Rest
  BY <1>1, RestIsZero
<1>4. gControlMotorFlag = "DIRECTION" => Heading(Front) # ServiceSetting.dir
  BY HeadingIsPin DEF ServiceInv, ServiceSetting
<1>5. ~Service!Satisfied
  BY <1>2, <1>3, <1>4 DEF Service!Satisfied
<1> QED
  BY <1>2, <1>5 DEF Service!Begin, Service!Changing

(* The run ramp of a car that points the way it is asked to run.           *)
LEMMA RunBeginsIsSeen ==
  ASSUME WiredAlike, ~Torn, ServiceInv, pc = "task", gControlMotorFlag = "DIRECTION",
         PinDirection(1) = gMotorDirection, RunBegins
  PROVE  Service!Skip \/ Service!Begin
<1> DEFINE target == Duty[gMotorSpeedLevel]
           delta == MaxDuty([w \in Wheel |-> Gap(target, ccr[w])])
<1>1. /\ ccr \in [Wheel -> 0..MaxU16] /\ gMotorSpeedLevel \in 0..5
      /\ ServicePhase = "ordered" /\ ServiceDuty = ccr
  BY DEF ServiceInv, PinInv, BaseInv, TypeOK, ParametersValid, ServicePhase, ServiceDuty
<1>2. Heading(Front) = ServiceSetting.dir /\ ServiceSetting.level = gMotorSpeedLevel
  BY HeadingIsPin DEF ServiceInv, ServiceSetting
<1>3. UNCHANGED <<ServiceSetting, Heading(Front), ccr>>
  <2>1. cw' = cw
    BY PinsKept DEF RunBegins, ServiceInv
  <2> QED
    BY <2>1 DEF RunBegins, globals, ServiceSetting, Heading
<1>4. CASE gMotorSpeedLevel \notin DOMAIN Duty
  <2>1. gMotorSpeedLevel = 0 /\ TaskReturns
    BY <1>1, <1>4, Constants DEF RunBegins
  <2>2. Service!Satisfied
    BY <1>2, <2>1 DEF Service!Satisfied
  <2> QED
    BY <1>1, <1>3, <2>1, <2>2, ReturnIsReady DEF Service!Skip
<1>5. CASE gMotorSpeedLevel \in DOMAIN Duty
  <2>1. target \in 0..MaxU16 /\ gMotorSpeedLevel # 0
    BY <1>5, Constants
  <2>2. delta \in 0..MaxU16 /\ (delta = 0 <=> ccr = [w \in Wheel |-> target])
    BY <1>1, <2>1, NoGap
  <2>3. Service!Straight = [w \in Wheel |-> target]
    BY <1>2 DEF Service!Straight, Service!Wheel, Wheel
  <2>4. Service!Satisfied <=> delta = 0
    BY <1>1, <1>2, <2>1, <2>2, <2>3 DEF Service!Satisfied
  <2>5. CASE delta = 0 /\ TaskReturns
    BY <1>1, <1>3, <2>4, <2>5, ReturnIsReady DEF Service!Skip
  <2>6. CASE delta > 0 /\ pc' = "run" /\ UNCHANGED gControlMotorFlag
    <3>1. ServicePhase' = "changing" /\ ServiceDuty' = <<>>
      BY <2>6 DEF ServicePhase, ServiceDuty
    <3>2. delta # 0
      BY <2>2, <2>6, U16
    <3> QED
      BY <1>1, <1>3, <2>4, <2>6, <3>1, <3>2 DEF Service!Begin, Service!Changing
  <2> QED
    BY <1>5, <2>5, <2>6 DEF RunBegins
<1> QED
  BY <1>4, <1>5

(* The run ramp, or the end of the request, after a stop and a wait.       *)
LEMMA SettledIsSeen ==
  ASSUME WiredAlike, ~Torn, ServiceInv, Settled
  PROVE  Service!TurnRound \/ Service!Complete
<1> DEFINE target == Duty[gMotorSpeedLevel]
           delta == MaxDuty([w \in Wheel |-> Gap(target, ccr[w])])
<1>1. /\ pc = "settle" /\ gControlMotorFlag = "DIRECTION" /\ RunBegins
      /\ ccr \in [Wheel -> 0..MaxU16] /\ gMotorSpeedLevel \in 0..5
      /\ ServicePhase = "changing" /\ ServiceDuty = ccr
  BY DEF Settled, ServiceInv, PinInv, BaseInv, TypeOK, ParametersValid, ServicePhase, ServiceDuty
<1>2. ccr = Service!Rest
  BY <1>1, RestIsZero DEF ServiceInv, PinInv, BaseInv
<1>3. Heading(Front) # gMotorDirection
  BY <1>1, HeadingIsPin DEF ServiceInv, Reversing
<1>4. UNCHANGED <<ServiceSetting, ccr>> /\ ServiceSetting.level = gMotorSpeedLevel
      /\ ServiceSetting.dir = gMotorDirection
  BY <1>1 DEF RunBegins, globals, ServiceSetting
<1>5. CASE gMotorSpeedLevel \notin DOMAIN Duty
  <2>1. gMotorSpeedLevel = 0 /\ TaskReturns /\ cw' = cw
    BY <1>1, <1>5, Constants DEF RunBegins
  <2>2. Service!Rest \in Service!Wanted
    BY <1>1, <1>4, <2>1 DEF Service!Wanted
  <2>3. UNCHANGED Heading(Front)
    BY <2>1 DEF Heading
  <2> QED
    BY <1>1, <1>2, <1>4, <2>1, <2>2, <2>3, ReturnIsReady DEF Service!Complete
<1>6. CASE gMotorSpeedLevel \in DOMAIN Duty
  <2>1. target \in 0..MaxU16 /\ target > 0 /\ gMotorSpeedLevel > 0
    BY <1>1, <1>6, Constants, U16
  <2>2. delta \in 0..MaxU16 /\ (delta = 0 <=> ccr = [w \in Wheel |-> target])
    BY <1>1, <2>1, NoGap
  <2>3. delta # 0
    <3>1. ccr[1] = 0 /\ 1 \in Wheel
      BY <1>2 DEF Service!Rest, Service!Wheel, Wheel
    <3> QED
      BY <2>1, <2>2, <3>1
  <2>4. pc' = "run" /\ cw' = PinsFor(gMotorDirection) /\ UNCHANGED gControlMotorFlag
    BY <1>1, <1>6, <2>3 DEF RunBegins
  <2>5. gMotorDirection \in {FORWARD, BACKWARD}
    BY <1>1, <2>1 DEF ServiceInv, PinInv, BaseInv, TypeOK, ParametersValid, IDLE
  <2>6. Heading(Front)' = gMotorDirection
    <3>1. cw'[Front] = (gMotorDirection = BACKWARD)
      BY <2>4, PinsForAgree DEF Wheel, Front
    <3> QED
      BY <2>5, <3>1 DEF Heading, WiredAlike, FORWARD, BACKWARD
  <2>7. ServicePhase' = "changing" /\ ServiceDuty' = <<>>
    BY <2>4 DEF ServicePhase, ServiceDuty
  <2> QED
    BY <1>1, <1>2, <1>3, <1>4, <2>1, <2>4, <2>6, <2>7 DEF Service!TurnRound, Service!Changing
<1> QED
  BY <1>5, <1>6

(* The first choice of the task for a direction: run on, stop, or only     *)
(* wait, which leaves the car at rest.                                     *)
LEMMA DirectionIsSeen ==
  ASSUME WiredAlike, ~Torn, ServiceInv, TaskDirection
  PROVE  Service!Skip \/ Service!Begin
<1>1. CASE PinDirection(1) = gMotorDirection /\ RunBegins
  BY <1>1, RunBeginsIsSeen DEF TaskDirection
<1>2. CASE PinDirection(1) # gMotorDirection /\ ~AllZero(ccr) /\ StopBegins
  BY <1>2, StopBeginsIsSeen DEF TaskDirection
<1>3. CASE /\ PinDirection(1) # gMotorDirection /\ AllZero(ccr)
           /\ pc' = "settle"
           /\ UNCHANGED <<globals, gControlMotorFlag, ccr, cw, step,
                          stopLocals, runLocals, turnLocals>>
  <2>1. /\ pc = "task" /\ gControlMotorFlag = "DIRECTION"
        /\ ccr \in [Wheel -> 0..MaxU16]
    BY DEF TaskDirection, ServiceInv, PinInv, BaseInv, TypeOK, ParametersValid
  <2>2. /\ ServicePhase = "ordered" /\ ServicePhase' = "changing"
        /\ ServiceDuty = ccr /\ ServiceDuty' = ccr
        /\ UNCHANGED <<gControlMotorFlag, ServiceSetting, Heading(Front)>>
    BY <1>3, <2>1 DEF globals, ServicePhase, ServiceDuty, ServiceSetting, Heading
  <2>3. ccr = Service!Rest
    BY <1>3, <2>1, RestIsZero
  <2>4. Heading(Front) # ServiceSetting.dir
    BY <1>3, HeadingIsPin DEF ServiceInv, ServiceSetting
  <2>5. ~Service!Satisfied
    BY <2>1, <2>4 DEF Service!Satisfied
  <2> QED
    BY <2>1, <2>2, <2>3, <2>4, <2>5 DEF Service!Begin
<1> QED
  BY <1>1, <1>2, <1>3 DEF TaskDirection

(* Without a request, or with a stop while the car stands, the task        *)
(* returns at once; a turn always has its ramp.                            *)
LEMMA OtherRequestsAreSeen ==
  ASSUME WiredAlike, ~Torn, ServiceInv, TaskIdle \/ TaskTurn \/ TaskStop
  PROVE  Service!Skip \/ Service!Begin
<1>1. /\ pc = "task" /\ ServicePhase = "ordered" /\ ServiceDuty = ccr
      /\ ccr \in [Wheel -> 0..MaxU16] /\ gMotorTurnLevel \in 0..3
  BY DEF TaskIdle, TaskTurn, TaskStop, ServiceInv, PinInv, BaseInv, TypeOK, ParametersValid, ServicePhase,
     ServiceDuty
<1>2. CASE TaskIdle
  <2>1. /\ ServicePhase' = "ready" /\ gControlMotorFlag' = "IDLE" /\ ServiceDuty' = ccr
        /\ UNCHANGED <<ServiceSetting, Heading(Front)>>
    BY <1>2 DEF TaskIdle, globals, ServicePhase, ServiceDuty, ServiceSetting, Heading
  <2>2. Service!Satisfied
    BY <1>2 DEF TaskIdle, Service!Satisfied
  <2> QED
    BY <1>1, <2>1, <2>2 DEF Service!Skip
<1>3. CASE TaskTurn
  <2>1. ~(gMotorTurnLevel > 3)
    BY <1>1
  <2>2. /\ ServicePhase' = "changing" /\ ServiceDuty' = <<>>
        /\ UNCHANGED <<gControlMotorFlag, ServiceSetting, Heading(Front)>>
    BY <1>3, <2>1
    DEF TaskTurn, TurnBegins, globals, ServicePhase, ServiceDuty, ServiceSetting, Heading
  <2>3. ~Service!Satisfied
    BY <1>3 DEF TaskTurn, Service!Satisfied
  <2> QED
    BY <1>1, <2>2, <2>3 DEF Service!Begin, Service!Changing
<1>4. CASE TaskStop
  <2>1. CASE ~AllZero(ccr) /\ StopBegins
    BY <1>4, <2>1, StopBeginsIsSeen DEF TaskStop
  <2>2. CASE AllZero(ccr) /\ TaskReturns /\ UNCHANGED <<globals, ccr, cw>>
    <3>1. Service!Satisfied
      BY <1>1, <1>4, <2>2, RestIsZero DEF TaskStop, Service!Satisfied
    <3>2. UNCHANGED <<ServiceSetting, Heading(Front)>>
      BY <2>2 DEF globals, ServiceSetting, Heading
    <3> QED
      BY <1>1, <2>2, <3>1, <3>2, ReturnIsReady DEF Service!Skip
  <2> QED
    BY <1>4, <2>1, <2>2 DEF TaskStop
<1> QED
  BY <1>2, <1>3, <1>4

(* Inside a ramp the user sees nothing change.                             *)
LEMMA RampIsUnseen ==
  ASSUME pc \in {"stop", "run", "turn"}, pc' = pc,
         UNCHANGED <<globals, gControlMotorFlag, cw>>
  PROVE  UNCHANGED (Service!vars)
BY DEF globals, ServicePhase, ServiceSetting, ServiceDuty, Heading, Service!vars

(* A stop ramp ends with the car at rest: at the end of its request, or    *)
(* before it is turned round.                                              *)
LEMMA StopStepIsSeen ==
  ASSUME WiredAlike, ~Torn, ServiceInv, StopStep
  PROVE  ServiceStep
<1> DEFINE max == IF top > size THEN top - size ELSE 0
<1>1. /\ pc = "stop" /\ UNCHANGED <<globals, cw>>
      /\ gControlMotorFlag \in {"DIRECTION", "STOP"}
      /\ ServicePhase = "changing" /\ ServiceDuty = <<>>
      /\ UNCHANGED <<ServiceSetting, Heading(Front)>>
  BY DEF StopStep, ServiceInv, PinInv, BaseInv, globals, ServicePhase, ServiceDuty,
     ServiceSetting, Heading
<1>2. max = 0 => ccr' = Service!Rest
  <2> SUFFICES ASSUME max = 0 PROVE ccr' = Service!Rest
    OBVIOUS
  <2>1. ccr' = [w \in Wheel |-> Scaled(ccr[w], 0, size)]
    BY DEF StopStep
  <2>2. size \in Nat /\ size > 0 /\ \A w \in Wheel : ccr[w] \in Nat
    BY <1>1, U16 DEF ServiceInv, PinInv, BaseInv, TypeOK, ParametersValid
  <2>3. \A w \in Wheel : Scaled(ccr[w], 0, size) = 0
    BY <2>2, ScaledBound
  <2> QED
    BY <2>1, <2>3 DEF Service!Rest, Service!Wheel, Wheel
<1>3. CASE max > 0 /\ UNCHANGED <<gControlMotorFlag, pc>>
  BY <1>1, <1>3, RampIsUnseen DEF ServiceStep
<1>4. CASE max = 0 /\ gControlMotorFlag = "STOP" /\ TaskReturns
  <2>1. Service!Rest \in Service!Wanted
    BY <1>4 DEF Service!Wanted
  <2>2. Service!Complete
    BY <1>1, <1>2, <1>4, <2>1, ReturnIsReady DEF Service!Complete, Service!Changing
  <2> QED
    BY <2>2 DEF ServiceStep, Service!Next
<1>5. CASE max = 0 /\ gControlMotorFlag = "DIRECTION" /\ pc' = "settle"
           /\ UNCHANGED gControlMotorFlag
  <2>1. ServicePhase' = "changing" /\ ServiceDuty' = ccr'
    BY <1>5 DEF ServicePhase, ServiceDuty
  <2>2. Heading(Front) # ServiceSetting.dir
    BY <1>1, <1>5, HeadingIsPin DEF ServiceInv, Reversing, ServiceSetting
  <2>3. Service!Halt
    BY <1>1, <1>2, <1>5, <2>1, <2>2 DEF Service!Halt, Service!Changing
  <2> QED
    BY <2>3 DEF ServiceStep, Service!Next
<1> QED
  BY <1>3, <1>4, <1>5 DEF StopStep

(* The run ramp ends at the duty of the level asked for, in the direction  *)
(* asked for.                                                              *)
LEMMA RunEndsIsSeen ==
  ASSUME WiredAlike, ~Torn, ServiceInv, RunEnds
  PROVE  Service!Complete
<1>1. /\ pc = "run" /\ gControlMotorFlag = "DIRECTION"
      /\ gMotorSpeedLevel \in 1..5 /\ goal = Duty[gMotorSpeedLevel]
      /\ ccr' = [w \in Wheel |-> goal] /\ TaskReturns
      /\ ServicePhase = "changing" /\ ServiceDuty = <<>>
      /\ UNCHANGED <<ServiceSetting, Heading(Front)>>
  BY DEF RunEnds, ServiceInv, PinInv, BaseInv, RunAsSet, globals, ServicePhase,
     ServiceDuty, ServiceSetting, Heading
<1>2. Heading(Front) = gMotorDirection
  <2>1. cw[Front] = (gMotorDirection = BACKWARD)
    BY <1>1, PinsForAgree DEF ServiceInv, PinInv, RunPins, Wheel, Front
  <2>2. gMotorDirection \in {FORWARD, BACKWARD}
    BY <1>1 DEF ServiceInv, PinInv, BaseInv
  <2> QED
    BY <2>1, <2>2 DEF Heading, WiredAlike, FORWARD, BACKWARD
<1>3. ServiceSetting.dir = gMotorDirection /\ ServiceSetting.level = gMotorSpeedLevel
  BY DEF ServiceSetting
<1>4. ccr' = Service!Straight
  BY <1>1, <1>3 DEF Service!Straight, Service!Wheel, Wheel
<1>5. ServiceSetting.level > 0
  BY <1>1, <1>3
<1>6. ServiceSetting.level # 0
  BY <1>1, <1>3
<1>7. ccr' \in Service!Wanted
  <2>1. Service!Wanted = {Service!Straight}
    BY <1>1, <1>2, <1>3, <1>5, <1>6 DEF Service!Wanted
  <2> QED
    BY <1>4, <2>1
<1> QED
  BY <1>1, <1>7, ReturnIsReady DEF Service!Complete, Service!Changing

(* The turn ramp ends with the wheel slowed that the side and the heading  *)
(* of the car select, the others at speed_outer.                           *)
LEMMA TurnEndsIsSeen ==
  ASSUME WiredAlike, ~Torn, ServiceInv, TurnEnds
  PROVE  Service!Complete
<1>1. /\ pc = "turn" /\ gControlMotorFlag = "TURN"
      /\ slow = SlowWheel(gMotorTurnDirection, PinDirection(Front))
      /\ inner \in IF gMotorTurnLevel = 0 THEN Stray ELSE {Inner[gMotorTurnLevel]}
      /\ ccr' = [w \in Wheel |-> TurnGoal(w)] /\ TaskReturns
      /\ ServicePhase = "changing" /\ ServiceDuty = <<>>
      /\ UNCHANGED <<ServiceSetting, Heading(Front)>>
  BY DEF TurnEnds, ServiceInv, PinInv, BaseInv, TurnAsSet, globals, ServicePhase,
     ServiceDuty, ServiceSetting, Heading
<1>2. /\ ServiceSetting.side = gMotorTurnDirection
      /\ ServiceSetting.sharp = gMotorTurnLevel
  BY DEF ServiceSetting
<1>3. slow = IF gMotorTurnDirection = 1 \/ Heading(Front) = 2 THEN 2 ELSE 1
  <2>1. Heading(Front) = PinDirection(Front) /\ Heading(Front) \in 1..2
    BY HeadingIsPin DEF ServiceInv
  <2> QED
    BY <1>1, <2>1 DEF SlowWheel, LEFT, FORWARD
<1>4. ccr' = [w \in Wheel |-> IF w = slow THEN inner ELSE Outer]
  BY <1>1 DEF TurnGoal
<1>5. ccr' \in Service!TurnResults
  BY <1>1, <1>2, <1>3, <1>4 DEF Service!TurnResults, Service!Wheel, Wheel
<1>6. ccr' \in Service!Wanted
  BY <1>1, <1>5 DEF Service!Wanted
<1> QED
  BY <1>1, <1>6, ReturnIsReady DEF Service!Complete, Service!Changing

LEMMA InitService == ASSUME WiredAlike PROVE Init => ServiceInv /\ Service!Init
<1> SUFFICES ASSUME Init PROVE ServiceInv /\ Service!Init
  OBVIOUS
<1>1. PinInv
  BY InitPins
<1>2. ServiceInv
  BY <1>1 DEF Init, MotorInit, ServiceInv, RunAsSet, TurnAsSet, Reversing
<1>3. Heading(Front) \in 1..2
  BY <1>1, HeadingIsPin
<1>4. /\ ServicePhase = "ready" /\ gControlMotorFlag = "IDLE"
      /\ ServiceSetting = Service!NoSetting /\ ServiceDuty = Service!Rest
  BY DEF Init, MotorInit, ServicePhase, ServiceSetting, ServiceDuty, Service!NoSetting,
     Service!Rest, Service!Wheel, Wheel, IDLE
<1> QED
  BY <1>2, <1>3, <1>4 DEF Service!Init

(* The parameters a ramp began with are still the ones in force at its     *)
(* end, and the pins it began with still the pins.                         *)
LEMMA NextAsSet ==
  ASSUME WiredAlike, ~Torn, ServiceInv, [Next]_vars
  PROVE  RunAsSet' /\ TurnAsSet' /\ Reversing'
<1> DEFINE Goal == RunAsSet' /\ TurnAsSet' /\ Reversing'
<1>1. ASSUME pc' \in {"poll", "task"} PROVE Goal
  BY <1>1 DEF RunAsSet, TurnAsSet, Reversing
<1>2. ASSUME PollCommand \/ TaskIdle \/ RunEnds \/ TurnEnds PROVE Goal
  BY <1>1, <1>2 DEF PollCommand, TaskIdle, RunEnds, TurnEnds, TaskReturns
<1>3. ASSUME RunBegins PROVE Goal
  <2>1. CASE TaskReturns
    BY <1>1, <2>1 DEF TaskReturns
  <2>2. CASE /\ gMotorSpeedLevel \in DOMAIN Duty /\ pc' = "run"
             /\ goal' = Duty[gMotorSpeedLevel] /\ UNCHANGED globals
    BY <2>2, Constants DEF RunAsSet, TurnAsSet, Reversing, globals
  <2> QED
    BY <1>3, <2>1, <2>2 DEF RunBegins
<1>4. ASSUME TaskDirection PROVE Goal
  <2>1. CASE PinDirection(1) # gMotorDirection /\ StopBegins
    BY <1>4, <2>1
    DEF StopBegins, RunAsSet, TurnAsSet, Reversing, PinDirection, globals
  <2>2. CASE PinDirection(1) # gMotorDirection /\ pc' = "settle" /\ UNCHANGED <<globals, cw>>
    BY <2>2 DEF RunAsSet, TurnAsSet, Reversing, PinDirection, globals
  <2> QED
    BY <1>3, <1>4, <2>1, <2>2 DEF TaskDirection
<1>5. ASSUME Settled PROVE Goal
  BY <1>3, <1>5 DEF Settled
<1>6. ASSUME TaskTurn PROVE Goal
  <2>1. ~(gMotorTurnLevel > 3)
    BY DEF ServiceInv, PinInv, BaseInv, TypeOK, ParametersValid
  <2>2. pc' = "turn" /\ UNCHANGED <<globals, cw>>
        /\ slow' = SlowWheel(gMotorTurnDirection, PinDirection(Front))
        /\ inner' \in IF gMotorTurnLevel = 0 THEN Stray ELSE {Inner[gMotorTurnLevel]}
    BY <1>6, <2>1 DEF TaskTurn, TurnBegins
  <2> QED
    BY <2>2 DEF RunAsSet, TurnAsSet, Reversing, PinDirection, SlowWheel, globals
<1>7. ASSUME TaskStop PROVE Goal
  BY <1>1, <1>7
  DEF TaskStop, StopBegins, TaskReturns, RunAsSet, TurnAsSet, Reversing
<1>8. ASSUME StopStep PROVE Goal
  <2>1. CASE TaskReturns
    BY <1>1, <2>1 DEF TaskReturns
  <2>2. CASE pc' \in {"stop", "settle"} /\ UNCHANGED <<gControlMotorFlag, globals, cw>>
             /\ (pc' = "settle" => gControlMotorFlag = "DIRECTION")
    BY <1>8, <2>2
    DEF StopStep, ServiceInv, RunAsSet, TurnAsSet, Reversing, PinDirection, globals
  <2> QED
    BY <1>8, <2>1, <2>2 DEF StopStep
<1>9. ASSUME RunStep PROVE Goal
  BY <1>9
  DEF RunStep, ServiceInv, RunAsSet, TurnAsSet, Reversing, globals
<1>10. ASSUME TurnStep \/ UNCHANGED vars PROVE Goal
  <2>1. UNCHANGED <<globals, gControlMotorFlag, cw, pc, goal, slow, inner>>
    BY <1>10 DEF TurnStep, vars, motorVars, runLocals, turnLocals
  <2> QED
    BY <2>1
    DEF ServiceInv, RunAsSet, TurnAsSet, Reversing, PinDirection, SlowWheel, globals
<1> HIDE DEF Goal
<1>11. Goal
  BY <1>2, <1>4, <1>5, <1>6, <1>7, <1>8, <1>9, <1>10 DEF Next, Task, MotorNext
<1> QED
  BY <1>11 DEF Goal

(* Every step of the car is one its user understands, or none.             *)
LEMMA NextService ==
  ASSUME WiredAlike, ~Torn, ServiceInv, [Next]_vars
  PROVE  ServiceInv' /\ ServiceStep
<1>1. ServiceInv'
  BY NextPins, NextAsSet DEF ServiceInv
<1> SUFFICES ServiceStep
  BY <1>1
<1>2. CASE PollCommand
  BY <1>2, CommandOrders DEF ServiceStep, Service!Next
<1>3. CASE TaskIdle \/ TaskTurn \/ TaskStop
  BY <1>3, OtherRequestsAreSeen DEF ServiceStep, Service!Next
<1>4. CASE TaskDirection
  BY <1>4, DirectionIsSeen DEF ServiceStep, Service!Next
<1>5. CASE Settled
  BY <1>5, SettledIsSeen DEF ServiceStep, Service!Next
<1>6. CASE RunEnds
  BY <1>6, RunEndsIsSeen DEF ServiceStep, Service!Next
<1>7. CASE TurnEnds
  BY <1>7, TurnEndsIsSeen DEF ServiceStep, Service!Next
<1>8. CASE RunStep \/ TurnStep
  BY <1>8, RampIsUnseen DEF RunStep, TurnStep, ServiceStep
<1>9. CASE UNCHANGED vars
  BY <1>9 DEF vars, motorVars, globals, ServiceStep, ServicePhase, ServiceSetting,
      ServiceDuty, Heading, Service!vars
<1> QED
  BY <1>2, <1>3, <1>4, <1>5, <1>6, <1>7, <1>8, <1>9, StopStepIsSeen
  DEF Next, Task, MotorNext

(* Where the motors are wired alike and no command is torn, the task       *)
(* implements CarService, its liveness aside: requests are carried out one *)
(* at a time, every ramp ends exactly in the motion its request asks for,  *)
(* whatever was asked before, and the car is turned round only at rest.    *)
THEOREM ImplementsService ==
  ASSUME WiredAlike, ~Torn PROVE Spec => Service!Init /\ [][Service!Next]_(Service!vars)
<1>1. ServiceInv /\ [Next]_vars => ServiceInv' /\ [Service!Next]_(Service!vars)
  BY NextService DEF ServiceStep
<1>2. Init => ServiceInv /\ Service!Init
  BY InitService
<1> QED
  BY <1>1, <1>2, PTL DEF Spec
=============================================================================
