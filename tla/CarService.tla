----------------------------- MODULE CarService -----------------------------
(***************************************************************************)
(* What the motor task promises whoever sends commands, with no ramp, pin  *)
(* or register in sight: requests are carried out one at a time; each      *)
(* either finds the car as asked already, or puts it through a change that *)
(* ends exactly in the state asked for; and the car is turned round only   *)
(* while it stands still.                                                  *)
(***************************************************************************)
EXTENDS Integers

CONSTANTS Duty, Inner, Outer, Stray

VARIABLES
  phase,     \* "ready" for a request, "ordered", or "changing" the motion
  request,   \* what was asked: "IDLE", "DIRECTION", "TURN" or "STOP"
  setting,   \* [dir, level, side, sharp]: the parameters in force
  duty,      \* duty of each wheel, Changing while a ramp is moving them
  heading    \* of the car: 1 forward, 2 backward

vars == <<phase, request, setting, duty, heading>>

Wheel == 1..3
Changing == <<>>
Rest == [w \in Wheel |-> 0]
Setting == [dir : 0..2, level : 0..5, side : 0..2, sharp : 0..3]
NoSetting == [dir |-> 0, level |-> 0, side |-> 0, sharp |-> 0]

Init ==
  /\ phase = "ready" /\ request = "IDLE" /\ setting = NoSetting
  /\ duty = Rest /\ heading \in 1..2

Straight == [w \in Wheel |-> Duty[setting.level]]
TurnResults ==
  LET slow == IF setting.side = 1 \/ heading = 2 THEN 2 ELSE 1
      slowDuty == IF setting.sharp = 0 THEN Stray ELSE {Inner[setting.sharp]}
  IN {[w \in Wheel |-> IF w = slow THEN d ELSE Outer] : d \in slowDuty}

(* The end states a request allows once the car has been put in motion.    *)
Wanted ==
  CASE request = "STOP" -> {Rest}
    [] request = "TURN" -> TurnResults
    [] request = "DIRECTION" /\ setting.level = 0 -> {Rest}
    [] request = "DIRECTION" /\ setting.level > 0 ->
         IF heading = setting.dir THEN {Straight} ELSE {}

(* Nothing to do: also a speed of 0 in the direction the car has already.  *)
Satisfied ==
  \/ request = "IDLE"
  \/ request = "STOP" /\ duty = Rest
  \/ /\ request = "DIRECTION" /\ heading = setting.dir
     /\ IF setting.level = 0 THEN TRUE ELSE duty = Straight

Order ==
  /\ phase = "ready" /\ phase' = "ordered"
  /\ request' \in {"IDLE", "DIRECTION", "TURN", "STOP"}
  /\ setting' \in Setting
  /\ request' = "STOP" => setting' = NoSetting
  /\ request' = "IDLE" => setting' = setting
  /\ UNCHANGED <<duty, heading>>

Skip ==
  /\ phase = "ordered" /\ Satisfied
  /\ phase' = "ready" /\ request' = "IDLE"
  /\ UNCHANGED <<setting, duty, heading>>

Begin ==
  /\ phase = "ordered" /\ ~Satisfied
  /\ phase' = "changing"
  /\ \/ duty' = Changing
     \/ request = "DIRECTION" /\ heading # setting.dir /\ duty = Rest /\ duty' = duty
  /\ UNCHANGED <<request, setting, heading>>

(* Before turning round, and for a speed of 0 in the other direction.      *)
Halt ==
  /\ phase = "changing" /\ duty = Changing
  /\ request = "DIRECTION" /\ heading # setting.dir
  /\ duty' = Rest
  /\ UNCHANGED <<phase, request, setting, heading>>

TurnRound ==
  /\ phase = "changing" /\ duty = Rest
  /\ request = "DIRECTION" /\ setting.level > 0
  /\ heading' = setting.dir /\ heading' # heading
  /\ duty' = Changing
  /\ UNCHANGED <<phase, request, setting>>

Complete ==
  /\ phase = "changing"
  /\ duty' \in Wanted
  /\ duty = Changing \/ duty' = duty
  /\ phase' = "ready" /\ request' = "IDLE"
  /\ UNCHANGED <<setting, heading>>

Next == Order \/ Skip \/ Begin \/ Halt \/ TurnRound \/ Complete

(* The car comes back for the next request.                                *)
Spec == Init /\ [][Next]_vars /\ WF_vars(Skip) /\ WF_vars(Begin \/ Halt \/ TurnRound \/ Complete)
=============================================================================
