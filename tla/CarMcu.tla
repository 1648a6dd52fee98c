------------------------------- MODULE CarMcu -------------------------------
(***************************************************************************)
(* The F103's main loop (main.c): CarUart's handler and CarControl's       *)
(* commands and ramps as one program.  How long the task keeps the loop    *)
(* from polling, which CarUart leaves open, CarControl says; which         *)
(* commands come and when, which CarControl leaves open, CarUart says.     *)
(* Interrupts and the BLE module go on in the middle of every ramp.        *)
(*                                                                         *)
(* The commands may be torn unless the BLE module waits for its answers:   *)
(* the F103 checks and stores the parameters of a frame from the buffer    *)
(* that the next one is being received in.                                 *)
(***************************************************************************)
EXTENDS CarUart

CONSTANTS Duty, Inner, Outer, Steps, Stray, Mirrored, InTable, BootPin,
          Ids, Bytes4, Bytes5, A2Turn   \* of CarControl

VARIABLES
  gMotorDirection, gMotorSpeedLevel, gMotorTurnDirection, gMotorTurnLevel,
  gControlMotorFlag, ccr, cw, step, top, size, goal, base, extra, from, slow, inner, reply,
  place     \* CarControl's pc: "poll" while the loop is in the handler

Car == INSTANCE CarControl WITH pc <- place, Torn <- ~Paced

demand == <<gMotorDirection, gMotorSpeedLevel, gMotorTurnDirection, gMotorTurnLevel,
            gControlMotorFlag>>
wheels == <<ccr, cw, step, top, size, goal, base, extra, from, slow, inner>>
carVars == <<demand, wheels, reply, place>>
mcuVars == <<vars, carVars>>

McuInit == Init /\ ~copies /\ Car!Init

(* The ID of a command, of the byte that carries it.                       *)
IdOf(byte) ==
  IF byte \in 161..165 THEN <<"A1", "A2", "A3", "A4", "A5">>[byte - 160] ELSE "other"

(* The command of what has been read.  The parameters that were checked    *)
(* are the second to the fourth byte of it (of a turn the second), those   *)
(* stored come last; other commands have none.                             *)
Fetched ==
  LET read(k) == IF k \in DOMAIN fetched THEN fetched[k] ELSE 0
      id == IdOf(read(1))
  IN [id |-> id,
      ok |-> IF id = "A1" THEN Car!MotionOK(read(2), read(3), read(4)) ELSE Car!TurnOK(read(2)),
      d4 |-> IF id = "A1" THEN read(5) ELSE read(3),
      d5 |-> read(6)]

(* A slip: the task is not told.                                           *)
ExecuteUnnoticed ==
  /\ AnalyseFrame
  /\ Car!ControlProtocolAnalysis(Fetched)
  /\ UNCHANGED <<place, wheels>>

(* control_protocol_analysis of the frame at hand.                         *)
Execute ==
  /\ AnalyseFrame
  /\ Car!ControlProtocolAnalysis(Fetched)
  /\ place' = "task"
  /\ UNCHANGED wheels

(* The BLE module, the interrupts and the rest of the handler.             *)
LinkOnly(action) == action /\ UNCHANGED carVars
Handle == LinkOnly(Take \/ CheckFrame \/ Fetch)

(* The task from one HAL_Delay to the next; its return ends the turn of    *)
(* the loop.  After a frame that was refused it finds nothing to do.       *)
MotorTask ==
  /\ pc = "task"
  /\ IF place = "poll" THEN UNCHANGED carVars ELSE Car!Task
  /\ IF place' = "poll" THEN ControlTask ELSE UNCHANGED vars

McuMain == Handle \/ Execute \/ MotorTask

McuNext ==
  \/ \E f \in Frames : LinkOnly(Send(f))
  \/ LinkOnly(RxByte) \/ LinkOnly(IdleInterrupt) \/ LinkOnly(TxDone)
  \/ McuMain

McuSpec ==
  /\ McuInit /\ [][McuNext]_mcuVars
  /\ WF_mcuVars(LinkOnly(RxByte)) /\ WF_mcuVars(LinkOnly(IdleInterrupt))
  /\ WF_mcuVars(LinkOnly(TxDone)) /\ WF_mcuVars(McuMain)

-----------------------------------------------------------------------------
(* The task has its request to itself: while it is carrying one out, the   *)
(* handler is not running, whatever the interrupts do.                     *)
OneAtATime == place # "poll" => pc = "task"

(* The whole loop is a link of which each wait of CarUart comes to an end: *)
(* its ControlTask, a single fair step there, is here the ramps of the car.*)
LinkFair == FairSpec

(* It is a car that obeys commands one at a time: no frame, however the    *)
(* receptions overlap, changes a request that is still being carried out,  *)
(* and what a command does besides storing its parameters is what it does  *)
(* in CarControl.  Those parameters are checked ones of a paced module.    *)
CarSpec == Car!Spec

AtRest == Car!AllZero(ccr) /\ pc = "poll" /\ recv_end_flag = 0

(* A stop frame after which the line stays silent brings the car to rest,  *)
(* with nothing left to do, wherever in a ramp it found the loop, whatever *)
(* parameters torn commands have stored, and however the receptions before *)
(* it were garbled, but where the handler has taken noise of less than     *)
(* three bytes for a frame (Doomed).                                       *)
StopFrameRests ==
  \A f \in {g \in Frames : Good(g) /\ IdOf(g[4]) = "A5"} :
    Latest(f) /\ ~Doomed ~> (AtRest \/ wire # <<>>)
=============================================================================
