----------------------------- MODULE CarMcuProof -----------------------------
(***************************************************************************)
(* The composed loop of CarMcu is a behaviour of each of its halves, for   *)
(* every set of frames and all tables: what is proved of CarUart and of    *)
(* CarControl alone holds of the program they make together.               *)
(***************************************************************************)
EXTENDS CarMcu, CarUartProof

(* The commands of CarControl are those the frames and their mixtures can  *)
(* carry: every byte may stand in any place.                               *)
EveryByte ==
  /\ Ids = {"A1", "A2", "A3", "A4", "A5", "other"}
  /\ Bytes4 = Byte /\ Bytes5 = Byte

(* The handler's half of a step is a step of CarUart.                      *)
LEMMA LinkStep == [McuNext]_mcuVars => [Next]_vars
<1> SUFFICES ASSUME [McuNext]_mcuVars PROVE [Next]_vars
  OBVIOUS
<1>1. CASE UNCHANGED mcuVars
  BY <1>1 DEF mcuVars
<1>2. CASE \E f \in Frames : LinkOnly(Send(f))
  BY <1>2 DEF LinkOnly, Next
<1>3. CASE LinkOnly(RxByte) \/ LinkOnly(IdleInterrupt) \/ LinkOnly(TxDone)
  BY <1>3 DEF LinkOnly, Next
<1>4. CASE Handle
  BY <1>4 DEF Handle, LinkOnly, Next, Main
<1>5. CASE Execute
  BY <1>5 DEF Execute, Next, Main
<1>6. CASE MotorTask
  BY <1>6 DEF MotorTask, Next, Main
<1> QED
  BY <1>1, <1>2, <1>3, <1>4, <1>5, <1>6 DEF McuNext, McuMain

(* Between two steps of the task the request is safe: no step of the link  *)
(* takes the loop out of it.                                               *)
LEMMA OneAtATimeKept ==
  ASSUME OneAtATime, [McuNext]_mcuVars PROVE OneAtATime'
<1> USE DEF OneAtATime
<1>1. CASE UNCHANGED mcuVars
  BY <1>1 DEF mcuVars, vars, handler, carVars
<1>2. CASE \E f \in Frames : LinkOnly(Send(f))
  BY <1>2 DEF LinkOnly, Send, handler, carVars
<1>3. CASE LinkOnly(RxByte) \/ LinkOnly(IdleInterrupt) \/ LinkOnly(TxDone)
  BY <1>3 DEF LinkOnly, RxByte, IdleInterrupt, TxDone, handler, carVars
<1>4. CASE Handle
  <2>1. pc # "task" /\ place' = place
    BY <1>4 DEF Handle, LinkOnly, Take, SeeHeader, ClearFlag, ReadLength, ForgetLength, CopyBuffer,
       WipeBuffer, CheckFrame, SystemReset, Fetch, carVars
  <2> QED
    BY <2>1
<1>5. CASE Execute
  BY <1>5 DEF Execute, AnalyseFrame
<1>6. CASE MotorTask
  BY <1>6 DEF MotorTask, vars, handler
<1> QED
  BY <1>1, <1>2, <1>3, <1>4, <1>5, <1>6 DEF McuNext, McuMain

(* The link's type invariant gives the bytes a command is made of; when    *)
(* they are all what the buffer still holds, the command is not torn.      *)
LEMMA FetchedIsCommand ==
  ASSUME UartAssumption, EveryByte, TypeOK, AnalyseFrame, Paced => Fresh
  PROVE  Fetched \in Car!Command
<1> DEFINE read(k) == IF k \in DOMAIN fetched THEN fetched[k] ELSE 0
           motion == Car!MotionOK(read(2), read(3), read(4))
           turn == Car!TurnOK(read(2))
<1>1. \A k \in 1..6 : read(k) \in Byte
  <2>1. fetched \in Seq(Byte) /\ 0 \in Byte
    BY DEF TypeOK, Byte
  <2>2. \A k \in DOMAIN fetched : fetched[k] \in Byte
    BY <2>1
  <2> QED
    BY <2>1, <2>2
<1>2. read(1) = fetched[1] /\ fetched[1] \in Byte
  BY FetchedAll
<1>3. /\ IdOf(fetched[1]) \in Ids
      /\ IdOf(fetched[1]) = "A1" <=> fetched[1] = 161
  <2>1. CASE fetched[1] \in 161..165
    <3>1. IdOf(fetched[1]) = <<"A1", "A2", "A3", "A4", "A5">>[fetched[1] - 160]
      BY <2>1 DEF IdOf
    <3>2. fetched[1] \in {161, 162, 163, 164, 165}
      BY <2>1
    <3> QED
      BY <3>1, <3>2 DEF EveryByte
  <2>2. CASE fetched[1] \notin 161..165
    BY <2>2 DEF IdOf, EveryByte
  <2> QED
    BY <2>1, <2>2
<1>4. /\ Fetched = [id |-> IdOf(read(1)), ok |-> IF IdOf(read(1)) = "A1" THEN motion ELSE turn,
                   d4 |-> IF IdOf(read(1)) = "A1" THEN read(5) ELSE read(3), d5 |-> read(6)]
  BY DEF Fetched
<1>5. motion \in BOOLEAN /\ turn \in BOOLEAN
  BY DEF Car!MotionOK, Car!TurnOK
<1>6. Paced => (fetched[1] = 161 => read(2) = read(5) /\ read(3) = read(5) /\ read(4) = read(6))
  <2> SUFFICES ASSUME Paced, fetched[1] = 161
               PROVE  read(2) = read(5) /\ read(3) = read(5) /\ read(4) = read(6)
    OBVIOUS
  <2>1. Plan(fetched) = <<3, 4, 4, 5, 4, 5>> /\ DOMAIN fetched = 1..6
    BY FetchedAll
  <2>2. /\ fetched[2] = Data[4] /\ fetched[3] = Data[4] /\ fetched[4] = Data[5]
        /\ fetched[5] = Data[4] /\ fetched[6] = Data[5]
    <3> DEFINE plan == <<3, 4, 4, 5, 4, 5>>
    <3>1. /\ plan[2] = 4 /\ plan[3] = 4 /\ plan[4] = 5 /\ plan[5] = 4 /\ plan[6] = 5
          /\ {2, 3, 4, 5, 6} \subseteq 1..6
      OBVIOUS
    <3> HIDE DEF plan
    <3>2. \A k \in 1..6 : fetched[k] = Data[plan[k]]
      BY <2>1 DEF Fresh, plan
    <3> QED
      BY <3>1, <3>2
  <2>3. {2, 3, 4, 5, 6} \subseteq DOMAIN fetched
    BY <2>1
  <2> QED
    BY <2>2, <2>3
<1>7. Paced => (fetched[1] # 161 => read(2) = read(3))
  <2> SUFFICES ASSUME Paced, fetched[1] # 161 PROVE read(2) = read(3)
    OBVIOUS
  <2>1. CASE Plan(fetched) = <<3, 4, 4>> /\ DOMAIN fetched = 1..3
    <3>1. <<3, 4, 4>>[2] = 4 /\ <<3, 4, 4>>[3] = 4 /\ 2 \in 1..3 /\ 3 \in 1..3
      OBVIOUS
    <3>2. fetched[2] = Data[4] /\ fetched[3] = Data[4]
      BY <2>1, <3>1 DEF Fresh
    <3> QED
      BY <2>1, <3>1, <3>2
  <2>2. CASE DOMAIN fetched = 1..1
    <3>1. 2 \notin DOMAIN fetched /\ 3 \notin DOMAIN fetched
      BY <2>2
    <3> QED
      BY <3>1
  <2> QED
    BY <2>1, <2>2, FetchedAll
<1> HIDE DEF read
<1>8. Fetched \in [id : Ids, ok : BOOLEAN, d4 : Bytes4, d5 : Bytes5]
  <2>1. /\ read(3) \in Byte /\ read(5) \in Byte /\ read(6) \in Byte
        /\ IdOf(read(1)) \in Ids
    BY <1>1, <1>2, <1>3
  <2> HIDE DEF motion, turn
  <2> QED
    BY <1>4, <1>5, <2>1 DEF EveryByte
<1>9. Paced => Fetched.ok = Car!Valid(Fetched)
  <2> SUFFICES ASSUME Paced PROVE Fetched.ok = Car!Valid(Fetched)
    OBVIOUS
  <2>1. CASE fetched[1] = 161
    <3>1. /\ Fetched.id = "A1" /\ Fetched.ok = motion
          /\ Fetched.d4 = read(5) /\ Fetched.d5 = read(6)
      <4> HIDE DEF motion, turn
      <4> QED
        BY <1>2, <1>3, <1>4, <2>1
    <3>2. motion = Car!MotionOK(read(5), read(5), read(6))
      BY <1>6, <2>1
    <3>3. Car!Valid(Fetched) = Car!MotionOK(read(5), read(5), read(6))
      BY <3>1, Zenon DEF Car!Valid
    <3> HIDE DEF motion
    <3> QED
      BY <3>1, <3>2, <3>3
  <2>2. CASE fetched[1] # 161
    <3>1. Fetched.id # "A1" /\ Fetched.ok = turn /\ Fetched.d4 = read(3)
      <4> HIDE DEF motion, turn
      <4> QED
        BY <1>2, <1>3, <1>4, <2>2
    <3>2. turn = Car!TurnOK(read(3))
      BY <1>7, <2>2
    <3>3. Car!Valid(Fetched) = Car!TurnOK(read(3))
      BY <3>1, Zenon DEF Car!Valid
    <3> HIDE DEF turn
    <3> QED
      BY <3>1, <3>2, <3>3
  <2> QED
    BY <2>1, <2>2
<1> QED
  BY <1>8, <1>9 DEF Car!Command

(* The car's half of a step is a step of CarControl.                       *)
LEMMA CarStep ==
  ASSUME UartAssumption, EveryByte, TypeOK, Paced => Talk, OneAtATime, [McuNext]_mcuVars
  PROVE  [Car!Next]_(Car!vars)
<1>0. UNCHANGED carVars => UNCHANGED Car!vars
  BY DEF carVars, demand, wheels, Car!vars, Car!motorVars, Car!globals,
         Car!stopLocals, Car!runLocals, Car!turnLocals
<1>1. CASE UNCHANGED mcuVars
  BY <1>0, <1>1 DEF mcuVars
<1>2. CASE \E f \in Frames : LinkOnly(Send(f))
  BY <1>0, <1>2 DEF LinkOnly
<1>3. CASE LinkOnly(RxByte) \/ LinkOnly(IdleInterrupt) \/ LinkOnly(TxDone)
  BY <1>0, <1>3 DEF LinkOnly
<1>4. CASE Handle
  BY <1>0, <1>4 DEF Handle, LinkOnly
<1>5. CASE Execute
  <2>1. place = "poll"
    BY <1>5 DEF Execute, AnalyseFrame, OneAtATime
  <2>2. Fetched \in Car!Command
    <3>1. AnalyseFrame
      BY <1>5 DEF Execute
    <3>2. Talk => Fresh
      BY <3>1 DEF AnalyseFrame, Talk, Resting, Arriving, Arrived, Handling, Faulted
    <3> QED
      BY <3>1, <3>2, FetchedIsCommand
  <2>3. Car!ControlProtocolAnalysis(Fetched) /\ place' = "task" /\ UNCHANGED wheels
    BY <1>5 DEF Execute
  <2>4. UNCHANGED <<ccr, cw, step, Car!stopLocals, Car!runLocals, Car!turnLocals>>
    BY <2>3 DEF wheels, Car!stopLocals, Car!runLocals, Car!turnLocals
  <2>5. Car!PollCommand
    BY <2>1, <2>2, <2>3, <2>4 DEF Car!PollCommand
  <2> QED
    BY <2>5 DEF Car!Next
<1>6. CASE MotorTask
  BY <1>0, <1>6 DEF MotorTask, Car!Next
<1> QED
  BY <1>1, <1>2, <1>3, <1>4, <1>5, <1>6 DEF McuNext, McuMain

(* The composed loop is a link as CarUart has it: nothing the ramps do     *)
(* shows there but as the time ControlTask takes.                          *)
THEOREM McuIsLink == McuSpec => Spec
BY LinkStep, PTL DEF McuSpec, McuInit, Spec

(* No request is overwritten while the task carries it out.                *)
THEOREM McuOneAtATime == McuSpec => []OneAtATime
<1>1. McuInit => OneAtATime
  BY DEF McuInit, OneAtATime, Car!Init, Car!MotorInit
<1> QED
  BY <1>1, OneAtATimeKept, PTL DEF McuSpec

(* The composed loop is a car that obeys commands one at a time, whatever  *)
(* the frames, their timing and the mixtures the buffer makes of them; and *)
(* if the BLE module sends frames only and waits for its answers, none of  *)
(* the commands is torn: what is stored of each is what was checked.       *)
THEOREM McuIsCar ==
  ASSUME EveryByte, Paced => ProperFrames PROVE McuSpec => CarSpec
<1>1. McuInit => Car!Init
  BY DEF McuInit
<1>2. TypeOK /\ (Paced => Talk) /\ OneAtATime /\ [McuNext]_mcuVars => [Car!Next]_(Car!vars)
  BY CarStep, UartAssumption
<1>3. McuSpec => []TypeOK
  BY McuIsLink, UartTypeCorrect, PTL
<1>4. McuSpec => [](Paced => Talk)
  <2>1. CASE Paced
    <3>1. Paced = TRUE
      BY <2>1, UartAssumption
    <3>2. Spec => []Talk
      BY <2>1, <3>1, TalkInvariant
    <3>3. Talk => (Paced => Talk)
      OBVIOUS
    <3> QED
      BY <3>2, <3>3, McuIsLink, PTL
  <2>2. CASE ~Paced
    <3>1. Paced => Talk
      BY <2>2
    <3> QED
      BY <3>1, PTL
  <2> QED
    BY <2>1, <2>2
<1> QED
  BY <1>1, <1>2, <1>3, <1>4, McuOneAtATime, PTL DEF McuSpec, CarSpec, Car!Spec
=============================================================================
