----------------------------- MODULE CarUartProof -----------------------------
(***************************************************************************)
(* Proofs about the UART link (CarUart), for every buffer size, set of     *)
(* frames and discipline of the BLE module.                                *)
(***************************************************************************)
EXTENDS CarUart, TLAPS

LEMMA Sizes ==
  /\ MaxSize \in Nat /\ MaxSize > 6
  /\ 0 \in Index /\ Blank \in [Index -> Byte] /\ 0 \in Byte
  /\ \A f \in Frames : f \in Seq(Byte)
  BY UartAssumption DEF Index, Blank, Byte

(* The analysis reads the ID first, then what the command it names needs.  *)
LEMMA PlanShape ==
  ASSUME NEW f
  PROVE  /\ Plan(f) \in {<<3>>, <<3, 4, 4>>, <<3, 4, 4, 5, 4, 5>>}
         /\ Len(Plan(f)) \in {1, 3, 6} /\ Plan(f)[1] = 3
         /\ \A k \in 1..Len(Plan(f)) : Plan(f)[k] \in 3..5
         /\ Len(<<>>) = 0 /\ Len(<<>>) <= Len(Plan(<<>>))
<1>1. Plan(f) \in {<<3>>, <<3, 4, 4>>, <<3, 4, 4, 5, 4, 5>>}
  <2>1. CASE f = <<>>
    BY <2>1 DEF Plan
  <2>2. CASE f # <<>>
    <3>1. Plan(f) = Reads(f[1])
      BY <2>2 DEF Plan
    <3>2. CASE f[1] = 161
      BY <3>1, <3>2 DEF Reads
    <3>3. CASE f[1] # 161 /\ f[1] \in {162, 163}
      BY <3>1, <3>3 DEF Reads
    <3>4. CASE f[1] # 161 /\ f[1] \notin {162, 163}
      BY <3>1, <3>4 DEF Reads
    <3> QED
      BY <3>2, <3>3, <3>4
  <2> QED
    BY <2>1, <2>2
<1>2. Len(<<3>>) = 1 /\ Len(<<3, 4, 4>>) = 3 /\ Len(<<3, 4, 4, 5, 4, 5>>) = 6
  OBVIOUS
<1>3. Plan(<<>>) = <<3>> /\ Len(<<>>) = 0
  BY DEF Plan
<1>4. CASE Plan(f) = <<3>>
  BY <1>1, <1>2, <1>3, <1>4
<1>5. CASE Plan(f) = <<3, 4, 4>>
  BY <1>1, <1>2, <1>3, <1>5
<1>6. CASE Plan(f) = <<3, 4, 4, 5, 4, 5>>
  BY <1>1, <1>2, <1>3, <1>6
<1> QED
  BY <1>1, <1>4, <1>5, <1>6

LEMMA ReplyType ==
  ASSUME NEW id PROVE ReplyTo(id) \in Byte
  BY DEF ReplyTo, Byte, NoReply

(* What the handler works on is a buffer, whichever board.                 *)
LEMMA DataType == TypeOK => Data \in [Index -> Byte]
  BY DEF TypeOK, Data

LEMMA TransmitType ==
  ASSUME TypeOK, NEW id \in Byte, Transmit(id)
  PROVE  sending' \in Byte /\ packed' \in Byte
  BY DEF TypeOK, Transmit

LEMMA InitType == Init => TypeOK
  BY Sizes, UartAssumption, PlanShape DEF Init, TypeOK, Place, NoReply

(* The interrupts and the BLE module.                                      *)
LEMMA LinkType ==
  ASSUME TypeOK, (\E f \in Frames : Send(f)) \/ RxByte \/ IdleInterrupt \/ TxDone
  PROVE  TypeOK'
<1>1. CASE \E f \in Frames : Send(f)
  <2>1. PICK f \in Frames : Send(f)
    BY <1>1
  <2>2. f \in Seq(Byte) /\ waiting' \in BOOLEAN
    BY <2>1, Sizes DEF Send
  <2> QED
    BY <2>1, <2>2 DEF Send, TypeOK, handler, tx
<1>2. CASE RxByte
  <2>1. wire' \in Seq(Byte) /\ Head(wire) \in Byte
    BY <1>2 DEF RxByte, TypeOK
  <2>2. dma' \in 0..MaxSize /\ rx_buffer' \in [Index -> Byte]
    BY <1>2, <2>1, Sizes DEF RxByte, TypeOK, Index
  <2> QED
    BY <1>2, <2>1, <2>2 DEF RxByte, TypeOK, handler, tx
<1>3. CASE IdleInterrupt
  <2>1. dma \in Nat /\ dma % MaxSize \in Index
    BY Sizes DEF TypeOK, Index
  <2> QED
    BY <1>3, <2>1, Sizes DEF IdleInterrupt, ReceivedLength, TypeOK, handler, NoReply
<1>4. CASE TxDone
  <2>1. waiting' \in BOOLEAN
    BY <1>4 DEF TxDone, TypeOK
  <2> QED
    BY <1>4, <2>1, Sizes DEF TxDone, TypeOK, handler, NoReply
<1> QED
  BY <1>1, <1>2, <1>3, <1>4

(* The main loop.                                                          *)
LEMMA CheckFrameType ==
  ASSUME TypeOK, CheckFrame
  PROVE  TypeOK'
<1>1. CASE copies /\ my_cal_len = 0
  BY <1>1, Sizes, PlanShape DEF CheckFrame, SystemReset, TypeOK, NoReply, Place
<1>2. CASE ~(copies /\ my_cal_len = 0)
  <2>1. UNCHANGED <<copies, link, rx_buffer, rx_len, recv_end_flag, my_cal_len, temp_buf,
                    fetched, done>>
    BY <1>2 DEF CheckFrame
  <2>2. /\ pc' \in Place
        /\ UNCHANGED tx \/ Transmit(ChecksumError)
    BY <1>2 DEF CheckFrame, Place
  <2>3. ChecksumError \in Byte
    BY DEF ChecksumError, Byte
  <2>4. sending' \in Byte /\ packed' \in Byte
    BY <2>2, <2>3, TransmitType DEF TypeOK, tx
  <2> QED
    BY <2>1, <2>2, <2>4 DEF TypeOK, link
<1> QED
  BY <1>1, <1>2

(* A read appends the byte of a cell, as it is or as it was read before,   *)
(* and what is planned for the reads that have been made stays the same.   *)
LEMMA FetchedByte ==
  ASSUME TypeOK, Fetch
  PROVE  \E byte \in Byte :
           LET cell == Plan(fetched)[Len(fetched) + 1]
           IN  /\ fetched' = Append(fetched, byte)
               /\ \/ byte = Data[cell]
                  \/ \E j \in DOMAIN fetched : byte = fetched[j] /\ Plan(fetched)[j] = cell
               /\ \A k \in 1..Len(fetched) + 1 : Plan(fetched')[k] = Plan(fetched)[k]
               /\ Len(fetched) + 1 <= Len(Plan(fetched'))
<1> DEFINE n == Len(fetched)
           cell == Plan(fetched)[n + 1]
           kept == {fetched[k] : k \in {j \in DOMAIN fetched : Plan(fetched)[j] = cell}}
<1>1. fetched \in Seq(Byte) /\ n \in Nat /\ n < Len(Plan(fetched))
  BY DEF TypeOK, Fetch
<1>2. cell \in Index
  <2>1. cell \in 3..5
    BY <1>1, PlanShape
  <2> QED
    BY <2>1, Sizes DEF Index
<1>3. PICK byte \in kept \cup {Data[cell]} : fetched' = Append(fetched, byte)
  BY DEF Fetch
<1>4. byte \in Byte
  BY <1>1, <1>2, <1>3, DataType
<1>5. byte = Data[cell] \/ \E j \in DOMAIN fetched : byte = fetched[j] /\ Plan(fetched)[j] = cell
  BY <1>3
<1> HIDE DEF cell, kept
<1>6. fetched' # <<>> /\ Len(fetched') = n + 1
      /\ \A k \in 1..n : fetched'[k] = fetched[k]
  BY <1>1, <1>3, <1>4
<1>7. (\A k \in 1..n + 1 : Plan(fetched')[k] = Plan(fetched)[k]) /\ n + 1 <= Len(Plan(fetched'))
  <2>1. CASE fetched = <<>>
    <3>1. n = 0
      BY <2>1
    <3>2. Plan(fetched')[1] = 3 /\ Plan(fetched)[1] = 3 /\ Len(Plan(fetched')) \in {1, 3, 6}
      BY PlanShape
    <3> QED
      BY <3>1, <3>2
  <2>2. CASE fetched # <<>>
    <3>1. fetched'[1] = fetched[1]
      BY <1>1, <1>6, <2>2
    <3>2. Plan(fetched') = Plan(fetched)
      BY <1>6, <2>2, <3>1 DEF Plan
    <3>3. Len(Plan(fetched)) \in {1, 3, 6}
      BY PlanShape
    <3> QED
      BY <1>1, <3>2, <3>3
  <2> QED
    BY <2>1, <2>2
<1> QED
  BY <1>3, <1>4, <1>5, <1>7 DEF cell

LEMMA FetchType ==
  ASSUME TypeOK, Fetch
  PROVE  TypeOK'
<1>1. PICK byte \in Byte : /\ fetched' = Append(fetched, byte)
                           /\ Len(fetched) + 1 <= Len(Plan(fetched'))
  BY FetchedByte
<1>2. fetched' \in Seq(Byte) /\ Len(fetched') = Len(fetched) + 1
  BY <1>1 DEF TypeOK
<1> QED
  BY <1>1, <1>2 DEF Fetch, TypeOK, link, tx

(* When all is read, what was read is the ID and the parameters, some of   *)
(* them twice.                                                             *)
LEMMA FetchedAll ==
  ASSUME TypeOK, AnalyseFrame
  PROVE  /\ fetched # <<>> /\ fetched[1] \in Byte /\ 1 \in DOMAIN fetched
         /\ \/ /\ fetched[1] = 161 /\ Plan(fetched) = <<3, 4, 4, 5, 4, 5>>
               /\ Len(fetched) = 6 /\ DOMAIN fetched = 1..6
            \/ /\ fetched[1] \in {162, 163} /\ Plan(fetched) = <<3, 4, 4>>
               /\ Len(fetched) = 3 /\ DOMAIN fetched = 1..3
            \/ /\ fetched[1] \notin {161, 162, 163} /\ Plan(fetched) = <<3>>
               /\ Len(fetched) = 1 /\ DOMAIN fetched = 1..1
<1>1. fetched \in Seq(Byte) /\ Len(fetched) = Len(Plan(fetched))
  BY DEF TypeOK, AnalyseFrame
<1>2. Len(Plan(fetched)) \in {1, 3, 6}
  BY PlanShape
<1>3. fetched # <<>> /\ fetched[1] \in Byte /\ DOMAIN fetched = 1..Len(fetched)
  BY <1>1, <1>2
<1>4. Plan(fetched) = Reads(fetched[1])
  BY <1>3 DEF Plan
<1>5. Len(<<3>>) = 1 /\ Len(<<3, 4, 4>>) = 3 /\ Len(<<3, 4, 4, 5, 4, 5>>) = 6
  OBVIOUS
<1>6. CASE fetched[1] = 161
  <2>1. Plan(fetched) = <<3, 4, 4, 5, 4, 5>>
    BY <1>4, <1>6 DEF Reads
  <2> QED
    BY <1>1, <1>3, <1>5, <1>6, <2>1
<1>7. CASE fetched[1] \in {162, 163}
  <2>1. Plan(fetched) = <<3, 4, 4>>
    BY <1>4, <1>7 DEF Reads
  <2> QED
    BY <1>1, <1>3, <1>5, <1>7, <2>1
<1>8. CASE fetched[1] \notin {161, 162, 163}
  <2>1. Plan(fetched) = <<3>>
    BY <1>4, <1>8 DEF Reads
  <2> QED
    BY <1>1, <1>3, <1>5, <1>8, <2>1
<1> QED
  BY <1>6, <1>7, <1>8

LEMMA AnalyseFrameType ==
  ASSUME TypeOK, AnalyseFrame
  PROVE  TypeOK'
<1>1. CommandIn(fetched) \in Seq(Byte)
  <2>1. fetched \in Seq(Byte) /\ \A k \in 1..Len(fetched) : fetched[k] \in Byte
    BY DEF TypeOK
  <2>2. CASE Len(fetched) = 6
    <3>1. fetched[1] \in Byte /\ fetched[5] \in Byte /\ fetched[6] \in Byte
      BY <2>1, <2>2, 1 \in 1..6, 5 \in 1..6, 6 \in 1..6
    <3>2. CommandIn(fetched) = <<fetched[1], fetched[5], fetched[6]>>
      BY <2>2 DEF CommandIn
    <3> QED
      BY <3>1, <3>2
  <2>3. CASE Len(fetched) = 3
    <3>1. fetched[1] \in Byte /\ fetched[3] \in Byte
      BY <2>1, <2>3, 1 \in 1..3, 3 \in 1..3
    <3>2. CommandIn(fetched) = <<fetched[1], fetched[3]>>
      BY <2>3 DEF CommandIn
    <3> QED
      BY <3>1, <3>2
  <2>4. CASE Len(fetched) = 1
    <3>1. fetched[1] \in Byte
      BY <2>1, <2>4
    <3>2. CommandIn(fetched) = <<fetched[1]>>
      BY <2>4 DEF CommandIn
    <3> QED
      BY <3>1, <3>2
  <2> QED
    BY <2>2, <2>3, <2>4, FetchedAll
<1>2. done' \in Seq(Seq(Byte))
  BY <1>1 DEF AnalyseFrame, TypeOK
<1>3. sending' \in Byte /\ packed' \in Byte
  BY ReplyType, TransmitType DEF AnalyseFrame, TypeOK, tx
<1>4. fetched' \in Seq(Byte) /\ Len(fetched') <= Len(Plan(fetched'))
  BY PlanShape DEF AnalyseFrame
<1> QED
  BY <1>2, <1>3, <1>4 DEF AnalyseFrame, TypeOK, link, Place

LEMMA HandlerType ==
  ASSUME TypeOK, Take \/ ControlTask
  PROVE  TypeOK'
<1>1. CASE SeeHeader
  BY <1>1, Sizes DEF SeeHeader, TypeOK, link, tx, Place
<1>2. CASE ClearFlag
  BY <1>2 DEF ClearFlag, TypeOK, link, tx, Place
<1>3. CASE ReadLength
  BY <1>3 DEF ReadLength, TypeOK, link, tx, Place
<1>4. CASE ForgetLength
  BY <1>4, Sizes DEF ForgetLength, TypeOK, link, tx, Place
<1>5. CASE CopyBuffer
  BY <1>5, Sizes DEF CopyBuffer, TypeOK, link, tx, Place
<1>6. CASE WipeBuffer
  BY <1>6, Sizes DEF WipeBuffer, TypeOK, link, tx, Place
<1>7. CASE ControlTask
  BY <1>7, Sizes DEF ControlTask, TypeOK, link, tx, Place
<1> QED
  BY <1>1, <1>2, <1>3, <1>4, <1>5, <1>6, <1>7 DEF Take

LEMMA NextType == TypeOK /\ [Next]_vars => TypeOK'
<1> SUFFICES ASSUME TypeOK, [Next]_vars PROVE TypeOK'
  OBVIOUS
<1>1. CASE UNCHANGED vars
  BY <1>1 DEF vars, link, handler, tx, TypeOK
<1>2. CASE Next
  BY <1>2, LinkType, CheckFrameType, FetchType, AnalyseFrameType, HandlerType DEF Next, Main
<1> QED
  BY <1>1, <1>2

-----------------------------------------------------------------------------
(* Whatever the BLE module sends and whenever: the DMA never writes        *)
(* outside rx_buffer, and the length the handler works with, a uint8,      *)
(* never passes it either.                                                 *)
THEOREM UartTypeCorrect == Spec => []TypeOK
  BY InitType, NextType, PTL DEF Spec

(* What the analysis has read is forgotten when it is done.                *)
NothingKept == pc # "analyse" => fetched = <<>>

LEMMA NothingKeptStep == NothingKept /\ [Next]_vars => NothingKept'
<1> SUFFICES ASSUME NothingKept, [Next]_vars PROVE NothingKept'
  OBVIOUS
<1> USE DEF NothingKept
<1>1. CASE (\E f \in Frames : Send(f)) \/ RxByte \/ IdleInterrupt \/ TxDone \/ UNCHANGED vars
  BY <1>1 DEF Send, RxByte, IdleInterrupt, TxDone, handler, vars
<1>2. CASE Take
  BY <1>2 DEF Take, SeeHeader, ClearFlag, ReadLength, ForgetLength, CopyBuffer, WipeBuffer
<1>3. CASE CheckFrame \/ AnalyseFrame \/ ControlTask
  BY <1>3 DEF CheckFrame, SystemReset, AnalyseFrame, ControlTask
<1>4. CASE Fetch
  BY <1>4 DEF Fetch
<1> QED
  BY <1>1, <1>2, <1>3, <1>4 DEF Next, Main

(* What has been read is still what the handler's buffer holds.            *)
Fresh == \A k \in DOMAIN fetched : fetched[k] = Data[Plan(fetched)[k]]

LEMMA FetchFresh ==
  ASSUME TypeOK, Fetch, Fresh, Data' = Data
  PROVE  Fresh'
<1> DEFINE n == Len(fetched)
           cell == Plan(fetched)[n + 1]
<1>1. PICK byte \in Byte :
        /\ fetched' = Append(fetched, byte)
        /\ byte = Data[cell] \/ \E j \in DOMAIN fetched : byte = fetched[j] /\ Plan(fetched)[j] = cell
        /\ \A k \in 1..n + 1 : Plan(fetched')[k] = Plan(fetched)[k]
  BY FetchedByte
<1>2. fetched \in Seq(Byte) /\ n \in Nat
  BY DEF TypeOK
<1>3. byte = Data[cell]
  BY <1>1 DEF Fresh
<1> HIDE DEF cell
<1>4. /\ DOMAIN fetched' = 1..n + 1 /\ DOMAIN fetched = 1..n
      /\ fetched'[n + 1] = byte /\ \A k \in 1..n : fetched'[k] = fetched[k]
  BY <1>1, <1>2
<1>5. SUFFICES ASSUME NEW k \in 1..n + 1 PROVE fetched'[k] = Data[Plan(fetched)[k]]
  BY <1>1, <1>4 DEF Fresh
<1>6. CASE k = n + 1
  BY <1>3, <1>4, <1>6 DEF cell
<1>7. CASE k \in 1..n
  BY <1>4, <1>7 DEF Fresh
<1> QED
  BY <1>2, <1>6, <1>7

(* On my_l151_motor, whatever the BLE module sends and at whatever moment  *)
(* interrupts overwrite rx_buffer, the command executed is taken from the  *)
(* very bytes that were checked, at every read.  On my_mcu TLC refutes     *)
(* this.                                                                   *)
THEOREM CopyIsChecked ==
  ASSUME Copying = {TRUE}
  PROVE  Spec => []CheckedIsExecuted
<1> DEFINE Inv == copies = TRUE /\ NothingKept /\ CheckedIsExecuted
<1>1. Init => Inv
  BY DEF Init, CheckedIsExecuted, NothingKept
<1>2. ASSUME TypeOK, Inv, [Next]_vars PROVE Inv'
  <2>1. copies' = TRUE
    BY <1>2 DEF Next, Main, Send, RxByte, IdleInterrupt, TxDone, Take, SeeHeader, ClearFlag,
        ReadLength, ForgetLength, CopyBuffer, WipeBuffer, CheckFrame, SystemReset, Fetch,
        AnalyseFrame, ControlTask, vars
  <2>0. NothingKept'
    BY <1>2, NothingKeptStep
  <2> SUFFICES CheckedIsExecuted'
    BY <2>0, <2>1
  <2>2. ASSUME UNCHANGED <<pc, temp_buf, my_cal_len, fetched>> PROVE CheckedIsExecuted'
    BY <1>2, <2>1, <2>2 DEF CheckedIsExecuted, Data, CheckOK
  <2>3. ASSUME pc' # "analyse" PROVE CheckedIsExecuted'
    BY <2>3 DEF CheckedIsExecuted
  <2>4. CASE (\E f \in Frames : Send(f)) \/ RxByte \/ IdleInterrupt \/ TxDone \/ UNCHANGED vars
    BY <2>2, <2>4 DEF Send, RxByte, IdleInterrupt, TxDone, handler, vars
  <2>5. CASE Take
    <3>1. pc' # "analyse"
      BY <2>5 DEF Take, SeeHeader, ClearFlag, ReadLength, ForgetLength, CopyBuffer, WipeBuffer
    <3> QED
      BY <2>3, <3>1
  <2>6. CASE AnalyseFrame \/ ControlTask
    BY <2>3, <2>6 DEF AnalyseFrame, ControlTask
  <2>7. CASE CheckFrame
    <3>1. CASE pc' # "analyse"
      BY <2>3, <3>1
    <3>2. CASE pc' = "analyse"
      <4>1. /\ CheckOK(Data, my_cal_len)
            /\ UNCHANGED <<my_cal_len, temp_buf>> /\ pc = "check" /\ fetched' = fetched
        BY <2>7, <3>2 DEF CheckFrame, SystemReset
      <4>2. Data' = Data
        BY <1>2, <2>1, <4>1 DEF Data
      <4>3. fetched' = <<>> /\ DOMAIN <<>> = {}
        BY <1>2, <4>1 DEF NothingKept
      <4> QED
        BY <4>1, <4>2, <4>3 DEF CheckedIsExecuted, CheckOK
    <3> QED
      BY <3>1, <3>2
  <2>8. CASE Fetch
    <3>1. pc = "analyse" /\ UNCHANGED <<copies, temp_buf, my_cal_len>>
      BY <2>8 DEF Fetch
    <3>2. Data' = Data
      BY <1>2, <3>1 DEF Data
    <3>3. CheckOK(Data', my_cal_len')
      BY <1>2, <3>1, <3>2 DEF CheckedIsExecuted
    <3>4. Fresh'
      BY <1>2, <2>8, <3>1, <3>2, FetchFresh DEF CheckedIsExecuted, Fresh
    <3> QED
      BY <3>3, <3>4 DEF CheckedIsExecuted, Fresh
  <2> QED
    BY <1>2, <2>4, <2>5, <2>6, <2>7, <2>8 DEF Next, Main
<1>3. Inv => CheckedIsExecuted
  OBVIOUS
<1> QED
  BY <1>1, <1>2, <1>3, UartTypeCorrect, PTL DEF Spec

-----------------------------------------------------------------------------
(* A BLE module that waits for its answers, and sends frames only (good or *)
(* damaged, but with a header and more than four bytes; of line noise with *)
(* another header recv_end_flag would be left set, and the handler could   *)
(* take up the next frame while it is still arriving).  Then what goes on  *)
(* is a conversation, of which every state belongs to one of five phases;  *)
(* each knows where the bytes of the last frame are.                       *)

ProperFrames == \A f \in Frames : Len(f) > 4 /\ f[1] = Header /\ f[2] = Header

Proper(f) == f \in Seq(Byte) /\ Len(f) > 4 /\ f[1] = Header /\ f[2] = Header

(* The length the handler is told, 0 when the frame fills the buffer.      *)
LengthOf(f) == IF Len(f) < MaxSize THEN Len(f) ELSE 0

(* The first n cells of a buffer are the frame's.                          *)
Holds(b, f, n) == \A i \in 0..n - 1 : b[i] = f[i + 1]

Unsent == sending = NoReply /\ packed = NoReply
Silence == wire = <<>> /\ dma = 0

(* The frame has been dealt with, be it that its answer is being sent.     *)
Resting ==
  /\ Silence /\ recv_end_flag = 0 /\ pc \in {"poll", "task"}
  /\ packed = sending
  /\ sending # NoReply => waiting /\ sending = AnswerTo(frame)
  /\ ExecutedOnce

(* The frame is arriving, with the loop perhaps still in a ramp.           *)
Arriving ==
  /\ recv_end_flag = 0 /\ pc \in {"poll", "task"}
  /\ waiting /\ Proper(frame) /\ Unsent /\ done = <<>>
  /\ Len(wire) <= Len(frame)
  /\ \A i \in 1..Len(wire) : wire[i] = frame[Len(frame) - Len(wire) + i]
  /\ dma = IF Len(frame) - Len(wire) < MaxSize THEN Len(frame) - Len(wire) ELSE MaxSize
  /\ Holds(rx_buffer, frame, dma)

(* It has arrived, and is not taken up or only just.                       *)
Arrived ==
  /\ Silence /\ recv_end_flag = 1 /\ pc \in {"poll", "task", "clear"}
  /\ waiting /\ Proper(frame) /\ Unsent /\ done = <<>>
  /\ rx_len = LengthOf(frame)
  /\ Holds(rx_buffer, frame, IF Len(frame) < MaxSize THEN Len(frame) ELSE MaxSize)

(* It is being handled: the bytes are in the buffer the handler reads, and *)
(* a command is analysed only when their checksum is right.  Only the L151 *)
(* has a length to forget, a copy to make and a buffer to wipe.            *)
Handling ==
  /\ Silence /\ recv_end_flag = 0
  /\ pc \in {"len", "zero", "copy", "wipe", "check", "analyse"}
  /\ waiting /\ Proper(frame) /\ Unsent /\ done = <<>>
  /\ pc \in {"zero", "copy", "wipe"} => copies
  /\ pc = "len" => rx_len = LengthOf(frame)
  /\ pc # "len" => my_cal_len = LengthOf(frame)
  /\ pc \in {"len", "zero", "copy"} => Holds(rx_buffer, frame, LengthOf(frame))
  /\ pc \in {"wipe", "check", "analyse"} => Holds(Data, frame, LengthOf(frame))
  /\ pc = "analyse" => Len(frame) < MaxSize /\ CheckOK(Data, Len(frame)) /\ Fresh

Faulted == Silence /\ pc = "fault" /\ waiting /\ Unsent /\ done = <<>>

Talk == TypeOK /\ NothingKept /\ (Resting \/ Arriving \/ Arrived \/ Handling \/ Faulted)

(* The checksum of a buffer that holds a frame is the frame's.             *)
LEMMA HeldIsChecked ==
  ASSUME NEW f, Proper(f), NEW b, Len(f) < MaxSize, Holds(b, f, Len(f))
  PROVE  CheckOK(b, Len(f)) <=> Good(f)
<1> DEFINE r == Received(f)
<1>1. Len(f) \in Nat /\ Len(f) > 4 /\ MaxSize \in Nat
  BY Sizes DEF Proper
<1>2. \A i \in 0..Len(f) - 1 : i \in Index /\ i < Len(f) /\ b[i] = f[i + 1]
  BY <1>1 DEF Holds, Index
<1>3. \A i \in 0..Len(f) - 1 : r[i] = f[i + 1]
  BY <1>2 DEF Received
<1> HIDE DEF r
<1>4. Cells(b, Len(f)) = Cells(r, Len(f))
  <2>1. \A i \in 3..Len(f) - 1 : b[i] = r[i]
    BY <1>1, <1>2, <1>3
  <2> QED
    BY <2>1 DEF Cells
<1>5. CheckOK(b, Len(f)) <=> CheckOK(r, Len(f))
  BY <1>4 DEF CheckOK
<1>6. r[0] = f[1] /\ r[1] = f[2]
  BY <1>1, <1>3
<1>7. HeaderOK(r)
  BY <1>6 DEF HeaderOK, Proper
<1> QED
  BY <1>5, <1>7 DEF Good, r

LEMMA TalkInit == Init => Talk
<1> SUFFICES ASSUME Init PROVE Talk
  OBVIOUS
<1>1. Len(done) = 0 /\ done = <<>>
  BY DEF Init
<1>2. ExecutedOnce
  BY <1>1 DEF ExecutedOnce
<1>3. Resting
  BY <1>2 DEF Init, Resting, Silence
<1>4. NothingKept
  BY DEF Init, NothingKept
<1> QED
  BY <1>3, <1>4, InitType DEF Talk

LEMMA TalkSend ==
  ASSUME Paced = TRUE, ProperFrames, Talk, NEW f \in Frames, Send(f)
  PROVE  Arriving'
<1>1. Proper(f) /\ Len(f) \in Nat
  BY Sizes DEF ProperFrames, Proper
<1>2. ~waiting /\ dma = 0 /\ wire = <<>>
  BY DEF Send
<1>3. Resting /\ Unsent
  BY <1>2 DEF Talk, Resting, Arriving, Arrived, Handling, Faulted, Unsent
<1>4. waiting' = TRUE /\ wire' = f /\ frame' = f /\ done' = <<>>
      /\ UNCHANGED <<dma, rx_buffer, recv_end_flag, pc, tx>>
  <2>1. Len(f) > 4 /\ f[1] = Header /\ f[2] = Header
    BY <1>1 DEF Proper
  <2>2. waiting' = (Paced /\ Len(f) > 4 /\ f[1] = Header /\ f[2] = Header)
    BY DEF Send
  <2>3. waiting' = TRUE
    BY <2>1, <2>2
  <2> QED
    BY <2>3 DEF Send, handler
<1>5. Holds(rx_buffer', f, dma')
  BY <1>2, <1>4 DEF Holds
<1>6. recv_end_flag' = 0 /\ pc' \in {"poll", "task"} /\ Unsent'
  BY <1>3, <1>4 DEF Resting, Unsent, tx
<1>7. \A i \in 1..Len(wire') : wire'[i] = frame'[Len(frame') - Len(wire') + i]
  BY <1>1, <1>4
<1>8. dma' = IF Len(frame') - Len(wire') < MaxSize THEN Len(frame') - Len(wire') ELSE MaxSize
  BY <1>1, <1>2, <1>4, Sizes
<1> QED
  BY <1>1, <1>4, <1>5, <1>6, <1>7, <1>8 DEF Arriving

LEMMA TalkReceive ==
  ASSUME Talk, RxByte
  PROVE  Arriving'
<1>1. wire # <<>> /\ wire \in Seq(Byte) /\ Len(wire) \in Nat /\ Len(wire) > 0
      /\ rx_buffer \in [Index -> Byte] /\ MaxSize \in Nat /\ MaxSize > 0
  BY Sizes DEF RxByte, Talk, TypeOK
<1>2. Arriving
  BY <1>1 DEF Talk, Resting, Arrived, Handling, Faulted, Silence
<1> DEFINE n == Len(frame) - Len(wire)
<1>3. /\ Proper(frame) /\ Len(frame) \in Nat /\ n \in Nat
      /\ wire[1] = frame[n + 1]
      /\ dma = IF n < MaxSize THEN n ELSE MaxSize
  BY <1>1, <1>2 DEF Arriving, Proper
<1>4. /\ Len(wire') = Len(wire) - 1 /\ Head(wire) = wire[1]
      /\ \A i \in 1..Len(wire') : wire'[i] = wire[i + 1]
  BY <1>1 DEF RxByte
<1>5. UNCHANGED <<frame, waiting, recv_end_flag, pc, sending, packed, done>>
  BY DEF RxByte, handler, tx
<1>6. Len(frame) - Len(wire') = n + 1
  BY <1>1, <1>3, <1>4
<1>7. Len(wire') <= Len(frame')
  BY <1>1, <1>3, <1>4, <1>5
<1>8. \A i \in 1..Len(wire') : wire'[i] = frame'[Len(frame') - Len(wire') + i]
  <2> SUFFICES ASSUME NEW i \in 1..Len(wire')
               PROVE  wire'[i] = frame[n + 1 + i]
    BY <1>5, <1>6
  <2>1. i + 1 \in 1..Len(wire) /\ i \in Nat
    BY <1>1, <1>4
  <2>2. wire[i + 1] = frame[Len(frame) - Len(wire) + (i + 1)]
    BY <1>2, <2>1 DEF Arriving
  <2>3. Len(frame) - Len(wire) + (i + 1) = n + 1 + i
    BY <1>1, <1>3, <2>1
  <2> QED
    BY <1>4, <2>2, <2>3
<1> HIDE DEF n
<1>9. dma' = IF n + 1 < MaxSize THEN n + 1 ELSE MaxSize
  BY <1>1, <1>3 DEF RxByte
<1>10. Holds(rx_buffer', frame, dma')
  <2>1. CASE n < MaxSize
    <3>1. dma = n /\ rx_buffer' = [rx_buffer EXCEPT ![n] = frame[n + 1]] /\ dma' = n + 1
      BY <1>1, <1>3, <1>4, <1>9, <2>1 DEF RxByte
    <3>2. \A i \in 0..n - 1 : i \in Index /\ rx_buffer[i] = frame[i + 1]
      BY <1>1, <1>2, <1>3, <2>1, <3>1 DEF Arriving, Holds, Index
    <3>3. n \in Index
      BY <1>1, <1>3, <2>1 DEF Index
    <3>4. \A i \in 0..n : rx_buffer'[i] = frame[i + 1]
      BY <1>1, <1>3, <3>1, <3>2, <3>3
    <3>5. 0..dma' - 1 = 0..n
      BY <1>3, <3>1
    <3> QED
      BY <3>4, <3>5 DEF Holds
  <2>2. CASE ~(n < MaxSize)
    <3>1. rx_buffer' = rx_buffer /\ dma' = dma
      BY <1>1, <1>3, <2>2 DEF RxByte
    <3> QED
      BY <1>2, <3>1 DEF Arriving
  <2> QED
    BY <2>1, <2>2
<1>11. dma' = IF Len(frame') - Len(wire') < MaxSize THEN Len(frame') - Len(wire') ELSE MaxSize
  BY <1>5, <1>6, <1>9
<1> QED
  BY <1>2, <1>5, <1>7, <1>8, <1>10, <1>11 DEF Arriving, Unsent

LEMMA TalkIdleLine ==
  ASSUME Talk, IdleInterrupt
  PROVE  Arrived'
<1>1. wire = <<>> /\ dma > 0 /\ Len(wire) = 0 /\ MaxSize \in Nat /\ MaxSize > 6
  BY Sizes DEF IdleInterrupt
<1>2. Arriving
  BY <1>1 DEF Talk, Resting, Arrived, Handling, Faulted, Silence
<1>3. Proper(frame) /\ Len(frame) \in Nat
      /\ dma = IF Len(frame) < MaxSize THEN Len(frame) ELSE MaxSize
  BY <1>1, <1>2 DEF Arriving, Proper
<1>4. rx_len' = LengthOf(frame)
  <2>1. rx_len' = dma % MaxSize
    BY DEF IdleInterrupt, ReceivedLength
  <2>2. ASSUME NEW n \in Nat, n < MaxSize PROVE n % MaxSize = n
    BY <1>1, <2>2, SMT
  <2>3. MaxSize % MaxSize = 0
    BY <1>1, SMT
  <2>4. CASE Len(frame) < MaxSize
    BY <1>3, <2>1, <2>2, <2>4 DEF LengthOf
  <2>5. CASE ~(Len(frame) < MaxSize)
    BY <1>3, <2>1, <2>3, <2>5 DEF LengthOf
  <2> QED
    BY <2>4, <2>5
<1>5. /\ wire' = <<>> /\ dma' = 0 /\ recv_end_flag' = 1
      /\ sending' = NoReply /\ packed' = NoReply
      /\ UNCHANGED <<frame, waiting, rx_buffer, pc, done>>
  BY <1>1 DEF IdleInterrupt, handler
<1>6. Holds(rx_buffer, frame, IF Len(frame) < MaxSize THEN Len(frame) ELSE MaxSize)
  BY <1>2, <1>3, Zenon DEF Arriving
<1>7. Holds(rx_buffer', frame', IF Len(frame') < MaxSize THEN Len(frame') ELSE MaxSize)
  BY <1>5, <1>6
<1> QED
  BY <1>2, <1>4, <1>5, <1>7 DEF Arriving, Arrived, Unsent, Silence, LengthOf

LEMMA TalkAnswered ==
  ASSUME Talk, TxDone
  PROVE  Resting'
<1>1. Resting
  BY DEF TxDone, Talk, Arriving, Arrived, Handling, Faulted, Unsent
<1>2. /\ sending' = NoReply /\ packed' = NoReply
      /\ UNCHANGED <<wire, dma, frame, recv_end_flag, pc, done>>
  BY DEF TxDone, handler
<1> QED
  BY <1>1, <1>2 DEF Resting, Silence, ExecutedOnce

(* The steps of the handler before the check.                              *)
LEMMA TalkTaken ==
  ASSUME Talk, Take
  PROVE  Arrived' \/ Handling'
<1>1. CASE SeeHeader
  <2>1. pc = "poll" /\ recv_end_flag = 1
    BY <1>1 DEF SeeHeader
  <2>2. Arrived
    BY <2>1 DEF Talk, Resting, Arriving, Handling, Faulted
  <2>3. Proper(frame) /\ Len(frame) \in Nat /\ MaxSize \in Nat /\ MaxSize > 6
        /\ Holds(rx_buffer, frame, IF Len(frame) < MaxSize THEN Len(frame) ELSE MaxSize)
    BY <2>2, Sizes DEF Arrived, Proper
  <2>4. rx_buffer[0] = frame[1] /\ rx_buffer[1] = frame[2]
    BY <2>3 DEF Holds, Proper
  <2>5. HeaderOK(rx_buffer)
    BY <2>3, <2>4 DEF HeaderOK, Proper
  <2>6. /\ pc' = "clear"
        /\ UNCHANGED <<link, rx_buffer, rx_len, recv_end_flag, tx, done>>
    BY <1>1, <2>5 DEF SeeHeader
  <2> QED
    BY <2>2, <2>6 DEF Arrived, Silence, Unsent, link, tx
<1>2. CASE ClearFlag
  <2>1. Arrived
    BY <1>2 DEF ClearFlag, Talk, Resting, Arriving, Handling, Faulted
  <2>2. /\ recv_end_flag' = 0 /\ pc' = "len"
        /\ UNCHANGED <<link, rx_buffer, rx_len, tx, done>>
    BY <1>2 DEF ClearFlag
  <2>3. Len(frame) \in Nat /\ MaxSize \in Nat
    BY <2>1, Sizes DEF Arrived, Proper
  <2>4. Holds(rx_buffer', frame', LengthOf(frame'))
    BY <2>1, <2>2, <2>3 DEF Arrived, Holds, LengthOf, link
  <2> QED
    BY <2>1, <2>2, <2>4 DEF Arrived, Handling, Silence, Unsent, link, tx
<1>3. CASE ReadLength
  <2>1. Handling /\ pc = "len" /\ copies \in BOOLEAN
    BY <1>3 DEF ReadLength, Talk, TypeOK, Resting, Arriving, Arrived, Faulted
  <2>2. /\ my_cal_len' = rx_len /\ pc' = IF copies THEN "zero" ELSE "check"
        /\ UNCHANGED <<copies, link, rx_buffer, recv_end_flag, temp_buf, tx, done>>
    BY <1>3 DEF ReadLength
  <2>3. my_cal_len' = LengthOf(frame') /\ Holds(rx_buffer', frame', LengthOf(frame'))
    BY <2>1, <2>2 DEF Handling, link
  <2>4. pc' = "check" => Data' = rx_buffer'
    BY <2>1, <2>2 DEF Data
  <2>5. Silence' /\ Unsent' /\ waiting' /\ Proper(frame') /\ done' = <<>> /\ recv_end_flag' = 0
    BY <2>1, <2>2 DEF Handling, Silence, Unsent, link, tx
  <2> QED
    BY <2>1, <2>2, <2>3, <2>4, <2>5 DEF Handling
<1>4. CASE ForgetLength
  <2>1. Handling /\ pc = "zero"
    BY <1>4 DEF ForgetLength, Talk, Resting, Arriving, Arrived, Handling, Faulted
  <2>2. /\ pc' = "copy"
        /\ UNCHANGED <<copies, link, rx_buffer, recv_end_flag, my_cal_len, tx, done>>
    BY <1>4, <2>1 DEF ForgetLength
  <2> QED
    BY <2>1, <2>2 DEF Handling, Silence, Unsent, link, tx
<1>5. CASE CopyBuffer
  <2>1. Handling /\ pc = "copy"
    BY <1>5 DEF CopyBuffer, Talk, Resting, Arriving, Arrived, Faulted
  <2>2. /\ temp_buf' = [i \in Index |-> IF i < my_cal_len THEN rx_buffer[i] ELSE 0]
        /\ pc' = "wipe"
        /\ UNCHANGED <<copies, link, rx_buffer, recv_end_flag, my_cal_len, tx, done>>
    BY <1>5 DEF CopyBuffer
  <2>3. my_cal_len = LengthOf(frame) /\ Holds(rx_buffer, frame, LengthOf(frame))
        /\ Len(frame) \in Nat /\ MaxSize \in Nat /\ LengthOf(frame) \in Nat
        /\ LengthOf(frame) <= MaxSize
    BY <2>1, Sizes DEF Handling, Proper, LengthOf
  <2>4. Holds(temp_buf', frame, LengthOf(frame))
    BY <2>2, <2>3 DEF Holds, Index
  <2>5. Holds(Data', frame', LengthOf(frame'))
    <3>1. frame' = frame /\ Data' \in {temp_buf', rx_buffer}
      BY <2>2 DEF Data, link
    <3> QED
      BY <2>3, <2>4, <3>1
  <2> QED
    BY <2>1, <2>2, <2>3, <2>5 DEF Handling, Silence, Unsent, link, tx
<1>6. CASE WipeBuffer
  <2>1. Handling /\ pc = "wipe" /\ copies
    BY <1>6 DEF WipeBuffer, Talk, Resting, Arriving, Arrived, Handling, Faulted
  <2>2. /\ pc' = "check"
        /\ UNCHANGED <<copies, link, recv_end_flag, my_cal_len, temp_buf, tx, done>>
    BY <1>6, <2>1 DEF WipeBuffer
  <2>3. Data' = Data
    BY <2>1, <2>2 DEF Data
  <2> QED
    BY <2>1, <2>2, <2>3 DEF Handling, Silence, Unsent, link, tx
<1> QED
  BY <1>1, <1>2, <1>3, <1>4, <1>5, <1>6 DEF Take

(* The answer that is due is the one that is sent, at once: nothing else   *)
(* is being sent.                                                          *)
LEMMA TalkSays ==
  ASSUME Unsent, NEW id, Transmit(id)
  PROVE  sending' = id /\ packed' = id
  BY DEF Unsent, Transmit

LEMMA TalkChecked ==
  ASSUME Talk, CheckFrame
  PROVE  Resting' \/ Handling' \/ Faulted'
<1>1. /\ Handling /\ pc = "check" /\ copies \in BOOLEAN
  BY DEF CheckFrame, Talk, TypeOK, Resting, Arriving, Arrived, Faulted
<1>2. /\ Silence /\ recv_end_flag = 0 /\ waiting /\ Proper(frame) /\ Unsent /\ done = <<>>
      /\ my_cal_len = LengthOf(frame) /\ Holds(Data, frame, LengthOf(frame))
      /\ Len(frame) \in Nat /\ Len(frame) > 4 /\ MaxSize \in Nat
  BY <1>1, Sizes DEF Handling, Proper
<1>3. ASSUME done' = <<>> PROVE ExecutedOnce'
  BY <1>3 DEF ExecutedOnce
<1>4. CASE copies /\ my_cal_len = 0
  <2>1. SystemReset
    BY <1>4 DEF CheckFrame
  <2> QED
    BY <1>2, <1>3, <2>1 DEF SystemReset, Resting, Silence
<1>5. CASE ~(copies /\ my_cal_len = 0)
  <2>1. UNCHANGED <<copies, link, rx_buffer, rx_len, recv_end_flag, my_cal_len, temp_buf,
                    fetched, done>>
    BY <1>5 DEF CheckFrame
  <2>2. Data' = Data /\ Silence' /\ frame' = frame /\ waiting' = waiting
    BY <1>2, <2>1 DEF Data, Silence, link
  <2>3. CASE my_cal_len < 3
    <3>1. pc' = "fault" /\ UNCHANGED tx
      BY <1>5, <2>3 DEF CheckFrame
    <3> QED
      BY <1>2, <2>1, <2>2, <3>1 DEF Faulted, Unsent, tx
  <2>4. CASE ~(my_cal_len < 3)
    <3>1. Len(frame) < MaxSize /\ my_cal_len = Len(frame) /\ LengthOf(frame) = Len(frame)
      BY <1>2, <2>4 DEF LengthOf
    <3>2. CASE CheckOK(Data, my_cal_len) /\ pc' = "analyse" /\ UNCHANGED tx
      <4>1. Holds(Data', frame', LengthOf(frame')) /\ CheckOK(Data', Len(frame'))
            /\ my_cal_len' = LengthOf(frame')
        BY <1>2, <2>1, <2>2, <3>1, <3>2
      <4>2. fetched' = <<>> /\ DOMAIN <<>> = {}
        BY <1>1, <2>1 DEF Talk, NothingKept
      <4>3. Fresh'
        BY <4>2 DEF Fresh
      <4> QED
        BY <1>2, <2>1, <2>2, <3>1, <3>2, <4>1, <4>3 DEF Handling, Unsent, tx
    <3>3. CASE ~CheckOK(Data, my_cal_len) /\ pc' = "task" /\ Transmit(ChecksumError)
      <4>1. ~Good(frame)
        BY <1>2, <3>1, <3>3, HeldIsChecked
      <4>2. sending' = AnswerTo(frame') /\ packed' = sending'
        BY <1>2, <2>2, <3>3, <4>1, TalkSays DEF AnswerTo
      <4> QED
        BY <1>2, <1>3, <2>1, <2>2, <3>3, <4>2 DEF Resting
    <3> QED
      BY <1>5, <2>4, <3>2, <3>3 DEF CheckFrame
  <2> QED
    BY <2>3, <2>4
<1> QED
  BY <1>4, <1>5

(* Reading the frame, while nothing of the next one can arrive.            *)
LEMMA TalkFetched ==
  ASSUME Talk, Fetch
  PROVE  Handling'
<1>1. Handling /\ pc = "analyse" /\ TypeOK
  BY DEF Fetch, Talk, Resting, Arriving, Arrived, Faulted
<1>2. UNCHANGED <<copies, link, rx_buffer, recv_end_flag, pc, my_cal_len, temp_buf, tx, done>>
  BY DEF Fetch
<1>3. Data' = Data
  BY <1>2 DEF Data
<1>4. Fresh'
  BY <1>1, <1>3, FetchFresh DEF Handling
<1> QED
  BY <1>1, <1>2, <1>3, <1>4 DEF Handling, Silence, Unsent, link, tx

(* What is stored of a frame is what it was sent with.                     *)
LEMMA FreshAgrees ==
  ASSUME TypeOK, AnalyseFrame, Fresh,
         NEW f, Len(f) \in Nat, Len(f) > 4, Holds(Data, f, Len(f))
  PROVE  fetched[1] = f[4] /\ Agrees(CommandIn(fetched), f)
<1>1. \A i \in 0..Len(f) - 1 : Data[i] = f[i + 1]
  BY DEF Holds
<1>2. Data[3] = f[4] /\ (5 < Len(f) => Data[4] = f[5]) /\ (6 < Len(f) => Data[5] = f[6])
  <2>1. Data[3] = f[4]
    BY <1>1
  <2>2. 5 < Len(f) => Data[4] = f[5]
    BY <1>1
  <2>3. 6 < Len(f) => Data[5] = f[6]
    BY <1>1
  <2> QED
    BY <2>1, <2>2, <2>3
<1>3. fetched[1] = Data[3]
  BY FetchedAll, PlanShape DEF Fresh
<1>4. CASE Plan(fetched) = <<3, 4, 4, 5, 4, 5>> /\ Len(fetched) = 6 /\ DOMAIN fetched = 1..6
  <2>1. fetched[5] = Data[4] /\ fetched[6] = Data[5]
    <3>1. <<3, 4, 4, 5, 4, 5>>[5] = 4 /\ <<3, 4, 4, 5, 4, 5>>[6] = 5 /\ 5 \in 1..6 /\ 6 \in 1..6
      OBVIOUS
    <3> QED
      BY <1>4, <3>1 DEF Fresh
  <2>2. CommandIn(fetched) = <<fetched[1], fetched[5], fetched[6]>>
    BY <1>4 DEF CommandIn
  <2> QED
    BY <1>2, <1>3, <2>1, <2>2 DEF Agrees
<1>5. CASE Plan(fetched) = <<3, 4, 4>> /\ Len(fetched) = 3 /\ DOMAIN fetched = 1..3
  <2>1. fetched[3] = Data[4]
    <3>1. <<3, 4, 4>>[3] = 4 /\ 3 \in 1..3
      OBVIOUS
    <3> QED
      BY <1>5, <3>1 DEF Fresh
  <2>2. CommandIn(fetched) = <<fetched[1], fetched[3]>>
    BY <1>5 DEF CommandIn
  <2> QED
    BY <1>2, <1>3, <2>1, <2>2 DEF Agrees
<1>6. CASE Len(fetched) = 1
  <2>1. CommandIn(fetched) = <<fetched[1]>>
    BY <1>6 DEF CommandIn
  <2> QED
    BY <1>2, <1>3, <2>1 DEF Agrees
<1> QED
  BY <1>4, <1>5, <1>6, FetchedAll

LEMMA TalkAnalysed ==
  ASSUME Talk, AnalyseFrame
  PROVE  Resting'
<1>1. Handling /\ pc = "analyse" /\ TypeOK
  BY DEF AnalyseFrame, Talk, Resting, Arriving, Arrived, Faulted
<1>2. /\ Silence /\ recv_end_flag = 0 /\ waiting /\ Proper(frame) /\ Unsent /\ done = <<>>
      /\ Len(frame) < MaxSize /\ LengthOf(frame) = Len(frame)
      /\ CheckOK(Data, Len(frame)) /\ Holds(Data, frame, Len(frame)) /\ Fresh
      /\ Len(frame) \in Nat /\ Len(frame) > 4
  BY <1>1 DEF Handling, Proper, LengthOf
<1>3. Good(frame)
  BY <1>2, HeldIsChecked
<1>4. fetched[1] = frame[4] /\ Agrees(CommandIn(fetched), frame)
  BY <1>1, <1>2, FreshAgrees
<1>5. /\ done' = Append(<<>>, CommandIn(fetched)) /\ pc' = "task"
      /\ UNCHANGED <<link, recv_end_flag>>
  BY <1>2 DEF AnalyseFrame
<1>6. done' = <<CommandIn(fetched)>>
  BY <1>5
<1>7. ExecutedOnce'
  <2>1. frame' = frame /\ Len(done') = 1 /\ done'[1] = CommandIn(fetched)
    BY <1>5, <1>6 DEF link
  <2>2. Agrees(done'[1], frame') /\ Good(frame')
    BY <1>3, <1>4, <2>1
  <2> QED
    BY <2>1, <2>2 DEF ExecutedOnce
<1>8. CASE ReplyTo(fetched[1]) = NoReply
  <2>1. UNCHANGED tx
    BY <1>8 DEF AnalyseFrame
  <2> QED
    BY <1>2, <1>5, <1>7, <2>1 DEF Resting, Silence, Unsent, link, tx
<1>9. CASE ReplyTo(fetched[1]) # NoReply
  <2>1. Transmit(ReplyTo(fetched[1]))
    BY <1>9 DEF AnalyseFrame
  <2>2. sending' = ReplyTo(frame[4]) /\ packed' = sending'
    BY <1>2, <1>4, <2>1, TalkSays
  <2>3. sending' = AnswerTo(frame')
    BY <1>3, <1>5, <2>2 DEF AnswerTo, link
  <2> QED
    BY <1>2, <1>5, <1>7, <2>2, <2>3 DEF Resting, Silence, link
<1> QED
  BY <1>8, <1>9

(* The task changes nothing of the conversation, whatever its phase.       *)
LEMMA TalkTask ==
  ASSUME Talk, ControlTask
  PROVE  Resting' \/ Arriving' \/ Arrived'
<1>1. /\ pc = "task" /\ pc' = "poll"
      /\ UNCHANGED <<link, rx_buffer, rx_len, recv_end_flag, tx, done>>
  BY DEF ControlTask
<1>2. Resting \/ Arriving \/ Arrived
  BY <1>1 DEF Talk, Handling, Faulted
<1>3. CASE Resting
  BY <1>1, <1>3 DEF Resting, Silence, ExecutedOnce, link, tx
<1>4. CASE Arriving
  BY <1>1, <1>4 DEF Arriving, Unsent, link, tx
<1>5. CASE Arrived
  BY <1>1, <1>5 DEF Arrived, Silence, Unsent, link, tx
<1> QED
  BY <1>2, <1>3, <1>4, <1>5

LEMMA TalkStep ==
  ASSUME Paced = TRUE, ProperFrames, Talk, [Next]_vars
  PROVE  Talk'
<1>1. TypeOK' /\ NothingKept'
  BY NextType, NothingKeptStep DEF Talk
<1>2. CASE \E f \in Frames : Send(f)
  BY <1>1, <1>2, TalkSend DEF Talk
<1>3. CASE RxByte \/ IdleInterrupt \/ TxDone
  BY <1>1, <1>3, TalkReceive, TalkIdleLine, TalkAnswered DEF Talk
<1>4. CASE Main
  BY <1>1, <1>4, TalkTaken, TalkChecked, TalkFetched, TalkAnalysed, TalkTask DEF Talk, Main
<1>5. CASE UNCHANGED vars
  <2>1. UNCHANGED <<copies, wire, dma, frame, waiting, rx_buffer, rx_len, recv_end_flag, pc,
                    my_cal_len, temp_buf, fetched, sending, packed, done>>
    BY <1>5 DEF vars, link, handler, tx
  <2>2. Resting => Resting'
    BY <2>1 DEF Resting, Silence, ExecutedOnce
  <2>3. Arriving => Arriving'
    BY <2>1 DEF Arriving, Unsent
  <2>4. Arrived => Arrived'
    BY <2>1 DEF Arrived, Silence, Unsent
  <2>5. Handling => Handling'
    <3>1. Data' = Data
      BY <2>1 DEF Data
    <3> QED
      BY <2>1, <3>1 DEF Handling, Fresh, Silence, Unsent
  <2>6. Faulted => Faulted'
    BY <2>1 DEF Faulted, Silence, Unsent
  <2> QED
    BY <1>1, <2>2, <2>3, <2>4, <2>5, <2>6 DEF Talk
<1> QED
  BY <1>2, <1>3, <1>4, <1>5 DEF Next

LEMMA TalkInvariant ==
  ASSUME Paced = TRUE, ProperFrames PROVE Spec => []Talk
<1>1. Talk /\ [Next]_vars => Talk'
  BY TalkStep
<1> QED
  BY <1>1, TalkInit, PTL DEF Spec

-----------------------------------------------------------------------------
(* To a BLE module that waits for its answers every answer is the one to   *)
(* its last frame, on either board and however long the motor task keeps   *)
(* the loop from that frame, and no answer is overwritten under the DMA.   *)
THEOREM AnswersAreForFrames ==
  ASSUME Paced = TRUE, ProperFrames PROVE Spec => []AnswerIsForFrame
<1>1. Talk => AnswerIsForFrame
  BY DEF Talk, Resting, Arriving, Arrived, Handling, Faulted, Unsent, AnswerIsForFrame
<1> QED
  BY <1>1, TalkInvariant, PTL

(* Of such a module a frame with a right checksum is executed once, with   *)
(* the parameters it was sent with, and one with a wrong checksum never.   *)
THEOREM ExecutesOnce ==
  ASSUME Paced = TRUE, ProperFrames PROVE Spec => []ExecutedOnce
<1>1. Len(<<>>) = 0
  OBVIOUS
<1>2. Talk => ExecutedOnce
  BY <1>1 DEF Talk, Resting, Arriving, Arrived, Handling, Faulted, ExecutedOnce
<1> QED
  BY <1>2, TalkInvariant, PTL
-----------------------------------------------------------------------------
(* Frames that leave room in the buffer: of the others rx_len, a uint8,    *)
(* says that nothing was received.                                         *)
ShortFrames == \A f \in Frames : Len(f) < MaxSize

(* What the conversation adds for such frames.                             *)
Whole == pc # "fault" /\ (waiting => frame \in Frames)

LEMMA WholeStep ==
  ASSUME ShortFrames, Talk, Whole, [Next]_vars
  PROVE  Whole'
<1>1. CASE \E f \in Frames : Send(f)
  BY <1>1 DEF Send, Whole, handler
<1>2. CASE RxByte \/ IdleInterrupt
  BY <1>2 DEF RxByte, IdleInterrupt, Whole, handler
<1>3. CASE TxDone
  BY <1>3 DEF TxDone, Whole, handler
<1>4. CASE Take \/ Fetch \/ AnalyseFrame \/ ControlTask
  BY <1>4 DEF Take, SeeHeader, ClearFlag, ReadLength, ForgetLength, CopyBuffer, WipeBuffer, Fetch,
     AnalyseFrame, ControlTask, Whole, link
<1>5. CASE CheckFrame
  <2>1. Handling /\ pc = "check"
    BY <1>5 DEF CheckFrame, Talk, Resting, Arriving, Arrived, Faulted
  <2>2. Len(frame) > 4 /\ my_cal_len = Len(frame)
    BY <2>1 DEF Handling, Proper, LengthOf, Whole, ShortFrames
  <2>3. Len(frame) \in Nat
    BY <2>1 DEF Handling, Proper
  <2>4. pc' \in {"analyse", "task"} /\ UNCHANGED link
    BY <1>5, <2>2, <2>3 DEF CheckFrame
  <2> QED
    BY <2>4 DEF Whole, link
<1>6. CASE UNCHANGED vars
  BY <1>6 DEF vars, link, handler, Whole
<1> QED
  BY <1>1, <1>2, <1>3, <1>4, <1>5, <1>6 DEF Next, Main

(* With a BLE module that waits for its answers, and frames that leave     *)
(* room in the buffer, the checksum loop of either board never runs on a   *)
(* wrapped length: my_cal_len (usart.c:459) is the whole frame's, whatever *)
(* the interrupts fall between.                                            *)
THEOREM CountsWhole ==
  ASSUME Paced = TRUE, ProperFrames, ShortFrames PROVE Spec => []CountedWhole
<1>1. Init => Whole
  BY DEF Init, Whole
<1>2. Talk /\ Whole /\ [Next]_vars => Whole'
  BY WholeStep
<1>3. Talk /\ Whole => CountedWhole
  BY DEF Talk, Whole, Resting, Arriving, Arrived, Handling, Faulted, LengthOf, ShortFrames,
         CountedWhole
<1> QED
  BY <1>1, <1>2, <1>3, TalkInvariant, PTL DEF Spec
=============================================================================
