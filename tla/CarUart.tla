------------------------------- MODULE CarUart -------------------------------
(***************************************************************************)
(* The link to the BLE module as the MCU firmware sees it: bytes go by DMA *)
(* into rx_buffer, the idle-line interrupt (stm32f1xx_it.c, stm32l1xx_it.c)*)
(* ends a reception, and the main loop's protocol handler (usart.c) takes  *)
(* it from there, checks it, and answers by DMA.  The main loop's steps    *)
(* are what two interrupts can fall between.  What a command does to the   *)
(* car is CarControl's subject; here it is only noted that it was executed.*)
(*                                                                         *)
(* The two boards differ in one thing: my_l151_motor works on a copy of    *)
(* the buffer, my_mcu on the buffer that the DMA goes on writing.          *)
(***************************************************************************)
EXTENDS Integers, Sequences, Functions

CONSTANTS
  MaxSize,   \* MAXSIZE, 256 in main.h: size of rx_buffer, and one more than a uint8
  Frames,    \* byte sequences the BLE module may send in one go
  Paced,     \* TRUE: it waits for the answer to a frame before the next one
  Burst,     \* bytes it may send without a gap
  Copying    \* the boards considered: {FALSE} my_mcu, {TRUE} my_l151_motor

Byte == 0..255
Header == 170            \* 0xAA
ChecksumError == 166     \* 0xA6

ASSUME UartAssumption ==
  /\ MaxSize \in Nat /\ MaxSize > 6
  /\ \A f \in Frames : f \in Seq(Byte) /\ f # <<>>
  /\ Paced \in BOOLEAN /\ Burst \in Nat
  /\ Copying \subseteq BOOLEAN

VARIABLES
  copies,          \* the board, fixed at the start
  wire,            \* bytes sent but not yet received
  rx_buffer, dma,  \* the buffer, and how many bytes DMA has put there
  rx_len, recv_end_flag,
  pc, my_cal_len, temp_buf,   \* the main loop, with locals of the handler
  fetched,         \* what control_protocol_analysis has read of the frame so far
  sending, packed, \* reply the TX DMA is sending, and reply in temp_txbuf meanwhile
  frame, waiting,  \* the BLE module's last frame; TRUE while it awaits the answer
  done             \* history: commands executed since the module last sent something

link == <<wire, dma, frame, waiting>>
handler == <<pc, my_cal_len, temp_buf, fetched>>
tx == <<sending, packed>>
vars == <<copies, link, rx_buffer, rx_len, recv_end_flag, handler, tx, done>>

Place == {"poll", "drop", "dropped", "clear", "len", "zero", "copy", "wipe", "check", "analyse",
          "task", "fault"}
NoReply == 0
Index == 0..MaxSize - 1
Blank == [i \in Index |-> 0]

Init ==
  /\ copies \in Copying
  /\ wire = <<>> /\ dma = 0 /\ frame = <<>> /\ waiting = FALSE
  /\ rx_buffer = Blank /\ rx_len = 0 /\ recv_end_flag = 0
  /\ pc = "poll" /\ my_cal_len = 0 /\ temp_buf = Blank /\ fetched = <<>>
  /\ sending = NoReply /\ packed = NoReply
  /\ done = <<>>

-----------------------------------------------------------------------------
(* Frames: AA AA length ID parameters checksum.                            *)

HeaderOK(b) == b[0] = Header /\ b[1] = Header

Plus(a, b) == a + b

(* my_check_code_analysis over the cells from 3 to the end.                *)
Cells(b, len) == [i \in 3..len - 1 |-> b[i]]
CellSum(cells) == FoldFunction(Plus, 0, cells)
CheckOK(b, len) == CellSum(Cells(b, len)) % 256 = 255

(* The cells the analysis reads of a command, in the order it names them:  *)
(* the ID; for A1 the two bounds of data[4] and that of data[5], and both  *)
(* again when they are stored; for a turn data[4] once for each purpose.   *)
Reads(id) ==
  CASE id = 161 -> <<3, 4, 4, 5, 4, 5>>
    [] id \in {162, 163} -> <<3, 4, 4>>
    [] OTHER -> <<3>>

(* The command carried out: its ID and the parameters as they are stored.  *)
CommandIn(f) ==
  CASE Len(f) = 6 -> <<f[1], f[5], f[6]>>
    [] Len(f) = 3 -> <<f[1], f[3]>>
    [] OTHER -> <<f[1]>>

(* ID of the reply: A3 is answered as A2, unknown IDs are not answered.    *)
ReplyTo(id) == IF id = 163 THEN 162 ELSE IF id \in {161, 162, 164, 165} THEN id ELSE NoReply

-----------------------------------------------------------------------------
(* The BLE module and the interrupts.                                      *)

(* A frame, or line noise; only a frame is answered.                       *)
Send(f) ==
  /\ wire = <<>>
  /\ IF Paced THEN ~waiting /\ dma = 0 ELSE dma + Len(f) <= Burst
  /\ wire' = f /\ frame' = f
  /\ waiting' = (Paced /\ Len(f) > 4 /\ f[1] = Header /\ f[2] = Header)
  /\ done' = <<>>
  /\ UNCHANGED <<copies, dma, rx_buffer, rx_len, recv_end_flag, handler, tx>>

(* DMA in normal mode: it stops at the end of the buffer.                  *)
RxByte ==
  /\ wire # <<>>
  /\ wire' = Tail(wire)
  /\ dma' = IF dma < MaxSize THEN dma + 1 ELSE dma
  /\ rx_buffer' = IF dma < MaxSize THEN [rx_buffer EXCEPT ![dma] = Head(wire)] ELSE rx_buffer
  /\ UNCHANGED <<copies, frame, waiting, rx_len, recv_end_flag, handler, tx, done>>

(* A slip: the operands exchanged.                                         *)
LengthReversed(n) == n - MaxSize

(* The length is a uint8, so a full buffer counts as none.                 *)
ReceivedLength(n) == n % MaxSize

(* The idle-line interrupt.  HAL_UART_DMAStop stops both directions, so a  *)
(* reply being sent is cut off.                                            *)
IdleInterrupt ==
  /\ pc # "fault"
  /\ wire = <<>> /\ dma > 0
  /\ recv_end_flag' = 1
  /\ rx_len' = ReceivedLength(dma)
  /\ dma' = 0
  /\ sending' = NoReply /\ packed' = NoReply
  /\ UNCHANGED <<copies, wire, frame, waiting, rx_buffer, handler, done>>

(* The reply is out; one that was repacked while being sent arrives as a   *)
(* mixture the BLE module cannot use.                                      *)
TxDone ==
  /\ sending # NoReply
  /\ sending' = NoReply /\ packed' = NoReply
  /\ waiting' = (waiting /\ packed # sending)
  /\ UNCHANGED <<copies, wire, dma, frame, rx_buffer, rx_len, recv_end_flag, handler, done>>

(* A slip: the transfer is never started.                                  *)
TransmitNotStarted(id) == packed' = id /\ sending' = sending

(* my_uart3_tx_to_BLE: temp_txbuf is static and rewritten at once; the HAL *)
(* refuses the transfer while one is running.                              *)
Transmit(id) ==
  /\ packed' = id
  /\ sending' = IF sending = NoReply THEN id ELSE sending

-----------------------------------------------------------------------------
(* my_motor_control_protocol_analysis.                                     *)

Data == IF copies THEN temp_buf ELSE rx_buffer

(* A reception with a bad header leaves recv_end_flag set.                 *)
SeeHeader ==
  /\ pc = "poll" /\ recv_end_flag = 1
  /\ pc' = IF HeaderOK(rx_buffer) THEN "clear" ELSE IF copies THEN "drop" ELSE pc
  /\ UNCHANGED <<copies, link, rx_buffer, rx_len, recv_end_flag, my_cal_len, temp_buf, fetched,
                 tx, done>>

(* A slip: the flag is left set.                                           *)
ClearFlagForgotten ==
  /\ pc = "clear"
  /\ pc' = "len"
  /\ UNCHANGED <<copies, link, rx_buffer, rx_len, recv_end_flag, my_cal_len, temp_buf, fetched,
                 tx, done>>

ClearFlag ==
  /\ pc = "clear"
  /\ recv_end_flag' = 0 /\ pc' = "len"
  /\ UNCHANGED <<copies, link, rx_buffer, rx_len, my_cal_len, temp_buf, fetched, tx, done>>

ReadLength ==
  /\ pc = "len"
  /\ my_cal_len' = rx_len
  /\ pc' = IF copies THEN "zero" ELSE "check"
  /\ UNCHANGED <<copies, link, rx_buffer, rx_len, recv_end_flag, temp_buf, fetched, tx, done>>

(* The L151 zeroes rx_len, of a good reception and of a bad one, ...       *)
ForgetLength ==
  /\ pc \in {"zero", "drop"}
  /\ rx_len' = 0
  /\ pc' = IF pc = "zero" THEN "copy" ELSE "dropped"
  /\ UNCHANGED <<copies, link, rx_buffer, recv_end_flag, my_cal_len, temp_buf, fetched, tx, done>>

CopyBuffer ==
  /\ pc = "copy"
  /\ temp_buf' = [i \in Index |-> IF i < my_cal_len THEN rx_buffer[i] ELSE 0]
  /\ pc' = "wipe"
  /\ UNCHANGED <<copies, link, rx_buffer, rx_len, recv_end_flag, my_cal_len, fetched, tx, done>>

(* ... and then clears as many bytes as rx_len says: none, unless the idle *)
(* interrupt has come in between.                                          *)
WipeBuffer ==
  /\ pc \in {"wipe", "dropped"}
  /\ rx_buffer' = [i \in Index |-> IF i < rx_len THEN 0 ELSE rx_buffer[i]]
  /\ pc' = IF pc = "wipe" THEN "check" ELSE "poll"
  /\ UNCHANGED <<copies, link, rx_len, recv_end_flag, my_cal_len, temp_buf, fetched, tx, done>>

(* print_array_hex resets the L151 when told to print nothing.             *)
SystemReset ==
  /\ dma' = 0 /\ rx_buffer' = Blank /\ rx_len' = 0 /\ recv_end_flag' = 0
  /\ pc' = "poll" /\ my_cal_len' = 0 /\ temp_buf' = Blank /\ fetched' = <<>>
  /\ sending' = NoReply /\ packed' = NoReply /\ done' = <<>>
  /\ UNCHANGED <<copies, wire, frame, waiting>>

(* A slip: the result of the check is printed and not looked at.           *)
CheckFrameIgnored ==
  /\ pc = "check"
  /\ pc' = "analyse"
  /\ UNCHANGED <<copies, link, rx_buffer, rx_len, recv_end_flag, my_cal_len, temp_buf, fetched,
                 tx, done>>

(* The print of the reception and the check.  my_cal_len - 3 is passed as  *)
(* a uint16: below 3 it makes the sum run off the end of the SRAM into a   *)
(* HardFault, whose handler loops for ever.                                *)
CheckFrame ==
  /\ pc = "check"
  /\ IF copies /\ my_cal_len = 0 THEN SystemReset
     ELSE /\ UNCHANGED <<copies, link, rx_buffer, rx_len, recv_end_flag, my_cal_len, temp_buf,
                         fetched, done>>
          /\ IF my_cal_len < 3 THEN pc' = "fault" /\ UNCHANGED tx
             ELSE IF CheckOK(Data, my_cal_len) THEN pc' = "analyse" /\ UNCHANGED tx
             ELSE pc' = "task" /\ Transmit(ChecksumError)

(* What control_protocol_analysis is to read, as far as f tells.           *)
Plan(f) == IF f = <<>> THEN <<3>> ELSE Reads(f[1])

(* control_protocol_analysis, after the print of "check sum OK!": a read   *)
(* of what is then in the buffer, or the value of an earlier read of the   *)
(* same cell if the compiler has kept it.                                  *)
Fetch ==
  /\ pc = "analyse" /\ Len(fetched) < Len(Plan(fetched))
  /\ LET cell == Plan(fetched)[Len(fetched) + 1]
         kept == {fetched[k] : k \in {j \in DOMAIN fetched : Plan(fetched)[j] = cell}}
     IN \E byte \in kept \cup {Data[cell]} : fetched' = Append(fetched, byte)
  /\ UNCHANGED <<copies, link, rx_buffer, rx_len, recv_end_flag, pc, my_cal_len, temp_buf, tx,
                 done>>

(* The rest of it works on what was read.                                  *)
AnalyseFrame ==
  /\ pc = "analyse" /\ Len(fetched) = Len(Plan(fetched))
  /\ done' = Append(done, CommandIn(fetched))
  /\ IF ReplyTo(fetched[1]) = NoReply THEN UNCHANGED tx ELSE Transmit(ReplyTo(fetched[1]))
  /\ pc' = "task" /\ fetched' = <<>>
  /\ UNCHANGED <<copies, link, rx_buffer, rx_len, recv_end_flag, my_cal_len, temp_buf>>

(* A slip: the flag is cleared once more when the task is done.            *)
ControlTaskClears ==
  /\ pc = "task"
  /\ recv_end_flag' = 0
  /\ pc' = "poll" /\ my_cal_len' = 0 /\ temp_buf' = Blank
  /\ UNCHANGED <<copies, link, rx_buffer, rx_len, fetched, tx, done>>

(* my_motor_control_task, with the HAL_Delays of its ramps.                *)
ControlTask ==
  /\ pc = "task"
  /\ pc' = "poll" /\ my_cal_len' = 0 /\ temp_buf' = Blank
  /\ UNCHANGED <<copies, link, rx_buffer, rx_len, recv_end_flag, fetched, tx, done>>

Take == SeeHeader \/ ClearFlag \/ ReadLength \/ ForgetLength \/ CopyBuffer \/ WipeBuffer

Main == Take \/ CheckFrame \/ Fetch \/ AnalyseFrame \/ ControlTask

Next == (\E f \in Frames : Send(f)) \/ RxByte \/ IdleInterrupt \/ TxDone \/ Main

Spec == Init /\ [][Next]_vars

(* What is on the wire arrives, an idle line raises its interrupt, the TX  *)
(* DMA gets through and the main loop runs; nothing makes the BLE module   *)
(* send.                                                                   *)
FairSpec ==
  /\ Spec
  /\ WF_vars(RxByte) /\ WF_vars(IdleInterrupt) /\ WF_vars(TxDone) /\ WF_vars(Main)

-----------------------------------------------------------------------------
TypeOK ==
  /\ copies \in BOOLEAN
  /\ wire \in Seq(Byte) /\ frame \in Seq(Byte) /\ waiting \in BOOLEAN
  /\ dma \in 0..MaxSize
  /\ rx_buffer \in [Index -> Byte] /\ temp_buf \in [Index -> Byte]
  /\ rx_len \in Index /\ my_cal_len \in Index
  /\ fetched \in Seq(Byte) /\ Len(fetched) <= Len(Plan(fetched))
  /\ recv_end_flag \in 0..1
  /\ pc \in Place
  /\ sending \in Byte /\ packed \in Byte
  /\ done \in Seq(Seq(Byte))

(* The answer due to a frame: its command's, or the checksum error.        *)
Received(f) == [i \in Index |-> IF i < Len(f) THEN f[i + 1] ELSE 0]
Good(f) == HeaderOK(Received(f)) /\ CheckOK(Received(f), Len(f))
Agrees(command, f) == \A i \in DOMAIN command : i + 3 < Len(f) => command[i] = f[i + 3]
AnswerTo(f) == IF Good(f) THEN ReplyTo(f[4]) ELSE ChecksumError

(* With a BLE module that waits for its answers, every reply that is being *)
(* sent is the answer to its last frame, and temp_txbuf is not rewritten   *)
(* under the DMA.                                                          *)
AnswerIsForFrame == sending # NoReply => packed = sending /\ sending = AnswerTo(frame)

(* With such a module, a good frame is executed once, as it was sent, and  *)
(* a bad one not at all.                                                   *)
ExecutedOnce ==
  /\ Len(done) <= 1
  /\ done # <<>> => Good(frame) /\ Agrees(done[1], frame)

(* The bytes a command is taken from are the bytes whose checksum was      *)
(* found right (usart.c:467, "check sum OK!"), up to the last one read.    *)
CheckedIsExecuted ==
  pc = "analyse" =>
    CheckOK(Data, my_cal_len) /\ \A k \in DOMAIN fetched : fetched[k] = Data[Plan(fetched)[k]]

(* With such a module the handler is always told the length of the whole   *)
(* frame: my_cal_len - 3 never wraps to some 65,000 (usart.c:460), and the *)
(* L151 is never told to print nothing.                                    *)
CountedWhole == pc # "fault" /\ (pc = "check" => my_cal_len = Len(frame))

(* Every frame such a module sends is answered.                            *)
Answered == waiting ~> ~waiting

(* A good frame has arrived, and the line is silent.                       *)
Latest(f) ==
  /\ recv_end_flag = 1 /\ wire = <<>> /\ dma = 0
  /\ rx_len = Len(f) /\ \A i \in 1..Len(f) : rx_buffer[i - 1] = f[i]

(* The handler has the length of one or two bytes of noise in hand, with   *)
(* which my_cal_len - 3 wraps, or has come to grief over it before.        *)
Doomed == pc = "fault" \/ (pc = "check" /\ my_cal_len < 3)

(* A good frame that the line falls silent after is executed, however the  *)
(* receptions before it were garbled, cut short or overwritten, and        *)
(* wherever it finds the handler or a ramp: all but where the handler has  *)
(* taken noise of less than three bytes for a frame and not yet summed it. *)
LatestExecuted ==
  \A f \in {g \in Frames : Good(g)} :
    Latest(f) /\ ~Doomed ~> ((\E i \in DOMAIN done : Agrees(done[i], f)) \/ wire # <<>>)
=============================================================================
