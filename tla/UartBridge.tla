------------------------------ MODULE UartBridge ------------------------------
(***************************************************************************)
(* The way back: replies of the MCU reach the BLE module byte by byte, and *)
(* uart_event_handle (my_ble/app/uart/uart.c) looks for frames among them  *)
(* and notifies the app of each.  The MCU stops a reply short whenever a   *)
(* reception of its own ends (the HAL_UART_DMAStop of CarUart's idle-line  *)
(* interrupt), and the parser has no timeout to notice.  Whether the app   *)
(* is connected and listens is not considered here.                        *)
(***************************************************************************)
EXTENDS Integers, Sequences

CONSTANTS
  Replies,   \* frames my_uart3_tx_to_BLE packs, as byte sequences
  MaxCuts    \* bound on the replies cut short

Byte == 0..255
Header == 170            \* 0xAA
StatusLength == 9        \* of the answer to A4

ASSUME BridgeAssumption ==
  /\ \A r \in Replies : r \in Seq(Byte) /\ Len(r) >= 5
  /\ MaxCuts \in Nat

VARIABLES
  reply, wire,   \* the MCU's reply and the bytes of it still to come
  cuts,
  rece_flag,     \* 0, 1 look for the header, 2 for the length, 3 the rest
  rece_len, index,
  sum,           \* uint8 sum of the cells of data_array from 3 on
  whole,         \* history: data_array holds the first bytes of reply
  app,           \* history: frame notified with the last byte; its length if no reply
  missed         \* history: replies sent in full since the last cut or frame

mcu == <<reply, wire, cuts>>
parser == <<rece_flag, rece_len, index, sum>>
vars == <<mcu, parser, whole, app, missed>>

Nothing == <<>>

Init ==
  /\ reply = Nothing /\ wire = <<>> /\ cuts = 0
  /\ rece_flag = 0 /\ rece_len = 0 /\ index = 0 /\ sum = 0
  /\ whole = TRUE /\ app = Nothing /\ missed = 0

-----------------------------------------------------------------------------
(* The MCU.                                                                *)

StartReply(r) ==
  /\ wire = <<>>
  /\ reply' = r /\ wire' = r
  /\ missed' = missed + 1
  /\ UNCHANGED <<cuts, parser, whole, app>>

(* The byte in the shift register still gets out.                          *)
CutReply ==
  /\ wire # <<>> /\ wire # reply /\ cuts < MaxCuts
  /\ wire' = <<>> /\ cuts' = cuts + 1
  /\ missed' = 0
  /\ UNCHANGED <<reply, parser, whole, app>>

-----------------------------------------------------------------------------
(* uart_event_handle, event APP_UART_DATA_READY.                           *)

Restart == rece_flag' = 0 /\ index' = 0

(* A slip: the second byte of the header is not looked at.                 *)
SecondHeaderAny(b) ==
  /\ rece_flag = 1
  /\ rece_flag' = 2 /\ index' = index + 1
  /\ UNCHANGED <<rece_len, sum>>

FirstHeader(b) ==
  /\ rece_flag = 0
  /\ \/ b = Header /\ rece_flag' = 1 /\ index' = index + 1
     \/ b # Header /\ Restart
  /\ UNCHANGED <<rece_len, sum>>

SecondHeader(b) ==
  /\ rece_flag = 1
  /\ \/ b = Header /\ rece_flag' = 2 /\ index' = index + 1
     \/ b # Header /\ Restart
  /\ UNCHANGED <<rece_len, sum>>

LengthByte(b) ==
  /\ rece_flag = 2
  /\ rece_flag' = 3 /\ rece_len' = b /\ index' = index + 1
  /\ sum' = 0

(* The byte arriving, like all before it in data_array, has the place it   *)
(* has in the reply.                                                       *)
InPlace == Len(reply) - Len(wire) = index /\ (index = 0 \/ whole)

(* A slip: the comparison that finds the last byte is one off.             *)
LastByteLate(n) == ~(n > index)

(* The else branch of rece_len > index + 1.                                *)
LastByte(n) == ~(n > index + 1)

(* A slip: the checksum is not looked at.                                  *)
FrameCheckedNot(total) == TRUE

(* my_check_code_analysis over the cells from 3 to rece_len - 1.  With a   *)
(* rece_len below 3 its uint16 length makes it run off the end of the RAM; *)
(* the HardFault ends in a watchdog reset, with an idle parser as here.    *)
FrameChecked(total) == rece_len > 3 /\ total = 255

(* Good or bad, the parser is reset.                                       *)
FrameDone == Restart /\ rece_len' = 0

FrameByte(b) ==
  LET total == (sum + b) % 256
  IN /\ rece_flag = 3
     /\ \/ ~LastByte(rece_len) /\ index' = index + 1 /\ sum' = total
           /\ app' = Nothing
           /\ UNCHANGED <<rece_flag, rece_len>>
        \/ LastByte(rece_len) /\ FrameDone /\ sum' = 0
           /\ app' = IF ~FrameChecked(total) THEN Nothing
                     ELSE IF InPlace /\ rece_len = Len(reply) THEN reply ELSE <<rece_len>>

ReceiveByte ==
  /\ wire # <<>>
  /\ wire' = Tail(wire)
  /\ whole' = InPlace
  /\ \/ (FirstHeader(Head(wire)) \/ SecondHeader(Head(wire)) \/ LengthByte(Head(wire)))
        /\ app' = Nothing
     \/ FrameByte(Head(wire))
  /\ missed' = IF rece_flag = 3 /\ LastByte(rece_len) /\ FrameChecked((sum + Head(wire)) % 256)
                 THEN 0 ELSE missed
  /\ UNCHANGED <<reply, cuts>>

Next == (\E r \in Replies : StartReply(r)) \/ CutReply \/ ReceiveByte

Spec == Init /\ [][Next]_vars

-----------------------------------------------------------------------------
(* The parser's state is its index: 0, 1 and 2 in the header, from 3 on    *)
(* below the length, but for the one byte that is read before the length   *)
(* is first looked at.                                                     *)
IndexInFrame ==
  /\ rece_flag < 3 => index = rece_flag
  /\ rece_flag = 3 => index = 3 \/ index < rece_len

(* Types; in particular the uint8 index keeps within the frame, never      *)
(* wraps, and stays inside data_array, which has 1024 cells.               *)
TypeOK ==
  /\ reply \in Replies \cup {Nothing} /\ wire \in Seq(Byte)
  /\ cuts \in 0..MaxCuts
  /\ rece_flag \in 0..3 /\ rece_len \in Byte
  /\ index \in 0..254 /\ IndexInFrame
  /\ sum \in Byte
  /\ whole \in BOOLEAN /\ app \in Replies \cup {Nothing} \cup [1..1 -> Byte]
  /\ missed \in Nat

(* Whatever is cut, the parser takes for a length only the length of a     *)
(* reply or, after a cut, a header byte; never one below 3, with which the *)
(* checksum would run off the end of the RAM.                              *)
LengthSane == rece_flag = 3 => rece_len \in {Len(r) : r \in Replies} \cup {Header}

(* What the app is notified of may be a mixture of a cut reply and later   *)
(* ones that passes the checksum: a status that ends in the header of the  *)
(* next reply, or a frame as long as a header byte says.  The shorter      *)
(* replies, which tell of a command's success, are never mixtures.         *)
AcksAreReplies == Len(app) = 1 => app[1] \in {StatusLength, Header}

(* A cut reply costs the app no more replies than fill a frame of the      *)
(* length its header byte is taken for, 170 bytes: the parser then finds   *)
(* the next header, although it has no timeout.                            *)
LossBounded == missed <= Header \div 5 + 2
=============================================================================
