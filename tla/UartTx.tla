-------------------------------- MODULE UartTx --------------------------------
(***************************************************************************)
(* How the BLE module gets the app's bytes onto the UART.  A write event   *)
(* (uarts_data_handler, my_ble.c) puts its bytes with app_uart_put, which  *)
(* queues them and starts the transmitter when it rests; the UART's        *)
(* interrupt takes the next byte when one is out (app_uart_fifo.c,         *)
(* app_fifo.c, nrfx_uarte.c).  BLE events have priority 6, the UART        *)
(* APP_IRQ_PRIORITY_LOWEST, which is 7: a write event can fall between any *)
(* two steps of the interrupt, never the other way round.                  *)
(***************************************************************************)
EXTENDS Integers

CONSTANTS
  Cap,       \* UART_TX_BUF_SIZE, 256: size of the FIFO, a power of two
  Wrap,      \* 2^32: read_pos and write_pos are uint32
  MaxBytes,  \* bound on the bytes the app writes between two resets
  MaxWrite   \* bound on those of one write

ASSUME TxAssumption ==
  /\ Cap \in Nat \ {0} /\ Wrap \in Nat /\ Wrap > Cap /\ Wrap % Cap = 0
  /\ MaxBytes \in Nat /\ MaxWrite \in Nat

VARIABLES
  buf, read_pos, write_pos,   \* m_tx_fifo; a byte is its ordinal
  tx_buffer,                  \* the cell DMA reads
  busy,                       \* tx_buffer_length # 0
  line, endtx,                \* a byte is being shifted out; event ENDTX
  isr, tmp,                   \* place of the interrupt handler, its register
  left,                       \* bytes the running write event has still to put
  put,                        \* ordinal of the last byte put
  last, skipped, twice,       \* history: the last byte sent, bytes passed over, sent again
  raced,                      \* history: writes that began inside the interrupt
  stray                       \* history: read_pos has overtaken write_pos

fifo == <<buf, read_pos, write_pos>>
sent == <<last, skipped, twice>>
vars == <<fifo, tx_buffer, busy, line, endtx, isr, tmp, left, put, sent, raced, stray>>

Place == {"idle", "get", "size", "peek", "load", "store", "tx", "start"}
Position == 0..Wrap - 1

Init ==
  /\ buf = [i \in 0..Cap - 1 |-> 0] /\ read_pos = 0 /\ write_pos = 0
  /\ tx_buffer = 0 /\ busy = FALSE
  /\ line = FALSE /\ endtx = FALSE
  /\ isr = "idle" /\ tmp = 0
  /\ left = 0 /\ put = 0
  /\ last = 0 /\ skipped = 0 /\ twice = 0
  /\ raced = 0 /\ stray = FALSE

-----------------------------------------------------------------------------
(* app_fifo.c.  Positions run through the whole uint32 range.              *)

(* A slip: the position is not reduced.                                    *)
AfterUnbounded(pos) == pos + 1

After(pos) == (pos + 1) % Wrap

LengthFrom(pos) == (write_pos - pos) % Wrap
Length == LengthFrom(read_pos)

(* A slip: a full FIFO is written to.                                      *)
RoomAlways == TRUE

(* FIFO_LENGTH() <= buf_size_mask                                          *)
Room == Length < Cap

At(pos) == pos % Cap

-----------------------------------------------------------------------------
(* nrfx_uarte_tx once it has found no transmission in progress.            *)

Shift(b) ==
  /\ last' = b
  /\ skipped' = IF b > last THEN skipped + (b - last - 1) ELSE skipped
  /\ twice' = IF b > last THEN twice ELSE twice + 1

(* STARTTX with a byte still on the line, which the driver means never to  *)
(* do, is ignored or sends another one after it.                           *)
StartTransmitter(b) ==
  /\ busy' = TRUE /\ endtx' = FALSE /\ line' = TRUE
  /\ \/ Shift(b)
     \/ line /\ UNCHANGED sent

(* The byte in the shift register is out.                                  *)
LineDone ==
  /\ line
  /\ line' = FALSE /\ endtx' = TRUE
  /\ UNCHANGED <<fifo, tx_buffer, busy, isr, tmp, left, put, sent, raced, stray>>

-----------------------------------------------------------------------------
(* The write event: uarts_data_handler calls app_uart_put for each byte.   *)

WriteEvent(n) ==
  /\ left = 0 /\ put + n <= MaxBytes
  /\ left' = n
  /\ raced' = IF isr = "idle" THEN raced ELSE raced + 1
  /\ UNCHANGED <<fifo, tx_buffer, busy, line, endtx, isr, tmp, put, sent, stray>>

Queue ==
  /\ put' = put + 1
  /\ buf' = [buf EXCEPT ![At(write_pos)] = put + 1]
  /\ write_pos' = After(write_pos)

(* A slip: the byte is left to the interrupt, transmission or not.         *)
PutOnlyQueues ==
  /\ left > 0 /\ Room
  /\ left' = left - 1
  /\ Queue
  /\ UNCHANGED <<read_pos, tx_buffer, busy, line, endtx, isr, tmp, sent, raced, stray>>

(* A slip: with the transmitter at rest the new byte itself is sent.       *)
PutNewestFirst ==
  /\ left > 0 /\ Room
  /\ left' = left - 1
  /\ \/ busy /\ Queue /\ UNCHANGED <<read_pos, tx_buffer, busy, line, endtx, sent>>
     \/ /\ ~busy /\ put' = put + 1
        /\ tx_buffer' = put + 1 /\ StartTransmitter(put + 1)
        /\ UNCHANGED fifo
  /\ UNCHANGED <<isr, tmp, raced, stray>>

(* app_uart_put: with the transmitter at rest the oldest byte of the FIFO, *)
(* which need not be the new one, is taken out and sent.                   *)
Put ==
  /\ left > 0 /\ Room
  /\ left' = left - 1
  /\ Queue
  /\ \/ busy /\ UNCHANGED <<read_pos, tx_buffer, busy, line, endtx, sent>>
     \/ /\ ~busy
        /\ tx_buffer' = buf'[At(read_pos)] /\ read_pos' = After(read_pos)
        /\ StartTransmitter(tx_buffer')
  /\ UNCHANGED <<isr, tmp, raced, stray>>

(* No room is NRF_ERROR_NO_MEM, which APP_ERROR_CHECK answers with a reset *)
(* of the chip: all of RAM is as at first.                                 *)
PutFails ==
  /\ left > 0 /\ ~Room
  /\ buf' = [i \in 0..Cap - 1 |-> 0] /\ read_pos' = 0 /\ write_pos' = 0
  /\ tx_buffer' = 0 /\ busy' = FALSE
  /\ line' = FALSE /\ endtx' = FALSE
  /\ isr' = "idle" /\ tmp' = 0
  /\ left' = 0 /\ put' = 0
  /\ last' = 0 /\ skipped' = 0 /\ twice' = 0
  /\ raced' = 0 /\ stray' = FALSE

-----------------------------------------------------------------------------
(* The interrupt: uarte_irq_handler, tx_done_event, uart_event_handler.    *)
(* Each step is one access that a write event can come before.             *)

Interrupt == left = 0

(* A slip: tx_done_event does not note that the transmission has ended.    *)
IsrDoneStillBusy ==
  /\ Interrupt /\ isr = "idle" /\ endtx
  /\ endtx' = FALSE
  /\ isr' = IF busy THEN "get" ELSE "idle"
  /\ UNCHANGED <<fifo, tx_buffer, busy, line, tmp, left, put, sent, raced, stray>>

(* ENDTX: tx_done_event clears tx_buffer_length, then calls the handler.   *)
IsrDone ==
  /\ Interrupt /\ isr = "idle" /\ endtx
  /\ endtx' = FALSE /\ busy' = FALSE
  /\ isr' = IF busy THEN "get" ELSE "idle"
  /\ UNCHANGED <<fifo, tx_buffer, line, tmp, left, put, sent, raced, stray>>

(* app_fifo_get, first load of fifo_length.                                *)
IsrGet ==
  /\ Interrupt /\ isr = "get"
  /\ tmp' = read_pos /\ isr' = "size"
  /\ UNCHANGED <<fifo, tx_buffer, busy, line, endtx, left, put, sent, raced, stray>>

(* Second load; an empty FIFO is APP_UART_TX_EMPTY, which nobody handles.  *)
IsrSize ==
  /\ Interrupt /\ isr = "size"
  /\ isr' = IF LengthFrom(tmp) # 0 THEN "peek" ELSE "idle"
  /\ UNCHANGED <<fifo, tx_buffer, busy, line, endtx, tmp, left, put, sent, raced, stray>>

IsrPeek ==
  /\ Interrupt /\ isr = "peek"
  /\ tx_buffer' = buf[At(read_pos)] /\ isr' = "load"
  /\ UNCHANGED <<fifo, busy, line, endtx, tmp, left, put, sent, raced, stray>>

(* read_pos++                                                              *)
IsrLoad ==
  /\ Interrupt /\ isr = "load"
  /\ tmp' = read_pos /\ isr' = "store"
  /\ UNCHANGED <<fifo, tx_buffer, busy, line, endtx, left, put, sent, raced, stray>>

IsrStore ==
  /\ Interrupt /\ isr = "store"
  /\ read_pos' = After(tmp) /\ isr' = "tx"
  /\ stray' = (stray \/ (write_pos - read_pos') % Wrap > Cap)
  /\ UNCHANGED <<buf, write_pos, tx_buffer, busy, line, endtx, tmp, left, put, sent, raced>>

(* nrfx_uarte_tx; NRFX_ERROR_BUSY is cast to void.                         *)
IsrTx ==
  /\ Interrupt /\ isr = "tx"
  /\ isr' = IF busy THEN "idle" ELSE "start"
  /\ UNCHANGED <<fifo, tx_buffer, busy, line, endtx, tmp, left, put, sent, raced, stray>>

IsrStart ==
  /\ Interrupt /\ isr = "start"
  /\ StartTransmitter(tx_buffer) /\ isr' = "idle"
  /\ UNCHANGED <<fifo, tx_buffer, tmp, left, put, raced, stray>>

Isr == IsrDone \/ IsrGet \/ IsrSize \/ IsrPeek \/ IsrLoad \/ IsrStore \/ IsrTx \/ IsrStart

Next == (\E n \in 1..MaxWrite : WriteEvent(n)) \/ Put \/ PutFails \/ LineDone \/ Isr

Spec == Init /\ [][Next]_vars

(* The line runs on its own, the writer's loop and the interrupt go on as  *)
(* soon as nothing of higher priority runs; nothing makes the app write.   *)
FairSpec == Spec /\ WF_vars(LineDone) /\ WF_vars(Put \/ PutFails) /\ WF_vars(Isr)

-----------------------------------------------------------------------------
(* Types; in particular the positions stay uint32, whatever the order in   *)
(* which the handler and the writer change them.                           *)
TypeOK ==
  /\ buf \in [0..Cap - 1 -> Nat] /\ read_pos \in Position /\ write_pos \in Position
  /\ tx_buffer \in Nat /\ busy \in BOOLEAN
  /\ line \in BOOLEAN /\ endtx \in BOOLEAN
  /\ isr \in Place /\ tmp \in Position
  /\ left \in Nat /\ put \in Nat
  /\ last \in Nat /\ skipped \in Nat /\ twice \in Nat
  /\ raced \in Nat /\ stray \in BOOLEAN

(* No wakeup is lost: with handler and writer at rest, bytes in the FIFO   *)
(* mean that a transmission is in progress, and one in progress that its   *)
(* byte is on the line or its ENDTX still to be handled.  The writer's     *)
(* test of tx_in_progress, which an interrupt half done can make stale,    *)
(* never leaves the queue behind.                                          *)
NoStall ==
  /\ isr = "idle" /\ left = 0 /\ Length # 0 => busy
  /\ busy => line \/ endtx

(* The shared tx_buffer and read_pos cost no more than one byte skipped    *)
(* and one doubled for each write event that fell into the interrupt; an   *)
(* app whose writes never do has every byte sent once.  After a write has  *)
(* read_pos overtake write_pos, what is sent is no longer the app's.       *)
LossPerRace ==
  IF stray THEN raced > 0 ELSE skipped <= raced /\ twice <= raced

(* Bytes are sent in the order of app_uart_put, raced or not; only a reset *)
(* starts afresh.                                                          *)
OrderKept == [][~stray => last' >= last \/ put' = 0]_vars

(* Once the app pauses, the FIFO runs empty (or the chip was reset): the   *)
(* interrupts never stop half way.                                         *)
Drains == (Length # 0 /\ left = 0) ~> (Length = 0)

(* app_uart_fifo.c:227, of a byte for which app_uart_put returned success: *)
(* "It will be picked up from there (in 'uart_event_handler') when all     *)
(* preceding bytes are transmitted".                                       *)
EveryByteSent == skipped = 0
=============================================================================
