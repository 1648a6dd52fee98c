# A TLA+ model of the BLE car

The repository holds a toy car steered from a phone. A phone app talks Bluetooth
LE to an nRF52832 module (`software/my_ble`), which passes bytes over a UART to the
MCU that drives three motors: an STM32F103 (`software/my_mcu`) or, in a port, an
STM32L151 (`software/my_l151_motor`). The frames are tabulated in
`protocol/BLE_CAR_通信协议V1.0.0.xlsx`; the sources are GBK-encoded.

This directory models the MCU firmware of both boards: the link to the BLE module
byte by byte, the command analysis, and the motor task with its ramps; and of the BLE
module the parser for the replies that come back, the transmit FIFO and its interrupt,
the connection with its timers, notifications and watchdog, and the configuration in
flash. It checks them with TLC, and tlapm proves every safety property the passing runs
check, and two refinements of abstract specifications, for all values of the
constants.

## 1. Inventory

    app  ⇄ (GATT write / notification) ⇄  nRF52832  ⇄ (UART, AA AA len id … sum) ⇄  MCU → TIM2 PWM, direction pins

| Component | State | Operations | Modelled by |
|---|---|---|---|
| Motor task and ramps: `Motor/motor.c` | `g_Motor*`, `g_ControlMotorFlag`, the timer's compare registers, the direction pins, locals of the running ramp | `my_motor_control_task`, `motors_set_speed_soft`, `stop_all_motors_sync`, `car_turn_soft` | `CarMotor` |
| Command analysis: `Core/Src/usart.c` | the `g_` variables, the reply being packed | `control_protocol_analysis` (A1–A5), `my_uart3_tx_to_BLE`, `my_set_car_stop_func` | `CarControl` |
| UART link: `usart.c`, `stm32f1xx_it.c`, `stm32l1xx_it.c` | `rx_buffer`, `rx_len`, `recv_end_flag`, both DMA transfers, `temp_txbuf` | idle-line interrupt, `my_motor_control_protocol_analysis`, the transmit DMA | `CarUart` |
| BLE module, UART bridge: `my_ble/app/my_ble.c`, `uart/uart.c`, on the SDK's `app_uart_fifo.c`, `app_fifo.c`, `nrfx_uarte.c` | transmit FIFO, `tx_buffer`, `tx_buffer_length`; parser state of `uart_event_handle` | `uarts_data_handler`, `app_uart_put`, the UART's interrupt, `uart_event_handle` | `UartTx` (out), `UartBridge` (in); `CarUart`'s sender is the other end of both |
| BLE module, connection: `my_ble.c`, `main.c`, on `ble_conn_params.c` | `m_conn_handle`, `g_AppConnectFlag`, `g_AppConnectTimeCount`, `update_count`, the parameter timer, watchdog | `ble_evt_handler`, `my_timeout_handler`, `my_ble_disconnect`, `on_conn_params_evt`, the main loop | `BleLink` |
| BLE module, UART service: `ble_uarts/my_ble_uarts.c` | `is_notification_enabled` per link | `on_connect`, `on_write`, `ble_uarts_data_send` under `my_uart_ble_send` | `BleLink` |
| BLE module, configuration in flash: `fds/my_fds.c`, on the SDK's `fds.c` | event flags, `m_dummy_cfg`; `m_pages`, `m_swap_page`, `m_gc`; page tags and records in flash | `my_flash_init`, `read_systerm_config_from_fds`, `my_fds_once_write`, `fds_gc_data`, `fds_evt_handler` | `FdsStore` |
| BLE module, frame reassembly: `my_ble.c` | receive ring, `my_data_analysis` statics | `my_nus_data_recv_handler_task`, `my_data_analysis` | no: its producer is commented out |
| Scanning, MAC address | | `scan_start` is commented out; the address is read once and logged | no |
| Ultrasonic sensor, wheel pulses | echo times; pulse counts | echo and capture interrupts; nothing reads the results | no |

**How they interact.** Everything the MCU does happens in one loop (`main.c:131`):
the protocol handler, then the motor task. The handler leaves a request in
`g_ControlMotorFlag`, and the task carries it out, blocking in `HAL_Delay` for up
to half a second. The idle-line interrupt and the two DMA channels run at any
moment of that, and share `rx_buffer`, `rx_len`, `recv_end_flag` and `temp_txbuf`
with the handler without any lock. The nRF module forwards what the app writes
without looking at it. On the nRF, events of the SoftDevice and app timers run at
priority 6, the UART's interrupt at 7 and `main` below: a write of the app may
interrupt the transmit handler at any access, and a notification being retried in the
receive handler keeps `main` from feeding the watchdog. Whatever `APP_ERROR_CHECK`
does not like resets the module.

**What is hard.** Frames that arrive while the handler is between two statements
or deep in a ramp; a flag left over from noise; a reply cut off by the next
reception, or repacked while it is being sent; ramps computed in integers and
`uint16_t`; direction pins that are read back from one wheel and believed of all;
parameters that were stored by a command before the last one. On the nRF: two priorities
in one FIFO; events that are still waiting when what they are about has changed; state
about a peer that outlives its connection; a reset between any two flash operations.

**What makes each component correct.**
- *Motor task*: a direction pin is switched only at rest; the wheels of a moving
  car agree; a ramp moves duties softly and ends exactly at its target; the stop
  ramp always counts down; the loop always comes back to poll.
- *Commands*: one request at a time is carried out with the parameters in force;
  the status answer says what the car is doing.
- *UART link*: what is executed was checked, and once; each frame is answered,
  with the answer to that frame; a good frame that is followed by silence is
  executed, whatever came before. The last of these holds of the F103 but for noise of one
  or two bytes, the first of the L151 only (section 5).
- *Bridge*: the app is told of a command's success only by the reply to it, however
  replies are cut, and after a cut the parser finds the next one again.
- *Transmit FIFO*: no wakeup is lost, bytes keep their order, and each is sent once
  unless a write falls into the interrupt.
- *Connection, service*: what the application believes of the link is so once no event
  is waiting; a link without data is dropped; a peer that asked for notifications gets
  them; the chip is not reset over a healthy link; a send that is retried ends.
- *Flash configuration*: a wait ends, and a reset between two steps leaves the
  configuration confirmed last.

`PROJECT.json` lists the hazards one by one at their lines.

## 2. Modules

    CarService  <-(refinement)-  CarControl -EXTENDS-> CarMotor
                                   ^    ^
                   MCCarControl ---+    +--- CarControlProof <- CarPinsProof
    CarUart <- MCCarUart, CarUartProof
    CarMcu -EXTENDS-> CarUart, -INSTANCE-> CarControl;  CarMcu <- MCCarMcu, CarMcuProof
    UartBridge <- MCUartBridge, UartBridgeProof
    UartTx <- UartTxProof
    BleLink <- BleLinkProof
    ConfigRecord  <-(refinement)-  FdsStore <- FdsStoreProof

`UartTx`, `BleLink` and `FdsStore` have no sets to define for TLC and are run as they
are. History variables are named as such where they are declared; no guard reads one but
to bound it.

**`CarMotor`** is `motor.c`. One action is the code between two `HAL_Delay`s, so a
state is something the wheels are really driven with. `ccr[w]` is the compare
register of wheel `w`, `cw[w]` its direction pin, `pc` the `HAL_Delay` or call the
loop is in; `top`, `size`, `goal`, `base`, `extra`, `from`, `slow`, `inner` are the
ramps' locals, reset when a ramp returns so that two states that behave alike are
one. `RunBegins`/`RunStep`/`RunEnds` are `motors_set_speed_soft`,
`StopBegins`/`StopStep` are `stop_all_motors_sync`, `TurnBegins`/`TurnStep`/`TurnEnds`
are `car_turn_soft`, and the `Task…` actions are the branches of
`my_motor_control_task`. The boards differ in three constants: `Mirrored` (motor
2 of the L151 is wired the other way round), `BootPin` (the level
`MX_GPIO_Init` leaves on the pins) and `InTable` (see *Stray reads*).

**`CarControl`** adds `control_protocol_analysis`: `PollCommand` takes any command
of the enumerated bytes, stores parameters, notes the reply and leaves the request. The code
reads the parameters twice, to check them and to store them (`usart.c:393-396`). A command is
a record of what was stored (`d4`, `d5`) and of what the check found (`ok`); with `Torn` the
two need not agree, since the F103 reads them from the buffer the DMA is writing.

**`CarService`** is what the motor task promises a user, with no ramp, pin or
register: requests are carried out one at a time, each ends exactly in the motion
asked for or is skipped because the car is there already, and the car turns round
only at rest. `CarControl` implements it (`ServiceSpec`): `duty` is hidden
while a ramp moves it and `phase` summarises `pc`.

**`CarUart`** is the link at the level of bytes. `wire` holds the bytes of the frame
being sent, `dma` counts the bytes in `rx_buffer`, and the handler is cut wherever
an interrupt can change what it reads next: before the flag is cleared, before the
length is read, before the checksum, and before every single read of the analysis.
`Reads` lists the cells a command makes it read, in order: of A1 `data[4]` three times and
`data[5]` twice. `Fetch` is one of these reads, or the value of an earlier one of the same cell,
as the compiler may keep it (`rx_buffer` is not volatile); `AnalyseFrame` works on `fetched`.
`copies` says which board it is: the L151 handler zeroes `rx_len` (`ForgetLength`), copies the
buffer (`CopyBuffer`) and then clears as many bytes of it as `rx_len` says by now
(`WipeBuffer`); on a bad header it does the first and the last. `done` is a history variable, the commands executed since
the sender's last frame. `CarUart` knows nothing of motors: the task is the one step
`ControlTask`, which may be arbitrarily late.

**`CarMcu`** is the F103's `main.c`: `CarUart` and `CarControl` as one program. `Execute`
is the link's `AnalyseFrame` and the car's `ControlProtocolAnalysis` in one step, of the
command that the reads before it amount to (`Fetched`): the ones that check it decide `ok`, the
ones that store it are `d4` and `d5`. So its commands are torn whenever a frame overwrites
another in between, and never with a module that waits (`Torn <- ~Paced`); `MotorTask` is a step of the car's task, the last of which is the link's
`ControlTask`; everything else (`LinkOnly`) leaves the car alone and may come in the
middle of any ramp. `place` is what `CarControl` calls `pc`. On the L151 the reset of
`CheckFrame` would have to take the car with it; the composition is of the F103 only.

**`UartBridge`** is the way back. The MCU's idle interrupt stops a reply at whatever
byte it is at (`CutReply`); `uart_event_handle` goes on from the state the cut left it
in. `FirstHeader`, `SecondHeader`, `LengthByte` and `FrameByte` are its four states. Of
`data_array` only the running checksum is kept; whether it holds a reply as sent is the
history `whole`. `missed` counts the replies sent in full since the last cut that the
app has not been notified of.

**`UartTx`** is the way out, cut at every access that a write event can come before.
`Put` is `app_uart_put`, which is never interrupted; the `Isr…` actions are the
interrupt: `tx_done_event` clears `tx_buffer_length` (`IsrDone`, here `busy`),
`fifo_length` loads `read_pos` and `write_pos` one after the other (`IsrGet`, `IsrSize`),
`fifo_get` reads a byte and then loads and stores `read_pos` (`IsrPeek`, `IsrLoad`,
`IsrStore`), `nrfx_uarte_tx` looks whether a transmission is in progress and starts one
(`IsrTx`, `IsrStart`). A byte is its ordinal, so that the histories `last`, `skipped` and
`twice` can tell what the line has carried; `raced` counts the writes that began inside
the interrupt. `PutFails` is the full FIFO, which resets the chip.

**`BleLink`** is everything that reads or writes the state of the connection. Events
wait in `evq` until `Handle` has all observers of one see it; a peer and the
SoftDevice (`Air`) act meanwhile. Only what the headers promise is taken from the
SoftDevice: `sd_ble_gap_disconnect` fails on a link that is not up, `sd_ble_gatts_hvx`
on a missing CCCD state or a full queue. `Tick` is a second of `my_timeout_handler`, and
what is due within a second is done before it is over (`DueDone`). `Send` is one pass of
the loop in `my_uart_ble_send`, which runs in the UART's interrupt and so only when no
event waits. `cause` says of each state whether the step before it was a reset, and why;
`asked` and `paired` what the peer of this link has done.

**`FdsStore`** is `my_fds.c` together with as much of `fds.c` as decides what a reset
leaves behind. An action is one operation on the flash and the code up to the next.
`tag` and `recs` are the flash, which `Reset` keeps; `pages`, `swap` and `can_gc` are
what `pages_init` makes of it at `Boot`, in its order: as the pages lie, but for an erased
page met before any swap page, which is entered when the swap page is met (`DataPages`).
`fds_record_find` and `write_space_reserve` go by that order, and the page a boot promotes the
swap page against is the last erased one in it (`Candidate`). `FirstStep` chooses among the repairs of
`fds_init`; `Write…`, `FlagDirty` are the steps of `write_execute`, `Gc…` those of
`gc_execute`. Records are told apart by the version of the configuration they hold.
`TimesOut` gives an operation up, once the SoftDevice runs. `confirmed` is the last
version reported stored, `cut` that some update was left with both its records in flash.

**`ConfigRecord`** is what main may take fds for, with no page, tag or swap page: the set
of versions a boot may find, to which a store adds the new one before it drops the old,
and which nothing else changes. `FdsStore` implements it (`RecordSpec`). The mapping is
in the last lines of `FdsStore`: `RecordHeld` collects the records that count from the
pages in `Home`, which are the data pages and, once a page has been erased, the swap page;
`RecordPhase` is where main is in a store; `doubt` is `cut`, the state in which
two versions are held and a boot may take either.

### Abstractions

- **Stray reads.** `channel_to_index` (`motor.c:381`) is indexed with
  `TIM_CHANNEL_x`, which is 0, 4, 8, 12: all but channel 1 read outside
  `current_pwm[4]`. `InTable` is the set of wheels whose read is inside; the others
  read a value of `Stray` anew in every iteration. Turn level 0, which the
  analysis accepts, reads `speed_inner_table[-1]`, also from `Stray`.
- `calculate_step_pwm` multiplies by a `float` ratio. At step 13 of 20 an exact
  product may come out one count lower than the model's; no property can tell.
- The test of the header, the checksum loop, `memcpy` and `memset` are one step each. So a
  sum over, or a copy of, a buffer that is half one frame and half the next is in the model
  (the DMA may have come to any byte before the step), one that changes while the loop passes over
  it is not. The reads after the check are single.
- `HAL_UART_DMAStop` stops both directions, so the idle interrupt also drops the
  reply being sent. UART errors are left to the HAL. In the idle interrupt's own
  print no byte is lost at 9600 baud, as the data register holds one.
- A frame's bytes follow each other without a gap (the nRF's FIFO feeds them), so
  the line falls idle only between two frames.
- `UartBridge` has a reply cut short but not one repacked in `temp_txbuf` while the DMA is
  sending it. That takes a module that does not wait; in `CarUart` it is the mixture of
  `TxDone`.
- `my_check_code_analysis` with a length below 3 sums 65,000 bytes and leaves the
  RAM; the HardFault handler loops for ever. That is the absorbing place `fault`.
- `UartTx`: the interrupt's other sources (reception) only delay it, and it may be
  arbitrarily late as it is. `STOPTX` takes effect at once. A `STARTTX` over a byte still
  on the line is ignored or sends another byte.
- `BleLink`: there is one peripheral link (`sdk_config.h`) and a notification queue of
  one place, the SoftDevice's default. What bytes are written is `UartTx`'s subject, and
  their length stays below the 244 bytes of the service. A GATT timeout may come on any
  link at any time. Every frame may be sent as a notification at any time.
- `FdsStore`: erasing a page and writing a word are not cut in two; a record being copied
  is cut either before its header is whole or after. A page holds `Slots` records. Store
  and first record come from one file and key, so `fds_record_find` takes any live
  record. CRC checks are off in `sdk_config.h`. `fds_once_storage`, whose only call is
  commented out (`main.c:170`), is an operation `main` may perform at any time; without
  it only the first record is ever written. The branch of `my_fds_once_write` for a
  record that is not found (`my_fds.c:213`) is never taken, as `main` is not reached without one.
- Replies are their ID; the status answer carries its four values.

## 3. Runs

| Run | What it shows |
|---|---|
| `CarControlF103` | The F103 car under every sequence of commands, out-of-range parameters and turn level 0 included. `WheelsAgree`, `DirectionAtRest`, `RunMatchesCommand`; the stop ramp counts down, never speeds a wheel up and ends (`StopProgress`, `StopSlows`, `StopStops`); the loop comes back (`Responsive`); `CarService` is implemented, its fairness included. |
| `CarControlL151` | The L151 car, whose turn ramps start from stray values at every wheel, under documented parameters. `SoftRun`: no run ramp wraps a `uint16_t`, exceeds its step or ends in a jump; and a stop ends in rest (`StopStops`). `StopProgress` and `StopSlows` are proved for either board and not run again here. |
| `CarUartPaced` | Both boards with a sender that awaits its answers: `ExecutedOnce`, `AnswerIsForFrame`, `CheckedIsExecuted`, `Answered`; and the handler never works with a length other than the whole frame's (`CountedWhole`), so that `my_cal_len - 3` does not wrap. |
| `CarMcu` | The F103's whole loop with a sender that does not wait, frames and noise of two bytes back to back, before, in and after ramps and between two reads of one parameter. `LatestExecuted`: a good frame that is followed by silence is executed, whatever was received, cut short or overwritten before it and wherever it finds the loop, unless the handler has taken one or two bytes of noise for a frame and not yet summed it (`Doomed`). `StopFrameRests`: if it is a stop, the car comes to rest, whatever torn commands have stored. `LinkFair`, `CarSpec`: the loop is a `CarUart` whose task always ends, and a `CarControl` with torn commands whose requests nobody overwrites, so that what each of the other runs assumes of the other half is so. |
| `UartBridge` | Replies of 5, 6 and 9 bytes, two of them cut at any byte. What the parser takes for a length is one, or a header byte (`LengthSane`); what it notifies with the length of an answer to a command is one (`AcksAreReplies`), while a status or a frame of 170 bytes may be a mixture (section 5); it finds the header again after at most 36 replies (`LossBounded`). |
| `UartTx` | Writes of up to six bytes falling anywhere in the interrupt: `NoStall`, the FIFO is never left with the transmitter at rest; `OrderKept`; `LossPerRace`, at most one byte skipped and one doubled per write that began inside the interrupt, and none for an app whose writes never do; `Drains`. |
| `BleLink` | Every peer: out of range, silent, pairing, subscribing or not, taking no notification, leaving a request unanswered. `LinkTracked`, `SubscriberServed`; `HealthyReset`, what may reset the chip while the peer is there; `IdleEnds`, no link stays up without data; `SendEnds`, the retry loop ends, if need be by the watchdog. |
| `FdsStore` | Six stores, collections whenever a page is full, resets anywhere, operations that time out: `Stored`, what is found after any of them is whole, what was confirmed last or a later version is always held, and is what is found unless an update was left with both its records; `RecordSpec`, resets, boots and collections change nothing a boot may find; `StoreEnds`. |
| `Claim…` | The four disagreements of section 5 that have a run, one each. |

**Bounds.** `Steps` (20), `Duty`, `Inner` and `Outer` are the code's own values: the
ramps are checked in the arithmetic the car runs. `Stray = {0, 40000}` is one value
below and one above every duty, the second high enough for a run ramp from it to
come near the end of `uint16_t`. `Bytes4` and `Bytes5` hold each valid parameter's extremes and the first
invalid value on each side. The number of commands is not bounded.
In `CarUart`, `MaxSize` is 16 in place of 256; the paced run has one frame per kind of command
and a damaged one. `Burst` (6 in `CarMcu`) lets noise come before or after a frame, alone or several
times, in one reception or in several, of two, four or six bytes: a length for which
`my_cal_len - 3` wraps, and lengths for which the sum is taken. It stays
below `MaxSize`: the runs do not fill the buffer, so the wrap of `rx_len` (256 bytes without a
gap) is stated in `ReceivedLength` but exercised only by the type proof.
In `CarMcu` the ramps have two iterations and the duties are 2 to 6, as what matters is only
that receptions fall before, in and after each kind of step; the code's own numbers are in
`CarControlF103`. The run's frames are a turn, whose level is read twice, a stop and noise of two
bytes. With noise of one byte there are 3.1 million states, too many for liveness; with A1 in the
place of the turn and noise there are more than 26 million. A1 and its run ramps were therefore run
without noise (a start backward at level 5 and stops, receptions of up to 10 bytes, 419,256
states, `LinkFair` and `CarSpec`), and so was `LatestExecuted` on `CarUart` alone with noise of
one byte (231,838 states); they hold too, but are not among the runs. What of this is safety is proved
for every set of frames (section 4). `Bytes4` and `Bytes5` hold every byte
of the frames, since overwritten frames may have any of them in any place.
No run has the L151's handler with a module that does not wait. Of it `CopyIsChecked` and
`UartTypeCorrect` are proved; it may lose frames (section 5), so `LatestExecuted` is not claimed.
In `UartBridge` two cuts allow one inside the frame the other one garbled; more of them
lose no more than these, as `missed` restarts at each. `UartTx` has a FIFO of 4 and positions that wrap at 8, so that both the full FIFO and the
wrap happen within `MaxBytes` (9) bytes; a reset starts the count afresh. `BleLink` keeps
the order of the code's delays (watchdog 3 s < supervision 4 s < first request 5 s <
next 30 s = idle 30 s) in 1, 2, 3, 4, 4, with two requests for three and two events waiting,
which is enough for each pair of events and timers to meet in either order. `FdsStore` has the
code's three pages with two records each: six stores fill both data pages, collect them
and fill them again; with three records a page and seven stores (2.2 million states)
nothing else was found. There is no symmetry to use.

**Fairness.** `CarControl`: `WF(Task)`. The main loop runs for ever and `HAL_Delay`
returns, since nothing masks SysTick; commands are not fair. `CarUart`: bytes on
the wire arrive, an idle line raises its interrupt, a DMA transfer ends and the main
loop goes on (weak fairness of each); nothing makes the module send. `Answered` is
claimed only for a module that waits, as an unfinished exchange with one that does
not proves nothing. `CarMcu`: the same for bytes and interrupts, and weak fairness of the
main loop as a whole, from which `LinkFair` derives that its task ends. `UartTx`: bytes leave the line, and writer and interrupt go on when
nothing of higher priority runs (weak fairness of each); nothing makes the app write.
`BleLink`: strong fairness of `Tick`, as what is due in a second may disable it again and
again but the timer's interrupt comes nevertheless; weak fairness of the handlers, the
parameter timer, the sender, the watchdog and of links that are ending. Neither the peer
nor the air is fair: a notification may never be taken. `FdsStore`: code and flash go on
and the watchdog bites, while a store, a reset and a time-out never need to happen.

**Deadlock** is checked except for `UartTx`, whose app stops writing at `MaxBytes`, and for
`CarMcu`, where after noise the HardFault handler (`fault`) stands still for good.

## 4. Proofs

tlapm checks the following for every value of the constants that satisfies the named
assumptions of the modules named.

| Theorem | Statement |
|---|---|
| `TypeCorrect` | `Spec => []TypeOK` of the car, either board, any tables and stray values, torn commands or not: duties stay `uint16_t`; parameters of commands that are not torn stay in their tables' ranges |
| `StopAlwaysProgresses` | `Spec => []StopProgress`: the `while` of the stop ramp cannot hang |
| `StopsInTime` | if `StopTables`: `Spec => StopSlows`, either board, any stray values |
| `RunsSoftly` | if `SoftTables(max)` for some `max` and `DocumentedTurns`: `Spec => SoftRun`, either board |
| `PinsTogether`, `SwitchedAtRest`, `RunsAsCommanded` | if `Mirrored = {}`: `[]WheelsAgree`, `DirectionAtRest`; if also `~Torn`: `[]RunMatchesCommand` |
| `ImplementsService` | if `Mirrored = {}` and `~Torn`: every behaviour of the car is, seen through the refinement mapping, one of `CarService`, liveness aside |
| `UartTypeCorrect` | `Spec => []TypeOK` of the link: DMA and handler stay inside `rx_buffer` |
| `McuIsLink`, `McuIsCar` | `McuSpec` implements the safety specifications of `CarUart` and, if frames may carry every byte, of `CarControl` with `Torn = ~Paced` (if `Paced`, `ProperFrames` is assumed): the theorems above hold of the whole loop, those that assume `~Torn` for a module that waits |
| `CopyIsChecked` | if `Copying = {TRUE}`: `[]CheckedIsExecuted`, for every sender and interleaving |
| `AnswersAreForFrames`, `ExecutesOnce` | if `Paced = TRUE` and `ProperFrames`: `[]AnswerIsForFrame`, `[]ExecutedOnce`, either board, any buffer size |
| `CountsWhole` | if also `ShortFrames`: `[]CountedWhole` |
| `BridgeTypeCorrect` | `Spec => []TypeOK` of the parser, for every set of replies: its `uint8_t` index does not wrap and stays inside `data_array` |
| `LengthsAreSane`, `LossIsBounded` | if `Sums(S)` for some `S`: `[]LengthSane`, `[]LossBounded`, for any number of cuts |
| `AcksAreGenuine` | if also `MixturesRefused(Replies, S, P, X)` for some `P` and `X`: `[]AcksAreReplies`, for any number of cuts |
| `TxTypeCorrect`, `NeverStalls` | `Spec => []TypeOK`, `[]NoStall` of the transmit path, for every FIFO size and every write |
| `LossIsPerRace`, `OrderIsKept` | if `Cap > 1`: `[]LossPerRace`, `OrderKept`, for every FIFO size and every write |
| `BleLinkProof!TypeCorrect` | `Spec => []TypeOK` of the connection: no count outruns its limit |
| `LinkIsTracked`, `SubscriberIsServed`, `HealthyResets` | `[]LinkTracked`, `[]SubscriberServed` and `HealthyReset`, for all delays and any number of waiting events |
| `FdsStoreProof!TypeCorrect` | `Spec => []TypeOK` of the flash: three different pages, none written beyond its end |
| `ConfigurationIsStored` | `Spec => []Stored`, for every page size and number of stores |
| `ImplementsRecord` | `Spec => RecordSpec`: every behaviour of fds is one of `ConfigRecord`, for every page size and number of stores |

The assumptions say what the code's tables satisfy, no more. The one that is not
about types is `StepsAssumption`: every duty of the tables is at least the number of
steps, without which a stop ramp would start with `step_size` 0 and never end. The
hypotheses of single theorems are facts about this code's constants, which its values
satisfy: `StopTables` (the duties 1000, 750, 500, 300, 100 lose less than one `step_size` by
the division by 20, and so does every duty from 400 up, as the outer wheels' 1000), `SoftTables(1000)` (a step
of 51 fits below 100 and above 1000), `ProperFrames` (`AllFrames`: every frame the app
sends begins `AA AA` and has more than four bytes), `ShortFrames` (they do not fill the
buffer), `Sums` (the replies' only header bytes are the first two and their sums are right;
`S` gives the running sums of each reply), `MixturesRefused` (see *The parser*). TLC
evaluates each of them on the code's values, as the `ASSUME`s of the MC modules; those of the
parser's replies over all 222 that `my_uart3_tx_to_BLE` can pack, of which the runs send three. Four
choose among the behaviours: `WiredAlike` is the F103 board, `DocumentedTurns` an app that
sends turn levels 1 to 3 only (and no torn commands), `Paced` a module that awaits its answers, and
`~Torn` what that or the L151's copy brings about: commands stored as they were checked. Torn
commands leave true what matters most for safety: the stop ramp counts down and slows down,
the pins agree and are switched at rest, and no duty leaves its type. What they break is that the
car does what the parameters checked say (`RunsAsCommanded`, `ImplementsService`, `RunsSoftly`).

*The motor task.* `StopProgress` is not inductive: whether the ramp that a stop
request starts can count down depends on the duties left behind by the request
before. `BaseInv` (`CarControlProof`) adds that a car between two requests is
undriven or has a wheel with a duty of at least `Steps` (`DrivenEnough`); that
every place of the loop goes with its request, so that a ramp's successor is known;
that the stop ramp's maximum bounds every duty; and that an IDLE direction comes with
an IDLE speed, so that no run ramp starts without a direction. The arithmetic lemmas
come first (`ScaledBound`, `BlendBound`, `TowardBound`, …), then one lemma per action.

*The ramps.* `StopInv` says that between two ramps the fastest wheel has a duty of the
table, or at least that of a turn's outer wheels (`Cruising`), and that in a stop ramp `top`
is within `Steps + 1 - step` times `size`: a quotient that drops a remainder no larger than
itself takes one iteration more, no more. In a run ramp what is left of the
widest gap is bounded by the iterations left times `base`, and the remainder left
(`RunInv`), so that the last iteration ends every gap and the assignment after it changes
nothing. The room in `SoftTables` keeps an increment from wrapping.

*The pins.* `PinInv` (`CarPinsProof`) adds that all pins are equal and, during a run
ramp, are those of the command. The task looks at pin 1 only; it is this
equality that makes its stop-first test sound. On the L151 it is false from boot on,
hence the hypothesis, and TLC finds the counterexample (`ClaimDirectionL151`).

*The service.* A step of the ramps is a stutter, a ramp's end is `CarService`'s end of a
request. What is there to prove is that a ramp started for one request ends in what the
parameters in force ask for: its locals were computed from them and they have not changed
since (`RunAsSet`, `TurnAsSet`), and a stop ramp that is to turn the car round does so
(`Reversing`). This needs the pins to be equal.

*The parser.* Its type invariant ties the index to the parser's state: equal to it in
the header, below the length in the rest. For `LossIsBounded`, `LossInv` says for each state of
the parser how much of the reply on the wire it can have read and how many it
can have missed: a parser that reads a reply from its first byte (`InSync`) will
end the count, as its sum is that reply's running sum; one that fills a false frame has at
least five cells for every reply missed, and it has 170. `AcksAreReplies` does depend on what
the bytes are. The sum over a mixture of a reply's beginning and the bytes that follow is
all the parser knows of it, so `X` is a set of pairs, how many cells a frame still lacks and what
those it has sum to: every beginning of an answer is in `X`, a byte of any reply
leads from `X` to `X`, and no byte that completes a frame of `X` makes its sum right.
`MixInv` says that a frame that is no status, has no header byte for its length and is
no longer read in step with the wire is in `X`. For the statuses there is no such set.

*The transmit path.* `NoStall` looks at states in which handler and writer rest, and is
not inductive: a handler that has loaded `read_pos` may find the FIFO empty and go to rest
although it no longer is. `StaleReadStarted` closes the gap: if `read_pos` has moved since
it was loaded, the writer moved it, and then the writer has started a transmission.
`RaceInv` is about contents: the cells between the positions hold the bytes put last, in
order (`CellsInv`); what the handler has in `tmp` and `tx_buffer` at each access
(`PlaceInv`); and an account in which every byte skipped or doubled, or still to be by what
the handler has loaded already, is paid for by a write event in `raced` (`DebtInv`).
Once the positions have crossed (`stray`) only the cause is claimed. `Cap > 1`: in a FIFO of one
byte the oldest cell is also the next.

*The connection.* `LinkTracked` holds only when no event waits, so what is inductive
speaks of the waiting ones. `TrackInv` says in which order they can wait (`Ordered`: a
connection is the first event after a disconnection, nothing of a link follows its
disconnection), what the application knows before, between and after them (`Known`), and
that every event belongs to a link (`Belongs`). `SubscriberInv` does the same for the two
copies of the notification setting, by the last waiting write to it (`Remembered`,
`Heard`). `HealthyReset` is an action property and follows from it, one
step per call that `APP_ERROR_CHECK` guards: on a link that is up only a notification can
fail, for want of a CCCD state, and then the peer never asked for one.

*The link.* `TypeOK` is inductive as it stands. `CopyIsChecked` needs that
interrupts touch neither `temp_buf` nor `my_cal_len`; for the F103, TLC refutes it. With a
sender that waits, every state belongs to one of five phases of a conversation (`Talk`): at
rest or answering, the frame arriving, arrived, in the handler's hands, or the handler in the
fault of a frame that fills the buffer. Each says where the frame's bytes are: the last part on the
wire and the rest in `rx_buffer`, then in the buffer the handler reads, so that what
is checked and executed is the frame as sent. What the checksum computes
stays opaque: the proof only needs that it depends on the cells summed (`Cells`).

*The composition.* Each step of the loop is a step or a stutter of either half. For the
car's half this needs that the handler executes a frame only with the task at rest
(`OneAtATime`, the invariant that ties the two halves' program counters) and, from
`UartTypeCorrect`, that what it takes for a command is made of bytes. That no command is torn
with a module that waits is a part of `Talk`: while the handler has the frame nothing is on the wire,
so every read of a cell returns the same byte (`FetchedIsCommand`).

*The flash.* `BaseInv` is what a boot needs, in every state a reset may fall into:
the tags fds can be left with (`FlashInv`) and what the RAM knows of them
(`TagInv`), the page being written or collected (`TargetInv`), the copies a collection has
made, each of a record still in the page it came from (`CopyInv`), and that what
counts is whole (`LiveInv`). `Home` is the key: the pages whose records count *for a boot to
come as well*: the data pages, and the swap page once some page has been erased, for then
`fds_init` takes the swap page up instead of erasing it. `SingleInv` adds that, unless an
update was cut, one record counts, but for the one an update is about to make the
only one, and which version it holds. That also needs an update that found no space to
succeed after its collection, as `my_fds_once_write` does not look at that result: a page with
something to collect is in `can_gc` (`KnownInv`, `CleanInv`) and the collection ends with
room (`RoomInv`), since not every record of two pages can be the one that counts.

*The record.* `ImplementsRecord` shows for each action which change of `ConfigRecord` it
is, and first what it does to `RecordHeld`. For most the answer is nothing, and the reason is
in `BaseInv`: erasing a page takes no record that counts and has no copy (`EraseLive`), a swap
page brought home carries exactly the copies of what was erased. `RecordInv` adds that the
version an update is to drop is held until it does.

**Left to TLC.** Liveness (`Responsive`, `StopStops`, `Answered`, `LatestExecuted`,
`StopFrameRests`, the fairness in `LinkFair`, `Drains`, `IdleEnds`, `SendEnds`, `StoreEnds`)
and the fairness of `ServiceSpec`: the prover does no `ENABLED`. Every other property of a
passing run has a theorem, `CheckedIsExecuted` for the L151 only. What the checksum computes for every length is an
induction and out of reach; no proof depends on it. The four claims of section 5 are refuted
by TLC and so have no proof.

## 5. Where code and comments disagree

Four runs refute what the repository says of itself; `PROJECT.json` quotes the lines.
- On the L151 a direction pin is switched under full duty (`ClaimDirectionL151`).
- The F103 may execute bytes that were not checked (`ClaimCheckedIsExecuted`).
- A write that interrupts the transmit handler has one byte sent twice and another not at
  all (`ClaimEveryByteSent`).
- A peer inherits the notification flag of the peer before it (`ClaimFlagIsPeers`); the
  first reply of the car then resets the module.

Others are visible in the model and have no run:
- `motor.c:6` says of the speed level 0: stopped. In the direction the car already has, level
  0 is stored, acknowledged and not carried out: `motors_set_speed_soft` returns at once.
- `usart.c:378` has the status report a turn being made; A1 does not reset the turn, so
  after a run straight on the answer to A4 still reports it.
- `motor.c:385` announces a turn with a soft start from the current PWM; the ramp starts
  from values outside `current_pwm[4]` (*Stray reads*).
- `stm32f1xx_it.c:305` says `recv_end_flag` means that reception has ended. After noise it
  stays set, so the next frame is taken at its second byte, with the length of the noise. With one
  or two bytes of noise the checksum loop then leaves the RAM, and the F103 stands still with its
  wheels driven (`fault`), even if the rest of the frame arrives before the sum is begun: this is
  the exception of `LatestExecuted` and `StopFrameRests` (`Doomed`). On the L151, which zeroes
  `rx_len`, the board resets as for an invalid array (its `main.c:53`). After longer noise, or if the
  frame is there before the handler looks, it is executed.
- On the F103 the parameters are read from `rx_buffer` for their check (`usart.c:393`, "parameters
  valid") and read again to be stored (`usart.c:395`). A byte of the next frame that arrives in between is
  stored unchecked: two frames back to back can set `g_MotorDirection` to 90, the checksum byte
  of a stop. The answer still says success, the status reports 90, and the task runs
  with it: level values outside the tables are refused by the ramps (`motor.c:85`, `motor.c:397`), a
  direction other than backward drives the pins forward. `Torn` has this in the model; see section
  4 for what it leaves valid.
- The L151 clears `rx_len` bytes of the buffer just after it has set `rx_len` to 0 (`usart.c:346-347`
  and `353-355` of the L151). That does nothing, unless the idle interrupt falls in between and
  sets `rx_len`: then the frame just received is cleared with its flag set, and lost (`WipeBuffer`).
- `app_fifo_get` on an empty FIFO is `NRF_ERROR_NOT_FOUND` by `app_fifo.h`. If a byte is put
  and sent between the two loads of `fifo_length`, the interrupt takes one all the same:
  `read_pos` overtakes `write_pos`, old bytes are sent, and the next put finds the FIFO full
  and resets the chip (`stray` in `UartTx`).
- A pairing request is refused, and for want of a `break` (`my_ble.c:662`) the peer's
  notification setting is cleared too, though the service's flag stays on: what is sent to it
  is dropped (`paired` in `SubscriberServed`).
- `my_ble_uarts.c:308` promises `NRF_ERROR_NOT_FOUND` without a connection. A send that is being
  retried keeps its handle when the link goes, and gets `BLE_ERROR_INVALID_CONN_HANDLE`,
  which resets the module; harmless, as there is no link to lose.
- `my_ble.c:532` says a failed parameter update does not disconnect; `on_conn_params_evt` does.
- `main.c:96` forgets the idle disconnection even if it failed. `IdleEnds` and `LinkTracked` show that it
  fails only when the link is ending anyway.
- `my_fds.c:78` notes that the wait hangs when a write fails. So it does, until the watchdog.
- An update that a reset cuts between writing the new record and flagging the old one leaves
  both. Later updates replace the one they find, and collections change which that is: a
  configuration reported as stored may be followed by an older one at the next boot (the
  `~cut` of `Stored`). A boot that finds only torn records and no space resets for ever,
  since garbage is collected in updates only.
- Driving backward, a right turn slows the same wheel as a left turn (`SlowWheel`):
  `motor.c:436` gives the two rear wheels the names that `motor.c:430` gives them the
  other way round.
- A reply cut after one or two bytes has the parser of the BLE module take `0xAA` for a
  length and swallow 170 bytes, up to 36 replies. When the sum of those happens to be
  right, the app is notified of the 170 bytes: TLC finds such a case with 34 replies.
- A status cut short can be completed by the header of the next reply and pass the
  checksum: of a car going backward at level 5 without a turn the status `AA AA 09 A4 02 05 00`
  lacks two bytes, and `AA AA` makes the sum right. The app is told of a turn level of 170.
  So it is of a status cut after six bytes, when direction and level add up to 7 less the
  length of the next reply. `AcksAreReplies` is what remains true.
- `usart.c:410` of the F103 stores a left turn for A2; `usart.c:364` and row 56 of the
  protocol table say right (`A2Turn`; the L151 does what they say).
- A3 is answered with the ID of A2 (`usart.c:433`); row 89 of the table says A3.
- The stop ramp from level 2 (duty 750) takes 21 iterations for its "200 ms", as
  750/20 leaves a remainder. `StopSlows` bounds it at `Steps + 1`.
- `SoftRun` fails on a turn of level 0: the stray duty it leaves may make the
  following run ramp wrap. `CarControlL151` therefore keeps to the documented levels.
- After a turn that follows a stop, `g_MotorDirection` is 0 on a moving car.
- The table's checksum is `0xFF - sum % 0xFF`; the code works modulo 256.
- The nRF's UART runs at 115200 baud, the F103's USART3 at 9600; the L151's at 115200.

## 6. Not modelled

Frame reassembly (`my_data_analysis`) and scanning are dead code in this revision: the
producer of the receive ring and `scan_start` are commented out. `motor_soft_stop`,
`car_turn` and `motor_stop` are never called. The ultrasonic and pulse interrupts write
results that nothing reads, and the task that would trigger an echo is commented out. The
MAC address is read once and logged. Receive errors of the two UARTs are left out; the
nRF answers one with a reset (`uart.c:107`). Generated register set-up, the
HAL, the SoftDevice and the rest of the nRF SDK, which is most of the repository by size,
are outside; the parts that matter (DMA in normal mode, `DMAStop`, the busy check of a
transmission; `app_uart_fifo`, `fds`, `ble_conn_params`) are in the modules' actions.

## 7. Where it could go on

- `CarMcu` for the L151, whose resets come in the middle of a motion.
- `UartTx` in front of `CarUart`: what a skipped or doubled byte does to a frame is, for the
  MCU, a damaged frame, which `CarUart` has.
- `ConfigRecord` with one version held at a time, which needs the duplicate of section 5
  repaired first.
- The parser and the transmit path against an abstract channel that loses whole
  replies, or bytes per race, so that the two directions compose with `CarUart`.
