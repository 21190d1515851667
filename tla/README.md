# A TLA+ model of the DeviceScript runtime for RP2040

This directory models the hardware layer of devicescript-pico (`src/`): the
interrupt-driven drivers and the main loop that the portable parts of Jacdac
and DeviceScript run on. jacdac-c, DeviceScript itself, the pico-sdk and lwIP
are submodules; they appear only as far as the drivers call them or are called
by them, and are marked external.

## 1. The system

One core runs everything. Its code falls into three levels, each preempted by
the next:

1. the main loop (`main.c`) and all of DeviceScript under it;
2. `tim_handler` (`tim.c`), priority `IRQ_PRIORITY_TIM`, from which jacdac-c's
   timer callbacks start transmissions and time out receptions;
3. `isr_pio0_0`, `isr_dma_0` and `isr_io_bank0`, priority 0. They do not preempt
   each other; if several are pending, the NVIC serves them in that order.

| Part | State | Operations | Talks to | Correct if |
|---|---|---|---|---|
| Jacdac UART `uart.c`, `sws.pio` | `uart_status`, the pin's function and direction, PIO machines, break flag | `uart_start_tx`, `uart_start_rx`, `uart_disable`, `rx_done`, `tx_handler` | jacdac-c (both ways), DMA, pin interrupt | one activity at a time, never drives the line while listening, every activity ends, listens when idle |
| DMA dispatcher `dma.c` | `dmaHandler[]`, interrupt flags | `dma_set_ch_cb`, `isr_dma_0` | all DMA drivers | each registered handler is called once; a slot is free when it is filled |
| Timer `tim.c` | `timer_cb`, alarm | `tim_set_timer`, `tim_handler` | jacdac-c | the callback set last is called, not early |
| Pin interrupt `pins.c` | enable and latch of the pin's edge | `exti_enable`, `exti_disable`, `isr_io_bank0` | UART | no edge is served while disabled |
| Interrupt nesting `platform.c` | `irq_disabled`, PRIMASK | `target_disable_irq`, `target_enable_irq` | all | an inner section does not end an outer one |
| SPI master `spi.c` | `spi_in_use`, `spi_done_cb` | `jd_spi_init`, `jd_spi_xfer`, `jd_spi_process`, `spi_dma_cb` | DMA, main loop | each accepted transfer calls back once |
| Log `uart_log.c`, `dmesg_to_stdout` | `in_tx`, `dmachTx`, pin, static buffer | `uart_log_init`, `uart_log_sync_pin`, `uart_log_write` | DMA, main loop | the buffer is not refilled while it is sent |
| Main loop `main.c` | event register | one pass, `wfe` | all | never sleeps over work |
| Storage `flash.c` | one-page buffer, chip | `flash_program`, `flash_sync`, `flash_erase` | jacdac-c settings | contents are what was written, also after a power failure |
| Clock `tim.c` | the 64-bit count, in two registers | `tim_get_micros`, `target_wait_us` | all | a read is a time during the call; a wait is long enough |
| TCP socket `lwip_sock.c` | `sock_state`, lwIP control block, DNS request | `jd_tcpsock_new/write/close/process` and lwIP callbacks | lwIP, DeviceScript | one connection, events match it |
| Wi-Fi `wifi_impl.c`, `cyw43_fixes.c` | scan table, link status | scan, connect, `jd_wifi_process` | cyw43, DeviceScript | each access point once; each lasting change of the link reported |
| HID `hid.c` | pending reports | `jd_hid_*`, `hid_process` | TinyUSB | the last report is sent, no movement is lost |
| USB serial `usb.c` | TinyUSB's queues | `jd_usb_process`, `tud_cdc_rx_cb` | TinyUSB, jacdac-c | bytes arrive in order, none is dropped |
| Board `pins.c`, `platform.c` | pad registers, `is_pico_w`, LED | `pin_setup_*`, `pico_w_init`, `jd_rgbext_set` | SDK, Wi-Fi chip | a pin does what it was last set up for |
| I2C, ADC, random numbers, USB strings | initialised flags, shared buffers | blocking calls | SDK, TinyUSB | each result is right for its arguments |
| Configuration headers | constants | - | all | - |

What is hard to test here is listed with its lines under `hazards` in
`PROJECT.json`: most of it is the order of interrupts of different priorities
around a few flags, what a power failure leaves on the chip, and what libraries
do between two calls of the main loop.

## 2. Modules

`Dma.tla` holds the DMA controller and the dispatcher of `dma.c` as operators on
one value (per channel: busy, raw flag, enable, table entry). `JacdacUart` and
`MainLoop` keep such a value in a variable.

`JacdacUart.tla` composes `uart.c` with what it shares interrupts with
(`pins.c`, `dma.c`, `tim.c`, `platform.c`), the physical layer of jacdac-c and
the line.

* State: `uart_status`, the driver's only variable; `exti`, `pin`, `sm`, `brk`
  for the registers it writes; `timer` for `timer_cb` and the alarm; `irq`;
  `jd_status`, `txPending` for jacdac-c; `tpc`, `f` for the control point and the
  local of `tim_handler`; `isr`, `mask` for `isr_dma_0`; `bus` for the others on
  the line; `fault` records the first assertion that fails, and stops the core.
* Steps: a handler of priority 0 is one action, as nothing in the model can
  observe it half done, except `isr_dma_0`, which is one action per channel so
  that `tx_handler` can wait for the transmitter in the middle. `tim_handler`,
  with `uart_start_tx` and the callbacks of jacdac-c inside it, is one action
  for each access to shared state: between any two of them a handler of
  priority 0 may run, unless interrupts are off. `TimMayRun` and `MainMayRun`
  make a level wait for the levels above it.
* The line: other devices begin a frame, send data, end with a break, or die at
  any time; a collision is found by `gpio_probe_and_set`.
* Timing is abstract but for two assumptions. `RxEndPossible`: a reception that
  begins between `flush_tx_queue`'s test and `exti_disable` does not end within
  the few instructions before `uart_start_tx` tests for it (a frame takes more
  than 100us). `AlarmFires`: an alarm set by a handler that preempts
  `tim_handler` just before its comparison is not due there (`tim_set_timer`
  sets it at least 10us ahead; the code allows 5us).
* Hardware assumption: aborting a busy channel raises its interrupt
  (`AbortChannels`). The driver needs it: nothing else takes `rx_handler` out of
  the table when a break or a timeout ends a reception.

`MainLoop.tla` models `main.c`, `spi.c` and `uart_log.c`. The loop is split at
every access to a variable that `isr_dma_0` shares with it; callbacks of
transfers and the code under `jd_process_everything` may call the SPI driver
and log at will. `event` is the Cortex-M event register: any interrupt sets it,
`wfe` sleeps only if it is clear. `jd_spi_init` selects one of the two controllers;
the receive channel is paced by it but reads the data register of `spi_default`
(`spi.c:75`), so that on the other one its queue is never drained and the first
byte clocked in ends the receive channel. `rxq` counts what is left in the
receive queue, by a transfer that only sends or in that way, so that a later one
may complete early. `owed` and `clean` are history variables: the callback of the
last accepted transfer, and whether nothing of an earlier one was left when it
began (`Quiet`). A program uses some mix of transfers all through a behaviour
(`kinds`).

`Flash.tla` models `flash.c`. `mem` is a reference: what the calls so far ask the
storage to contain. A cell of the chip takes a value only when erased;
programming it again with another one gives `Garbage`. Power may fail between
any two steps, and within a program or an erase with any subset of the cells
done; a failed assertion ends in a reset too. One assumption on the caller is
explicit, `SyncedBeforeErase`: a page of the sector to be erased is not in the
buffer. `flash_erase` does not check it.

`Micros.tla` models `tim_get_micros` and `target_wait_us`: any number of callers
read the two registers of the count one at a time while it goes on.

`Alarm.tla` models the one-shot timer against the clock: `tim_set_timer` and
`tim_handler` step by step, modulo the width of the alarm register, with the
margins of the code (5us, 10us, 2^29) as constants. Its assumption `Margins` says
for which latencies they suffice: from the read of the clock to the end of the
critical section, and from the alarm to its handler; and that the margin is not
zero. Nothing in the code enforces the latencies. The history variable `late`
tells whether a timer was set since the last test: `LosesOnlyLate` says that a
callback is erased without being called only then, in the window of
`tim.c:35-38`. `JacdacUart` has that window too, without the clock; that a timer
set before the test is left alone is what justifies `AlarmFires` there.

`Exti.tla` models the registers of the pin interrupts (`pins.c`): the latch and
the enable of each edge, `isr_io_bank0` register by register, and
`exti_set_callback`, `exti_enable`, `exti_disable`, which it may preempt. `Masked`
is what `uart_disable` adds: it enables with interrupts off.

`TcpSock.tla` models all of `lwip_sock.c` with lwIP's DNS and control blocks. The
callbacks carry the static `sock_state`, not the connection, so that late ones
act on whatever is there. Every event is a call of the application, which may
call the socket before it returns: `stack` holds the functions that wait for it,
with what each has left to do (`raise_error` its CLOSE, `tcp_client_recv` the rest
of the chain and `tcp_recved`, `jd_tcpsock_new` its last close, a callback its
return to lwIP). A `tcp_close` that fails is followed by `tcp_abort`, which frees
the block at once. What lwIP and the application may do that the driver
makes no provision for is the environment `env`; section 3 says which guarantee
survives which environment. `events`, what the application was told since its
last call, and `misuse`, who used a block that was freed (the socket's own calls,
`tcp_recved`, lwIP after a callback), are history variables.

`Wifi.tla` models the scan table of `wifi_impl.c`, its growth and hand-over, and
the polled link. `block` (the size of the memory behind the table), `heard` and
`told` are history variables.

`Hid.tla` and `Cdc.tla` model the two users of `jd_usb_process` in `hid.c` and
`usb.c` against TinyUSB's endpoints and queues, a host that polls, and bus resets.

`Board.tla` models the pad registers behind the operations of `pins.c`, the test
for a Pico W and the LED, which is on a pin or on the Wi-Fi chip. `Adc.tla`,
`I2c.tla`, `Random.tla` and `Descriptors.tla` model the small drivers they are
named for; blocking calls are one step.

Abstract specifications, each with a refinement that a run checks:

| Abstract | Says | Implemented by | Mapping |
|---|---|---|---|
| `HalfDuplex` | one activity at a time on the line; every reception and transmission that began ends once; a reception is never given up for a transmission | `JacdacUart` (`IsHalfDuplex`) | `line` is `uart_status`, `open` the activities in `jd_status` |
| `Store` | a memory that is written behind: cells move from what was asked for to what was accepted to what is on the chip; a power failure leaves each old or new | `Flash` (`IsStore`) | `view` is `mem`, `cache` the chip under the buffer, `durable` the chip |
| `Connection` | one connection; OPEN, then messages, then ERROR and CLOSE, all about that connection | `TcpSock` (`IsConnection`) | `conn` from the two flags and from whether `raise_error` has its CLOSE to deliver, `events` as told; constant in the environments left out |

`MC*.tla` and the `.cfg` files are the instances. `MCTimer`, `MCUsb` and
`MCPeripherals` put several modules into one run: the modules share no variable
(and the parts of the program they model no state), so a behaviour of the run is
a behaviour of one of them, chosen in the initial state by `part`, while the
others stay in their initial states. Every behaviour of each module is one of
the run, with its own fairness. Definitions commented *Variant* are wrong
versions of the definition after them; they are not part of any specification
and show that a property notices the error.

## 3. Runs

| Run | Checks | Instance |
|---|---|---|
| `uart` | `TypeOK`, `DmaSlotFree`, `ActivitiesExclusive`, `BusDrivenOnlyInTx`, `Consistent`, `CompletionPending`, `NoTruncation`, `IsHalfDuplex`, `TxCompletes`, `HeardAgain` | two UART channels and one of another driver; 60,804 states |
| `uart_quiet_bus` | `ExtiReenabled` when the line may fall silent: **violated** | two channels |
| `flash_storage` | `ContentsOK` (types, `NoGarbage`), `ReadBack`, `PagesInOrder`, `IsStore`, `ProgramEnds` | two pages of three cells, a sector each, two values, writes of up to three cells; 437,259 states up to symmetry |
| `flash_full_page` | `ChunkFits`: **violated** | as `flash_storage` |
| `main_loop` | `TypeOK`, `CallbackOnce`, `NoSleepOverWork`, `BuffersFree`, `SpiCompletes` | two callbacks, transfers `tx` and `txrx` in any order, both controllers, up to two frames and messages waiting; 371,198 states |
| `spi_rx_only` | `SpiCompletes` with transfers that only receive: **violated** | transfers `rx` |
| `spi_early_done` | `SetsUpIdleChannels` on the controller that is not `spi_default`: **violated** | transfers `txrx` |
| `timer` | `TimeWithinCall`, `FewRounds`, `WaitsEnough`; `AlarmOK` (types, `NotEarly`, `NotLost`), `LosesOnlyLate` | words of two bits and 14us; a word of 20 and 26us, so that it wraps, and the margins scaled with it; 1,279,595 states |
| `sock` | `EventsOK` (types, `OneClose`), `OwnBlock`, `NoUseAfterFree`, `IsConnection`, `Settles` | two hosts, two control blocks, nine environments; 628,618 states |
| `wifi` | `TableOK` (types, `InBounds`, `ReportIsComplete`), `Reported` | four access points, two signal strengths, growth by one, so that the table grows three times; 70,952 states |
| `usb` | `HidOK` (types, `MouseConserved`), `ReportsArrive`; `CdcOK` (types, `NothingDropped`), `SerialDrains` | one replaced report and the mouse with two buttons, coordinates modulo 5; packets of two bytes, queues of four and three, streams of seven; 69,262 states |
| `peripherals` | `EdgesOK` (types, `NoEdgeLost`, `NoStaleEdge`, `OffIsOff`), `EdgesServed`; `BoardOK` (types, `PadMatchesMode`, `LedFollows`); `DriversOK` (types, `TempIsClose`, `PinsServeInst`, `HeldOnRequest`, `Filled`, `StringIsWhole`) | two interrupting pins; one pin of the application, readings on both sides of the threshold; every pair of I2C pins, every sensor sample from -30 to 120 degrees, buffers of up to 37 bytes, strings around the length of the buffer; 115,505 states |

Bounds. In `JacdacUart` nothing is bounded but the set of channels: a third one
is enough for `isr_dma_0` to find another driver's flag beside the UART's, and
the proofs below hold for any set. In `Flash` a page of three cells is the
smallest one where a chunk can leave cells before it, after it, cross into the
next page or fill the page; two pages exercise the switch of the buffer.
`MainLoop` bounds frames and messages waiting (`MaxFrames`, `MaxLog`), and the
receive queue (`RxDepth`); two callbacks tell a callback from the one before.
`Micros` is checked with one caller, since callers share nothing but the clock;
the proofs hold for any number. `TcpSock` bounds the messages of a connection
(`MaxEvents`) and the calls in progress when the application calls (`MaxDepth`: 2
lets it call from every event, and in there be told of an ERROR); two hosts tell the peer asked for last from an earlier one, two
blocks let one leak. In `Hid` the keyboard and the gamepad are alike and
independent, so that one of them is enough. In `Cdc` the queue holds two packets
as in the code, and the streams are long enough to fill it and drain it again;
the receive queue holds more than a packet (in the code both are 64), so that
one call of the callback may find more than one read takes.

Fairness. `JacdacUart`: handlers of priority 0 are served when pending (weak);
`tim_handler` takes its next step if it can infinitely often (strong), which is
what a line slower than the core gives it: each step waits for at most the
edges of one frame; DMA, transmitter and alarm finish by themselves. `LiveBus`,
that some other device keeps beginning and ending frames, is the hypothesis of
`HeardAgain` and no part of the specification. `MainLoop`: the loop and
`isr_dma_0` run, the controllers finish what they can; no other interrupt is
assumed ever to come, so nothing but the loop's own discipline wakes it. `Exti`:
the handler is served and goes on. `TcpSock`, `Wifi`, `Hid`, `Cdc`: the main loop
keeps calling the process functions, and the other side does what its protocol
makes it do in the end: DNS answers, lwIP reports a connection or its failure, a
scan ends, a host configures the device and polls. The application is never
assumed to do anything but return from its events; where it must leave things alone the property says so.

What `TcpSock` guarantees depends on what lwIP and the application do. Each
property states its own environments, and TLC finds it violated when one that
fails in this table is admitted:

| Property | cached answer | late answer | name unknown | reset | abort | `tcp_close` fails | call from OPEN, MESSAGE | call from ERROR, CLOSE |
|---|---|---|---|---|---|---|---|---|
| `OneClose` | holds | holds | holds | holds | holds | holds | holds | fails |
| `Settles` | holds | holds | holds | holds | but for the one aborted | holds | holds | holds |
| `NoUseAfterFree`, the socket's calls | holds | holds | holds | fails | fails | holds | holds | holds |
| `NoUseAfterFree`, `tcp_recved` | holds | holds | holds | holds | holds | fails if the next one applies too | fails if the one before applies too | holds |
| `NoUseAfterFree`, lwIP's return | holds | holds | holds | holds | holds | fails | holds | holds |
| `IsConnection` | fails | fails | holds | holds | holds | holds | fails | fails |
| `OwnBlock` | fails | fails | fails | holds | fails | holds | holds | fails |

With a cached answer `jd_tcpsock_process` sets `host_found_pending` again instead
of clearing it (`lwip_sock.c:191`) and opens a connection on every pass. A late
answer connects a closed socket, or a new one to the host of the old. An
unknown name passes a null address on. A block that lwIP reports as failed is
freed already when `raise_error` closes it; ERR_ABRT is not reported at all. If
`tcp_close` fails inside a callback, the block is aborted but the callback
returns ERR_OK, on which lwIP goes on with it; if it was the application that
closed from MESSAGE, `tcp_recved` (`lwip_sock.c:108`) does so first. If the
application opens a connection from ERROR, the CLOSE that follows
(`lwip_sock.c:68`) is of the old connection but reaches the new one, and
`jd_tcpsock_new`, if the ERROR was its own, closes the new one
(`lwip_sock.c:159`). No line of the repository promises otherwise, so none of
these is a finding.

The environments of the run are everything but late answers together, what is
left of it for each property that a part of it breaks, and late answers, which
multiply the states, with two parts of the rest. The safety properties are
proved for all environments and depths of calls (section 4); `Settles` is checked
in those nine.

### Disagreements found

* **A reception may never end** (`uart_quiet_bus`). `tim_handler` enables
  interrupts and then clears `timer_cb` (`tim.c:35-38`). An edge between the two
  makes `jd_line_falling` start a reception and set its timeout, which
  `timer_cb = NULL` erases. If the sender dies in mid-frame nothing ends the
  reception, and EXTI stays off, where `uart.c:307` relies on "the RX complete
  will do it". Any later frame on the line ends it, which is what `HeardAgain`
  shows.
* **A full page cannot be written** (`flash_full_page`). `flash_program` passes
  chunks of up to `FLASH_PAGE_SIZE` (`flash.c:45-48`), `flash_program_page`
  asserts `len < FLASH_PAGE_SIZE` (`flash.c:19`).
* **A transfer that only receives hangs** (`spi_rx_only`). `spi.c:101` admits it,
  but nothing clocks the bytes in and `done_fn` is never called.
* **A transfer is reported as done while it is being sent** (`spi_early_done`). On
  the controller that is not `spi_default` the receive channel reads the wrong
  data register (`spi.c:75`), its pacing signal never goes down, and it ends, and
  with it the transfer (`spi.c:117`), after the first byte. `done_fn`, from which
  `spi.c:89` says the next `jd_spi_xfer` may come, then sets up a transmit channel
  that still runs (`spi.c:104-107`).

## 4. Proofs

Every `*Proofs.tla` module extends the module it is about (or, for the modules
that share a run, the MC module that puts them together; the theorems are about
each module's own specification). What holds on the small instances of section
3 is shown there for all values of the constants, from the named assumptions
that TLC evaluates in the runs.

| Module | Theorem | Statement |
|---|---|---|
| `JacdacUartProofs` | `TypeCorrect` | `Spec => []TypeOK` |
| | `Invariance` | `Spec => []IInv` |
| | `DmaSlots` | `Spec => []DmaSlotFree` |
| | `Exclusive` | `Spec => []ActivitiesExclusive` |
| | `Completion` | `Spec => []CompletionPending` |
| | `Agreement` | `Spec => []Consistent` |
| | `LineInvariance` | `Spec => []LineInv` |
| | `DrivenOnlyInTx` | `Spec => []BusDrivenOnlyInTx` |
| | `WholeFrames` | `Spec => NoTruncation` |
| | `Implements` | `Spec => IsHalfDuplex` |
| `MainLoopProofs` | `MainInvariance` | `Spec => []IInv` |
| | `MainTypes` | `Spec => []TypeOK` |
| | `CallbackCalledOnce` | `Spec => []CallbackOnce` |
| | `NeverSleepsOverWork` | `Spec => []NoSleepOverWork` |
| | `BuffersAreFree` | `Spec => []BuffersFree` |
| `FlashProofs` | `FlashInvariance` | `Spec => []IInv` |
| | `ContentsAreOK` | `Spec => []ContentsOK` |
| | `ReadsBack` | `Spec => []ReadBack` |
| | `PagesReachChipInOrder` | `Spec => PagesInOrder` |
| | `ProgramTerminates` | `Spec => ProgramEnds` |
| | `Implements` | `Spec => IsStore` |
| `TimerProofs` | `MicrosInvariance`, `ClockTypes` | `Spec => []IInv`, `Spec => []TypeOK` |
| | `ReadsAreWithinCall` | `Spec => []TimeWithinCall` |
| | `RoundsAreBounded` | `Spec => []FewRounds` |
| | `WaitsAreLongEnough` | `Spec => []WaitsEnough` |
| | `AlarmInvariance` | `A!Spec => []AlarmInv` |
| | `CallbacksAreInTime` | `A!Spec => []AlarmOK` |
| | `LosesNothingElse` | `A!Spec => LosesOnlyLate` |
| `PeripheralsProofs` | `ExtiInvariance` | `Spec => []IInv` |
| | `EdgesAreServedOnce` | `Spec => []EdgesOK` |
| | `BoardIsOK` | `B!Spec => []BoardOK` |
| | `DriversAreOK` | `A!Spec /\ I!Spec /\ R!Spec /\ D!Spec => []DriversOK` |
| | `RunIsOK` | `AllSpec => [](EdgesOK /\ BoardOK /\ DriversOK)` |
| `TcpSockProofs` | `SockInvariance` | `Spec => []IInv` |
| | `EventsAreOK` | `Spec => []EventsOK` |
| | `BlockIsOwn` | `Spec => []OwnBlock` |
| | `NeverUsedAfterFree` | `Spec => []NoUseAfterFree` |
| | `Implements` | `Spec => IsConnection` |
| `WifiProofs` | `WifiInvariance` | `Spec => []IInv` |
| | `TableIsOK` | `Spec => []TableOK` |
| `UsbProofs` | `HidIsOK` | `Spec => []HidOK` |
| | `CdcIsOK` | `C!Spec => []CdcOK` |

**`JacdacUartProofs`**, for every set of channels that contains the two of the
driver (`ChannelAssumption`, `UartChannels`; nothing else is assumed). That the
slot of the receive channel is free when the next reception starts does not
follow from the driver's state, because `uart_disable` leaves the handler
registered; it needs `DmaInv`: a registered handler has its interrupt enabled,
and its channel is busy, flagged or being visited. So an idle driver with a
handler still in the slot has `DMA_IRQ_0` pending, which is served before
`IO_IRQ_BANK0`, and `rx_done` ignores it. `RxInv` and `TxInv` tie `uart_status`,
the table and jacdac-c's status to the control point of `tim_handler`;
`NewRxInv` carries the timing assumption of `uart_start_tx` to its test; `TimInv`
shows that a late `rx_timeout` never lands on a transmission: the timeout of a
finished reception was replaced when it completed; `IrqInv` keeps interrupts off
exactly in the critical sections. `LineInv` rests on `IInv` and adds the pin and
the transmitter: the latter is on only after the start pulse, and the stall
flag that `tx_handler` waits for is of the frame in progress, so that the
transmitter is switched off when it has nothing left. The refinement shows for
every action which step of `HalfDuplex` it is, or that it leaves the line and
the open activities alone. The proof has one lemma per effect of an operation on
the DMA table, one per action (or group of actions that leave a part alone),
and one step that splits `Next`.

**`MainLoopProofs`**, for any channels, callbacks, pins, controllers and mixes of
transfers and any bounds on what waits (`MainChannels`, `MainInputs`). `CbInv`: the callback
that is owed is in one of four places, which exclude each other: the argument
of `jd_spi_xfer`, `context` with a registered channel, `spi_done_cb`, or the
local of `jd_spi_process`. `SleepInv` says at each control point between a test
and `wfe` that whatever came after its test has set the event register.
`LogInv`: the log's channel runs only between the two ends of a write.
`ByteInv`, for a transfer that began with nothing of an earlier one left (`clean`):
the receive channel outlasts the sending one. Of a transfer that did not begin so
it is false, on either controller, which is why `SpiBuffersFree` speaks of the
transmit buffer only under `clean`; of the receive buffer it speaks always
(`RxInv`).

**`FlashProofs`**, for any size of page and sector, any number of pages, any
values and lengths of writes (`FlashAssumption`). `BufInv`: where the chip under
the buffered page is not erased, the two agree, so that programming the page,
or any part of it before power fails, leaves no garbage. `CallInv`: what is left
of a call is inside the area and is what `mem` has there. With them `ReadBack`
is inductive. `PagesInOrder` follows from it: a cell is programmed only in the
buffered page, and every other page is on the chip. The arithmetic (a chunk stays inside its page, a page inside its
sector) is in lemmas of its own. `ProgramEnds` compares the measure `Work`
before and after each step of the loop. The refinement maps every step to one
of `Store`: a program of the buffer to cells written, a filled buffer to cells
accepted, a failure to each cell old or new.

**`TimerProofs`**, about `Micros` for every word size above zero, every set of
callers and every set of delays (`WordAssumption`, `DelayAssumption`,
`TimeBound`): `IInv` says, for each control point, that what a caller has read so
far was the register's value at a moment since its call began: the high word is
between those of the start and of now, and the low word was read while the high
word was at least as large. When the second read of the high word agrees with
the first, the count cannot have carried between them, so that the two words
are of one moment. About `Alarm` for all margins and latencies that satisfy
`AlarmConstants` and `Margins` (`AlarmAssumption`): a callback that is set has its
alarm ahead, or its interrupt is raised, or the interrupt was taken by a
`tim_handler` that began after it was set (`Ahead`, `Fired`, `Taken` in
`AheadInv`); `SetInv` bounds the time since the clock was read as long as the
code relies on it, `LateInv` the time since the alarm, which together place the
alarm in or out of the window modulo the word. `LastInv` carries, from the test to
the erasure, that what is to be called is still what is set unless a timer was
set meanwhile (`late`). The proof needs a margin above
zero: with `Margin = 0` and `Latency = MinDelta` the new alarm may be due before
`SetClear` drops the old interrupt, and TLC finds `AlarmOK` violated. `Margins`
says so; the code has 5.

**`PeripheralsProofs`** is about six modules. `Exti`, for any number of pins
(`PinsAssumption`). `EventsInv`: only events that the table knows are enabled, and an operation in progress works on
them; `EnableInv`: while a pin is being turned on its own callback does not run,
because interrupts are off or nothing of the pin is enabled yet; `FreshInv`: what
is latched between the acknowledge and the enable is new.

The assumptions of the other five are the parts of `DriverAssumptions`. `Board`,
for any pins of the application other than the LED's and the one that is
measured, and any readings (`BoardPins`): the application's operations are shown
one by one to leave the registers of what they set up (`PadOps`, `PadWrites`),
from any registers. For the LED, `BootInv` is the order of the boot: nothing
drives the LED's pin before `platform_init`, which leaves it undriven whatever it
measures, and a Pico whose LED is in use drives it; `LedInv` says that `is_on` and
the chip agree and that the colour last set is on the pin or on the chip. That a
pin keeps its use needs that platform code and application have different pins.
`Adc`, for every sample of 12 bits (`Samples`): `TempError` bounds the error of the
whole-number slope over the range of the converter by a quarter of a degree and
the rounding (TLC, whose integers have 32 bits, checks the
sensor's range only). `I2c`, for every pair of pins: `PinFunctions` relates the test of
`i2c_init_` to the table of pin functions; the bus is free before it is set up
(`I2cInv`). `Random`, for any size of buffer (`SizeBound`): the loop has taken one
number for every four bytes (`RandomInv`), so that byte `k` is of number `k \div 4 + 1`.
`Descriptors`, for any table of strings and length of the buffer (`StringTable`):
`WrittenHolds` says that writing a string leaves the buffer's bounds alone and the
string at its beginning; `DescInv` is inductive as it stands. `RunIsOK` shows that
`AllSpec`, the composition in `MCPeripherals`, satisfies the specifications of its
parts: the theorems speak of what the run checks.

**`TcpSockProofs`**, for any hosts, ports, control blocks and environments, and
calls of the application from its events at any depth (`SockInputs`). Each part of
`IInv` has the environments where it holds. `EndInv`, if the application does not
call from ERROR or CLOSE: `raise_error` is then the innermost function in
progress, its CLOSE is the only one, and the functions around it find the socket
closed. `FreeInv` holds in all; `LiveInv`, that the socket's block is in use, where
lwIP frees none by itself; `LookupInv` and `BlockInv` where look-ups are asked for
and waited for: one is on its way only before there is a block, and a block that
can call back is the socket's own. `FrameInv` is about the functions in progress:
lwIP calls from outside only, so that a callback is the outermost, and its block
is not freed before it returns unless a `tcp_close` fails. The table in section 3
is what follows. The refinement follows step by step in the environments where
its mapping is defined.

**`WifiProofs`**, for any access points, signal strengths and growth step
(`GrowAssumption`; `RssiAssumption` keeps the mark for "not heard" apart from the
strengths). `SizeInv` is the bound of the table; `EntryInv` says cell by cell what
`ReportIsComplete` says of the whole: no access point twice, each with what was
heard last, none missing.

**`UsbProofs`**, about `Hid` for any reports, buttons, movements and width of a
coordinate (`HidInputs`) and about `Cdc` for any sizes of packet and queues with
a packet no larger than the queue (`CdcAssumption`). `MouseConserved` needs only
that a mouse report that is not marked has nothing to tell (`MouseInv`), and the
arithmetic of sums modulo the width. `NothingDropped` is about a concatenation;
`TxInv` states it byte by byte, each in the place its number gives it, which the
provers can carry through every step of the queue and the endpoint.

Only model-checked: liveness (`TxCompletes`, `HeardAgain`, `SpiCompletes`,
`EdgesServed`, `Settles`, `Reported`, `ReportsArrive`, `SerialDrains`). They need
fairness, hence ENABLED, which is out of the prover's reach. Every safety
property that a passing run checks, invariant, action property or refinement, is
proved.

## 5. Not modelled

Bytes on the line, baud rate and the PIO instruction timing; PWM periods and
duty; which UART instance the log uses (`uart_log.c:66`); the boot between
`uart.c:249` and `uart.c:255`, where the interrupts of the pin and of the PIO
are on before the first `uart_disable`; device identity, panic blinking and
the hash behind `hw_random`; failures of `jd_alloc` (`wifi_impl.c:40`), which no
caller handles; `jd_wifi_rssi` and the descriptor tables, which are constants;
the forwarding in `cyw43_fixes.c`; configuration headers. jacdac-c, DeviceScript,
the pico-sdk, lwIP, TinyUSB and the cyw43 driver are external.

## 6. What is left

Of the safety properties nothing is left to prove. What could be added is in
section 5: PWM periods and duty with the arithmetic behind them, and failures of
`jd_alloc`, once callers handle them. `LiveBus`, the latencies of `Margins` and
`SyncedBeforeErase` are assumptions on the outside that nothing here discharges;
the first place to look when one of the proofs is to be made stronger is the
latency of `tim_set_timer`'s critical section.
