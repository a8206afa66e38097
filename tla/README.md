# TLA+ models of EmbeddedSoftwareMCU

Models, model-checking runs and machine-checked proofs for the firmware library
in `src/`. These parts are modelled end to end:

- the I2C application library in interrupt mode: two boards, their main threads
  and interrupt handlers, the two peripherals, the wire between them, the
  applications that call the library, and a line that may fail;
- the same library in polling mode and in DMA mode, with a memory device as the
  other partner of a master;
- the control pipe of the USB device: the device core and its interrupt
  dispatcher, the peripheral, and a host that makes requests, may give up, and
  resets and suspends the bus;
- the bulk pipes of the USB device with two classes on them: the data flow of the
  CDC class between main thread and interrupts, and the bulk-only transport of
  the mass storage class.

## 1. The system

The repository collects drivers and libraries for small motor-control and
robotics boards (AT32F403A and STM32F1): a chip platform layer, bus libraries
(I2C, USB device), sensor drivers on top of a bus, and control code (SimpleFOC,
PID, AHRS). Nothing of its own runs under an operating system: concurrency is
that of one main thread per board with interrupt handlers that preempt it, and
of boards that share a bus.

| Component (sources) | State | Operations | Talks to |
|---|---|---|---|
| **I2C library, interrupt mode** (`i2c_application_library/i2c_application.c`) | the handle `i2c_handle_type`: mode, status, pbuff, pcount, error_code | `i2c_config`, `i2c_master_transmit_int`, `i2c_master_receive_int`, `i2c_slave_receive_int`, `i2c_slave_transmit_int`, `i2c_wait_end`, `i2c_evt_irq_handler`, `i2c_err_irq_handler` | the application (calls), the peripheral (registers), its own handlers (shared handle) |
| **I2C library, polling mode** | the same handle | `i2c_master_transmit`, `i2c_master_receive`, `i2c_slave_receive`, `i2c_slave_transmit` | application, peripheral |
| **I2C library, DMA mode** | the same handle, two DMA channels | the `*_dma` calls, `i2c_dma_config`, the two DMA handlers | application, I2C and DMA peripherals |
| **I2C library, memory-device calls** | the same handle | `i2c_memory_write`/`read` and their `_int` and `_dma` forms | an EEPROM-like device on the bus |
| **I2C peripheral driver** (`at32f403a_407_i2c.c`) | the registers | set, clear and test one bit each | the silicon |
| **USB device core** (`usbd_core.c`, `usbd_int.c`, `usbd_sdr.c`) | `usbd_core_type`: connect state, endpoint-0 state, per-endpoint transfers, address, configuration | setup/in/out handlers, standard requests, suspend, wakeup, reset | the host (packets), the class drivers (callbacks) |
| **USB CDC class** (`usbd_class/cdc/cdc_class.c`) | two flags, a length and a buffer shared by main thread and interrupt | `usb_vcp_get_rxdata`, `usb_vcp_send_data`, class callbacks | USB core, application |
| **USB mass storage class** (`usbd_class/msc/`) | state of the command and of the transport, position, residue, sense data | the SCSI commands, stalls, resets, class callbacks | USB core, host, the medium |
| **Other USB classes** (`usbd_class/`) | descriptors, a report or two | class callbacks | USB core, application |
| **BMI088, IST8310, AS5600** (`HardwareDriver/`) | a handle with two function pointers, the last sample | init, read | a bus, through the function pointers |
| **SimpleFOC** (`SimpleFOC/Foc.c`, `BLDCMotor.c`) | previous angle and time stamp, target, integral | alignment, velocity, loops | the sensor, the PWM, the clock |
| **PID, AHRS** | coefficients, last errors / none | one step / conversion | SimpleFOC, sensors |
| **Logging and time** (`Common/common.c`) | one static buffer | `log_put` | every component |
| **Applications** (`Project/`) | none | start-up, a loop | all of the above |

FreeRTOS, the chip libraries, FatFs, lwIP and IQmath are vendored; no project of
the repository starts the FreeRTOS scheduler.

### What is hard, and what makes each part correct

- **I2C, interrupt mode.** The main thread and two interrupt handlers share the
  handle without a lock; the bus moves on by itself between any two register
  writes; the handler of a read has to turn the acknowledge off one byte before
  the last, ask for the STOP before it takes the last two, and count down a
  `uint16_t` that nothing guards; every wait may time out with the interrupts
  still enabled; the line may lose an acknowledge or flag a bus error; what one
  call leaves behind in registers and handle is what the next call starts with.
  *Correct* means: what a successful receive stored is what was sent; no handler
  leaves the buffer; a read clocks as many bytes as were asked for; STOP comes
  after the last byte; end is reported only when the peripheral is quiet; calls
  come to an end.
- **I2C, polling mode.** The same without handlers, but with a race between the
  polling loop and the bus at the EV7 points of a read (1, 2, 3 and more bytes),
  and with a slave receive that waits for the busy flag to be *set*. Correct: as
  above.
- **I2C, DMA mode.** The transfer-complete interrupt, the main thread and the
  last two bytes on the bus race; the handler waits inside the interrupt and
  decides from `pcount`, which the call set. Correct: as above, and the STOP is
  sent once.
- **USB core.** Whether a zero-length packet ends a control transfer; positions
  and lengths of a transfer that was given up meeting the next one; completions
  of the old transfer pending together with the new SETUP; the address taking
  effect after the status stage; reset, suspend and wake-up between any two
  steps, served from flags that were sampled once. Correct: a read delivers its
  own bytes, in order and all of them; a write gives the class what was sent;
  every request is completed or refused as it has to be; between transfers
  device and host agree on address, configuration and open endpoints.
- **CDC.** Flags that main thread and interrupt both write, endpoints that both
  start; packets repeated after a lost handshake; port resets. Correct: what the
  host sent is received whole, in order and once, what the application sends
  reaches the host likewise, and the buffer of a packet has one owner at a time.
- **Mass storage.** Transfers cut in buffers that two interrupts and a host's
  stall clearing move along; state that outlives a command (sense, transport
  state, size); a medium that fails half way. Correct: it is a block device
  (written cells are those of the command, answers tell the truth), a failure
  reaches the host as a CSW, and no packet is larger than what it is copied to.
- **Sensors.** Initialization that fails half way; samples reported after a
  failed read. Correct: a driver that reports success has a sensor configured as
  asked, and fresh samples.
- **SimpleFOC.** The clock wraps, the angle wraps. Correct: time steps are
  positive and the velocity has the sign and size of the motion.

`PROJECT.json` lists the components with their status, and each hazard at its
line with the properties that cover it.

## 2. Modules

| Module | What it is |
|---|---|
| `I2CPeripheral` | registers, driver functions and bus of a master "M" and a slave "S" |
| `I2CInterrupt` | interrupt mode: the library, the handlers, the applications, and the properties |
| `I2CTransfer` | the abstract specification of all three modes: bytes move, the two sides are told |
| `I2CInterruptInv` | its inductive invariant, for any script and line |
| `I2CLockstepInv` | a second one, for scripts that agree and a sound line: how far the two boards are |
| `I2CFramesInv` | a third one, for any script and line again: which call each stored byte comes from |
| `MCI2CInterrupt` | the scripts the model checker runs |
| `I2CPeripheralProofs` | lemmas about the peripheral and the bus, for the proofs of all modes |
| `I2CInterruptProofs` | the theorems about interrupt mode |
| `I2CPolling` | polling mode and the memory device |
| `I2CDma` | DMA mode: channel, handlers, and a partner that may poll |
| `MCI2CPolling`, `MCI2CDma` | their scripts and environments |
| `I2CPollingInv` | the inductive invariant of a polling call, of the memory device, and of a slave that hears of the end |
| `I2CBoardsInv` | one of the bytes between two boards in one round, over a bad line |
| `I2CReceivedInv` | one of what the two sides know of each other over a sound line, in any number of rounds |
| `I2CDmaInv` | the inductive invariant of a call by DMA |
| `I2CPollingProofs`, `I2CBoardsProofs`, `I2CDmaProofs` | the theorems about polling and DMA mode |
| `USBWire` | the USB peripheral's control pipe and the host (external) |
| `USBControl` | the device core, the interrupt dispatcher, the class's part in control requests, and the properties |
| `USBTransfers` | the abstract specification: what a host may expect of a control pipe |
| `USBControlInv` | the inductive invariant of a transfer |
| `USBAgreementInv` | the inductive invariant of what host and core know of each other |
| `MCUSBControl` | the requests the model checker runs |
| `USBControlProofs` | the theorems |
| `USBBulk` | a bulk endpoint in each direction: core, interrupt, peripheral, wire |
| `CDCData` | the CDC class's data flow and its properties |
| `CDCDataInv` | its inductive invariant |
| `MCCDCData` | the traffic the model checker runs |
| `CDCDataProofs` | the theorems, of receiving and of sending |
| `MSCBulkOnly` | the mass storage class, its host, and the properties |
| `BlockDevice` | the abstract specification: what a host may expect of a medium |
| `MSCBulkOnlyInv` | its inductive invariant, for hosts that keep clear of the defects |
| `MCMSCBulkOnly` | the commands the model checker runs |
| `MSCBulkOnlyProofs` | the theorems |

`I2CInterrupt` and `I2CPolling` extend `I2CPeripheral`, `I2CDma` extends
`I2CPolling`; each of the three instantiates `I2CTransfer`. `USBControl` extends
`USBWire`, which instantiates `USBTransfers` with the host's variables. `CDCData`
and `MSCBulkOnly` extend `USBBulk`; the latter instantiates `BlockDevice`.
Invariants and proofs extend the module they are about. Sections 2.1 to 2.4
describe the models.

## 2.1 I2C, interrupt mode

### State

| Variable | In the code |
|---|---|
| `mode`, `status`, `pcount`, `error_code` | the fields of `i2c_handle_type` |
| `pbuff` | `pbuff` minus the buffer's address |
| `mem` | what the call has stored in its buffer |
| `ctrl`, `ints`, `flags` | bits of ctrl1, of ctrl2, and the latched bits of sts1/sts2 |
| `tx`, `rx` | data register and shift register, each way |
| `phase`, `dir`, `sel`, `clocked`, `acked` | the frame on the bus |
| `pc` | the place in the main thread: which wait of which call |
| `isr` | a handler that waits inside the interrupt |
| `ret` | the result of the last call |
| `plan`, `round`, `tries`, `faults` | the applications' script and the fault budget |

A byte is `<<k, i>>`, the `i`-th byte of the buffer of call `k`: all the
properties need of a byte is where it came from.

### Actions

The main thread is cut where the hardware or a handler can come between: at
every `i2c_wait_flag`, and after every register write that lets the bus go on.

| Action | Code |
|---|---|
| `StartCall` | the head of the four `*_int` calls: the handle is filled in, `status` is `I2C_START` |
| `BusyTimeout`, `MasterStart`, `SlaveListen` | step 1: the wait for BUSYF; ACK control, START |
| `MasterSendAddress`, `MasterClearAddr`, `MasterStepTimeout` | step 2 of a master: `i2c_master_write_addr`/`_read_addr`, ADDR7F and the EV6 set-up for 1, 2 and more bytes |
| `MasterAddrFail`, `MasterFailStop` | a refused address: the STOP and the clearing of ACKFAIL in `i2c_wait_flag` (line 202), then the STOP of the start function (lines 838, 938) |
| `MasterEv6Stop`, `MasterEv6Ack` | the register write *after* ADDR7F is cleared, for 1 and 2 bytes |
| `SlaveClearAddr`, `SlaveStepTimeout` | step 2 of a slave |
| `EnableInterrupts` | the last statement of each call |
| `i2c_wait_end` | the wait for `I2C_END`, with its two results |
| `NextRound`, `i2c_config`, `Retry`, `GiveUp` | the application |
| `i2c_evt_irq_handler` | the dispatcher with `i2c_master_tx_isr_int`, `i2c_master_rx_isr_int`, `i2c_slave_tx_isr_int`, `i2c_slave_rx_isr_int` |
| `SlaveTxEnd` | the rest of `i2c_slave_tx_isr_int` after its wait for ACKFAIL |
| `i2c_err_irq_handler` | the error handler |

A handler is one step. It preempts the main thread of its board, and its
registers change under it only by the bus; the bus can add a byte while the
handler runs, which is the same as adding it just after, since the handler reads
each flag once and branches on it before it writes. The one handler that waits
is two steps. A main-thread step is not taken while a request of its board is
pending, so a request that no handler clears starves the main thread, as it does
on the chip. Where a handler finds nothing to do it changes no state, and is not
a step.

### The peripheral

The silicon is not in the repository. `I2CPeripheral` models it from what the
library relies on, and the `map` marks those definitions external:

- TDBE, RDBF and TDC are derived from the contents of the data and shift
  registers; STARTF, ADDR7F, STOPF, ACKFAIL, BUSERR and BUSYF are latched.
- A slave holds the clock while ADDR7F is set, while both its receive registers
  are full, and while it has nothing to send; a master that reads holds it while
  both its receive registers are full.
- ACKEN decides the acknowledge of the byte that ends; with MACKCTRL (`ACKNEXT`)
  it decides that of the next byte. A requested STOP goes out at a byte boundary.
- A master that refused a byte without having asked for STOP clocks on and reads
  an undriven line (`HwOverrunByte`): this is what a wrong count costs.
- A slave's peripheral acknowledges its address whenever ACKEN is set, whether
  its software has called or not.
- Interrupt requests are levels.

Addresses are 7-bit; both handles are on I2C1 (`EnableInterrupts` uses the
hard-wired `I2C1` of the code, the rest `hi2c->i2cx`).

### The application

The library has no protocol above a call. Two applications agree on a *script*
of rounds (direction, the size each passes) and run it. After a failed call an
application tries again, up to `MaxTries` times, calling `i2c_config` first if
`ResetOnError`, then gives up. `SlaveFirst` says that the master calls only when
the slave listens, which is how the boards have to be used: an address that is
refused is an error at once.

## 2.2 USB, the control pipe

### State

| Variable | In the code |
|---|---|
| `conn_state`, `old_conn_state`, `device_addr`, `dev_config`, `remote_wakup`, `ept0_sts`, `ept0_wlength` | the fields of `usbd_core_type` |
| `in0` | `ept_in[0]`: `rem0_len`, `last_len`, `ept0_slen`, and `trans_buf` as the transfer that owns the buffer (`of`) and the position in it (`off`) |
| `out0`, `stored` | `ept_out[0].rem0_len`, and what has been stored up to its `trans_buf` |
| `stall` | the endpoints whose `stall` field is set |
| `applied` | what `class_ept0_rx_handler` was last given |
| `irq` | the flags that one call of `usbd_irq_handler` has sampled and still has to serve |
| `txsts`, `rxsts`, `txpkt`, `rxpkt`, `tc`, `flags`, `hwaddr`, `ssp`, `ept1` | registers and packet buffers: the status fields and completions of endpoint 0, the reset, suspend and wake-up flags, the address register, suspend mode, the class's IN endpoint |
| `bus`, `stage`, `req`, `xfer`, `got`, `sent`, `result`, `haddr`, `hconf` | the host: the transfer it is in, what it has received and sent, the address and configuration it has given |

A byte is `<<k, i>>`, byte `i` of what request number `k` is about. A request is
a name, a value and `wLength`. The value of GET_DESCRIPTOR stands for the length
of the descriptor (0: there is none); that of the endpoint requests is 1 for the
class's IN endpoint and 0 for endpoint 0; that of the features is 1 for remote
wake-up.

### Actions

| Action | Code |
|---|---|
| `IrqEnter` | `usbd_irq_handler` reads the interrupt flags, once |
| `EptTx` | `usbd_eptn_handler`, transmit completion: position, `usbd_core_in_handler`, the deferred address |
| `usbd_core_setup_handler` | the SETUP completion: one disjunct per standard request of `usbd_sdr.c`, and `usbd_interface_request` with the class's `class_setup_handler` |
| `EptOut` | the receive completion: the copy, `usbd_core_out_handler`, the class's receive callback, the status packet |
| `usbd_ept_loop_end` | `usbd_ept_loop_handler` finds no completion left |
| `usbd_reset_handler`, `usbd_suspend_handler`, `usbd_wakeup_handler` | the flags, in the order in which `usbd_irq_handler` looks at them |
| `usbd_remote_wakeup` | the application wakes the bus up |

One completion or one flag is one step, and host and wire go on between the steps
of one interrupt: within one the handler tests each completion once, and what it
reads again (lengths, the buffer) belongs to an endpoint that answers NAK
meanwhile. The read-modify-writes of an endpoint register are atomic in the
models. `USB_CLEAR_TXTC` and `USB_CLEAR_RXTC` (`at32f403a_407_usb.h:478`) read the
register and write it back with the other completion as read; a completion that
the hardware sets between the two may be cleared by the write. The models leave
this out. A
transmit completion is served before a SETUP, a SETUP before received data, the
completions before the flags.

### The USB peripheral and the host

Neither is in the repository; `USBWire` models them from how the core uses the
registers.

- A SETUP packet is taken whatever the status fields say, and sets both to NAK.
  There is one receive buffer: nothing is taken while a SETUP or OUT completion
  is pending.
- A data packet is taken only with status valid, which it turns into NAK.
- A reset switches the endpoints off and leaves the completions pending, the
  buffers and the address register as they are; the handler clears the address.
- While suspended the peripheral hears nothing; traffic raises the wake-up flag.
- The host makes one request at a time, in the order of the standard: SETUP,
  data, status. A read ends with a short packet or with the length it asked for.
- The host waits until a reset or a resume has been served (`flags = {}`), as the
  recovery times of the standard provide. It suspends between transfers only.
- A host with `Cancels` may give up when the device has nothing pending any more,
  except SET_ADDRESS and SET_CONFIGURATION. One without asks for the endpoints
  only when it has configured the device, and makes no request that the code
  leaves unanswered (the `Answered` requests of `MCUSBControl`).
- `ResetSuspended` allows a reset while the device is suspended; the peripheral
  then notices the reset with its wake-up flag already set.
- GET_STATUS asks for at least two bytes and GET_INTERFACE for at least one
  (`LengthsAssumption`): the core sends them whatever `wLength` says.

## 2.3 I2C, polling and DMA

### Polling mode and the memory device (`I2CPolling`)

Everything runs in the main threads. `pc` names the wait a thread is in, `left`
is the local variable `size`, `mem` what has been stored, `ret` the result.

| Action | Code |
|---|---|
| `StartCall`, `GenerateStart`, `SendAddress` | step 1 and the address of the master's four calls |
| `LookAgain`, `NoEvent`, `WaitAckFail`, `WaitStop`, `WaitTimeout` | the loop of `i2c_wait_flag`: the awaited flag, then the event flag, then the count |
| `CleanUp` | the STOP, or the acknowledge off, before an error is returned |
| `ClearAddrToWrite`, `SendData`, `StopWrite` | `i2c_master_transmit` and `i2c_memory_write` |
| `ClearAddrToRead`, `Ev6Stop`, `Ev6Ack`, `ReadByte`, `ReadThirdLast`, `ReadLastTwo` | `i2c_master_receive` and `i2c_memory_read`, at 1, 2, 3 and more bytes left |
| `SendRegister`, `GenerateRestart` | the register number, and the second START of a memory read |
| `EnableAck`, `SlaveClearAddr`, `SlaveReadByte`, `SendData`, `SlaveEnd` | `i2c_slave_receive`, `i2c_slave_transmit` |
| `NextRound`, `TryAgain`, `GiveUp` | the application |
| `Device` | the memory device (external): a pointer set by the first byte of a write, and registers |

`i2c_wait_flag` reads two flags one after the other, and the bus may move between
the two reads (`checking`): this is where a byte and the STOP behind it could be
taken in the wrong order. The thread is also split after each register write that
lets the bus go on.

What surrounds the library is chosen at the start from the constant `Scenarios`:
a script, and an *environment* that says how many faults the line may have,
whether waits give up, how often a failed call is tried again and whether after
`i2c_config`, whether the master waits for the slave to be in its call, whether
the main threads are `prompt` (no thread is held up, between two register
accesses that the code makes one after the other, for as long as a byte takes on
the bus), and which boards transfer by DMA. One run can so cover sound and bad
lines, and each property names the environments it is about.

### DMA mode (`I2CDma`)

A board in `env.dma` uses the `*_dma` calls. The module adds the handle's mode,
status and error code, the channel (`cnt`, `tcint`, `tc`), the peripheral's two
DMA bits (`dmaen`, `last`) and `isr`, the flag that a handler waits for inside
the interrupt.

| Action | Code |
|---|---|
| `DmaStartCall`, `DmaGenerateStart`, `DmaEnableAck` with `i2c_dma_config` | the head of the calls |
| `DmaClearAddrToSend`, `DmaClearAddrOfDevice`, `DmaClearAddrToReceive`, `DmaClearAddrToRead`, `DmaAckOff`, `DmaStop`, `DmaEnable` | ADDR7F, the end-of-transfer bit, the acknowledge and STOP of a read of one byte, the DMA request |
| `DmaHandler`, `DmaHandlerEnds` | `i2c_dma_tx_irq_handler`, `i2c_dma_rx_irq_handler`, up to the wait inside and after it |
| `i2c_wait_end` | the wait for `I2C_END` |
| `DmaMove` | the DMA controller (external) |

The steps up to the address are those of `I2CPolling`. The DMA controller moves a
byte before the bus gets on by one. `ResetAssumption` says that an application
whose waits may give up calls `i2c_config` before it goes on: otherwise the
transfer-complete interrupt of the abandoned call meets the next one's mode and
count, which nothing in the library guards against.

## 2.4 USB, the bulk pipes

### Endpoints (`USBBulk`)

An endpoint is a record of what the core and the peripheral keep of it: status,
toggle, completion, the packet in packet memory, and what is still to send (`rest`)
or what has been stored, the room left and the length (`buf`, `room`, `len`).
The functions of `usbd_core.c` and `usbd_int.c` are operators from the endpoint
before the call to the endpoint after it, so that a class's handler is the
composition of the calls it makes. Data are units of which `MaxPacket` fill a
packet; a unit says what it is part of and where in it.

A packet whose handshake is lost stays valid at its sender and is sent again; the
receiver knows it by its toggle and drops it. `TakePacket` and `GivePacket` are
the two transactions, with the handshake lost or not.

### CDC (`CDCData`)

The main thread polls: `GetTest`, `GetClear`, `GetCopy`, `GetArm` are
`usb_vcp_get_rxdata`, `SendTest`, `SendClear`, `SendWrite`, `SendValid` are
`usb_vcp_send_data`, cut at each access to what the interrupts share.
`InComplete` and `OutComplete` are the endpoint's interrupt with the class's
callbacks, `PortReset` and `Configure` the bus reset and the SET_CONFIGURATION
after it. `host` records what the host has given and taken. A port reset comes
between the main thread's calls (`InCall`); section 4 says why.

### Mass storage (`MSCBulkOnly`)

The operators named after the functions of `msc_bot_scsi.c` map the device to the
device after the call. `EptInterrupt` is the interrupt of the bulk endpoints with
all the calls it makes: the CBW's decoding, the command, data and CSW. The host's
driver is external: it sends CBW, data and reads the CSW of a script of commands,
clears a stalled endpoint as the bulk-only transport says (`ClearData`,
`ClearStatus`), and does a reset recovery when nothing else is left. `DiskWorks`
is `msc_disk_read`/`_write`: it fails for bad addresses. `BlkSize`, `BufLen` and
`MaxPacket` scale block, `MSC_MAX_DATA_BUF_LEN` and packet down by one factor;
CBW and CSW are one unit, shorter than a packet as in the code.

`BlockDevice` has the medium's cells and the answers only: cells change by the
running write, a command passes when it has been done as a whole, and what fails
on a sound medium has changed nothing.

## 3. Runs

| Run | Instance | What it asks, and the answer |
|---|---|---|
| `int_rounds` | two rounds, either direction, 1 to 4 bytes, a sound line, fair; deadlock checked | Are the two boards in step (`MatchedInv`), does STOP follow the last byte of a write, do the handles implement `I2CTransfer` to the end of the script (`ReliableTransfer`)? Yes. |
| `int_faults` | one round, the two sides' sizes chosen independently, one fault, timeouts, one retry after `i2c_config` | Do the inductive invariant, the buffer bounds, the quiet end and unmixed buffers survive? Yes. |
| `int_retry` | two rounds, either direction, 1 to 4 bytes, the master may call early and be refused, two retries without reset | Is what a successful receive stored still intact although a refused frame came before it, and is a read clocked exactly however late the interrupts are enabled (`ReadClocksExactly`)? Yes. |
| `int_returns` | one round, one fault, timeouts, fair; deadlock checked | Does every call return? Yes. |
| `int_wait_end` | the master writes 2 bytes to a buffer of 1, timeouts, fair | Does `i2c_wait_end` return within its timeout? **No** (finding 1). |
| `poll` | two rounds between boards or with the memory device, 1 to 4 bytes, prompt and late main threads, early masters, a fault with timeouts and a retry; fair | Are bytes and registers where they belong (`ReceivedIntact`, `NothingMisplaced`), are reads counted exactly and writes acknowledged (`CountsHold`), is there never a STOP without a frame or a byte left behind, is it `I2CTransfer`, and do calls return? Yes. |
| `dma` | the same with both boards, either board, or the master of the memory device by DMA, 1 to 3 bytes; fair | Does DMA promise the same, with `I2C_END` only when channel and peripheral are quiet? Yes. |
| `usb_requests` | every request the core answers, descriptors of 0 to 5 bytes asked for with 1 to 6, class data of 0, 3 and 4, any four of them, fair; deadlock checked | Are reads and writes exact, is the device a `USBTransfers`, answering always? Yes. |
| `usb_bus` | two resets, two suspends, wake-ups from host and application, unanswered requests, a host that gives up, four transfers, fair; deadlock checked | Does the invariant hold that the proofs use (`CoreInv`, which includes that of the pipe), do host and device agree on address, configuration and open endpoints whenever both rest (`HostAgrees`), is the address taken late enough, is every request still answered? Yes. |
| `usb_reset_suspended` | a reset of a suspended device | "usb connect state set to default" after a reset? **No** (finding 2). |
| `cdc` | both directions at once, two or three packets from the host, two messages from the application, two handshakes lost or port resets, fair; deadlock checked | Does the inductive invariant hold, are packets got in order and once, messages taken whole, and does all arrive if there is no reset? Yes. |
| `msc` | READ CAPACITY and two commands of every kind, a medium with a bad address, a lost handshake, both, or a bus reset, fair | Is the class a `BlockDevice`, are verdict, sense and residue right, does every packet fit, is a failure told by a CSW, do good commands pass? Yes, outside the cases of section 4. |

`MaxPacket = 2` in all USB runs.

`CHECK_DEADLOCK FALSE` stands in the runs where the system really stops: in
`int_faults`, `int_retry` and `int_wait_end` a request that nothing clears keeps
a handler busy for ever, or an acknowledge left on makes both sides wait; in
`poll` and `dma` applications that have given up, or wait without a timeout for a
partner that has; in `msc` the script ends.

### Bounds, and why they are enough

- *Sizes.* The code treats 1, 2 and 3 remaining bytes apart and everything
  above alike; 4 is the general case with a step into the special ones. In
  DMA mode the sizes of 1, and of more than 1 are apart; 3 is one more.
- *Rounds.* Two: what a call leaves in registers and handle meets the next call.
  The library keeps nothing older than one call. The memory device has four
  registers, so that a write and an overlapping read of up to four wrap.
- *Faults and tries.* One of each where both are possible, two tries in the runs
  with a master that is too early. A fault can hit any byte of any attempt,
  before or after the reset.
- *USB lengths.* With packets of 2 bytes, descriptors of 0 to 5 bytes and requests
  of 1 to 6 give every order of descriptor length, length asked for and multiples
  of the packet size, with up to three packets.
- *USB transfers.* Four: two to get an address and a configuration, and two more
  for what one transfer leaves to the next. Two resets and two suspends put each
  before, inside and after an enumeration.
- *CDC.* Messages of 1 to 4 units are short, full, and of one and a half or two
  packets; two of each direction put what one leaves into the next; losses and
  resets add up to two.
- *Mass storage.* A medium of 3 blocks, blocks of 2 units, a buffer of 4: transfers
  of one buffer, of one and a half, and one block too many. `Wrap = 64` stands
  for 2^32 and is not reached by the scripts. READ CAPACITY comes first, as in
  every host, since only it tells the class the size of the medium; of the two
  commands that follow each meets what the other left.
- *Timeouts.* A wait may give up in any state in which its flag is missing, so
  the length of the timeouts does not appear.

The theorems of section 5 have none of these bounds.

### Fairness

- *I2C, interrupt mode.* `FairSpec` has weak fairness for the bus, for each main
  thread and for each board's handlers: the clock keeps running, a CPU keeps
  executing, a pending interrupt is taken. Faults are not fair: the line need not
  fail. A wait with `Timeouts` is bounded because the loops of the code count a
  timeout down: the wait's own action may leave it, and weak fairness of the main
  thread makes it do so, unless an interrupt that never ends keeps the CPU.
- *I2C, polling and DMA.* The same for hardware and CPUs, and strong fairness for
  a wait that gives up (`WaitTimeout`): the loop counts down while the flag is
  missing, though it may come and go (a slave's event flags).
- *USB, control pipe.* Weak fairness for the interrupt handler, for the host's
  next packet of a transfer it has begun, for the wire (an idle bus is noticed
  and ends), and for giving up on a request that the device does not answer: every
  host has a timeout. The host need not make requests, reset or suspend.
- *CDC.* Weak fairness for the main loop, the interrupt, the SET_CONFIGURATION that
  follows a reset, and for the transactions of the host whose handshake is not
  lost: a host polls the endpoints it has opened.
- *Mass storage.* Weak fairness for the interrupt and for the host's next step.

### Mutants

Next to some definitions stand variants named after them, each introduced by
"Defect": a plausible slip in that place of the code (a flag looked at first, a
reset left out, a count off by one). `PROJECT.json` pairs every property of every
passing run with one of them; with the variant in place TLC finds the property
violated, which shows that the property depends on that code.

## 4. What the runs found

1. **One byte too many stalls the slave's board.** `i2c_slave_rx_isr_int`
   (`i2c_application.c:2101`) leaves RDBF pending when `pcount` is 0; the request
   repeats for ever and the main thread, which counts the timeout that
   `i2c_wait_end` documents ("maximum waiting time", line 155), does not run.
2. **A reset of a suspended device is undone by its wake-up.**
   `usbd_irq_handler` serves the reset flag (`usbd_int.c:58`) before the wake-up
   flag (line 98) of the same interrupt. `usbd_reset_handler` sets the connect
   state to default ("usb connect state set to default", line 264), then
   `usbd_wakeup_handler` brings the state of before the suspend back. The device
   has address 0 and believes itself addressed or configured; if configured, it
   refuses the SET_ADDRESS that follows. When each flag has an interrupt of its
   own, or the device is not suspended, reset works (`usb_bus`).

The models make more boundaries visible, which no text of the repository speaks
of, or which a property excludes by a condition of its own.

### I2C

- After an error the handler switches off the error interrupt only
  (`i2c_application.c:2300`, below the comment "disable all interrupts"). The
  transfer goes on, and `i2c_wait_end` reports the error when it ends;
  `EveryCallReturns` shows that calls still end.
- In interrupt mode a write is complete before its last byte is out:
  `i2c_master_tx_isr_int` reports I2C_END on TDBE (line 1966). If the last byte is
  not acknowledged the call still returns I2C_OK; hence `EarlyEnd` in
  `I2CTransfer`. Polling and DMA wait for TDC.
- A read of one or two bytes needs the main thread within a byte's time of
  clearing ADDR7F (constant `Prompt`, `prompt`). A later one in interrupt mode
  reads a second byte, wraps `pcount` to 65535 and stores beyond the buffer (one
  byte), or stalls (two). Three bytes and more are safe: no register write follows
  the clearing of ADDR7F, and the handler's count waits for TDC however late the
  interrupts are enabled (`int_retry`, and the case of `Timely` in the theorems of
  section 5 that needs no `Prompt`).
- A refused address gets two STOP requests: `i2c_wait_flag` makes one (line 202),
  the start function another (line 838 of a write, 938 of a read). In time, the
  second falls on the first (`Prompt`). A main thread that is held up between the
  two makes the second on a bus that is free again, where it waits for the next
  frame: a write that is tried again as it is, is cut off after its address, and
  the slave's call latches the STOP and returns I2C_OK with an empty buffer;
  `i2c_config` before the retry drops the request. TLC finds the cut-off write with `int_retry` and
  `Prompt = FALSE`, where `ReceivedIntact` fails; the run has `Prompt = TRUE`, and
  the theorems of section 5 about two boards in step have `NoStrayStop`. Polling
  mode has the same two requests (`WaitAckFail`, `CleanUp`).
  `i2c_memory_read` of two bytes clears ADDR7F (line 1470) before it turns the
  acknowledge off and has the same window.
- An application that does not call `i2c_config` after `i2c_wait_end` timed out
  starts the next call with the interrupts of the last one enabled; `BufferBounds`,
  `EndQuiesces`, `ReadClocksExactly` and `NoMixedBuffer` then fail, hence
  `ResetOnError` in `int_faults` and in the theorems. In DMA mode a late
  completion (line 2158) then ends the next call; `I2CDma` assumes the reset.
- A master that starts again while the slave is in its interrupt-mode call (its
  first frame was lost after the address) sets ADDR7F, which no handler clears:
  the slave's board stays in the handler. `int_returns` makes one try.
- A slave receive in interrupt mode that STOP ends early reports I2C_OK with fewer
  bytes than its size (line 2111). Bytes beyond the size of a polling one stay in
  the registers for the next call: `NothingMisplaced` of `poll` is about one
  round.
- The slave's acknowledge stays enabled after a call. A master that calls before
  the slave's next call is acknowledged by the hardware alone, and the slave's
  call then waits for BUSYF, which only its own peripheral could release.
- `i2c_slave_receive` waits for BUSYF to be *set* (line 488), where the comment
  and the other calls wait for it to be reset. It works because a master's START
  comes first; `poll` has both orders.
- `StopHasFrame` and `NothingLeftBehind` need a prompt main thread and waits that
  do not give up: a STOP requested late or after a failure meets a free bus, and
  is sent with the next frame. `NothingLeftBehind` is about receives only: a slave
  that *sends* and gives up may hold the bytes of a write that its call was not for.
- A read of one byte by DMA that is late requests its STOP when the second byte is
  already clocked. The channel fetches one, the other stays in the data register,
  and with the next late read there are two. Two bytes there are a TDC, whatever
  they belong to: the handler of the master's next write by DMA does not wait, ends
  the write with I2C_OK and requests STOP before the bytes are out. Hence
  `MasterInTime` in `DmaCountsHold`, where a polling write, which has no use for
  a received byte, keeps its count (`CountsHold`).
- A DMA write whose byte is refused gets no transfer-complete interrupt and no
  STOP: the bus is held until `i2c_config`. The time-out of a wait inside a DMA
  handler reaches the caller through `error_code`, since `status` is overwritten.
- The address of a memory register is a `uint16_t` of which 8 bits are sent
  (line 1348). The start functions use `I2C1` where the handlers use `hi2c->i2cx`
  (line 847): the library serves one peripheral.
- Retries are at least once: the receiver may already have the bytes.

### USB control pipe

- The core gives no answer at all, neither status nor stall, to SET_FEATURE and
  CLEAR_FEATURE of another feature, GET_DESCRIPTOR with `wLength` 0, SET_INTERFACE
  with data, and unknown recipients. An endpoint request before configuration
  stalls the endpoint asked about and leaves the request open. The host's timeout
  ends such a transfer; `usb_bus` shows that the pipe is usable afterwards.
- SET_ADDRESS with address 0 is not written to the register (`device_addr > 0`).
- SET_CONFIGURATION with a value other than 0 and the current one is acknowledged
  and ignored.
- A SET_ADDRESS that the host gives up before its status stage takes effect with
  the next packet the device sends.
- The `stall` field of endpoint 0, once set, is never reset; it shows in GET_STATUS
  only. Clearing the halt of an IN endpoint makes it valid at once, with whatever
  its buffer holds.

### CDC

- A reset and new configuration inside `usb_vcp_send_data` or
  `usb_vcp_get_rxdata` change flags and endpoints under the call: a message is
  torn or a packet is handed over twice. `PortReset` and `Configure` come between
  calls; what may then be lost is what `GetsInOrder` and `TakesWhole` allow.
- `usb_vcp_send_data` of more than one packet keeps the application's buffer until
  the last is out (`cdc_class.c:378`, `usbd_core.c:328`), while it returns at once.
- A message that is a multiple of the packet size is sent without an empty packet
  after it; its end is visible to a host that knows the length.
- Sent to before it is configured, the endpoint is made valid all the same.

### Mass storage

- **A WRITE(10) of more than one buffer that fails in between is cut short**
  (`CutShort`): the class stalls nothing, sends a CSW while the host still sends
  data, and waits for a CBW. The rest of the data is received into the 31 bytes of
  `cbw_struct` (`msc_bot_scsi.c:185`, `:278`), decoded and refused; the sense data
  becomes that of an illegal request, and the next command meets a stall. A medium
  that fails inside a READ(10) has the CSW sent where data are due (`BreaksOff`).
  The host needs a reset recovery.
- The data of an invalid CBW go the same way, on any medium: OUT is not
  stalled and a CBW is awaited at once (lines 329, 337), so that what the host sends
  is received into `cbw_struct`.
  `NoOverrun`'s packet clause holds until one of these two commands (`SendsOn`) has
  been sent; from then on a later command may find OUT open in its turn.
- After a reset recovery `bot_status` stays at BOT_STATE_RECOVERY (line 132), after
  a WRITE(10) cut short at BOT_STATE_ERROR: from then on, until the port is reset, a
  command that is refused gets no CSW after its stall is cleared, and the host has
  to recover once more (`LeavesStatus`).
- When the handshake of a CBW is lost and the command, with data to the device, is
  refused, the host repeats the CBW to a stalled endpoint: reset recovery again.
- Sense data are never cleared; the number of blocks is known after READ CAPACITY
  only; a READ(10) of no blocks sends an empty packet, a WRITE(10) of none waits for
  one; the check of
  `bCBWLUN` accepts one unit too many (line 209); `blk_offset + blk_count` may wrap
  (line 305), and the byte address does beyond 4 GiB (line 623).

## 5. Proofs

### Interrupt mode

`I2CInterruptProofs` proves, for **every** script, size up to 65535, number of
tries and faults, with or without timeouts, with the slave first or not:

| Theorem | States |
|---|---|
| `Invariant` | `Spec => []IInv` |
| `TypeCorrect` | `Spec => []TypeOK` |
| `BoundsHold` | `Spec => []BufferBounds` |
| `EndIsQuiet` | `Spec => []EndQuiesces` |
| `ReadsAreExact` | `Spec => []ReadClocksExactly` |

Assumptions, stated in each theorem: `ResetOnError`, and `Timely`: the main thread
is in time for EV6 (`Prompt`), or no script has a read of one or two bytes. Without
either the properties are false, see above. Beside these the constants'
`PlansAssumption` (a script is a non-empty sequence of rounds with sizes from 1 to
65535), `BoundsAssumption` and `SwitchesAssumption`.

None of the properties is inductive. `BufferBounds` needs to know that a handler
never runs with `pcount` 0, which for a read depends on the number of bytes in
the receive registers, which depends on how many the bus has clocked, which
depends on the acknowledge bit at each byte. `IInv` says all of it:

- *handle*: mode and counters are those of the round the node is in;
- *interrupts*: they are enabled only between the end of a start call and
  I2C_END, or after a timeout until the reset;
- *master at rest*: nothing received, no START, and a STOP on its way unless the
  bus is free;
- *start and address*: what the flags and the frame are at each of the two waits;
- *write*: no START or STOP is pending and nothing is received;
- *read*: the bytes clocked are those stored and those in the registers
  (`clocked = pbuff + Len(rx)`); the frame is open with all bytes acknowledged or
  closed with the last refused; ACKEN is on exactly while more than two bytes
  remain to be stored, so with two registers the last byte, and no other, is
  refused; TDC is never served with fewer than two bytes left, nor RDBF with none.

The proof has a lemma per group of actions (main thread, each handler, the bus,
faults) and group of conjuncts, on top of the typing lemmas and the frame lemmas
(a step of the slave's board leaves the master's registers alone). TLC checks
`IInv` in `int_faults`.

The second half of the module proves what the two boards do *together*, for every script in
which they agree on the sizes (`SizesMatch`), over a sound line (`SoundLine`: no
fault, no wait that gives up), with `Timely` and `NoStrayStop`: the main thread is in
time (`Prompt`), or a failed call is followed by `i2c_config` (`ResetOnError`), or the
master calls only a listening slave (`SlaveFirst`):

| Theorem | States |
|---|---|
| `LockstepInvariant` | `Spec => [](IInv /\ LockstepInv)` |
| `ReceivesAreIntact` | `Spec => []ReceivedIntact` |
| `StopsAfterLastByte` | `Spec => StopAfterLastByte` |
| `MatchedInvariant` | `Spec => []MatchedInv` |
| `ImplementsTransfer` | `Spec => Transfer!Init /\ [][Transfer!Next]_Transfer!vars`, if also `SlaveFirst` |

`ResetOnError` is not needed here if the main thread is in time: over a sound line the
only call that fails is one whose address was refused, and it leaves the master at rest
(`RetriesClean`, which is what `IInv` asks of a retry). If it is late, the second STOP
of that call may be left on the free bus (section 4), and the theorems are false without
`i2c_config`; with it they hold, and they hold for a late thread that is never refused,
which `InvitedInv` shows, so the induction of all five is that of `MatchedInv`. The
hypotheses are those the code needs: the
library's interface tells neither side the other's size nor how many bytes it got,
so with sizes that differ, or a call that gave up, a receive may return I2C_OK with
less than the buffer; and a master that calls a slave too early is refused and
tries again, which `I2CTransfer`, whose rounds are never refused, does not have
(the other four theorems cover it).

What a receive stores depends on bytes in four places (sent, in the transmit
registers, in the receive registers, stored) on two boards whose calls begin and
end at different times: a master may be in its next round while the last byte of
the previous one is on the wire, and a slave may be one round behind with the STOP
or the refused acknowledge that ends its call already latched. `LockstepInv` fixes
the *round of the frame on the bus* and relates all else to it:

- `FrameRound` is the master's round, or the one before if it has already left the
  call; `Moved` counts the rounds whose bytes have all moved;
- `RoundInv`: the slave's call is served (`Served`: addressed, and its ADDR7F
  cleared) only between its address and its I2C_END, and it has ended `Moved`
  rounds - or one less, and then the end is latched (`LatchInv`);
- `MasterWire`, `SlaveWire`: what each board's registers say of the frame; every
  byte of it has been acknowledged;
- `MasterSends`, `SlaveSends`: the transmit registers hold exactly the pieces
  between what was clocked and what was posted (`Pieces`);
- `MasterStores`, `SlaveStores`: buffer and receive registers together hold
  exactly what was sent, up to the bytes clocked (`Stored`, `Sent`);
- `CallOf`: how calls can end.

For the refinement, `InvitedInv` adds that a master that calls only a listening
slave is never refused and that a frame that is over has moved all bytes of the
slave's call. Every action is then one of the three of `I2CTransfer` or a stutter
(`SlaveRefines`, `MasterRefines`, `BusRefines`): a byte clocked is `MoveByte`, a
handle's I2C_END is `MasterEnds` or `SlaveEnds`. The bookkeeping on sequences
(taking the head of what is on its way, appending to what is stored, moving bytes
from registers to buffer) is in the first lemmas (`PiecesHead`, `PiecesNext`,
`SentNext`, `ReadKeepsStored`). TLC checks `MatchedInv` in `int_rounds`.

The third part returns to bad lines. Over any line, for scripts of any sizes, agreed or
not, and calls that fail, time out, are reset and tried again, with `ResetOnError` and
`Timely` as in the first part:

| Theorem | States |
|---|---|
| `BuffersAreNotMixed` | `Spec => []NoMixedBuffer` |

Here the rounds of the two boards may drift apart, so `LockstepInv`, which relates
them, is of no use. `FramesInv` follows each byte from the call that sends it instead,
without saying which rounds meet:

- `SlaveHas`: what the slave has stored, in buffer and registers, was sent by one call
  of the master; while the slave follows a frame that call is the one on the bus
  (`WireRound`) and the bytes are as many as were clocked;
- `MasterHas`: what the master has stored are bytes of one call of the slave and then
  bytes that nobody sent - the slave can leave a frame and never join it again;
- `SlaveTx`, `MasterTx`: the transmit registers hold, in order, the bytes behind the
  clocked ones, of the same call;
- `SlaveKeeps`, `SlaveEnds`: a slave is served, holds bytes or has an end latched only
  inside its call or after a call that failed, which a reset follows; an end that is
  latched fits the direction of the call. This is where a retry could mix two attempts,
  and where `ResetOnError` is needed;
- `MasterFresh`: a frame starts with nothing received.

Its proof splits the steps as the others do; a step of one board leaves the other's half
alone (`SlaveHalf`, `MasterHalf`), and what is stored changes only when a byte arrives, a
call starts or a peripheral is reset (`ByteStored`, `SlaveBegins`, `MasterBegins`). TLC
checked `FramesInv` over two rounds of one or two bytes with a fault, timeouts and a
retry before it was proved.

Only model-checked: `EveryCallReturns` and the liveness of `ReliableTransfer`.

### Polling mode and the memory device

`I2CPollingProofs` and `I2CBoardsProofs` prove, for **every** script, size, register
number and number of registers, every number of tries and faults, prompt or late
main threads, bounded waits or not, with the slave first or not:

| Theorem | States |
|---|---|
| `PollingInvariant` | `Spec /\ ScriptFits /\ Recovers => []PollInv` |
| `PollingCounts` | `Spec /\ ScriptFits /\ Recovers => []CountsHold` |
| `PollingStops` | `Spec /\ ScriptFits /\ Recovers => []StopHasFrame` |
| `PollingAddressed` | `Spec /\ ScriptFits /\ Recovers => []OnlyAddressed` |
| `PollingReadsAll` | `Spec /\ ScriptFits /\ Recovers => []NothingLeftBehind` |
| `NothingIsMisplaced` | `Spec /\ ScriptFits /\ Recovers => []NothingMisplaced` |
| `PollingReceives` | `Spec /\ ScriptFits /\ Recovers /\ SizesAgree => []ReceivedIntact` |

`env` and `plan` are chosen in the first state and kept, and the hypotheses are about
them. `ScriptFits`: a script is between boards or with the memory device, and names
registers that the device has. `Recovers`: an application that goes on after a
failed call calls `i2c_config` first, or it is prompt and its waits are unbounded, so
that calls fail only for an answer (`Steady`). Without it a call that gave up half
way leaves GENSTART or a STOP for the next one, and nothing holds. All scenarios of
`poll` and `dma` satisfy both. `SizesAgree`: two boards pass the same size in each
round; a slave that is sent more than it has room for leaves the rest to its next
call.

`CountsHold` says of a call that has returned what was on the bus. Until then the
count of a read is in four places (the counter `size` of the code, the data and shift
registers, the control bits, the bus), and the code changes one per step. `PollInv`
says where they are at each wait:

- `ThreadInv`, `CountInv`: which waits each call has, which round the thread is in,
  and in which range its counter is at each of them;
- `FlagInv`: what the latched flags and the transmitter tell of the frame;
- `AddressInv`: which of START, repeated START and STOP are requested from the first
  wait to the last address, and that nothing is clocked yet;
- `Written`: bytes clocked, bytes in the transmitter and bytes left add up, with the
  register number of a memory call, and all that were clocked are acknowledged;
- `Read`, by bytes left: `AckedSoFar` (three and more), `LastTwo` (the second is
  refused, the main thread in time or not), `OnlyByte`;
- `Between`, `AfterSuccess`, `AfterFailure`: what a call leaves to the next;
- `Held`, `Streaming`, `Selected`: each byte on its way to the memory device is the
  one its place in the stream asks for, and the device's pointer is where that byte
  belongs (`Place`, which wraps at the last register).

A call that is late may leave a byte in the data register (`Leftover`), and what the
parts say of reads they say only while no such call was made (`InTimeSoFar`); writes
do not depend on it.

`NothingLeftBehind` needs a second invariant, `EndInv`, about a slave between the
byte and the STOP behind it, at each of the two halves of a look of `i2c_wait_flag`;
`NothingMisplaced` a third, `BoardInv`: over a line that loses acknowledges, with
calls given up on either side, transmitters hold what comes next in the frame, and
what a master stored is the slave's as long as the slave follows and garbage ever
after (`MasterHas`: there is one point at which it let go).

`ReceivedIntact` is about any number of rounds, and needs a fourth, `SoundInv`, of a
sound line (no faults, unbounded waits, prompt threads) on which a master may still
call before the slave listens, be refused and try again:

- `MasterStores`: what a read has stored, with what is in the data register, is what
  was clocked, each byte the partner's for this round (`Source`, `Holds`);
- `Wire`: the slave is selected exactly while a frame has data, and a master that is
  through leaves at most the STOP of the last one;
- between boards `LockInv`. `Moved` counts the rounds whose bytes are through, read
  off the master's wait and the bus; the slave has reported that many, or one less
  when the end of its frame is still to be seen (`RoundInv`). A call of the slave
  never fails (`SlaveGoesOn`), one of the master only for want of an answer, and then
  no byte of the round has moved (`MasterGoesOn`). `SlaveStores`, `SlaveSends` and
  `MasterSends` say where in the round the buffers and registers are;
- with a memory device `MemoryInv`: no call fails; before the repeated START the
  device has the register number, or gets it in time (`RegisterGiven`); what it gives
  are the registers from there on, its pointer one ahead of the byte it has posted
  (`Gives`).

The four invariants were checked by TLC before they were proved: `PollInv` and
`EndInv` on all scenarios of `poll`, `BoardInv` on those of one round, `SoundInv` on
scripts of three rounds, with and without a reset after a failed call.

Only model-checked: `EveryCallReturns` and `ReliableTransfer`.

### DMA mode

`I2CDmaProofs` proves, with either board, both or neither in `env.dma`, and for every
choice of all that the theorems about polling quantify over:

| Theorem | States |
|---|---|
| `DmaInvariant` | `DmaSpec /\ ScriptFits /\ Recovers => []DmaInv` |
| `DmaQuiesces` | `DmaSpec /\ ScriptFits /\ Recovers => []EndQuiesces` |
| `DmaCounts` | `DmaSpec /\ ScriptFits /\ Recovers => []DmaCountsHold` |

A step of a board that transfers by DMA is a step of `I2CPolling` up to the address
(`SharedSteps`), so that the lemmas of `I2CPollingProofs` apply to it; what follows
is one of the steps of `DmaOwn`, of the handlers or of the channel. `DmaInv` has two
halves. `CallInv` holds of *every* call, late, given up or refused:

- `HandleOf`: mode and `pcount` are those of the call, the channel is configured for
  it from START on, and I2C_END means that it is through;
- `ChannelOf`: DMA requests are on only within the wait for I2C_END, or after the
  wait has given up until the reset, and one of transfer, interrupt and handler is
  pending at a time;
- `StartSent`, `StopAsked`: no START is left once the address is out, and the STOP of
  a read of one byte is requested before its requests are on, that of any other call
  before I2C_END.

From it alone follows `EndQuiesces`. The other half is about the master's data and
holds as long as its calls were made in time (`MasterInTime`), for the reason given
in section 4:

- `DmaWritten`: the bytes clocked and those in the transmitter are those the channel
  has moved;
- `DmaOnly`: the byte of a read of one byte is not acknowledged, and the STOP goes
  out after it;
- `DmaMany`: of a longer read the bytes clocked are those the channel has moved and
  those in the data register, and the one that is refused is that of the channel's
  last transfer: this needs that the channel moves a byte before the next is clocked;
- `DmaEnded`: at I2C_END the bus has what the call had to bring there.

A master that polls beside a slave by DMA keeps `PollInv`'s frame. TLC checked
`DmaInv` on the scenarios of `dma` before it was proved; in doing so it found the two
bytes of late reads described in section 4.

Only model-checked: `ReliableDma`, and `ReceivedIntact`, `NothingMisplaced` and
`EveryCallReturns` where a board transfers by DMA.

### The control pipe

`USBControlProofs` proves, for **every** packet size, set of requests with lengths
up to 65535, number of transfers, resets and suspends, and for every choice of
`Cancels` and `ResetSuspended`:

| Theorem | States |
|---|---|
| `PipeInvariant` | `Spec => []PipeInv` |
| `TypeCorrect` | `Spec => []TypeOK` |
| `ReadsAreExact` | `Spec => []ReadExact` |
| `WritesAreExact` | `Spec => []WriteExact` |

Assumptions: `MaxPacketAssumption` (packets of at least one byte),
`RequestsAssumption` (the fields' types), `LengthsAssumption` (above) and
`HostAssumption` (the types of the bounds and switches).

`ReadExact` speaks of the bytes the host has received; that it stays true depends
on the packet that is armed, on the lengths from which the next one is made, and
on no completion of an older transfer being served in between. `PipeInv` says, in
named parts:

- `ResetInv`: a reset leaves no transfer open, and when its flag is served every
  completion from before has been;
- `IdleInv`, `SetupInv`: between transfers and before the core has seen a SETUP,
  endpoint 0 is not sending for an older read while a transmit completion waits,
  both status fields are NAK and nothing has been received or sent;
- `ReadInv` with `Sending`: the packet in the buffer holds the bytes at the
  position of the current request; it is a data packet whose length follows from
  the remaining length, or the packet of length zero after the last byte; a
  completion is served in the data stage only after a full packet with more to
  come;
- `WriteInv` with `Storing`: stored and waiting bytes together are those the host
  has sent, and the remaining length is what is missing from `wLength`;
- `StageInv`: the host is in a stage that fits its request.

A new SETUP is analysed in two steps: `RequestAnswers` shows that every request of
`usbd_sdr.c` and the class ends in one of four answers (a read of the promised
length, a write, an acknowledgement, a refusal), and `SetupHandlerStep` that each
answer establishes the invariant of its stage. `TransferFrame` covers the steps
that leave a transfer alone.

The second half of the module goes on from there to what host and core know of each other,
again for every packet size, set of requests, number of transfers, resets and
suspends, with or without `Cancels`:

| Theorem | States |
|---|---|
| `CoreInvariant` | `Spec => []CoreInv` |
| `HostAndDeviceAgree` | `Spec => []HostAgrees` |
| `AddressIsTakenLate` | `Spec => AddressTakenLate` |
| `ImplementsControlPipe` | `Spec => Transfers!Init /\ [][Transfers!Next]_Transfers!vars` |

They assume `HostPolicy`, which leaves out three cases in which the code really
disagrees with the host: a reset of a suspended device (`ResetSuspended`, finding
2); SET_ADDRESS with address 0, after which the address register keeps the old one
(`usbd_int.c` writes it only if `device_addr > 0`); and a second configuration
value, which `usbd_sdr.c` acknowledges without taking it when the device is already
configured. A host has no use for the second and the descriptors of the
repository's devices offer no other configuration.

Whether the connect state is right cannot be said of it alone: the core changes it
when it *accepts* a request, the host's view changes when its status stage is
through, the address register changes in between, and a suspend hides the state in
`old_conn_state`. `AgreementInv` says of every moment which of these is the case:

- `SuspendInv`: suspend, wake-up and reset are served one at a time, with no
  transfer open; `Connected` is the connect state seen through a suspend;
- `AddressInv`: from the acceptance of SET_ADDRESS (`Accepted`) to the completion
  of its status stage the new address waits in `device_addr` (`Waiting`); otherwise
  the register is what the host uses;
- `ConfigurationInv`: the connect state is that which `NewAddress` and
  `NewConfiguration` call for - the host's values, or those of the request that the
  core has accepted and the host does not know of yet;
- `AnswerInv`: what the core stalls is what the host may not expect.

For the refinement each host action is shown to be one of `USBTransfers`', and
every other step to leave the host's variables alone; the interesting case is a
stall, which must mean that the request is not supported, and a completion, which
must not come for one that is not. TLC checks `CoreInv` in `usb_bus`.

Only model-checked: the liveness of `ControlPipe`.

### The CDC class

`CDCDataProofs` proves, for **every** packet size, length of traffic in both
directions, sizes of messages, and number of lost handshakes and port resets:

| Theorem | States |
|---|---|
| `Invariant` | `Spec => []IInv` |
| `TypeCorrect` | `Spec => []TypeOK` |
| `PacketsInOrder` | `Spec => []GetsInOrder` |
| `OneMessageAtATime` | `Spec => []OneMessage` |
| `MessagesWhole` | `Spec => []TakesWhole` |

Assumptions: `MaxPacketAssumption` and `EnvironmentsAssumption` (the types of the
traffic; a message has at least one unit).

`GetsInOrder` is a property of what the main thread has got; whether the next
packet keeps it depends on whose the endpoint's buffer is; and whether the host
may take what the endpoint offers depends on what it took last, and on what
`usbd_ept_send` has left to send. `IInv` says so. Its first five parts, `OwnerInv`,
are inductive by themselves (`Owners`):

- `BoundsInv`: `g_rxlen` stays within a packet, the application within its
  messages;
- `UnconfiguredInv`: between a reset and SET_CONFIGURATION nothing is pending, and
  the toggles of both ends are 0;
- `RxInv`: a packet accepted is at the endpoint, behind `g_rx_completed`, or in the
  hands of `usb_vcp_get_rxdata`, and the endpoint is valid only when it is in none
  of these places; wherever it is, it is the last that the device has accepted
  (`Received`, which the toggles tell: a packet whose handshake was lost is
  accepted while the host has not yet counted it);
- `GotInv`: what the main thread has got are the packets before that one
  (`GotParts`), each once and in order;
- `TxInv`: while a message is on its way its flag is clear and the main thread is
  not in the part of `usb_vcp_send_data` that writes.

`SentInv` is the sending side: what has been taken lies before the next message;
while one is on its way, the endpoint holds units `a` to `b` of it and `rest` the
units after `b` (`Sending`), and the host has either just taken that packet (the
toggles differ, or the completion is pending) or what it took last ends a message
or goes up to `a - 1` (`Continues`); after a reset the host's mark is the last.

`CDCDataProofs` has typing lemmas, a lemma per action that says what it changes
(`GetEffects` to `ResetEffects`), and one per conjunct over all actions (`TxStep`,
`UnconfiguredStep`, `BoundsStep`, `RxStep`, `GotStep`). For the sending side it has
lemmas about pieces of a message and their split into packets (`SplitPiece`),
about a sequence of packets that grows (`WholeAppend`, `BeforeNext`), and one per
action that touches the sending side (`WriteSent`, `ValidSent`, `CompleteSent`,
`TakeSent`, `ResetSent`). TLC checks `IInv` in `cdc`.

Only model-checked: `AllArrives`.

### The mass storage class

`MSCBulkOnlyProofs` proves, for **every** size of packet, block, buffer and medium,
every number of lost handshakes and port resets, every set of bad addresses, and
scripts of any length:

| Theorem | States |
|---|---|
| `MSCInvariant` | `Spec /\ Tame(env) => []MSCInv` |
| `AlwaysRightAnswer` | `Spec /\ Tame(env) => []RightAnswer` |
| `ResidueAlwaysTells` | `Spec /\ Tame(env) => []ResidueTells` |
| `NothingOverruns` | `Spec /\ Tame(env) => []NoOverrun` |
| `FailureIsAlwaysTold` | `Spec /\ Tame(env) => []FailureIsTold` |
| `AlwaysABlockDevice` | `Spec /\ Tame(env) => IsABlockDevice` |

Assumptions: `MaxPacketAssumption`, `MSCAssumption` (a block is a number of whole
packets, the buffer a number of whole blocks, the medium's units have addresses of
32 bits) and `EnvironmentsAssumption` (the types of the script). `env` is chosen in
the first state and kept; the theorems are about the environments that are `Tame`:

- the script starts with READ CAPACITY, as hosts do, since the class takes every
  block for out of range before (`Tame`);
- its commands are `WellFormed`: a READ(10) or WRITE(10) moves at least one block,
  VERIFY, READ and WRITE do not wrap 32 bits, INQUIRY, READ CAPACITY, MODE SENSE and
  REQUEST SENSE ask for data to the host, and commands without data for none. A
  transfer whose length or direction does not fit its block count,
  a block beyond the medium and an unknown operation are well formed: they are
  refused, and the theorems say how;
- no command needs a reset recovery (`Recoverable`): no invalid CBW, no transfer of
  more than one buffer that meets a bad address, and no refused command with data to
  the device on a line that loses handshakes. Each is a defect of section 4. A
  transfer of one buffer that meets a bad address is recoverable.

1909 of the 2681 environments of run `msc` are tame. TLC checks the properties in all
of them, with the exceptions that they make for the defects; what a script comes to
after a defect is not proved.

None of the properties says enough to be kept by a step: `RightAnswer` is about a
CSW that left the device several steps ago, offered at the end of data that several
interrupts cut from buffers. `MSCInv` has one disjunct per point of a command, a
*stage*, and says there all that device, wire and host share:

- `Unplugged`, `Between`, `Asking`, `Waiting`: after a port reset, between commands,
  before the CBW, and with the CBW at the device that has not looked at it;
- `Refused`, `Cleared`: the stalls of a refused command, before and after the host
  has cleared OUT; the sense data are those of its reason and the medium is
  untouched;
- `Sending`: units of the answer with the host, in the packet, in what
  `usbd_ept_send` has left and on the medium add up to the `Volume` of the command,
  each the one that is `Due` at its place; the packet is `Offered`, or `Received`
  whether the device knows it or not;
- `Writing`: the units before `Off` are on the medium and no other of the command's;
  the buffer has those after them, and the host is where they end (`Receptive`),
  or one packet further (`Holding`);
- `Told`: the CSW is offered, with the verdict that the command deserves and what
  has been moved (`Done`), or with nothing changed (`Failed`).

In each a lost handshake leaves the host one step behind (`Had`, `CbwGiven`,
`GivenUpTo`), which the toggles tell. `SenseKept` ties the sense data to the last
answer.

`NextStage` shows that every step leads to a stage and is one of five kinds: an
interrupt that leaves the medium alone or writes cells of the command at hand
(`Interrupted`), a step of the host within a command (`InStep`), the start of one
(`Begun`), its end with an answer that is `Earned` (`Ended`), or a step between
commands (`Rested`). Types, `BaseInv` and the answers follow from the kind alone,
and so does the refinement: a step that writes is `Device!Write`, one that ends a
command is `Device!Answer`, the others leave the block device alone. Underneath are
lemmas for each function of `msc_bot_scsi.c` (`SendCswEffect`,
`ReadChunkEffect`, `WriteChunkEffect`) and for each stage the steps that leave it.

### Beyond the prover

Liveness under fairness and what depends on it (the refinements of `I2CTransfer` and
`USBTransfers` as a whole, `GoodCommandsPass`) stay with TLC. Not out of its reach
but not proved either: `ReceivedIntact` and `NothingMisplaced` where a board transfers
by DMA, which need `SoundInv` and `BoardInv` over calls of both modes; and the
mass storage class outside tame environments.
No module declares a RECURSIVE operator, so that proofs about each remain possible.

## 6. Plan

What is left, in this order:

1. **Proofs**: `ReceivedIntact` of DMA mode, along `SoundInv` of polling mode; for the
   mass storage class what a reset recovery restores, so that the theorems reach the
   environments that are not tame.
2. **The memory calls with interrupts**, `i2c_memory_write_int` and
   `i2c_memory_read_int`: the steps before the data are those of `I2CPolling`, the
   data those of `I2CInterrupt`.
3. **`Sensors`**: initialization with partial failure, where a register whose value
   is 0 reads back right over a bus that answers nothing; the temperature
   conversion of the BMI088 and the angle assembly of the AS5600 as operators
   checked against a reference; the direction of the copy in `IST8310ReadTemp`
   (`ist8310.c:88`).
4. **`Foc`**: the time step over a wrapping clock (`Foc.c:80`) and the velocity
   estimate (`Foc.c:101`) in integer units, against the true motion.
5. **The update protocol of `hid_iap`**, with a power failure between two blocks.

### Not modelled, and why

Floating-point arithmetic (the space-vector sums, the AHRS conversions) is out
of TLC's reach. Logging, start-up code and pin toggling have no state that a
property could be about. Vendored libraries and the chip's register accessors
are not this repository's logic; what the models need of them is in
`I2CPeripheral`, `I2CDma`, `USBWire` and `USBBulk`.

Of the I2C library: 10-bit addresses, and the `_int` memory calls (planned).

Of the USB core: double buffering, the allocation of packet memory (its
configuration, `USB_EPT_AUTO_MALLOC_BUFFER`, is not in the repository, and the mass
storage class relies on it), start-of-frame events, class requests addressed to
the device, endpoint features other than halt, and the contents of descriptors.

Of the mass storage class: several logical units, READ FORMAT CAPACITIES and
MODE SENSE(10), which differ from READ CAPACITY and MODE SENSE(6) in the layout of
their answers.
