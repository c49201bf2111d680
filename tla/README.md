# A verification model of the RISC-V SoC with MAC accelerator

TLA+ modules, TLC configurations and TLAPS proofs for the system-on-chip of
this repository: a CV32E40P core, an arbiter and an APB fabric, a dual-port RAM,
a matrix accelerator (MAC) and a UART. Paths below are relative to the
repository; `submodules/` stands for `rtl/submodules/`.

The system is one clock domain of synchronous RTL. So a state of a hardware model
is the contents of the registers between two clock edges, a step is one clock edge
(or one reset), and wires are operators of the current state. In the models of C
programs a step of the program is one access of shared state.

`core/` stands for `rtl/cv32e40p-cv32e40p_v1.8.3/`, the vendored core with its own
test bench.

## 1. Inventory

| Part | Source | State | Operations | Talks to |
|---|---|---|---|---|
| CPU arbiter | `submodules/cpu_arbiter/cpu_ram_arbiter.v` | `in_flight`, response registers of two buses | accept a request (data first), stall, deliver a response | CPU channels, APB master |
| APB master | `submodules/apb_bus/APB_Master.v` | `IDLE/SETUP/ACCESS`, request registers | latch a request, grant, complete | arbiter, decoder, slaves |
| Decoder | `submodules/apb_bus/Comp_Decoder.v` | none wanted; latches of `PREADY`, `PRDATA` inferred | select a slave by `PADDR`, route its answer | master, slaves |
| APB slaves (3) | `submodules/apb_bus/APB_Slave.v` | `IDLE/WAIT/ACCESS` each | wait state, strobe, answer | RAM port B, MAC and UART registers |
| Shared RAM | `submodules/memory/synch_dual_port_memory.v` | the array, two read registers | write and registered read on two ports | RAM slave (B), MAC (A) |
| MAC configuration | `submodules/mac_accelerator/cfg_reg.v` | six registers | bus write, status update, start cleared by done | MAC slave, controller |
| MAC controller | `controller.v` (same directory) | seven states, four indices, padding counter, write enables | walk over the operand pairs, drain the pipeline, stop | all of the datapath, port A |
| MAC datapath | `regfile.v`, `regfile_reg.v`, `multiplier.v`, `accumulator.v`, `mac_accelerator.v` | operands, delayed clear and address, sum | multiply, add, detect overflow, write back | controller, port A |
| UART transmitter | `submodules/uart/UART_TX.v` and its parts | state, `busy`, shift register and counter, parity, output | accept a byte, shift it out | UART registers |
| UART registers | `Register_file.v`, `UART_SYSTEM.V` | TX, RX, CTRL, rx_valid, interrupt | bus write, receive, interrupt | UART slave, TX, RX |
| UART receiver | `UART_RX.v` and its parts | state, edge and bit counters, samples, checks | oversample, check, deliver | UART registers |
| CPU core | `core/` | vendored | fetch, load, store, take interrupts | arbiter, `irq_i[16..18]` |
| Interrupt controller of the core | `core/rtl/cv32e40p_int_controller.sv`, bits of `cv32e40p_cs_registers.sv` | registered lines, `mie`, `mstatus.MIE/MPIE` | sample lines, pick the line, enter a handler, `mret`, CSR writes | programs, `irq_i` |
| Interrupt generator of the core's bench | `core/example_tb/core/cv32e40p_random_interrupt_generator.sv`, registers in `mm_ram.sv` | mode, lines, two processes | software-defined lines, random lines | interrupt test, `irq_i` |
| Interrupt test | `core/example_tb/core/interrupt/` | globals, the stack of `main` and of one handler | tests 1, 2, 3, 5 and 19 handlers | interrupt controller, generator |
| Firmware | `sw/generate_hex.py` (built), `sw/src/main.c` (not built) | program counter, RAM, the globals of `main.c` | receive, configure and poll the MAC, compare, print; interrupt routine | everything |

How they interact: the core raises requests on two OBI channels; the arbiter
forwards one and stalls both until the APB transfer ends; the master drives
`SETUP` and `ACCESS`; the decoder selects a slave *by address alone*, so slaves
run on their own while the master is idle. The MAC shares the RAM with the
CPU through its own port, with no arbitration; its only signals to the software
are the start bit it clears and two interrupt lines.

What is hard here, and what makes each part correct:

- *Interleaving of state machines.* Arbiter, master and three free-running
  slaves must agree on where a transfer is, from every relative phase. Correct
  means: what CPU and MAC can see is one memory that answers one request at a time.
- *Starvation.* Data has priority over fetches.
- *Pipelines.* A product reaches its sum several cycles after its addresses; the
  clear, the result address and the write enable must arrive with it, for every
  shape, and the drain must end after the last write. Correct means: port A
  writes exactly the elements of the product, to their cells, before software is
  told so; and a run that stops reporting nothing has a product that fits. The code
  does not keep the last for signed words (`mac_signed`); section 6 says what it keeps.
- *Boundaries.* Three-bit dimensions, a two-bit counter, address bits that are
  dropped, a decoder range that is one word short.
- *Registers that lag.* `busy` of the transmitter is a cycle late, `tx_reg` takes a
  byte at the edge at which the serializer reads it, and stores come in any cycle.
  Correct means: what goes out are frames, one per store that finds the line at rest,
  with the byte stored. The last holds for a store that lasts two cycles.
- *Sampling.* The receiver finds the middle of each bit by counting; its counters,
  its sampler and its state machine lag one another by a cycle. Correct means: the
  byte of every good frame is delivered once and in time, and nothing else is, with
  frames back to back, noise, glitches and bad frames before it.
- *Handlers between two steps.* A global of `main` and of a handler, a line that
  takes cycles to fall after a handler has answered it, a wait for a change that a
  handler makes. Correct means: each interrupt is served once, in the documented
  order, and no wait is for ever.
- *Reset* in the middle of anything: the RAM is the only state that survives.

`PROJECT.json` lists the hazards one by one at their lines, with the properties
that would catch them.

## 2. Modules

Core fabric:

- `CpuArbiter`, `ApbMaster`, `ApbSlave`, `CompDecoder`, `DualPortMemory`: one
  module per RTL module. Registers are variables, outputs are operators, and
  `Tick` is its clocked block. They have no `Next` of their own.
- `ObiCpu`: the two request channels of the core. Any request may come, in any
  order; it stays until granted (the OBI interface registers it), fetches only
  read, and at most `MaxBurst` data requests are raised between two instruction
  answers.
- `SocBus`: the composition as `rtl/top/RISC-V_based_Soc.v` wires it. One step is
  `Clock` or `Reset`. Left open: what port A writes, what the MAC and UART
  registers show when read, the read register at power-up.
- `ObiMemory`: the abstract specification. One transaction pending at a time,
  taken in priority order, answered at most once on the bus that asked, with a
  value the cell held while it was pending; a store is visible when answered,
  perhaps earlier, never later; nobody else but port A writes.
- `SocBusImplements`: the refinement mapping from the registers of the fabric.

Accelerator:

- `MacController`: `controller.v`, one action per state.
- `MacAccelerator`: the controller with configuration, datapath, port A, and the
  program of `sw/generate_hex.py` that writes five registers (each strobe one or
  two cycles long, as the bus may give it).

UART transmitter:

- `UartTx`: TX and CTRL registers, state machine, serializer, parity, output.
- `SerialLine`: the abstract specification, for stores in any cycle. What goes out
  is a frame, one bit per clock, or the line is high. A store that finds the line at
  rest begins a frame; during a frame a store goes to the register only. Which byte
  the frame carries depends on the cycle of the store, and `SerialLine` says it: the
  byte stored if the store lasts into the start bit, else the one before; and if it
  meets the cycle directly after a stop bit, the last bit of the frame before, seven
  zeros and the old parity. CTRL decides about the parity bit when the last data bit goes.
- `UartTxBench`: `UartTx` under a program that stores to TX and CTRL whenever it likes, for
  one cycle or two, and the refinement. `generate_hex.py` stores like this: it does not
  look at `tx_busy`.
- `SocUart`: `SocBus` and `UartTx` composed.
- `UartLoopback`: `UartTx` and `UartRx` on one clock and one CTRL register, the output wired
  to the input, as in `tb/submodules_tb/UART_SYSTEM_tb.v`. CTRL is written once, then a
  byte whenever both sides are idle.

UART receiver:

- `UartRx`: `UART_RX.v` and its six parts, one operator `...Tick` per clocked
  block, for a level of the line. Widths are those of the source: `check_edge` and
  `half_edges` wrap as six- and five-bit words do.
- `UartRxBench`: a line in front of it. A sender puts frames on it, with right or
  wrong parity and stop bits, back to back or with pauses; one cycle of a bit,
  neither its first nor its last, may be disturbed; between frames the line may
  drop for less than half a bit. `due` is the byte the receiver owes.

Interrupts:

- `IntController`: `cv32e40p_int_controller.sv` with `mie` and the two bits of
  `mstatus` it works with. 32-bit words are sets of bit numbers.
- `IrqGenerator`: the bench's generator. Its two `initial` processes are operators
  of one clock edge; where they write a line by a blocking assignment at the edge
  that samples it, the sample may be the old or the new word.
- `InterruptTest`: `interrupt.c` on both. `pc` and `isr` are where `main` and the
  handler are; `TakeIrq` is the core entering a handler between any two steps of
  `main`. The loops that build random words (lines 400-438) are one step that takes
  any of `TestWords`. A step of the program may be delayed by up to `MaxStall` edges.
- `Firmware`: `sw/src/main.c` with `isr_handler`, on `IntController`. The peripherals
  are a contract, the variable `device`, chosen from `Devices` at the start. `Expected`
  is the device the program counts on: its addresses reach the peripherals, bit 0 of
  CTRL enables the receive interrupt, bit 1 of STATUS is the busy flag, an interrupt
  line falls when it is answered, the sender waits until a byte has been read, and the
  base registers of the MAC take byte offsets. `Soc` is what `rtl/` has in each of these
  points (`Register_file.v:100-121`, `RISC-V_based_Soc.v:100-109`, the decoder's map,
  `controller.v:143-147`). A device *cooperates* if it is as expected in all of them but
  perhaps the last. `base` is what main writes to the base registers (0x40, 0x50 and
  0x70), and the MAC reads and writes through it: the word of element n is
  `base / 4 + n` if the registers count bytes and `base + n` if they count words. In
  the second case the words are outside main's matrices; what is there is left open
  by not mattering: the result goes nowhere main looks. The assembly that saves the
  registers, calls `isr_handler` and executes `mret` is not in the repository; the model
  assumes one that does.

`MC*` modules give constants their values for TLC, `*_proofs` hold the proofs. A
definition whose comment begins "Seeded bug" is a mutated form of the one after
it, of the kind a slip in that code would be; the specification does not use it.
It shows that a property fails when the code is wrong in that way.

### Correspondence, and where the RTL leaves room

- Every handshake signal, guard and branch is in the models. Data words are small
  sets, or words of `2 * SignBit` values in the accelerator; addresses are a
  few real word addresses, so the decoder's numbers are those of the source.
- *Inferred latches* (`Comp_Decoder.v:59-61`): while no slave is selected, `PREADY`
  and `PRDATA` hold what the slave last selected drove. `PADDR` and that slave's
  state change at the same edge, so either value may be held: `LatchTick` takes
  both.
- *Two writers of one cell* at one edge come from two `always` blocks:
  `DualPortMemory!Tick` takes either order.
- *Blocking assignment* (`controller.v:109`): `Race` names which outcomes are
  considered; the runs use `{FALSE}`, the flip-flop of a synthesis tool.
- *`clear_interrupt`*: tied to 0 in the SoC (`RISC-V_based_Soc.v:101`), so
  `ClearInterrupt = {FALSE}`.
- *Reset* is asynchronous and lasts at least one clock edge; a `Reset` step is the
  whole pulse. `controller.v` has no reset branch in its output block, it is the
  edge in idle that clears the indices.

## 3. Runs

| Run | Shows | Bounds |
|---|---|---|
| `bus` | Types, agreement of arbiter, master and slaves (`BusInv`), a fetch never writes, at most one wait state, stable transfers, and `Implements`: the fabric is `ObiMemory` | two RAM words, one MAC register, one UART register, the unmapped word 0xBFC; one-bit data; the MAC writes one of the RAM words at any time |
| `bus_live` | Accepted transfers end; fetches are not starved | mapped addresses only, two data requests per fetched instruction |
| `mac` | The first run after reset writes elements of the product only, all of them before the start bit is cleared; ends if its depth is 1 to 3, and is never done otherwise; reports what fits no word | shapes 2x2x2, 2x1x2, 1x3x3, 3x1x1, 1x1x2, 1x1x1, 1x4x4; three-bit words; up to two operands that differ from the rest, or all of A |
| `uart_tx` | What goes out is what `SerialLine` says, frame by frame; frames end; parity off, even, odd | three bytes; stores to TX and CTRL in any cycle, of one cycle or two |
| `uart_rx` | Only bytes of good frames are delivered, each once (`OnlySentBytes`) and before its frame ends (`DeliveredInTime`); the receiver always gets back to idle | prescale 7, 8, 16; three bytes; all parity settings; one disturbed cycle per bit; glitches of 1 to p/2 - 1 cycles |
| `interrupts` | No test fails, no stale request, one handler per enable, `mmstatus` not shared, each random word served once, the program ends | four test words (all lines, none, some), two random words, 2 x 2 matrices, `MaxStall` = 1 |
| `firmware` | Device cooperates: bytes in their cells (`StoredInOrder`), the verdict that belongs to what the MAC computed, no character lost or doubled, a result is printed. Addresses or enable bit differ: main waits for ever (`StaysWaiting`) | three inputs of 8 to 10 bytes; the last element of the MAC right or wrong; `Expected`, `Soc`, and `Expected` with one of addresses, enable bit, unit of the bases as in `Soc` |
| `uart_window_hang` | *violated*: an access to 0xBFC ends | |
| `mac_signed` | *violated*: after done every element is the signed value of its word | shape 1x2x2, A = [3 3], B all ones |
| `mac_rectangular` | *violated*: a 1x2 by 2x1 product is right | |
| `soc_uart_stale` | *violated*: a frame carries the byte last stored, behind the real bus | |
| `uart_loopback` | *violated*: the UART receives the byte it sends, output wired to input | prescale 25 as in the bench, two bytes, all parity settings |

The violated ones are disagreements of code and documentation; `findings` in
`PROJECT.json` quotes both.

Why the bounds are enough. The fabric treats words and data uniformly and looks
at an address only to select a slave: one word per slave, two for the RAM (so
that a wrong address can be told from the right one) and one outside the map
reach every branch. One-bit data tells a fresh value from a stale one. The
controller's control depends on the dimensions only: the shapes have every
combination of dimensions that are 1 and dimensions that are not, as far as the
addressing of B allows (k = n or k = 1), and one depth that two bits cannot count. A
wrong pair of operands shows with two odd cells among ones; with three bits,
7 is -1, 7 + 1 has a carry, 3 * 3 does not fit and 3 + 3 + 3 fits no word. In the transmitter the
data path is a shift register: two of the three bytes change when their bits are
reversed or shifted, and both parities occur.

Bounds named in the models: `MaxBurst` (`ObiCpu`) stands for the core needing
instructions to go on; the prefetch FIFO holds two
(`cv32e40p_prefetch_buffer.sv:57-61`). `SignBit` (2 to the width of a word less one), `MemWords`, `Images`, `Dims`,
the bases (`MacAccelerator`). `StrobeLengths` (`UartTxBench`): a store has a
two-cycle strobe if the bus was at another slave before, which is what a program
that fetches between two UART accesses sees, and a one-cycle strobe otherwise; the run
has both. `soc_uart_stale` shows behind the real bus what the second does to a byte.

In the receiver, 7 is an odd prescale, 8 the value of the repository's benches and
16 shows that nothing depends on 8. The lower limit is real, see section 6. `Recovery`
says how many cycles the line rests after a glitch and after a frame without a stop
bit; `p + 1` for prescale p, and with p a frame is lost (section 6). `Noise` allows the
disturbed cycle.

The interrupt test runs all 19 lines in test 2, whatever the bounds; `TestWords` are
words with and without the standard lines, so that a line may be pending and masked,
masked and not pending, and so on. `MaxStall` (idle edges between two steps of the
program) makes the program slower or faster than the lines; section 5 proves the
safety properties for every value. `raised` and `irq_served` count what one
multiplication leaves time for.

In `firmware`, `Inputs` has eight different bytes and a ninth (a ninth must not change
a matrix), eight equal ones, and two bytes too many with a product that is zero (the one
on which a MAC that computes nothing passes); `Faults` is what may be added to the
last element, the one a comparison that stops early would miss. No device of the run
has reachable addresses and held lines: there the routine counts one byte without
bound.

No run uses a state constraint. Deadlock is checked in every run: the clock can
always tick, `InterruptTest` stutters once the program has returned (`Stop`, the
bench's `$finish`), and `main.c` ends in an endless loop.

## 4. Fairness

Hardware and interrupt test: `WF_vars(Clock)`, the clock never stops. Nothing else
is assumed: not that a slave answers, nor that the CPU asks, nor that reset comes or
stays away (a reset ends what a liveness property waits for). `TransfersEnd` and
`FetchServed` are stated for programs that stay in the mapped range, since
`uart_window_hang` shows the contrary for the others; `FetchServed` needs `MaxBurst`,
because the arbiter's priority is fixed. `Ends` needs no fairness of the random
process: the multiplication goes on between two words, because a handler takes
a bounded number of steps and the next word comes at least one edge later.

`Firmware`: `WF(Cpu)`, the core executes; `WF(ByteArrives)`, the sender sends all it
has; `WF(MacWrites)` and `WF(CharacterOut)`, accelerator and transmitter finish what
they have begun, which `RunEnds` and `FramesEnd` show of them for the shapes and the
programs of their runs. `RunEnds` is about depths of 1 to 3 and counts overflow as an
end, which raises line 18; the start bit that a program polls stays up then (section 6).
`Reports` is stated for devices that cooperate; `StaysWaiting` is the contrary for the others
and needs no fairness. In `uart_loopback` too the only assumption is that the clock
ticks.

## 5. Proofs

`SocBus_proofs` proves, for every set of addresses,
data words and port A writes that satisfies `SocBusAssumption` (the address 0 and
the word 0 exist, the "none" values are not values, `Image` is a memory):

| Theorem | States |
|---|---|
| `TypeCorrect` | `Spec => []TypeOK` |
| `BusInvariant` | `Spec => []BusInv` |
| `FetchesDoNotWrite` | `Spec => []FetchNeverWrites` |
| `WaitStates` | `Spec => AtMostOneWaitState` |
| `TransfersStable` | `Spec => StableTransfer` |
| `SocBusImplementsObiMemory` | `Spec => Implements` |

The inductive invariant is `TypeOK /\ BusInv`. `BusInv` has three parts:

- `Tracking`: the arbiter has a transaction in flight exactly when the master is
  not idle. It is what makes `o_gnt` harmless: the master grants in the last cycle
  of `ACCESS` too, where it would drop the request, and `Tracking` says that the
  arbiter raises none there.
- `SlaveReady`: when the master is in `ACCESS`, the addressed slave is in `WAIT` or
  `ACCESS`. A free-running slave may be in any state in `SETUP`; from each of
  them it gets to one of these two. Hence at most one wait state.
- `FetchReads`: `write_reg` is low while a fetch is in flight, whatever
  was stored before.

`FetchNeverWrites` follows from the invariant alone, the two action properties
from the invariant and one step. For the refinement, a `Clock` step with the master
idle is `Idle` or `Accept`, one with it busy is `Work`, or `Respond` when `o_ready`
is high; each has its lemma (`IdleMaps`, `AcceptMaps`, `WorkMaps`,
`RespondMaps`), and `ResetMaps` the last. The mapping needs that the read
register of port B holds the addressed cell's last value in `ACCESS`, which is the
`value` of the abstract state. `NoPendingAssumption` says that the value that
stands for "nothing pending" is not a transaction.

`InterruptTest_proofs` and `InterruptTestPasses_proofs` prove the safety properties of the
interrupt test, for every non-empty set of words in `TestWords` and `RandomWords`, every
size and content of the matrices and every `MaxStall`:

| Theorem | States |
|---|---|
| `TypeCorrect` | `Spec => []TypeOK` |
| `HandlersKeepOut` | `Spec => []HandlerInv` |
| `OneHandler` | `Spec => []OneHandlerPerEnable` |
| `MmstatusExclusive` | `Spec => []MmstatusNotShared` |
| `NoTestFails` | `Spec => []TestsPass` |
| `NoStaleInterrupt` | `Spec => []NoStaleRequest` |
| `EachWordServedOnce` | `Spec => []ServedOnce` |

Assumed are `GeneratorAssumption` (random words lie in lines 26 to 31 and are not 0)
and `TestAssumption` (`PartialSum` is the table of partial sums of `mat1 * mat2`, so that
`res_expected` is their product; that the table in `matrix.h` is that product was
computed apart from the models).

The first four need to know where interrupts are enabled: `ControlInv` says that outside
test 5 it is only while `main` waits, that a handler runs with interrupts off and, in
tests 2 and 3, returns with them off. `IInv == TypeOK /\ ControlInv` is inductive. The
other three need the way of a line from the program's write to the core, four registers
in a row, and `AllInv == IInv /\ TestsInv` adds it:

- `SelectInv`, `LinesInv`: in tests 2 and 3 the registers hold the word last written, or
  are filling up with it (`Rising`). When a handler that has written the word without
  its line gets to `mret`, the change has crossed all of them, and interrupts stay off
  until `main` has seen it.
- `ServeInv`: at position n of the table the pending word is the first one without
  the lines served before n (`Remaining`). `PriorityTable` and `PriorityOrder` relate the
  table to the encoder, and `TakesTheLine` concludes that the line taken is number n.
- `ProcessInv`, `SetupInv`, `RandomInv`: where the generator's process is while a handler of
  test 5 switches the mode off and on. The two writes are far enough apart for the
  process to see the first, and the last register is 0 at the edge at which `mret`
  enables interrupts, not sooner.
- `CountInv`: words raised and words served differ by the word that is up.
- `ProductInv`: partial sums, which no handler touches.

There is one lemma for each conjunct, and under it one step per action that can
disturb it; `AllInvariance` puts them together. `IntController_proofs` holds the two facts
about the encoder that these proofs and the next ones share: among pending lines there
is a first one, and the line the core asks for is up, enabled and first.

`Firmware_proofs` proves the safety properties of `sw/src/main.c`, for every set of byte
sequences the sender may send, however long, and every set of faults of the accelerator:

| Theorem | States |
|---|---|
| `FirmwareTypes` | `Spec => []TypeOK` |
| `MatricesReceived` | `Spec => []StoredInOrder` |
| `VerdictCorrect` | `Spec => []VerdictRight` |
| `PrintedInOrder` | `Spec => []NothingOverrun` |
| `DeafForEver` | `Spec => []StaysWaiting` |

`FirmwareAssumption` only says that the sender sends at least the eight bytes, that
`Faults` are natural numbers, and that the devices are contracts of the right type:
any combination of them, `Soc` among them. Which device a property speaks about is part
of the property: the first and the last theorem are about all devices, the other three
say something of those that cooperate. The inductive invariant grows with them:

- `TypeInv`: `TypeOK` needs the bounds of the loops (`LoopInv`, which also knows the base registers
  once they are written), and that the MAC's line is not up before the MAC has
  finished (`MacLineInv`).
- `InOrderInv`: a byte that has arrived is in the UART, in the interrupt routine, or counted
  (`ReceiveInv`). The registered line 16 lags the UART by a cycle, and `LineInv` says that
  the routine is nevertheless never entered for a byte it has already taken.
- `VerdictInv`: what `main` has multiplied so far and, element by element, compared.
- `HardwareInv`: what the MAC has written to `C_HW`. If its registers count bytes, `MacWords`
  says that it reads and writes main's matrices and `MacProduct` that an element is the
  one of the bytes sent; if they count words, that it writes none of main's words.
- `PrintInv`: the character in the transmitter is the last one stored.
- `DeafInv`: on a device without interrupts nothing moves but the wait and the sender.

`UartTxBench_proofs` proves about the transmitter, for every set of bytes, stores to both
registers in any cycle, and strobes of one cycle and of two:

| Theorem | States |
|---|---|
| `TransmitterTypes` | `Spec => []TypeOK` |
| `TransmitterImplementsLine` | `Spec => SendsFrames` |

`BenchAssumption` gives the constants their types and nothing else is assumed: the program may
store anything in any cycle, in the middle of a frame too. The mapping of the second has two
parts: `part`, what is being sent, is the state of the state machine, but idle is divided
into `rest` and `end`, the one cycle after a stop bit in which `busy` is still up; `bits`, what is
still to be sent, is the front of the shift register that the counter has not passed. The
inductive invariant is `TypeOK /\ FrameInv`. `FrameInv` says that `busy` follows the state by a
cycle, that the counter is 0 outside the data bits, and that the places of the shift
register already passed hold zeros. The last is what makes `end` predictable: a store that
meets it does not load the shift register, and `LateOctet` says that its last bit and seven
zeros are all that is left. There is one lemma for each state (`IdleMaps`, `StartMaps`,
`DataMaps`, `EndMaps`), with `SerializerBits` for a shift by one place, and `ResetMaps` and
`StutterMaps`.

`UartRxBench_proofs` proves the safety of the receiver, for every set of bytes and every
set of prescales in `Prescales`, which by `BenchAssumption` are 1 to 63 (a bit of the line
lasts at least a cycle):

| Theorem | Assumes | States |
|---|---|---|
| `ReceiverTypes` | | `Spec => []TypeOK` |
| `DeliversSentBytes` | `EnoughTime` | `Spec => []OnlySentBytes` |
| `DeliversInTime` | `EnoughTime` | `Spec => []DeliveredInTime` |

`EnoughTime` says of every prescale p that p is at least 7 and that after a glitch, or after a
frame without a stop bit, the line is high for more than p cycles before the next frame.
Both are needed: section 6 says what goes wrong with a prescale of 6 and with
`Recovery(p) = p`. The inductive invariant is `TypeOK /\ LineInv`. `LineInv` relates the
counters of the receiver to what is left of the waveform, in one of four cases:
`Resting`, `InGlitch`, `InRest` (a false start on its way back to idle while the line
is high) and `InFrame`. In a frame:

- `InStep`, `InBit`: `edge_count` and the cycles left of the bit add up to the prescale, and
  `bit_count` is the number of bits gone: the receiver starts in the first cycle of
  the start bit and never lags.
- `Sampling`: of the samples taken in cycles `Half - 1`, `Half` and `Half + 1` of a bit at
  most one is wrong, since at most one cycle of a bit is disturbed, and
  `MajorityRight` turns them into the level of the bit. It is registered in cycle
  `Half + 2` and the start check on it in `Half + 3`, so that the state machine sees it from
  `Half + 4` on. That is the last cycle of the bit, at which it looks, or before
  (`Numbers`), exactly from a prescale of 7 on.
- `Received`: bits delivered to the shift register so far, parity and stop check,
  against the byte `due`.

A false start must be over before the next frame begins. The state machine leaves it at the end of
the bit, after `Prescale` cycles, and `bit_count` is cleared in the cycle after that:
hence `Recovery(p) > p`.

`MacAccelerator_proofs` proves the safety of the accelerator, for every width of a word
(`SignBit`), size and content of the RAM, and place of the matrices:

| Theorem | Assumes | States |
|---|---|---|
| `AcceleratorTypes` | | `Spec => []MacTypeOK` |
| `CompletesProduct` | `TiedOff`, `SoundPrograms` | `Spec => []ProductComplete` |
| `WritesNothingElse` | `TiedOff`, `SoundPrograms` | `Spec => WritesElements` |
| `SumsFitWords` | `TiedOff`, `SoundPrograms` | `Spec => []SumsInWord` |
| `ChangesOnlyC` | `CInMemory` | `Spec => StaysInC` |
| `NoDoneForDeepRuns` | | `Spec => []DoneDepth` |

`MacAssumption` gives the constants their types. `TiedOff` is the SoC: `clear_interrupt` is
0 and the race has the outcome of a flip-flop. `SoundPrograms` is about the dimensions a
program may ask for, cut to three bits: none is 0, k = n or k = 1 (for other shapes
`mac_rectangular` shows that the product is wrong), the matrices are in the memory and C
overlaps neither A nor B. `Mac.cfg` satisfies both. `CInMemory` only says that neither m nor
n is cut to 0 and that C is in the memory: with M = 8 sixteen rows are written, and
`StaysInC` is violated.

The three about the product rest on `PipelineInv`, the invariant of a pipeline four deep:

- `Configured`: how far the program has got with its writes, and that nothing is
  written during a run.
- `Stage`, for each state of the controller and for the first and the later pairs of
  an element: which pair of operands is in the read register, in the operand registers and in the
  sum, and where in the pipeline the write enable and the clear are. In the
  first three states of an element the one before it is still there: `Waiting` has it
  with all but its last term summed up, and its clear reaches the accumulator in the
  edge after its last word.
- `Stored`: an element whose terms have all been read is in its cell, in the accumulator
  and about to be written, or the one in the pipeline.
- `OnlyElements`: what the accumulator writes is an element. It is what keeps A and B as they
  are (`OperandsKept`), on which all the rest depends.

There is one lemma for each state (`LoadAStep`, `LoadBStep`, `ClearStep`, `PaddingStep`,
`StoppedStep`). `Reads` shows that the addresses are right, `Places` that no two elements
share a cell, `Sums` and `Accumulates` that adding words and cutting each sum is the same as
cutting the whole. `OverflowInv` adds that the accumulator's carry has not been lost when
`overflow_in` is next looked at: in `load_a` the product, in `load_b` product and sum
(`OverflowLoadA`, `OverflowLoadB`, `OverflowClear`). Its `FinishedFits` leaves out the
element just read, whose overflow is seen up to three edges later; after the last element of
all nothing looks any more, which is why `SumsInWord` leaves that one out. What "no overflow
seen" means for the numbers is `ExactSum`: if every product fits a signed word and no
addition of words carries, at most one term is negative (`NoCarry`), so that the sum lies
between the least signed and the greatest unsigned word. It does not say that the sum fits a
signed word, which `mac_signed` refutes.

The last two theorems hold for any shape, either outcome of the race and any
`clear_interrupt`, and so for a second run as well. `StaysInC` (port A changes no word outside
C) needs only that the indices stay below the dimensions and that an address in the pipeline
was made from them; `DoneDepth` (done is reported for a depth of 1 to 3 only) that two bits
count the drain. `mac` checks `DoneDepth`, with a shape of depth 4 that never ends. No run
checks `StaysInC`: `mac`'s shapes satisfy `WritesElements`, which is stronger.

TLC checked `PipelineInv` and `OverflowInv` on eleven shapes before they were proved. The
sum of an element is written out (`SumOf`, at most seven terms): a recursive definition could
not be reasoned about. For k of 4 to 7 the theorems hold too, but no run completes, which
is what `NoDoneForDeepRuns` says.

Only model-checked: liveness (`TransfersEnd`, `FetchServed`, `RunEnds`, `FramesEnd`,
`BackToIdle`, `Ends`, `Reports`), which needs fairness. Every other property of a passing run
is stated by a theorem.

## 6. Not modelled, and why

- The core's pipeline, the other CSRs, debug unit and FPU: vendored code. Its C test
  programs other than the interrupt test are straight-line code without shared
  state: hardware-loop macros, floating-point samples, stubs of the C library.
- `generate_hex.py` as instructions: it is represented by the order of its register
  writes and stores. Its data overlaps its own first instructions, so that after a
  reset without a reload the core would execute data.
- The PC-triggered process of the interrupt generator: test 4 of `interrupt.c`, the only
  user, is commented out.
- The receive flag `rx_valid` (`Register_file.v:77`): it is cleared whenever the low four
  bits of the address on the bus are 4, by a fetch from such a word as well.
- MAC: writes to STATUS or to register indices 6 and 7, reads of the registers,
  reconfiguration during a run. M or N of 8, which three bits cut to 0: with K = 8 a run
  has no end (`NoDoneForDeepRuns`), with M = 8 sixteen rows are written, past the end of C.
- Overflow in `main.c`: neither program has a branch for line 18.
- A device of `Firmware` whose interrupt lines stay up and whose addresses are reachable: the
  routine would run for ever on one byte, and the counter grows without bound.

Met while modelling and not a run of its own:

- Receiver: with a prescale below 7 the third sample is taken too late for the state
  machine, which leaves the start bit on an old decision: with 6, `OnlySentBytes` is
  violated, and after reset the prescale is 0. A frame that starts in exactly the cycle
  after a glitch or a frame without a stop bit, when the state machine is back in idle
  but `bit_count` has not been cleared, is lost: `DeliveredInTime` is violated with
  `Recovery(p) = p`.
- There is no sign of a byte that was overwritten before it was read.
- `irq_served` of `interrupt.c:143` is not volatile. It is counted in handlers only and read
  after a call, which is why it works.
- Byte enables end at the arbiter (`cpu_ram_arbiter.v:32`) and the RAM writes whole words, so
  that `sb` and `sh` overwrite the bytes beside theirs.
- The accumulator's overflow is the carry of an unsigned addition
  (`accumulator.v:26`), although README.md:78 has a signed accumulator. It is wrong in both
  directions: two positive terms whose sum is no signed word wrap to a negative one and
  nothing is reported (`mac_signed`), and a sum with a negative term that fits stops the
  run. `SumsInWord` says what the end of a run does promise.
- An overflow in the last element is not looked at (`controller.v:60-65`). `SumsInWord` leaves
  that element out.
- After an overflow the start bit stays up: only done clears it (`cfg_reg.v`). `generate_hex.py`
  polls it (lines 206-217) and has no branch for line 18, so that it would poll for ever.
  `RunEnds` counts the overflow as an end and does not show this.
- README.md:105 gives K four bits. A run of depth 4 to 7 never ends: the padding counter has
  two bits and is compared with the depth. `DoneDepth` and `NoDoneForDeepRuns` say so.
- No program looks at `tx_busy`: `generate_hex.py` (260-276) stores one character after the
  other. A store that meets the cycle after a stop bit, in which the state machine is idle
  and `busy` still up, sends a frame with the last bit of the frame before and zeros:
  `BeginLate` of `SerialLine`. One during a frame sends none. `uart_tx` has both.
- `main.c` on this SoC prints nothing: its addresses 0x100 and 0x200 are RAM (README.md:96),
  and the bit it sets in CTRL (`main.c:103`) is `parity_enable`, the receive interrupt is enabled
  by bit 8. `StaysWaiting` shows each alone. With both repaired, its base registers would be
  wrong: it writes byte offsets (`main.c:124-127`) where README.md:102-104, `generate_hex.py`
  and `controller.v` have word indices, so that a MAC that works computes on other words and the
  verdict is "Fail", as `VerdictRight` says for these devices.
- The write strobe is up in the slave's `WAIT` state too, so that a store after a
  change of slave is applied at two edges, although `APB_Slave.v:25-26` says it
  "fires on the ST_ACCESS cycle". `ObiMemory` allows what follows from it and no
  more: the store may be visible a cycle before its answer, and it overwrites
  what port A wrote to the cell in between.
- RAM accesses have the wait state of every slave, README.md:62 calls them
  zero-wait-state.
- With `clear_interrupt` tied to 0 the controller stays in `done`: STATUS reads busy
  after a run, and the interrupt lines stay up. Were it driven, a second run would
  begin with the product of the operands left from the first.
- With `Race = {TRUE}` the wrong column of A is read.

## 7. State of the plan

Done: the fabric with its refinement and proofs; MAC controller and datapath with proofs; UART
transmitter with its refinement and proofs, and behind the bus; UART receiver with proofs;
interrupt controller, generator and the interrupt test with proofs; the C firmware
with proofs. What would come next:

1. `SocMac`: `SocBus` with `MacAccelerator` in place of the open port A, and a CPU
   that polls while the run is under way, writes any register, and overlaps
   the operands; dimensions of 8 and above.
2. `UartRegs`: the register file between bus, receiver and transmitter, with the clearing
   of `rx_valid` and CTRL written while the receiver is in a frame.
3. `Prefetch`: `cv32e40p_prefetch_controller` and the FIFO on top of `ObiCpu`, so that
   `MaxBurst` and the two-cycle strobe of a UART store become results.
4. Proofs: that the pair of `SocUart` keeps what is proved of `SocBus` and of the
   transmitter alone.
