# A TLA+ verification of riscv-em

riscv-em is a RISC-V (RV64GC) system emulator in C++: one or more harts, an
interrupt controller, timers, a serial port, a block device, an I2C keyboard, a
framebuffer, a JIT for x86-64 and a GDB stub. This directory models its core
logic in TLA+, checks the models with TLC on small instances, and proves the
main results with TLAPS for every value of the constants.

## 1. The system

### Threads

| thread | started by | what it does |
|---|---|---|
| main | | builds the machine, `Machine::run`, joins the worker, leaves |
| worker | `Machine::run` | `Machine::work`: ticks every hart in turn, the devices every 0x1000 rounds, restarts the machine; runs every register access of the guest |
| terminal | `main` (`termios_loop`) | reads stdin, `UART::receive_byte`; Ctrl-C Ctrl-X calls `Machine::stop` |
| CLINT | `CLINT::CLINT` | `update_mip` every 100 microseconds |
| GDB stub, continue loop | `main`, packet `c` | single steps, breakpoints, registers, kill |
| window | `StartEventLoop` | key events to `HID_Keyboard::update` |

The only locks are those of the windows. `Machine::state` is atomic, everything
else that the threads share (the FIFO and registers of the port, the words of
the controller, `ip`, the report queue, the hart vector, `gdb_single_step`) is
plain memory.

### Components

| component | state | operations | what makes it correct | module |
|---|---|---|---|---|
| PLIC (`devices/plic.cpp`) | priorities, pending words; enables, threshold and cached level per context | `set_pending`, register writes, claim, complete | an interrupt that may be handed out is visible in `ip`; no stale level | `Plic` |
| UART (`devices/uart.cpp`) | RHR, IER, IIR, LSR, FIFO, DLAB, two pending flags | register reads and writes, `receive_byte` | bytes in order, IIR and source never stale | `Uart` |
| hart (`hart.cpp`, `sets/priv.cpp`, `sets/zicsr.cpp`) | pc, mode, status, ie, ip, trap CSRs, WFI | `tick`, `check_ints`, `trap`, privileged and CSR instructions | traps are transparent, privilege is confined, interrupts are taken, WFI ends | `Hart` |
| machine (`machine.cpp`, `main.cpp`), SYSCON | `state`, thread flags, hart vector | `run`, `work`, `stop`, `reset` | stops and reboots happen, the harts exist while ticked | `Machine` |
| GDB stub (`gdbstub.cpp`) | request flag, breakpoints, connection | packets | the harts run only as asked | requests and kill in `Machine` |
| CLINT, timers (`devices/clint.cpp`, `timer_st.hpp`) | timer, mtimecmp, msip | register accesses, `update_mip` on two threads | timer and software interrupts appear and go away; time keeps pace | `Clint` |
| VirtIO block (`devices/virtio_blk.cpp`) | queue registers, last avail index, interrupt status, image | register writes, `process_queue` | every request is answered once, every answer is announced | `VirtioBlk`, `BlkQueue` |
| I2C bus, HID, keyboard (`devices/i2c`, `devices/hid`) | transfer state, HID registers, report queue | commands, bus ticks, HID commands, key events | reports whole and in order, transfers end, keys are announced | `I2cHid` |
| JIT, block cache (`rvjit/`, `hart.cpp`) | hit counts, slots, blocks, page versions, arenas, decode cache | record, build, look up, drop | what runs is what memory holds | `JitCache` |
| JIT, register allocator and emitters (`rvjit_x86_64.hpp`, `sets/`) | host registers, dirty marks, code | one emitter per instruction | translated code does what the interpreter does | `JitAlloc`, `RegFile`, `Rvjit` |
| decoder (`decode.cpp`, `decode.hpp`) | look-up tables | `decode`, immediates | every word gets its instruction and operands | `Decode` |
| integer, multiplication, atomic, compressed, bit and cache-block instructions; memory, MMIO (`sets/`, `memory_map.cpp`, `mmio.cpp`) | registers, memory, reservation | one function each | agrees with the ISA | `Rv64` |
| floating point | | | | no: needs IEEE arithmetic |
| framebuffer, windows, xdg-shell | | | | no: pure I/O, generated code |
| device tree, ELF, argument parser | | start-up only | | no |

### What is hard here

The hazards, each at its line, are in `PROJECT.json`. The main ones: levels that
are cached and refreshed by only some operations (PLIC, UART, `interrupt_status`
of the block device); contexts saved by nested traps; views of one register from
two privilege levels; WFI against interrupts that arrive at any time;
check-then-store on `state` by four threads; loads and stores of `ip` by two
threads without a lock; ring indices that wrap; a queue that one thread fills and
another drains; functions that take a trap themselves and return normally; dirty
host registers at the end of a block; translated code that outlives the memory it
was made from; shifts, products and quotients at the edges of a word.

## 2. Modules

- `Plic` - the interrupt controller. One action per register write, claim,
  completion and device signal, each with its trailing `update_context`. A word
  of bits is a set of source numbers, so that word and bit arithmetic is
  `WordIds`. `MayUse` says which sources the guest uses from which context.
  The source a context is handed is defined by choice, and the loop of
  `find_highest_pending_enabled` (`scan_words`) is compared with it.
- `Uart` - the serial port, extending `Plic`: `update_iir` calls `set_pending`
  of the controller. A byte is its position in the order of arrival. The port
  implements `PlicSpec` under the identity.
- `Hart` - one hart. `tick` is two steps, since other threads write `ip` at any
  time: interrupts and WFI first, one instruction second. The instruction is any
  of those modelled, so that a behaviour is any program. `mframe` and `sframe`
  remember what the last trap of each level interrupted, until software
  replaces the saved context or returns. `Quirks` switches on two events after
  which the tick does not stop at its trap (see Observations).
- `Machine` - the life cycle. Every load and store of `state` is a step of its
  own in the thread that does it. `run_fails` is the return of `run` when an image
  does not fit, after which nothing was started. A tick matters only for what the guest writes
  to SYSCON. `setup` says how the emulator is used: with `--gdb` or not, what the
  guest writes to SYSCON, and who may stop the machine from outside.
- `Clint` - the timers and software interrupts. `update_mip` runs on the CLINT
  thread and, after a register write, on the worker; each of its loads and stores
  of `ip` is one step, and so are those of the CSR instructions that share the
  word. The clock is the host's, in nanoseconds, and `timer_clocksource`
  multiplies modulo `WordMod`, which stands for 2^64.
- `VirtioBlk` - the block device on `Plic`, with a driver: a table of descriptors
  that the driver fills with chains of any of `Shapes` (malformed ones included),
  rings whose indices wrap at `IdxMod` (2^16), the walk over a chain, a request
  with its error paths, and the handler from claim to completion. The image is a file
  that a write past its end makes longer, missing, sound or on a host that may fail
  (`HostReads`, `HostWrites`: with or without the device noticing). The driver's
  actions are those the code's registers and rings allow.
- `BlkQueue` - what the device promises: requests are served in order, one answer
  each; on a host that does not fail reads return the image and a write that succeeds
  is in it, on another a beginning of either may be all that was done, with the status
  OK or not; a request that cannot be parsed is dropped. `VirtioBlk` implements it (`QueueSpec`): the
  waiting requests are those between the device's and the driver's avail index,
  the answers those between the driver's and the device's used index.
- `I2cHid` - bus, HID layer and keyboard on `Plic`: commands and their delay, the
  HID state machine of `dev_write` and `dev_read`, and `update` on the window
  thread in five steps: the push, the test of the size, the write of the report, the
  test of `is_transmitting` and the announcement. A report is one of `MaxKeys` values.
  When the queue was emptied before the write, `front()` is any earlier report or none;
  `cur_reg` is not initialised and starts anywhere.
- `JitCache` - the part of `tick` that finds, builds and runs blocks. Instructions
  are the kinds the cache tells apart (an operation, a store, a jump, FENCE.I, an
  illegal word). `unseen` collects the addresses written by something that does not
  touch the page version. `end_block_fails` is a block that the host gave no memory
  for: the slot gets a function that is not valid. `tick_faults` is the tick of a hart that ran past the end of
  memory.
- `JitAlloc` - the register allocator: which guest register is in which host
  register, ages, dirty marks, spills, the end of a block. The emitted code is
  represented by its effect on host registers and on the array of guest
  registers. It implements `RegFile`, an array of registers.
- `Rvjit` - the emitters, on `JitAlloc` and `Rv64`: every registered one emits its
  sequence of x86 instructions, which `HostStep` gives the meaning that the x86
  manual does, and the block runs against the interpreter's functions. `Gap`
  lists the operands for which the two are known to differ.
- `Rv64` - one operator per instruction, over words of `XLEN` bits; memory, MMIO
  and the reservation. `Decode` - every pattern that `sets/` registers, the
  look-up tables, the immediates and the fields. `MCIsa` compares both with the
  ISA's drawings and with reference definitions.
- `PlicProofs`, `UartProofs`, `HartProofs`, `MachineProofs`, `JitAllocProofs`,
  `JitCacheProofs`, `VirtioBlkProofs`, `I2cHidProofs` - the theorems. The other `MC`
  modules are instances for TLC.

A definition whose name ends in `slip` (`Slip`) is a deliberate error in the one
that follows it, used to show that the property next to it in `PROJECT.json` can
be violated; no specification uses it.

### Correspondence of `Hart` with the code

A register is the set of its bits (`StatusBits` of mstatus; `ie`, `ip`,
delegation), `mstatus` and `sstatus` are two views of one set through
`SSTATUS_MASK`, as in `csr_read` and `csr_write`. FS is one bit because the code
only asks whether it is zero. Addresses are modulo `AddrLimit`, which stands for
2^64. `Hart::init` sets few members and the constructor none, so the first state
is any of `BootStates`: zeroed memory, or what the previous machine left.
`exec_MRET` does not check the mode in the code, and does not in the model;
`MachineStateIsConfined` names what it may do as its own case (`MretBelow`).

### Correspondence of `Rvjit` and `Rv64` with the code

Register numbers are those of x86, encodings are named by their opcode and `/n`
extension (`RI(XLEN, "81", 5, ...)` is `sub r, imm32`), and prefixes become the
width. Widths shrink with `XLEN` (64 in the code): INT is its half, SHORT its
quarter, BYTE its eighth. The code's value for no register, 0xFF, is encoded as
RDI, and reads so in the model. Instruction functions
keep the C++ operators' meaning: shifts take the low bits the code masks, signed
division is split as in the code, a conversion from a narrower type
extends as its C++ type does.

## 3. Runs

| run | instance | shows |
|---|---|---|
| `uart` | 1 hart, 2 sources in words of 3 bits, priorities 0..1, FIFO of 2, 3 bytes, one other device | `UartInv`, `BytesInOrder`, `DeliverableIsVisible`, `VisibleIsDeliverable`, `ScanFindsBest`, `OnlyGuestAcknowledges`, and that the port implements `PlicSpec` |
| `hart` | two timers, one delegated; 8 bytes of addresses; writes to the enables, the delegation and the saved contexts | `HartInv`, `ReturnResumes`, `SleepEnds`, `InterruptsAreTaken` |
| `hart_gates` | attempts at every register from every mode, both quirks on | `MachineStateIsConfined` |
| `machine` | 2 harts, every setup: debugger or not, poweroff, reboot, terminal, kill | `StepInv`, `HartsExist`, `StepsHappen`, `RebootHappens`, `PlainStopEnds` |
| `emit` | words of 8 bits, 5 guest and 3 host registers, blocks of up to 3 instructions, 16 bytes of RAM at 64, a device | `AllocInv`, `CleanIsSaved`, `TranslationAgrees`, and that the allocator implements `RegFile` (`FileSpec`) |
| `isa` | all 65536 halfwords (and words built from them), words of 8 bits | `ImmediatesAsDrawn`, `LutHidesNothing`, `CompressedMeansExpansion`, `ArithmeticFits` |
| `virtio` | a ring of 6 with indices modulo 6, two heads, seven shapes of requests, an image of one sector that grows, every kind of host | `BlkTypeOK`, `AnswersAreAnnounced`, `NotifyDrains`, `AnswersAreCollected`, and that the device implements `BlkQueue` (`QueueSpec`) |
| `clint` | 1 hart, words modulo 32, a clock of 2 steps, 2 register writes | `LinesSettle` |
| `i2c` | a delay of 2 ticks, reports of 2 bytes, a queue of 2, 3 keys, one transaction besides those of the handler | `I2cInv`, `ReadsWhole`, `KeysGetRead`, `TransfersEnd` |
| `jitcache` | a ROM word and two pages of two words, 2 slots, 2 ways, blocks of up to 3, 3 writes, 3 blocks | `CacheInv`, `InterpretsMemory`, `BlocksMatchMemory` |
| `virtio_lost_irq` | `virtio` with a handler that makes requests | violates `AnswersAreCollected` |
| `clint_wrap` | `clint` with a host clock that is close to the end of a word | violates `TimeKeepsPace` |

Why the bounds are enough to matter. Two sources in a word of three bits leave
bit 0 and a tie in priority, and a written `PrioLimit` wraps to 0. A FIFO of two with
three bytes can be full, drained and switched with bytes waiting. Two interrupts,
one for each level, nest in either order; eight bytes hold two handlers, so that
a lost or late `pc` shows. Two harts let one act on `state` after the other in the
same round. Three host registers are as few as an instruction with two locked
operands can be allocated with, so that the third instruction of a block spills
clean and dirty registers; five guest registers include x0. In words of eight bits
every width the code tells apart (byte, half, word, doubleword) exists and is
distinct, so that sign and zero extensions differ. Ring indices wrap after six
requests with two under way. The clock passes a compare value in either order with
the guest's write of it. Shapes of half a sector, and one past the end of the image,
split writes and make the file grow. A queue of two with three keys is full and overflows. Two
slots, one arena and two pages make blocks replace each other, cross a page and
come back. Every bound is a constant of its module (`MaxBytes`, `FifoSize`,
`PrioLimit`, `AddrLimit`, `MaxRequests`, `MaxInst`, `IdxMod`, `MaxNs`, `MaxWrites`,
`MaxKeys`, `MaxTx`, `MaxBlocks`, `MaxInstructions`).

What some properties say, beyond their names. `CompressedMeansExpansion` compares the
immediates as decoded, before they are cut to the eight bits of a register, and then
what the instructions do. `ArithmeticFits` compares word results at full width and
states what the code gives where it departs from the ISA: REMUW by zero, the upper
half of RORIW, and the bytes of an SC's code above the lowest. `MachineStateIsConfined`
covers all of `mstatus` that S-mode must not change, the mode itself and the pending
bits that S-mode does not see. `KeysGetRead` follows every single report: it is
received byte by byte, unless RESET empties the queue or a read that began before it
was in place pops it. `DeliverableIsVisible` and `VisibleIsDeliverable` take the
external bits of `ip` to be the controller's alone. `OnlyGuestAcknowledges` allows a
completion to take a source back, which is the matter of `virtio_lost_irq`.
`InterpretsMemory` is about the word that is executed, and takes the fields decoded
from it as right, which is the matter of `isa`. `StepsHappen` does not tell one
request from two made before the first was served.

Deadlock is not checked where a behaviour ends at such a bound (`clint`, `i2c`,
`jitcache`, `emit`), where each state is one case (`isa`), or where a driver may stop
asking (`virtio`).

### Findings

Each is a run that ends in a violation.

- `virtio_lost_irq`: `complete_interrupt` clears the pending bit of the source it
  completes. An answer that the block device raises between the claim and the
  completion is never announced; a driver whose handler makes requests of its own
  waits for it for ever. In the trace the handler is leaving when the device answers;
  `HandlerCompletes` then removes the source from `pending` with the answer still in
  the used ring and `interrupt_status` set, and no step of the device or the handler is
  enabled any more.
- `clint_wrap`: `timer_clocksource` multiplies the host's nanoseconds by the
  frequency modulo 2^64 and divides afterwards. At the announced 5 MHz the product
  wraps after 3689 seconds of host uptime, and `mtime` jumps back.

### Observations

Differences met while modelling. The models contain the behaviour, or name it as a
limit of what they claim; no run depends on it.

Hart and machine:

- In M-mode `int_local_pending` ignores delegated interrupts, but `exec_WFI` went to
  sleep because none was pending: the hart does not wake for them. `SleepEnds` is
  about interrupts that are not delegated.
- `fetch` takes the access fault and returns 0; `tick` runs that 0 as a two-byte
  instruction at the handler, which is thus entered two bytes late (`Quirks`:
  "fetch").
- With FS off, `csr_read` and `csr_write` of FCSR each take the trap: the second one
  saves the handler's own address and mode (`Quirks`: "fcsr").
- SRET to U-mode leaves MPRV set, against the comment beside it.
- `exec_MRET` does not look at the mode: outside M-mode it resumes at `mepc` in the mode
  that MPP holds, instead of being illegal.
- `csr_write` of `mip` and `sip` takes the external bits too. The controller writes
  them only when its cached level changes, so that a bit which software cleared stays
  clear although a source can be claimed, until the level changes again.
- `Machine::run` returns without starting anything when an image does not fit, and
  `main` then leaves as after a run.
- A stop during a guest's reboot is overwritten by the restart. When SYSCON's
  reboot comes after the stop in the same round, `reset` even rebuilds the hart
  vector under the tick that called it, which is why `HartsExist` is only claimed
  while nobody switches the machine off.
- Under `--gdb` every tick is a single step, and its end stores Halted over the
  guest's Off (or Resetting): a guest can neither power off nor reboot.
- `stop` joins the worker without setting `work_thread_joined`, and `main` joins it
  again when it had looked at `work_thread_w` before.

Translation and blocks:

- `Gap` in `Rvjit`: word operations with one source x0 and word immediates of 0 (a
  plain move, no sign extension), SUB and shifts with rs1 = x0, shifts by immediate of
  x0, compares with x0 while RDI holds a guest register, stores with rs1 = x0, and
  stores to a device while R8 to R11 are in use (the call may change them).
- A fetch past the end of memory runs the word 0 at the handler, and the JIT then
  asserts that the address it failed at has a page: unless a valid block shares its slot
  the emulator ends there, where the guest should see an access fault (`tick_faults`).
- A translated store that faults is ignored, and none clears the reservation. The
  bound check is `jbe`, which lets a store at exactly `memsize` through. Blocks do not
  count in MINSTRET. No registered emitter sets `exit_pc`.
- The version of a page is kept per block, but moving a block does not copy it, so
  that it is always 0: a block in a page that was ever written is dropped at each use.
  Copying it would not suffice, since it is taken when the block is finished, not when
  it is begun.
- The versions do not see stores by other harts and by translated code, CBO.ZERO,
  DMA of the block device, the second page of a block, and the part of a store
  beyond its first page. FENCE.I drops no blocks. These are exactly the exceptions
  `BlocksMatchMemory` names. The array for a block's bytes (4096) has no check.

Instructions, decoding, memory:

- SC sets one byte of the uninitialized local that rd gets; RORIW does not sign-extend
  (1 rotated by 0 has a copy of itself in the upper half), and REMUW by zero returns the
  dividend unextended. `ArithmeticFits` has all three as its named departures.
- 0x0000 and other reserved compressed words decode as instructions; FENCE with a
  nonzero fm, rd or rs1 does not decode.
- The range test of MMIO wraps at the end of the address space, and the range for
  writes is one shorter than that for reads. A reservation is only cleared by stores
  of the same hart.

Devices:

- PLIC: with 64 sources the number 64 passes every test, but its bit is one word past
  the end of `pending_words`. No device gets it; a guest may complete it.
- Block device: the capacity is announced and not checked, so that a write past the end
  makes the image longer; `disk_write` ignores the result of `fflush`, so that a write
  that fails in the host's buffer is answered with OK; a short `fread` is answered with
  zeros and OK, whether at the end of the file or on a host error; a write that is not a
  multiple of a sector is done although the status is IOERR; malformed chains get no
  used entry (`Drop` in `BlkQueue`); a queue size that does not divide 2^16 collides at the wrap
  (`IdxAssumption` excludes it).
- CLINT: an SSIP that a CSR instruction sets can be lost between the load and the
  store of `update_mip`; the time a hart sees can step back when both threads store
  it; the walk over the harts is not protected against a reset.
- I2C and keyboard: `std::queue` is used from two threads, and `update` may take the
  front of a queue that was emptied after its test; a key that is announced during a
  transaction, or after its report was read, makes the driver read once too often, and
  such a read pops a report that arrives in the middle of it unread; a read with an empty queue,
  or the reply to RESET, can be mixed with a key that arrives meanwhile; a command of
  IACK or STA alone leaves TIP set; an absent address leaves RxACK as it was;
  disabling the bus during a transaction leaves `is_transmitting` set, so that later keys
  are not announced.

## 4. Fairness

`HartFairSpec` assumes weak fairness of `tick`: `Machine::work` ticks every hart
in every round while the machine runs. Nothing is assumed of the devices or of
what the guest runs. `MachineFairSpec` assumes weak fairness of each thread that
is inside code of its own: the operating system schedules every runnable thread.
That the terminal, the guest or the debugger ever asks for anything is not
assumed. A thread in `join` waits until the worker has ended.

`BlkSpec` assumes weak fairness of the device's steps, since a notification runs to
its end on the worker, and strong fairness of the handler's, since a hart that is
shown an interrupt again and again takes it in the end. The driver need not make
requests. `ClintSpec` assumes weak fairness of both threads inside `update_mip` and of
the CLINT thread's next call; neither the clock nor the guest has to move. `I2cSpec`
assumes weak fairness of the window thread once inside `update` and of the bus tick
(the worker ticks devices for ever), and strong fairness of the handler and of a driver
that polls TIP; nobody has to press a key.

## 5. Proofs

All theorems hold for every value of the constants within the named assumptions
(at most 64 harts as `main` enforces, positive widths, device lines among the
sources that have a bit, addresses in range, operands of the type of their register).

- `PlicInvHolds`, `NoInterruptIsLost`, `NoInterruptIsInvented`, `ScanHolds`.
  `DeliverableIsVisible` alone is not inductive: `ip` is only written on a change
  of `interrupt_line`, so the invariant `PlicInv` adds that the cached level and the
  `ip` bit agree (`LineDrivesIp`) and that a context with a candidate has its level
  set. Operations that refresh one context keep it for the others because they
  never add a candidate there: a claim or completion only removes from `pending`.
  The converse needs that no two contexts share a source (`Routed`), and then
  that enables stay within `MayUse`. `ScanHolds` goes by induction over the bits the
  loop has looked at (`FoundBelow`): what it keeps is nothing as long as no candidate
  was met, and the best of those below n otherwise. A candidate beats the initial
  priority 0 because it is above a threshold, and equal priorities never replace the
  best because bits are met in rising order.
- `UartInvHolds`, `BytesStayInOrder`, `UartDrivesPlic`, `UartLosesNoInterrupt`,
  `SourceOnlyAcknowledged`.
  Every operation of the port is a `set_pending` of the controller or a stutter
  of it, so that `UartSpec` implements `PlicSpec` under the identity, and the
  controller's results carry over. `BytesInOrder` needs `ReadyIsBuffered`: the
  ready bit and the FIFO agree, and the FIFO is empty while it is off.
  `SourceOnlyAcknowledged` needs no invariant: every operation of the port ends in
  `update_iir`, which lowers the source only with its last cause.
- `HartInvHolds`, `TrapsAreTransparent`, `MachineStateStaysPut`. `FramesHold` is
  stated as equalities between the history and two small tuples of the hart
  (`MContext`, `SContext`). `TrapFacts` shows that a trap fills one and leaves
  the other, `CsrWriteFacts` that a CSR write reaches them only through the
  registers that name them, and the lemmas per instruction follow.
  `MachineStateStaysPut` goes by action: a step outside M-mode stays below it, is a trap
  to the M-mode handler, or an MRET. Without FCSR
  accesses with the unit off the contexts hold; with them only the types do,
  which is what `FramesHoldWithoutFcsr` says.
- `StepInvHolds`, `RebootSparesTheTick`. `StepInv` includes that no round of ticks runs
  that was not asked for (`owed`); `StepDiscipline` says
  where the worker can be for every value of `state` under the debugger: it is
  Running only with a request, and Resetting only until the end of the round.
  `RebootSparesTheTick` uses that in a setup in which nobody switches the machine
  off `state` is Off only before the start (`RebootDiscipline`), so that `reset`
  leaves the rebuilding to `work`, outside every tick.
- `AllocInvHolds`, `CleanHolds`, `AllocImplementsFile`. The inductive invariant is the
  type and `Consistent`: the tables from guest to host register and back agree, x0
  is in none, and a register that is not dirty has its value in the array. The last
  part is needed because spilling and the end of a block store dirty registers only.
  `TakeFreeKeeps` and `TakeSpilledKeeps` show that making room loses no
  register; `AllocRTypeKeeps` and `STypeKeeps` show that locked operands stay where
  they are while the next is allocated; and the refinement maps a guest register to
  its host register if it has one, and to the array otherwise. Assumed: at least one
  guest register, at least three host registers (an instruction locks two and needs
  one more), and values closed under the operations.

- `InterpreterIsNeverStale`, `CacheInvHolds`, `BlocksAreNeverStale`. The first needs no
  invariant: a hit of the decode cache compares the word that was fetched. Blocks do:
  `CacheInv` says that a valid slot names code of its own index in an arena, which
  agrees with memory (`Agrees`) except where a write went unnoticed, where the block
  leaves its first page, or where the version of the page is no longer 0; the block that
  is being built satisfies the same, since it may be in the slot by the next step. That
  versions only grow (`Keeps`) carries it over stores, and that the version kept with a
  block is always 0 makes the look-up drop every block of a page that was ever written.
- `BlkDrivesPlic`, `BlkInvHolds`, `NoAnswerIsForgotten`, `NotifyLeavesNothing`. `BlkInv`
  extends the announcement to what the steps between claim and completion need:
  `process_queue` runs outside of the handler and knows the whole avail ring, the
  handler leaves only after it collected every answer, and a driver that is live has
  its source enabled at a priority above the threshold. With the controller's
  `PlicInv` this gives that the hart sees the interrupt, not only that it is pending.
  `BlkInvHolds` and `NoAnswerIsForgotten` assume `~HandlerSubmits`: without it the claim
  is false, which is what the run `virtio_lost_irq` shows.
- `RefineInvHolds`, `DeviceIsQueue`, `BlkTypeHolds`, for every driver, the one whose
  handler submits included. The refinement maps the heads between two ring indices
  to the requests they stand for. That the step of an index is an append or a tail of
  this sequence needs that the ring has room, which the code never checks: there are
  fewer requests than slots, because each has descriptors of its own and the table is
  no longer than the ring (`RoomForOne`, a pigeonhole argument over the heads). Hence
  the parts of `RefineInv`:
  - `SetupOK`: the device's used index is the driver's view of it, and a queue is
    only live once its addresses and its size are set;
  - `RequestsOK`: the descriptors of a request under way are in the table as they
    were written, and no two requests share one;
  - `OrderOK`: a head is in one ring at most, and there once, so that serving or
    collecting one request changes the meaning of no other;
  - `BuffersOK`: what a waiting request is to write is still in its buffers, although
    other reads fill theirs meanwhile;
  - `ChainOK`: the chain that `process_queue` holds between reading and serving is
    that of the oldest waiting request.

  `FetchChain` shows that the walk over the table gives the chain or, for one that
  loops, gives up at the size of the queue; `ParsesIsOk` that the code's tests accept
  the same chains as `Meant`; `FlattenPieces` and `Tile` that data split over buffers
  of any lengths is the data of the request; `HostGives` and `HostTakes` that what the
  host may do is what `Transfers` of the queue allows; `OutcomeOf` puts these together for a
  served request, and `StepRefines` maps every action to one of `BlkQueue`, for instance `Submit`, `Drop`,
  `Collect`, `Reset` or a stutter. TLC checked `RefineInv` on the instance of `virtio`,
  with a handler that submits (3 million states), before it was proved.
- `I2cDrivesPlic`, `I2cInvHolds`, `ReportsAreReadWhole`. That the input report follows the
  queue (`QueueOK`) is nearly inductive alone: a push onto an empty queue is left for
  `update_writes`, a pop for `dev_read_refills`. Whole reports need to know where in
  which transaction the bus is: `Progress(t, n)` says that command n of transaction t is
  the last that was issued, that the rest is still in `tx`, and what the keyboard is after
  n - 1 or n commands (`At`: its register, its offset, whether it is selected and, during
  a read of a report that was in place, that the bytes read so far and the front of the
  queue are of it). `TxIsRest` and `RestStep` relate the sequences of commands to their
  indices; one lemma per step of `execute_command` moves `Progress` on.

Assumed besides: the source of the block device and of the keyboard may be used from
context 1, the S-mode of hart 0 (`RoutedAssumption`); ring indices wrap at a multiple of
every queue size (`IdxAssumption`; 2^16 and powers of 2); a driver's descriptors are
within the queue, and a request that has no status has no writable descriptor, which
`process_queue` would take for the status (`HeadsAssumption`, `ShapesAssumption`); a
sector has a positive number of units (`ImageAssumption`); the bus delay and the report
have a positive length; the keyboard's address is below 0xFFFF, the code's value for no
address (`AddressAssumption`).

Loops over data (the scan of the controller, the walk over a chain, the offsets of
buffers) are recursive functions or folds. The library's induction theorems
quantify over operators, which the provers cannot instantiate, so `PlicProofs` begins
with `NatMin` (from well-foundedness), `Induction` over a set of numbers, and
`Recursion`, the existence of a function defined step by step; the proofs about data
rest on these three.

Only model-checked:

- the liveness properties (`SleepEnds`, `InterruptsAreTaken`, `PlainStopEnds`,
  `RebootHappens`, `StepsHappen`, `AnswersAreCollected`, `LinesSettle`, `KeysGetRead`,
  `TransfersEnd`), since fairness and ENABLED are out of the prover's reach;
- what `Rvjit`, `Rv64` and `Decode` compute, whose bit operations the prover cannot
  evaluate.

## 6. Limits

- One operation of the port, the controller, or a register of the block device and
  the bus is one step. In the program the terminal thread can run `receive_byte` in
  the middle of a register access: for instance the guest takes the last byte and
  sees an empty FIFO, the terminal pushes and sets the ready bit, and the guest then
  clears it, leaving a byte that nothing announces. The same holds for
  read-modify-writes of the pending words, of which one can undo another. Those of `ip`
  are split in `Clint`, and `update` of the keyboard in `I2cHid`.
- `Hart` runs one instruction per tick; blocks are in `JitCache` and `Rvjit`.
  Counters, PMP, address translation (`satp` is stored and not used) and general
  registers are not in `Hart`.
- `Rv64` has one hart and one device; `Rvjit` does not encode instructions to bytes, so
  that prefixes and displacements are taken as the encoder's comments name them.
- The driver of `I2cHid` polls the bus; the bus' own interrupt is not used by it.
- A null `uart` before the devices exist, and the CLINT thread's walk over the
  hart vector during a reset, are not in `Machine`.

## 7. Not modelled, and what is left

- Floating point (`rv64f`, `rv64d`): what the instructions compute is the host's IEEE
  arithmetic and rounding modes, which TLC has no values for. Their patterns are in
  `Decode`.
- Framebuffer, windows and the generated xdg-shell headers: calls to a window system
  and copies of pixels.
- Device tree writer, ELF loader, argument parser: sequential conversions at start-up.
- The packet layer and breakpoints of the GDB stub: string handling; what the packets
  do to the machine is in `Machine`.
- Next, in order: the port and the controller with the accesses of the threads split;
  the reservation and the stores of several harts; proofs for `Clint` (single bits of
  `ip`, and the clock below the wrap).
