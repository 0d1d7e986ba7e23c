# A verification development of seccamp_riscv_cpu

`ciniml/seccamp_riscv_cpu` is a teaching RISC-V system: a five-stage RV32I core
in Chisel with block RAM, memory-mapped devices and an external interrupt, the
peripherals around it (UART, LED drivers, video, a diagnostic probe), firmware
for it in C and in Rust, and two host tools in Rust. This directory holds TLA+ models of it, the
TLC configurations that check them, and TLAPS proofs.

Paths are relative to the repository root, which is `src/` here;
`cpu/Core.scala` abbreviates `src/cpu_design/src/main/scala/cpu/Core.scala`, and
so on.

## 1. Inventory

| part | state | operations | talks to | what is hard | what makes it right |
|---|---|---|---|---|---|
| Core (`cpu/Core.scala`) | pc, four pipeline registers, register file, CSRs | one clock edge | memory ports, interrupt line | forwarding, stalls, flushes and traps compete in one cycle; decode reads what older instructions have not written yet | it executes programs as the sequential instruction set does; interrupts are invisible to the program |
| ALU (in `cpu/Core.scala`) | none | 12 functions, 6 branches | execute stage | signed/unsigned, shift amounts, wrap-around | agrees with the manual on every operand |
| Memory (`cpu/Memory.scala`, `memory/generic.scala`) | RAM, `rvalid`, last fetch address | fetch, load, store | core ports | one cycle latency, byte lanes | a load returns the last store |
| Decoder, IO registers, GPIO (`cpu/Decoder.scala`, `IORegister.scala`, `Gpio.scala`) | answer registers | bus read and write | core, devices | read has a side effect, answer is one cycle long | one pop per load |
| CSR layouts (`cpu/CSR.scala`) | bit fields | read and write views | core | fields are cut at wrong places | what is written is read back |
| UART (`uart/UartRx.scala`, `UartTx.scala`) | bit and rate counters, shift register | start, sample, finish | line, queues | clock skew, overrun | bytes arrive whole, in order |
| Tops, UART queues (`cpu/Top*.scala`) | two 16-entry queues, the receiver's register, the bus answer | enqueue, dequeue, load, store | UART, IO registers, interrupt line | queues fill up; a status is read one access before it is used | read in order, none twice; nothing written into a full queue |
| Register access crate (`eda/*/src/sw-rs/pac`, two generations) | none | read, write, modify, reset of each register | the bus | a load has a side effect; two registers share an address | a field reaches its own pins, a call touches nothing else |
| Boot ROM firmware (`eda/*/src/sw/bootrom.c`) | `uart_rx_data`, LED state | greeting, main loop, interrupt handler | UART registers | handler and loop share a word the compiler may keep in a register; the core does not enter interrupts cleanly | the echo is in order, and complete for who waits for it, if entries do no harm |
| Rust firmware (`eda/*/src/sw-rs`) | LED word, the server and its response | main loop, `read`, `write` | register crate, server | it must never block, or the server stops reading | responses go out whole |
| fwtool frames, receiver, server, client (`tool/fwtool/fwtool/src`) | receive state, response buffer, frame number | `receive`, `process`, four calls | serial line | partial reads and writes, noise, oversized frames | one answer per request, the call's own answer |
| Probe (`diag/probe.scala`), `tool/probedec` | sample queue, five states, chunk and frame registers; the host's bytes | trigger, fill, drain, decode | UART, host | one sample more or less shifts the window; the host connects in mid-frame | the decoded samples are those around the trigger |
| Matrix LED (`display/matrix_led.scala`) | refresh counter, row | clock edge | pins | three comparisons decide lit, dark, turn and restart | rows never overlap, each gets its turn |
| Segment LED (`segled/multi_segment_led.scala`) | seven states, counters, two shift registers outside the chip | clock edge | pins | one digit is shifted in while another is shown | the digit shown is whole and alone |
| Video (`video/video_controller.scala`, `dvi_out.scala`) | raster, address and magnification counters, encoder pipeline | pixel clock; draw | video RAM, processor, link | counters that restart at different ends; two clocks | every frame is the picture; the link is balanced and decodes |
| Vendor blocks, board wrappers, generated RTL | | | | | not modelled |

Hard behaviour in short: *concurrency* is the pipeline (five instructions at a
time), the devices and the interrupt line next to it, handler against main loop
in the boot program, the polling driver against the queues it polls, client
against server over a serial line, a program that draws against the scan of the
picture; *failure* is line noise, overrun and calls given up half-way;
*ordering* is the priority of simultaneous events inside one clock edge;
*timeouts* do not exist anywhere (the client waits for ever). Nothing is kept
over a power cycle, so there is no recovery to get wrong.
`PROJECT.json` lists each hazard at its line under "hazards".

## 2. Modules

Five groups. The last column names what a module EXTENDS or INSTANCEs.

| module | models | uses |
|---|---|---|
| `Rv32` | words, instruction classes, the CSR file and the read-modify-write of CSR instructions | |
| `Isa` | abstract: one instruction at a time | `Rv32` |
| `Core` | the pipeline, RAM ports and bus, one step per clock edge; at its end the mapping to `Isa` | `Rv32`, `Isa` |
| `Alu` | the ALU and branch functions on words of W bits | |
| `CoreProofs` | theorems | `Core` |
| `MCCore`, `MCCoreIrq` | instances; `MCCoreIrq` says what programs rely on when interrupts are on | `Core`, `Alu` |
| `IoBus` | words as sets of bits; address decoder, GPIO and UART registers | |
| `Devices` | the same with their state: output ports, switches, both queues; load and store | `IoBus` |
| `Pac`, `PacBook` | the two generations of the register access crate | `IoBus` |
| `Registers` | a program that makes any call of the crate | `Pac`, `PacBook`, `Devices` |
| `UartPort` | receiver's register, queues, interrupt line, transmitter | `Devices` |
| `ByteStream` | abstract: what the UART promises a program | |
| `Driver` | the Rust firmware between the server and the registers | `Pac`, `UartPort` |
| `BootRom` | the C boot program and its interrupt handler | `UartPort` |
| `Board` | either program on the board; the mapping to `ByteStream` | `Driver`, `BootRom`, `ByteStream` |
| `BusLemmas`, `BoardProofs`, `WordProofs` | theorems | `Devices`, `Board`, `Registers` |
| `MCWords`, `MCBoard` | instances; `MCWords` holds the reference for the ALU | `Alu`, `Registers`, `Board` |
| `UartTx`, `UartRx` | transmitter and receiver, one step per clock edge | |
| `Line` | abstract: words in transit, one held for the consumer | |
| `Serial` | both ends on one line, two clocks | `UartTx`, `UartRx`, `Line` |
| `MatrixLed`, `SegmentLed` | the two display scans, with the chips they drive | |
| `DviOut` | the encoder of the DVI link | |
| `VideoController` | the scan of the video RAM, and the processor that draws into it | `DviOut` |
| `PinProofs` | theorems | `MatrixLed`, `SegmentLed`, `VideoController`, `Serial` |
| `MCPins` | instances of the four circuits | `Serial`, `MatrixLed`, `SegmentLed`, `VideoController` |
| `Probe` | the five states of the probe | |
| `ProbeAdapter` | width converter and frame adapter | |
| `Probedec` | the host's frame decoder and row extraction, as functions | |
| `ProbeLink` | probe, adapter, line and host | `Probe`, `ProbeAdapter`, `Probedec` |
| `ProbeProofs` | theorems | `ProbeLink` |
| `FwFrame` | headers, frames, checksums, their reading and writing | |
| `FwReceiver` | the receive state machine over a line | `FwFrame` |
| `FwService` | abstract: a memory that answers requests in order | |
| `FwServer` | `process` with the firmware's handler | `FwReceiver` |
| `FwClient` | the client's calls | `FwFrame` |
| `FwTool` | client and server with a line each way | `FwServer`, `FwClient` |
| `FwProofs` | theorems about receiver, server and client | `FwTool` |
| `MCFwServer`, `MCFwTool` | instances; `MCFwServer` holds the mapping to `FwService` | `FwServer`, `FwTool` |

The operators `Faulty_x`, each next to the `x` it varies, are wrong on purpose:
each is `x` with one plausible slip (a forgotten operand, a flush left out, a
priority swapped); `Faulty_Replayed` and `Faulty_Overtaken` of `BootRom` are what
the core does, without the hypothesis `precise`. No specification uses them. Substituted for `x` they make
the property named in `PROJECT.json` ("mutants") fail, which shows that the
property depends on that line of the code.

### The core

A variable of `Core` is a register of `cpu/Core.scala` under its own name, or an
input of the cycle (`interrupt_in`, `device`); every other lower-case
definition is a wire. `Clock` is one clock edge: the conjunction of `FetchEdge`,
`DecodeEdge`, `ExecuteEdge`, `MemoryEdge`, `WritebackEdge`, `CsrEdge` and
`RamEdge`, each the register assignments of one stage. Where the code keeps one register per
control signal, a stage register holds the decoded instruction, and `CSignals`
gives its signals from the opcode, as the decode table does. The last-connect
order of Chisel is the order of the alternatives (for instance of the sources
of the next program counter). A load is answered by the RAM in the next cycle,
or by a device in any cycle with any word.

The end of `Core` says when an instruction takes effect: in the cycle it leaves
the memory stage. The mapped program counter is the address of the oldest
instruction in flight, the mapped registers are the register file with the
write-back stage laid over it. Under this mapping each clock edge is one step of
`Isa` or a stutter.

Data are abstracted in three ways. A word is one of `NWords` values and the ALU
an operator parameter: control never looks into a word, and `Alu` is checked
separately, bit by bit. Addresses count words. An instruction is a record of
opcode, registers, immediate and CSR instead of 32 bits; one opcode stands for
each row of the decode table.

### The board

A word of the bus is the set of the positions of its ones, so that shifts, masks
and unions of Rust and of Chisel become set expressions of the same shape. A
step of a program is one bus access (with the arithmetic up to the next), a step of the
hardware moves one byte: everything the bus lets happen between two accesses
happens in between. `Registers` makes any call of the crate and so looks at one
call; `Driver` is the firmware's main loop, `Reader` and `Writer` access by
access, and keeps of the server only when `process` calls which of the two
(module `FwServer` has the rest). `BootRom` is `main` of the C program with its
handler. The handler is one step from the jump to `mret`, since it runs with
interrupts off; what is wrong is its entry and its return, as `irq_lost` and `irq_replay` show for
the core (section 6). So `Entry` is one of four: `Between`, as the text of
the program supposes, with `main` going on where it was; `Replayed`, the
instruction in execute is done and after `mret` once more (`last` is the access it
was); `Misled`, the saved pc is that of a flushed instruction, and `main` goes on at the other
side of a branch, or the core leaves `main` for good; `Overtaken`, the jump is lost
and MIE stays clear. **`precise` is the hypothesis that all entries of a behaviour are `Between`**, or as good
as that. Nothing in the repository guarantees it. Every fetch misses once, so
the instruction before an entry is nearly always repeated: without harm if it
changes nothing the second time (a load from the RAM, a branch, arithmetic into
another register), with harm if it is a store to the UART or an increment. Both kinds of
behaviour are in `Board`; what is promised of the boot program names `precise`. The
firmware in Rust enables no interrupt.

The C program's `uart_rx_data` is not `volatile`, so the C compiler may load it at each use, once
in a turn of the loop or once before the loop; `reload` is the choice a build has made.
`pending` and `told` are what a program is sending and believes to have sent.

A byte may come at any moment, but not before the queue took the one before it,
if it had room: two bytes are thousands of cycles apart on the line (`Receive`).
When it has none the new byte replaces the one waiting in the receiver, as in
`UartRx`. `Board` says which bytes come by the constant `Arriving`; the history
`spaced` tells whether the sender waits for each echo. `inReg` (the switches)
does not change while the board's programs run, which do not read it; `Registers` gives it every value.

`ByteStream` is what is promised: bytes are read in the order they came and none
twice, what does not fit replaces the last one, what is written is sent.

### The serial line

`UartTx` and `UartRx` are the two circuits register by register. A step of
`Serial` is a clock edge of both. Two ends with different clocks are two
different numbers of cycles per bit (`dividers`, fixed in a behaviour):
`Tolerable` names exactly the pairs at which each bit is sampled while it is on
the line. Pairs just outside it make `DeliversWords` fail, so the assumption is
no stronger than needed. `InTime` says that the receiver, which sees the line
through its synchronizer, has the last bit before the stop bit ends. With very
short bits and a deep synchronizer it does not (three bits of two cycles behind
four registers), and `InStep` fails; with the repository's eight bits of 234
cycles and two registers it is far within. `Line` is what users of the two circuits may think of:
words in transit, and one place at the end where the next word replaces one that
was not taken.

### The LEDs

`MatrixLed` and `SegmentLed` are the circuits register by register, one step per
clock edge. The segment display hangs on two shift registers outside the chip,
which are part of the model and follow the pins (`Follows`); at power-up they hold
anything. Histories say what the circuit means to do: `lastRow` and `dark`, which
row was lit last and for how many cycles none has been; `next` and `shown`, the
digit being shifted in and the one on display, with the number of digits that
have had a turn since power-up. Before that many turns the digit register still
holds what it came up with.

### The video output

`VideoController` is one step per pixel clock: the raster counters, the address
of the video RAM (each place is shown `magnificationRateH` times in
`magnificationRateV` lines), the output registers, and the encoder `DviOut`
behind them, with pixels and words as sets of bits. The read port of the RAM is
enabled with the data and shows anything otherwise (`fetched`). The processor
has a clock of its own, any of `CpuPeriods` pixel clocks from edge to edge; it
sees the vertical sync through two flip-flops. When it reads it as set it may
draw for `DrawTime` of its clocks, as the boot program draws its boxes; the background was
drawn before. `VideoAssumption` asks that drawing ends within the back porch: 20
lines in the timing of the repository. `AddressAssumption` is a fact of arithmetic,
that there is a power of two from a number to its double; the provers know no law
of `^`. `at` is a display that counts lines from the
vertical sync and columns from the start of the data; `entered` and `balance`
are what came in for the word now sent, and the ones less the zeros sent.

### The probe

`Probe` has one action per state of the circuit, `ProbeAdapter` the converter
that splits a sample into chunks of seven bits and the adapter that puts markers
around them. `ProbeLink` connects them as `cpu/TopWithSegmentLed.scala` does,
with a transmitter that is ready in arbitrary cycles, and with the host: it
opens its port at some time, appends what arrives to `src`, and `Decode` takes
the first frame out of it as `FrameCodec` does. The recorded signal numbers its
samples, so that a window is known by its content.

### The firmware tool

A symbol stands for a field (a 16 or 32 bit number is one symbol), a line is a
sequence of symbols, and reads and writes take any number of them, so frames
are cut at every place. `FwReceiver.Receive(n)` is one call of
`Receiver::receive` whose read returned n symbols; `Process` is one call of
`Server::process`, of which the writer may take a part only. The checksum is an
operator parameter of header and payload: for the proofs any, for TLC a
weighted sum. `FwService` knows neither symbols nor buffers: a memory, the
requests not yet answered and the answers. A panic of the firmware is a state of
its own (`panicked`), after which nothing happens, as in its panic handler.

## 3. Runs

| run | instance and bounds | shows |
|---|---|---|
| `core` | words of 2 bits, 3 registers; every program of 4 instructions over each of three alphabets; a device at address 1 with any reply at any time | refinement of `Isa`, its liveness, the inductive invariant |
| `irq` | 8 words of instructions; a loop whose first two instructions are each one of seven (an addition, a store, two jumps, writes of `mstatus`, `mie` and `mepc`), a handler at 4, the line free in every cycle | entry only while enabled, the handler runs, the program goes on |
| `words` | ALU: words of 4 bits, every pair of operands, 19 functions. Crate: words of 32 bits, six of them as inputs, queues of 2, one call (`MaxCalls`) per behaviour from every state of the queues | agreement with a reference written another way; each call does what it says and no more |
| `board` | queues of 2; 4 bytes arrive; a greeting of 2, responses of 1 and 4 bytes, `MaxRead` 2, at most `MaxAnswers` 5 bytes answered; behaviours that are not `precise` in one kind of build and without waiting for echoes (`MCInit`) | refinement of `ByteStream`; whole responses; the echo; no standstill |
| `pins` | serial: 3 bits per word, dividers 2/2, 4/4, 6/7, 9/8. Matrix: 3 rows, interval 6, guard 2. Segments: 3 digits of 3, dividers 1 and 3. Video: 4x4 pixels out of 2x2 places, porches of 1 to 3 lines, `CpuPeriods` 2 and 3, `DrawTime` 3 | each circuit does at the pins what it is for |
| `probe` | 4 samples, trigger at 2, 5 signal values, two chunks of four values per sample, `MaxSrc` 20 bytes | every frame is the window around its trigger; the probe arms again |
| `server` | buffer of 9 symbols, memory of 4; a write and any two of eleven requests with noise or damaged frames between, or a write with a cut or oversize frame behind | refinement of `FwService`, whole answers, every request answered |
| `tool` | queries, `MaxCalls` 4, `MaxAbandoned` 3 | a call takes its own answer only; on a quiet line it succeeds |
| `irq_lost`, `irq_replay`, `server_longread`, `tool_read` | | disagreements with the documentation, section 6 |

Why these bounds are enough for what they are to show. The pipeline has five
stages: four instructions that wrap around fill it with every sequence of
classes, and three registers give every pattern of dependence, `x0` included.
The alphabets hold one instruction of each class whose control signals differ.
They are three because one alphabet of all would be too large, and the programs
with traps (ECALL, MRET) are those that are `TrapSafe`: no load, and no ECALL
directly behind a write of `mtvec`. Others are not executed as `Isa` does
(section 6). A sample window of
four has samples before, at and after the trigger, and `MaxSrc` has room for the
longest rest of a frame and a whole frame behind it; a smaller one would stop
the host for a reason the code does not have. Three-bit words have a first, a
middle and a last bit, and so have three rows and three digits. Four arriving
bytes are one more than a queue of two and the receiver hold, so that one is lost when
the program is slow; a response of four blocks the writer twice. In the video
instance both magnifications are 2 and the porches differ from each other, so
that each counter restarts at its own moment. In `server` the first request writes the memory, so that
the second and third tell whether it did.

The circuits of `pins` share no state; each has behaviours of its own, in which
the others are at rest. The same is true of the two parts of `words`.

Deadlock is checked everywhere but where the system stops: `words` (one
evaluation or call), the server and tool runs (all requests answered, or a
panic).

**Fairness.** The circuits have weak fairness of the clock edge, and nothing
else of their own: the clock runs. `core` assumes in addition that a device that
is asked again and again answers at some time (the bus has no timeout, so
without it a load may wait for ever, as in hardware). `irq` assumes of the line
only what a property states in its premise. `probe` assumes that the transmitter
is ready again and again (`Serial` shows that it is) and that the host decodes
what it can (`reader.next().await` in a loop). `board` has weak fairness of the
program (the processor runs), of the entry of an interrupt (the core decides it in
every cycle in which interrupts are enabled and the line is high), and of each queue's clocked
logic; nothing makes a byte come. That an entry runs the handler is no matter of fairness:
with `Overtaken` it does not, and what rests on the handler says `precise`. The server has weak fairness of
`Process`, which the firmware's main loop calls for ever; the client of its
`ClientReceive`, which the executor polls when there is something to read.
Nothing makes a caller call, or drop a call, and no fairness makes a stalled
call return.

## 4. Properties

*Core.* `ImplementsIsa` is the main one: every mixture of fetch bubbles, load
stalls, register hazards, taken branches, traps and returns executes the program
instruction by instruction. The machine is the manual's but for ECALL, where `Isa`
follows the code (section 6). `KeepsExecuting` adds that it does not stop.
`OperandsCurrent`, `HazardsStalled` and `ResultsCurrent` are why: they are the
conjuncts of the inductive invariant. `MaskRespected`, `HandlerRuns` and
`ProgramResumes` are about interrupts, of programs without loads that clear no enable;
`ProgramResumes` is for interrupts that are spaced apart (history variable
`spaced`), as bytes on a serial line are, and for entries that no write of
`mstatus` takes back (`EntryStays`).

`AluAgrees` compares the functions of the execute stage with the manual's, bit by
bit and through equations between them.

*Registers.* `FieldsWritten`: a field written through the crate arrives at the
pins of its own port, and `modify` keeps the bits around it. `CallsStayLocal`: no call
changes a port or a queue it does not name; `txd` and `rxd` share an
address, a load of which takes a byte. `ReadersTell`: flags, data, ports and
switches are read as they are. `CratesAgree`: both generations of the crate send
the same words and extract the same fields.

*Board.* `ImplementsStream` is the refinement of `ByteStream`: the loads that
test the status take nothing, those of the data take a byte that is there, no
store finds the queue full. `ResponsesWhole` adds that what is sent, queued and
still to be written is all responses one after the other. `LedsTurn` and
`Drained` say that neither program comes to a standstill with the other end:
the firmware's loop turns whatever the UART does, and what has come is read in
the end. `EchoInOrder` holds at whatever places between instructions the interrupts fall and however
`uart_rx_data` is loaded; `EchoComplete` for a sender that waits, unless the
build loads it once only. For the boot program all four but `LedsTurn` are under `precise`, and each
needs it: with `Faulty_Replayed` in the place of `Replayed`, that is with entries
that repeat an access in every behaviour, `EchoInOrder`, `ImplementsStream` and `EchoComplete`
fail (a byte goes out twice, into a queue that may be full); with
`Faulty_Overtaken` in the place of `Overtaken`, `Drained` and `EchoComplete` do.

*Serial.* `DeliversWords` is the refinement of `Line` with its liveness;
`InStep` says that at most one word is on its way, which is what lets the
transmitter start a word the moment the last one ends.

*LEDs.* `RowsApart`: at most one row is lit, with its own columns, and two guard
intervals lie between it and any other. `DigitIsWhole`: what is shown is one whole digit,
although the next is being shifted in. `DisplaysRefreshed`: every row and every
digit has its turn again and again.

*Video.* `PictureShown` relates the display's own count of lines and columns to
the place of the video RAM it shows, for whole frames, with a program that draws.
`LinkDecodes`: a display gets back every byte and sync from the words, and
control words are none of data. `Balanced`: ones and zeros are never more than
eight apart.

*Probe.* `WindowHeld` follows one window while it is sent. `FramesAreWindows` relates what the host decodes to the moment of the
trigger through five handshakes; `KeepsReporting` excludes that the chain locks
up.

*Firmware tool.* `ReadFits` and `TypeOK` keep every read inside the receive
buffer; `AnswersWhole` relates what is on the line, what is pending and what was
answered; `ImplementsService` is the refinement; `EveryRequestAnswered` its
liveness. `AnswerIsOwn`, `QuietCallSucceeds` and `QuietCallReturns` are about a
client whose calls may be dropped in the middle of a frame.

## 5. Proofs

The theorems hold for every value of the constants that the named assumptions
allow.

`CoreProofs`: **TypeCorrect** is type correctness. **ForwardingCorrect**,
**OperandsCorrect** and **StallsCorrect** are `[]ResultsCurrent`,
`[]OperandsCurrent` and `[]HazardsStalled`: for every word size, number of registers, program, ALU,
device and pattern of interrupts. `ResultsCurrent` alone is not inductive: that the
result is right in the memory stage follows from the operands being right in the
execute stage one cycle earlier, and that these stay right while the instruction
ahead completes follows from that instruction not writing them. So
`PipelineInv == TypeOK /\ OperandsCurrent /\ HazardsStalled /\ ResultsCurrent`.
The proof of its step splits on the memory stall: in a stall nothing visible
moves (`StallKeepsRegs`), otherwise the registers a program sees change only at
the destination of the instruction in the memory stage (`OthersKeepRegs`), and
decode has read what they will be (`DecodeReadsNext`).

**ProgramsExecuted** is the refinement of `Isa`: with the interrupt line low, for
every program that is `TrapSafe`, a clock edge is a step of the instruction-set
machine (with the ECALL of the code) or changes nothing a program sees. A program without ECALL and MRET is
always `TrapSafe`; one with them must have no load and no ECALL directly behind a
write of `mtvec`, since the core does differ then (section 6). The invariant is `FlowInv`: `PipelineInv` with
`ProgramOrder` (decode, execute and memory stage hold consecutive instructions of
the program's own path, apart from what a jump in execute is about to flush),
`TrapsApart` (in a program with traps a bubble is between any two instructions,
except those of an ECALL that is its own handler, so that none ever stalls) and `LoadAnswered` (an answer of the RAM is the word
that the load in the memory stage asks for). Where a branch goes depends on
`AluOut`, of which the proof uses only that the ALU adds (`AddAssumption`). Two
things are special to traps. What follows an ECALL is at the vector that fetch read,
three stages before the ECALL is executed; `VectorStays` shows that no write of
`mtvec` comes between. And MRET takes effect when it leaves the execute stage, all others
when they leave the memory stage (`Pending`, `Returns`): the two never happen at
one edge, because of the bubble between them.

**MaskCorrect** is `MaskRespected`, that an interrupt is entered only while it is
enabled. The line is sampled a cycle before the entry, so the property is false
of software that clears an enable meanwhile, or returns from a trap with MPIE
clear. The hypotheses say what is left: `EnablesOnlySet`, the programs set enable
bits and clear none (their CSR writes of `mstatus` and `mie` are CSRRS), and
`[]MretEnables`, MRET is executed only with MPIE set. The runs `irq` and its
relatives use such programs. `EnablesHeld` is the invariant: no instruction in
the pipeline clears an enable, and an entry that is pending has both set.

`FwProofs`: **ReceiverCorrect** and **ServerReceiverCorrect** are `[](TypeOK /\
ReadFits)` of the receiver alone and in the server, for every buffer size,
checksum and stream. The invariant `ReceiverInv` says of each state how much it
has read and how long its header may be: what is left to read is then positive
and fits behind what is there (`WantedFits`).

**AnswersCorrect** is `[]AnswersWhole` for every buffer, checksum, stream, handler
and way the writer cuts an answer. What was answered is flattened by a recursive
function; the library's rules for induction take an operator, but the existence
of a least element (`WFMin`) gives induction over a set of naturals
(`NaturalsFromZero`), from which `FlattenUnique` and `FlattenAppended` follow:
one more answer is appended to what is flattened. Then writing moves a prefix of
what is pending to the line (`WrittenOn`), and an answer is only built when
nothing is pending.

**ServiceCorrect** is the safety part of `ImplementsService`: on a clean stream
(`CleanStreams`) the server implements `FwService`, for any number of requests, every
memory, buffer and checksum, and every cut of reads and writes. A clean stream is a
sequence of pieces, each some noise without a marker and then a frame, intact or with
a damaged payload or checksum. Other streams are out of the hypothesis for a reason: a
stray marker makes the receiver parse what follows it, and a frame that does not fit the buffer
is discarded, with whatever a wrong length makes of the bytes behind it (both are in
`server`, whose streams between two requests are all clean). `Serviceable` leaves
out reads outside the memory of a length between the code's two limits, which are
refused with another code than `FwService` gives; inside it they are among the panics (section 6). `ServiceInv`: what the
receiver has and what is on the line are together noise and the pieces not yet
read (`BeforePiece`), or the rest of a payload and those pieces (`InPiece`).
`HeaderOn` and `PayloadOn` say what one read makes of it; `RangeTest` that the handler's test
of a range, an addition modulo 2^32, tells what is outside unless it panics.

**QueriesSucceed** is `[]QuietCallSucceeds` when all requests are queries
(`QueriesOnly`; a request with a payload is never answered, section 6, and neither
is one longer than the buffer). `QuietInv` follows a call over a quiet line through
three stages, for every cut: its header arrives in pieces (`HeaderArrives`), its
checksum is awaited (`ChecksumArrives`), the answer is on its way back in pieces
(`AnswerArrives`).

**AnswersAreOwn** is `AnswerIsOwn` of the same tool: a call that succeeds has read the
answer to itself, whatever calls were dropped before it and wherever in a frame,
for every checksum, buffer and version. Its hypothesis is that no number of a frame
has come round (`calls <= Numbers`; `tool` makes as many calls as there are numbers).
It is needed: a call that is dropped before it has read anything leaves its answer on
the line, and if the calls behind it are dropped in the same way, the first that gets its
number again takes it. `OwnInv` reads both lines as
stretches of two fixed streams, all queries one after the other (`Upstream`) and all answers
(`Downstream`): the server is `5 * m + k` symbols into the one and has put `7 * m` into the other,
the client is `taken` symbols into it, and what it has of a frame is the stretch before that.
A call may start in the middle of an old answer, so the theorem rests on `HeadersAlign`: nothing in
`Downstream` reads as a header but the header of an answer, even where a version or a
checksum looks like a marker, because a marker is not followed there by a type, a
length and the rest. So a header accepted is one of an answer, its number says of which call, and
the checksum behind it is that answer's last symbol. Nothing is assumed of what a
checksum detects, because these lines damage nothing.

`BoardProofs`: **BoardTypeCorrect**, **FlagsStayTrue** (what a program has read
from the status is still true when it acts on it), **ResponsesCorrect**
(`[]ResponsesWhole`) and **StreamCorrect** (every step of the board is a step of
`ByteStream` or a stutter), for queues of any depth, any bytes, responses and
greeting. The inductive invariant is `IInv == TypeOK /\ StatusFresh /\ Position
/\ EchoBytes /\ ResponsesWhole`: `StatusFresh`, because the ready flag is tested
one access before the data is loaded or stored, and only the program's own access can make it
false; `Position`, so that an index into what is being sent is in range, also when an
entry repeats the store before it;
`EchoBytes`, so that what the boot program sends is a byte. `BusLemmas` says
what each load and store does to queues and ports (**DataLoad**: a load of the
data register takes the oldest byte and no other).

Behaviours that are not `precise` are in the theorems on types, flags and responses; of the
room to send, `StatusFresh` says nothing in them. `StreamStep` is proved of
`Plain`, the refinement without `Promised`, under `precise`.

**EchoCorrect** is `[]EchoInOrder` of the boot program, whichever way its build
loads the shared variable and at whatever moments the interrupts fall, if they
fall between two instructions: `precise` is its hypothesis, which this core does not keep
(section 6). `EchoInv`: what has been echoed comes, in order, from
the first `m` bytes given to the handler, for some `m`, and whatever copy of the
variable is echoed next comes from a later one. The interrupt handler may put a
new byte at any point, which leaves an embedding as it is (`EmbedsLonger`).

`WordProofs`: **FieldsReachPorts**, **CallsAreLocal**, **ReadersAreRight** and
**CratesAreEqual** are the four properties of `words` about the crate, for every
word, depth and contents of the queues; **RegistersTypeCorrect** is the types
they need. **AluCorrect** is `[]AluAgrees`, for words of any width. `WordsInv` is
that the answer given is that of the question asked; the rest is arithmetic, a lemma
for each group of functions. Sums leave the word by one turn at most (`WrapNear`). Bits are
sets, so the bitwise functions are set operations (`BitIsMember`), and the target
of JALR is the sum less its lowest bit (`LowBitCleared`). A shift by n places and n shifts by one place are
two functions that start alike and take the same steps (`SameSteps`, by the least
place at which they differ): doubling before or after wrapping (`DoubledWrap`), halving
before or after dividing (`DivideTwice`), halving the number or the word with its sign copied
(`HalfOfSigned`). `BinaryAssumption` says what is taken of numbers: powers of two
double, and a word is the sum of the powers at its bits and has no other bits. TLC
evaluates it on the instance.

`PinProofs`: **MatrixCorrect** (`[]RowsApart`, for any number of rows and any
intervals), **SegmentsCorrect** (`[]DigitIsWhole`, for any number of digits and
segments, dividers, polarities and anything in the chips at power-up) and
**LinkBalanced** (`[]Balanced`, for every stream of pixels and syncs). `MatrixInv`
gives `dark` as a function of the counter. `SegmentInv` says in each state which
bits of the pattern have left the shift register and where in the chip they are.
`DviInv` adds that the count is even, without which the cases of the encoder
do not keep it within eight. **LinkCorrect** is `[]LinkDecodes`: the chain of
exclusive ors over the eight bits of a byte is unfolded bit by bit, for both
chains, and taken back by the decoder; the four control words are none of the
codes. `LinkInv` says what the pipeline stages hold.

**InStepCorrect** is `[]InStep` of the serial line, and **WordsDelivered** its
refinement of `Line`, the safety part of `DeliversWords`, for every pair of
dividers within `Tolerable` and `InTime`, any word size and any depth of the
synchronizer. In `SerialInv` the line is in one of three situations: `Between` frames, `Coming` (the edge
of the start bit is still in the synchronizer) and `Reading`. `Age`, the cycles since
the transmitter took its word, ties the two circuits together: what a
synchronizer register holds was on the line `Seen(i)` cycles into the frame
(`FrameSeen`), and `Age` plus what the receiver still counts is a constant of the
frame. So each sample falls into its own bit (`SampleIsRight`, nonlinear in the
two dividers).

**PictureCorrect** is `PictureShown` for every resolution and timing, every
magnification that divides it, every ratio of the two clocks and every program
within `VideoAssumption`. `ScanInv` gives the address counters as quotients and
remainders of line and column, so that it also says that they are back at zero at
the end of line, picture and frame. `DataInv` says which places the two registers
behind the video RAM hold and `DisplayInv` how far the display has counted.
`DrawInv` is why the picture is left alone: the clocks the program may still draw
for (`Clocks`, which is large while the sync is still in its flip-flops) and the time
since the sync ended together never exceed the time of a whole drawing, so in the
first line of the picture nothing is left (`LeftAlone`).

`ProbeProofs`: **WindowCorrect** is `[]WindowHeld` for every depth, trigger
position and signal. `ProbeInv`: while the probe waits the queue holds exactly
the last `triggerPosition` samples, and afterwards the trigger is behind them.
**FramesCorrect** is `FramesAreWindows`, from the trigger to the rows the host
decodes, for every depth, trigger position, signal, width of a sample, and for
every host and line. Its invariant follows a chunk through the chain. `SampleInv`
names every sample in the queue by its distance from the trigger (`At`).
`Taking`, `Splitting` and `Coming` say, from the probe to the adapter, which
sample or chunk of which window each handshake gives next: a window may still be
on its way while the circuit behind it is armed again, which is why they carry
the trigger of the frame (`t`) beside the one of the probe (`trig`). `FrameInv`
adds where the adapter is in a frame, and with it how many bytes the host is
still owed of the last frame it saw the begin of; `Delivered` says of the bytes
it has that, behind what it missed the begin of, they are whole frames of what it
expects but for these. `FrameDecoded` is the decoder: the first markers it finds
are those of the first such frame. The one fact of numbers that is assumed is
`DigitsAssumption` (a sample is the sum of its digits to the base of a chunk): the
provers know no law of powers and cannot do the induction over the digits. TLC
evaluates it on the instance, and it says nothing of the circuit.

Only model-checked: the server on streams that are not clean; interrupts apart from
their mask (`HandlerRuns`, `ProgramResumes`); the fairness parts of `Line` and `ByteStream`
and all other liveness (the prover has no rule for `ENABLED`). TLC has checked the
inductive invariants on the instances too.

## 6. Disagreements between the code and its documentation

Each is a run of its own that TLC refutes; `PROJECT.json` quotes the lines.

1. `irq_lost` (`cpu/Core.scala:296`): an interrupt that is entered in a load
   stall changes the CSRs, but its jump is overtaken: the handler does not run and
   interrupts stay off. The boot program is a loop of loads: when this happens to
   it, it never reads its queue again (`BootRom.Lost`; `Drained` and `EchoComplete` need
   `precise`).
2. `irq_replay` (`cpu/Core.scala:335`): the instruction whose address is saved is
   not cancelled; it is executed before the handler and again after it. A load
   that takes a byte from the UART takes two; when it is the store of `uart_tx_byte`
   in the boot program, the byte goes out twice, into a queue that was only tested for one
   (`BootRom.Again`; `EchoInOrder` and `ImplementsStream` need `precise`).
3. `server_longread` (`server.rs:91`): a read of a few bytes more than the
   announced maximum is not refused and panics.
4. `tool_read` (`client.rs:72`): requests with a payload are sent without their
   checksum, so the server drops them and the call waits for ever.

Further observations, without a run:

* A frame longer than the server's buffer is discarded for ever
  (`receiver.rs:107`): each read restarts the count at zero and is shorter than
  the frame, so the count never reaches its length and all later requests are
  swallowed. The comment at `receiver.rs:69` says "discard all data of the frame
  and retry". A stream with such a frame before a request makes
  `EveryRequestAnswered` fail.
* An ECALL that is fetched while an older load stalls jumps to the trap vector
  but is lost (`cpu/Core.scala:131`): `mcause` keeps its old value. An ECALL directly
  behind a CSR write of `mtvec` jumps to the old vector, which fetch reads before the
  write is executed. Each makes `ImplementsIsa` fail without its condition in `TrapSafe`.
* `mret` reads `mepc` in the execute stage (`cpu/Core.scala:329`): directly
  behind a CSR write of `mepc` that waits behind a load it takes the old one.
* An interrupt taken while the pipeline refills saves the pc of a flushed
  instruction (`cpu/Core.scala:335`): one behind a branch that was taken, or of
  the handler when a byte waits at its `mret`. The boot program then goes on at the
  other side of the branch, or returns from its handler to the handler
  (`BootRom.Misled`, outside `precise`).
* An ECALL sets `mcause` and jumps, and saves nothing (`cpu/Core.scala:131`, `262`): `slide_1.md:1590`
  and `1633` say that `mepc` is the pc of an exception, and the manual also
  moves MIE to MPIE and clears it. `Isa.Ecall` is the code's, so `ImplementsIsa`
  does not tell; with the manual's in its place TLC refutes it in `core`.
* An entry does not hold against a CSR instruction that writes `mstatus` in
  its cycle (`cpu/Core.scala:406`) or is the one replayed behind it: interrupts
  stay enabled in the handler, and if the line is still high it is entered again
  and `mepc` lost. `ProgramResumes` fails without `EntryStays`. A write of
  `mstatush` (line 410) takes back MIE and MPIE in the same way; `EnablesOnlySet`
  admits it, `EntryStays` excludes it, and no program of the runs has one. The reserved bits
  of `mstatush` move up by one at each write of it or of `mstatus` (`CSR.scala:73`), which is left out.
* An interrupt is decided in decode (`cpu/Core.scala:160`) and entered a cycle
  later, possibly behind an instruction that has just cleared MIE: with such a
  program `MaskRespected` fails.
* With `triggerPosition = 0` the probe puts a trigger that is not in its first
  waiting cycle at index 1 (`diag/probe.scala:112`): the parameter's comment says
  it is the position of the trigger. `WindowHeld` and `FramesAreWindows` fail
  then, and `ProbeLinkAssumption` excludes 0. The repository uses 512 - 16.
* `UartTx` cannot send words of six bits, or any size two less than a power of
  two (`uart/UartTx.scala:19`): the count is cut to zero. The repository uses
  eight.
* `UartRx` sets `overrun` also when a word comes in the cycle its predecessor is
  taken (`uart/UartRx.scala:55`); no top connects the output.
* `cpu/TopWithMultpleGpio.scala:35` passes clock frequency and baud rate to
  `UartTx`, whose parameters are word size and divider.
* The C boot program loses a byte that comes between its test and its clearing of
  `uart_rx_data` (`bootrom.c:171`), and the variable is not `volatile`: a build that
  loads it once echoes nothing. `EchoComplete` has both as premises. Its `led_out`
  is shifted without a mask and gathers ones above the six LEDs.
* `init()` is commented out in the start code of the Rust firmware
  (`sw-rs/src/main.rs:64`), so that `DEVICE_PERIPHERALS` is false only if the RAM comes up zero.
* `reset()` of `txd` sends a zero; `read()` and `modify()` of either data register
  take a byte.
* The firmware in `eda/cpu_riscv_chisel_book` is linked at 0x80000000 while its
  `Top` starts at 0 and has no UART.
* The guard of the LED matrix is one cycle longer before the turn than after it;
  a guard of 0 never restarts the counter (`display/matrix_led.scala:33`).
* `segmentUpdateCounter` has too few bits for a divider that is a power of two
  (`segled/multi_segment_led.scala`), and until each digit has had a turn those not
  selected show what the chips came up with.
* The video counters run up to their total inclusive
  (`video/video_controller.scala:106`): 1651 by 751 clocks instead of the 1650 by
  750 of the timing that `TopWithHDMI.scala:61` cites; `SimpleTestPatternGenerator`
  subtracts one.
* The pixel at the output is masked with the enable of the clock before
  (`video/video_controller.scala:131`): the picture is a pixel late, its first
  column undefined and its last black. `PixelInPlace` says so.
* The HDMI boot program waits for the level of the vertical sync, not for its edge
  (`bootrom.c:117` of `eda/cpu_riscv_chisel_book_hdmi`): that it draws sixty times a second, as its comment says,
  holds only if drawing takes longer than the pulse.

## 7. Not modelled, and why

* *Core, memory and CSRs*: the byte lanes of loads and stores, the second
  instruction bus, and the CSR fields other than those the core tests. All are
  functions of one access that no control depends on.
* *Firmware*: `read_line` and `write_str` of the Rust driver and `ArrayProxy` of the
  register crate, which nothing calls; the display output of the boot program,
  on which nothing else depends, and in behaviours that are not `precise` the arithmetic
  between two accesses that is done twice (a counter, the pointer into the
  greeting) and what is executed outside `main`; of the HDMI boot program
  everything but when it draws: the drawing of the background, and `copy_from_vram`. The crates of the stepper and ethernet boards are the same text as the one
  modelled.
* *Video*: `simple_tpg.scala`, `test_pattern.scala` and the signal generators beside
  the controller, which no board uses with a processor; loads from the video RAM
  (`copy_from_vram` of the HDMI boot program saves the background of a box with them; they change nothing a display sees); the HSYNC and DE bits of the status.
* *Boards*: pin wiring, the sequencing of resets, the counter that divides the
  clock to step pulses; vendor primitives, which are black boxes; elaboration and
  the generated RTL, which comes from the sources modelled.
* *Probe decoder*: splitting a row into several signals, the nibbles a row is printed
  by (`get_nibble`; `FramesAreWindows` takes the bits of a row for a number), and files.
* *Environment*: noise between two `UartRx` samples (the circuit does not detect
  any; damage to frames is an input of `server`), and whether bytes survive the
  restart of a host tool, which is up to its operating system.

## 8. What is left

1. Byte lanes of `Memory.scala` and `Core.scala`, the views of `CSR.scala` and the
   nibbles of `probedec`, as functions checked against a reference.
2. The HDMI boot program in full, drawing from its own background.
