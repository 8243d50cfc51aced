# HardFuzz in TLA+

HardFuzz injects hardware faults (SPI bit flips, I2C clock stretches, CAN corruption) between an
FPGA and a device under test (DUT), and decides whether the DUT's firmware coped. This directory
holds TLA+ models of it, the TLC configurations that check them and TLAPS proofs about them.
Source paths below are relative to `src/`.

    phone app --BLE--> ESP32 controller --+--UART--> ctrl_regs -> SPI / I2C injector --bus--+
                                          |                                                 |
    host CLI (hardfuzz run) --------------+--UART--> STM32 (main_multi.c) ------------------+
                                                       `-> RESULT line back

Either the host CLI or the ESP32 is the controller; both use the same C++ headers. `arm.py` is a
third way to the registers, by hand. The board all this runs on is generated by Python programs:

    sheet scripts --> build_board.py (kigen.py) --> .kicad_sch --KiCad netlist--> kigen_pcb.py
                                                        |                             |
                                                     /tmp/n.xml ----> pcb_layout.py <-+ .kicad_pcb

## 1. Inventory

| component | state it keeps | operations | what makes it correct |
|---|---|---|---|
| **register port**: `rtl/ctrl/ctrl_regs.v`, `host/include/hardfuzz/{reg_client,transport}.hpp` | FSM state, latched address, 8 registers, write strobe; host input buffer | 'W' addr data, 'R' addr, one reply byte, host timeout | writes land whole and in order, a read gets its own answer, the FSM finds its way back after a line error |
| **UART and bring-up echo**: `rtl/uart/`, `rtl/hardfuzz_top.v` | synchronizer, bit timers, shift registers, the byte to echo | receive, send, echo, reset | with clocks that differ, each byte is delivered once and as sent; the echo loses none |
| **host engine**: `campaign.hpp`, `coverage.hpp`, `dut_serial.hpp`, `hardfuzz_cli.cpp` | pending scenarios, coverage map, results | schedule, arm, settle, run, read, disarm, evaluate | order by coverage, no torn arming, disarmed after every scenario, each verdict from its own transaction, `run()` returns |
| **combined bitstream**: `rtl/multi_inject_top.v` | registers 0..4 (enable/clear, a, b, protocol), counters | decode registers, select protocol | only the armed protocol injects |
| **DUT firmware**: `firmware/src/main_multi.c` | selected protocol, one-byte receiver, button, bus transaction | 'S' 'I' 'C' 'R', button, `run_spi`, `run_i2c` | one RESULT line per transaction |
| **SPI slave and flipper**: `rtl/spi/spi_slave.v`, `inject/bitflip_inj.v`, `spi_inject_top.v` | shift registers, bit and frame counters, flip count | CS edge, SCLK edges, clear | aligned with the master after any aborted transfer; exactly the armed bit flipped, counted once |
| **I2C slave and stretcher**: `rtl/i2c/i2c_slave.v`, `inject/timing_distort.v`, `i2c_inject_top.v` | synchronizers, FSM, bit/byte counters, stretch timer and count | START, STOP, shift, ACK, stretch | aligned after repeated START/STOP anywhere, only our address acknowledged, the stretch after the armed byte and ended |
| **CAN corruptor**: `rtl/can/frame_corrupt.v`, `can_inject_top.v` | bit tracker, idle counter, counts | SOF, end of frame, force | position right from SOF on, exactly the armed bits, bus let go |
| **ESP32 controller**: `firmware/esp32/main/` | `g_campaign`, `g_campaign_buf`, `g_running`, `g_cov`, tasks | GATT writes (chunk, end marker, START, STOP, arm), `campaign_task`, notifications | START runs what was pushed, running flag always lowered, tasks end, verdicts right |
| **phone app**: `app/lib/` | screen, picked campaign, results, status | connect, push, start, stop, manual arm, listen | the app ends up with the whole result set |
| **arm.py**: `host/arm.py` | none but the port's input buffer | arm, i2c, can, disarm, clr, status, each a script of register accesses | an enabled injector has a whole target, `clr` keeps the enable bit |
| **schematic generator**: `hardware/hardfuzz_v1/gen/{kigen,build_board,*_sheet}.py` | parts, global nets, the sheet files | add, check, autofit, write; build all sheets, or one alone | what `check()` calls clean does not touch, what is drawn fits the paper, pins of one name are one net across sheets and nothing else is |
| **board generator**: `gen/kigen_pcb.py` | shelf position, parts placed | netlist, place, write | no overlap, everything on the board, nets on the pads |
| **board layout**: `gen/pcb_layout.py` | the board file between four processes, `/tmp/n.xml` | place, zones, fill, holes | a whole chain leaves a consistent board, whatever earlier chains left |

Also in the repository and not behaviour to model: report formatting, the campaign
generators, single-protocol firmware (the two halves of `main_multi.c`), `pulse_meter` (no top
instantiates it), testbenches, documents and build scripts. `PROJECT.json`
lists them all with the reason.

**How the parts interact.** Commands to the FPGA and to the STM32 travel on two independent
serial links with no common ordering; register writes are never acknowledged. The RESULT line is
the only way back from the DUT, and it does not say which scenario it belongs to. On the ESP32 the
NimBLE host task runs the GATT callbacks, and each START creates a FreeRTOS task that shares plain
globals with them. The app keeps notifications only while a screen is subscribed. The board's
generators talk through files only: six sheets and a root that one program writes one by one and six
others write singly, two netlists exported at different times, and one board file that four processes
in turn load and save.

**What is hard here**: run commands overtaking arming writes; a late or unasked-for RESULT; the
button starting a transaction of its own; bytes lost or made up on a line with no framing and no
timeout; START while a stopped task still runs; a campaign replaced under the task that indexes it;
a chip that reboots on an uncaught exception with the injector armed; a connection lost in the
middle of a push; aborted bus transactions; counters that move on different edges; the corruptors
hearing themselves; a program stopped between two of its five register writes, or between two of its
files; a check that samples what it should compare; two UART clocks that drift apart within a byte; a shelf or a block that grows after its
neighbour was placed. `PROJECT.json` "hazards" has each at its line with the properties that guard it. A hazard without a property is one that the code really
meets, or that the model leaves out; its note says which.

## 2. Modules

    RegLink  <--refined by--  CtrlRegs  <--EXTENDS--  ArmCli   (+ MCArmCli)
    Rig  <--EXTENDS--  Campaign                    (+ MCCampaign, CampaignProofs)
    Rig  <--EXTENDS--  EspController <--EXTENDS-- Standalone   (+ MCStandalone,
                                                        StandaloneProofs)
    Rig  <--EXTENDS--  RigProofs <--EXTENDS-- CampaignProofs, StandaloneProofs
    SpiInject  (+ MCSpiInject, SpiInjectProofs)
    I2cInject  (+ MCI2cInject, I2cInjectProofs)
    CanInject  (+ MCCanInject, CanInjectProofs)
    UartEcho  (+ MCUartEcho)
    ArmCli, UartEcho  <--EXTENDS--  SerialProofs
    Kigen  <--EXTENDS--  BoardSheets  <--EXTENDS--+
    KigenPcb  <--EXTENDS--  PcbLayout  <--EXTENDS-+- BoardBuild   (+ MCBoard)
    BoardBuild  <--EXTENDS--  BoardProofs

**RegLink** is the abstract register port: commands carried out whole, once and in order, one
strobe per write, one byte per read. **CtrlRegs** is the port byte by byte: one action per FSM
state of `ctrl_regs.v` (`S_IDLE` ... `S_R_SEND`, each chosen by the byte received), `Deliver` for a
byte arriving, `LoseByte`/`SpuriousByte` for a bad line, `HostWrite`, `HostRead`, `HostRecv`,
`HostTimeout` for `RegClient` over `SerialTransport`. `want` (the file as the host wrote it) and
`dirty` (commands a line error may still upset) are history.

**Rig** is the bench behind both controllers. The register port is used at RegLink's level, `link`
being the writes on their way; what RegLink promises is exactly what CtrlRegs is shown to
implement. The five registers hold real byte values, so a torn setting is a real wrong setting
(`Injecting` decodes the registers as the bitstream does; `Wants` is what a scenario asks for). The
STM32 has its one-byte USART register (a second byte overruns it), the main loop's two branches,
and a transaction cut at the slot where the injection strikes. `Shows` says which settings this
firmware reports.

**Campaign** is `CampaignRunner::run()` cut where it waits: pick and arm, settle, send, read,
record. `--dry-run` is the other start. **EspController** is `campaign_task` as a record per task,
the GATT callbacks, notifications, and the reboot when a callback throws. A step ends wherever
another thread may come in. Reading `g_campaign` through a reference that was replaced is undefined;
`Deref` chooses any fault, and an index out of range may trap. **Standalone** adds the screens of
the app. A task is `calm` if START found no other task and the bench at rest (`AtRest`: no command,
transaction or RESULT line of an earlier task is under way), and as long as no other task, push or
manual arm crosses it.

**SpiInject** takes an edge on a pin as a step (the FPGA clock is fast enough to see each one), with
the read value of MISO taken by the master at the rising edge. **I2cInject** and **CanInject** go
clock by clock, since there the delay of the synchronizers decides what is START, STOP and data, or
which frame is seen. The master, or the transmitter, moves between clocks and is not asked to be
well behaved beyond the bus's own rules: it may give a byte up after any bit, restart or stop; it
waits for a stretched clock. Frames of CAN have any bits without an idle-long recessive run.

**UartEcho** is `hardfuzz_top.v` a clock per step: every register of `uart_rx`, the echo and `uart_tx`
takes its next value from the old ones. At the wires stands the host of `tb_uart_echo.v`, sender and
receiver, but with bits of its own length (in parts of a clock), begun anywhere between two edges
and as soon as the stop bit is over, and with low pulses too short to be a start bit. `owed` and `due`
are the bytes on their way in and out; `calm` goes down at a reset and up when all is at rest. Outputs
without an initial value are those of the two builds: `valid` and `busy` count as low in the
simulation and are low in the FPGA, `tx` is either.

**ArmCli** puts `arm.py` on CtrlRegs, byte by byte. `Script` is what `main()` sends for a command;
`reg_write`, `reg_read`, `Recv`, `NoResponse` are the two helpers cut where they wait; `Interrupt` is
Ctrl-C between any two of them. One timing assumption: Python's start, and the 5 ms after a write,
outlast what is on the line (three bytes take a quarter of a millisecond). `last`, `over` and `skew`
are history.

**Kigen** is `kigen.py`: pins by unit and parent symbol, snapping, stubs, labels and where their texts end, `check()`,
`autofit()`, in whole hundredths of a millimetre; and KiCad's side, external: bodies that touch are
one net, equal labels of a sheet are one, global labels and power pins are one everywhere (`PinNets`).
**BoardSheets** is what the six `populate()` functions add, and the FPGA's balls by name.
**KigenPcb** is `kigen_pcb.py`, a step per part placed; **PcbLayout** is `pcb_layout.py`, a step per
pass. **BoardBuild** composes them over the files: who wrote each sheet, the root, the netlist's two
exports, the board file. Programs start in any order the bounds allow and may be stopped.
Who wrote a sheet decides its text, so `sch` keeps the writer and `File` has the text.

Names follow the source; `PROJECT.json` "map" gives the lines each definition translates.

## 3. Runs

| run | question | bounds |
|---|---|---|
| `ctrl_regs` | on a quiet line, is the byte protocol RegLink; do reads return the last write, and always return? | 2 registers, addresses inside the file, outside it and in the status page, data that is also a command code, 3 commands on the line, so a command is always being sent behind the one received |
| `arm` | `arm.py`'s programs by hand, with a byte lost or made up: does the FSM find its way back, are targets whole, does `clr` keep the enable bit? | 5 registers; two SPI targets that differ in every byte, one I2C, one CAN, `disarm`, `clr`, `status`; 3 programs, so that one meets what two others left; 1 line error, in any of them; data that is not a command code |
| `campaign` | schedule, arming, disarming, verdicts and termination of `run()` | up to 3 scenarios, repeats included; one button press; DUT alive or dead; live or dry |
| `uart` | is every byte delivered once and as sent, for hosts as close together as they can send; every echo right; all well again after a reset? | bits of 10 clocks; hosts 2.5% fast and slow (the real ones differ by 0.16%) without a pause, in quarter clocks, low pulses of up to 4 clocks; a host with a second stop bit, 1 reset; two bytes |
| `spi` | alignment, exact flip, exact count for targets inside a byte | 3-bit bytes, 3 frames then wrap: first, inner and last bit; any number of transactions, resets, re-arms |
| `spi_count` (finding) | does the counter count injections for every target? | the same |
| `i2c` | alignment, acknowledgement, stretch placement, count, no own START/STOP, no hung bus | 2-bit bytes (one address bit and R/W), byte index wrapping at 2, so address byte, target and wrap all occur in 3 bytes; stretches of 0 and 4; HALF of 4 clocks, the least that works |
| `can` | tracking, armed bits, counts, bus let go | 5-clock bits, idle after 3 bits, frames of up to 4 bits: window at the start, inside, and past the frame's end where the bus is just found idle; every gap from the least one |
| `can_gap` (finding) | is every frame tracked? | the same |
| `standalone` | phone to bench: START runs what was pushed; uncrossed tasks run everything with their own verdicts | campaigns of 1 and 2 scenarios in 2 chunks, 2 tasks, 2 pushes or manual arms (of the stretch), 1 lost connection |
| `standalone_stop` | STOP then START: is the flag ever stuck, does every task end? | 2 tasks at once, 1 Stop |
| `board` | collisions, frame, nets on pads, placement and layout, with programs stopped and repeated | three kinds of board, below |

The boards of `board`:
* HardFuzz itself, every part and net of the six sheets: build, export, netlist and placement, then
  the layout chain. Of the FPGA's 324 balls it has 54: of every bank and of every name the generator
  treats on its own some, and the first of banks 34 and 35, where the bus goes. Symbols and
  footprints are those the committed schematics and board have embedded.
* a small board of two sheets with five programs in a row: build, then a sheet script or an export,
  a build or the board, and then any two programs, one of them stopped anywhere. Two layout
  chains on one file, the second over what the first left, need that many.
* eighteen near boards whose second part lies on the first, beside it, or with stubs that meet,
  cross or lie along each other: what `check()` has to find.

Runs of the campaign, the standalone bench, `arm` and `board` switch deadlock checking off because
the system really stops: the campaign is over, or the user's bounded actions are used up. The other
passing runs check it.

`TypeOK` of CtrlRegs, Campaign, SpiInject, I2cInject, CanInject and Standalone is proved for all constants
(in CanInject as a part of the invariant) and not run; the runs spend their time on what could be wrong.

**Why the small widths are enough.** Byte widths, counters and thresholds are constants, and what
the code does with them is compare for equality, increment and wrap; the instances reach the wrap
of every counter. Where a proof exists (below) the width does not matter at all.

**Caps.** `MaxCmds`, `MaxNoise`, `MaxStarts`, `MaxFaults`, `MaxPress`, `MaxTasks`, `MaxUses`,
`MaxStops`, `MaxDrops`, `Lines`, `MaxBytes`, `MaxBits`, `Script`, `MaxKills` bound what the environment does and nothing in the code.

**Invariants that only hold outside a disturbance** say so: `clean`, `synced`, `quiet`, `exact`,
`dirty`, `calm`, `over`, `skew` are history variables that go down at a reset, a re-arm, a line error or another
task, and come back up at the next START, select, frame or command. So every property also says
that the component *recovers*.

### Fairness
* `ctrl_regs` (`QuietSpec`): bytes sent arrive, the FPGA is clocked, and the host's blocking `read()`
  returns when there is a byte. Its timeout (`transport.hpp`) is left out, so that `ReadReturns` says
  that the device answers; `arm` has the timeouts. No fairness for the host issuing commands.
* `campaign`: the FPGA takes writes, a live STM32 runs its loop (a held button is let go
  eventually), and the host process is scheduled. The read loop is bounded by `max_polls`, which is
  the only reason a dead DUT does not hang it.
* `standalone_stop`: the tasks, the UART and boot make progress; nothing is assumed of the user or
  of BLE.
* `i2c`, `can`: the FPGA clock ticks. Nothing is assumed of the master or the transmitter.

`ReadReturns`, `CampaignTerminates`, `TasksEnd`, `StretchEnds` and `BusFreed` are the liveness
properties. `BusFreed` supposes that nobody transmits and nobody re-arms any more.

## 4. What the runs found

1. `spi_count`: `frame_idx` moves at the last rising edge of a byte and `bit_num` at the falling one,
   so for target bit 0 of a later frame `flip_active` is up for half a clock in the frame before and
   the counter (and `trig_out`) is one off. The flip itself, sampled at rising edges, is right.
2. `can_gap`: a CAN frame that follows a tracked one after exactly eleven recessive bits, the least
   the bus allows and the usual gap when it is busy, is not tracked, corrupted or counted. `idle`
   (`frame_corrupt.v:49`) comes up in the very clock of its falling edge, and the branch taken there
   only ends the frame before. One clock more and it is seen; `TracksFrame` says exactly which
   frames are.

Seen in a passing run and stated in its property rather than as a finding:
* `EchoesAll` asks for every byte only with a second stop bit. `hardfuzz_top.v:71` says that "at
  matched baud the transmitter is idle by the time the next byte fully arrives", but it is busy for
  ten bits and the echo starts two clocks after `rx_valid`: a byte delivered less than 1042 clocks
  after the one before is dropped (and the activity LED does not toggle). Bytes without a pause
  come 1040 clocks apart if both clocks match, and 1041 or 1042 at 115200 baud. The testbench waits
  for each echo and cannot see it.
* `BusFreed` leaves out target bit 11 (`IDLE_BITS`). There the window can open in the last two
  clocks before the bus is found idle, after a re-arm at that moment. The frame ends, the pulse of
  two clocks is still on its way through the synchronizer, and its falling edge is taken for a start
  of frame on an idle bus; eleven bits later the same happens again, for ever, with both counters
  running.
* The app subscribes to results when `RunScreen` is built, after START was answered, and the streams
  are broadcast: what comes before is lost, though `docs/HardFuzz_v2_Standalone.md:73` has the app
  with the full result set on finish. It takes a first frame later than the first RESULT.
* `CanInject!Count`: a frame or corruption counted in the clock of a clear undoes the clear.
* `AcksOwn` stops at the wrap of `byte_index`: the 257th byte of a transaction is taken for an
  address byte.
* `I2cInject` needs an SCL half period of four clocks. With three the slave's own ACK reaches its
  sampler together with the rising SCL and looks like a START. "Keep SCL well below clk/4" is
  therefore a real condition, and the ASSUME on HALF states it.
* `CalmVerdictOwn` needs the bench at rest when its task starts, and that no other task is left is
  not enough. After STOP and START two tasks overlap, and with their command bytes mixed and one
  taking the other's RESULT line both can give up with a transaction of theirs still under way. A
  third task then takes that transaction's RESULT for its own first one: nothing on the serial line
  says whose it is, and nothing is flushed at the start of a campaign. It takes three tasks, one
  more than the runs have, and came up when the invariant below was tried on three.
* A line error can upset any number of later commands when register data is itself 'W' or 'R':
  `InStep` needs data free of command codes (`arm`).
* `ArmedWholeByHand` leaves out an arming command begun while the injector was enabled: `arm.py`,
  unlike `CampaignRunner`, does not disarm first, and its five writes are each live.
* `ClrKeepsEnable` needs the FSM in step when `clr` starts. A byte lost in an earlier program can
  leave it waiting for one more; `clr`'s read is then answered from another address, and its write
  disarms an armed injector. `status` reads a 16-bit counter in two reads and can tear.
* `evaluate()` passes a tolerated scenario whenever nothing was observed: a DUT that never answered,
  or a CAN fault this bitstream cannot inject. The report explains PASS as "caught a fault that must
  be detected, or rode through a tolerated one" (`app/lib/report.dart:58`).
* `PadsCarryNets` speaks of the pads there are. `kigen_pcb.py` passes over a pin without a pad
  (`place`, line 103), and on the board one part has such pins: the flash U3, numbered as the 16-pin
  package in `usb_sheet.py:81-83`, gets an 8-pin footprint, so FLASH_CCLK, FLASH_D0, FLASH_D2 and its
  GND reach no pad, against "every footprint placed with its pads on the right nets".
* `PadsCarryNets` needs the sheets of one build: a sheet script run alone afterwards, or a build
  stopped half-way over one, leaves a sheet whose signals to others are local labels. No program
  notices.
* `CleanSheetsTouch` is about nets. A pin without a net under a foreign label is not looked for by
  `check()`; it joins that net. The board as it is has none (`HardFuzzClean`, evaluated by TLC).
* `FramesHold` promises the frame to pins, stubs, labels and the text of labels on pins to the left or
  right; to the text of a label on a pin up or down only the paper, and only if it is no longer than the margin
  is wide. `_labels` turns such a text to run up or down (`kigen.py:274-276`), but `_content_pts` reserves
  room for it sideways only (`kigen.py:352-353`), though its docstring has the "stub-label anchors + their text
  extent" inside the frame (`kigen.py:334-335`) and autofit's says "(pins + labels + text), so nothing spills past
  the frame" (`kigen.py:358`). On the model's board it shows at the top of two sheets: the texts at the
  FPGA's balls A17, C13, D16 and G15 end 18.2 mm from the edge of the paper, and those at pins 4, 9, 12, 37
  and 64 of the USB chip U2 end 24.4 mm from it, where the margin is 25. With a longer net name a text
  would leave the paper. The texts at the foot run into the room kept for the title block in the same way,
  but there each of these sheets has more paper than it needs. A text's length is the code's estimate, 0.95
  mm a letter; a part's reference and value are the one point `_content_pts` counts for them.
* `LayoutApart` is about courtyards centred on their origin. `pcb_layout.py` puts the origin where
  the middle belongs, so connectors whose origin is pin 1 lie off their cell and overlap others;
  the committed board shows it too. `kigen_pcb.py` takes the offset into account.
* `LayoutFinished` says what holds after any history. Not idempotent is the outline: the holes of the
  chain before count as parts, so each chain run again makes the board larger. And the planes are
  poured before the holes are there, so the pour of a new board has copper in them.
* `pcb_layout.py` groups by `/tmp/n.xml`, which no program of the repository writes.

Seen while reading, in no property: `campaign_task` never disarms, though it is said to take the same
steps as `CampaignRunner::run()` (`main.cpp:36`), so the last fault stays armed after a campaign;
the flags for +1V0, +1V8 and VREF (`build_board.py:32`) lie on the
USB sheet, where those names are local labels of nothing else; the LEDs D40 and D50 have their
cathode towards the supply; the FPGA's ground ball GNDADC_0 is named by none of `_netmap`'s cases
and gets no net.

## 5. Proofs

Eight modules, 48 listed theorems, every leaf checked by TLAPS, for every value of the constants
that satisfies the ASSUMEs of the module. Every safety property of the passing runs is stated by a
theorem, but one, `PadsCarryNets`.

* **SerialProofs** has both ends of the serial line: the register port, `arm.py` on it, and the UART.
  * *CtrlRegs.* `Typing` gives `TypeOK`. `TxInv` (the transmitter is free in `S_R_SEND`, and a
    reply is out before the next command can be complete) gives `AnswerNeverWaits` on any line.
    `StepInv` adds to `InStep` what happens while a disturbed command goes by: `dirty` counts down and
    the FSM is then in one of a few states (`Resyncing`). It gives `InStep` and `CleanWritesLand`
    under the hypothesis `NoCodes \/ MaxNoise = 0`: data is never a command code, or the line is quiet;
    without it the statement is false. `RefinementTheorem`: for `MaxNoise = 0`, `Spec => RL!Spec` with
    the refinement mapping `pendingCmds`, `inbuf \o tx`. `SettledTheorem` and `ReadTheorem` hold on any
    line, for they speak of the time before its first fault. They rest on `WantKept` (the last pending
    write of each register carries what the host wants there, and a register without pending writes
    holds it already) and `ReadInv` (where the awaited answer is: its command still on the line, in
    the FSM, in the transmitter or in the input buffer, alone in each case and with the wanted data).
  * *ArmCli.* `arm.py` uses the port in ways `RegClient` does not: it gives a read up, flushes its
    input and is stopped between two writes. `CliInv` says where a program's command is, that there
    is one at a time and that nobody else writes. On it stand again `InStep`, `AnswerNeverWaits` and
    `CleanWritesLand`, for any order of programs. `ClrKeepsEnable` follows the control byte from
    the register through the answer and the input buffer back into the write. `ArmedWholeByHand` needs
    the most: which part of which command's script is still to come, on the line or in the registers,
    after any programs stopped anywhere before; it excludes no data byte, not even a command code,
    since it speaks of the time before the first line fault.
  * *UartEcho.* `RxInv` gives `Delivers`, which is far from inductive: it speaks of whole bytes, and
    two clocks of different rate decide them bit by bit. `Since` is the time since the start bit in the
    host's count, `Age` the same in the receiver's; the phases (`SendEarly`, `SendIn`, `SendPast`,
    `InGlitch`, `InIdle`) say how far they are apart and so which bit the receiver has in front of it.
    `TimingOK` is the bound on the drift that this needs: by either side's count, the middle of each bit
    lies in the bit. `EchoInv` gives `EchoesAll`: the same seen by the host's receiver (`EchoPhase`),
    the output a clock behind its state (`TxOut`), and `InTime`, which bounds in every phase the clocks
    `uart_tx` still needs (`Lap`, `Free`) by those until the next byte is announced (`Turn`). Only
    `InTime` needs the second stop bit. TLC checked both invariants, on the bounds of `uart`, before they
    were proved. They hold for any bit length, and any set of hosts within the bound.
* **RigProofs** has what both controllers need of the bench: the five writes of `arm()`, the types,
  and `Answering`, the way of one command pair. It is in the line or the receiver, the main loop has
  taken it, its transaction is under way, or its one RESULT line is back, and the rest of the bench
  is then empty. `AnswerStep` shows that every step of the STM32 but the button keeps this.
* **CampaignProofs**. `LinkOK` says, for each place `run()` can be in, which suffix of the arming or
  disarming sequence is still on the link and that the registers hold exactly the rest.
  `ArmedWhole` alone is not inductive: with half a setting written, only the knowledge of what is
  still to come shows that the enable is last. `EndsDisarmed` follows from the same invariant.
  `VerdictOwn` adds `DutOK`: until the button is pressed, the bench is idle except between a command
  and its answer, and then `Answering`. So the read loop never starts with an old line in the buffer,
  and gives up only on a dead STM32. `ScheduleOK` gives `ScheduleByCoverage`: what has run is an
  initial part of the order by (how often the tuple occurred earlier in the file, index); the coverage
  count of a tuple is the number of its runs, and never above the rank of a pending scenario that
  has it. The last part needs the cardinalities of FiniteSetTheorems. RigOK's assumption on `Shows`,
  whose members are settings, is what lets an injector that is off show nothing.
* **SpiInjectProofs**. `SlaveOK` relates the slave's shift registers and counters to the edges the
  master has made, in both halves of the clock; with `CountOK` (the master never passes the byte) it
  is inductive and gives `Aligned` and `OneBitFlipped` for every byte and counter width, any number
  of transactions, aborts, resets and re-arms. `CountExactInside` is inductive on top of it:
  for a target past the first frame and past bit 0, `flip_active` comes up at a falling edge, is
  counted there, and the master reads that bit wrong at the next rising edge. The two counts differ by
  one in between and agree at every other time, across the wrap of the counter.
* **I2cInjectProofs**. The slave hears both lines three ticks late, and a master with half periods of
  `HALF` >= 4 clocks makes at most one edge of SCL in that time. `Hears` says, for each phase of the master, how
  far its last edge has come in the two synchronizers (`HearsLow`, `HearsHigh`, `HearsStart`,
  `HearsFree`); the rest of `IInv` says which state, `bit_cnt`, `byte_index` and bits the slave
  therefore has, and what the master knows of it from the ACKs (`Knows`). A START counts only if it
  showed on the pins: a slave that still pulls SDA, or a stretched SCL, can hide it. `Aligned`,
  `AcksOwn`, `StretchesRight` and `SdaStable` follow for any byte width, address, bit time, stretch
  length and number of bytes.
* **CanInjectProofs**. As in I2C the tracker hears the bus three ticks late, and `Run1`, `Run2` are the
  recessive runs it will have counted after what is in its synchronizer. `FollowsOK` puts the
  tracker's bit three ticks behind the transmitter's for a frame it has seen, and says that it is out
  of a frame, or still in the one before, for a frame it has not; `StartOK` is what decides it, in
  the three ticks after the falling edge, and `RunsOK` bounds `rec_run`, so that no frame is taken
  to be over inside it. `FrameFits`, no
  frame reaches the end of `bit_index`, is the assumption it needs, true of the hardware's 16 bits.
* **BoardProofs** is about BoardBuild as a whole: any boards, symbols and footprints, any programs
  started and stopped in any order. `BInv` joins three invariants; TLC checked it on all states of
  `board` first.
  * *Placement* (`MainInv`). `OnShelf` says that a part placed lies left of the next free corner or on a
    shelf above it, and never below the shelf's tallest part. `CellsApart` alone is not inductive: two
    parts being apart says nothing about the next one. The outline `kigen_pcb.py` writes
    goes round them all.
  * *Layout* (`FileInv`). The board file is well formed whoever wrote it and `PartsOnBoard` holds again
    after `place_pass` has moved every part: the outline is the hull of the boxes, and a margin.
    `LayoutApart` needs more: `pack`, a loop over a group's parts in order of size, keeps its
    parts apart and inside the block (`PackedPacks`), and no block is larger than its column and row
    (`BlocksApart`). Its loop is a fold in the model, over parts that are still to come; the induction
    is on the set of those, as first-order lemmas at the head of the module (`Least` and what follows
    it), since the library's induction theorems cannot be instantiated here.
  * *Chain* (`ChainInv`). What each pass may rely on after the one before: outline, planes, pour. It gives
    `LayoutFinished`, for chains stopped anywhere and run again on what is left.
  * *Drawings.* `CleanSheetsTouch`: pins, labels and stubs begin and end on a grid through the sheet
    (`PinSpot`; autofit() moves the grid along), so bodies that touch have a grid point in common; `check()`
    samples each of a body's grid points (`Sampled`), so it has seen that one under both nets.
    `FramesHold`: the shift and the paper are taken from the same extremes, and these bound the text on the
    outer side of a pin to the left or right because they bound it on both. A text that runs up or down is
    in no extreme; it begins in the frame and so, if no longer than the margin is wide, ends on the paper.
* **StandaloneProofs**. For any campaigns, number of chunks, tasks and bounds.
  * `NeverWedged` is inductive once every task is known to be a record with a `pc`: START creates the
    task it raises the flag for, no step but `End`, which lowers it, deletes one, and a reset lowers
    it too. It rests on the model's START always getting its task.
  * `PushInv` gives `RunsPicked`, which says nothing of the push and so is far from inductive: while
    the app pushes, a response is on its way exactly when one is awaited, behind or in front of any
    number of notifications, and the controller's buffer holds the chunks written so far and nothing
    of an earlier push; after the end of the campaign it is empty. A reset empties buffer and queue
    together with the connection; a lost connection leaves the buffer, which is why `drops = 0` is
    needed.
  * `Types` adds to `TypeOK` that a busy task works on a pending scenario and that done and pending
    make up the campaign's length, across tasks whose campaign was replaced under them.
  * `Alone` is about tasks that nothing has crossed: no other task is alive, `g_campaign` is the one
    they have read, no manual arm is writing, and the flag is down only after a STOP. Every step that
    could break it (a START, the end of a push, an arm) also takes `calm` away.
  * `Records` gives `CalmRunsAll`: the verdicts of such a task are about the scenarios no longer
    pending, one each, and at its end none is pending unless it was stopped.
  * `Arming` says that the writes of `arm()` that are out are, each, the last one to its register, on
    the link or landed (`Lands`), whatever older writes are still before them; 20 ms later all have
    landed, and the injector is set to this task's fault.
  * `BenchOf`, on top of it, says that the bench is silent but for the task's own command pair
    (`Answering`). It gives `CalmVerdictOwn`, with both of its conditions needed: no button pressed,
    and a bench at rest when the task starts. TLC checked these invariants on the bounds of
    `standalone` and, by simulation, with three tasks before they were proved.

**Assumptions** on constants, each evaluated by TLC for the instances: types and bounds (`...OK` in
each module), and these that say something about the world.
* `TimingOK` (UartEcho): with 868 clocks per bit the host's bit may last from 825 to 913 of them, about 5%
  either way, where the real difference is 0.16%; and a pulse too short to be a start bit is over by
  the middle of one.
* HALF >= 4 (I2cInject) and `FrameFits` (CanInject), above.
* `ModsOK`, `PartsOK`: boxes are boxes and fit on a shelf, a part's footprint is in the library.
  `kigen_pcb.py` would put a wider one over the edge.
* `LibOK`: a symbol's pins lie on the grid, at right angles to it (`kigen.py:206` relies on it).
  `SheetsOK`: a sheet's parts are what `add()` makes. `PaperOK`: every sheet fits A0, for `autofit()` takes
  A0 for a larger one too.

**Model-checked only**: `PadsCarryNets`, which compares the generators' names with a partition that
merging builds net by net over all sheets of the board, a fold over sets of sets; and all liveness,
`ReadReturns`, `CampaignTerminates`, `TasksEnd`, `StretchEnds` and `BusFreed` (fairness and ENABLED are
beyond the prover). That the instances of the board satisfy `check()` without a collision is TLC's, too.

## 6. Not modelled

* The bits between `CtrlRegs` and its host: `UartEcho` has the bits, with no register port behind them,
  and `CtrlRegs` has bytes, with loss and creation for what a noisy line does. Data bits hit by noise,
  and the LEDs of `hardfuzz_top.v`.
* Metastability and analogue effects; two pins sampled one clock apart. Edges are at least HALF
  clocks apart in I2C, and every SPI edge is seen.
* What the master and the other CAN nodes do with a fault: a stretched or corrupted master may do
  anything the models let any master do.
* Field extraction of the campaign JSON; only whether it parses (`Whole`) or throws (`Throws`).
* `arm()` with values too wide for the registers: the ASSUME in Rig excludes them.
* Reports, campaign generators, build scripts, documents: no state.
* Of the board: routing (nobody generates it), the files' text, uuids, values and part numbers; the
  order in which KiCad hands parts of equal size to `pcb_layout.py` (the model takes the netlist's);
  KiCad's own behaviour beyond what makes a net, an outline and a pour.

## 7. Plan

Done: the register port with its refinement, `arm.py` on it, the UART and the echo; the bench with the
host engine, the ESP32 controller and the app; the SPI, I2C and CAN injectors; the board's generators.
Each with every safety property of its passing runs proved but `PadsCarryNets`.

Next, in this order:
1. *Extend.* The width of references and values, and a run that shows the upright texts past the margin as
   a finding, in place of one that can be spared. A failed `xTaskCreate` and two tasks marking coverage at once in EspController. The I2C
   stretch against the DUT's timeout.
2. *Prove.* `PadsCarryNets`: that `KeyNets` is the finest partition its joins allow, by the induction over
   finite sets that BoardProofs has, and then that a clean sheet joins keys of one name only.
3. *Deepen.* An abstract campaign (each scenario armed, run, disarmed, judged) implemented by both
   controllers up to the ESP32's missing disarm.
