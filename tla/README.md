# VirtualXT in TLA+

This directory is a verification development beside the VirtualXT sources: a PC/XT
emulator written in Odin (`src/`), shipped as a libretro core and as a bare-metal
Raspberry Pi kernel (`tools/circle/`). The modules model the emulator's own control
logic; the definitions are translated from the source files that `PROJECT.json` maps
them to.

## 1. The system

### How the emulator runs

One emulation thread calls `machine.step` (src/machine/interface.odin:194). Each turn of
its loop executes one instruction (`processor.step`), which ends with
`check_interrupts`, and then lets every registered timer advance (`update_timers`).
Peripherals are reached through tables indexed by port and by memory paragraph. The host
enters the machine between two frames through callbacks (keyboard, audio, mouse polling,
disk control, reset). Nothing is locked in the libretro build: everything happens on one
thread, and the interesting interleavings are those of guest instructions, device timers
and host callbacks.

The bare-metal kernel (tools/circle/kernel) is a small libretro frontend of its own. Core
0 boots, loads the core and then looks after the USB devices, core 1 calls `retro_run`,
core 2 is kept for rendering, core 3 feeds the sound device, and the four share one spin
lock. Frame buffers, files, the sound queue, the lock and plug and play are real in this
version; the bodies that would make samples or pass keys, mouse events and game pads on
are commented out (emuloop.cpp:162-168 and 193-201, kernel.cpp:445-465).

### Components

| component | state | operations | what makes it hard, what makes it correct |
|---|---|---|---|
| 8259 PIC (chipset/pic.odin) | mask, request, service registers, ICW sequence | port reads and writes, `irq`, `next` | order of requests, EOIs and initialisation; a request is never lost, priority is respected, EOIs balance |
| interrupt delivery (processor/cpu.odin) | flags, `state.trap`, the guest's stack | `check_interrupts`, `trigger_interrupt`, IRET | nesting, traps against interrupts, masks; no request is dropped, single steps advance |
| processor step (processor/interface.odin) | repeat prefix, prefetch queue, IP, CX | `step` | an interrupt in the middle of a repeated string instruction; the instruction resumes and completes exactly |
| keyboard (chipset/ppi.odin) | data port, port 61h, reset flag | scancode callback, ports 60h to 63h | one-byte buffer between host and guest; lost scancodes, reset against key events |
| PIT (chipset/pit.odin) | three channels, fractional tick count | ports 40h to 43h, timer, frequency query | half-written counts, latching, zero counts, catching up with elapsed time |
| machine core (machine/machine.odin, interface.odin, peripheral/interface.odin) | lists of modules and timers, memory and port tables, state of the PPI's switches | create, instantiate, configure, initialize, reset, step, destroy | tables that outlive a machine or a failed installation; every elapsed cycle is reported exactly once |
| DMA (chipset/dma.odin) | four channels, flip-flop, page registers | ports, `read`, `write` | 16-bit counts in wider variables, terminal count, auto-initialisation |
| serial mouse (modules/mouse) | byte queue, registers | ports 3F8h to 3FFh, polling timer | bounded queue, three-byte packets that must stay aligned |
| disk (modules/disk) | geometry, error codes, host files | ports B0h, B1h (INT 13h and boot), host disk control | eject between two sectors, partial transfers, sectors out of range |
| RIFS (modules/rifs2) | packet assembly, processes, handle tables | serial port, DOS redirector requests | packets in bytes, handles reused and closed twice, processes that never terminate |
| EMS (modules/ems) | four page registers | ports, memory window | windows over the same page |
| RTC (modules/rtc) | a copy of the host's time, address latch, busy flag | ports 240h, 241h, timer | the time changes between the reads of its registers |
| network card (modules/ethernet) | receive buffer, `can_recv` | command port, receive timer | one packet buffer between host and guest |
| CGA (modules/cga) | memory, mode, dirty flag, line and retrace counters | memory window, ports 3D0h to 3DFh, two timers, reset | the guest changes everything between the lines of a frame; text is drawn only when it is marked as changed |
| VGA (modules/vga) | four planes, latches, registers, attribute flip-flop, dirty flag | ports, memory window, timers, renderer | writes merge with what an earlier read latched; index and value through one port; mode changes while timers draw |
| joystick (modules/joystick) | axes, buttons, one-shot start | port 201h, polling | one-shot timeouts |
| option ROMs (modules/rom) | a file's bytes | loading, reads | none: it never changes |
| libretro core (frontend/) | options and the globals that keep them, callbacks, the time of frames, disk images | libretro entry points, disk control | options changed between any two calls, globals that outlive a failed load, callbacks that were not given |
| debugger stub (modules/gdb) | copies of the registers, place it left, packet buffer, connection | the timer after every instruction, GDB's packets | acknowledgements, Ctrl+C and hung-up connections at any byte; numbers in texts; addresses cut in two |
| Circle kernel (tools/circle/kernel) | frame buffer, sound queue, device pointers, file handles, one spin lock | boot, four loops, the environment and VFS callbacks | four cores; devices that are unplugged and replaced; resources the firmware refuses |
| arithmetic (processor/alu.odin), decoder (decode.odin, modrm.odin), instructions (8086.odin, 80186.odin) | registers, flags | one procedure per instruction | carries, overflows, zero divisors, shift counts |

They interact as follows. A device raises line *n* with
`peripheral_interface.interrupt(n)`, which sets a bit of the PIC's request register. The
processor polls the PIC after every instruction. The guest's instructions reach devices
through `read_io_port`/`write_io_port` and memory through `memory_map`. Timers call
devices with elapsed cycles. Host callbacks (keyboard, audio, disk control) find their
device by class and act on its state directly. The frontend calls the core's entry points
and is called back through `retro_environment`; the core reads and writes files through
the frontend's VFS interface. The debugger stub runs as a timer of interval 0, between an
instruction and the next.

## 2. Modules

| module | models | how it corresponds to the code |
|---|---|---|
| PicOps | pic.odin | operators on a record with the fields of the struct; a byte is the set of its one bits, so `(data & 0x10) != 0` is `4 \in data` |
| Pic | pic.odin with its bus | one action per port write, `irq`, `next` and the reset callback |
| IrqPath | cpu.odin:63-105, 341-348 and pic.odin | every action but `RaiseIrq` is one `processor.step`: the guest's instruction, then `check_interrupts`. `frames` is the part of the guest's stack that interrupts use |
| IrqNest | abstract: a prioritised nest of handlers | what IrqPath implements for a careful guest (`NestSpec`) |
| CpuStep | interface.odin:51-143, decode.odin, cpu.odin:307-348 | `Step` is one call of `processor.step`: fetch through the queue, prefixes, execute, `check_interrupts`, prefetch. A byte in the queue is the address it came from |
| CpuPrefetch | CpuStep with a queue of no bytes | the abstract processor: it fetches every byte when it decodes it (`QueueInvisible`) |
| CpuDebug | gdb.odin:160-230 | the stub's timer moves the instruction pointer between two steps |
| Alu | alu.odin, flags.odin | operators on words and on the set of arithmetic flags; the width is the constant `Half` |
| WideArith | the guest's arithmetic on several words | each step is made of the instructions of Alu; only the loop around them is the guest's |
| Keyboard | ppi.odin | host key events, ports 60h and 61h, reset, INT 9 handler |
| Pit | pit.odin | port accesses byte by byte, the timer callback in closed form |
| Mouse | mouse.odin | the polling timer, the UART's registers, the driver's handler |
| Disk | disk.odin, core.odin:99-164 | disk control callbacks, mounting, drive parameters and transfers |
| DiskTray | abstract: libretro.h:5211-5428 | the tray a frontend may rely on; `Lapses` names promises that are not kept. Disk implements it but for four (`TraySpec`) |
| Machine | machine.odin, machine/interface.odin, peripheral/interface.odin | one action per procedure from `create` to `destroy`; memory is counted in paragraphs, an instruction is the cycles it takes; `owed` is a history of what each timer has to be told |
| Cga | cga.odin, render.odin | memory and registers are one value; a line of the frame buffer is what it was drawn from |
| VgaMemory | vga.odin:180-288 | a byte is the set of its one bits; the register file is set as a whole |
| VgaScreen | vga.odin:65-122, 290-446, render.odin | the BIOS writes port by port; a line of the frame buffer is what it was drawn from |
| Rtc | rtc.odin | the timer's copy, the address latch, the busy flag; a guest that reads the registers one by one |
| Rifs | rifs2/fs.odin, rifs2/disk.odin | one action per request that changes the server's tables |
| RifsLink | rifs2/fs.odin:489-560 | packet assembly over the serial port, with machine resets between bytes |
| RifsTables | abstract: a private table per process | what Rifs and RifsLink implement (`TablesSpec`) |
| GdbStub | gdbstub.h (`gdb_main`, `gdb_recv_packet`, acknowledgements), gdb.c, gdb.odin:140-230 | `at` is where the packet loop stands when it reads; the streams hold tokens; the client hangs up and connects again |
| GdbSession | abstract: one outstanding request, a guest that stands still | what GdbStub implements (`SessionSpec`) |
| GdbData | gdbstub.h's commands g, G, p, P, m, M, X and their decoding, gdb.odin's copies | texts are sequences of digits with junk in them; one action per command |
| CircleKernel | kernel.cpp, emuloop.cpp | one action per step of the boot, and per part of a loop between two accesses to what is shared; the lock is a variable |
| CircleVfs | kernel.cpp:95-275 | one action per VFS callback, with the FatFs object's fields |
| VfsApi | abstract: libretro.h's VFS interface, with `Lapses` | CircleVfs implements it but for two answers (`VfsSpec`) |
| LibretroCore | core.odin, options.odin | one action per entry point; the user changes options in between |
| LibretroApi | abstract: what libretro.h promises of options and callbacks, and the version RIFS2 needs, with `Lapses` | LibretroCore implements it but for that version where the frontend has variables (`CoreSpec`) |
| Parts | the parts that share no state, side by side | a composition: `part` says which part a behaviour is of; its sizes, lines and images are constants |
| Engine | the interrupt path, the processor, the debugger stub and the file server, side by side | a composition like Parts: `component` says which one a behaviour is of |
| Hosts | the Circle kernel's cores and files and the core's session, side by side | a composition like Parts; sizes, devices, files and frontends are constants |
| MC... | instances for TLC | see section 3; MCParts gives Parts its values, MCEngine those of Engine (with MCCpuStep and MCRifs), MCHost those of Hosts |
| ...Proofs | theorems | see section 5 |

Compositions. PicOps is used by IrqPath (with the processor), Keyboard (with the INT 9
handler) and Mouse (with the driver's handler), so the order of raising a line, entering
the handler, reading the device and the EOI is real in each of them; `Deliverable` and
`PicAck` are those of the controller, not an abstraction of it. RifsLink composes the
serial line with the server of Rifs. CpuDebug composes the processor with the
debugger; GdbStub composes the socket, the packet loop, the timer and the guest's
instructions with a client. CircleKernel composes the four cores with their devices.
Machine composes the modules' installations with the routing and the timers.

Parts puts side by side the parts that share no state: a variable `part` says which
one a behaviour is of, and the others keep their initial values. No interaction is lost by
that, since none of those parts reads or writes a variable of another: Keyboard and Mouse
each have a controller of their own, and their interaction with the real one is in the
instance itself.

Engine does the same for the components that are not devices; its fairness is each
component's own as long as it is the one that runs. Hosts does it for the hosts. There
the Circle kernel is two parts, "kernel" (everything but plugging) and "usb" (everything
but sound): sound and USB share nothing but the lock, which both parts have with the
frames' core.

Definitions that are the guest's (handlers, drivers, the redirector), the frontend's or
the host's are the environment. They are marked external in `PROJECT.json` when nothing
under `src/` determines them, and mapped when the BIOS sources or the header file do.

## 3. Runs

| run | instance | states | what it asks |
|---|---|---|---|
| parts | MCParts.cfg | 213,237 | the device parts, the machine core, the guest's arithmetic and the debugger's commands, see below |
| engine | MCEngine.cfg | 260,542 | interrupts for careless and for careful guests, traced ones too; strings with both kinds of repeat prefix, an INT, a handler with a string instruction of its own, every fill of the queue; two processes and two host files, resets within packets; a debugger with every kind of request, Ctrl+C and hang-ups |
| host | MCHost.cfg | 27,755 | the Circle kernel's cores, devices and files, and the core's session with a frontend |
| cpu_debugger_next, keyboard_reset, rifs_launch, gdb_binary, core_clock, disk_seek, pit_low_byte, tray_index, core_vfs_version | their cfg | | findings, section 6 |

Properties of `parts`:

- Controller: `RequestsTaken`: nothing the guest writes, not even a new initialisation in
  the middle of the last one, drops a pending request (RequestsKept), and the line that
  enters service is the most urgent one of those that may (FixedPriority).
- Keyboard: `KeysAnnounced` (ResetCodeHeld, UnreadAnnounced); the
  acknowledgement of a key does not start a reset (AckIsNoReset, a part of
  `RequestsTaken`).
- PIT and RTC: `WholeCounts`: a channel counts from a count that was written whole
  (WholeCounts of Pit), a latched count is of one moment (LatchedPair), and so is the
  time a guest reads that follows the busy flag (TimeWhole). `TimerTicks` is liveness:
  channel 0 keeps raising its line as long as its counts end with a high byte. A count
  of a low byte alone leaves the channel disabled, which run `pit_low_byte` shows
  (`CountsRun`). The loop of `pit_timer` is replaced by a closed form, and the
  assumption `ClosedForm` compares the two for every small channel.
- Mouse: `DriverFollows` (Aligned, ButtonKnown, NoByteStuck).
- Disk: `DiskInOrder` (DrivesCounted, and TransfersComplete: whatever the host's seek
  answers, a transfer within the parameters is complete unless the controller takes that
  answer for a failure; that it does, run `disk_seek` shows), and `TraySpec`, the
  refinement of DiskTray over any number of contents. Four promises of libretro.h are
  not kept and named as lapses (`TrayLapses`): that the tray starts closed (5233), that
  an index past the list removes the disk (5264; run `tray_index`), that NULL removes an
  image (5287), and that the list is the content's. What the header says without them is
  still in DiskTray, and every other promise is checked.
- Machine core: `BusInOrder`: every address and port reaches the module listed last among
  those that claim it, whatever machine was there before and wherever its installation
  stopped (Routed); the switches tell the adapter there is, in any order of the modules
  and after every reset (SwitchesTrue); no timer loses or repeats a cycle when its
  interval or the frequency changes (CyclesCounted).
- CGA and VGA: `ScreenCurrent`: text that is not marked as changed is what the screen
  shows; a CGA frame has the width that is drawn; when the BIOS has set a VGA mode, the
  adapter and the frontend are in it, wherever a reset interrupted the BIOS before
  (ModeFollows); what is drawn twice with exclusive or is gone (DrawnTwice). `TimerTicks`
  has the liveness: changes are shown (Shown, LinesShown), and a guest that waits for the
  CGA's vertical retrace, or its end, sees it.
- VGA's planes: `MaskedKept`: a guest that writes where it has read last changes no bit
  it masked out, no plane it left out and no other place, in each mode of writing.
- Arithmetic: `WideExact`, `JumpsDecide`, `LongDivision`, `ResultsExact` (decimal and
  signed); the assumptions `ShiftForms` (shift counts up to 20, all bytes) and
  `DigitForms` (AAM and AAD for every base) compare operators with reference definitions.
- Debugger's commands: `DebuggerExact`: what the debugger is told is true of the guest, a
  command that fails changes nothing (AnswersTrue), and the guest goes on with what it was
  left with (GuestAsLeft).

Properties of `engine`:

- Interrupts: `IrqTypeOK`, `EoiBalance` (as many lines in service as handlers that owe an
  EOI), `NoLostIrq` (a request leaves by the entry of its handler only), `TrapRemembered`,
  and for a guest that masks the less urgent lines before it enables interrupts
  `ServiceIsNest` and `NestSpec`, the refinement of IrqNest. `TopLineServed`: line 0 is
  served.
- Processor: `CpuTypeOK`, `QueueFollowsIp`, `ElementsOnce` (each element of a string once,
  whatever interrupts it), `QueueInvisible`, the refinement of CpuPrefetch.
- File server: `LinkTypeOK`, `HandlesOwned` (no host handle leaks or is used when closed),
  `AnswersMatch`, and `TablesSpec`, the refinement of RifsTables.
- Debugger stub: `GdbTypeOK`, `SessionSpec`, a refinement that hides the wire, and
  `Answered`: every request is answered or the session ends, and a debugger that connects
  is served.

Properties of `host`:

- `NothingOverrun`: a frame goes into a buffer of its size, or, only where the firmware
  has refused both that size and the fallback, into one that was deleted; the sound
  queue is never given more than it has room for.
- `PointersLive` (no pointer to a device that is gone), `KernelGoesOn` (frames, input and
  sound go on; a device that stays is found).
- `VfsSpec`: the kernel's files are those of libretro.h but for two answers, named as
  lapses: a seek answers 0 where 2819 has the new position, and the closing of nil answers
  0 where 2770 has -1. A write on a full card writes less than it was given and says so,
  which the interface allows.
- `CoreSpec`: the core's side of a session, for frontends of any version of the VFS API.
  One promise of the core's own is a lapse: where the frontend has variables, RIFS2 comes
  with version 1 too (run `core_vfs_version`).

### Bounds

- Lines: two for Pic and three for IrqPath (timer, keyboard, serial), enough for a
  request that is more urgent, equally urgent and less urgent than the one in service.
  `MaxNest = 3` frames: main, a handler, and one that interrupted it at each point.
- Bytes written to the controller: those that reach each branch of pic.odin and two that
  set several bits at once.
- Queue of 4 bytes, the size in cpu.odin; the program has 25 bytes, so every fill of
  the queue meets every instruction, and the segment wraps.
- Keyboard: two keys, one of which has a release code equal to the reset code 0xAA.
- PIT: bytes have two values (`Base = 2`), counts go to 3, in all three access modes; the
  timer is late by less than a period or by several.
- Mouse: `MaxBuffer = 6` in place of 24, two packets and a third that does not fit.
- Disk: a 360K and a 1.44M image, and a hard disk of 1030 cylinders and a bit, so that
  the limit of 1024 cylinders and the incomplete last cylinder occur. Images in the tray
  are floppies, as a frontend's list for one game is, and have one whole cylinder at least
  (disk.odin:184 divides by the size of one).
- Arithmetic: two bytes per number, each at an end of its range, at a change of sign or
  at a digit's carry. The theorems of section 5 remove these bounds.
- DiskTray: a list of up to three images (`MaxList = 3`).
- Machine: memory of four paragraphs; VGA claims two of them, EMS two, at a place that
  overlaps the VGA or reaches past the end of memory; each claims ports that main memory
  claims too; the RTC's installation may fail. Modules are listed in every order.
  Frequencies and intervals are such that a threshold is reached in none, one, or several
  instructions.
- CGA: three lines of a frame, one of them drawn and one in the retrace, in place of 256,
  200 and 32; two calls of the timer for a line in place of four.
- VGA: two places in two planes of two bits, and seven register files, one or more for
  each mode of writing and each logical operation; frames of one and of two lines, so that
  a mode leaves lines of the mode before. The BIOS writes the attributes before the size,
  and stands at every port write when a reset comes.
- RTC: seconds and minutes to the base 2.
- GdbStub: three requests, two values and places; GdbData: digits to the base 2, registers
  modulo 16 and paragraphs of two bytes, so that addresses wrap; two commands.
- Circle kernel: two frame sizes, the firmware may refuse the buffer of that size, and
  the fallback after it; three samples and a queue of four that is played in two parts;
  two devices of two plugs each. Files: two handles, two files of up to two bytes;
  writes of one byte and of two, on a card that may be full.
- Libretro: six frontends (one with everything, one without variables, one with version
  1 of the VFS API, three that lack something the core needs), the default speed and
  another, frames of 16 and 50 ms.
- RIFS: two processes, two host handles (which the host may hand out again), tables of
  two; `rifs_launch` takes the processes and the handles as symmetric.

Deadlock is checked in every run but those of Hosts, where the boot may halt
(kernel.cpp) and a frontend's session ends.

### Fairness

- `engine`, `GuestFairness` (`TopLineServed`): a handler goes on to its EOI and its
  IRET, and the main program enables interrupts again and again. These are promises of
  the guest, not of the emulator; a guest that does `CLI` and loops is never
  interrupted. The processor's own part, looking at the controller after each
  instruction, belongs to the actions and needs no fairness.
- `parts` (`TimerTicks`): `machine.step` calls `update_timers` after every instruction
  (src/machine/interface.odin:194-209), so processor steps with the timer callback are
  taken forever while the machine runs. The same loop calls the scanline timers of
  CGA and VGA (`ScreenSteps`, `VgaSteps`).
- `engine`, `StubFairness` (`Answered`): the guest's instructions, the stub's timer, its
  packet loop and the client's reading go on (weak fairness); the guest leaves any place
  again and again (strong fairness of `MovesOn`), which a HLT that nothing ends would
  not, and the stub, which waits for the place to change (gdb.odin:164), would then not
  either.
- `host`: the loops of the four cores go round; a tick that a loop waits for comes in
  the end, and a core that spins on the lock gets it. Core 1 holds the lock over a whole
  frame (emuloop.cpp:141-144), the others for a few instructions; between two frames
  core 1 waits for its turn of 1/60 s without it. Circle's spin lock has no queue and is
  not fair, so that nobody loses it for ever is an assumption: strong fairness of
  entering, weak fairness of what is done inside.

## 4. What the hazards are

`PROJECT.json` lists them, each at its line, with the property that would catch it or a
note why none does. The core is the order in which three parties act between two guest
instructions: the device that raises a line, the processor that looks at the controller,
and the guest that reads the device and ends the interrupt. No two of them are ordered
by a lock, and a test sees one order only.

## 5. Proofs

All theorems are for every value of the constants under the named assumption of the
module (`PartsAssumption`, `IrqPathAssumption`, `CpuStepAssumption`, `WideAssumption`,
`HostsAssumption`, `RifsAssumption`, `StubAssumption`), which TLC evaluates on the
instances. `PartsAssumption` is the conjunction of what each part assumes: sizes are
positive, what the guest writes are bytes, disk images consist of sectors, the frontend's
images for the tray are floppies, one of the VGA's heights is the largest, there are
finitely many modules, a word is a byte if there are routines that adjust decimals
(DAA, DAS, AAA and AAS are of AL), and a linear address fits into the four bytes the
debugger has for it.

The theorems of PartsProofs and DataProofs are about the specification of Parts, which
run `parts` checks (those about WideSpec, its arithmetic, among them), and those of
HostsProofs about that of Hosts (run `host`). The other modules of proofs are about the
specifications of the components that Engine puts side by side. `StepOfOne` says that a
step of such a composition is a step or a stutter of each part; with it each part is
reasoned about on its own.

| theorem | says | argument |
|---|---|---|
| PartsProofs: PicTyped, MaskAfterInit | registers keep their types; no line is masked before initialisation is complete | `TypeOK` is inductive; `MaskNeedsInit` is with it |
| PartsProofs: KeysAreAnnounced | the port holds the answer to a keyboard reset until it is read, and a byte that was not read is announced, wherever key events fall | `KeyboardInv` adds to both that the handler runs with the keyboard's clock bit set (`ClockHeld`): its acknowledgement would be taken for a reset otherwise, and overwrite the port |
| PartsProofs: RequestsAreTaken | no write drops a request, the most urgent line enters service, an acknowledgement is no reset | step by step: the first two from the operators of PicOps, the third from `ClockHeld` |
| PartsProofs: CountsAreWhole | channels count from whole counts, a latched count is of one moment, so is the time a guest reads | `TimerInv`: what a channel holds and what the guest has written so far are in step (`InStep`), half-way through a count too; `ClockInv`: the guest's seconds are those of the copy as long as the busy flag it saw clear has not been set since |
| PartsProofs: ScreensAreCurrent | text that is not marked as changed is what the screen shows; the frontend shows frames of the mode that was set; what is drawn twice with exclusive or is gone | `ScreenCurrent` of Cga is inductive with its types; `VgaInv` adds where the attribute flip-flop stands between the BIOS's writes, without which a reset between index and value would send them to the wrong register. `DrawnTwice` is a fact about one state of the planes |
| PartsProofs: MaskedBitsStay | a write leaves the bits that are masked out, the planes that are not enabled and all other places as they were | a property of one write: for each mode, the byte that is written agrees with the latch outside the mask |
| PartsProofs: DriverIsFollowed | for every size of the buffer the driver finds the kind of byte it expects, learns the button, and is called for what is in the buffer | `Stream`: the buffer begins with what the driver expects, each byte follows the one before, it ends with a whole packet, and the last of these tells the button; appending a packet and taking a byte keep it (StreamOfPoll, StreamOfRead) |
| PartsProofs: DisksAreInOrder | no assertion of mount_disk fails, the counters count the drives, transfers within the parameters are complete | `InOrder`: a floppy is in drive 0 or nowhere, a hard disk in drive 128 or nowhere, and the counters say so. The second half is arithmetic on every geometry (LastCylinder, TenBits, TrackFits). The host's seek answers either the position or zero; a transfer is excepted whose seek the controller takes for a failure (`Unheard`), which with a frontend that answers the position is every one past the first sector (run `disk_seek`). Assumed: each image holds the geometry that is told (`Holds`): a file of one sector is taken for a disk of 320, and a hard disk of less than a cylinder for one of 65,536 cylinders |
| PartsProofs: TrayIsImplemented | over any number of contents the controller and the callbacks implement the tray of libretro.h, but for the four promises `TrayLapses` names | with `DiskInv`, every call maps to a step of DiskTray and what the guest does to a stutter |
| IrqPathProofs: IrqPathTyped, IrqPathBalanced | as many lines in service as handlers that owe an EOI, for any guest of the model | the cardinalities change together: an EOI removes the lowest bit of a set that is not empty, because the handler that sends it is one that owes it |
| IrqPathProofs: IrqPathKeepsRequests | a request disappears only by the entry of its own handler | step by step, from the type invariant |
| IrqPathProofs: TrapIsRemembered | while the debug handler runs for a program that had interrupts enabled, the processor remembers the trap | `TrapInv`: the debug handler is the innermost, interrupts are disabled in it, and only the main program is traced; so nothing clears `trap` before its IRET |
| IrqPathProofs: CarefulGuestNests, CarefulGuestImplementsNest | the lines in service are those of the unfinished handlers, nested by priority; IrqPath implements IrqNest | the inductive invariant `CarefulInv` joins `ServiceIsNest` with the types and with the controller being initialised and used by the lines of the model only (`PathInv`); the guard of a careful STI then leaves only lines more urgent than all that are open to be delivered; the refinement maps the stack to its open frames |
| RifsProofs: LinkTypes, AnswersAreMatched | the queues keep their types; the redirector gets the answer to its own request, whole | `QueuesOK`: for each place of the redirector, what is in the two queues; a latch empties both, wherever a reset cut the last request |
| RifsProofs: FilesAreOwned, HandlesAreOwned | the open host files are those in the slots' tables, each once; so are the searches, if no program is launched | `FilesInv`: a process has one slot at most, tables have no duplicates and share nothing. Searches need `~Launch`: with a program to launch they are violated (run `rifs_launch`), files are not |
| RifsProofs: SlotsImplementTables | the slots implement one table of files per process | the map takes a process to the table of its slot, or to the empty one; a reused slot has an empty table (`FilesInv`) |
| CpuStepProofs: CpuTyped, QueueFollows, QueueIsInvisible | for every program the queue holds the bytes that follow IP, and a processor that fetches through it does what one without a queue does | `QueueFollowsIp` is inductive because each action that changes IP sets `flush`; with it, decoding from the queue and from memory are equal, and the queue can be hidden |
| DataProofs: WideNumbersExact, WideJumpsDecide, WideDivision | for every width, length and operand: sums, differences and shifts by one are exact, conditional jumps decide the order of whole numbers, products and divisions by a word are exact and never raise interrupt 0 | `WideInv`: the numbers made of the words so far are below their weight, and the carry (or DX) that the next word takes in is exactly what relates them. Its first lemmas show what each instruction does to one word; that all parts below the top words are smaller than the weight makes the top words' comparison decide |
| DataProofs: ResultsAreExact, WideTyped | for decimal numbers of any length sums and differences are exact; so are products of signed words of any width, and their quotients by a factor that is not negative | `OthersInv`: as `WideInv`, with a weight to the base of 100 or 10. Of one byte: the auxiliary carry is the one between the digits (OddCarry), so that the adjustment adds six to the digits that carried (PackedSum, PackedDifference, DigitSum, DigitDifference). A product of two signed words has a high half that is a signed word (ImulIs); IDIV joins the halves again (IdivIs) |
| PartsProofs: BusIsInOrder | for any modules, in any number and order, and any memory: accesses reach the module listed last that claims the address, the switches tell the adapter there is, timers lose no cycle | `CoreInv`: no module is listed twice, main memory is first, and the timers are empty between two machines. The routing tables are a fold over the list: a fold from the left is a run of as many steps (FoldRuns), and after i of them the tables hold the last of the first i modules (`Installed`). Both by the least counterexample (Least, Climb), which is how an induction is done without a theorem that has an operator as parameter |
| DataProofs: GuestLeftAsGiven | for every width of the registers and every sequence of commands, the guest goes on with the registers the debugger did not write as they were, and at the place and stack it was given | `CopiesInv`: while the stub is inside, its copies agree with the guest in every register the debugger did not name; cutting a linear address into segment and offset and joining them again gives the address (OffsetBack, PlaceReached), which is arithmetic |
| DataProofs: DebuggerIsExact | for every width of the registers, size of the memory, escape and bytes: a register or memory that was written has the debugger's bytes and all else is as before, a memory command that fails changes no memory, what was read is what is there | `GdbData!TypeOK` is inductive; the rest is about the codes. The digits of a byte, the bytes of a number and the text of an address are taken apart and joined to the same (HexBack, BytesBack, AddressBack); a text that is cut short or holds junk is refused (SoundText); unescaping undoes escaping, piece by piece over a flattened sequence (BinBack). Numbers, texts and pieces are folds: each is a run of as many steps (NumberRuns, BinRuns, Flattens), by the least counterexample again |
| PartsProofs: PartsTyped | the variables of all parts keep their types, the counters and indices stay within their tables | from the invariants above, each of which contains its part's types |
| GdbProofs: StubTyped | for any requests, values and places, and packets of every form, the variables of the stub and its client keep their types | the types of what is in the two streams, and that a "$" is followed by its body or by the end of the connection (`Paired`), however a stream is cut |
| GdbProofs: StubHolds, StubImplementsSession | as long as no packet is damaged or holds a byte 0xFF (`Clean`), the guest stands still from an answer to a request to resume, and the stub with its client implements GdbSession | `Sound`, see below; then each step of GdbStub is one of GdbSession or a stutter: the body of a request performs it, the client's reading of an answer answers it, and acknowledgements, stops and the timer are not seen |
| HostsProofs: HostsTyped | every variable of the kernel, its files and the session keeps its type | joins `KernelTypes`, `FilesInv` and `SessionInv` |
| HostsProofs: KernelNeverOverruns | for every size of frames, samples and queue, and any order of the cores, a frame goes into a buffer of its size, or into a deleted one if the firmware may refuse both that size and the fallback; it starts with its callbacks set, and neither the samples nor the sound queue overflow | `KernelInv`: no core runs before the boot is complete, and each step of the boot leaves its callbacks behind; the frame buffer is the screen's size as soon as it has one, or was deleted and not replaced (`MadeFor`), because `Granted` gives nothing else; what core 3 has measured is room that only it can fill, so that it is still there when it writes. |
| HostsProofs: PointersStayLive | for any devices, plugged in and out at any time, no pointer is kept to a removed device | `PointersLive` is inductive: only `UpdatePlugAndPlay` changes either side |
| HostsProofs: FilesKeepPromises | for any number of handles and files, and whatever FatFs fails at or writes in part only, CircleVfs implements the VFS interface of libretro.h, but for what a seek and the closing of nil answer | `FilesInv`: an object is zero or stands for a file, its access is that of a mode the core uses, and its position is in the file. The last part is what makes a write through FatFs the write of the interface (WriteIsPatch); it survives the writes of others because no write makes a file shorter. `VfsAssumption` says that the core never opens a file to discard what is in it |
| HostsProofs: CoreKeepsItsSide | for any frontend, with or without variables and of any version, content and changes of options, LibretroCore implements the session of libretro.h; RIFS2 comes with version 3 only, but where the frontend has variables | `SessionInv`: without variables the options are those the core began with, but for RIFS2, which only an old version of the VFS API disables; CheckVariables and BuildsWanted then give the machine that was asked for. `SessionAssumption` says what the options are without variables |

The inductive invariant of the debugger stub (`Sound` of GdbProofs) is of interest by
itself, since `SessionSpec` says nothing of bytes. It has one part per regime:

- `MainInv`: `gdb_main` runs only with the debug flag set and a client's socket. Between
  two sessions there is no request and nothing for the client to read; what the stub has
  still to read of the old session ends with its end.
- `OpenInv`: a request that was not performed is on its way exactly once, or its body is
  what the stub reads next. Everything else in the stream is acknowledgements and
  Ctrl+C, and a stub that waits for an acknowledgement finds one of them in front of the
  request. That is what could fail: `gdb_recv_ack` takes any byte (gdbstub.h:410), and
  would take the "$" of the request, after which the packet is skipped. It does not
  because a client asks only when it has read the answer before, and has acknowledged it
  by then; a client that has just connected sends an acknowledgement first.
- `DoneInv`: what the client has not read yet is the end of what its request is answered
  with (`Wire`: an acknowledgement, the command's reply, the stop of a guest that went
  on), behind the first stop of a session. Where the stub stands is one of the places
  that belong to the request (`WhereDone`), and a read's answer holds the copy of the
  registers.

The condition `Clean` is needed: run `gdb_binary` shows that one byte 0xFF breaks the
session.

Only model-checked:

- Liveness (`TopLineServed`, `TimerTicks`, `Answered`, `KernelGoesOn`), which needs
  fairness and ENABLED.
- `ElementsOnce` of the processor is about one program: it compares what the string
  instructions of that program handled with what they were to handle. For another program
  it is another property.

Not proved besides: what shifts by more than one and the loop of `pit_timer` compute for
every count, each a recursive function of its own (`ShiftForms` and `ClosedForm` compare
them for small ones); and anything in a module with a RECURSIVE operator, which is why
MCParts alone has some (`ClosedForm`).

## 6. Findings

Each is a run of its own that TLC finds violated, with the line that says otherwise.

- `cpu_debugger_next`: the stub asks for a flush, but a flush is acted on at the end of a
  step, so the next instruction still comes from the old place (gdb.odin:170).
- `keyboard_reset`: a reset is not announced when the port still holds 0xAA, the release
  code of the left shift key (ppi.odin).
- `rifs_launch`: when a search answers with the program to launch, its directory is
  closed and the pointer to it kept (rifs2/disk.odin:264).
- `gdb_binary`: a byte 0xFF of binary data is returned as a signed char, which is the end
  of the connection: the guest runs on in the middle of a request (gdb.c:121).
- `core_clock`: the cycles of a frame are computed with a division that comes before the
  product and drops the fraction, so the guest's clock is late at every frame rate, not
  only below 30 frames a second (core.odin:490, 493).
- `disk_seek`: the controller takes a seek that returns the new position, as
  libretro.h:2819 says it does, for a failure (disk.odin:75): with such a frontend no
  sector but the first is transferred, with the carry flag clear. The Circle kernel's seek
  answers 0, as that code wants (kernel.cpp:158).
- `pit_low_byte`: a channel whose count is written by its low byte alone is never enabled
  (pit.odin:96-98), though both BIOSes program channel 1 so (pcxtbios.asm:494,
  GLABIOS.ASM:3305).
- `tray_index`: an index past the list is refused, and the tray closes on the disk that
  was there, where libretro.h:5264 has the drive emptied (core.odin:135).
- `core_vfs_version`: RIFS2 is disabled for old versions of the VFS API
  (core.odin:431-434) and then enabled again by the options (443), against what line 432
  tells the user.

Met while reading, without a run of their own:

- Controller: ICW4 selects the automatic end of interrupt, which is not implemented
  (pic.odin:98); a non-specific EOI clears the most urgent line, not the sender's, when
  the BIOS handlers enable interrupts before their EOI. DMA: the mode register is
  written to a copy (dma.odin:130), and the count is kept in 32 bits, never equal to the
  0xFFFF that is tested (dma.odin:155).
- Processor: with interrupts disabled single-stepping never advances, as `state.trap`
  follows the interrupt flag; IDIV extends its divisor with zeroes (alu.odin:453), so a
  division by a negative number is one by a positive number, and the processor's tests
  leave the instruction out.
- Machine core: `interrupt_controler` stays that of the machine before if a machine has
  no chipset (the model assumes one); EMS at an address above 0xF0000 claims nothing; a
  ROM whose size is no multiple of 16 stops the program; `cpu_frequency` under `[machine]`
  in an ini file is a string where a number is asserted.
- CGA: reset sets the 80-column mode without telling the frontend, so frames keep their
  old width until the guest sets a mode (ScreenCurrent is stated from then on); a cursor
  that ends at line 8 or later never ends the loop at render.odin:64. VGA: write mode 0
  rotates twice (vga.odin:248, 256), and the read mode is taken from the sequencer's
  registers in place of the graphics controller's; a change of the attribute registers
  or of the clock select does not compute the mode again until another register is
  written (the model's BIOS writes one); a cursor that ends at line 16 or later never
  ends the loop at render.odin:73.
- RTC: `destroy` is not registered. Joystick: the elapsed time is subtracted again at
  every read (joystick.odin:73-81). Mouse: the driver is not told of a button held while
  it starts over; movements of 64 and more wrap.
- Disk: a hard disk image in the tray ends in an assertion (disk.odin:209); 160K to 320K
  images are taken for hard disks with no cylinder.
- Disk control: the list of images outlives the content (core.odin:357);
  `replace_image_index` with NULL, which removes an image (libretro.h:5287), reads through
  it (core.odin:150; the model refuses the call there); an empty drive reports its tray as
  open, where libretro.h:5233 has it closed at first. All three are lapses of `TraySpec`.
- Libretro core: the default image is read through a handle that is not closed (81-93);
  unloading deletes the frame buffer and keeps its length (445, 515).
- Circle kernel: it sets no audio and no input callback, so a `[mouse]` section of
  machine.ini ends in an assertion (mouse.odin:103-106); it calls `retro_init` before
  `retro_set_environment` (kernel.cpp:278-281), and ignores what `retro_load_game`
  answers; closing and flushing a file answer 0 whatever FatFs did, and so does the
  closing of nil (libretro.h:2770 has -1); the log is one FatFs object written by
  several cores without the lock; if the firmware refuses the fallback buffer too, a
  pointer to a deleted one stays, frames are copied through it and the next change of
  mode deletes it again (emuloop.cpp:60-64; `MayDangle`).
- Debugger stub: G and P that find junk half-way have changed the registers before it
  (the guest keeps them, although the answer is an error); P answers OK for a register it
  does not know; X with fewer bytes than it says writes bytes that were never set.
- RIFS: a reset by the divisor latch keeps the processes and files of the old session
  (fs.odin:538); the length of an answer is computed in 16 bits (fs.odin:438).

## 7. Not modelled

EMS, tone generator and operand decoder are planned (section 8). DMA, network card and
joystick have little to check in this version: nobody calls the DMA controller's read
and write, receiving packets is commented out in the network card, and the frontend
instantiates neither it nor the joystick (core.odin:382-383). Left out for good: option
ROMs, runtime glue and ini syntax (they read a file once), painting (a pure function of
the state), the instruction trace, the BIOS images and drivers (the environment).

Of libretro.h (7,828 lines) the modules stand for the interfaces this core and this kernel
use: disk control, the VFS calls, options, frame time and entry points. The rest describes
commands, devices and helpers that neither uses. Of gdbstub.h the packet loop and the
commands are modelled; its configuration, the second half of its utilities, which
`gdb_main` never calls, and the formatting of numbers are not. Measured over the C and C++
files alone the map covers about a sixth of the lines, for this reason; most of what is
modelled is Odin.

Within the modelled parts: cycle counts are open, file contents and DOS paths are left
out (every host call may succeed or fail), the microsecond rounding of `pit.ticker` is
left out, a byte in the prefetch queue is never overwritten by the program that runs.
The bound of the stub's packet buffer (gdbstub.h:533-537) is left out, packets being
tokens; so are the sign and the 0x prefix gdb_strtol takes (gdbstub.h:303-317), which
GDB does not send, and IDIV by a negative divisor (section 6).

## 8. Plan

Done: the interrupt path first, because every other device depends on it; then the
processor step, the devices with an asynchronous host (keyboard, PIT, mouse, disk), the
file server, the arithmetic; then the debugger from its socket to the registers, the
machine core, the two hosts (the libretro core and the Circle kernel), the RTC, the CGA
and the VGA.

Next, in this order:

1. Decoder and addressing (modrm.odin, decode.odin), the remaining instructions that move
   data, 80186 ENTER/LEAVE/BOUND; joined to Alu.
2. EMS (windows over the same page) and the tone generator: each a part of MCParts. DMA,
   network card and joystick when a device uses them.
3. A machine reset in the middle of IrqPath (`state.trap`, the controller and the queue
   together); a second content in one process of LibretroCore.
4. Proofs: shifts by any count, with an induction as that of FoldRuns.
