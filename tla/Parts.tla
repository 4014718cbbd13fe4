-------------------------------- MODULE Parts --------------------------------
(***************************************************************************)
(* The parts of the machine that share no state with each other, side by   *)
(* side: a behaviour is one of one part, and the others stay as they are   *)
(* at power-on.  Each part is an instance of its own module, for whatever  *)
(* sizes, lines, keys and images there are.                                *)
(***************************************************************************)
EXTENDS WideArith, Sequences, TLC

CONSTANTS
  Parts,                                           \* the parts of the run
  Irqs, Commands, MaskBytes,                       \* Pic
  Keys,                                            \* Keyboard
  TimerBase, Chans, AccessModes, Elapsed, Interval,               \* Pit
  MaxBuffer,                                       \* Mouse
  Images, ImageSize, Floppies, DefaultImage, NoImage, MaxList,    \* Disk
  Modules, Blocks, Ports, Claims, Bases, Io, Intervals, Unreliable,
  Settable, Frequencies, Second, Cycles,           \* Machine
  Values, Lines, Visible, Sync, Quarters,          \* Cga
  Sizes, TextLines,                                \* VgaScreen
  Cells, NumPlanes, PlaneWidth, VgaFiles, PlaneData,              \* VgaMemory
  ClockBase,                                       \* Rtc
  DigitBase, Escape, EscapeBit, CpuWord, Para, Room,
  Numbers, Spoilt, Places, ByteStrings, MaxCommands, Junk         \* GdbData

VARIABLES
  part,
  pic,
  ppi, kbdPic, isr, copy, fresh,
  channels, ticker, irq0, guest,
  dtr, buffer, buttons, mousePic, driver, expects, seen,
  loaded, seek, drives, counts, open, list, index, answer, asserted, told, short, refused,
  machine, peripherals, timers, memory_map, io_map, interrupt_controler, cpu_frequency,
  switches, owed,
  mem, mode, cursor_blink, is_dirty, scanline, retrace, status, drawn, width, chosen,
  now, current_time, addr, busy, stage, selected, seconds, minutes, taken,
  cpu, regs, memory, inside, count, named, command, reply,
  vmem, attr, size_reg, flip_3C0, textmode, height, vtold, vblink, vdirty, vline, vdrawn,
  vstage, wanted,
  planes, mem_latch, vregs

keyboardVars == <<ppi, kbdPic, isr, copy, fresh>>
timerVars    == <<channels, ticker, irq0, guest>>
mouseVars    == <<dtr, buffer, buttons, mousePic, driver, expects, seen>>
diskVars     ==
  <<loaded, seek, drives, counts, open, list, index, answer, asserted, told, short,
    refused>>
coreVars ==
  <<machine, peripherals, timers, memory_map, io_map, interrupt_controler, cpu_frequency,
    switches, owed>>
screenVars ==
  <<mem, mode, cursor_blink, is_dirty, scanline, retrace, status, drawn, width, chosen>>
clockVars ==
  <<now, current_time, addr, busy, stage, selected, seconds, minutes, taken>>
debuggerVars == <<cpu, regs, memory, inside, count, named, command, reply>>
vgaVars ==
  <<vmem, attr, size_reg, flip_3C0, textmode, height, vtold, vblink, vdirty, vline,
    vdrawn, vstage, wanted>>
planeVars == <<planes, mem_latch, vregs>>
vars == <<part, pic, keyboardVars, timerVars, mouseVars, diskVars, coreVars, screenVars,
          clockVars, debuggerVars, vgaVars, planeVars, wideVars>>

Controller == INSTANCE Pic WITH Data <- MaskBytes

Kbd == INSTANCE Keyboard WITH pic <- kbdPic

Timer == INSTANCE Pit WITH Base <- TimerBase, Modes <- AccessModes

Mice == INSTANCE Mouse WITH pic <- mousePic

Disks == INSTANCE Disk WITH Size <- ImageSize

Core == INSTANCE Machine WITH Size <- Claims

Screen == INSTANCE Cga

Vga == INSTANCE VgaScreen WITH
  mem <- vmem, told <- vtold, cursor_blink <- vblink, is_dirty <- vdirty,
  scanline <- vline, drawn <- vdrawn, stage <- vstage

Planar == INSTANCE VgaMemory WITH
  Places <- Cells, Width <- PlaneWidth, Registers <- VgaFiles, Data <- PlaneData,
  mem <- planes, regs <- vregs

Clock == INSTANCE Rtc WITH Base <- ClockBase

Debugger == INSTANCE GdbData WITH
  Base <- DigitBase, Bit <- EscapeBit, Word <- CpuWord, Written <- ByteStrings
-----------------------------------------------------------------------------
\* What holds of the constants of each part.
ASSUME PartsAssumption ==
  /\ Controller!PicAssumption /\ Timer!PitAssumption /\ Clock!RtcAssumption
  /\ Mice!MouseAssumption /\ Disks!DiskAssumption
  /\ Screen!CgaAssumption /\ Vga!ScreenAssumption /\ Planar!PlanesAssumption
  /\ WideAssumption /\ Debugger!DataAssumption /\ Core!MachineAssumption
-----------------------------------------------------------------------------
\* What the parts that do not run begin with does not matter.
Init ==
  /\ part \in Parts
  /\ Controller!Init /\ Kbd!Init /\ Timer!Init /\ Mice!Init
  /\ Disks!Init /\ (part # "disk" => seek = "zero")
  /\ Core!Init /\ (part # "core" => cpu_frequency = CHOOSE f \in Frequencies : TRUE)
  /\ Screen!Init /\ (part # "screen" => mem = CHOOSE v \in Values : TRUE)
  /\ Vga!Init /\ (part # "vga" => vmem = CHOOSE v \in Values : TRUE)
  /\ Planar!Init
  /\ (part # "planes" => /\ \A r \in VgaFiles : r.linear => vregs.linear
                         /\ planes = [c \in Cells |-> [i \in 0..NumPlanes - 1 |-> {}]])
  /\ Clock!Init /\ (part # "clock" => now = 0)
  /\ Debugger!Init /\ (part # "debugger" => cpu.ip = 1) /\ WideInit

ControllerNext ==
  /\ part = "controller" /\ Controller!Next
  /\ UNCHANGED <<part, keyboardVars, timerVars, mouseVars, diskVars, coreVars,
                 screenVars, clockVars, wideVars, debuggerVars,
                 vgaVars, planeVars>>

KeyboardNext ==
  /\ part = "keyboard" /\ Kbd!Next
  /\ UNCHANGED <<part, pic, timerVars, mouseVars, diskVars, coreVars,
                 screenVars, clockVars, wideVars, debuggerVars,
                 vgaVars, planeVars>>

TimerNext ==
  /\ part = "timer" /\ Timer!Next
  /\ UNCHANGED <<part, pic, keyboardVars, mouseVars, diskVars, coreVars,
                 screenVars, clockVars, wideVars, debuggerVars,
                 vgaVars, planeVars>>

MouseNext ==
  /\ part = "mouse" /\ Mice!Next
  /\ UNCHANGED <<part, pic, keyboardVars, timerVars, diskVars, coreVars,
                 screenVars, clockVars, wideVars, debuggerVars,
                 vgaVars, planeVars>>

DiskNext ==
  /\ part = "disk" /\ Disks!Next
  /\ UNCHANGED <<part, pic, keyboardVars, timerVars, mouseVars, coreVars,
                 screenVars, clockVars, wideVars, debuggerVars,
                 vgaVars, planeVars>>

CoreNext ==
  /\ part = "core" /\ Core!Next
  /\ UNCHANGED <<part, pic, keyboardVars, timerVars, mouseVars, diskVars,
                 screenVars, clockVars, wideVars, debuggerVars,
                 vgaVars, planeVars>>

ScreenNext ==
  /\ part = "screen" /\ Screen!Next
  /\ UNCHANGED <<part, pic, keyboardVars, timerVars, mouseVars, diskVars,
                 coreVars, clockVars, wideVars, debuggerVars,
                 vgaVars, planeVars>>

ClockNext ==
  /\ part = "clock" /\ Clock!Next
  /\ UNCHANGED <<part, pic, keyboardVars, timerVars, mouseVars, diskVars,
                 coreVars, screenVars, wideVars, debuggerVars,
                 vgaVars, planeVars>>

ArithmeticNext ==
  /\ part = "arithmetic" /\ WideNext
  /\ UNCHANGED <<part, pic, keyboardVars, timerVars, mouseVars, diskVars,
                 coreVars, screenVars, clockVars, debuggerVars,
                 vgaVars, planeVars>>

DebuggerNext ==
  /\ part = "debugger" /\ Debugger!Next
  /\ UNCHANGED <<part, pic, keyboardVars, timerVars, mouseVars, diskVars,
                 coreVars, screenVars, clockVars, wideVars,
                 vgaVars, planeVars>>

VgaNext ==
  /\ part = "vga" /\ Vga!Next
  /\ UNCHANGED <<part, pic, keyboardVars, timerVars, mouseVars, diskVars,
                 coreVars, screenVars, clockVars, wideVars, debuggerVars, planeVars>>

PlanesNext ==
  /\ part = "planes" /\ Planar!Next
  /\ UNCHANGED <<part, pic, keyboardVars, timerVars, mouseVars, diskVars,
                 coreVars, screenVars, clockVars, wideVars, debuggerVars, vgaVars>>

Next ==
  ControllerNext \/ KeyboardNext \/ TimerNext \/ MouseNext \/ DiskNext \/ CoreNext
    \/ ScreenNext \/ ClockNext \/ ArithmeticNext \/ DebuggerNext
    \/ VgaNext \/ PlanesNext

Spec == Init /\ [][Next]_vars

\* The fairness of step, as long as it is a timer's or a screen's run: instructions
\* are executed, and timers called, on and on.
TimerSteps ==
  /\ part = "timer" /\ \E cycles \in Elapsed : Timer!ProcessorStep(cycles)
  /\ UNCHANGED <<part, pic, keyboardVars, mouseVars, diskVars, coreVars,
                 screenVars, clockVars, wideVars, debuggerVars,
                 vgaVars, planeVars>>
ScreenSteps ==
  /\ part = "screen" /\ Screen!ScanlineTimer
  /\ UNCHANGED <<part, pic, keyboardVars, timerVars, mouseVars, diskVars,
                 coreVars, clockVars, wideVars, debuggerVars,
                 vgaVars, planeVars>>

VgaSteps ==
  /\ part = "vga" /\ Vga!ScanlineTimer
  /\ UNCHANGED <<part, pic, keyboardVars, timerVars, mouseVars, diskVars,
                 coreVars, screenVars, clockVars, wideVars, debuggerVars, planeVars>>

FairSpec == Spec /\ WF_vars(TimerSteps) /\ WF_vars(ScreenSteps) /\ WF_vars(VgaSteps)
-----------------------------------------------------------------------------
\* What holds of a part is asked of its own behaviours: in the others it is as it was at
\* power-on.

\* The type invariants of the modules.
TypeOK ==
  /\ part = "controller" => Controller!TypeOK
  /\ part = "keyboard" => Kbd!TypeOK
  /\ part = "timer" => Timer!TypeOK
  /\ part = "mouse" => Mice!TypeOK
  /\ part = "disk" => Disks!TypeOK
  /\ part = "core" => Core!TypeOK
  /\ part = "screen" => Screen!TypeOK
  /\ part = "vga" => Vga!TypeOK
  /\ part = "planes" => Planar!TypeOK
  /\ part = "clock" => Clock!TypeOK
  /\ part = "debugger" => Debugger!TypeOK
  /\ part = "arithmetic" => WideTypeOK

\* Requests are lost by no write of the guest's, and taken the most urgent first (Pic);
\* and acknowledging a key does not reset the keyboard (Keyboard).
RequestsTaken ==
  Controller!RequestsKept /\ Controller!FixedPriority /\ Kbd!AckIsNoReset

\* What the keyboard holds for the guest is announced: a key event until it is read, and
\* the reset code, which key events do not replace (Keyboard).
KeysAnnounced == part = "keyboard" => Kbd!ResetCodeHeld /\ Kbd!UnreadAnnounced
\* A reset of the keyboard is announced (Keyboard; GLABIOS.ASM:4576).
ResetAnnounced == Kbd!ResetAnnounced

\* A running channel counts from a count that was written whole, a latched count is read
\* in two bytes of one moment (Pit), and so is the time of day (Rtc).
WholeCounts ==
  /\ part = "timer" => Timer!WholeCounts /\ Timer!LatchedPair
  /\ part = "clock" => Clock!TimeWhole
\* While the processor goes on, channel 0 keeps raising its line, once a count has ended
\* with its high byte (Pit), and the screen shows what was written, and its retrace
\* (Cga; VgaScreen).
TimerTicks ==
  /\ Timer!TimerTicks /\ (part = "screen" => Screen!Shown /\ Screen!RetraceSeen)
  /\ part = "vga" => Vga!LinesShown

\* A channel counts whichever bytes of its count were written (Pit; pit.odin:96-98).
CountsRun == Timer!CountsRun

\* The driver finds the byte it expects and knows the button when it has read
\* everything, which it is always called to do (Mouse).
DriverFollows == part = "mouse" => Mice!Aligned /\ Mice!ButtonKnown /\ Mice!NoByteStuck

\* The counts of drives are right, no assertion fails, and transfers within a drive's
\* parameters are complete, as long as the answers of the host's seek are taken for
\* success (Disk).
DiskInOrder == part = "disk" => Disks!DrivesCounted /\ Disks!TransfersComplete
\* A seek that answers the new position is taken for success (Disk; disk.odin:75).
SeekUnderstood == Disks!SeekUnderstood
\* The tray is that of libretro.h, but for the four promises named in Disk.
TraySpec == Disks!TraySpec
\* The frontend can remove the disk by an index past the list (Disk; core.odin:135).
DisksRemovable == Disks!DisksRemovable

\* An access reaches the module that claims the address, the switches tell the adapter
\* there is, and timers lose no cycle (Machine).
BusInOrder == part = "core" => Core!Routed /\ Core!SwitchesTrue /\ Core!CyclesCounted

\* The screen shows what the guest wrote unless it is marked as dirty, in frames of the
\* mode that was set (Cga, VgaScreen), and a pointer goes away when it is drawn twice
\* (VgaMemory).
ScreenCurrent ==
  /\ part = "screen" => Screen!ScreenCurrent
  /\ part = "vga" => Vga!ModeFollows /\ Vga!TextCurrent
  /\ part = "planes" => Planar!DrawnTwice
\* What the guest masks out of a write to the VGA's memory stays (VgaMemory).
MaskedKept == Planar!MaskedKept

\* Decimal and signed results are exact (WideArith).
ResultsExact == DecimalExact /\ SignedExact

\* The debugger's answers are true of the guest's registers and memory, and the guest
\* goes on with the registers it was left with (GdbData).
DebuggerExact == Debugger!AnswersTrue /\ Debugger!GuestAsLeft
=============================================================================
