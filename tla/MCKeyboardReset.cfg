CONSTANTS
  Parts = {"keyboard"}
  Routines = {}
  Half = 128
  Words = {0, 1, 16, 127, 128, 255}
  Packed = {0, 9, 16, 85, 153}
  Digits = {0, 1, 5, 9}
  MaxWords = 2
  Irqs = {0, 1}  Commands <- MCCommands  MaskBytes <- MCMaskBytes
  Keys = {30, 42}
  TimerBase = 2  Chans = {0}  AccessModes = {"LOW_BYTE", "HIGH_BYTE", "TOGGLE"}
  Elapsed = {1, 5}  Interval = 2
  MaxBuffer = 6
  small = small  large = large  fixed = fixed  NoImage = NoImage
  Images = {small, large, fixed}  ImageSize <- MCImageSize  Floppies = {small, large}
  DefaultImage = fixed  MaxList = 3
  Modules = {"chipset", "vga", "ems", "rtc"}  Blocks = 4  Ports = {0, 1, 2}
  Claims <- MCClaims  Bases <- MCBases  Io <- MCIo  Intervals <- MCIntervals
  Unreliable = {"rtc"}  Settable = {4}  Frequencies = {1, 2}  Second = 2  Cycles = {1, 2}
  Values = {0, 1}  Lines = 3  Visible = 1  Sync = 2  Quarters = 2
  Sizes = {1, 2}  TextLines = 1
  Cells = {0, 1}  NumPlanes = 2  PlaneWidth = 2  VgaFiles <- MCFiles
  PlaneData = {{0}, {1}}
  ClockBase = 2
  DigitBase = 2  Escape = 3  EscapeBit = 2  CpuWord = 16  Para = 2  Room = 2
  Numbers = {3, 20}  Spoilt = {1, 2, 14}  Places = {5, 31}  ByteStrings <- MCWritten
  MaxCommands = 2  Junk = Junk
SPECIFICATION Spec
PROPERTIES ResetAnnounced
