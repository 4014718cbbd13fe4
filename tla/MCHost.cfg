CONSTANTS
  Parts = {"kernel", "usb", "files", "session"}
  NoSize = NoSize  Desktop = Desktop  Nothing = Nothing
  Deleted = Deleted  Refused = {"size", "fallback"}  Sizes = {"cga", "vga"}
  BufferSize = 3  QueueSize = 4  Chunk = 3
  Devices = {"keyboard", "mouse"}  Plugs = {1, 2}
  Zero = Zero  Spoilt = Spoilt  Paths = {"ini", "img"}
  Images = {"img"}
  Slots = 2  Modes = {{"READ"}, {"READ", "WRITE", "UPDATE_EXISTING"}}
  Cells = {0, 1}  Starts <- MCStarts  MaxLength = 2
  Frontends <- MCFrontends  Contents = {"disk", "ini"}  Speeds = {7150}
  Defaults <- MCDefaults  Listed = {"rifs2", "VGA", "disk", "mouse"}
  NoMachine = NoMachine  Second = 1000  Elapsed = {16, 50}  MaxFrames = 2
SPECIFICATION FairSpec
CHECK_DEADLOCK FALSE
INVARIANTS TypeOK NothingOverrun PointersLive
PROPERTIES KernelGoesOn VfsSpec CoreSpec
