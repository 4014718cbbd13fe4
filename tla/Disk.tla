-------------------------------- MODULE Disk --------------------------------
(***************************************************************************)
(* The disk controller (src/modules/disk/disk.odin) and the disk control   *)
(* callbacks of the libretro core (src/frontend/core.odin:99-164), which   *)
(* change the image in the first floppy drive between two frames.          *)
(*                                                                         *)
(* The frontend is the environment.  It follows libretro.h: it replaces    *)
(* and selects images only while the tray is open, and closes the tray     *)
(* only on an image that has been set.  (An image is removed by an info    *)
(* without a path; a NULL info is dereferenced before the test at          *)
(* core.odin:150, which is left out.)  The guest is the environment too:   *)
(* it asks a drive for its parameters (INT 13h, AH=8) and transfers        *)
(* sectors within them.  Contents of sectors and status codes are left     *)
(* out.                                                                    *)
(***************************************************************************)
EXTENDS Integers, Sequences, FiniteSetsExt

CONSTANTS
  Images,         \* paths of disk images
  Size,           \* their sizes in bytes
  Floppies,       \* the images that the frontend puts into the tray
  DefaultImage,   \* the image that is used when no content is loaded
  NoImage,        \* the empty path, or an empty drive
  MaxList         \* bound of the model on the number of images in the list

VARIABLES
  loaded,      \* is content loaded?
  seek,        \* what the host's seek answers: the new "position", or "zero"
  drives,      \* the image in each drive
  counts,      \* num_fd and num_hd
  open,        \* how many images the host has open
  list,        \* disk_images
  index,       \* disk_image_index
  answer,      \* the last callback, and what it returned
  asserted,    \* history: an assertion of mount_disk or set_eject_state failed
  told,        \* history: the parameters the guest was given, for the disk in the drive
  short,       \* history: a transfer within these parameters was cut short
  refused      \* history: it was, as the answer of the seek was taken for a failure

vars == <<loaded, seek, drives, counts, open, list, index, answer, asserted, told, short,
          refused>>

Sector == 512
Drive  == {0, 1, 128, 129}

\* mount_disk's table of floppy formats; every other size is that of a hard disk.
Format(cylinders, sectors, heads) ==
  [cylinders |-> cylinders, sectors |-> sectors, heads |-> heads]
Formats ==
  [size \in {512, 163840, 368640, 737280, 1228800, 1474560} |->
    CASE size \in {512, 163840} -> Format(40, 8, 1)
      [] size = 368640 -> Format(40, 9, 2)
      [] size = 737280 -> Format(80, 9, 2)
      [] size = 1228800 -> Format(80, 15, 2)
      [] size = 1474560 -> Format(80, 18, 2)]

IsHd(image) == Size[image] \notin DOMAIN Formats

Geometry(image) ==
  IF IsHd(image)
    THEN [sectors |-> 63, heads |-> 16,
          cylinders |-> (Size[image] \div (63 * 16 * Sector)) % 65536]
    ELSE Formats[Size[image]]

\* mount_disk asserts that images consist of sectors.  The frontend puts floppies into the
\* tray.
DiskAssumption ==
  /\ DefaultImage \in Images /\ NoImage \notin Images /\ MaxList \in Nat
  /\ \A image \in Images : Size[image] \in Nat /\ Size[image] % Sector = 0
  /\ Floppies \subseteq {image \in Images : ~IsHd(image)}

\* An image that holds its geometry: a floppy's boot sector alone (the size of 512 in the
\* table) does not, nor does a hard disk of less than a cylinder.
Holds(image) ==
  IF IsHd(image) THEN Size[image] >= 63 * 16 * Sector ELSE Size[image] # Sector

Mounted == {d \in Drive : drives[d] # NoImage}
-----------------------------------------------------------------------------
\* AH=8: CH, CL and DH of the last sector; two bits of the cylinder are in CL.
LastSector(g) ==
  LET c == (g.cylinders - 1) % 65536
  IN  [ch |-> c % 256,
       cl |-> ((c \div 256) % 4) * 64 + (g.sectors % 64),
       dh |-> g.heads - 1]

\* What execute_and_set makes of CH, CL and DH.
Cylinder(r) == r.ch + (r.cl \div 64) * 256
FirstSector(r) == r.cl % 64
Lba(r, g) == (Cylinder(r) * g.heads + r.dh) * g.sectors + FirstSector(r) - 1

\* execute_operation: the number of sectors transferred, of the count asked for.
SeekFails(lba) == seek = "position" /\ lba # 0
Transferred_OneBased(image, r, count) ==  \* Mutant: the first sector is number zero.
  LET lba == Lba(r, Geometry(image)) + 1
  IN  IF FirstSector(r) = 0 \/ SeekFails(lba) THEN 0
      ELSE Max({0, Min({count, Size[image] \div Sector - lba})})
Transferred(image, r, count) ==
  LET lba == Lba(r, Geometry(image))
  IN  IF FirstSector(r) = 0 \/ SeekFails(lba) THEN 0
      ELSE Max({0, Min({count, Size[image] \div Sector - lba})})
-----------------------------------------------------------------------------
\* mount_disk(num, image) on the controller's fields; 0xFF selects the drive.
MountedAt(num, image) ==
  IF num # 255 THEN num
  ELSE IF IsHd(image) THEN counts.hd + 128 ELSE counts.fd

Counted(image) ==
  IF IsHd(image) THEN [counts EXCEPT !.hd = @ + 1] ELSE [counts EXCEPT !.fd = @ + 1]

MountAsserts(num, image) ==
  /\ Counted(image).fd <= 2
  /\ drives[num] = NoImage
  /\ Size[image] % Sector = 0
  /\ IsHd(image) <=> num >= 128

Mount(num, image) ==
  LET n == MountedAt(num, image)
  IN  /\ counts' = Counted(image) /\ open' = open + 1
      /\ IF MountAsserts(n, image)
           THEN drives' = [drives EXCEPT ![n] = image] /\ UNCHANGED asserted
           ELSE asserted' = TRUE /\ UNCHANGED drives
      /\ told' = [told EXCEPT ![n] = {}]

\* config "umount" of drive 0
CountsAfterEject == [counts EXCEPT !.fd = @ - 1]

Unmount ==
  /\ drives' = [drives EXCEPT ![0] = NoImage]
  /\ open' = open - 1 /\ counts' = CountsAfterEject
  /\ told' = [told EXCEPT ![0] = {}] /\ UNCHANGED asserted
-----------------------------------------------------------------------------
Unmounted == [d \in Drive |-> NoImage]
NothingTold == [d \in Drive |-> {}]

Init ==
  /\ loaded = FALSE /\ seek \in {"position", "zero"} /\ drives = Unmounted
  /\ counts = [fd |-> 0, hd |-> 0] /\ open = 0
  /\ list = <<>> /\ index = 0 /\ answer = [of |-> "none", ok |-> TRUE] /\ asserted = FALSE
  /\ told = NothingTold /\ short = FALSE /\ refused = FALSE

Running == loaded /\ ~asserted

\* retro_load_game, and setup_default_machine when the content is a disk image or none.
ListAfterLoad(image) == IF IsHd(image) THEN list ELSE Append(list, image)

Load(info) ==
  LET image == IF info = NoImage THEN DefaultImage ELSE info
  IN  /\ ~loaded /\ loaded' = TRUE
      /\ Mount(255, image)
      /\ list' = ListAfterLoad(image) /\ Len(list') <= MaxList
      /\ UNCHANGED <<seek, index, answer, short, refused>>

\* retro_unload_game; the list of images stays.
Unload ==
  /\ Running /\ loaded' = FALSE
  /\ drives' = Unmounted /\ open' = open - Cardinality(Mounted)
  /\ counts' = [fd |-> 0, hd |-> 0] /\ told' = NothingTold
  /\ UNCHANGED <<seek, list, index, answer, asserted, short, refused>>

Answers(call, ok) == answer' = [of |-> call, ok |-> ok]

\* The tray is open when the first drive is empty (get_eject_state).
TrayOpen == drives[0] = NoImage

Selected_First ==   \* Mutant: the index is ignored.
  IF list # <<>> THEN list[1] ELSE NoImage
Selected == IF index < Len(list) THEN list[index + 1] ELSE NoImage

\* set_eject_state; the frontend leaves the tray open on an index without an image.
\* Nothing happens when the tray is in that state already.
SetEjectState(ejected) ==
  /\ Running /\ (~ejected /\ index < Len(list) => Selected # NoImage)
  /\ IF TrayOpen = ejected
       THEN UNCHANGED <<drives, counts, open, asserted, told>>
     ELSE IF ejected THEN Unmount
     ELSE IF index < Len(list) THEN Mount(0, Selected)
     ELSE UNCHANGED <<drives, counts, open, asserted, told>>
  /\ Answers("set_eject_state", TrayOpen = ejected \/ ejected \/ index < Len(list))
  /\ UNCHANGED <<loaded, seek, list, index, short, refused>>

\* set_image_index
SetIndex(i) ==
  /\ Running /\ TrayOpen
  /\ IF i < Len(list) THEN Answers("set_image_index", TRUE) /\ index' = i
     ELSE Answers("set_image_index", FALSE) /\ UNCHANGED index
  /\ UNCHANGED <<loaded, seek, drives, counts, open, list, asserted, told, short,
                 refused>>

AddImage ==
  /\ Running /\ Len(list) < MaxList
  /\ list' = Append(list, NoImage) /\ Answers("add_image_index", TRUE)
  /\ UNCHANGED <<loaded, seek, drives, counts, open, index, asserted, told, short,
                 refused>>

\* replace_image_index; without a path (NoImage) nothing is replaced.
ReplaceImage(i, image) ==
  /\ Running /\ TrayOpen /\ i < Len(list)
  /\ Answers("replace_image_index", image # NoImage)
  /\ list' = IF image = NoImage THEN list ELSE [list EXCEPT ![i + 1] = image]
  /\ UNCHANGED <<loaded, seek, drives, counts, open, index, asserted, told, short,
                 refused>>
-----------------------------------------------------------------------------
\* The guest asks for the parameters of a drive,
Parameters(d) ==
  /\ Running /\ d \in Mounted
  /\ told' = [told EXCEPT ![d] = {LastSector(Geometry(drives[d]))}]
  /\ UNCHANGED <<loaded, seek, drives, counts, open, list, index, answer, asserted, short,
                 refused>>

\* and transfers a whole track, from its first sector, or the last sector of a track.
Transfer(d, last, cylinder, head, whole) ==
  LET track == [ch |-> cylinder % 256, dh |-> head,
                cl |-> (cylinder \div 256) * 64
                       + (IF whole THEN 1 ELSE FirstSector(last))]
      count == IF whole THEN FirstSector(last) ELSE 1
      cut   == Transferred(drives[d], track, count) < count
      unheard == FirstSector(track) # 0 /\ SeekFails(Lba(track, Geometry(drives[d])))
  IN  /\ Running
      /\ short' = (short \/ (cut /\ ~unheard))
      /\ refused' = (refused \/ (cut /\ unheard))
      /\ UNCHANGED <<loaded, seek, drives, counts, open, list, index, answer, asserted,
                     told>>

Transfers ==
  \E d \in Mounted : \E last \in told[d] : \E whole \in BOOLEAN :
    \E cylinder \in {0, Cylinder(last)} : \E head \in {0, last.dh} :
      Transfer(d, last, cylinder, head, whole)

Next ==
  \/ \E info \in Images \cup {NoImage} : Load(info)
  \/ Unload
  \/ \E ejected \in BOOLEAN : SetEjectState(ejected)
  \/ \E i \in 0..MaxList : SetIndex(i)
  \/ AddImage
  \/ \E i \in 0..MaxList - 1, image \in Floppies \cup {NoImage} : ReplaceImage(i, image)
  \/ \E d \in Drive : Parameters(d)
  \/ Transfers

Spec == Init /\ [][Next]_vars
-----------------------------------------------------------------------------
Calls == {"none", "set_eject_state", "set_image_index", "add_image_index",
          "replace_image_index"}
TypeOK ==
  /\ loaded \in BOOLEAN /\ seek \in {"position", "zero"}
  /\ drives \in [Drive -> Images \cup {NoImage}]
  /\ counts.fd \in 0..2 /\ counts.hd \in 0..2 /\ open \in 0..4
  /\ list \in Seq(Images \cup {NoImage}) /\ index \in 0..Max({0, Len(list) - 1})
  /\ answer \in [of : Calls, ok : BOOLEAN]
  /\ {asserted, short, refused} \subseteq BOOLEAN

\* No order of the frontend's calls makes an assertion fail (disk.odin:204-208,
\* core.odin:117), and num_fd and num_hd, which choose the drive of the next image,
\* count the mounted drives, whose images alone the host keeps open.
DrivesCounted ==
  /\ ~asserted
  /\ counts.fd = Cardinality(Mounted \cap {0, 1})
  /\ counts.hd = Cardinality(Mounted \cap {128, 129})
  /\ open = Cardinality(Mounted)

\* The tray is the one of libretro.h (DiskTray): the guest finds the image that was
\* selected when the tray was closed, whatever the frontend does while it is open and
\* whatever it adds while it is closed, over any contents; but for four of its
\* promises, which the core does not keep.  A machine without a floppy starts with an
\* open tray (core.odin:122-128); an index past the list is refused (135-137); so is the
\* removal of an image (150-152); and the list and the index outlive the content, so
\* that the next content's floppy is not at the index (55-56).
TrayLapses == {"starts open", "index past the list", "removal refused", "list kept"}
Tray == INSTANCE DiskTray WITH
  Lapses <- TrayLapses, running <- loaded, ejected <- loaded /\ TrayOpen,
  images <- list, inserted <- drives[0]
TraySpec == Tray!Spec

\* What libretro.h:5264 says of an index past the list, that the frontend removes the
\* disk (set_image_index, core.odin:135-137).
Removable == INSTANCE DiskTray WITH
  Lapses <- TrayLapses \ {"index past the list"},
  running <- loaded, ejected <- loaded /\ TrayOpen,
  images <- list, inserted <- drives[0]
DisksRemovable == Removable!Spec

\* A guest that stays within the parameters it was given transfers every sector, as
\* long as the disk is not changed and the controller accepts what the host's seek
\* answers: the geometry fits in the image, and cylinder, head and sector survive
\* their packing into CH, CL and DH both ways.
TransfersComplete == ~short

\* A seek that answers the new position, as libretro.h:2819 has it, does not stop a
\* transfer (execute_operation, disk.odin:75).
SeekUnderstood == ~refused
=============================================================================
