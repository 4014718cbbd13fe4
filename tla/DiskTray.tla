------------------------------- MODULE DiskTray -------------------------------
(***************************************************************************)
(* The disk control interface of tools/libretro/libretro.h, for a frontend *)
(* that changes the disk of a running core: a tray that is open or closed, *)
(* a list of images, and an index into it.  Which image the guest finds in *)
(* its drive depends on nothing else.                                      *)
(*                                                                         *)
(* Lapses names the promises that are not kept; without any, the module    *)
(* says what the header says.                                              *)
(*                                                                         *)
(* The frontend replaces and selects images only while the tray is open,   *)
(* and uses no index that was added and has no image yet.                  *)
(***************************************************************************)
EXTENDS Integers, Sequences, SequencesExt

CONSTANTS
  Images, Floppies,
  NoImage,     \* no path, or no disk
  MaxList,     \* bound of the model on the number of images
  Lapses       \* "starts open", "index past the list", "removal refused", "list kept"

VARIABLES
  running,   \* is content loaded?
  ejected,   \* is the tray open?
  images,    \* the list
  index,     \* the number of the current image, from 0; past the list: no disk
  inserted,  \* the image the guest finds
  answer     \* the last call, and what it returned

Init ==
  /\ running = FALSE /\ ejected = FALSE /\ images = <<>> /\ index = 0
  /\ inserted = NoImage /\ answer = [of |-> "none", ok |-> TRUE]

Answers(call, ok) == answer' = [of |-> call, ok |-> ok]

Current == IF index < Len(images) THEN images[index + 1] ELSE NoImage

\* The content is a disk of the list, or something else.  "The initial state is closed."
LoadGame(image) ==
  /\ ~running /\ running' = TRUE
  /\ \/ images' = Append(images, image) /\ inserted' = image
     \/ images' = images /\ inserted' = NoImage
  /\ ejected' = ("starts open" \in Lapses /\ inserted' = NoImage)
  /\ UNCHANGED <<index, answer>>

\* Nothing happens to a tray that is in that state; FALSE if it cannot change its state.
SetEjectState(open) ==
  /\ running
  /\ \/ /\ Answers("set_eject_state", TRUE) /\ ejected' = open
        /\ inserted' = IF open THEN NoImage
                       ELSE IF ejected THEN Current ELSE inserted
     \/ /\ Answers("set_eject_state", FALSE) /\ open # ejected
        /\ UNCHANGED <<ejected, inserted>>
  /\ UNCHANGED <<running, images, index>>

\* An index past the list is the frontend removing the disk.
SetImageIndex(i) ==
  /\ running /\ ejected
  /\ \/ Answers("set_image_index", TRUE) /\ index' = i
     \/ /\ i >= Len(images) /\ "index past the list" \in Lapses
        /\ Answers("set_image_index", FALSE) /\ UNCHANGED index
  /\ UNCHANGED <<running, ejected, images, inserted>>

ReplaceImageIndex(i, image) ==
  /\ running /\ ejected /\ i < Len(images)
  /\ Answers("replace_image_index", TRUE) /\ images' = [images EXCEPT ![i + 1] = image]
  /\ UNCHANGED <<running, ejected, index, inserted>>

\* replace_image_index(i, NULL): the images behind it move up.
RemoveImageIndex(i) ==
  /\ running /\ ejected /\ i < Len(images)
  /\ \/ Answers("replace_image_index", TRUE) /\ images' = RemoveAt(images, i + 1)
     \/ /\ "removal refused" \in Lapses
        /\ Answers("replace_image_index", FALSE) /\ UNCHANGED images
  /\ UNCHANGED <<running, ejected, index, inserted>>

\* The new index has no image yet.
AddImageIndex ==
  /\ running
  /\ Answers("add_image_index", TRUE) /\ images' = Append(images, NoImage)
  /\ UNCHANGED <<running, ejected, index, inserted>>

\* The list is the content's.
UnloadGame ==
  /\ running /\ running' = FALSE /\ ejected' = FALSE /\ inserted' = NoImage
  /\ IF "list kept" \in Lapses THEN UNCHANGED <<images, index>>
     ELSE images' = <<>> /\ index' = 0
  /\ UNCHANGED answer

Next ==
  \/ \E image \in Images : LoadGame(image)
  \/ \E open \in BOOLEAN : SetEjectState(open)
  \/ \E i \in 0..MaxList : SetImageIndex(i)
  \/ \E i \in 0..MaxList - 1 : \E image \in Floppies : ReplaceImageIndex(i, image)
  \/ \E i \in 0..MaxList - 1 : RemoveImageIndex(i)
  \/ AddImageIndex \/ UnloadGame

Spec == Init /\ [][Next]_<<running, ejected, images, index, inserted, answer>>
=============================================================================
