-------------------------------- MODULE MCHost --------------------------------
(***************************************************************************)
(* Values for the hosts.                                                   *)
(*                                                                         *)
(* Kernel: two frame sizes, of which the firmware may refuse to make       *)
(* buffers, the fallback too; three samples, and a queue of four that is   *)
(* played in two parts.  USB: two devices, each of which may be unplugged  *)
(* and replaced by another.  Files: two handles and two files of up to two *)
(* bytes.                                                                  *)
(* Session: a frontend with everything, one without variables (the Circle  *)
(* kernel), one whose VFS API is of version 1, three without something the *)
(* core needs; the default speed and another; frames of 16 ms and of 50 ms.*)
(***************************************************************************)
EXTENDS Hosts

MCStarts == {<<0>>, <<0, 1>>}

Offers(variables, version, vfs, pixel, time) ==
  [variables |-> variables, version |-> version, vfs |-> vfs, pixel |-> pixel,
   time |-> time]
MCFrontends ==
  {Offers(TRUE, 3, TRUE, TRUE, TRUE), Offers(FALSE, 0, TRUE, TRUE, TRUE),
   Offers(TRUE, 1, TRUE, TRUE, TRUE),
   Offers(TRUE, 3, FALSE, TRUE, TRUE), Offers(TRUE, 3, TRUE, FALSE, TRUE),
   Offers(TRUE, 3, TRUE, TRUE, FALSE)}
MCDefaults == [video |-> "CGA", rifs |-> TRUE, speed |-> 4773]
=============================================================================
