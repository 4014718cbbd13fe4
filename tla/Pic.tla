--------------------------------- MODULE Pic ---------------------------------
(***************************************************************************)
(* The interrupt controller on its own: the guest's port writes, the       *)
(* devices' requests, the processor's acknowledgements and resets of the   *)
(* machine come in any order.                                              *)
(***************************************************************************)
EXTENDS PicOps

CONSTANTS Irqs,      \* lines the machine's devices raise
          Commands,  \* bytes the guest writes to port 0x20
          Data       \* bytes the guest writes to port 0x21

PicAssumption ==
  Irqs \in Byte /\ Commands \subseteq Byte /\ Data \subseteq Byte

VARIABLES pic

Init == pic = PicReset

Reset == pic' = PicReset
WriteCommand(data) == pic' = PicCommand(pic, data)
WriteData(data) == pic' = PicData(pic, data)
Irq(n) == pic' = PicIrq(pic, n)
Acknowledge == Deliverable(pic) # {} /\ pic' = PicAck(pic)

Next ==
  \/ Reset
  \/ \E data \in Commands : WriteCommand(data)
  \/ \E data \in Data : WriteData(data)
  \/ \E n \in Irqs : Irq(n)
  \/ Acknowledge

Spec == Init /\ [][Next]_pic
-----------------------------------------------------------------------------
\* Every register keeps the width and range that the struct gives it.
TypeOK == pic \in PicState

\* A line can only be masked once the whole ICW sequence has been written:
\* a byte meant as a mask that arrives earlier (pic.odin:76) is consumed as an
\* initialisation word, and ICW1 drops the previous mask.
MaskNeedsInit == pic.mask # {} => pic.step = 5

\* A request leaves the request register only by entering service, whatever the
\* guest writes in between; in particular re-initialising the controller keeps
\* the requests of the devices (pic.odin:51-56).
RequestsKept == [][Reset \/ pic.request \ pic'.request \subseteq pic'.service]_pic

\* The line that enters service is the most urgent of those that could.
FixedPriority ==
  [][\A i \in pic'.service \ pic.service :
       \A j \in Bit : j \in pic.request \ (pic.mask \cup pic.service) => i <= j]_pic
=============================================================================
