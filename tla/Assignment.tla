------------------------------ MODULE Assignment ------------------------------
(***************************************************************************)
(* What dispatch promises of an order, without handlers, Redis or offers   *)
(* as rows: a driver is first offered the order, the order is given once,  *)
(* to a driver it was offered to, and is never given again.                *)
(***************************************************************************)
CONSTANTS Orders, Drivers, Nobody

VARIABLES
    offeredTo,  \* offeredTo[o]: the drivers order o has been offered to
    assignee    \* assignee[o]: the driver order o was given to, or Nobody

avars == <<offeredTo, assignee>>

AInit ==
    /\ offeredTo = [o \in Orders |-> {}]
    /\ assignee = [o \in Orders |-> Nobody]

\* The order is offered to one more driver (offering it again changes nothing).
Offer(o, d) ==
    /\ offeredTo' = [offeredTo EXCEPT ![o] = @ \cup {d}]
    /\ UNCHANGED assignee

\* The order is given to a driver it was offered to.
Give(o, d) ==
    /\ assignee[o] = Nobody
    /\ d \in offeredTo[o]
    /\ assignee' = [assignee EXCEPT ![o] = d]
    /\ UNCHANGED offeredTo

ANext == \E o \in Orders, d \in Drivers : Offer(o, d) \/ Give(o, d)

ASpec == AInit /\ [][ANext]_avars
===============================================================================
