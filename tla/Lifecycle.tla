------------------------------- MODULE Lifecycle -------------------------------
(***************************************************************************)
(* The life of an order as its customer and its driver see it, without     *)
(* handlers, offers or drivers.  A ride, once there, is the driver's to    *)
(* move: the services take the driver's word for where it stands.  What    *)
(* they do promise is that the customer's status moves with it, that only  *)
(* a ride in transit is delivered, that only an order nobody has set out   *)
(* for is cancelled, and that an order with a ride is never searched for,  *)
(* or given away, again.                                                   *)
(***************************************************************************)
CONSTANTS
    Orders,
    OpenStatus  \* the statuses under which an order without a ride is searched for

VARIABLES
    status,     \* status[o]: what the customer sees of order o
    ride        \* ride[o]: what the driver sees of it, "NONE" before there is one

lvars == <<status, ride>>

LInit ==
    /\ status = [o \in Orders |-> "NONE"]
    /\ ride = [o \in Orders |-> "NONE"]

\* Where the driver may say the ride is, and what the customer is shown of it.
Legs == {[to |-> "ARRIVED_PICKUP", shown |-> "AT_PICKUP"],
         [to |-> "LOADING", shown |-> "LOADING"],
         [to |-> "IN_TRANSIT", shown |-> "IN_TRANSIT"]}

Waiting(o) == ride[o] = "NONE" /\ status[o] \in OpenStatus

Book(o) ==
    /\ status[o] = "NONE"
    /\ \E s \in {"CREATED", "MATCHING"} : status' = [status EXCEPT ![o] = s]
    /\ UNCHANGED ride

Search(o) ==
    /\ Waiting(o)
    /\ status' = [status EXCEPT ![o] = "MATCHING"]
    /\ UNCHANGED ride

Assign(o) ==
    /\ Waiting(o)
    /\ status' = [status EXCEPT ![o] = "ASSIGNED"]
    /\ ride' = [ride EXCEPT ![o] = "ASSIGNED"]

\* The driver sets out, or the queue does for the driver: the customer's status
\* stays as it is.
SetOut(o) ==
    /\ ride[o] # "NONE"
    /\ ride' = [ride EXCEPT ![o] = "DRIVER_EN_ROUTE"]
    /\ UNCHANGED status

Drive(o) ==
    \E leg \in Legs :
        /\ ride[o] # "NONE"
        /\ ride' = [ride EXCEPT ![o] = leg.to]
        /\ status' = [status EXCEPT ![o] = leg.shown]

Deliver(o) ==
    /\ ride[o] = "IN_TRANSIT"
    /\ ride' = [ride EXCEPT ![o] = "COMPLETED"]
    /\ status' = [status EXCEPT ![o] = "DELIVERED"]

Cancel(o) ==
    /\ status' = [status EXCEPT ![o] = "CANCELLED"]
    /\ \/ Waiting(o) /\ UNCHANGED ride
       \/ /\ ride[o] = "ASSIGNED"
          /\ ride' = [ride EXCEPT ![o] = "CANCELLED"]

LNext ==
    \E o \in Orders :
        \/ Book(o) \/ Search(o) \/ Assign(o) \/ SetOut(o) \/ Drive(o) \/ Deliver(o) \/ Cancel(o)

LSpec == LInit /\ [][LNext]_lvars
===============================================================================
