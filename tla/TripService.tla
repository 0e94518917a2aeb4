------------------------------ MODULE TripService ------------------------------
(***************************************************************************)
(* modules/trips/trips.service.ts, as far as dispatch depends on it.  Only *)
(* complete looks at the status of the trip it is called on: every other   *)
(* endpoint tests that the caller is the trip's driver and writes.  The    *)
(* start OTP, the delivery proof and the payment decide whether a call is  *)
(* refused, which is left open here: a refused call changes nothing.       *)
(***************************************************************************)
EXTENDS DispatchService

\* The driver calls one of the endpoints of a trip.  The app offers the button for
\* the status it shows, which may be seconds old, and a call may be late or sent
\* twice: the trip may be in any status by now, cancelled and completed included.
Called(r, op, o) ==
    /\ op \in Operations
    /\ At(r, "idle")
    /\ HasTrip(o)

\* The driver of the trip is the caller (assertDriver): the columns orderId and
\* driverId never change, so reading them and the transaction are one step.
MoveTrip(o, tripStatus, orderStatus) ==
    /\ trip' = [trip EXCEPT ![o].status = tripStatus]
    /\ order' = [order EXCEPT ![o] = orderStatus]
    /\ UNCHANGED <<due, offer, avail, geo, nextOrder>>

AcceptTrip(r, o) ==
    /\ Called(r, "enRoute", o)
    /\ MoveTrip(o, "DRIVER_EN_ROUTE", order[o])
    /\ UNCHANGED req

ArrivedPickup(r, o) ==
    /\ Called(r, "arrive", o)
    /\ MoveTrip(o, "ARRIVED_PICKUP", "AT_PICKUP")
    /\ UNCHANGED req

StartLoading(r, o) ==
    /\ Called(r, "load", o)
    /\ MoveTrip(o, "LOADING", "LOADING")
    /\ UNCHANGED req

\* The queue is filled before the handler returns.
StartTransit(r, o) ==
    /\ Called(r, "transit", o)
    /\ MoveTrip(o, "IN_TRANSIT", "IN_TRANSIT")
    /\ Enter(r, "transit", "queueGetSlot", o, trip[o].driver, None)

Complete(r, o) ==
    /\ trip[o].status = "IN_TRANSIT"
    /\ Enter(r, "complete", "completeCommit", o, trip[o].driver, None)
    /\ UNCHANGED rows

CompleteCommit(r) ==
    /\ At(r, "completeCommit")
    /\ trip' = [trip EXCEPT ![req[r].order].status = "COMPLETED"]
    /\ order' = [order EXCEPT ![req[r].order] = "DELIVERED"]
    /\ avail' = [avail EXCEPT ![req[r].driver] = "ONLINE"]
    /\ Goto(r, "activateGetSlot")
    /\ UNCHANGED <<due, offer, geo, nextOrder>>

\* The queued job is on its way: the driver is BUSY with it.
CompleteBusy(r) ==
    /\ At(r, "completeBusy")
    /\ avail' = [avail EXCEPT ![req[r].driver] = "BUSY"]
    /\ Finish(r)
    /\ UNCHANGED <<order, due, offer, trip, geo, nextOrder>>
===============================================================================
