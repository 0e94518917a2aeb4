------------------------------- MODULE RideStore -------------------------------
(***************************************************************************)
(* The rows and keys that the order, dispatch, trip and driver services    *)
(* of the backend share: Postgres tables (through Prisma) and Redis keys,  *)
(* and the HTTP requests in flight.  The services run on one Node process  *)
(* or on several: whatever the number, two requests interleave at every    *)
(* await, so a request is a program counter and the values it has read,    *)
(* and each of its database round trips is one step.                       *)
(***************************************************************************)
EXTENDS Integers, FiniteSets

CONSTANTS
    Orders,         \* the orders that may be booked
    Drivers,        \* approved drivers with a known location
    Offers,         \* TripOffer ids, numbered: the bound on offers ever made
    Requests,       \* slots for requests in flight: the bound on concurrency
    None,           \* a null column, an absent key
    OrderVehicle,   \* OrderVehicle[o]: rank of the vehicle type o asks for
    DriverVehicle,  \* DriverVehicle[d]: rank of the vehicle type d drives
    Operations      \* the endpoints, timers and failures of this instance

ASSUME OffersAreNumbered == Offers \subseteq Nat
ASSUME VehicleRanks == /\ OrderVehicle \in [Orders -> 1..3]
                       /\ DriverVehicle \in [Drivers -> 1..3]
ASSUME NoneIsNoValue == None \notin Orders \cup Drivers \cup Offers

VARIABLES
    order,      \* order[o]: Order.status, "NONE" before the row exists
    due,        \* the orders whose scheduledAt has passed
    offer,      \* offer[f]: a TripOffer row
    trip,       \* trip[o]: the Trip row with orderId o (the column is unique)
    avail,      \* avail[d]: DriverProfile.availabilityStatus (Postgres)
    geo,        \* geo[d]: the Redis geo index that lists d
    nextOrder,  \* nextOrder[d]: the Redis key driver:{d}:next-order
    req         \* req[r]: the request in slot r

rows == <<order, due, offer, trip, avail, geo, nextOrder>>
vars == <<order, due, offer, trip, avail, geo, nextOrder, req>>

-------------------------------------------------------------------------------
OrderStatus == {"CREATED", "MATCHING", "ASSIGNED", "AT_PICKUP", "LOADING",
                "IN_TRANSIT", "DELIVERED", "CANCELLED"}
OfferStatus == {"PENDING", "ACCEPTED", "REJECTED", "EXPIRED", "CANCELLED"}
TripStatus == {"ASSIGNED", "DRIVER_EN_ROUTE", "ARRIVED_PICKUP", "LOADING",
               "IN_TRANSIT", "COMPLETED", "CANCELLED"}
AvailabilityStatus == {"OFFLINE", "ONLINE", "BUSY"}

\* The statuses under which a driver is on the road with the trip: the list
\* acceptOffer counts.
Moving == {"DRIVER_EN_ROUTE", "ARRIVED_PICKUP", "LOADING", "IN_TRANSIT"}
\* The list cancel counts: the trip has not ended.
Active == Moving \cup {"ASSIGNED"}

NoTrip == [status |-> "NONE", driver |-> None]
NoOffer == [status |-> "NONE", order |-> None, driver |-> None, overdue |-> FALSE]

\* The columns of a row are not null.
OfferRow == [status : OfferStatus, order : Orders, driver : Drivers, overdue : BOOLEAN]
TripRow == [status : TripStatus, driver : Drivers]

HasTrip(o) == trip[o].status # "NONE"
Exists(f) == offer[f].status # "NONE"
OffersOf(o) == {f \in Offers : Exists(f) /\ offer[f].order = o}
OffersTo(d) == {f \in Offers : Exists(f) /\ offer[f].driver = d}
\* status = PENDING and expiresAt > now
Live(f) == offer[f].status = "PENDING" /\ ~offer[f].overdue

\* vehicleMatchType(asked, offered) is not null: EXACT or UPGRADE.
VehicleMatches(asked, offered) == offered >= asked
Suits(d, o) == VehicleMatches(OrderVehicle[o], DriverVehicle[d])

-------------------------------------------------------------------------------
\* Where a request stands, named after the round trip it makes next.
Steps == {"idle",
    "createInsert", "cancelCommit", "scheduledMatching",
    "assignFindTrip", "assignFindOffer", "findTried", "pick", "createOffer", "setMatching",
    "lapse", "acceptFindTrip", "acceptLate", "acceptCommit", "acceptCount", "acceptQueue",
    "rejectWrite", "reofferFindTrip", "sweep", "sweepFindOrder",
    "queueGetSlot", "queueFindOrder", "queueCreateOffer",
    "completeCommit", "activateGetSlot", "activateFindTrip", "activateStart",
    "activateDelSlot", "activateDrop", "completeBusy"}

Request == [pc : Steps,
            order : Orders \cup {None}, driver : Drivers \cup {None},
            offer : Offers \cup {None},
            tried : SUBSET Drivers,     \* drivers createNextOffer excludes
            batch : SUBSET Offers]      \* offers a sweep has still to expire

Idle == [pc |-> "idle", order |-> None, driver |-> None, offer |-> None,
         tried |-> {}, batch |-> {}]

At(r, pc) == req[r].pc = pc
\* A new request enters slot r.
Enter(r, op, pc, o, d, f) ==
    /\ op \in Operations
    /\ At(r, "idle")
    /\ req' = [req EXCEPT ![r] = [Idle EXCEPT !.pc = pc, !.order = o, !.driver = d, !.offer = f]]
Goto(r, pc) == req' = [req EXCEPT ![r].pc = pc]
Finish(r) == req' = [req EXCEPT ![r] = Idle]

TypeOK ==
    /\ order \in [Orders -> OrderStatus \cup {"NONE"}]
    /\ due \subseteq Orders
    /\ offer \in [Offers -> OfferRow \cup {NoOffer}]
    /\ trip \in [Orders -> TripRow \cup {NoTrip}]
    /\ avail \in [Drivers -> AvailabilityStatus]
    /\ geo \in [Drivers -> AvailabilityStatus]
    /\ nextOrder \in [Drivers -> Orders \cup {None}]
    /\ req \in [Requests -> Request]

\* Nothing is booked; rebuildGeoIndexes has put every driver in the index of
\* its stored availability.
Init ==
    /\ order = [o \in Orders |-> "NONE"]
    /\ due = {}
    /\ offer = [f \in Offers |-> NoOffer]
    /\ trip = [o \in Orders |-> NoTrip]
    /\ avail \in [Drivers -> {"OFFLINE", "ONLINE"}]
    /\ geo = avail
    /\ nextOrder = [d \in Drivers |-> None]
    /\ req = [r \in Requests |-> Idle]
===============================================================================
