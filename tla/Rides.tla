--------------------------------- MODULE Rides ---------------------------------
(***************************************************************************)
(* The order, dispatch, trip and driver services together: every endpoint  *)
(* of theirs that moves an order, called by customers, drivers and         *)
(* operators in any order and at the same time.                            *)
(***************************************************************************)
EXTENDS OrderService, TripService, DriverService

\* A request dies between two round trips: the process restarts, or an await
\* (a notification, a Redis call) throws.
Fail(r) ==
    /\ "fail" \in Operations
    /\ req[r].pc # "idle"
    /\ Finish(r)
    /\ UNCHANGED rows

Calls(r) ==
    \/ ProcessExpired(r)
    \/ \E o \in Orders :
        \/ CreateOrder(r, o) \/ FindById(r, o) \/ AssignOrder(r, o) \/ CancelOrder(r, o)
        \/ RunScheduled(r, o) \/ AcceptTrip(r, o) \/ ArrivedPickup(r, o) \/ StartLoading(r, o)
        \/ StartTransit(r, o) \/ Complete(r, o)
    \/ \E f \in Offers :
        \/ ReadOverdue(r, "accept", f) \/ ReadOverdue(r, "reject", f)
        \/ \E d \in Drivers : AcceptOffer(r, f, d) \/ RejectOffer(r, f, d)

\* The round trips a request in flight still makes.
Continue(r) ==
    \/ SearchSteps(r) \/ AcceptSteps(r) \/ QueueSteps(r)
    \/ CreateInsert(r) \/ CancelCommit(r) \/ CompleteCommit(r) \/ CompleteBusy(r)

Environment ==
    \/ \E f \in Offers : OfferDeadline(f)
    \/ \E o \in Orders : ScheduleDue(o)
    \/ \E d \in Drivers :
        \/ SlotExpires(d) \/ UpdateLocation(d)
        \/ \E s \in AvailabilityStatus : SetAvailability(d, s)

Next == Environment \/ \E r \in Requests : Calls(r) \/ Continue(r) \/ Fail(r)

Spec == Init /\ [][Next]_vars

\* A request in flight goes on; an offer's two minutes pass; the customer's app
\* asks for an order that is MATCHING every five seconds (CustomerTrackingScreen),
\* so the poll gets its turn between other requests again and again.  Nothing
\* obliges an operator, a driver, or the sweep, which no worker calls.
Fairness ==
    /\ \A r \in Requests : WF_vars(Continue(r))
    /\ \A f \in Offers : WF_vars(OfferDeadline(f))
    /\ \A o \in Orders : SF_vars(\E r \in Requests : FindById(r, o))

FairSpec == Spec /\ Fairness

-------------------------------------------------------------------------------
\* An accepted offer is the offer the order's trip came from: the trip exists,
\* its driver is the one who accepted, and no other offer of the order is
\* accepted.  (acceptOffer: one transaction, and Trip.orderId is unique.)
AcceptedOfferIsTheTrip ==
    \A f \in Offers : offer[f].status = "ACCEPTED" =>
        /\ trip[offer[f].order].status # "NONE"
        /\ trip[offer[f].order].driver = offer[f].driver
        /\ \A g \in OffersOf(offer[f].order) : offer[g].status = "ACCEPTED" => g = f

RideStatus == {"ASSIGNED", "AT_PICKUP", "LOADING", "IN_TRANSIT", "DELIVERED"}

\* An order that has reached a ride status has a trip, whatever the searches,
\* cancellations and failures that overlap with its assignment.
RideHasTrip == \A o \in Orders : order[o] \in RideStatus => HasTrip(o)

\* The order in a driver's queue slot is one the same driver has a trip for:
\* the slot is written by the request that committed the trip.
QueueSlotIsOwnTrip ==
    \A d \in Drivers : nextOrder[d] # None => trip[nextOrder[d]].driver = d

\* A search never offers an order to a driver who was offered it before: a
\* re-offer goes to "the next ranked candidate not already tried".
SearchSkipsTriedDrivers ==
    \A r \in Requests : At(r, "createOffer") =>
        \A f \in OffersOf(req[r].order) : offer[f].driver # req[r].driver

\* A cancelled order is out of the market: none of its offers can be accepted, and
\* its trip, if it had one, is cancelled with it, so that the queue never starts it.
\* Only the driver's own word, from a screen that is behind, puts it on the road.
CancellationIsComplete ==
    \A o \in Orders : order[o] = "CANCELLED" =>
        /\ \A f \in OffersOf(o) : offer[f].status # "PENDING"
        /\ trip[o].status \in {"NONE", "CANCELLED", "DRIVER_EN_ROUTE"}

\* The customer's status for a trip's.  Setting out writes the trip alone, so that
\* a driver on the way says nothing but that the order has been given.
OrderStatusesFor(tripStatus) ==
    CASE tripStatus = "ARRIVED_PICKUP" -> {"AT_PICKUP"}
      [] tripStatus = "COMPLETED" -> {"DELIVERED"}
      [] tripStatus = "DRIVER_EN_ROUTE" -> RideStatus \cup {"CANCELLED"}
      [] OTHER -> {tripStatus}

\* The customer's view and the driver's agree: an order with a trip has a status
\* that goes with the trip's, and never one under which it would be searched for.
OrderFollowsTrip == \A o \in Orders : HasTrip(o) => order[o] \in OrderStatusesFor(trip[o].status)

\* The job that complete starts next is still waiting for its driver when the start
\* is written: not cancelled, not started and not completed since it was looked up.
QueuedJobIsWaiting ==
    \A r \in Requests : At(r, "activateStart") => trip[req[r].order].status = "ASSIGNED"

\* A ride is cancelled only before the driver has set out ("Driver has already
\* started the trip. Cancellation is no longer allowed.").
NoCancellationOnceStarted ==
    [][\A o \in Orders : (trip[o].status \in Moving) => trip'[o].status # "CANCELLED"]_vars

\* Every offer goes to a driver whose vehicle is of the type ordered or larger.
OffersFitVehicle ==
    \A f \in Offers : Exists(f) => Suits(offer[f].driver, offer[f].order)

\* Driver d has carried an order that asks for no larger a vehicle than order o.
Follows(d, o, trips) ==
    \E p \in Orders : trips[p].driver = d /\ VehicleMatches(OrderVehicle[p], OrderVehicle[o])

\* An offer for a vehicle that is too small only comes from the next-job queue: it
\* goes to a driver who is given orders, and compares the new order with one of them.
OffersFitOrFollow ==
    \A f \in Offers : Exists(f) => \/ Suits(offer[f].driver, offer[f].order)
                                   \/ Follows(offer[f].driver, offer[f].order, trip)

\* While nobody answers for it, the search of an order reaches every online
\* driver with a fitting vehicle: such a driver is offered the order, unless it
\* is assigned or cancelled or the driver leaves the index first.
SearchReachesDrivers ==
    \A o \in Orders, d \in Drivers :
        (order[o] = "MATCHING" /\ Suits(d, o) /\ geo[d] = "ONLINE")
            ~> \/ \E f \in OffersOf(o) : offer[f].driver = d
               \/ HasTrip(o) \/ order[o] # "MATCHING" \/ geo[d] # "ONLINE"

\* The statuses under which a search may put an order on the market: assignOrder
\* does not look at the status, so an operator can reopen a cancelled order.
OpenStatus == {"CREATED", "MATCHING"} \cup (IF "assign" \in Operations THEN {"CANCELLED"} ELSE {})

\* What an order's customer and its driver see of it: see Lifecycle.
Life == INSTANCE Lifecycle WITH
    status <- order,
    ride <- [o \in Orders |-> trip[o].status]

\* What dispatch promises of assignment: see Assignment.
Assigned == INSTANCE Assignment WITH
    Nobody <- None,
    offeredTo <- [o \in Orders |-> {offer[f].driver : f \in OffersOf(o)}],
    assignee <- [o \in Orders |-> trip[o].driver]

\* What a request in flight may rely on of the rows it has read, however old the
\* reading: offers and trips are never deleted, nor given to another driver.
LateSteps == {"acceptFindTrip", "acceptLate", "acceptCommit", "acceptCount", "acceptQueue"}
TripSteps == {"acceptCount", "acceptQueue", "completeCommit"}
DriverSteps == LateSteps \cup TripSteps \cup
    {"createOffer", "rejectWrite", "queueGetSlot", "queueFindOrder", "queueCreateOffer",
     "activateGetSlot", "activateFindTrip", "activateStart", "activateDelSlot", "activateDrop",
     "completeBusy"}

Sound(q, offers, trips) ==
    /\ q.pc \notin {"idle", "lapse", "sweep", "activateGetSlot"} => q.order \in Orders
    /\ q.pc \in DriverSteps => q.driver \in Drivers
    /\ q.pc \in LateSteps \cup {"lapse", "rejectWrite"} =>
        q.offer \in Offers /\ offers[q.offer].status # "NONE"
    /\ q.pc \in LateSteps =>
        offers[q.offer].order = q.order /\ offers[q.offer].driver = q.driver
    /\ q.pc \in TripSteps => trips[q.order].driver = q.driver
    /\ q.pc \in TripSteps \cup {"activateStart"} => trips[q.order].status # "NONE"
    /\ q.pc = "cancelCommit" /\ q.driver # None => trips[q.order].status # "NONE"
    /\ \A f \in q.batch : offers[f].status # "NONE"

\* The inductive invariant of the safety proofs.
IInv ==
    /\ TypeOK
    /\ \A r \in Requests : Sound(req[r], offer, trip)
    /\ AcceptedOfferIsTheTrip
    /\ RideHasTrip
    /\ QueueSlotIsOwnTrip

\* What the steps that lead to an offer rely on: the search has looked at the
\* driver's vehicle, the queue at the vehicle of an order the driver has.
Fits(q, trips) ==
    /\ q.pc = "createOffer" => Suits(q.driver, q.order)
    /\ q.pc \in {"queueGetSlot", "queueFindOrder"} => trips[q.order].driver = q.driver
    /\ q.pc = "queueCreateOffer" => Follows(q.driver, q.order, trips)

\* The inductive invariant behind OffersFitOrFollow, next to IInv.
FitInv == OffersFitOrFollow /\ \A r \in Requests : Fits(req[r], trip)

\* Every step of the four services is a step of Assignment or changes nothing of
\* it: an order is only given to a driver it was offered to, once, and for good.
ImplementsAssignment == Assigned!ASpec

\* While the requests about an order do not overlap, the services move the order
\* along its lifecycle, whatever the driver's app sends and however late: see
\* Lifecycle for what is kept of it.
FollowsLifecycle == Life!LSpec

-------------------------------------------------------------------------------
\* The orders a request in flight is about: the one it has read, and those of the
\* offers it has read.
About(q) ==
    {o \in Orders : q.pc # "idle" /\ (q.order = o \/ \E f \in q.batch \cup {q.offer} :
                                           f \in Offers /\ offer[f].order = o)}

\* No write to the rows of order o: its status, its trip and its offers.  That an
\* offer passes its expiry is no write.
SameRows(o) ==
    /\ order'[o] = order[o]
    /\ trip'[o] = trip[o]
    /\ \A f \in Offers : o \in {offer[f].order, offer'[f].order} =>
           offer'[f] = [offer[f] EXCEPT !.overdue = offer'[f].overdue]

\* Whatever step is taken, the orders of the other requests in flight are left
\* alone.
Undisturbed ==
    \A r \in Requests : req'[r] = req[r] => \A o \in About(req[r]) : SameRows(o)

\* What a lock on the order, held by a request from its first read to its last
\* write, would give: nobody else writes the rows of the order meanwhile.  The
\* code takes no such lock; one request at a time has the same effect.
IsolatedSpec == Init /\ [][Next /\ Undisturbed]_vars

\* An order is on the market: nobody has it, and it may be searched for.
InMarket(o, orders, trips) == trips[o].status = "NONE" /\ orders[o] \in OpenStatus

\* The steps of a search that still wants a driver, and of an answer to an offer.
MarketSteps == {"scheduledMatching", "assignFindOffer", "findTried", "pick", "createOffer",
                "setMatching", "rejectWrite", "reofferFindTrip", "sweepFindOrder",
                "acceptFindTrip", "acceptCommit", "queueCreateOffer"}

\* The steps of a sweep, from the expiry of one order's offers to the next.
SweepSteps == {"sweep", "sweepFindOrder", "reofferFindTrip", "findTried", "pick",
               "createOffer", "setMatching"}

\* What an isolated request may rely on of the rows, however old the reading.
OnCourse(q, orders, offers, trips) ==
    /\ q.pc = "createInsert" => orders[q.order] = "NONE"
    /\ q.pc \in MarketSteps => InMarket(q.order, orders, trips)
    /\ q.pc = "assignFindTrip" =>
        \/ orders[q.order] \in OpenStatus
        \/ "assign" \in Operations /\ orders[q.order] # "NONE"
    /\ q.pc = "cancelCommit" =>
        /\ q.driver = trips[q.order].driver
        /\ \/ trips[q.order].status = "ASSIGNED"
           \/ InMarket(q.order, orders, trips)
    /\ q.pc = "activateStart" => trips[q.order].status = "ASSIGNED"
    /\ q.pc = "completeCommit" => trips[q.order].status = "IN_TRANSIT"
    /\ q.batch # {} => q.pc \in SweepSteps
    /\ \A f \in q.batch : InMarket(offers[f].order, orders, trips)

\* An offer that waits for an answer is of an order on the market.
PendingInMarket ==
    \A f \in Offers : offer[f].status = "PENDING" => InMarket(offer[f].order, order, trip)

\* The inductive invariant, next to IInv, while requests are isolated.
CourseInv ==
    /\ OrderFollowsTrip
    /\ PendingInMarket
    /\ \A r \in Requests : OnCourse(req[r], order, offer, trip)

\* What a search relies on: the drivers it excludes are all those who were offered
\* the order.
Excludes(q, offers) ==
    \A f \in Offers : offers[f].status # "NONE" /\ offers[f].order = q.order =>
        /\ q.pc = "pick" => offers[f].driver \in q.tried
        /\ q.pc = "createOffer" => offers[f].driver # q.driver

\* The inductive invariant behind SearchSkipsTriedDrivers.
TriedInv == \A r \in Requests : Excludes(req[r], offer)
===============================================================================
