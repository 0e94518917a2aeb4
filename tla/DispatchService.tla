--------------------------- MODULE DispatchService ---------------------------
(***************************************************************************)
(* modules/dispatch/dispatch.service.ts, one action per round trip.        *)
(* Scores, ETAs and the decision log are left out: among the candidates    *)
(* the code ranks, any one may come first.  A definition commented         *)
(* "(variant)" is not the code: it is the definition below it with one     *)
(* plausible mistake, kept to show that a property of Rides notices it.    *)
(***************************************************************************)
EXTENDS RideStore

\* The next id of the TripOffer table.
IsFresh(f) == ~Exists(f) /\ \A g \in Offers : g < f => Exists(g)

\* prisma.tripOffer.create with status PENDING and an expiry in the future
InsertOffer(o, d) ==
    \E f \in Offers :
        /\ IsFresh(f)
        /\ offer' = [offer EXCEPT ![f] = [status |-> "PENDING", order |-> o,
                                          driver |-> d, overdue |-> FALSE]]

\* prisma.tripOffer.update by id: whatever the status is by now
SetOfferStatus(f, s) == offer' = [offer EXCEPT ![f].status = s]

\* tripOffer.updateMany(orderId = o, status = PENDING) to CANCELLED
WithdrawOffers(o, except) ==
    [f \in Offers |->
        IF offer[f].order = o /\ offer[f].status = "PENDING" /\ f # except
        THEN [offer[f] EXCEPT !.status = "CANCELLED"] ELSE offer[f]]

\* A handler that ran createNextOffer returns; a sweep goes on to its next order.
Return(r) ==
    req' = [req EXCEPT ![r] =
              IF req[r].batch = {} THEN Idle
              ELSE [Idle EXCEPT !.pc = "sweep", !.batch = req[r].batch]]

-------------------------------------------------------------------------------
\* assignOrder: a trip, or a live offer, ends it; otherwise the drivers ever
\* offered this order are collected and the next one is offered it.
AssignFindTrip(r) ==
    /\ At(r, "assignFindTrip")
    /\ IF HasTrip(req[r].order) THEN Finish(r) ELSE Goto(r, "assignFindOffer")
    /\ UNCHANGED rows

\* (variant) an offer that is past its expiry still counts as pending
AssignFindOfferAnyPending(r) ==
    /\ At(r, "assignFindOffer")
    /\ IF \E f \in OffersOf(req[r].order) : offer[f].status = "PENDING"
       THEN Finish(r) ELSE Goto(r, "findTried")
    /\ UNCHANGED rows

AssignFindOffer(r) ==
    /\ At(r, "assignFindOffer")
    /\ IF \E f \in OffersOf(req[r].order) : Live(f)
       THEN Finish(r) ELSE Goto(r, "findTried")
    /\ UNCHANGED rows

\* (variant) only the drivers whose offer has been answered are excluded
FindTriedAnswered(r) ==
    /\ At(r, "findTried")
    /\ req' = [req EXCEPT ![r].pc = "pick",
                          ![r].tried = {offer[f].driver :
                              f \in {g \in OffersOf(req[r].order) : offer[g].status # "PENDING"}}]
    /\ UNCHANGED rows

\* (variant) the ids of the offers are excluded, not those of their drivers
FindTriedOfferIds(r) ==
    /\ At(r, "findTried")
    /\ req' = [req EXCEPT ![r].pc = "pick", ![r].tried = OffersOf(req[r].order)]
    /\ UNCHANGED rows

FindTried(r) ==
    /\ At(r, "findTried")
    /\ req' = [req EXCEPT ![r].pc = "pick",
                          ![r].tried = {offer[f].driver : f \in OffersOf(req[r].order)}]
    /\ UNCHANGED rows

\* (variant) the driver's vehicle is not compared with the order
OnlineCandidatesAnyVehicle(r) == {d \in Drivers \ req[r].tried : geo[d] = "ONLINE"}

\* createNextOffer, up to the choice.  The candidates come from the two geo
\* indexes, not from the stored availability; which of the BUSY ones are near
\* enough (ETA, distance) is data.
OnlineCandidates(r) ==
    {d \in Drivers \ req[r].tried : Suits(d, req[r].order) /\ geo[d] = "ONLINE"}

BusyFallback(r) ==
    {d \in Drivers \ req[r].tried :
        /\ Suits(d, req[r].order)
        /\ geo[d] = "BUSY"
        /\ nextOrder[d] = None
        /\ \A f \in OffersTo(d) : ~Live(f)}

Pick(r) ==
    /\ At(r, "pick")
    /\ LET chosen(d) == req' = [req EXCEPT ![r].pc = "createOffer", ![r].driver = d,
                                           ![r].tried = {}]
       IN  IF OnlineCandidates(r) # {}
           THEN \E d \in OnlineCandidates(r) : chosen(d)
           ELSE \/ \E d \in BusyFallback(r) : chosen(d)
                \/ Return(r)        \* NO_OFFER
    /\ UNCHANGED rows

\* createOffer: the row, then (after the notification) the order's status.
CreateOffer(r) ==
    /\ At(r, "createOffer")
    /\ InsertOffer(req[r].order, req[r].driver)
    /\ Goto(r, "setMatching")
    /\ UNCHANGED <<order, due, trip, avail, geo, nextOrder>>

SetMatching(r) ==
    /\ At(r, "setMatching")
    /\ order' = [order EXCEPT ![req[r].order] = "MATCHING"]
    /\ Return(r)
    /\ UNCHANGED <<due, offer, trip, avail, geo, nextOrder>>

-------------------------------------------------------------------------------
\* acceptOffer(f, d) and rejectOffer(f, d) begin with expireOfferIfNeeded; the
\* write that expires the offer comes after the read that found it overdue.
ReadOverdue(r, op, f) ==
    /\ offer[f].status = "PENDING" /\ offer[f].overdue
    /\ Enter(r, op, "lapse", None, None, f)
    /\ UNCHANGED rows

LapseOffer(r) ==
    /\ At(r, "lapse")
    /\ SetOfferStatus(req[r].offer, "EXPIRED")
    /\ Finish(r)
    /\ UNCHANGED <<order, due, trip, avail, geo, nextOrder>>

\* (variant) the caller is not compared with the offer's driver
AcceptOfferAnyDriver(r, f, d) ==
    /\ Live(f)
    /\ Enter(r, "accept", "acceptFindTrip", offer[f].order, d, f)
    /\ UNCHANGED rows

AcceptOffer(r, f, d) ==
    /\ Live(f)
    /\ offer[f].driver = d
    /\ Enter(r, "accept", "acceptFindTrip", offer[f].order, d, f)
    /\ UNCHANGED rows

\* (variant) the order is marked ASSIGNED ahead of the transaction
AcceptFindTripMarksOrder(r) ==
    /\ At(r, "acceptFindTrip")
    /\ Goto(r, IF HasTrip(req[r].order) THEN "acceptLate" ELSE "acceptCommit")
    /\ order' = [order EXCEPT ![req[r].order] = "ASSIGNED"]
    /\ UNCHANGED <<due, offer, trip, avail, geo, nextOrder>>

AcceptFindTrip(r) ==
    /\ At(r, "acceptFindTrip")
    /\ Goto(r, IF HasTrip(req[r].order) THEN "acceptLate" ELSE "acceptCommit")
    /\ UNCHANGED rows

\* (variant) a late accept withdraws the offer and goes on as if it had won
AcceptLateGoesOn(r) ==
    /\ At(r, "acceptLate")
    /\ SetOfferStatus(req[r].offer, "CANCELLED")
    /\ Goto(r, "acceptCount")
    /\ UNCHANGED <<order, due, trip, avail, geo, nextOrder>>

AcceptLate(r) ==
    /\ At(r, "acceptLate")
    /\ SetOfferStatus(req[r].offer, "CANCELLED")
    /\ Finish(r)
    /\ UNCHANGED <<order, due, trip, avail, geo, nextOrder>>

\* The transaction of acceptOffer once trip.create has succeeded.
AcceptRows(o, d, f) ==
    /\ offer' = [WithdrawOffers(o, f) EXCEPT ![f].status = "ACCEPTED"]
    /\ order' = [order EXCEPT ![o] = "ASSIGNED"]
    /\ avail' = [avail EXCEPT ![d] = "BUSY"]
    /\ trip' = [trip EXCEPT ![o] = [status |-> "ASSIGNED", driver |-> d]]
    /\ UNCHANGED <<due, geo, nextOrder>>

\* (variant) trip.upsert in place of trip.create: the later driver takes the trip over
AcceptCommitUpsert(r) ==
    /\ At(r, "acceptCommit")
    /\ AcceptRows(req[r].order, req[r].driver, req[r].offer)
    /\ Goto(r, "acceptCount")

\* Trip.orderId is unique: a second trip.create throws and the transaction
\* rolls back whole.
AcceptCommit(r) ==
    /\ At(r, "acceptCommit")
    /\ IF HasTrip(req[r].order)
       THEN Finish(r) /\ UNCHANGED rows
       ELSE /\ AcceptRows(req[r].order, req[r].driver, req[r].offer)
            /\ Goto(r, "acceptCount")

AcceptCount(r) ==
    /\ At(r, "acceptCount")
    /\ IF \E o \in Orders : trip[o].driver = req[r].driver /\ trip[o].status \in Moving
       THEN Goto(r, "acceptQueue") ELSE Finish(r)
    /\ UNCHANGED rows

AcceptQueue(r) ==
    /\ At(r, "acceptQueue")
    /\ nextOrder' = [nextOrder EXCEPT ![req[r].driver] = req[r].order]
    /\ Finish(r)
    /\ UNCHANGED <<order, due, offer, trip, avail, geo>>

AcceptSteps(r) ==
    \/ AcceptFindTrip(r) \/ AcceptLate(r) \/ AcceptCommit(r) \/ AcceptCount(r) \/ AcceptQueue(r)

-------------------------------------------------------------------------------
RejectOffer(r, f, d) ==
    /\ Live(f)
    /\ offer[f].driver = d
    /\ Enter(r, "reject", "rejectWrite", offer[f].order, d, f)
    /\ UNCHANGED rows

RejectWrite(r) ==
    /\ At(r, "rejectWrite")
    /\ SetOfferStatus(req[r].offer, "REJECTED")
    /\ Goto(r, "reofferFindTrip")
    /\ UNCHANGED <<order, due, trip, avail, geo, nextOrder>>

\* A rejection or an expiry leads to a new offer unless the order has a trip.
ReofferFindTrip(r) ==
    /\ At(r, "reofferFindTrip")
    /\ IF HasTrip(req[r].order) THEN Return(r) ELSE Goto(r, "findTried")
    /\ UNCHANGED rows

\* processExpiredOffers: the overdue offers are read once, then handled order
\* by order.
ProcessExpired(r) ==
    LET expired == {f \in Offers : offer[f].status = "PENDING" /\ offer[f].overdue}
    IN  /\ "sweep" \in Operations
        /\ At(r, "idle")
        /\ expired # {}
        /\ req' = [req EXCEPT ![r] = [Idle EXCEPT !.pc = "sweep", !.batch = expired]]
        /\ UNCHANGED rows

SweepExpire(r) ==
    /\ At(r, "sweep")
    /\ \E o \in {offer[f].order : f \in req[r].batch} :
        LET group == {f \in req[r].batch : offer[f].order = o}
        IN  /\ offer' = [f \in Offers |->
                            IF f \in group /\ offer[f].status = "PENDING"
                            THEN [offer[f] EXCEPT !.status = "EXPIRED"] ELSE offer[f]]
            /\ req' = [req EXCEPT ![r].pc = "sweepFindOrder", ![r].order = o,
                                  ![r].batch = @ \ group]
    /\ UNCHANGED <<order, due, trip, avail, geo, nextOrder>>

SweepFindOrder(r) ==
    /\ At(r, "sweepFindOrder")
    /\ IF order[req[r].order] \in {"CANCELLED", "DELIVERED"}
       THEN Return(r) ELSE Goto(r, "reofferFindTrip")
    /\ UNCHANGED rows

\* runScheduledDispatch, for one of the due orders it read: they are handled
\* concurrently (Promise.all), so a run over several is several requests.
RunScheduled(r, o) ==
    /\ order[o] = "CREATED" /\ o \in due
    /\ Enter(r, "scheduled", "scheduledMatching", o, None, None)
    /\ UNCHANGED rows

ScheduledMatching(r) ==
    /\ At(r, "scheduledMatching")
    /\ order' = [order EXCEPT ![req[r].order] = "MATCHING"]
    /\ Goto(r, "assignFindTrip")
    /\ UNCHANGED <<due, offer, trip, avail, geo, nextOrder>>

SearchSteps(r) ==
    \/ AssignFindTrip(r) \/ AssignFindOffer(r) \/ FindTried(r) \/ Pick(r) \/ CreateOffer(r)
    \/ SetMatching(r) \/ LapseOffer(r) \/ RejectWrite(r) \/ ReofferFindTrip(r)
    \/ SweepExpire(r) \/ SweepFindOrder(r) \/ ScheduledMatching(r)

-------------------------------------------------------------------------------
\* queueNextJobForDriver(driver, trip of req.order), called by startTransit.
QueueGetSlot(r) ==
    /\ At(r, "queueGetSlot")
    /\ IF nextOrder[req[r].driver] # None THEN Finish(r) ELSE Goto(r, "queueFindOrder")
    /\ UNCHANGED rows

\* The open orders whose vehicle type matches that of the order being driven,
\* within 10 km of its drop: which of them are is data.
QueueFindOrder(r) ==
    /\ At(r, "queueFindOrder")
    /\ \/ \E o \in Orders \ {req[r].order} :
            /\ order[o] \in {"CREATED", "MATCHING"}
            /\ VehicleMatches(OrderVehicle[req[r].order], OrderVehicle[o])
            /\ req' = [req EXCEPT ![r].pc = "queueCreateOffer", ![r].order = o]
       \/ Finish(r)
    /\ UNCHANGED rows

QueueCreateOffer(r) ==
    /\ At(r, "queueCreateOffer")
    /\ InsertOffer(req[r].order, req[r].driver)
    /\ Finish(r)
    /\ UNCHANGED <<order, due, trip, avail, geo, nextOrder>>

\* activateQueuedJob(driver), called by complete.
ActivateGetSlot(r) ==
    /\ At(r, "activateGetSlot")
    /\ LET o == nextOrder[req[r].driver]
       IN  IF o = None THEN Finish(r)
           ELSE req' = [req EXCEPT ![r].pc = "activateFindTrip", ![r].order = o]
    /\ UNCHANGED rows

\* (variant) the queued trip is looked up without its status
ActivateFindTripAnyStatus(r) ==
    /\ At(r, "activateFindTrip")
    /\ Goto(r, IF trip[req[r].order].driver = req[r].driver
               THEN "activateStart" ELSE "activateDrop")
    /\ UNCHANGED rows

ActivateFindTrip(r) ==
    /\ At(r, "activateFindTrip")
    /\ Goto(r, IF trip[req[r].order] = [status |-> "ASSIGNED", driver |-> req[r].driver]
               THEN "activateStart" ELSE "activateDrop")
    /\ UNCHANGED rows

ActivateStart(r) ==
    /\ At(r, "activateStart")
    /\ trip' = [trip EXCEPT ![req[r].order].status = "DRIVER_EN_ROUTE"]
    /\ Goto(r, "activateDelSlot")
    /\ UNCHANGED <<order, due, offer, avail, geo, nextOrder>>

\* redis.del(key): the job is activated (the driver is BUSY again) or it is gone.
ActivateDelSlot(r) ==
    /\ At(r, "activateDelSlot") \/ At(r, "activateDrop")
    /\ nextOrder' = [nextOrder EXCEPT ![req[r].driver] = None]
    /\ IF At(r, "activateDelSlot") THEN Goto(r, "completeBusy") ELSE Finish(r)
    /\ UNCHANGED <<order, due, offer, trip, avail, geo>>

QueueSteps(r) ==
    \/ QueueGetSlot(r) \/ QueueFindOrder(r) \/ QueueCreateOffer(r) \/ ActivateGetSlot(r)
    \/ ActivateFindTrip(r) \/ ActivateStart(r) \/ ActivateDelSlot(r)

-------------------------------------------------------------------------------
\* Time: an offer passes expiresAt, an order its scheduledAt, a queue slot
\* its 45 minutes.
OfferDeadline(f) ==
    /\ "offerTtl" \in Operations
    /\ Live(f)
    /\ offer' = [offer EXCEPT ![f].overdue = TRUE]
    /\ UNCHANGED <<order, due, trip, avail, geo, nextOrder, req>>

ScheduleDue(o) ==
    /\ order[o] = "CREATED" /\ o \notin due
    /\ due' = due \cup {o}
    /\ UNCHANGED <<order, offer, trip, avail, geo, nextOrder, req>>

SlotExpires(d) ==
    /\ "slotTtl" \in Operations
    /\ nextOrder[d] # None
    /\ nextOrder' = [nextOrder EXCEPT ![d] = None]
    /\ UNCHANGED <<order, due, offer, trip, avail, geo, req>>
===============================================================================
