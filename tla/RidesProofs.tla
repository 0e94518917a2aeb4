------------------------------ MODULE RidesProofs ------------------------------
(***************************************************************************)
(* Rides for every number of orders, drivers, offers and requests.  The    *)
(* invariant IInv of Rides is inductive.  A step is looked at twice: for   *)
(* what it does to the rows (it keeps Data, and it is Quiet, or makes an   *)
(* offer, or gives an order away) and for what it does to the request it   *)
(* serves (it keeps Frames).  Whatever its kind, a step keeps the identity *)
(* of the offers and trips that exist, so a reading of them never goes     *)
(* stale: that is what the other requests in flight rely on.               *)
(***************************************************************************)
EXTENDS Rides, TLAPS

\* The part of TypeOK about the rows.
RowTypes ==
    /\ order \in [Orders -> OrderStatus \cup {"NONE"}]
    /\ due \subseteq Orders
    /\ offer \in [Offers -> OfferRow \cup {NoOffer}]
    /\ trip \in [Orders -> TripRow \cup {NoTrip}]
    /\ avail \in [Drivers -> AvailabilityStatus]
    /\ geo \in [Drivers -> AvailabilityStatus]
    /\ nextOrder \in [Drivers -> Orders \cup {None}]

\* The two halves of IInv.
Data == RowTypes /\ AcceptedOfferIsTheTrip /\ RideHasTrip /\ QueueSlotIsOwnTrip
Frames == req \in [Requests -> Request] /\ \A r \in Requests : Sound(req[r], offer, trip)

\* No offer is deleted or handed to another driver, and no trip.
Keeps ==
    /\ \A f \in Offers : offer[f].status # "NONE" =>
        /\ offer'[f].status # "NONE"
        /\ offer'[f].order = offer[f].order
        /\ offer'[f].driver = offer[f].driver
    /\ \A o \in Orders : trip[o].status # "NONE" =>
        /\ trip'[o].status # "NONE"
        /\ trip'[o].driver = trip[o].driver

\* The offers stay the same but for their status and expiry, the trips but for
\* their status.
SameOffers ==
    \A f \in Offers : /\ offer'[f].status = "NONE" <=> offer[f].status = "NONE"
                      /\ offer'[f].order = offer[f].order
                      /\ offer'[f].driver = offer[f].driver
SameTrips ==
    \A o \in Orders : /\ trip'[o].status = "NONE" <=> trip[o].status = "NONE"
                      /\ trip'[o].driver = trip[o].driver

\* Request r is about to offer order o to driver d.
Offering(r, o, d) ==
    /\ req[r].pc \in {"createOffer", "queueCreateOffer"}
    /\ req[r].order = o
    /\ req[r].driver = d

\* The three kinds of step.
Quiet == SameOffers /\ SameTrips
Offered == /\ trip' = trip
           /\ \E o \in Orders, d \in Drivers :
                /\ InsertOffer(o, d)
                /\ \E r \in Requests : Offering(r, o, d)
Given == /\ SameOffers
         /\ \E f \in Offers :
             /\ offer[f].status # "NONE"
             /\ trip[offer[f].order].status = "NONE"
             /\ trip' = [trip EXCEPT ![offer[f].order] =
                            [status |-> "ASSIGNED", driver |-> offer[f].driver]]

\* The invariant is its two halves.
LEMMA Halves == IInv <=> Data /\ Frames
  BY DEF IInv, Data, Frames, RowTypes, TypeOK

\* A row that is there has its columns; a row that is not has none.
LEMMA RowFacts ==
  ASSUME RowTypes
  PROVE  /\ \A f \in Offers : offer[f].status # "NONE" => offer[f] \in OfferRow
         /\ \A f \in Offers : offer[f].status = "NONE" => offer[f] = NoOffer
         /\ \A o \in Orders : trip[o].status # "NONE" => trip[o] \in TripRow
         /\ \A o \in Orders : trip[o].status = "NONE" => trip[o] = NoTrip
         /\ \A o \in Orders : trip[o].driver = None <=> trip[o].status = "NONE"
  BY NoneIsNoValue DEF RowTypes, OfferRow, TripRow, NoOffer, NoTrip, OfferStatus, TripStatus

\* Whatever its kind, a step keeps the offers and trips there are.
LEMMA KindKeeps ==
  ASSUME RowTypes, Quiet \/ Offered \/ Given
  PROVE  Keeps
<1>1. CASE Quiet
  BY <1>1 DEF Quiet, SameOffers, SameTrips, Keeps
<1>2. CASE Offered
  BY <1>2 DEF Offered, InsertOffer, IsFresh, Exists, Keeps, RowTypes
<1>3. CASE Given
  <2>1. PICK f \in Offers :
             /\ offer[f].status # "NONE"
             /\ trip[offer[f].order].status = "NONE"
             /\ trip' = [trip EXCEPT ![offer[f].order] =
                            [status |-> "ASSIGNED", driver |-> offer[f].driver]]
    BY <1>3 DEF Given
  <2> QED BY <1>3, <2>1 DEF Given, SameOffers, Keeps, RowTypes
<1> QED BY <1>1, <1>2, <1>3

\* A reading of the offers and trips stays good.
LEMMA SoundPersists ==
  ASSUME Keeps, NEW q \in Request, Sound(q, offer, trip)
  PROVE  Sound(q, offer', trip')
  BY DEF Keeps, Sound, Request, LateSteps, TripSteps, DriverSteps

\* One request moves on, to a frame that is sound.
LEMMA FrameStep ==
  ASSUME Frames, Keeps, NEW r \in Requests, NEW q \in Request,
         Sound(q, offer', trip'), req' = [req EXCEPT ![r] = q]
  PROVE  Frames'
<1>1. req' \in [Requests -> Request]
  BY DEF Frames
<1>2. ASSUME NEW s \in Requests PROVE Sound(req'[s], offer', trip')
  BY SoundPersists DEF Frames
<1> QED BY <1>1, <1>2 DEF Frames

\* The idle frame is sound.
LEMMA IdleSound ==
  ASSUME TRUE
  PROVE  Idle \in Request /\ Sound(Idle, offer', trip') /\ Sound(Idle, offer, trip)
  BY DEF Idle, Request, Steps, Sound, LateSteps, TripSteps, DriverSteps

LEMMA FinishFrame ==
  ASSUME Frames, Keeps, NEW r \in Requests, Finish(r)
  PROVE  Frames'
  BY IdleSound, FrameStep DEF Finish

LEMMA GotoFrame ==
  ASSUME Frames, Keeps, NEW r \in Requests, NEW pc \in Steps, Goto(r, pc),
         Sound([req[r] EXCEPT !.pc = pc], offer', trip')
  PROVE  Frames'
<1> DEFINE q == [req[r] EXCEPT !.pc = pc]
<1>1. q \in Request
  BY DEF Frames, Request
<1>2. req' = [req EXCEPT ![r] = q]
  BY DEF Goto, Frames
<1> QED BY <1>1, <1>2, FrameStep

LEMMA ReturnFrame ==
  ASSUME Frames, Keeps, NEW r \in Requests, Return(r)
  PROVE  Frames'
<1> DEFINE q == [Idle EXCEPT !.pc = "sweep", !.batch = req[r].batch]
<1>1. CASE req[r].batch = {}
  BY <1>1, IdleSound, FrameStep DEF Return
<1>2. CASE req[r].batch # {}
  <2>1. q \in Request
    BY DEF Frames, Request, Idle, Steps
  <2>2. Sound(q, offer', trip')
    BY DEF Frames, Keeps, Sound, Idle, Request, LateSteps, TripSteps, DriverSteps
  <2> QED BY <1>2, <2>1, <2>2, FrameStep DEF Return
<1> QED BY <1>1, <1>2

LEMMA EnterFrame ==
  ASSUME Frames, Keeps, NEW r \in Requests, NEW op, NEW pc \in Steps, NEW o \in Orders \cup {None},
         NEW d \in Drivers \cup {None}, NEW f \in Offers \cup {None}, Enter(r, op, pc, o, d, f),
         Sound([Idle EXCEPT !.pc = pc, !.order = o, !.driver = d, !.offer = f], offer', trip')
  PROVE  Frames'
<1> DEFINE q == [Idle EXCEPT !.pc = pc, !.order = o, !.driver = d, !.offer = f]
<1>1. q \in Request
  BY DEF Request, Idle
<1> QED BY <1>1, FrameStep DEF Enter

-------------------------------------------------------------------------------
\* The steps of a search leave every request with a sound frame.
LEMMA SearchFrames ==
  ASSUME Data, Frames, Keeps, NEW r \in Requests, SearchSteps(r)
  PROVE  Frames'
<1> USE DEF At, Sound, LateSteps, TripSteps, DriverSteps
<1>a. req[r] \in Request /\ Sound(req[r], offer, trip)
  BY DEF Frames
<1>b. Sound(req[r], offer', trip')
  BY <1>a, SoundPersists
<1>1. CASE AssignFindTrip(r)
  <2>1. "assignFindOffer" \in Steps BY DEF Steps
  <2> QED BY <1>a, <1>b, <1>1, <2>1, FinishFrame, GotoFrame DEF AssignFindTrip, Request
<1>2. CASE AssignFindOffer(r)
  <2>1. "findTried" \in Steps BY DEF Steps
  <2> QED BY <1>a, <1>b, <1>2, <2>1, FinishFrame, GotoFrame DEF AssignFindOffer, Request
<1>3. CASE FindTried(r)
  <2> DEFINE tried == {offer[f].driver : f \in OffersOf(req[r].order)}
             q == [req[r] EXCEPT !.pc = "pick", !.tried = tried]
  <2>1. tried \subseteq Drivers
    BY RowFacts DEF Data, OffersOf, Exists, OfferRow
  <2>2. q \in Request
    BY <1>a, <2>1 DEF Request, Steps
  <2>3. Sound(q, offer', trip')
    BY <1>a, <1>b, <1>3 DEF FindTried, Request
  <2>4. req' = [req EXCEPT ![r] = q]
    BY <1>3 DEF FindTried, Frames
  <2> QED BY <2>2, <2>3, <2>4, FrameStep
<1>4. CASE Pick(r)
  <2>1. CASE Return(r)
    BY <2>1, ReturnFrame
  <2>2. ASSUME NEW d \in Drivers,
               req' = [req EXCEPT ![r].pc = "createOffer", ![r].driver = d, ![r].tried = {}]
        PROVE  Frames'
    <3> DEFINE q == [req[r] EXCEPT !.pc = "createOffer", !.driver = d, !.tried = {}]
    <3>1. q \in Request
      BY <1>a DEF Request, Steps
    <3>2. Sound(q, offer', trip')
      BY <1>a, <1>b, <1>4 DEF Pick, Request
    <3>3. req' = [req EXCEPT ![r] = q]
      BY <2>2 DEF Frames
    <3> QED BY <3>1, <3>2, <3>3, FrameStep
  <2> QED BY <1>4, <2>1, <2>2 DEF Pick, OnlineCandidates, BusyFallback
<1>5. CASE CreateOffer(r)
  <2>1. "setMatching" \in Steps BY DEF Steps
  <2> QED BY <1>a, <1>b, <1>5, <2>1, GotoFrame DEF CreateOffer, Request
<1>6. CASE SetMatching(r)
  BY <1>6, ReturnFrame DEF SetMatching
<1>7. CASE LapseOffer(r)
  BY <1>7, FinishFrame DEF LapseOffer
<1>8. CASE RejectWrite(r)
  <2>1. "reofferFindTrip" \in Steps BY DEF Steps
  <2> QED BY <1>a, <1>b, <1>8, <2>1, GotoFrame DEF RejectWrite, Request
<1>9. CASE ReofferFindTrip(r)
  <2>1. "findTried" \in Steps BY DEF Steps
  <2> QED BY <1>a, <1>b, <1>9, <2>1, ReturnFrame, GotoFrame DEF ReofferFindTrip, Request
<1>10. CASE SweepExpire(r)
  <2> DEFINE group(o) == {f \in req[r].batch : offer[f].order = o}
             q(o) == [req[r] EXCEPT !.pc = "sweepFindOrder", !.order = o, !.batch = @ \ group(o)]
  <2>1. PICK o \in {offer[f].order : f \in req[r].batch} :
          req' = [req EXCEPT ![r].pc = "sweepFindOrder", ![r].order = o, ![r].batch = @ \ group(o)]
    <3> HIDE DEF At
    <3> QED BY <1>10 DEF SweepExpire
  <2>2. PICK g \in req[r].batch : offer[g].order = o
    BY <2>1
  <2>3. o \in Orders
    BY <1>a, <2>2, RowFacts DEF Data, Request, OfferRow
  <2>4. q(o) \in Request
    BY <1>a, <2>3 DEF Request, Steps
  <2>5. Sound(q(o), offer', trip')
    BY <1>a, <1>b, <2>3 DEF Request
  <2>6. req' = [req EXCEPT ![r] = q(o)]
    BY <2>1 DEF Frames
  <2> QED BY <2>4, <2>5, <2>6, FrameStep
<1>11. CASE SweepFindOrder(r)
  <2>1. "reofferFindTrip" \in Steps BY DEF Steps
  <2> QED BY <1>a, <1>b, <1>11, <2>1, ReturnFrame, GotoFrame DEF SweepFindOrder, Request
<1>12. CASE ScheduledMatching(r)
  <2>1. "assignFindTrip" \in Steps BY DEF Steps
  <2> QED BY <1>a, <1>b, <1>12, <2>1, GotoFrame DEF ScheduledMatching, Request
<1> QED BY <1>1, <1>2, <1>3, <1>4, <1>5, <1>6, <1>7, <1>8, <1>9, <1>10, <1>11, <1>12
       DEF SearchSteps

\* So do the steps of an acceptance.  The one that commits has made the trip.
LEMMA AcceptFrames ==
  ASSUME Data, Frames, Keeps, NEW r \in Requests, AcceptSteps(r)
  PROVE  Frames'
<1> USE DEF At, Sound, LateSteps, TripSteps, DriverSteps
<1>a. req[r] \in Request /\ Sound(req[r], offer, trip)
  BY DEF Frames
<1>b. Sound(req[r], offer', trip')
  BY <1>a, SoundPersists
<1>c. {"acceptLate", "acceptCommit", "acceptCount", "acceptQueue"} \subseteq Steps
  BY DEF Steps
<1>1. CASE AcceptFindTrip(r)
  BY <1>a, <1>b, <1>c, <1>1, GotoFrame DEF AcceptFindTrip, Request
<1>2. CASE AcceptLate(r)
  BY <1>2, FinishFrame DEF AcceptLate
<1>3. CASE AcceptCommit(r)
  <2>1. CASE HasTrip(req[r].order)
    BY <1>3, <2>1, FinishFrame DEF AcceptCommit
  <2>2. CASE ~HasTrip(req[r].order)
    <3>1. /\ Goto(r, "acceptCount")
          /\ trip'[req[r].order].driver = req[r].driver
          /\ trip'[req[r].order].status # "NONE"
      BY <1>a, <1>3, <2>2 DEF AcceptCommit, AcceptRows, Data, RowTypes
    <3>2. Sound([req[r] EXCEPT !.pc = "acceptCount"], offer', trip')
      BY <1>a, <1>b, <1>3, <3>1 DEF AcceptCommit, Request
    <3> QED BY <1>c, <3>1, <3>2, GotoFrame
  <2> QED BY <2>1, <2>2
<1>4. CASE AcceptCount(r)
  BY <1>a, <1>b, <1>c, <1>4, FinishFrame, GotoFrame DEF AcceptCount, Request
<1>5. CASE AcceptQueue(r)
  BY <1>5, FinishFrame DEF AcceptQueue
<1> QED BY <1>1, <1>2, <1>3, <1>4, <1>5 DEF AcceptSteps

\* So do the steps that fill a driver's queue slot and empty it.  A queued order
\* is one the driver has a trip for (QueueSlotIsOwnTrip).
LEMMA QueueFrames ==
  ASSUME Data, Frames, Keeps, NEW r \in Requests, QueueSteps(r)
  PROVE  Frames'
<1> USE DEF At, Sound, LateSteps, TripSteps, DriverSteps
<1>a. req[r] \in Request /\ Sound(req[r], offer, trip)
  BY DEF Frames
<1>b. Sound(req[r], offer', trip')
  BY <1>a, SoundPersists
<1>1. CASE QueueGetSlot(r)
  <2>1. "queueFindOrder" \in Steps BY DEF Steps
  <2> QED BY <1>a, <1>b, <1>1, <2>1, FinishFrame, GotoFrame DEF QueueGetSlot, Request
<1>2. CASE QueueFindOrder(r)
  <2>1. CASE Finish(r)
    BY <2>1, FinishFrame
  <2>2. ASSUME NEW o \in Orders,
               req' = [req EXCEPT ![r].pc = "queueCreateOffer", ![r].order = o]
        PROVE  Frames'
    <3> DEFINE q == [req[r] EXCEPT !.pc = "queueCreateOffer", !.order = o]
    <3>1. q \in Request
      BY <1>a DEF Request, Steps
    <3>2. Sound(q, offer', trip')
      BY <1>a, <1>b, <1>2 DEF QueueFindOrder, Request
    <3>3. req' = [req EXCEPT ![r] = q]
      BY <2>2 DEF Frames
    <3> QED BY <3>1, <3>2, <3>3, FrameStep
  <2> QED BY <1>2, <2>1, <2>2 DEF QueueFindOrder
<1>3. CASE QueueCreateOffer(r)
  BY <1>3, FinishFrame DEF QueueCreateOffer
<1>4. CASE ActivateGetSlot(r)
  <2>1. CASE Finish(r)
    BY <2>1, FinishFrame
  <2>2. CASE ~Finish(r)
    <3> DEFINE o == nextOrder[req[r].driver]
               q == [req[r] EXCEPT !.pc = "activateFindTrip", !.order = o]
    <3>1. o \in Orders
      BY <1>a, <1>4, <2>2 DEF ActivateGetSlot, Data, RowTypes
    <3>2. q \in Request
      BY <1>a, <3>1 DEF Request, Steps
    <3>3. Sound(q, offer', trip')
      BY <1>a, <1>b, <1>4, <3>1 DEF ActivateGetSlot, Request
    <3>4. req' = [req EXCEPT ![r] = q]
      BY <1>4, <2>2 DEF ActivateGetSlot, Frames
    <3> QED BY <3>2, <3>3, <3>4, FrameStep
  <2> QED BY <2>1, <2>2
<1>5. CASE ActivateFindTrip(r)
  <2>1. {"activateStart", "activateDrop"} \subseteq Steps BY DEF Steps
  <2> QED BY <1>a, <1>b, <1>5, <2>1, GotoFrame DEF ActivateFindTrip, Request, rows
<1>6. CASE ActivateStart(r)
  <2>1. "activateDelSlot" \in Steps BY DEF Steps
  <2> QED BY <1>a, <1>b, <1>6, <2>1, GotoFrame DEF ActivateStart, Request
<1>7. CASE ActivateDelSlot(r)
  <2>1. "completeBusy" \in Steps BY DEF Steps
  <2> QED BY <1>a, <1>b, <1>7, <2>1, FinishFrame, GotoFrame DEF ActivateDelSlot, Request
<1> QED BY <1>1, <1>2, <1>3, <1>4, <1>5, <1>6, <1>7 DEF QueueSteps

\* So do the remaining steps of a booking, a cancellation and a completion.
LEMMA ContinueFrames ==
  ASSUME Data, Frames, Keeps, NEW r \in Requests, Continue(r)
  PROVE  Frames'
<1> USE DEF At, Sound, LateSteps, TripSteps, DriverSteps
<1>a. req[r] \in Request /\ Sound(req[r], offer, trip)
  BY DEF Frames
<1>b. Sound(req[r], offer', trip')
  BY <1>a, SoundPersists
<1>1. CASE CreateInsert(r)
  <2>1. "assignFindTrip" \in Steps BY DEF Steps
  <2> QED BY <1>a, <1>b, <1>1, <2>1, FinishFrame, GotoFrame DEF CreateInsert, Request
<1>2. CASE CancelCommit(r)
  BY <1>2, FinishFrame DEF CancelCommit
<1>3. CASE CompleteCommit(r)
  <2>1. "activateGetSlot" \in Steps BY DEF Steps
  <2> QED BY <1>a, <1>b, <1>3, <2>1, GotoFrame DEF CompleteCommit, Request
<1>4. CASE CompleteBusy(r)
  BY <1>4, FinishFrame DEF CompleteBusy
<1> HIDE DEF At, Sound, LateSteps, TripSteps, DriverSteps
<1> QED BY <1>1, <1>2, <1>3, <1>4, SearchFrames, AcceptFrames, QueueFrames DEF Continue

\* A request that enters has read what its frame says.
LEMMA CallFrames ==
  ASSUME Data, Frames, Keeps, NEW r \in Requests, Calls(r)
  PROVE  Frames'
<1> USE DEF Sound, LateSteps, TripSteps, DriverSteps
<1>a. {"createInsert", "assignFindTrip", "cancelCommit", "scheduledMatching", "queueGetSlot",
       "completeCommit", "lapse", "acceptFindTrip", "rejectWrite"} \subseteq Steps
  BY DEF Steps
<1>1. CASE ProcessExpired(r)
  <2> DEFINE expired == {f \in Offers : offer[f].status = "PENDING" /\ offer[f].overdue}
             q == [Idle EXCEPT !.pc = "sweep", !.batch = expired]
  <2>1. q \in Request
    BY DEF Request, Steps, Idle
  <2>2. Sound(q, offer', trip')
    BY DEF Idle, Keeps
  <2>3. req' = [req EXCEPT ![r] = q]
    BY <1>1 DEF ProcessExpired
  <2> QED BY <2>1, <2>2, <2>3, FrameStep
<1>2. ASSUME NEW o \in Orders, CreateOrder(r, o) \/ FindById(r, o) \/ AssignOrder(r, o)
                               \/ RunScheduled(r, o)
      PROVE  Frames'
  <2>1. PICK op \in {"create", "poll", "assign", "scheduled"},
           pc \in {"createInsert", "assignFindTrip", "scheduledMatching"} :
          Enter(r, op, pc, o, None, None)
    BY <1>2 DEF CreateOrder, FindById, AssignOrder, RunScheduled
  <2> QED BY <1>a, <2>1, EnterFrame DEF Idle
<1>3. ASSUME NEW o \in Orders, CancelOrder(r, o)
      PROVE  Frames'
  <2>1. trip[o].driver \in Drivers \cup {None}
    BY RowFacts DEF Data, TripRow
  <2>2. trip[o].driver # None => trip'[o].status # "NONE"
    BY RowFacts DEF Data, Keeps
  <2>3. Enter(r, "cancel", "cancelCommit", o, trip[o].driver, None)
    BY <1>3 DEF CancelOrder
  <2> QED BY <1>a, <2>1, <2>2, <2>3, EnterFrame DEF Idle
<1>4. ASSUME NEW o \in Orders, AcceptTrip(r, o) \/ ArrivedPickup(r, o) \/ StartLoading(r, o)
      PROVE  Frames'
  <2>1. req' = req
    BY <1>4 DEF AcceptTrip, ArrivedPickup, StartLoading
  <2> HIDE DEF Sound, LateSteps, TripSteps, DriverSteps
  <2> QED BY <2>1, SoundPersists DEF Frames
<1>5. ASSUME NEW o \in Orders, StartTransit(r, o) \/ Complete(r, o)
      PROVE  Frames'
  <2>1. PICK op \in {"transit", "complete"}, pc \in {"queueGetSlot", "completeCommit"} :
          Enter(r, op, pc, o, trip[o].driver, None)
    BY <1>5 DEF StartTransit, Complete
  <2>2. trip[o].status # "NONE"
    BY <1>5 DEF StartTransit, Complete, Called, HasTrip
  <2>3. trip[o].driver \in Drivers /\ trip'[o].driver = trip[o].driver /\ trip'[o].status # "NONE"
    BY <2>2, RowFacts DEF Data, TripRow, Keeps
  <2> QED BY <1>a, <2>1, <2>3, EnterFrame DEF Idle
<1>6. ASSUME NEW f \in Offers, ReadOverdue(r, "accept", f) \/ ReadOverdue(r, "reject", f)
      PROVE  Frames'
  <2>1. PICK op \in {"accept", "reject"} : Enter(r, op, "lapse", None, None, f)
    BY <1>6 DEF ReadOverdue
  <2>2. offer'[f].status # "NONE"
    BY <1>6 DEF ReadOverdue, Keeps
  <2> QED BY <1>a, <2>1, <2>2, EnterFrame DEF Idle
<1>7. ASSUME NEW f \in Offers, NEW d \in Drivers, AcceptOffer(r, f, d) \/ RejectOffer(r, f, d)
      PROVE  Frames'
  <2>1. PICK op \in {"accept", "reject"}, pc \in {"acceptFindTrip", "rejectWrite"} :
          Enter(r, op, pc, offer[f].order, d, f)
    BY <1>7 DEF AcceptOffer, RejectOffer
  <2>2. offer[f].status # "NONE" /\ offer[f].driver = d
    BY <1>7 DEF AcceptOffer, RejectOffer, Live
  <2>3. /\ offer[f].order \in Orders
        /\ offer'[f].status # "NONE" /\ offer'[f].order = offer[f].order /\ offer'[f].driver = d
    BY <2>2, RowFacts DEF Data, OfferRow, Keeps
  <2> QED BY <1>a, <2>1, <2>3, EnterFrame DEF Idle
<1> HIDE DEF Sound, LateSteps, TripSteps, DriverSteps
<1> QED BY <1>1, <1>2, <1>3, <1>4, <1>5, <1>6, <1>7 DEF Calls

\* Every step keeps the frames of the requests in flight sound.
LEMMA NextFrames ==
  ASSUME Data, Frames, Keeps, [Next]_vars
  PROVE  Frames'
<1>1. ASSUME req' = req PROVE Frames'
  BY <1>1, SoundPersists DEF Frames
<1>2. CASE UNCHANGED vars
  BY <1>1, <1>2 DEF vars
<1>3. CASE Environment
  BY <1>1, <1>3 DEF Environment, OfferDeadline, ScheduleDue, SlotExpires, UpdateLocation,
     SetAvailability
<1>4. ASSUME NEW r \in Requests, Fail(r) PROVE Frames'
  BY <1>4, FinishFrame DEF Fail
<1> QED BY <1>2, <1>3, <1>4, CallFrames, ContinueFrames DEF Next

-------------------------------------------------------------------------------
\* What is enough for a step other than an acceptance to keep the rows right: no
\* offer becomes accepted, no order enters a ride without a trip, and no queue
\* slot is filled with another driver's order.
LEMMA DataStep ==
  ASSUME Data, Keeps, RowTypes',
         \A f \in Offers : offer'[f].status = "ACCEPTED" => offer[f].status = "ACCEPTED",
         \A o \in Orders : order'[o] \in RideStatus =>
             order[o] \in RideStatus \/ trip'[o].status # "NONE",
         \A d \in Drivers : nextOrder'[d] # None =>
             nextOrder'[d] = nextOrder[d] \/ trip'[nextOrder'[d]].driver = d
  PROVE  Data'
<1>1. AcceptedOfferIsTheTrip'
  <2> SUFFICES ASSUME NEW f \in Offers, offer'[f].status = "ACCEPTED"
               PROVE  /\ trip'[offer'[f].order].status # "NONE"
                      /\ trip'[offer'[f].order].driver = offer'[f].driver
                      /\ \A g \in Offers : (/\ offer'[g].status = "ACCEPTED"
                                            /\ offer'[g].order = offer'[f].order) => g = f
    BY DEF AcceptedOfferIsTheTrip, OffersOf, Exists
  <2>1. offer[f].status = "ACCEPTED" /\ offer[f] \in OfferRow
    BY RowFacts DEF Data
  <2>2. /\ trip[offer[f].order].status # "NONE"
        /\ trip[offer[f].order].driver = offer[f].driver
        /\ \A g \in Offers : (/\ offer[g].status = "ACCEPTED"
                              /\ offer[g].order = offer[f].order) => g = f
    BY <2>1 DEF Data, AcceptedOfferIsTheTrip, OffersOf, Exists
  <2> QED BY <2>1, <2>2 DEF Keeps, OfferRow
<1>2. RideHasTrip'
  BY DEF Data, RideHasTrip, HasTrip, Keeps
<1>3. QueueSlotIsOwnTrip'
  <2> SUFFICES ASSUME NEW d \in Drivers, nextOrder'[d] # None, nextOrder'[d] = nextOrder[d]
               PROVE  trip'[nextOrder'[d]].driver = d
    BY DEF QueueSlotIsOwnTrip
  <2>1. nextOrder[d] \in Orders /\ trip[nextOrder[d]].driver = d
    BY DEF Data, RowTypes, QueueSlotIsOwnTrip
  <2>2. trip[nextOrder[d]].status # "NONE"
    BY <2>1, RowFacts, NoneIsNoValue DEF Data
  <2> QED BY <2>1, <2>2 DEF Keeps
<1> QED BY <1>1, <1>2, <1>3 DEF Data

\* A step that leaves the rows alone.
LEMMA ReadStep ==
  ASSUME Data, UNCHANGED rows
  PROVE  Data' /\ Quiet
  BY DEF Data, RowTypes, AcceptedOfferIsTheTrip, OffersOf, Exists, RideHasTrip, HasTrip,
     QueueSlotIsOwnTrip, Quiet, SameOffers, SameTrips, rows

\* A step that writes an order's status, and no offer or trip.
LEMMA OrderStep ==
  ASSUME Data, NEW o \in Orders, NEW s \in {"CREATED", "MATCHING"},
         order' = [order EXCEPT ![o] = s],
         UNCHANGED <<due, offer, trip, avail, geo, nextOrder>>
  PROVE  Data' /\ Quiet
<1>1. Quiet
  BY DEF Quiet, SameOffers, SameTrips
<1>2. RowTypes'
  BY DEF Data, RowTypes, OrderStatus
<1>3. \A p \in Orders : order'[p] \in RideStatus => order[p] \in RideStatus
  BY DEF Data, RowTypes, RideStatus
<1> QED BY <1>1, <1>2, <1>3, KindKeeps, DataStep DEF Data

\* A step that ends an offer there is.
LEMMA EndOfferStep ==
  ASSUME Data, NEW f \in Offers, offer[f].status # "NONE",
         NEW s \in {"EXPIRED", "CANCELLED", "REJECTED"}, SetOfferStatus(f, s),
         UNCHANGED <<order, due, trip, avail, geo, nextOrder>>
  PROVE  Data' /\ Quiet
<1>1. offer[f] \in OfferRow
  BY RowFacts DEF Data
<1>2. [offer[f] EXCEPT !.status = s] \in OfferRow
  BY <1>1 DEF OfferRow, OfferStatus
<1>3. RowTypes'
  BY <1>2 DEF Data, RowTypes, SetOfferStatus
<1>4. Quiet
  BY <1>1 DEF Data, RowTypes, Quiet, SameOffers, SameTrips, SetOfferStatus, OfferRow
<1>5. \A g \in Offers : offer'[g].status = "ACCEPTED" => offer[g].status = "ACCEPTED"
  BY <1>1 DEF Data, RowTypes, SetOfferStatus, OfferRow
<1> QED BY <1>3, <1>4, <1>5, KindKeeps, DataStep DEF Data

\* A step that makes an offer.
LEMMA NewOfferStep ==
  ASSUME Data, NEW o \in Orders, NEW d \in Drivers, InsertOffer(o, d),
         \E r \in Requests : Offering(r, o, d),
         UNCHANGED <<order, due, trip, avail, geo, nextOrder>>
  PROVE  Data' /\ Offered
<1> DEFINE row == [status |-> "PENDING", order |-> o, driver |-> d, overdue |-> FALSE]
<1>1. PICK f \in Offers : IsFresh(f) /\ offer' = [offer EXCEPT ![f] = row]
  BY DEF InsertOffer
<1>2. row \in OfferRow
  BY DEF OfferRow, OfferStatus
<1>3. RowTypes'
  BY <1>1, <1>2 DEF Data, RowTypes
<1>4. Offered
  BY DEF Offered
<1>5. \A g \in Offers : offer'[g].status = "ACCEPTED" => offer[g].status = "ACCEPTED"
  BY <1>1 DEF Data, RowTypes
<1> QED BY <1>3, <1>4, <1>5, KindKeeps, DataStep DEF Data

\* A step that moves a trip there is, its order and drivers' availability.
LEMMA MoveStep ==
  ASSUME Data, NEW o \in Orders, trip[o].status # "NONE", NEW s \in TripStatus,
         trip' = [trip EXCEPT ![o].status = s],
         order' \in [Orders -> OrderStatus \cup {"NONE"}],
         \A p \in Orders \ {o} : order'[p] = order[p],
         avail' \in [Drivers -> AvailabilityStatus],
         UNCHANGED <<due, offer, geo, nextOrder>>
  PROVE  Data' /\ Quiet
<1>1. trip[o] \in TripRow
  BY RowFacts DEF Data
<1>2. [trip[o] EXCEPT !.status = s] \in TripRow
  BY <1>1 DEF TripRow
<1>3. RowTypes'
  BY <1>2 DEF Data, RowTypes
<1>4. Quiet
  BY <1>1 DEF Data, RowTypes, Quiet, SameOffers, SameTrips, TripRow, TripStatus
<1>5. \A p \in Orders : order'[p] \in RideStatus =>
          order[p] \in RideStatus \/ trip'[p].status # "NONE"
  BY <1>1 DEF Data, RowTypes, TripRow, TripStatus
<1> QED BY <1>3, <1>4, <1>5, KindKeeps, DataStep DEF Data

\* The steps of a search: they make an offer, end offers, or mark an order MATCHING.
LEMMA SearchRows ==
  ASSUME Data, Frames, NEW r \in Requests, SearchSteps(r)
  PROVE  Data' /\ (Quiet \/ Offered)
<1>a. req[r] \in Request /\ Sound(req[r], offer, trip)
  BY DEF Frames
<1>1. CASE AssignFindTrip(r) \/ AssignFindOffer(r) \/ FindTried(r) \/ Pick(r)
           \/ ReofferFindTrip(r) \/ SweepFindOrder(r)
  BY <1>1, ReadStep
     DEF AssignFindTrip, AssignFindOffer, FindTried, Pick, ReofferFindTrip, SweepFindOrder
<1>2. CASE CreateOffer(r)
  <2>1. req[r].order \in Orders /\ req[r].driver \in Drivers
    BY <1>a, <1>2 DEF CreateOffer, At, Sound, DriverSteps
  <2> QED BY <1>2, <2>1, NewOfferStep DEF CreateOffer, At, Offering
<1>3. CASE SetMatching(r) \/ ScheduledMatching(r)
  <2>1. req[r].order \in Orders
    BY <1>a, <1>3 DEF SetMatching, ScheduledMatching, At, Sound
  <2> QED BY <1>3, <2>1, OrderStep DEF SetMatching, ScheduledMatching
<1>4. CASE LapseOffer(r) \/ RejectWrite(r)
  <2>1. req[r].offer \in Offers /\ offer[req[r].offer].status # "NONE"
    BY <1>a, <1>4 DEF LapseOffer, RejectWrite, At, Sound
  <2> QED BY <1>4, <2>1, EndOfferStep DEF LapseOffer, RejectWrite
<1>5. CASE SweepExpire(r)
  <2>1. PICK group \in SUBSET req[r].batch :
          offer' = [f \in Offers |-> IF f \in group /\ offer[f].status = "PENDING"
                                     THEN [offer[f] EXCEPT !.status = "EXPIRED"] ELSE offer[f]]
    BY <1>5 DEF SweepExpire
  <2>2. \A f \in Offers : offer[f].status = "PENDING" =>
          offer[f] \in OfferRow /\ [offer[f] EXCEPT !.status = "EXPIRED"] \in OfferRow
    BY RowFacts DEF Data, OfferRow, OfferStatus
  <2>3. UNCHANGED <<order, due, trip, avail, geo, nextOrder>>
    BY <1>5 DEF SweepExpire
  <2>4. RowTypes'
    BY <2>1, <2>2, <2>3 DEF Data, RowTypes
  <2>5. Quiet
    BY <2>1, <2>2, <2>3 DEF Quiet, SameOffers, SameTrips, OfferRow
  <2>6. \A f \in Offers : offer'[f].status = "ACCEPTED" => offer[f].status = "ACCEPTED"
    BY <2>1, <2>2 DEF OfferRow
  <2> QED BY <2>3, <2>4, <2>5, <2>6, KindKeeps, DataStep DEF Data
<1> QED BY <1>1, <1>2, <1>3, <1>4, <1>5 DEF SearchSteps

\* The step that commits an acceptance.  The order had no trip, so none of its
\* offers was accepted: the one accepted now is the only one.
LEMMA CommitRows ==
  ASSUME Data, Frames, NEW r \in Requests, AcceptCommit(r), ~HasTrip(req[r].order)
  PROVE  Data' /\ Given
<1> DEFINE o == req[r].order  d == req[r].driver  f == req[r].offer
<1>1. /\ o \in Orders /\ d \in Drivers /\ f \in Offers
      /\ offer[f].status # "NONE" /\ offer[f].order = o /\ offer[f].driver = d
      /\ trip[o].status = "NONE"
  BY DEF Frames, AcceptCommit, At, Sound, LateSteps, DriverSteps, HasTrip
<1>2. /\ offer' = [WithdrawOffers(o, f) EXCEPT ![f].status = "ACCEPTED"]
      /\ order' = [order EXCEPT ![o] = "ASSIGNED"]
      /\ avail' = [avail EXCEPT ![d] = "BUSY"]
      /\ trip' = [trip EXCEPT ![o] = [status |-> "ASSIGNED", driver |-> d]]
      /\ UNCHANGED <<due, geo, nextOrder>>
  BY DEF AcceptCommit, AcceptRows
<1> HIDE DEF o, d, f
<1>t. \A p \in Orders : /\ p # o => trip'[p] = trip[p]
                        /\ trip'[p].driver = IF p = o THEN d ELSE trip[p].driver
                        /\ trip'[p].status = IF p = o THEN "ASSIGNED" ELSE trip[p].status
  BY <1>1, <1>2 DEF Data, RowTypes
<1>3. \A g \in Offers : offer[g].status # "NONE" => offer[g] \in OfferRow
  BY RowFacts DEF Data
<1>4. \A g \in Offers : /\ offer'[g].order = offer[g].order
                        /\ offer'[g].driver = offer[g].driver
                        /\ offer'[g].status = IF g = f THEN "ACCEPTED"
                              ELSE IF offer[g].order = o /\ offer[g].status = "PENDING"
                                   THEN "CANCELLED" ELSE offer[g].status
  BY <1>1, <1>2, <1>3 DEF WithdrawOffers, OfferRow
<1>5. \A g \in Offers : offer[g].status # "NONE" =>
        /\ [offer[g] EXCEPT !.status = "CANCELLED"] \in OfferRow
        /\ [offer[g] EXCEPT !.status = "ACCEPTED"] \in OfferRow
  BY <1>3 DEF OfferRow, OfferStatus
<1>6. WithdrawOffers(o, f) \in [Offers -> OfferRow \cup {NoOffer}]
      /\ WithdrawOffers(o, f)[f] = offer[f]
  BY <1>1, <1>5 DEF WithdrawOffers, Data, RowTypes
<1>7. RowTypes'
  <2>1. offer' \in [Offers -> OfferRow \cup {NoOffer}]
    BY <1>1, <1>2, <1>5, <1>6
  <2>2. /\ trip' \in [Orders -> TripRow \cup {NoTrip}]
        /\ order' \in [Orders -> OrderStatus \cup {"NONE"}]
        /\ avail' \in [Drivers -> AvailabilityStatus]
    BY <1>1, <1>2 DEF Data, RowTypes, TripRow, TripStatus, OrderStatus, AvailabilityStatus
  <2> QED BY <1>2, <2>1, <2>2 DEF Data, RowTypes
<1>8. Given
  <2>1. SameOffers
    BY <1>1, <1>4 DEF SameOffers
  <2>2. /\ offer[f].status # "NONE"
        /\ trip[offer[f].order].status = "NONE"
        /\ trip' = [trip EXCEPT ![offer[f].order] =
                       [status |-> "ASSIGNED", driver |-> offer[f].driver]]
    BY <1>1, <1>2
  <2> QED BY <1>1, <2>1, <2>2 DEF Given
<1>9. \A g \in Offers : offer[g].status = "ACCEPTED" => offer[g].order # o
  BY <1>1 DEF Data, AcceptedOfferIsTheTrip
<1>10. AcceptedOfferIsTheTrip'
  <2> SUFFICES ASSUME NEW g \in Offers, offer'[g].status = "ACCEPTED"
               PROVE  /\ trip'[offer'[g].order].status # "NONE"
                      /\ trip'[offer'[g].order].driver = offer'[g].driver
                      /\ \A h \in Offers : (/\ offer'[h].status = "ACCEPTED"
                                            /\ offer'[h].order = offer'[g].order) => h = g
    BY DEF AcceptedOfferIsTheTrip, OffersOf, Exists
  <2>1. CASE g = f
    BY <1>1, <1>t, <1>4, <1>9, <2>1
  <2>2. CASE g # f
    <3>1. offer[g].status = "ACCEPTED" /\ offer[g].order # o
      BY <1>4, <1>9, <2>2
    <3>2. /\ trip[offer[g].order].status # "NONE"
          /\ trip[offer[g].order].driver = offer[g].driver
          /\ \A h \in Offers : (/\ offer[h].status = "ACCEPTED"
                                /\ offer[h].order = offer[g].order) => h = g
      BY <3>1 DEF Data, AcceptedOfferIsTheTrip, OffersOf, Exists
    <3>3. offer[g].order \in Orders
      BY <1>3, <3>1 DEF OfferRow
    <3>4. /\ trip'[offer'[g].order].status # "NONE"
          /\ trip'[offer'[g].order].driver = offer'[g].driver
      BY <1>t, <1>4, <3>1, <3>2, <3>3
    <3> QED BY <1>1, <1>4, <3>1, <3>2, <3>4
  <2> QED BY <2>1, <2>2
<1>11. RideHasTrip'
  BY <1>1, <1>2 DEF Data, RowTypes, RideHasTrip, HasTrip
<1>12. QueueSlotIsOwnTrip'
  <2> SUFFICES ASSUME NEW e \in Drivers, nextOrder[e] # None
               PROVE  trip'[nextOrder[e]].driver = e
    BY <1>2 DEF QueueSlotIsOwnTrip
  <2>1. nextOrder[e] \in Orders /\ trip[nextOrder[e]].driver = e /\ e # None
    BY NoneIsNoValue DEF Data, RowTypes, QueueSlotIsOwnTrip
  <2>2. nextOrder[e] # o
    BY <1>1, <2>1, RowFacts DEF Data
  <2> QED BY <1>2, <2>1, <2>2 DEF Data, RowTypes
<1> QED BY <1>7, <1>8, <1>10, <1>11, <1>12 DEF Data

\* The steps of an acceptance.
LEMMA AcceptStepRows ==
  ASSUME Data, Frames, NEW r \in Requests, AcceptSteps(r)
  PROVE  Data' /\ (Quiet \/ Given)
<1>a. req[r] \in Request /\ Sound(req[r], offer, trip)
  BY DEF Frames
<1>1. CASE AcceptFindTrip(r) \/ AcceptCount(r)
  BY <1>1, ReadStep DEF AcceptFindTrip, AcceptCount
<1>2. CASE AcceptLate(r)
  <2>1. req[r].offer \in Offers /\ offer[req[r].offer].status # "NONE"
    BY <1>a, <1>2 DEF AcceptLate, At, Sound, LateSteps
  <2> QED BY <1>2, <2>1, EndOfferStep DEF AcceptLate
<1>3. CASE AcceptCommit(r)
  <2>1. CASE HasTrip(req[r].order)
    BY <1>3, <2>1, ReadStep DEF AcceptCommit
  <2> QED BY <1>3, <2>1, CommitRows
<1>4. CASE AcceptQueue(r)
  <2>1. /\ req[r].order \in Orders /\ req[r].driver \in Drivers
        /\ trip[req[r].order].driver = req[r].driver
    BY <1>a, <1>4 DEF AcceptQueue, At, Sound, LateSteps, TripSteps, DriverSteps
  <2>2. Quiet
    BY <1>4 DEF AcceptQueue, Quiet, SameOffers, SameTrips
  <2>3. RowTypes'
    BY <1>4, <2>1 DEF AcceptQueue, Data, RowTypes
  <2>4. \A d \in Drivers : nextOrder'[d] # None =>
             nextOrder'[d] = nextOrder[d] \/ trip'[nextOrder'[d]].driver = d
    BY <1>4, <2>1 DEF AcceptQueue, Data, RowTypes
  <2>5. UNCHANGED <<order, offer, trip>>
    BY <1>4 DEF AcceptQueue
  <2> QED BY <2>2, <2>3, <2>4, <2>5, KindKeeps, DataStep DEF Data
<1> QED BY <1>1, <1>2, <1>3, <1>4 DEF AcceptSteps

\* A step that writes a driver's row or empties the driver's queue slot.
LEMMA DriverStep ==
  ASSUME Data, UNCHANGED <<order, due, offer, trip>>,
         avail' \in [Drivers -> AvailabilityStatus], geo' \in [Drivers -> AvailabilityStatus],
         nextOrder' \in [Drivers -> Orders \cup {None}],
         \A d \in Drivers : nextOrder'[d] \in {nextOrder[d], None}
  PROVE  Data' /\ Quiet
<1>1. Quiet
  BY DEF Quiet, SameOffers, SameTrips
<1>2. RowTypes'
  BY DEF Data, RowTypes
<1> QED BY <1>1, <1>2, KindKeeps, DataStep DEF Data

\* The steps that fill a driver's queue slot and empty it.
LEMMA QueueRows ==
  ASSUME Data, Frames, NEW r \in Requests, QueueSteps(r)
  PROVE  Data' /\ (Quiet \/ Offered)
<1>a. req[r] \in Request /\ Sound(req[r], offer, trip)
  BY DEF Frames
<1>1. CASE QueueGetSlot(r) \/ QueueFindOrder(r) \/ ActivateGetSlot(r) \/ ActivateFindTrip(r)
  BY <1>1, ReadStep DEF QueueGetSlot, QueueFindOrder, ActivateGetSlot, ActivateFindTrip
<1>2. CASE QueueCreateOffer(r)
  <2>1. req[r].order \in Orders /\ req[r].driver \in Drivers
    BY <1>a, <1>2 DEF QueueCreateOffer, At, Sound, DriverSteps
  <2> QED BY <1>2, <2>1, NewOfferStep DEF QueueCreateOffer, At, Offering
<1>3. CASE ActivateStart(r)
  <2>1. req[r].order \in Orders /\ trip[req[r].order].status # "NONE"
    BY <1>a, <1>3 DEF ActivateStart, At, Sound
  <2> QED BY <1>3, <2>1, MoveStep DEF ActivateStart, Data, RowTypes, TripStatus
<1>4. CASE ActivateDelSlot(r)
  <2>1. /\ nextOrder' \in [Drivers -> Orders \cup {None}]
        /\ \A d \in Drivers : nextOrder'[d] \in {nextOrder[d], None}
    BY <1>4 DEF ActivateDelSlot, Data, RowTypes
  <2>2. /\ avail' \in [Drivers -> AvailabilityStatus] /\ geo' \in [Drivers -> AvailabilityStatus]
        /\ UNCHANGED <<order, due, offer, trip>>
    BY <1>4 DEF ActivateDelSlot, Data, RowTypes
  <2> QED BY <2>1, <2>2, DriverStep
<1> QED BY <1>1, <1>2, <1>3, <1>4 DEF QueueSteps

\* The transaction of a cancellation ends a trip only if it has read one.
LEMMA CancelRows ==
  ASSUME Data, Frames, NEW r \in Requests, CancelCommit(r)
  PROVE  Data' /\ Quiet
<1> DEFINE o == req[r].order  d == req[r].driver
<1>1. /\ o \in Orders /\ d \in Drivers \cup {None}
      /\ d # None => trip[o].status # "NONE"
  BY DEF Frames, CancelCommit, At, Sound, Request
<1>2. /\ offer' = WithdrawOffers(o, None)
      /\ order' = [order EXCEPT ![o] = "CANCELLED"]
      /\ trip' = IF d = None THEN trip ELSE [trip EXCEPT ![o].status = "CANCELLED"]
      /\ avail' = avail \/ (d # None /\ avail' = [avail EXCEPT ![d] = "ONLINE"])
      /\ UNCHANGED <<due, geo, nextOrder>>
  BY DEF CancelCommit
<1> HIDE DEF o, d
<1>3. \A f \in Offers : offer[f].status # "NONE" =>
        offer[f] \in OfferRow /\ [offer[f] EXCEPT !.status = "CANCELLED"] \in OfferRow
  BY RowFacts DEF Data, OfferRow, OfferStatus
<1>4. \A f \in Offers : /\ offer'[f].order = offer[f].order
                        /\ offer'[f].driver = offer[f].driver
                        /\ offer'[f].status # offer[f].status =>
                              offer[f].status = "PENDING" /\ offer'[f].status = "CANCELLED"
  BY <1>2, <1>3 DEF WithdrawOffers, OfferRow
<1>5. trip[o].status # "NONE" =>
        trip[o] \in TripRow /\ [trip[o] EXCEPT !.status = "CANCELLED"] \in TripRow
  BY <1>1, RowFacts DEF Data, TripRow, TripStatus
<1>6. \A p \in Orders : /\ trip'[p].driver = trip[p].driver
                        /\ trip'[p].status = "NONE" <=> trip[p].status = "NONE"
  BY <1>1, <1>2, <1>5 DEF Data, RowTypes, TripRow
<1>7. RowTypes'
  <2>1. offer' \in [Offers -> OfferRow \cup {NoOffer}]
    BY <1>2, <1>3 DEF WithdrawOffers, Data, RowTypes
  <2>2. trip' \in [Orders -> TripRow \cup {NoTrip}]
    BY <1>1, <1>2, <1>5 DEF Data, RowTypes
  <2>3. order' \in [Orders -> OrderStatus \cup {"NONE"}]
        /\ avail' \in [Drivers -> AvailabilityStatus]
    BY <1>1, <1>2 DEF Data, RowTypes, OrderStatus, AvailabilityStatus
  <2> QED BY <1>2, <2>1, <2>2, <2>3 DEF Data, RowTypes
<1>8. Quiet
  BY <1>4, <1>6 DEF Quiet, SameOffers, SameTrips
<1>9. \A p \in Orders : order'[p] \in RideStatus => order[p] \in RideStatus
  BY <1>1, <1>2 DEF Data, RowTypes, RideStatus
<1> QED BY <1>2, <1>4, <1>7, <1>8, <1>9, KindKeeps, DataStep DEF Data

\* Every step of a request in flight.
LEMMA ContinueRows ==
  ASSUME Data, Frames, NEW r \in Requests, Continue(r)
  PROVE  Data' /\ (Quiet \/ Offered \/ Given)
<1>a. req[r] \in Request /\ Sound(req[r], offer, trip)
  BY DEF Frames
<1>1. CASE CreateInsert(r)
  <2>1. req[r].order \in Orders
    BY <1>a, <1>1 DEF CreateInsert, At, Sound
  <2> QED BY <1>1, <2>1, OrderStep DEF CreateInsert
<1>2. CASE CompleteCommit(r)
  <2>1. /\ req[r].order \in Orders /\ req[r].driver \in Drivers
        /\ trip[req[r].order].status # "NONE"
    BY <1>a, <1>2 DEF CompleteCommit, At, Sound, TripSteps, DriverSteps
  <2>2. /\ order' \in [Orders -> OrderStatus \cup {"NONE"}]
        /\ \A p \in Orders \ {req[r].order} : order'[p] = order[p]
        /\ avail' \in [Drivers -> AvailabilityStatus]
    BY <1>2, <2>1 DEF CompleteCommit, Data, RowTypes, OrderStatus, AvailabilityStatus
  <2>3. /\ trip' = [trip EXCEPT ![req[r].order].status = "COMPLETED"]
        /\ UNCHANGED <<due, offer, geo, nextOrder>>
    BY <1>2 DEF CompleteCommit
  <2>4. "COMPLETED" \in TripStatus
    BY DEF TripStatus
  <2> QED BY <2>1, <2>2, <2>3, <2>4, MoveStep
<1>3. CASE CompleteBusy(r)
  <2>1. /\ avail' \in [Drivers -> AvailabilityStatus] /\ geo' \in [Drivers -> AvailabilityStatus]
        /\ nextOrder' = nextOrder /\ nextOrder \in [Drivers -> Orders \cup {None}]
        /\ UNCHANGED <<order, due, offer, trip>>
    BY <1>3 DEF CompleteBusy, Data, RowTypes, AvailabilityStatus
  <2> QED BY <2>1, DriverStep
<1> QED BY <1>1, <1>2, <1>3, CancelRows, SearchRows, AcceptStepRows, QueueRows DEF Continue

\* Every first step of a request: it only reads, but for the driver's calls that
\* move a trip.
LEMMA CallRows ==
  ASSUME Data, NEW r \in Requests, Calls(r)
  PROVE  Data' /\ Quiet
<1>1. ASSUME NEW o \in Orders, NEW s \in TripStatus, NEW t \in OrderStatus \cup {order[o]},
             MoveTrip(o, s, t), HasTrip(o)
      PROVE  Data' /\ Quiet
  <2>1. /\ order' \in [Orders -> OrderStatus \cup {"NONE"}]
        /\ \A p \in Orders \ {o} : order'[p] = order[p]
        /\ avail' \in [Drivers -> AvailabilityStatus]
    BY <1>1 DEF MoveTrip, Data, RowTypes
  <2> QED BY <1>1, <2>1, MoveStep DEF MoveTrip, HasTrip
<1>2. ASSUME NEW o \in Orders, AcceptTrip(r, o) \/ ArrivedPickup(r, o) \/ StartLoading(r, o)
                               \/ StartTransit(r, o)
      PROVE  Data' /\ Quiet
  <2>1. HasTrip(o)
    BY <1>2 DEF AcceptTrip, ArrivedPickup, StartLoading, StartTransit, Called
  <2>2. PICK s \in {"DRIVER_EN_ROUTE", "ARRIVED_PICKUP", "LOADING", "IN_TRANSIT"},
             t \in {"AT_PICKUP", "LOADING", "IN_TRANSIT", order[o]} : MoveTrip(o, s, t)
    BY <1>2 DEF AcceptTrip, ArrivedPickup, StartLoading, StartTransit
  <2>3. s \in TripStatus /\ t \in OrderStatus \cup {order[o]}
    BY DEF TripStatus, OrderStatus
  <2> QED BY <1>1, <2>1, <2>2, <2>3
<1>3. ASSUME NEW o \in Orders, CreateOrder(r, o) \/ FindById(r, o) \/ AssignOrder(r, o)
                       \/ CancelOrder(r, o) \/ RunScheduled(r, o) \/ Complete(r, o)
      PROVE  Data' /\ Quiet
  BY <1>3, ReadStep DEF CreateOrder, FindById, AssignOrder, CancelOrder, RunScheduled, Complete
<1>4. CASE ProcessExpired(r)
  BY <1>4, ReadStep DEF ProcessExpired
<1>5. ASSUME NEW f \in Offers, ReadOverdue(r, "accept", f) \/ ReadOverdue(r, "reject", f)
      PROVE  Data' /\ Quiet
  BY <1>5, ReadStep DEF ReadOverdue
<1>6. ASSUME NEW f \in Offers, NEW d \in Drivers, AcceptOffer(r, f, d) \/ RejectOffer(r, f, d)
      PROVE  Data' /\ Quiet
  BY <1>6, ReadStep DEF AcceptOffer, RejectOffer
<1> QED BY <1>2, <1>3, <1>4, <1>5, <1>6 DEF Calls

\* Time passes, a slot expires, a driver moves or changes availability.
LEMMA EnvironmentRows ==
  ASSUME Data, Environment
  PROVE  Data' /\ Quiet
<1>1. ASSUME NEW f \in Offers, OfferDeadline(f) PROVE Data' /\ Quiet
  <2>1. offer[f] \in OfferRow /\ [offer[f] EXCEPT !.overdue = TRUE] \in OfferRow
    BY <1>1, RowFacts DEF Data, OfferDeadline, Live, OfferRow
  <2>2. offer' = [offer EXCEPT ![f] = [offer[f] EXCEPT !.overdue = TRUE]]
        /\ UNCHANGED <<order, due, trip, avail, geo, nextOrder>>
    BY <1>1 DEF OfferDeadline
  <2>3. RowTypes'
    BY <2>1, <2>2 DEF Data, RowTypes
  <2>4. \A g \in Offers : /\ offer'[g].status = offer[g].status
                          /\ offer'[g].order = offer[g].order
                          /\ offer'[g].driver = offer[g].driver
    BY <2>1, <2>2 DEF Data, RowTypes, OfferRow
  <2>5. Quiet
    BY <2>2, <2>4 DEF Quiet, SameOffers, SameTrips
  <2> QED BY <2>2, <2>3, <2>4, <2>5, KindKeeps, DataStep DEF Data
<1>2. ASSUME NEW o \in Orders, ScheduleDue(o) PROVE Data' /\ Quiet
  <2>1. Quiet /\ RowTypes' /\ UNCHANGED <<order, offer, trip, nextOrder>>
    BY <1>2 DEF ScheduleDue, Quiet, SameOffers, SameTrips, Data, RowTypes
  <2> QED BY <2>1, KindKeeps, DataStep DEF Data
<1>3. ASSUME NEW d \in Drivers, SlotExpires(d) \/ UpdateLocation(d)
                                \/ \E s \in AvailabilityStatus : SetAvailability(d, s)
      PROVE  Data' /\ Quiet
  <2>1. /\ avail' \in [Drivers -> AvailabilityStatus] /\ geo' \in [Drivers -> AvailabilityStatus]
        /\ nextOrder' \in [Drivers -> Orders \cup {None}]
        /\ \A e \in Drivers : nextOrder'[e] \in {nextOrder[e], None}
        /\ UNCHANGED <<order, due, offer, trip>>
    BY <1>3 DEF SlotExpires, UpdateLocation, SetAvailability, Data, RowTypes
  <2> QED BY <2>1, DriverStep
<1> QED BY <1>1, <1>2, <1>3 DEF Environment

\* Every step is of one of the three kinds, and keeps the rows right.
LEMMA NextRows ==
  ASSUME Data, Frames, [Next]_vars
  PROVE  Data' /\ (Quiet \/ Offered \/ Given)
<1>1. CASE UNCHANGED vars
  BY <1>1, ReadStep DEF vars, rows
<1>2. ASSUME NEW r \in Requests, Fail(r) PROVE Data' /\ Quiet
  BY <1>2, ReadStep DEF Fail
<1> QED BY <1>1, <1>2, EnvironmentRows, CallRows, ContinueRows DEF Next

-------------------------------------------------------------------------------
\* Nothing is booked, offered or in flight at first.
LEMMA InitInvariant == Init => IInv
<1> SUFFICES ASSUME Init PROVE Data /\ Frames
  BY Halves
<1>1. Data
  BY NoneIsNoValue DEF Init, Data, RowTypes, AcceptedOfferIsTheTrip, RideHasTrip,
     QueueSlotIsOwnTrip, NoOffer, NoTrip, RideStatus, AvailabilityStatus
<1>2. Frames
  BY IdleSound DEF Init, Frames
<1> QED BY <1>1, <1>2

\* IInv is inductive, and no step changes what an offer or a trip is of.
LEMMA NextInvariant == IInv /\ [Next]_vars => IInv' /\ Keeps
<1> SUFFICES ASSUME Data, Frames, [Next]_vars PROVE Data' /\ Frames' /\ Keeps
  BY Halves DEF IInv, Data, Frames, RowTypes, TypeOK
<1>1. Data' /\ Keeps
  BY NextRows, KindKeeps DEF Data
<1> QED BY <1>1, NextFrames

\* The inductive invariant holds of every behaviour of the four services, however
\* many orders, drivers, offers and requests there are and whichever endpoints
\* are called.
THEOREM Invariant == Spec => []IInv
  BY InitInvariant, NextInvariant, PTL DEF Spec

\* The rows and the requests in flight keep their types.
THEOREM TypeCorrect == Spec => []TypeOK
<1>1. IInv => TypeOK BY DEF IInv
<1> QED BY <1>1, Invariant, PTL

\* An accepted offer is always the one offer that the order's trip came from
\* (acceptOffer's transaction and the unique column Trip.orderId).
THEOREM AcceptedOfferSafe == Spec => []AcceptedOfferIsTheTrip
<1>1. IInv => AcceptedOfferIsTheTrip BY DEF IInv
<1> QED BY <1>1, Invariant, PTL

\* An order is never shown as a ride when it has no trip, even if cancellations,
\* searches and failures overlap with its assignment.
THEOREM RideHasTripAlways == Spec => []RideHasTrip
<1>1. IInv => RideHasTrip BY DEF IInv
<1> QED BY <1>1, Invariant, PTL

\* A driver's queue slot never holds another driver's order, whatever requests of
\* other drivers were late, lost or overtaken.
THEOREM QueueSlotSafe == Spec => []QueueSlotIsOwnTrip
<1>1. IInv => QueueSlotIsOwnTrip BY DEF IInv
<1> QED BY <1>1, Invariant, PTL

\* The four services implement Assignment: an order is given to a driver only
\* after it was offered to that driver, at most once, and for good.
THEOREM Implementation == Spec => ImplementsAssignment
<1> DEFINE offeredTo == [o \in Orders |-> {offer[f].driver : f \in OffersOf(o)}]
           assignee == [o \in Orders |-> trip[o].driver]
<1>1. Init => Assigned!AInit
  BY DEF Init, Assigned!AInit, NoOffer, NoTrip, OffersOf, Exists
<1>2. ASSUME Data, SameOffers PROVE offeredTo' = offeredTo
  <2>1. ASSUME NEW o \in Orders
        PROVE  {offer'[f].driver :
                   f \in {g \in Offers : offer'[g].status # "NONE" /\ offer'[g].order = o}}
               = {offer[f].driver :
                   f \in {g \in Offers : offer[g].status # "NONE" /\ offer[g].order = o}}
    BY <1>2 DEF SameOffers
  <2> QED BY <2>1 DEF OffersOf, Exists
<1>3. ASSUME Data, Frames, [Next]_vars
      PROVE  [Assigned!ANext]_(Assigned!avars)
  <2>1. CASE Quiet
    <3>1. assignee' = assignee
      BY <2>1 DEF Quiet, SameTrips
    <3> QED BY <1>2, <1>3, <2>1, <3>1 DEF Quiet, Assigned!avars
  <2>2. CASE Offered
    <3>1. PICK o \in Orders, d \in Drivers : InsertOffer(o, d) /\ trip' = trip
      BY <2>2 DEF Offered
    <3> DEFINE row == [status |-> "PENDING", order |-> o, driver |-> d, overdue |-> FALSE]
    <3>2. PICK f \in Offers : offer[f].status = "NONE" /\ offer' = [offer EXCEPT ![f] = row]
      BY <3>1 DEF InsertOffer, IsFresh, Exists
    <3>3. \A g \in Offers : /\ g # f => offer'[g] = offer[g]
                            /\ g = f => offer'[g] = row
      BY <1>3, <3>2 DEF Data, RowTypes
    <3>4. ASSUME NEW p \in Orders
          PROVE  {offer'[g].driver :
                     g \in {h \in Offers : offer'[h].status # "NONE" /\ offer'[h].order = p}}
                 = {offer[g].driver :
                     g \in {h \in Offers : offer[h].status # "NONE" /\ offer[h].order = p}}
                   \cup (IF p = o THEN {d} ELSE {})
      BY <3>2, <3>3
    <3>5. offeredTo' = [offeredTo EXCEPT ![o] = @ \cup {d}]
      BY <3>4 DEF OffersOf, Exists
    <3>6. Assigned!Offer(o, d)
      BY <3>1, <3>5 DEF Assigned!Offer
    <3> QED BY <3>6 DEF Assigned!ANext
  <2>3. CASE Given
    <3>1. PICK f \in Offers :
             /\ offer[f].status # "NONE"
             /\ trip[offer[f].order].status = "NONE"
             /\ trip' = [trip EXCEPT ![offer[f].order] =
                            [status |-> "ASSIGNED", driver |-> offer[f].driver]]
      BY <2>3 DEF Given
    <3>2. PICK o \in Orders, d \in Drivers : o = offer[f].order /\ d = offer[f].driver
      BY <1>3, <3>1, RowFacts DEF Data, OfferRow
    <3>3. assignee[o] = None
      BY <1>3, <3>1, <3>2, RowFacts DEF Data
    <3>4. assignee' = [assignee EXCEPT ![o] = d]
      BY <1>3, <3>1, <3>2 DEF Data, RowTypes
    <3>5. d \in offeredTo[o]
      BY <3>1, <3>2 DEF OffersOf, Exists
    <3>6. offeredTo' = offeredTo
      BY <1>2, <1>3, <2>3 DEF Given
    <3>7. Assigned!Give(o, d)
      BY <3>3, <3>4, <3>5, <3>6 DEF Assigned!Give
    <3> QED BY <3>7 DEF Assigned!ANext
  <2> QED BY <1>3, <2>1, <2>2, <2>3, NextRows
<1>4. IInv /\ [Next]_vars => [Assigned!ANext]_(Assigned!avars)
  BY <1>3, Halves
<1> QED BY <1>1, <1>4, Invariant, PTL DEF Spec, ImplementsAssignment, Assigned!ASpec
-------------------------------------------------------------------------------
\* Who has carried an order has carried it for good, so what a request knows of it
\* does not grow stale.
LEMMA FitsPersists ==
  ASSUME Data, Keeps, NEW q \in Request, Sound(q, offer, trip), Fits(q, trip)
  PROVE  Fits(q, trip')
<1>1. ASSUME NEW p \in Orders, NEW d \in Drivers, trip[p].driver = d PROVE trip'[p].driver = d
  BY <1>1, RowFacts, NoneIsNoValue DEF Data, Keeps
<1>2. q.pc \in DriverSteps => q.driver \in Drivers
  BY DEF Sound
<1>3. q.pc \in {"queueGetSlot", "queueFindOrder"} => trip'[q.order].driver = q.driver
  BY <1>1, <1>2 DEF Sound, DriverSteps, Fits
<1>4. q.pc = "queueCreateOffer" => Follows(q.driver, q.order, trip')
  BY <1>1, <1>2 DEF DriverSteps, Fits, Follows
<1> QED BY <1>3, <1>4 DEF Fits

\* A step of a request leads it to an offer that fits, or follows.
LEMMA FitsOwn ==
  ASSUME Data, Frames, Keeps, NEW r \in Requests, Fits(req[r], trip),
         Calls(r) \/ Continue(r) \/ Fail(r)
  PROVE  Fits(req'[r], trip')
<1> DEFINE Careful == {"createOffer", "queueGetSlot", "queueFindOrder", "queueCreateOffer"}
<1>a. req[r] \in Request /\ Sound(req[r], offer, trip)
  BY DEF Frames
<1>b. Fits(req[r], trip')
  BY <1>a, FitsPersists
<1>1. ASSUME req'[r].pc \notin Careful PROVE Fits(req'[r], trip')
  BY <1>1 DEF Fits
<1>2. ASSUME NEW pc, pc \notin Careful, Goto(r, pc) PROVE Fits(req'[r], trip')
  BY <1>a, <1>1, <1>2 DEF Goto, Frames, Request
<1>3. Finish(r) => Fits(req'[r], trip')
  BY <1>1 DEF Finish, Idle, Frames
<1>4. Return(r) => Fits(req'[r], trip')
  BY <1>1 DEF Return, Idle, Frames
<1>5. ASSUME NEW op, NEW pc, NEW o, NEW d, NEW f, pc \notin Careful, Enter(r, op, pc, o, d, f)
      PROVE  Fits(req'[r], trip')
  BY <1>1, <1>5 DEF Enter, Idle, Frames
<1>6. CASE Fail(r)
  BY <1>3, <1>6 DEF Fail
<1>7. CASE Calls(r)
  <2>1. CASE ProcessExpired(r)
    BY <1>1, <2>1 DEF ProcessExpired, Idle, Frames
  <2>2. ASSUME NEW o \in Orders, CreateOrder(r, o) \/ FindById(r, o) \/ AssignOrder(r, o)
                 \/ CancelOrder(r, o) \/ RunScheduled(r, o) \/ Complete(r, o)
        PROVE  Fits(req'[r], trip')
    BY <1>5, <2>2 DEF CreateOrder, FindById, AssignOrder, CancelOrder, RunScheduled, Complete
  <2>3. ASSUME NEW o \in Orders, StartTransit(r, o)
        PROVE  Fits(req'[r], trip')
    <3>1. trip'[o].driver = trip[o].driver
      BY <2>3 DEF StartTransit, Called, HasTrip, Keeps
    <3>2. req'[r] = [Idle EXCEPT !.pc = "queueGetSlot", !.order = o, !.driver = trip[o].driver,
                                 !.offer = None]
      BY <2>3 DEF StartTransit, Enter, Frames
    <3> QED BY <3>1, <3>2 DEF Fits, Idle
  <2>4. ASSUME NEW o \in Orders, AcceptTrip(r, o) \/ ArrivedPickup(r, o) \/ StartLoading(r, o)
        PROVE  Fits(req'[r], trip')
    BY <1>b, <2>4 DEF AcceptTrip, ArrivedPickup, StartLoading
  <2>5. ASSUME NEW f \in Offers, ReadOverdue(r, "accept", f) \/ ReadOverdue(r, "reject", f)
        PROVE  Fits(req'[r], trip')
    BY <1>5, <2>5 DEF ReadOverdue
  <2>6. ASSUME NEW f \in Offers, NEW d \in Drivers, AcceptOffer(r, f, d) \/ RejectOffer(r, f, d)
        PROVE  Fits(req'[r], trip')
    BY <1>5, <2>6 DEF AcceptOffer, RejectOffer
  <2> QED BY <1>7, <2>1, <2>2, <2>3, <2>4, <2>5, <2>6 DEF Calls
<1>8. CASE Pick(r)
  <2>1. ASSUME NEW d \in Drivers, Suits(d, req[r].order),
               req' = [req EXCEPT ![r].pc = "createOffer", ![r].driver = d, ![r].tried = {}]
        PROVE  Fits(req'[r], trip')
    <3>1. req'[r] = [req[r] EXCEPT !.pc = "createOffer", !.driver = d, !.tried = {}]
      BY <2>1 DEF Frames
    <3>2. req'[r].pc = "createOffer" /\ req'[r].driver = d /\ req'[r].order = req[r].order
      BY <1>a, <3>1 DEF Request
    <3> QED BY <2>1, <3>2 DEF Fits
  <2> QED BY <1>4, <1>8, <2>1 DEF Pick, OnlineCandidates, BusyFallback
<1>9. CASE QueueFindOrder(r)
  <2>1. ASSUME NEW o \in Orders, VehicleMatches(OrderVehicle[req[r].order], OrderVehicle[o]),
               req' = [req EXCEPT ![r].pc = "queueCreateOffer", ![r].order = o]
        PROVE  Fits(req'[r], trip')
    <3>1. req'[r] = [req[r] EXCEPT !.pc = "queueCreateOffer", !.order = o]
      BY <2>1 DEF Frames
    <3>2. /\ req[r].order \in Orders
          /\ trip'[req[r].order].driver = req[r].driver
      BY <1>a, <1>b, <1>9 DEF QueueFindOrder, At, Sound, Fits
    <3>3. Follows(req[r].driver, o, trip')
      BY <2>1, <3>2 DEF Follows
    <3> QED BY <1>a, <3>1, <3>3 DEF Fits, Request
  <2> QED BY <1>3, <1>9, <2>1 DEF QueueFindOrder
<1>10. CASE QueueGetSlot(r)
  <2>1. ASSUME Goto(r, "queueFindOrder") PROVE Fits(req'[r], trip')
    <3>1. req'[r] = [req[r] EXCEPT !.pc = "queueFindOrder"]
      BY <2>1 DEF Goto, Frames
    <3>2. trip'[req[r].order].driver = req[r].driver
      BY <1>b, <1>10 DEF QueueGetSlot, At, Fits
    <3> QED BY <1>a, <3>1, <3>2 DEF Fits, Request
  <2> QED BY <1>3, <1>10, <2>1 DEF QueueGetSlot
<1>11. CASE SearchSteps(r) /\ ~Pick(r)
  <2>1. CASE FindTried(r)
    BY <1>1, <2>1 DEF FindTried, Frames, Request
  <2>2. CASE SweepExpire(r)
    BY <1>1, <2>2 DEF SweepExpire, Frames, Request
  <2>3. CASE ~FindTried(r) /\ ~SweepExpire(r)
    BY <1>2, <1>3, <1>4, <1>11, <2>3 DEF SearchSteps, AssignFindTrip, AssignFindOffer, CreateOffer,
       SetMatching, LapseOffer, RejectWrite, ReofferFindTrip, SweepFindOrder, ScheduledMatching
  <2> QED BY <2>1, <2>2, <2>3
<1>12. CASE AcceptSteps(r)
  BY <1>2, <1>3, <1>12 DEF AcceptSteps, AcceptFindTrip, AcceptLate, AcceptCommit, AcceptCount,
     AcceptQueue
<1>13. CASE QueueSteps(r) /\ ~QueueFindOrder(r) /\ ~QueueGetSlot(r)
  BY <1>1, <1>2, <1>3, <1>13 DEF QueueSteps, QueueCreateOffer, ActivateGetSlot, ActivateFindTrip,
     ActivateStart, ActivateDelSlot, Frames, Request
<1>14. CASE CreateInsert(r) \/ CancelCommit(r) \/ CompleteCommit(r) \/ CompleteBusy(r)
  BY <1>2, <1>3, <1>14 DEF CreateInsert, CancelCommit, CompleteCommit, CompleteBusy
<1> QED BY <1>6, <1>7, <1>8, <1>9, <1>10, <1>11, <1>12, <1>13, <1>14 DEF Continue

\* A step serves one request and leaves the others where they are.
LEMMA OneAtATime ==
  ASSUME req \in [Requests -> Request], NEW r \in Requests, NEW s \in Requests \ {r},
         Calls(r) \/ Continue(r) \/ Fail(r)
  PROVE  req'[s] = req[s]
<1>1. ASSUME NEW q, req' = [req EXCEPT ![r] = q] PROVE req'[s] = req[s]
  BY <1>1
<1>2. ASSUME NEW pc, Goto(r, pc) PROVE req'[s] = req[s]
  BY <1>2 DEF Goto
<1>3. Finish(r) => req'[s] = req[s]
  BY DEF Finish
<1>4. Return(r) => req'[s] = req[s]
  BY DEF Return
<1>5. ASSUME NEW op, NEW pc, NEW o, NEW d, NEW f, Enter(r, op, pc, o, d, f)
      PROVE  req'[s] = req[s]
  BY <1>5 DEF Enter
<1>6. CASE Fail(r)
  BY <1>3, <1>6 DEF Fail
<1>7. CASE Calls(r)
  <2>1. CASE ProcessExpired(r)
    BY <2>1 DEF ProcessExpired
  <2>2. ASSUME NEW o \in Orders, CreateOrder(r, o) \/ FindById(r, o) \/ AssignOrder(r, o)
                 \/ CancelOrder(r, o) \/ RunScheduled(r, o) \/ StartTransit(r, o) \/ Complete(r, o)
        PROVE  req'[s] = req[s]
    BY <1>5, <2>2 DEF CreateOrder, FindById, AssignOrder, CancelOrder, RunScheduled,
       StartTransit, Complete
  <2>3. ASSUME NEW o \in Orders, AcceptTrip(r, o) \/ ArrivedPickup(r, o) \/ StartLoading(r, o)
        PROVE  req'[s] = req[s]
    BY <2>3 DEF AcceptTrip, ArrivedPickup, StartLoading
  <2>4. ASSUME NEW f \in Offers, ReadOverdue(r, "accept", f) \/ ReadOverdue(r, "reject", f)
        PROVE  req'[s] = req[s]
    BY <1>5, <2>4 DEF ReadOverdue
  <2>5. ASSUME NEW f \in Offers, NEW d \in Drivers, AcceptOffer(r, f, d) \/ RejectOffer(r, f, d)
        PROVE  req'[s] = req[s]
    BY <1>5, <2>5 DEF AcceptOffer, RejectOffer
  <2> QED BY <1>7, <2>1, <2>2, <2>3, <2>4, <2>5 DEF Calls
<1>8. CASE SearchSteps(r)
  <2>1. CASE FindTried(r) \/ SweepExpire(r) \/ Pick(r)
    BY <1>4, <2>1 DEF FindTried, SweepExpire, Pick
  <2>2. CASE ~(FindTried(r) \/ SweepExpire(r) \/ Pick(r))
    BY <1>2, <1>3, <1>4, <1>8, <2>2 DEF SearchSteps, AssignFindTrip, AssignFindOffer, CreateOffer,
       SetMatching, LapseOffer, RejectWrite, ReofferFindTrip, SweepFindOrder, ScheduledMatching
  <2> QED BY <2>1, <2>2
<1>9. CASE AcceptSteps(r)
  BY <1>2, <1>3, <1>9 DEF AcceptSteps, AcceptFindTrip, AcceptLate, AcceptCommit, AcceptCount,
     AcceptQueue
<1>10. CASE QueueSteps(r)
  BY <1>2, <1>3, <1>10 DEF QueueSteps, QueueGetSlot, QueueFindOrder, QueueCreateOffer,
     ActivateGetSlot, ActivateFindTrip, ActivateStart, ActivateDelSlot
<1>11. CASE CreateInsert(r) \/ CancelCommit(r) \/ CompleteCommit(r) \/ CompleteBusy(r)
  BY <1>2, <1>3, <1>11 DEF CreateInsert, CancelCommit, CompleteCommit, CompleteBusy
<1> QED BY <1>6, <1>7, <1>8, <1>9, <1>10, <1>11 DEF Continue

LEMMA FitStep == IInv /\ FitInv /\ [Next]_vars => FitInv'
<1> SUFFICES ASSUME Data, Frames, FitInv, [Next]_vars PROVE FitInv'
  BY Halves
<1>1. Keeps /\ (Quiet \/ Offered \/ Given) /\ RowTypes'
  BY NextRows, KindKeeps DEF Data
<1>2. ASSUME NEW f \in Offers, offer'[f].status # "NONE"
      PROVE  \/ Suits(offer'[f].driver, offer'[f].order)
             \/ Follows(offer'[f].driver, offer'[f].order, trip')
  <2>1. CASE offer[f].status # "NONE"
    <3>1. offer'[f].order = offer[f].order /\ offer'[f].driver = offer[f].driver
      BY <1>1, <2>1 DEF Keeps
    <3>2. offer[f].driver \in Drivers
      BY <2>1, RowFacts DEF Data, OfferRow
    <3>3. Follows(offer[f].driver, offer[f].order, trip) =>
            Follows(offer[f].driver, offer[f].order, trip')
      BY <1>1, <3>2, RowFacts, NoneIsNoValue DEF Data, Keeps, Follows
    <3> QED BY <2>1, <3>1, <3>3 DEF FitInv, OffersFitOrFollow, Exists
  <2>2. CASE offer[f].status = "NONE"
    <3>1. Offered
      BY <1>1, <1>2, <2>2 DEF Quiet, Given, SameOffers
    <3>2. PICK o \in Orders, d \in Drivers, r \in Requests :
             trip' = trip /\ InsertOffer(o, d) /\ Offering(r, o, d)
      BY <3>1 DEF Offered
    <3>3. offer'[f].order = o /\ offer'[f].driver = d
      BY <1>2, <2>2, <3>2 DEF InsertOffer, Data, RowTypes
    <3>4. Suits(d, o) \/ Follows(d, o, trip)
      BY <3>2 DEF Offering, FitInv, Fits
    <3> QED BY <3>2, <3>3, <3>4
  <2> QED BY <2>1, <2>2
<1>3. ASSUME NEW s \in Requests, req'[s] = req[s] PROVE Fits(req'[s], trip')
  BY <1>1, <1>3, FitsPersists DEF Frames, FitInv
<1>4. CASE UNCHANGED vars
  BY <1>2, <1>3, <1>4 DEF vars, FitInv, OffersFitOrFollow, Exists
<1>5. ASSUME NEW r \in Requests, Calls(r) \/ Continue(r) \/ Fail(r), NEW s \in Requests
      PROVE  Fits(req'[s], trip')
  <2>1. CASE s = r
    BY <1>1, <1>5, <2>1, FitsOwn DEF FitInv
  <2>2. CASE s # r
    BY <1>3, <1>5, <2>2, OneAtATime DEF Frames
  <2> QED BY <2>1, <2>2
<1>6. CASE Environment
  <2>1. req' = req
    BY <1>6 DEF Environment, OfferDeadline, ScheduleDue, SlotExpires, UpdateLocation,
       SetAvailability
  <2> QED BY <1>2, <1>3, <2>1 DEF FitInv, OffersFitOrFollow, Exists
<1> QED BY <1>2, <1>4, <1>5, <1>6 DEF Next, FitInv, OffersFitOrFollow, Exists

\* However the requests interleave, a driver whose vehicle is too small for an order
\* is only offered it after having been given an order that asks for no larger a
\* vehicle: the search never makes such an offer, the next-job queue does.
THEOREM OffersFitOrFollowAlways == Spec => []OffersFitOrFollow
<1>1. Init => FitInv
  BY DEF Init, FitInv, OffersFitOrFollow, Exists, Fits, Idle, NoOffer
<1>2. FitInv => OffersFitOrFollow
  BY DEF FitInv
<1> QED BY <1>1, <1>2, FitStep, Invariant, PTL DEF Spec

\* No step deletes an offer or a trip, or hands it to another driver: whatever a
\* request has read of whom they are for stays true while it waits for its turn.
THEOREM IdentityIsKept == Spec => [][Keeps]_vars
<1>1. IInv /\ [Next]_vars => [Keeps]_vars
  BY NextInvariant
<1> QED BY <1>1, Invariant, PTL DEF Spec

===============================================================================
