---------------------------- MODULE IsolationProofs ----------------------------
(***************************************************************************)
(* What holds of Rides while the requests about an order do not overlap    *)
(* (IsolatedSpec), for every number of orders, drivers, offers and         *)
(* requests.  CourseInv, together with the invariant IInv of RidesProofs,  *)
(* is inductive.  A step is looked at three times: it is a step of the     *)
(* order's lifecycle, it leaves no unanswered offer of an order off the    *)
(* market, and the request it serves goes on with a frame that is on       *)
(* course.  The other requests stay on course because they are left alone. *)
(***************************************************************************)
EXTENDS RidesProofs

\* The row halves of CourseInv.
Course == OrderFollowsTrip /\ PendingInMarket
OnCourseNow(q) == OnCourse(q, order, offer, trip)
OnCourseNext(q) == OnCourse(q, order', offer', trip')

\* A request that goes on has a batch left only during a sweep.
LEMMA IdleOnCourse == OnCourseNow(Idle) /\ OnCourseNext(Idle)
  BY DEF OnCourseNow, OnCourseNext, OnCourse, Idle, MarketSteps

\* A request whose orders are left alone stays on course.
LEMMA CoursePersists ==
  ASSUME Data, Keeps, NEW q \in Request, Sound(q, offer, trip), OnCourseNow(q),
         \A o \in About(q) : SameRows(o)
  PROVE  OnCourseNext(q)
<1>1. q.order \in Orders /\ q.pc # "idle" => order'[q.order] = order[q.order]
                                            /\ trip'[q.order] = trip[q.order]
  BY DEF About, SameRows
<1>2. ASSUME NEW f \in q.batch PROVE InMarket(offer'[f].order, order', trip')
  <2>1. f \in Offers /\ offer[f].status # "NONE" /\ q.pc # "idle"
    BY DEF Request, Sound, OnCourseNow, OnCourse, SweepSteps
  <2>2. offer[f].order \in About(q) /\ offer'[f].order = offer[f].order
    BY <2>1, RowFacts DEF Data, OfferRow, About, Keeps
  <2>3. InMarket(offer[f].order, order, trip)
    BY DEF OnCourseNow, OnCourse
  <2> QED BY <2>2, <2>3 DEF SameRows, InMarket
<1>3. q.pc \notin {"idle", "lapse", "sweep", "activateGetSlot"} => q.order \in Orders
  BY DEF Sound
<1> QED BY <1>1, <1>2, <1>3 DEF OnCourseNow, OnCourseNext, OnCourse, InMarket, MarketSteps, SweepSteps

-------------------------------------------------------------------------------
\* The steps of an order's lifecycle, as writes to the rows of the order.
LEMMA SameStep ==
  ASSUME UNCHANGED <<order, trip>>
  PROVE  UNCHANGED Life!lvars
  BY DEF Life!lvars

LEMMA BookStep ==
  ASSUME Data, NEW o \in Orders, order[o] = "NONE", NEW s \in {"CREATED", "MATCHING"},
         order' = [order EXCEPT ![o] = s], trip' = trip
  PROVE  Life!LNext
<1>1. Life!Book(o)
  BY DEF Life!Book
<1> QED BY <1>1 DEF Life!LNext

LEMMA SearchStep ==
  ASSUME Data, NEW o \in Orders, InMarket(o, order, trip),
         order' = [order EXCEPT ![o] = "MATCHING"], trip' = trip
  PROVE  Life!LNext
<1>1. Life!Search(o)
  BY DEF Life!Search, Life!Waiting, InMarket
<1> QED BY <1>1 DEF Life!LNext

LEMMA AssignStep ==
  ASSUME Data, NEW o \in Orders, NEW d, InMarket(o, order, trip),
         order' = [order EXCEPT ![o] = "ASSIGNED"],
         trip' = [trip EXCEPT ![o] = [status |-> "ASSIGNED", driver |-> d]]
  PROVE  Life!LNext
<1>1. Life!Assign(o)
  BY DEF Life!Assign, Life!Waiting, InMarket, Data, RowTypes
<1> QED BY <1>1 DEF Life!LNext

\* A trip there is changes its status: what the driver sees of the order changes.
LEMMA RideStep ==
  ASSUME Data, NEW o \in Orders, HasTrip(o), NEW s, trip' = [trip EXCEPT ![o].status = s]
  PROVE  [p \in Orders |-> trip'[p].status] = [[p \in Orders |-> trip[p].status] EXCEPT ![o] = s]
<1>1. trip[o] \in TripRow
  BY RowFacts DEF Data, HasTrip
<1>2. [trip[o] EXCEPT !.status = s].status = s
  BY <1>1 DEF TripRow
<1> QED BY <1>2 DEF Data, RowTypes

LEMMA SetOutStep ==
  ASSUME Data, NEW o \in Orders, HasTrip(o),
         trip' = [trip EXCEPT ![o].status = "DRIVER_EN_ROUTE"], order' = order
  PROVE  Life!LNext
<1>1. Life!SetOut(o)
  BY RideStep DEF Life!SetOut, HasTrip
<1> QED BY <1>1 DEF Life!LNext

LEMMA DriveStep ==
  ASSUME Data, NEW o \in Orders, HasTrip(o), NEW leg \in Life!Legs,
         trip' = [trip EXCEPT ![o].status = leg.to],
         order' = [order EXCEPT ![o] = leg.shown]
  PROVE  Life!LNext
<1>1. Life!Drive(o)
  BY RideStep DEF Life!Drive, HasTrip
<1> QED BY <1>1 DEF Life!LNext

LEMMA DeliverStep ==
  ASSUME Data, NEW o \in Orders, trip[o].status = "IN_TRANSIT",
         trip' = [trip EXCEPT ![o].status = "COMPLETED"],
         order' = [order EXCEPT ![o] = "DELIVERED"]
  PROVE  Life!LNext
<1>1. HasTrip(o)
  BY DEF HasTrip
<1>2. Life!Deliver(o)
  BY <1>1, RideStep DEF Life!Deliver
<1> QED BY <1>2 DEF Life!LNext

LEMMA CancelStep ==
  ASSUME Data, NEW o \in Orders,
         \/ InMarket(o, order, trip) /\ trip' = trip
         \/ trip[o].status = "ASSIGNED" /\ trip' = [trip EXCEPT ![o].status = "CANCELLED"],
         order' = [order EXCEPT ![o] = "CANCELLED"]
  PROVE  Life!LNext
<1>1. CASE trip[o].status = "ASSIGNED" /\ trip' = [trip EXCEPT ![o].status = "CANCELLED"]
  <2>1. HasTrip(o)
    BY <1>1 DEF HasTrip
  <2>2. Life!Cancel(o)
    BY <1>1, <2>1, RideStep DEF Life!Cancel
  <2> QED BY <2>2 DEF Life!LNext
<1>2. CASE InMarket(o, order, trip) /\ trip' = trip
  <2>1. Life!Cancel(o)
    BY <1>2 DEF Life!Cancel, Life!Waiting, InMarket
  <2> QED BY <2>1 DEF Life!LNext
<1> QED BY <1>1, <1>2

\* An order with a trip has been given, whatever has become of it since.
LEMMA GivenStatus ==
  ASSUME Data, OrderFollowsTrip, NEW o \in Orders, HasTrip(o)
  PROVE  order[o] \in RideStatus \cup {"CANCELLED"}
<1>1. trip[o].status \in TripStatus
  BY RowFacts DEF Data, HasTrip, TripRow
<1> QED BY <1>1 DEF OrderFollowsTrip, OrderStatusesFor, TripStatus, RideStatus

\* A lifecycle step keeps the two views in agreement.
LEMMA LifeFollows ==
  ASSUME Data, Data', OrderFollowsTrip, Life!LNext \/ UNCHANGED Life!lvars
  PROVE  OrderFollowsTrip'
<1> SUFFICES ASSUME NEW p \in Orders, trip'[p].status # "NONE"
             PROVE  order'[p] \in OrderStatusesFor(trip'[p].status)
  BY DEF OrderFollowsTrip, HasTrip
<1>1. trip[p].status # "NONE" => order[p] \in OrderStatusesFor(trip[p].status)
  BY DEF OrderFollowsTrip, HasTrip
<1>2. CASE UNCHANGED Life!lvars
  <2>1. order'[p] = order[p] /\ trip'[p].status = trip[p].status
    BY <1>2 DEF Life!lvars
  <2> QED BY <1>1, <2>1
<1>3. ASSUME NEW o \in Orders, Life!Book(o) \/ Life!Search(o)
      PROVE  order'[p] \in OrderStatusesFor(trip'[p].status)
  <2>1. trip'[p].status = trip[p].status
    BY <1>3 DEF Life!Book, Life!Search
  <2>2. o # p
    <3>1. trip[p].status # "NONE" => order[p] # "NONE"
      BY GivenStatus DEF HasTrip, RideStatus
    <3> QED BY <1>3, <2>1, <3>1 DEF Life!Book, Life!Search, Life!Waiting
  <2> QED BY <1>1, <1>3, <2>1, <2>2 DEF Life!Book, Life!Search, Data, RowTypes
<1>4. ASSUME NEW o \in Orders, Life!Assign(o)
      PROVE  order'[p] \in OrderStatusesFor(trip'[p].status)
  <2>1. trip'[p].status = IF p = o THEN "ASSIGNED" ELSE trip[p].status
    BY <1>4 DEF Life!Assign
  <2> QED BY <1>1, <1>4, <2>1 DEF Life!Assign, OrderStatusesFor, Data, RowTypes
<1>5. ASSUME NEW o \in Orders, Life!SetOut(o)
      PROVE  order'[p] \in OrderStatusesFor(trip'[p].status)
  <2>1. trip'[p].status = IF p = o THEN "DRIVER_EN_ROUTE" ELSE trip[p].status
    BY <1>5 DEF Life!SetOut
  <2>2. order' = order /\ (p = o => HasTrip(p))
    BY <1>5 DEF Life!SetOut, HasTrip
  <2>3. p = o => order[p] \in RideStatus \cup {"CANCELLED"}
    BY <2>2, GivenStatus
  <2> QED BY <1>1, <2>1, <2>2, <2>3 DEF OrderStatusesFor
<1>6. ASSUME NEW o \in Orders, NEW to, NEW shown, shown \in OrderStatusesFor(to),
             [q \in Orders |-> trip'[q].status] = [[q \in Orders |-> trip[q].status] EXCEPT ![o] = to],
             order' = [order EXCEPT ![o] = shown]
      PROVE  order'[p] \in OrderStatusesFor(trip'[p].status)
  <2>1. trip'[p].status = IF p = o THEN to ELSE trip[p].status
    BY <1>6
  <2>2. order'[p] = IF p = o THEN shown ELSE order[p]
    BY <1>6 DEF Data, RowTypes
  <2> QED BY <1>1, <1>6, <2>1, <2>2
<1>7. ASSUME NEW o \in Orders, Life!Drive(o) \/ Life!Deliver(o)
      PROVE  order'[p] \in OrderStatusesFor(trip'[p].status)
  <2>1. \A leg \in Life!Legs : leg.shown \in OrderStatusesFor(leg.to)
    BY DEF Life!Legs, OrderStatusesFor
  <2>2. "DELIVERED" \in OrderStatusesFor("COMPLETED")
    BY DEF OrderStatusesFor
  <2> QED BY <1>6, <1>7, <2>1, <2>2 DEF Life!Drive, Life!Deliver
<1>8. ASSUME NEW o \in Orders, Life!Cancel(o)
      PROVE  order'[p] \in OrderStatusesFor(trip'[p].status)
  <2>1. CASE Life!Waiting(o) /\ [q \in Orders |-> trip'[q].status] = [q \in Orders |-> trip[q].status]
    <3>1. trip'[p].status = trip[p].status /\ p # o
      BY <2>1 DEF Life!Waiting
    <3> QED BY <1>1, <1>8, <3>1 DEF Life!Cancel, Data, RowTypes
  <2>2. CASE [q \in Orders |-> trip'[q].status]
               = [[q \in Orders |-> trip[q].status] EXCEPT ![o] = "CANCELLED"]
    <3>1. "CANCELLED" \in OrderStatusesFor("CANCELLED")
      BY DEF OrderStatusesFor
    <3> QED BY <1>6, <1>8, <2>2, <3>1 DEF Life!Cancel
  <2> QED BY <1>8, <2>1, <2>2 DEF Life!Cancel
<1> QED BY <1>2, <1>3, <1>4, <1>5, <1>7, <1>8 DEF Life!LNext

-------------------------------------------------------------------------------
\* The market after a step.  An order on the market stays there unless it is
\* assigned or cancelled, or somebody sets out for it.
Stays == \A o \in Orders : InMarket(o, order, trip) => InMarket(o, order', trip')
\* No offer comes to wait for an answer.
NoNewPending == \A f \in Offers : offer'[f].status = "PENDING" => offer[f].status = "PENDING"

LEMMA SameStays ==
  ASSUME UNCHANGED <<order, trip>>
  PROVE  Stays
  BY DEF Stays, InMarket

LEMMA OpenStays ==
  ASSUME Data, NEW o \in Orders, NEW s \in {"CREATED", "MATCHING"},
         order' = [order EXCEPT ![o] = s], trip' = trip
  PROVE  Stays
  BY DEF Stays, InMarket, OpenStatus, Data, RowTypes

LEMMA MoveStays ==
  ASSUME Data, NEW o \in Orders, HasTrip(o), NEW s \in TripStatus,
         trip' = [trip EXCEPT ![o].status = s],
         \A p \in Orders \ {o} : order'[p] = order[p]
  PROVE  Stays
<1> SUFFICES ASSUME NEW p \in Orders, InMarket(p, order, trip) PROVE InMarket(p, order', trip')
  BY DEF Stays
<1>1. p # o
  BY DEF InMarket, HasTrip
<1> QED BY <1>1 DEF InMarket, Data, RowTypes

LEMMA PendingStays ==
  ASSUME Data, Keeps, PendingInMarket, Stays, NoNewPending
  PROVE  PendingInMarket'
<1> SUFFICES ASSUME NEW f \in Offers, offer'[f].status = "PENDING"
             PROVE  InMarket(offer'[f].order, order', trip')
  BY DEF PendingInMarket
<1>1. offer[f].status = "PENDING"
  BY DEF NoNewPending
<1>2. offer'[f].order = offer[f].order /\ offer[f].order \in Orders
  BY <1>1, RowFacts DEF Keeps, Data, OfferRow
<1> QED BY <1>1, <1>2 DEF PendingInMarket, Stays

\* A new offer is made for an order on the market.
LEMMA NewPending ==
  ASSUME Data, PendingInMarket, NEW o \in Orders, NEW d, InMarket(o, order, trip),
         InsertOffer(o, d), UNCHANGED <<order, trip>>
  PROVE  PendingInMarket'
<1>1. PICK f \in Offers :
        offer' = [offer EXCEPT ![f] = [status |-> "PENDING", order |-> o,
                                       driver |-> d, overdue |-> FALSE]]
  BY DEF InsertOffer
<1> SUFFICES ASSUME NEW g \in Offers, offer'[g].status = "PENDING"
             PROVE  InMarket(offer'[g].order, order, trip)
  BY DEF PendingInMarket, InMarket
<1>2. CASE g = f
  BY <1>1, <1>2 DEF Data, RowTypes
<1>3. CASE g # f
  BY <1>1, <1>3 DEF Data, RowTypes, PendingInMarket
<1> QED BY <1>2, <1>3

\* An order that leaves the market takes its unanswered offers with it.
LEMMA LastPending ==
  ASSUME Data, Keeps, PendingInMarket, NEW o \in Orders, NoNewPending,
         \A f \in Offers : offer[f].order = o => offer'[f].status # "PENDING",
         \A p \in Orders \ {o} : order'[p] = order[p] /\ trip'[p] = trip[p]
  PROVE  PendingInMarket'
<1> SUFFICES ASSUME NEW f \in Offers, offer'[f].status = "PENDING"
             PROVE  InMarket(offer'[f].order, order', trip')
  BY DEF PendingInMarket
<1>1. offer[f].status = "PENDING" /\ offer[f].order # o
  BY DEF NoNewPending
<1>2. offer'[f].order = offer[f].order /\ offer[f].order \in Orders
  BY <1>1, RowFacts DEF Keeps, Data, OfferRow
<1> QED BY <1>1, <1>2 DEF PendingInMarket, InMarket

\* The status of one offer is written.
LEMMA EndPending ==
  ASSUME Data, NEW f, NEW s \in {"EXPIRED", "CANCELLED", "REJECTED"}, SetOfferStatus(f, s)
  PROVE  NoNewPending
<1> SUFFICES ASSUME NEW g \in Offers, offer'[g].status = "PENDING"
             PROVE  offer[g].status = "PENDING"
  BY DEF NoNewPending
<1>1. CASE g = f
  <2>1. offer[f] \in OfferRow \cup {NoOffer}
    BY <1>1 DEF Data, RowTypes
  <2>2. [offer[f] EXCEPT !.status = s].status = s
    BY <2>1 DEF OfferRow, NoOffer
  <2> QED BY <1>1, <2>2 DEF SetOfferStatus, Data, RowTypes
<1>2. CASE g # f
  BY <1>2 DEF SetOfferStatus, Data, RowTypes
<1> QED BY <1>1, <1>2

-------------------------------------------------------------------------------
\* A step of the order's lifecycle that keeps the market right.
RowsOnCourse == (Life!LNext \/ UNCHANGED Life!lvars) /\ PendingInMarket'

\* The request in slot r has been isolated since it began.
Served(r) == Data /\ Frames /\ Keeps /\ Course /\ OnCourseNow(req[r])

\* A step that writes neither orders, trips nor offers.
LEMMA ReadCourse ==
  ASSUME Data, Keeps, Course, UNCHANGED <<order, offer, trip>>
  PROVE  RowsOnCourse
  BY SameStep, SameStays, PendingStays DEF Course, RowsOnCourse, NoNewPending

\* A step that ends offers.
LEMMA EndCourse ==
  ASSUME Data, Keeps, Course, NoNewPending, UNCHANGED <<order, trip>>
  PROVE  RowsOnCourse
  BY SameStep, SameStays, PendingStays DEF Course, RowsOnCourse

\* A step that makes an offer for an order on the market.
LEMMA OfferCourse ==
  ASSUME Data, Course, NEW o \in Orders, NEW d, InMarket(o, order, trip), InsertOffer(o, d),
         UNCHANGED <<order, trip>>
  PROVE  RowsOnCourse
  BY SameStep, NewPending DEF Course, RowsOnCourse

\* A driver sets out, from wherever the trip is.
LEMMA SetOutCourse ==
  ASSUME Data, Keeps, Course, NEW o \in Orders, HasTrip(o),
         trip' = [trip EXCEPT ![o].status = "DRIVER_EN_ROUTE"], UNCHANGED <<order, offer>>
  PROVE  RowsOnCourse
<1>1. Life!LNext
  BY SetOutStep
<1>2. Stays
  BY MoveStays DEF TripStatus
<1> QED BY <1>1, <1>2, PendingStays DEF RowsOnCourse, Course, NoNewPending

\* A trip moves, and the order with it.
LEMMA LegCourse ==
  ASSUME Data, Keeps, Course, NEW o \in Orders, HasTrip(o), NEW leg \in Life!Legs,
         trip' = [trip EXCEPT ![o].status = leg.to],
         order' = [order EXCEPT ![o] = leg.shown], offer' = offer
  PROVE  RowsOnCourse
<1>1. leg.to \in TripStatus
  BY DEF Life!Legs, TripStatus
<1>2. Life!LNext
  BY DriveStep
<1>3. Stays
  BY <1>1, MoveStays DEF Data, RowTypes
<1> QED BY <1>2, <1>3, PendingStays DEF RowsOnCourse, Course, NoNewPending

\* A trip in transit is completed.
LEMMA DeliverCourse ==
  ASSUME Data, Keeps, Course, NEW o \in Orders, trip[o].status = "IN_TRANSIT",
         trip' = [trip EXCEPT ![o].status = "COMPLETED"],
         order' = [order EXCEPT ![o] = "DELIVERED"], offer' = offer
  PROVE  RowsOnCourse
<1>1. HasTrip(o) /\ "COMPLETED" \in TripStatus
  BY DEF HasTrip, TripStatus
<1>2. Life!LNext
  BY DeliverStep
<1>3. Stays
  BY <1>1, MoveStays DEF Data, RowTypes
<1> QED BY <1>2, <1>3, PendingStays DEF RowsOnCourse, Course, NoNewPending

LEMMA SearchCourse ==
  ASSUME NEW r \in Requests, Served(r), SearchSteps(r)
  PROVE  RowsOnCourse
<1>a. /\ Data /\ Keeps /\ Course /\ OnCourseNow(req[r])
      /\ req[r] \in Request /\ Sound(req[r], offer, trip)
  BY DEF Served, Frames
<1>1. CASE AssignFindTrip(r) \/ AssignFindOffer(r) \/ FindTried(r) \/ Pick(r)
           \/ ReofferFindTrip(r) \/ SweepFindOrder(r)
  BY <1>a, <1>1, ReadCourse
     DEF AssignFindTrip, AssignFindOffer, FindTried, Pick, ReofferFindTrip, SweepFindOrder, rows
<1>2. CASE CreateOffer(r)
  <2>1. req[r].order \in Orders /\ InMarket(req[r].order, order, trip)
    BY <1>a, <1>2 DEF CreateOffer, At, Sound, OnCourseNow, OnCourse, MarketSteps
  <2> QED BY <1>a, <1>2, <2>1, OfferCourse DEF CreateOffer
<1>3. CASE SetMatching(r) \/ ScheduledMatching(r)
  <2>1. req[r].order \in Orders /\ InMarket(req[r].order, order, trip)
    BY <1>a, <1>3 DEF SetMatching, ScheduledMatching, At, Sound, OnCourseNow, OnCourse, MarketSteps
  <2>2. /\ order' = [order EXCEPT ![req[r].order] = "MATCHING"]
        /\ offer' = offer /\ trip' = trip
    BY <1>3 DEF SetMatching, ScheduledMatching
  <2>3. PendingInMarket'
    BY <1>a, <2>1, <2>2, OpenStays, PendingStays DEF Course, NoNewPending
  <2> QED BY <1>a, <2>1, <2>2, <2>3, SearchStep DEF RowsOnCourse
<1>4. CASE LapseOffer(r) \/ RejectWrite(r)
  <2>1. NoNewPending
    BY <1>a, <1>4, EndPending DEF LapseOffer, RejectWrite
  <2> QED BY <1>a, <1>4, <2>1, EndCourse DEF LapseOffer, RejectWrite
<1>5. CASE SweepExpire(r)
  <2>1. PICK group \in SUBSET req[r].batch :
          offer' = [f \in Offers |-> IF f \in group /\ offer[f].status = "PENDING"
                                     THEN [offer[f] EXCEPT !.status = "EXPIRED"] ELSE offer[f]]
    BY <1>5 DEF SweepExpire
  <2>2. \A f \in Offers : offer[f].status = "PENDING" =>
          [offer[f] EXCEPT !.status = "EXPIRED"].status = "EXPIRED"
    BY <1>a, RowFacts DEF Data, OfferRow
  <2>3. NoNewPending
    BY <2>1, <2>2 DEF NoNewPending
  <2> QED BY <1>a, <1>5, <2>3, EndCourse DEF SweepExpire
<1> QED BY <1>1, <1>2, <1>3, <1>4, <1>5 DEF SearchSteps

\* What the transaction of cancel and that of acceptOffer do to the offers.
LEMMA Withdrawn ==
  ASSUME Data, NEW o, NEW except, NEW f \in Offers
  PROVE  LET g == WithdrawOffers(o, except)[f]
         IN  /\ g.status = "PENDING" => offer[f].status = "PENDING"
             /\ offer[f].order = o /\ f # except => g.status # "PENDING"
  BY DEF WithdrawOffers, Data, RowTypes, OfferRow, NoOffer

LEMMA AcceptCourse ==
  ASSUME NEW r \in Requests, Served(r), AcceptSteps(r)
  PROVE  RowsOnCourse
<1>a. /\ Data /\ Keeps /\ Course /\ OnCourseNow(req[r])
      /\ req[r] \in Request /\ Sound(req[r], offer, trip)
  BY DEF Served, Frames
<1>1. CASE AcceptFindTrip(r) \/ AcceptCount(r) \/ AcceptQueue(r)
  BY <1>a, <1>1, ReadCourse DEF AcceptFindTrip, AcceptCount, AcceptQueue, rows
<1>2. CASE AcceptLate(r)
  <2>1. NoNewPending
    BY <1>a, <1>2, EndPending DEF AcceptLate
  <2> QED BY <1>a, <1>2, <2>1, EndCourse DEF AcceptLate
<1>3. CASE AcceptCommit(r)
  <2> DEFINE o == req[r].order  d == req[r].driver  f == req[r].offer
  <2>1. /\ o \in Orders /\ f \in Offers
        /\ InMarket(o, order, trip)
    BY <1>a, <1>3 DEF AcceptCommit, At, Sound, LateSteps, OnCourseNow, OnCourse, MarketSteps
  <2>2. /\ offer' = [WithdrawOffers(o, f) EXCEPT ![f].status = "ACCEPTED"]
        /\ order' = [order EXCEPT ![o] = "ASSIGNED"]
        /\ trip' = [trip EXCEPT ![o] = [status |-> "ASSIGNED", driver |-> d]]
    BY <1>3, <2>1 DEF AcceptCommit, AcceptRows, HasTrip, InMarket
  <2> HIDE DEF o, d, f
  <2>3. Life!LNext
    BY <1>a, <2>1, <2>2, AssignStep
  <2>4. WithdrawOffers(o, f)[f] = offer[f] /\ DOMAIN WithdrawOffers(o, f) = Offers
    BY <2>1 DEF WithdrawOffers
  <2>5. offer'[f].status = "ACCEPTED"
    <3>1. [offer[f] EXCEPT !.status = "ACCEPTED"].status = "ACCEPTED"
      BY <1>a, <2>1 DEF Data, RowTypes, OfferRow, NoOffer
    <3> QED BY <2>1, <2>2, <2>4, <3>1
  <2>6. \A g \in Offers \ {f} : offer'[g] = WithdrawOffers(o, f)[g]
    BY <2>2, <2>4
  <2>7. NoNewPending
    BY <1>a, <2>5, <2>6, Withdrawn DEF NoNewPending
  <2>8. \A g \in Offers : offer[g].order = o => offer'[g].status # "PENDING"
    BY <1>a, <2>5, <2>6, Withdrawn
  <2>9. \A p \in Orders \ {o} : order'[p] = order[p] /\ trip'[p] = trip[p]
    BY <1>a, <2>2 DEF Data, RowTypes
  <2> QED BY <1>a, <2>1, <2>3, <2>7, <2>8, <2>9, LastPending DEF RowsOnCourse, Course
<1> QED BY <1>1, <1>2, <1>3 DEF AcceptSteps

LEMMA QueueCourse ==
  ASSUME NEW r \in Requests, Served(r), QueueSteps(r)
  PROVE  RowsOnCourse
<1>a. /\ Data /\ Keeps /\ Course /\ OnCourseNow(req[r])
      /\ req[r] \in Request /\ Sound(req[r], offer, trip)
  BY DEF Served, Frames
<1>1. CASE QueueGetSlot(r) \/ QueueFindOrder(r) \/ ActivateGetSlot(r) \/ ActivateFindTrip(r)
           \/ ActivateDelSlot(r)
  BY <1>a, <1>1, ReadCourse
     DEF QueueGetSlot, QueueFindOrder, ActivateGetSlot, ActivateFindTrip, ActivateDelSlot, rows
<1>2. CASE QueueCreateOffer(r)
  <2>1. req[r].order \in Orders /\ InMarket(req[r].order, order, trip)
    BY <1>a, <1>2 DEF QueueCreateOffer, At, Sound, OnCourseNow, OnCourse, MarketSteps
  <2> QED BY <1>a, <1>2, <2>1, OfferCourse DEF QueueCreateOffer
<1>3. CASE ActivateStart(r)
  <2> DEFINE o == req[r].order
  <2>1. o \in Orders /\ trip[o].status = "ASSIGNED"
    BY <1>a, <1>3 DEF ActivateStart, At, Sound, OnCourseNow, OnCourse
  <2>2. /\ trip' = [trip EXCEPT ![o].status = "DRIVER_EN_ROUTE"]
        /\ order' = order /\ offer' = offer
    BY <1>3 DEF ActivateStart
  <2>3. HasTrip(o)
    BY <2>1 DEF HasTrip
  <2> QED BY <1>a, <2>1, <2>2, <2>3, SetOutCourse
<1> QED BY <1>1, <1>2, <1>3 DEF QueueSteps

\* A cancellation ends the trip it has read, or the order had none.
LEMMA CancelCourse ==
  ASSUME NEW r \in Requests, Served(r), CancelCommit(r)
  PROVE  RowsOnCourse
<1> DEFINE o == req[r].order  d == req[r].driver
<1>a. /\ Data /\ Keeps /\ Course /\ OnCourseNow(req[r])
      /\ req[r] \in Request /\ Sound(req[r], offer, trip)
  BY DEF Served, Frames
<1>1. /\ o \in Orders
      /\ d = trip[o].driver
      /\ trip[o].status = "ASSIGNED" \/ InMarket(o, order, trip)
  BY <1>a DEF CancelCommit, At, Sound, OnCourseNow, OnCourse
<1>2. /\ offer' = WithdrawOffers(o, None)
      /\ order' = [order EXCEPT ![o] = "CANCELLED"]
      /\ trip' = IF d = None THEN trip ELSE [trip EXCEPT ![o].status = "CANCELLED"]
  BY DEF CancelCommit
<1> HIDE DEF o, d
<1>3. \/ InMarket(o, order, trip) /\ trip' = trip
      \/ trip[o].status = "ASSIGNED" /\ trip' = [trip EXCEPT ![o].status = "CANCELLED"]
  BY <1>a, <1>1, <1>2, RowFacts DEF Data, InMarket
<1>4. Life!LNext
  BY <1>a, <1>1, <1>2, <1>3, CancelStep
<1>5. NoNewPending
  BY <1>a, <1>2, Withdrawn DEF NoNewPending
<1>6. \A f \in Offers : offer[f].order = o => offer'[f].status # "PENDING"
  BY <1>a, <1>2, Withdrawn, NoneIsNoValue
<1>7. \A p \in Orders \ {o} : order'[p] = order[p] /\ trip'[p] = trip[p]
  BY <1>a, <1>2 DEF Data, RowTypes
<1> QED BY <1>a, <1>1, <1>4, <1>5, <1>6, <1>7, LastPending DEF RowsOnCourse, Course

LEMMA ContinueCourse ==
  ASSUME NEW r \in Requests, Served(r), Continue(r)
  PROVE  RowsOnCourse
<1>a. /\ Data /\ Keeps /\ Course /\ OnCourseNow(req[r])
      /\ req[r] \in Request /\ Sound(req[r], offer, trip)
  BY DEF Served, Frames
<1>1. CASE CreateInsert(r)
  <2> DEFINE o == req[r].order
  <2>1. o \in Orders /\ order[o] = "NONE"
    BY <1>a, <1>1 DEF CreateInsert, At, Sound, OnCourseNow, OnCourse
  <2>2. PICK s \in {"CREATED", "MATCHING"} : order' = [order EXCEPT ![o] = s]
    BY <1>1 DEF CreateInsert
  <2>3. trip' = trip /\ offer' = offer
    BY <1>1 DEF CreateInsert
  <2>4. Life!LNext
    BY <1>a, <2>1, <2>2, <2>3, BookStep
  <2>5. Stays
    BY <1>a, <2>1, <2>2, <2>3, OpenStays
  <2> QED BY <1>a, <2>3, <2>4, <2>5, PendingStays DEF RowsOnCourse, Course, NoNewPending
<1>2. CASE CompleteCommit(r)
  <2> DEFINE o == req[r].order
  <2>1. o \in Orders /\ trip[o].status = "IN_TRANSIT"
    BY <1>a, <1>2 DEF CompleteCommit, At, Sound, TripSteps, OnCourseNow, OnCourse
  <2>2. /\ trip' = [trip EXCEPT ![o].status = "COMPLETED"]
        /\ order' = [order EXCEPT ![o] = "DELIVERED"]
        /\ offer' = offer
    BY <1>2 DEF CompleteCommit
  <2> QED BY <1>a, <2>1, <2>2, DeliverCourse
<1>3. CASE CompleteBusy(r)
  BY <1>a, <1>3, ReadCourse DEF CompleteBusy
<1> QED BY <1>1, <1>2, <1>3, CancelCourse, SearchCourse, AcceptCourse, QueueCourse DEF Continue

\* The calls that write at once are the driver's, for a trip there is.
LEMMA CallCourse ==
  ASSUME Data, Keeps, Course, NEW r \in Requests, Calls(r)
  PROVE  RowsOnCourse
<1>1. ASSUME NEW o \in Orders, AcceptTrip(r, o)
      PROVE  RowsOnCourse
  <2>1. /\ HasTrip(o)
        /\ trip' = [trip EXCEPT ![o].status = "DRIVER_EN_ROUTE"]
        /\ order' = [order EXCEPT ![o] = order[o]]
        /\ offer' = offer
    BY <1>1 DEF AcceptTrip, Called, MoveTrip
  <2>2. order' = order
    BY <2>1 DEF Data, RowTypes
  <2> QED BY <2>1, <2>2, SetOutCourse
<1>2. ASSUME NEW o \in Orders, ArrivedPickup(r, o) \/ StartLoading(r, o) \/ StartTransit(r, o)
      PROVE  RowsOnCourse
  <2>1. PICK leg \in Life!Legs :
          /\ HasTrip(o)
          /\ trip' = [trip EXCEPT ![o].status = leg.to]
          /\ order' = [order EXCEPT ![o] = leg.shown]
          /\ offer' = offer
    BY <1>2 DEF ArrivedPickup, StartLoading, StartTransit, Called, MoveTrip, Life!Legs
  <2> QED BY <2>1, LegCourse
<1>3. ASSUME NEW o \in Orders, CreateOrder(r, o) \/ FindById(r, o) \/ AssignOrder(r, o)
                       \/ CancelOrder(r, o) \/ RunScheduled(r, o) \/ Complete(r, o)
      PROVE  RowsOnCourse
  BY <1>3, ReadCourse
     DEF CreateOrder, FindById, AssignOrder, CancelOrder, RunScheduled, Complete, rows
<1>4. CASE ProcessExpired(r)
  BY <1>4, ReadCourse DEF ProcessExpired, rows
<1>5. ASSUME NEW f \in Offers, ReadOverdue(r, "accept", f) \/ ReadOverdue(r, "reject", f)
      PROVE  RowsOnCourse
  BY <1>5, ReadCourse DEF ReadOverdue, rows
<1>6. ASSUME NEW f \in Offers, NEW d \in Drivers, AcceptOffer(r, f, d) \/ RejectOffer(r, f, d)
      PROVE  RowsOnCourse
  BY <1>6, ReadCourse DEF AcceptOffer, RejectOffer, rows
<1> QED BY <1>1, <1>2, <1>3, <1>4, <1>5, <1>6 DEF Calls

\* Time and the drivers' presence are no business of the order's.
LEMMA EnvironmentCourse ==
  ASSUME Data, Keeps, Course, Environment
  PROVE  RowsOnCourse
<1>1. ASSUME NEW f \in Offers, OfferDeadline(f) PROVE RowsOnCourse
  <2>1. offer[f] \in OfferRow
    BY <1>1, RowFacts DEF Data, OfferDeadline, Live
  <2>2. [offer[f] EXCEPT !.overdue = TRUE].status = offer[f].status
    BY <2>1 DEF OfferRow
  <2>3. offer' = [offer EXCEPT ![f] = [offer[f] EXCEPT !.overdue = TRUE]]
        /\ UNCHANGED <<order, trip>>
    BY <1>1 DEF OfferDeadline
  <2>4. NoNewPending
    BY <2>2, <2>3 DEF NoNewPending, Data, RowTypes
  <2> QED BY <2>3, <2>4, EndCourse
<1>2. ASSUME NEW o \in Orders, ScheduleDue(o) PROVE RowsOnCourse
  BY <1>2, ReadCourse DEF ScheduleDue
<1>3. ASSUME NEW d \in Drivers, SlotExpires(d) \/ UpdateLocation(d)
                                \/ \E s \in AvailabilityStatus : SetAvailability(d, s)
      PROVE  RowsOnCourse
  BY <1>3, ReadCourse DEF SlotExpires, UpdateLocation, SetAvailability
<1> QED BY <1>1, <1>2, <1>3 DEF Environment

\* Every step of an isolated request, and every step that is no request's, moves
\* the orders along their lifecycle and keeps the market right.
LEMMA NextCourse ==
  ASSUME IInv, CourseInv, [Next]_vars
  PROVE  RowsOnCourse
<1>1. Data /\ Frames /\ Keeps /\ Course
  BY Halves, NextInvariant DEF CourseInv, Course
<1>2. \A r \in Requests : Served(r)
  BY <1>1 DEF CourseInv, Served, OnCourseNow
<1>3. CASE UNCHANGED vars
  BY <1>1, <1>3, ReadCourse DEF vars
<1>4. ASSUME NEW r \in Requests, Fail(r) PROVE RowsOnCourse
  BY <1>1, <1>4, ReadCourse DEF Fail, rows
<1> QED BY <1>1, <1>2, <1>3, <1>4, EnvironmentCourse, CallCourse, ContinueCourse DEF Next

-------------------------------------------------------------------------------
\* The frame of the request a step serves.  The offers a sweep has still to expire
\* are of orders that stay on the market.
BatchInMarket(batch) == \A f \in batch : InMarket(offer'[f].order, order', trip')

LEMMA BatchStays ==
  ASSUME Data, Keeps, NEW q \in Request, Sound(q, offer, trip), OnCourseNow(q), Stays
  PROVE  BatchInMarket(q.batch)
<1> SUFFICES ASSUME NEW f \in q.batch PROVE InMarket(offer'[f].order, order', trip')
  BY DEF BatchInMarket
<1>1. f \in Offers /\ offer[f].status # "NONE"
  BY DEF Request, Sound
<1>2. offer[f].order \in Orders /\ offer'[f].order = offer[f].order
  BY <1>1, RowFacts DEF Data, OfferRow, Keeps
<1> QED BY <1>2 DEF Stays, OnCourseNow, OnCourse

LEMMA FinishCourse ==
  ASSUME Frames, NEW r \in Requests, Finish(r)
  PROVE  OnCourseNext(req'[r])
  BY IdleOnCourse DEF Finish, Frames

LEMMA ReturnCourse ==
  ASSUME Frames, NEW r \in Requests, BatchInMarket(req[r].batch), Return(r)
  PROVE  OnCourseNext(req'[r])
<1>1. CASE req[r].batch = {}
  BY <1>1, IdleOnCourse DEF Return, Frames
<1>2. CASE req[r].batch # {}
  <2>1. req'[r] = [Idle EXCEPT !.pc = "sweep", !.batch = req[r].batch]
    BY <1>2 DEF Return, Frames
  <2> QED BY <2>1 DEF OnCourseNext, OnCourse, Idle, MarketSteps, SweepSteps, BatchInMarket
<1> QED BY <1>1, <1>2

\* A search goes on with its order still on the market.
LEMMA GotoMarket ==
  ASSUME Frames, NEW r \in Requests, NEW pc \in MarketSteps, Goto(r, pc),
         BatchInMarket(req[r].batch), req[r].batch = {} \/ pc \in SweepSteps,
         InMarket(req[r].order, order', trip')
  PROVE  OnCourseNext(req'[r])
<1>1. req'[r] = [req[r] EXCEPT !.pc = pc] /\ req[r] \in Request
  BY DEF Goto, Frames
<1> QED BY <1>1 DEF OnCourseNext, OnCourse, MarketSteps, SweepSteps, BatchInMarket, Request

\* A request goes on where nothing is asked of it.
LEMMA GotoFree ==
  ASSUME Frames, NEW r \in Requests, NEW pc, Goto(r, pc), req[r].batch = {},
         pc \notin MarketSteps \cup {"createInsert", "assignFindTrip", "cancelCommit",
                                     "activateStart", "completeCommit"}
  PROVE  OnCourseNext(req'[r])
<1>1. req'[r] = [req[r] EXCEPT !.pc = pc] /\ req[r] \in Request
  BY DEF Goto, Frames
<1> QED BY <1>1 DEF OnCourseNext, OnCourse, Request

LEMMA SearchOwn ==
  ASSUME NEW r \in Requests, Served(r), SearchSteps(r)
  PROVE  OnCourseNext(req'[r])
<1>a. /\ Data /\ Frames /\ Keeps /\ Course /\ OnCourseNow(req[r])
      /\ req[r] \in Request /\ Sound(req[r], offer, trip)
  BY DEF Served, Frames
<1>b. Stays
  <2>1. CASE SetMatching(r) \/ ScheduledMatching(r)
    <3>1. req[r].order \in Orders
      BY <1>a, <2>1 DEF SetMatching, ScheduledMatching, At, Sound
    <3> QED BY <1>a, <2>1, <3>1, OpenStays DEF SetMatching, ScheduledMatching
  <2>2. CASE ~(SetMatching(r) \/ ScheduledMatching(r))
    BY <2>2, SameStays DEF SearchSteps, AssignFindTrip, AssignFindOffer, FindTried, Pick,
       CreateOffer, LapseOffer, RejectWrite, ReofferFindTrip, SweepExpire, SweepFindOrder, rows
  <2> QED BY <2>1, <2>2
<1>c. BatchInMarket(req[r].batch)
  BY <1>a, <1>b, BatchStays
<1>d. req[r].pc \in MarketSteps => req[r].order \in Orders /\ InMarket(req[r].order, order', trip')
  BY <1>a, <1>b DEF OnCourseNow, OnCourse, Sound, MarketSteps, Stays
<1>e. req[r].batch # {} => req[r].pc \in SweepSteps
  BY <1>a DEF OnCourseNow, OnCourse
<1>1. CASE AssignFindTrip(r)
  <2>1. CASE HasTrip(req[r].order)
    BY <1>a, <1>1, <2>1, FinishCourse DEF AssignFindTrip
  <2>2. CASE ~HasTrip(req[r].order)
    <3>1. /\ req[r].order \in Orders
          /\ Goto(r, "assignFindOffer") /\ req[r].batch = {}
          /\ UNCHANGED <<order, trip>>
      BY <1>a, <1>e, <1>1, <2>2 DEF AssignFindTrip, At, Sound, SweepSteps, rows
    <3>2. order[req[r].order] \in OpenStatus
      <4>1. order[req[r].order] \notin RideStatus
        BY <1>a, <2>2, <3>1 DEF Data, RideHasTrip
      <4>2. \/ order[req[r].order] \in OpenStatus
            \/ "assign" \in Operations /\ order[req[r].order] # "NONE"
        BY <1>a, <1>1 DEF AssignFindTrip, At, OnCourseNow, OnCourse
      <4> QED BY <1>a, <3>1, <4>1, <4>2
              DEF OpenStatus, RideStatus, OrderStatus, Data, RowTypes
    <3>3. InMarket(req[r].order, order', trip')
      BY <2>2, <3>1, <3>2 DEF InMarket, HasTrip
    <3>4. "assignFindOffer" \in MarketSteps
      BY DEF MarketSteps
    <3> QED BY <1>a, <1>c, <3>1, <3>3, <3>4, GotoMarket
  <2> QED BY <2>1, <2>2
<1>2. CASE AssignFindOffer(r)
  BY <1>a, <1>c, <1>d, <1>e, <1>2, FinishCourse, GotoMarket
     DEF AssignFindOffer, At, MarketSteps, SweepSteps
<1>3. CASE FindTried(r)
  <2>1. PICK tried : req' = [req EXCEPT ![r].pc = "pick", ![r].tried = tried]
    BY <1>3 DEF FindTried
  <2>2. req'[r] = [req[r] EXCEPT !.pc = "pick", !.tried = tried]
    BY <1>a, <2>1 DEF Frames
  <2>3. InMarket(req[r].order, order', trip')
    BY <1>d, <1>3 DEF FindTried, At, MarketSteps
  <2> QED BY <1>a, <1>c, <2>2, <2>3
          DEF OnCourseNext, OnCourse, MarketSteps, SweepSteps, BatchInMarket, Request
<1>4. CASE Pick(r)
  <2>1. CASE Return(r)
    BY <1>a, <1>c, <2>1, ReturnCourse
  <2>2. ASSUME NEW d \in Drivers,
               req' = [req EXCEPT ![r].pc = "createOffer", ![r].driver = d, ![r].tried = {}]
        PROVE  OnCourseNext(req'[r])
    <3>1. req'[r] = [req[r] EXCEPT !.pc = "createOffer", !.driver = d, !.tried = {}]
      BY <1>a, <2>2 DEF Frames
    <3>2. InMarket(req[r].order, order', trip')
      BY <1>d, <1>4 DEF Pick, At, MarketSteps
    <3> QED BY <1>a, <1>c, <3>1, <3>2
            DEF OnCourseNext, OnCourse, MarketSteps, SweepSteps, BatchInMarket, Request
  <2> QED BY <1>4, <2>1, <2>2 DEF Pick, OnlineCandidates, BusyFallback
<1>5. CASE CreateOffer(r)
  BY <1>a, <1>c, <1>d, <1>5, GotoMarket DEF CreateOffer, At, MarketSteps, SweepSteps
<1>6. CASE SetMatching(r)
  BY <1>a, <1>c, <1>6, ReturnCourse DEF SetMatching
<1>7. CASE LapseOffer(r)
  BY <1>a, <1>7, FinishCourse DEF LapseOffer
<1>8. CASE RejectWrite(r)
  BY <1>a, <1>c, <1>d, <1>8, GotoMarket DEF RejectWrite, At, MarketSteps, SweepSteps
<1>9. CASE ReofferFindTrip(r)
  <2>1. CASE Return(r)
    BY <1>a, <1>c, <2>1, ReturnCourse
  <2>2. CASE Goto(r, "findTried")
    BY <1>a, <1>c, <1>d, <1>9, <2>2, GotoMarket DEF ReofferFindTrip, At, MarketSteps, SweepSteps
  <2> QED BY <1>9, <2>1, <2>2 DEF ReofferFindTrip
<1>10. CASE SweepExpire(r)
  <2> DEFINE group(o) == {f \in req[r].batch : offer[f].order = o}
  <2>1. PICK o \in {offer[f].order : f \in req[r].batch} :
          req' = [req EXCEPT ![r].pc = "sweepFindOrder", ![r].order = o, ![r].batch = @ \ group(o)]
    BY <1>10 DEF SweepExpire
  <2>2. PICK g \in req[r].batch : offer[g].order = o
    BY <2>1
  <2>3. req'[r] = [req[r] EXCEPT !.pc = "sweepFindOrder", !.order = o, !.batch = @ \ group(o)]
    BY <1>a, <2>1 DEF Frames
  <2>4. g \in Offers /\ offer[g].status # "NONE"
    BY <1>a, <2>2 DEF Request, Sound
  <2>5. InMarket(o, order', trip')
    BY <1>a, <1>c, <2>2, <2>4 DEF BatchInMarket, Keeps
  <2> QED BY <1>a, <1>c, <2>3, <2>5
          DEF OnCourseNext, OnCourse, MarketSteps, SweepSteps, BatchInMarket, Request
<1>11. CASE SweepFindOrder(r)
  <2>1. CASE Return(r)
    BY <1>a, <1>c, <2>1, ReturnCourse
  <2>2. CASE Goto(r, "reofferFindTrip")
    BY <1>a, <1>c, <1>d, <1>11, <2>2, GotoMarket DEF SweepFindOrder, At, MarketSteps, SweepSteps
  <2> QED BY <1>11, <2>1, <2>2 DEF SweepFindOrder
<1>12. CASE ScheduledMatching(r)
  <2>1. req[r].batch = {} /\ InMarket(req[r].order, order', trip')
    BY <1>d, <1>e, <1>12 DEF ScheduledMatching, At, MarketSteps, SweepSteps
  <2>2. req'[r] = [req[r] EXCEPT !.pc = "assignFindTrip"]
    BY <1>a, <1>12 DEF ScheduledMatching, Goto, Frames
  <2> QED BY <1>a, <2>1, <2>2 DEF OnCourseNext, OnCourse, MarketSteps, InMarket, Request
<1> QED BY <1>1, <1>2, <1>3, <1>4, <1>5, <1>6, <1>7, <1>8, <1>9, <1>10, <1>11, <1>12
       DEF SearchSteps

LEMMA AcceptOwn ==
  ASSUME NEW r \in Requests, Served(r), AcceptSteps(r)
  PROVE  OnCourseNext(req'[r])
<1>a. /\ Data /\ Frames /\ Keeps /\ Course /\ OnCourseNow(req[r])
      /\ req[r] \in Request /\ Sound(req[r], offer, trip)
  BY DEF Served, Frames
<1>b. req[r].batch = {}
  BY <1>a DEF AcceptSteps, AcceptFindTrip, AcceptLate, AcceptCommit, AcceptCount, AcceptQueue, At,
     OnCourseNow, OnCourse, SweepSteps
<1>1. CASE AcceptFindTrip(r)
  <2>1. InMarket(req[r].order, order', trip') /\ ~HasTrip(req[r].order)
    BY <1>a, <1>1 DEF AcceptFindTrip, At, OnCourseNow, OnCourse, MarketSteps, InMarket, HasTrip, rows
  <2>2. Goto(r, "acceptCommit") /\ "acceptCommit" \in MarketSteps
    BY <1>1, <2>1 DEF AcceptFindTrip, MarketSteps
  <2>3. BatchInMarket(req[r].batch)
    BY <1>b DEF BatchInMarket
  <2> QED BY <1>a, <1>b, <2>1, <2>2, <2>3, GotoMarket
<1>2. CASE Finish(r)
  BY <1>a, <1>2, FinishCourse
<1>3. ASSUME NEW pc \in {"acceptCount", "acceptQueue"}, Goto(r, pc)
      PROVE  OnCourseNext(req'[r])
  BY <1>a, <1>b, <1>3, GotoFree DEF MarketSteps
<1> QED BY <1>1, <1>2, <1>3 DEF AcceptSteps, AcceptLate, AcceptCommit, AcceptCount, AcceptQueue

LEMMA QueueOwn ==
  ASSUME NEW r \in Requests, Served(r), QueueSteps(r)
  PROVE  OnCourseNext(req'[r])
<1>a. /\ Data /\ Frames /\ Keeps /\ Course /\ OnCourseNow(req[r])
      /\ req[r] \in Request /\ Sound(req[r], offer, trip)
  BY DEF Served, Frames
<1>b. req[r].batch = {}
  BY <1>a DEF QueueSteps, QueueGetSlot, QueueFindOrder, QueueCreateOffer, ActivateGetSlot,
     ActivateFindTrip, ActivateStart, ActivateDelSlot, At, OnCourseNow, OnCourse, SweepSteps
<1>1. CASE Finish(r)
  BY <1>a, <1>1, FinishCourse
<1>2. ASSUME NEW pc \in {"queueFindOrder", "activateDrop", "activateDelSlot", "completeBusy"},
             Goto(r, pc)
      PROVE  OnCourseNext(req'[r])
  BY <1>a, <1>b, <1>2, GotoFree DEF MarketSteps
\* The order found is open, so nobody has a trip for it.
<1>3. CASE QueueFindOrder(r)
  <2>1. ASSUME NEW o \in Orders, order[o] \in {"CREATED", "MATCHING"},
               req' = [req EXCEPT ![r].pc = "queueCreateOffer", ![r].order = o]
        PROVE  OnCourseNext(req'[r])
    <3>1. req'[r] = [req[r] EXCEPT !.pc = "queueCreateOffer", !.order = o]
      BY <1>a, <2>1 DEF Frames
    <3>2. trip[o].status = "NONE"
      BY <1>a, <2>1, GivenStatus DEF Course, HasTrip, RideStatus
    <3>3. InMarket(o, order', trip')
      BY <1>3, <2>1, <3>2 DEF QueueFindOrder, InMarket, OpenStatus, rows
    <3> QED BY <1>a, <1>b, <3>1, <3>3 DEF OnCourseNext, OnCourse, MarketSteps, Request
  <2> QED BY <1>1, <1>3, <2>1 DEF QueueFindOrder
<1>4. CASE ActivateGetSlot(r)
  <2>1. CASE ~Finish(r)
    <3>1. req' = [req EXCEPT ![r].pc = "activateFindTrip", ![r].order = nextOrder[req[r].driver]]
      BY <1>4, <2>1 DEF ActivateGetSlot
    <3>2. req'[r] = [req[r] EXCEPT !.pc = "activateFindTrip", !.order = nextOrder[req[r].driver]]
      BY <1>a, <3>1 DEF Frames
    <3> QED BY <1>a, <1>b, <3>2 DEF OnCourseNext, OnCourse, MarketSteps, Request
  <2> QED BY <1>1, <2>1
<1>5. CASE ActivateFindTrip(r)
  <2>1. CASE Goto(r, "activateStart") /\ trip[req[r].order].status = "ASSIGNED"
    <3>1. req'[r] = [req[r] EXCEPT !.pc = "activateStart"] /\ trip' = trip
      BY <1>a, <1>5, <2>1 DEF ActivateFindTrip, Goto, Frames, rows
    <3> QED BY <1>a, <1>b, <2>1, <3>1 DEF OnCourseNext, OnCourse, MarketSteps, Request
  <2> QED BY <1>2, <1>5, <2>1 DEF ActivateFindTrip
<1>6. CASE QueueGetSlot(r) \/ QueueCreateOffer(r) \/ ActivateStart(r) \/ ActivateDelSlot(r)
  BY <1>1, <1>2, <1>6 DEF QueueGetSlot, QueueCreateOffer, ActivateStart, ActivateDelSlot
<1> QED BY <1>3, <1>4, <1>5, <1>6 DEF QueueSteps

LEMMA ContinueOwn ==
  ASSUME NEW r \in Requests, Served(r), Continue(r)
  PROVE  OnCourseNext(req'[r])
<1>a. /\ Data /\ Frames /\ OnCourseNow(req[r])
      /\ req[r] \in Request /\ Sound(req[r], offer, trip)
  BY DEF Served, Frames
<1>1. CASE CreateInsert(r)
  <2>1. CASE Finish(r)
    BY <1>a, <2>1, FinishCourse
  <2>2. CASE ~Finish(r)
    <3>1. /\ order' = [order EXCEPT ![req[r].order] = "MATCHING"]
          /\ Goto(r, "assignFindTrip")
      BY <1>1, <2>2 DEF CreateInsert
    <3>2. req[r].order \in Orders /\ req[r].batch = {}
      BY <1>a, <1>1 DEF CreateInsert, At, Sound, OnCourseNow, OnCourse, SweepSteps
    <3>3. /\ req'[r] = [req[r] EXCEPT !.pc = "assignFindTrip"]
          /\ order'[req[r].order] = "MATCHING"
      BY <1>a, <3>1, <3>2 DEF Goto, Frames, Data, RowTypes
    <3> QED BY <1>a, <3>2, <3>3 DEF OnCourseNext, OnCourse, MarketSteps, OpenStatus, Request
  <2> QED BY <2>1, <2>2
<1>2. CASE CancelCommit(r) \/ CompleteBusy(r)
  BY <1>a, <1>2, FinishCourse DEF CancelCommit, CompleteBusy
<1>3. CASE CompleteCommit(r)
  <2>1. req[r].batch = {}
    BY <1>a, <1>3 DEF CompleteCommit, At, OnCourseNow, OnCourse, SweepSteps
  <2> QED BY <1>a, <1>3, <2>1, GotoFree DEF CompleteCommit, MarketSteps
<1> QED BY <1>1, <1>2, <1>3, SearchOwn, AcceptOwn, QueueOwn DEF Continue

\* An order that is open is on the market, and so is one with an offer to answer.
LEMMA OpenIsInMarket ==
  ASSUME Data, Course, NEW o \in Orders, order[o] \in {"CREATED", "MATCHING"}
  PROVE  InMarket(o, order, trip)
<1>1. trip[o].status = "NONE"
  BY GivenStatus DEF Course, HasTrip, RideStatus
<1> QED BY <1>1 DEF InMarket, OpenStatus

\* A request that enters has just read what its frame says.
LEMMA CallOwn ==
  ASSUME NEW r \in Requests, Served(r), Calls(r)
  PROVE  OnCourseNext(req'[r])
<1>a. Data /\ Frames /\ Keeps /\ Course /\ OnCourseNow(req[r]) /\ req[r] \in Request
  BY DEF Served, Frames
<1>b. ASSUME NEW op, NEW pc, NEW o, NEW d, NEW f, Enter(r, op, pc, o, d, f),
             OnCourseNext([Idle EXCEPT !.pc = pc, !.order = o, !.driver = d, !.offer = f])
      PROVE  OnCourseNext(req'[r])
  <2>1. req'[r] = [Idle EXCEPT !.pc = pc, !.order = o, !.driver = d, !.offer = f]
    BY <1>a, <1>b DEF Enter, Frames
  <2> QED BY <1>b, <2>1
<1>1. CASE ProcessExpired(r)
  <2> DEFINE expired == {f \in Offers : offer[f].status = "PENDING" /\ offer[f].overdue}
  <2>1. req'[r] = [Idle EXCEPT !.pc = "sweep", !.batch = expired] /\ UNCHANGED rows
    BY <1>a, <1>1 DEF ProcessExpired, Frames
  <2>2. \A f \in expired : InMarket(offer'[f].order, order', trip')
    BY <1>a, <2>1 DEF Course, PendingInMarket, InMarket, rows
  <2> QED BY <2>1, <2>2 DEF OnCourseNext, OnCourse, Idle, MarketSteps, SweepSteps
<1>2. ASSUME NEW o \in Orders, CreateOrder(r, o)
      PROVE  OnCourseNext(req'[r])
  <2>1. Enter(r, "create", "createInsert", o, None, None) /\ order'[o] = "NONE"
    BY <1>2 DEF CreateOrder, rows
  <2> QED BY <1>b, <2>1 DEF OnCourseNext, OnCourse, Idle, MarketSteps
<1>3. ASSUME NEW o \in Orders, FindById(r, o) \/ AssignOrder(r, o)
      PROVE  OnCourseNext(req'[r])
  <2>1. PICK op \in {"poll", "assign"} :
          /\ Enter(r, op, "assignFindTrip", o, None, None)
          /\ \/ order'[o] \in OpenStatus
             \/ "assign" \in Operations /\ order'[o] # "NONE"
    BY <1>3 DEF FindById, AssignOrder, OpenStatus, Enter, rows
  <2> QED BY <1>b, <2>1 DEF OnCourseNext, OnCourse, Idle, MarketSteps
<1>4. ASSUME NEW o \in Orders, CancelOrder(r, o)
      PROVE  OnCourseNext(req'[r])
  <2>1. /\ Enter(r, "cancel", "cancelCommit", o, trip[o].driver, None)
        /\ UNCHANGED <<order, trip>>
    BY <1>4 DEF CancelOrder, rows
  <2>2. trip[o].status = "ASSIGNED" \/ InMarket(o, order, trip)
    BY <1>a, <1>4, OpenIsInMarket DEF CancelOrder
  <2>3. trip'[o].status = "ASSIGNED" \/ InMarket(o, order', trip')
    BY <2>1, <2>2 DEF InMarket
  <2> QED BY <1>b, <2>1, <2>3 DEF OnCourseNext, OnCourse, Idle, MarketSteps
<1>5. ASSUME NEW o \in Orders, RunScheduled(r, o)
      PROVE  OnCourseNext(req'[r])
  <2>1. /\ Enter(r, "scheduled", "scheduledMatching", o, None, None)
        /\ UNCHANGED <<order, trip>>
    BY <1>5 DEF RunScheduled, rows
  <2>2. InMarket(o, order', trip')
    BY <1>a, <1>5, <2>1, OpenIsInMarket DEF RunScheduled, InMarket
  <2> QED BY <1>b, <2>1, <2>2 DEF OnCourseNext, OnCourse, Idle, MarketSteps
<1>6. ASSUME NEW o \in Orders, AcceptTrip(r, o) \/ ArrivedPickup(r, o) \/ StartLoading(r, o)
      PROVE  OnCourseNext(req'[r])
  <2>1. req' = req /\ req[r].pc = "idle"
    BY <1>6 DEF AcceptTrip, ArrivedPickup, StartLoading, Called, At
  <2>2. req[r].batch = {}
    BY <1>a, <2>1 DEF OnCourseNow, OnCourse, SweepSteps
  <2> QED BY <2>1, <2>2 DEF OnCourseNext, OnCourse, MarketSteps
<1>7. ASSUME NEW o \in Orders, StartTransit(r, o)
      PROVE  OnCourseNext(req'[r])
  <2>1. Enter(r, "transit", "queueGetSlot", o, trip[o].driver, None)
    BY <1>7 DEF StartTransit
  <2> QED BY <1>b, <2>1 DEF OnCourseNext, OnCourse, Idle, MarketSteps
<1>8. ASSUME NEW o \in Orders, Complete(r, o)
      PROVE  OnCourseNext(req'[r])
  <2>1. /\ Enter(r, "complete", "completeCommit", o, trip[o].driver, None)
        /\ trip'[o].status = "IN_TRANSIT"
    BY <1>8 DEF Complete, rows
  <2> QED BY <1>b, <2>1 DEF OnCourseNext, OnCourse, Idle, MarketSteps
<1>9. ASSUME NEW f \in Offers, ReadOverdue(r, "accept", f) \/ ReadOverdue(r, "reject", f)
      PROVE  OnCourseNext(req'[r])
  <2>1. PICK op \in {"accept", "reject"} : Enter(r, op, "lapse", None, None, f)
    BY <1>9 DEF ReadOverdue
  <2> QED BY <1>b, <2>1 DEF OnCourseNext, OnCourse, Idle, MarketSteps
<1>10. ASSUME NEW f \in Offers, NEW d \in Drivers, AcceptOffer(r, f, d) \/ RejectOffer(r, f, d)
      PROVE  OnCourseNext(req'[r])
  <2>1. PICK op \in {"accept", "reject"}, pc \in {"acceptFindTrip", "rejectWrite"} :
          Enter(r, op, pc, offer[f].order, d, f)
    BY <1>10 DEF AcceptOffer, RejectOffer
  <2>2. InMarket(offer[f].order, order, trip) /\ UNCHANGED <<order, trip>>
    BY <1>a, <1>10 DEF AcceptOffer, RejectOffer, Live, Course, PendingInMarket, rows
  <2>3. InMarket(offer[f].order, order', trip')
    BY <2>2 DEF InMarket
  <2> QED BY <1>b, <2>1, <2>3 DEF OnCourseNext, OnCourse, Idle, MarketSteps
<1> QED BY <1>1, <1>2, <1>3, <1>4, <1>5, <1>6, <1>7, <1>8, <1>9, <1>10 DEF Calls

-------------------------------------------------------------------------------
\* The invariant of the isolated system.
LEMMA InitCourse == Init => CourseInv
<1> SUFFICES ASSUME Init PROVE CourseInv
  OBVIOUS
<1>1. OrderFollowsTrip /\ PendingInMarket
  BY DEF Init, OrderFollowsTrip, HasTrip, PendingInMarket, NoTrip, NoOffer
<1>2. \A r \in Requests : OnCourse(req[r], order, offer, trip)
  BY IdleOnCourse DEF Init, OnCourseNow
<1> QED BY <1>1, <1>2 DEF CourseInv

\* Every request stays on course: the one that is served because of what it does,
\* the others because their orders are left alone.
LEMMA FramesOnCourse ==
  ASSUME IInv, CourseInv, [Next /\ Undisturbed]_vars, NEW s \in Requests
  PROVE  OnCourse(req'[s], order', offer', trip')
<1>1. Data /\ Frames /\ Keeps /\ Course
  BY Halves, NextInvariant DEF CourseInv, Course
<1>2. \A r \in Requests : Served(r)
  BY <1>1 DEF CourseInv, Served, OnCourseNow
<1>3. CASE UNCHANGED vars
  BY <1>3 DEF vars, CourseInv, OnCourse, InMarket
<1>4. CASE Undisturbed /\ req'[s] = req[s]
  <2>1. \A o \in About(req[s]) : SameRows(o)
    BY <1>4 DEF Undisturbed
  <2>2. req[s] \in Request /\ Sound(req[s], offer, trip) /\ OnCourseNow(req[s])
    BY <1>1, <1>2 DEF Served, Frames
  <2> QED BY <1>1, <1>4, <2>1, <2>2, CoursePersists DEF OnCourseNext
<1>5. ASSUME NEW r \in Requests, Calls(r) \/ Continue(r) \/ Fail(r), Undisturbed
      PROVE  OnCourse(req'[s], order', offer', trip')
  <2>1. CASE s # r
    <3>1. req'[s] = req[s]
      BY <1>1, <1>5, <2>1, OneAtATime DEF Frames
    <3> QED BY <1>4, <1>5, <3>1
  <2>2. CASE s = r
    <3>1. CASE Fail(r)
      BY <1>1, <2>2, <3>1, FinishCourse DEF Fail, OnCourseNext
    <3> QED BY <1>2, <1>5, <2>2, <3>1, CallOwn, ContinueOwn DEF OnCourseNext
  <2> QED BY <2>1, <2>2
<1>6. CASE Environment /\ Undisturbed
  <2>1. req' = req
    BY <1>6 DEF Environment, OfferDeadline, ScheduleDue, SlotExpires, UpdateLocation,
       SetAvailability
  <2> QED BY <1>4, <1>6, <2>1
<1> QED BY <1>3, <1>5, <1>6 DEF Next

LEMMA IsolatedStep == IInv /\ CourseInv /\ [Next /\ Undisturbed]_vars => IInv' /\ CourseInv' /\ RowsOnCourse
<1> SUFFICES ASSUME IInv, CourseInv, [Next /\ Undisturbed]_vars
             PROVE  IInv' /\ CourseInv' /\ RowsOnCourse
  OBVIOUS
<1>1. [Next]_vars
  OBVIOUS
<1>2. IInv' /\ RowsOnCourse
  BY <1>1, NextInvariant, NextCourse
<1>3. OrderFollowsTrip'
  <2>1. Data /\ Data'
    BY <1>2, Halves, NextRows, <1>1
  <2> QED BY <1>2, <2>1, LifeFollows DEF CourseInv, RowsOnCourse
<1>4. PendingInMarket'
  BY <1>2 DEF RowsOnCourse
<1>5. \A r \in Requests : OnCourse(req'[r], order', offer', trip')
  BY FramesOnCourse
<1> QED BY <1>2, <1>3, <1>4, <1>5 DEF CourseInv

\* While the requests about an order do not overlap, the reading of each stays
\* good to its last write.
THEOREM IsolatedInvariant == IsolatedSpec => [](IInv /\ CourseInv)
  BY InitInvariant, InitCourse, IsolatedStep, PTL DEF IsolatedSpec

\* The services move every order along its lifecycle while the requests about it do
\* not overlap, whatever trip endpoint the driver's app calls, in whatever status of
\* the trip and however often.
THEOREM LifecycleImplemented == IsolatedSpec => FollowsLifecycle
<1>1. Init => Life!LInit
  BY DEF Init, Life!LInit, NoTrip
<1>2. IInv /\ CourseInv /\ [Next /\ Undisturbed]_vars => [Life!LNext]_(Life!lvars)
  BY IsolatedStep DEF RowsOnCourse
<1> QED BY <1>1, <1>2, IsolatedInvariant, PTL DEF IsolatedSpec, FollowsLifecycle, Life!LSpec

\* An order with a trip has a status that goes with the trip's, also after calls
\* that find the trip elsewhere than the app shows it, and when an operator starts a
\* search for an order that has been given.
THEOREM OrderFollowsTripIsolated == IsolatedSpec => []OrderFollowsTrip
<1>1. CourseInv => OrderFollowsTrip
  BY DEF CourseInv
<1> QED BY <1>1, IsolatedInvariant, PTL

\* The job that complete starts is still waiting when it is started: neither a
\* cancellation nor the driver's own press comes in between.
THEOREM QueuedJobIsolated == IsolatedSpec => []QueuedJobIsWaiting
<1>1. CourseInv => QueuedJobIsWaiting
  BY DEF CourseInv, OnCourse, QueuedJobIsWaiting, At
<1> QED BY <1>1, IsolatedInvariant, PTL

\* A cancelled order is out of the market for good: no offer of it can be accepted,
\* no trip of it waits to be started, and only the driver's word that it is under
\* way is taken.  An operator's search could put it back.
THEOREM CancellationIsolated ==
  ASSUME "assign" \notin Operations
  PROVE  IsolatedSpec => []CancellationIsComplete
<1>1. ASSUME IInv, CourseInv PROVE CancellationIsComplete
  <2> SUFFICES ASSUME NEW o \in Orders, order[o] = "CANCELLED"
               PROVE  /\ \A f \in OffersOf(o) : offer[f].status # "PENDING"
                      /\ trip[o].status \in {"NONE", "CANCELLED", "DRIVER_EN_ROUTE"}
    BY DEF CancellationIsComplete
  <2>1. ASSUME NEW f \in OffersOf(o) PROVE offer[f].status # "PENDING"
    BY <1>1, <2>1 DEF CourseInv, PendingInMarket, InMarket, OpenStatus, OffersOf
  <2>2. trip[o].status \in {"NONE", "CANCELLED", "DRIVER_EN_ROUTE"}
    <3>1. trip[o] \in TripRow \cup {NoTrip}
      BY <1>1 DEF IInv, TypeOK
    <3> QED BY <1>1, <3>1 DEF CourseInv, OrderFollowsTrip, HasTrip, OrderStatusesFor,
               TripRow, TripStatus, NoTrip
  <2> QED BY <2>1, <2>2
<1>2. IInv /\ CourseInv => CancellationIsComplete
  BY <1>1
<1> QED BY <1>2, IsolatedInvariant, PTL

\* Nobody's ride is cancelled once the driver has set out, while the cancellation
\* and the driver's call do not overlap.
THEOREM NoLateCancellation == IsolatedSpec => NoCancellationOnceStarted
<1>1. ASSUME Data, Data', Life!LNext \/ UNCHANGED Life!lvars, NEW o \in Orders,
             trip[o].status \in Moving
      PROVE  trip'[o].status # "CANCELLED"
  <2>1. CASE UNCHANGED Life!lvars
    <3>1. trip'[o].status = trip[o].status
      BY <2>1 DEF Life!lvars
    <3> QED BY <1>1, <3>1 DEF Moving
  <2>2. ASSUME NEW p \in Orders, Life!Book(p) \/ Life!Search(p)
        PROVE  trip'[o].status # "CANCELLED"
    <3>1. trip'[o].status = trip[o].status
      BY <2>2 DEF Life!Book, Life!Search
    <3> QED BY <1>1, <3>1 DEF Moving
  <2>3. ASSUME NEW p \in Orders, Life!Assign(p)
        PROVE  trip'[o].status # "CANCELLED"
    <3>1. trip'[o].status \in {"ASSIGNED", trip[o].status}
      BY <2>3 DEF Life!Assign
    <3> QED BY <1>1, <3>1 DEF Moving
  <2>4. ASSUME NEW p \in Orders, Life!SetOut(p) \/ Life!Drive(p) \/ Life!Deliver(p)
        PROVE  trip'[o].status # "CANCELLED"
    <3>1. PICK to \in {"DRIVER_EN_ROUTE", "COMPLETED"} \cup {leg.to : leg \in Life!Legs} :
            trip'[o].status \in {to, trip[o].status}
      BY <2>4 DEF Life!SetOut, Life!Drive, Life!Deliver
    <3> QED BY <1>1, <3>1 DEF Moving, Life!Legs
  <2>5. ASSUME NEW p \in Orders, Life!Cancel(p)
        PROVE  trip'[o].status # "CANCELLED"
    <3>1. \/ trip'[o].status = trip[o].status
          \/ p # o /\ trip'[o].status = trip[o].status
          \/ trip[o].status = "ASSIGNED"
      BY <2>5 DEF Life!Cancel
    <3> QED BY <1>1, <3>1 DEF Moving
  <2> QED BY <1>1, <2>1, <2>2, <2>3, <2>4, <2>5 DEF Life!LNext
<1>2. ASSUME IInv, CourseInv, [Next /\ Undisturbed]_vars
      PROVE  \A o \in Orders : trip[o].status \in Moving => trip'[o].status # "CANCELLED"
  <2>1. RowsOnCourse /\ Data /\ Data'
    BY <1>2, IsolatedStep, Halves, NextRows
  <2> QED BY <1>1, <2>1 DEF RowsOnCourse
<1>3. IInv /\ CourseInv /\ [Next /\ Undisturbed]_vars =>
        [\A o \in Orders : trip[o].status \in Moving => trip'[o].status # "CANCELLED"]_vars
  BY <1>2
<1> QED BY <1>3, IsolatedInvariant, PTL DEF IsolatedSpec, NoCancellationOnceStarted

-------------------------------------------------------------------------------
\* A search whose order is left alone still excludes whom it should.
LEMMA ExcludesPersists ==
  ASSUME RowTypes, NEW q \in Request, Sound(q, offer, trip), Excludes(q, offer),
         \A o \in About(q) : SameRows(o)
  PROVE  Excludes(q, offer')
<1> SUFFICES ASSUME NEW f \in Offers, offer'[f].status # "NONE", offer'[f].order = q.order,
                    q.pc \in {"pick", "createOffer"}
             PROVE  /\ q.pc = "pick" => offer'[f].driver \in q.tried
                    /\ q.pc = "createOffer" => offer'[f].driver # q.driver
  BY DEF Excludes
<1>1. q.order \in About(q)
  BY DEF Sound, About
<1>2. offer'[f] = [offer[f] EXCEPT !.overdue = offer'[f].overdue]
  BY <1>1 DEF SameRows
<1>3. /\ offer'[f].status = offer[f].status
      /\ offer'[f].order = offer[f].order
      /\ offer'[f].driver = offer[f].driver
  BY <1>2 DEF RowTypes, OfferRow, NoOffer
<1> QED BY <1>3 DEF Excludes

\* The drivers a search excludes are collected and used with nobody in between.
LEMMA ExcludesOwn ==
  ASSUME req \in [Requests -> Request], NEW r \in Requests, Excludes(req[r], offer),
         Calls(r) \/ Continue(r) \/ Fail(r)
  PROVE  Excludes(req'[r], offer')
<1>1. ASSUME req'[r].pc \notin {"pick", "createOffer"} PROVE Excludes(req'[r], offer')
  BY <1>1 DEF Excludes
<1>2. ASSUME NEW pc, pc \notin {"pick", "createOffer"}, Goto(r, pc)
      PROVE  Excludes(req'[r], offer')
  BY <1>1, <1>2 DEF Goto, Request
<1>3. Finish(r) => Excludes(req'[r], offer')
  BY <1>1 DEF Finish, Idle
<1>4. Return(r) => Excludes(req'[r], offer')
  BY <1>1 DEF Return, Idle
<1>5. ASSUME NEW op, NEW pc, NEW o, NEW d, NEW f, pc \notin {"pick", "createOffer"},
             Enter(r, op, pc, o, d, f)
      PROVE  Excludes(req'[r], offer')
  BY <1>1, <1>5 DEF Enter, Idle
<1>6. CASE FindTried(r)
  <2> DEFINE tried == {offer[f].driver : f \in OffersOf(req[r].order)}
  <2>1. req'[r] = [req[r] EXCEPT !.pc = "pick", !.tried = tried] /\ offer' = offer
    BY <1>6 DEF FindTried, rows
  <2> QED BY <2>1 DEF Excludes, OffersOf, Exists, Request
<1>7. CASE Pick(r)
  <2>1. ASSUME NEW d \in Drivers \ req[r].tried,
               req' = [req EXCEPT ![r].pc = "createOffer", ![r].driver = d, ![r].tried = {}]
        PROVE  Excludes(req'[r], offer')
    <3>1. /\ req'[r] = [req[r] EXCEPT !.pc = "createOffer", !.driver = d, !.tried = {}]
          /\ offer' = offer /\ req[r].pc = "pick"
      BY <1>7, <2>1 DEF Pick, At, rows
    <3> QED BY <2>1, <3>1 DEF Excludes, Request
  <2> QED BY <1>4, <1>7, <2>1 DEF Pick, OnlineCandidates, BusyFallback
<1>8. CASE Fail(r)
  BY <1>3, <1>8 DEF Fail
<1>9. CASE Calls(r)
  <2>1. CASE ProcessExpired(r)
    BY <1>1, <2>1 DEF ProcessExpired, Idle
  <2>2. ASSUME NEW o \in Orders, CreateOrder(r, o) \/ FindById(r, o) \/ AssignOrder(r, o)
                 \/ CancelOrder(r, o) \/ RunScheduled(r, o) \/ StartTransit(r, o) \/ Complete(r, o)
        PROVE  Excludes(req'[r], offer')
    BY <1>5, <2>2 DEF CreateOrder, FindById, AssignOrder, CancelOrder, RunScheduled,
       StartTransit, Complete
  <2>3. ASSUME NEW o \in Orders, AcceptTrip(r, o) \/ ArrivedPickup(r, o) \/ StartLoading(r, o)
        PROVE  Excludes(req'[r], offer')
    BY <1>1, <2>3 DEF AcceptTrip, ArrivedPickup, StartLoading, Called, At
  <2>4. ASSUME NEW f \in Offers, ReadOverdue(r, "accept", f) \/ ReadOverdue(r, "reject", f)
        PROVE  Excludes(req'[r], offer')
    BY <1>5, <2>4 DEF ReadOverdue
  <2>5. ASSUME NEW f \in Offers, NEW d \in Drivers, AcceptOffer(r, f, d) \/ RejectOffer(r, f, d)
        PROVE  Excludes(req'[r], offer')
    BY <1>5, <2>5 DEF AcceptOffer, RejectOffer
  <2> QED BY <1>9, <2>1, <2>2, <2>3, <2>4, <2>5 DEF Calls
<1>10. CASE SearchSteps(r) /\ ~FindTried(r) /\ ~Pick(r)
  <2>1. CASE SweepExpire(r)
    BY <1>1, <2>1 DEF SweepExpire, Request
  <2>2. CASE ~SweepExpire(r)
    BY <1>2, <1>3, <1>4, <1>10, <2>2 DEF SearchSteps, AssignFindTrip, AssignFindOffer, CreateOffer,
       SetMatching, LapseOffer, RejectWrite, ReofferFindTrip, SweepFindOrder, ScheduledMatching
  <2> QED BY <2>1, <2>2
<1>11. CASE AcceptSteps(r)
  BY <1>2, <1>3, <1>11 DEF AcceptSteps, AcceptFindTrip, AcceptLate, AcceptCommit, AcceptCount,
     AcceptQueue
<1>12. CASE QueueSteps(r)
  BY <1>1, <1>2, <1>3, <1>12 DEF QueueSteps, QueueGetSlot, QueueFindOrder, QueueCreateOffer,
     ActivateGetSlot, ActivateFindTrip, ActivateStart, ActivateDelSlot, Request
<1>13. CASE CreateInsert(r) \/ CancelCommit(r) \/ CompleteCommit(r) \/ CompleteBusy(r)
  BY <1>2, <1>3, <1>13 DEF CreateInsert, CancelCommit, CompleteCommit, CompleteBusy
<1> QED BY <1>6, <1>7, <1>8, <1>9, <1>10, <1>11, <1>12, <1>13 DEF Continue

LEMMA TriedStep == IInv /\ TriedInv /\ [Next /\ Undisturbed]_vars => TriedInv'
<1> SUFFICES ASSUME Data, Frames, TriedInv, [Next /\ Undisturbed]_vars, NEW s \in Requests
             PROVE  Excludes(req'[s], offer')
  BY Halves DEF TriedInv
<1>1. CASE UNCHANGED vars
  BY <1>1 DEF vars, TriedInv, Excludes
<1>2. CASE Undisturbed /\ req'[s] = req[s]
  BY <1>2, ExcludesPersists DEF Undisturbed, Data, Frames, TriedInv
<1>3. ASSUME NEW r \in Requests, Calls(r) \/ Continue(r) \/ Fail(r), Undisturbed
      PROVE  Excludes(req'[s], offer')
  <2>1. CASE s # r
    <3>1. req'[s] = req[s]
      BY <1>3, <2>1, OneAtATime DEF Frames
    <3> QED BY <1>2, <1>3, <3>1
  <2> QED BY <1>3, <2>1, ExcludesOwn DEF TriedInv, Frames
<1>4. CASE Environment /\ Undisturbed
  <2>1. req' = req
    BY <1>4 DEF Environment, OfferDeadline, ScheduleDue, SlotExpires, UpdateLocation,
       SetAvailability
  <2> QED BY <1>2, <1>4, <2>1
<1> QED BY <1>1, <1>3, <1>4 DEF Next

\* No driver is offered an order twice by a search, while the requests about the
\* order do not overlap: whoever was offered it between the reading of the offers
\* and the choice is what two searches miss of each other.
THEOREM SearchSkipsTriedIsolated == IsolatedSpec => []SearchSkipsTriedDrivers
<1>1. Init => TriedInv
  BY DEF Init, TriedInv, Excludes, Idle, NoOffer
<1>2. TriedInv => SearchSkipsTriedDrivers
  BY DEF TriedInv, Excludes, SearchSkipsTriedDrivers, At, OffersOf, Exists
<1>3. IsolatedSpec => Spec
  <2>1. [Next /\ Undisturbed]_vars => [Next]_vars
    OBVIOUS
  <2> QED BY <2>1, PTL DEF IsolatedSpec, Spec
<1> QED BY <1>1, <1>2, <1>3, TriedStep, Invariant, PTL DEF IsolatedSpec

-------------------------------------------------------------------------------
\* A request that goes on moves to another step.
LEMMA ContinueMoves ==
  ASSUME req \in [Requests -> Request], NEW r \in Requests, Calls(r) \/ Continue(r) \/ Fail(r),
         req[r].pc # "idle"
  PROVE  req'[r] # req[r]
<1>1. ASSUME NEW pc, pc # req[r].pc, Goto(r, pc) PROVE req'[r] # req[r]
  BY <1>1 DEF Goto, Request
<1>2. Finish(r) => req'[r] # req[r]
  BY DEF Finish, Idle
<1>3. Return(r) /\ req[r].pc # "sweep" => req'[r] # req[r]
  <2>1. Return(r) => req'[r].pc \in {"idle", "sweep"}
    <3>1. CASE req[r].batch = {}
      BY <3>1 DEF Return, Idle
    <3>2. CASE req[r].batch # {}
      BY <3>2 DEF Return, Idle
    <3> QED BY <3>1, <3>2
  <2> QED BY <2>1
<1>4. CASE Fail(r)
  BY <1>2, <1>4 DEF Fail
<1>5. ~Calls(r)
  BY DEF Calls, ProcessExpired, CreateOrder, FindById, AssignOrder, CancelOrder, RunScheduled,
     StartTransit, Complete, AcceptTrip, ArrivedPickup, StartLoading, ReadOverdue, AcceptOffer,
     RejectOffer, Called, Enter, At
<1>6. CASE FindTried(r) \/ SweepExpire(r)
  <2>1. CASE FindTried(r)
    <3>1. PICK tried : req' = [req EXCEPT ![r].pc = "pick", ![r].tried = tried]
      BY <2>1 DEF FindTried
    <3>2. req[r].pc = "findTried"
      BY <2>1 DEF FindTried, At
    <3>3. req'[r] = [req[r] EXCEPT !.pc = "pick", !.tried = tried]
      BY <3>1
    <3> QED BY <3>2, <3>3 DEF Request
  <2>2. CASE SweepExpire(r)
    <3>1. PICK o, batch :
            req' = [req EXCEPT ![r].pc = "sweepFindOrder", ![r].order = o, ![r].batch = batch]
      BY <2>2 DEF SweepExpire
    <3> QED BY <2>2, <3>1 DEF SweepExpire, At, Request
  <2> QED BY <1>6, <2>1, <2>2
<1>7. CASE Pick(r)
  BY <1>3, <1>7 DEF Pick, At, Request
<1>8. CASE SearchSteps(r) /\ ~(FindTried(r) \/ SweepExpire(r) \/ Pick(r))
  BY <1>1, <1>2, <1>3, <1>8 DEF SearchSteps, AssignFindTrip, AssignFindOffer, CreateOffer,
     SetMatching, LapseOffer, RejectWrite, ReofferFindTrip, SweepFindOrder, ScheduledMatching, At
<1>9. CASE AcceptSteps(r)
  BY <1>1, <1>2, <1>9 DEF AcceptSteps, AcceptFindTrip, AcceptLate, AcceptCommit, AcceptCount,
     AcceptQueue, At
<1>10. CASE QueueFindOrder(r) \/ ActivateGetSlot(r)
  BY <1>2, <1>10 DEF QueueFindOrder, ActivateGetSlot, At, Request
<1>11. CASE QueueSteps(r) /\ ~(QueueFindOrder(r) \/ ActivateGetSlot(r))
  BY <1>1, <1>2, <1>11 DEF QueueSteps, QueueGetSlot, QueueCreateOffer,
     ActivateFindTrip, ActivateStart, ActivateDelSlot, At
<1>12. CASE CreateInsert(r) \/ CancelCommit(r) \/ CompleteCommit(r) \/ CompleteBusy(r)
  BY <1>1, <1>2, <1>12 DEF CreateInsert, CancelCommit, CompleteCommit, CompleteBusy, At
<1> QED BY <1>4, <1>5, <1>6, <1>7, <1>8, <1>9, <1>10, <1>11, <1>12 DEF Continue

\* Time and presence write nothing of an order but that an offer is overdue.
LEMMA EnvironmentSame ==
  ASSUME Data, Environment, NEW o \in Orders
  PROVE  SameRows(o)
<1>1. UNCHANGED <<order, trip>>
  BY DEF Environment, OfferDeadline, ScheduleDue, SlotExpires, UpdateLocation, SetAvailability
<1>2. ASSUME NEW f \in Offers
      PROVE  offer'[f] = [offer[f] EXCEPT !.overdue = offer'[f].overdue]
  <2>1. offer[f] \in OfferRow \cup {NoOffer}
    BY DEF Data, RowTypes
  <2>2. offer'[f] = offer[f] \/ offer'[f] = [offer[f] EXCEPT !.overdue = TRUE]
    BY DEF Environment, OfferDeadline, ScheduleDue, SlotExpires, UpdateLocation, SetAvailability,
       Data, RowTypes
  <2> QED BY <2>1, <2>2 DEF OfferRow, NoOffer
<1> QED BY <1>1, <1>2 DEF SameRows

\* One request at a time is isolated: what holds of IsolatedSpec holds of a backend
\* that handles its calls one after another.
THEOREM OneAtATimeIsIsolated ==
  ASSUME \A r, s \in Requests : r = s
  PROVE  Spec => IsolatedSpec
<1>1. ASSUME IInv, Next PROVE Undisturbed
  <2>1. Data /\ Frames
    BY <1>1, Halves
  <2> SUFFICES ASSUME NEW s \in Requests, req'[s] = req[s], NEW o \in About(req[s])
               PROVE  SameRows(o)
    BY DEF Undisturbed
  <2>2. req[s].pc # "idle" /\ o \in Orders
    BY DEF About
  <2>3. ASSUME NEW r \in Requests, Calls(r) \/ Continue(r) \/ Fail(r) PROVE FALSE
    BY <2>1, <2>2, <2>3, ContinueMoves DEF Frames
  <2> QED BY <1>1, <2>1, <2>2, <2>3, EnvironmentSame DEF Next
<1>2. IInv /\ [Next]_vars => [Next /\ Undisturbed]_vars
  BY <1>1
<1> QED BY <1>2, Invariant, PTL DEF Spec, IsolatedSpec
===============================================================================
