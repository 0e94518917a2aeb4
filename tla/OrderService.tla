----------------------------- MODULE OrderService -----------------------------
(***************************************************************************)
(* modules/orders/orders.service.ts: booking, the poll that also drives    *)
(* dispatch, and cancellation.  Quotes, prices, the timeline, e-way bills  *)
(* and readable urls are left out; so is the trip start OTP.               *)
(***************************************************************************)
EXTENDS DispatchService

CONSTANTS
    Customer,           \* Customer[o]: who would book order o
    MaxActiveBookings   \* 3 in the code

ASSUME MaxActiveIsNat == MaxActiveBookings \in Nat

ActiveOrderStatus == OrderStatus \ {"DELIVERED", "CANCELLED"}
ActiveOrders(c) == {o \in Orders : order[o] \in ActiveOrderStatus /\ Customer[o] = c}

\* create: the customer's active orders are counted, then the row is inserted
\* (the id of the row is fixed when the request starts: no other request has it).
CreateOrder(r, o) ==
    /\ order[o] = "NONE"
    /\ \A s \in Requests : ~(At(s, "createInsert") /\ req[s].order = o)
    /\ Cardinality(ActiveOrders(Customer[o])) < MaxActiveBookings
    /\ Enter(r, "create", "createInsert", o, None, None)
    /\ UNCHANGED rows

\* Booked for more than five minutes ahead: CREATED, and dispatch waits.
\* Otherwise MATCHING, and assignOrder runs at once.
CreateInsert(r) ==
    /\ At(r, "createInsert")
    /\ LET o == req[r].order
       IN  \/ /\ "schedule" \in Operations
              /\ order' = [order EXCEPT ![o] = "CREATED"]
              /\ Finish(r)
           \/ /\ order' = [order EXCEPT ![o] = "MATCHING"]
              /\ Goto(r, "assignFindTrip")
    /\ UNCHANGED <<due, offer, trip, avail, geo, nextOrder>>

\* findById: a customer who looks at an order that is MATCHING restarts the search.
FindById(r, o) ==
    /\ order[o] = "MATCHING"
    /\ Enter(r, "poll", "assignFindTrip", o, None, None)
    /\ UNCHANGED rows

\* POST dispatch/orders/:id/assign: the same search, whatever the order's status.
AssignOrder(r, o) ==
    /\ order[o] # "NONE"
    /\ Enter(r, "assign", "assignFindTrip", o, None, None)
    /\ UNCHANGED rows

\* (variant) an order that is ASSIGNED may be cancelled however far its trip is
CancelOrderAnyTrip(r, o) ==
    /\ order[o] \in {"CREATED", "MATCHING", "ASSIGNED"}
    /\ Enter(r, "cancel", "cancelCommit", o, trip[o].driver, None)
    /\ UNCHANGED rows

\* cancel reads the order with its trip; after assignment only a trip that is
\* still ASSIGNED, and no older than a minute, may be cancelled (the minute is
\* not modelled: the request may also be refused, which changes nothing).
\* What it read of the trip decides what the transaction writes.
CancelOrder(r, o) ==
    /\ \/ order[o] \in {"CREATED", "MATCHING"}
       \/ order[o] = "ASSIGNED" /\ trip[o].status = "ASSIGNED"
    /\ Enter(r, "cancel", "cancelCommit", o, trip[o].driver, None)
    /\ UNCHANGED rows

\* (variant) the transaction leaves the order's pending offers alone
CancelCommitKeepsOffers(r) ==
    /\ At(r, "cancelCommit")
    /\ order' = [order EXCEPT ![req[r].order] = "CANCELLED"]
    /\ trip' = IF req[r].driver = None THEN trip
               ELSE [trip EXCEPT ![req[r].order].status = "CANCELLED"]
    /\ Finish(r)
    /\ UNCHANGED <<due, offer, avail, geo, nextOrder>>

\* (variant) the trip is no part of the transaction
CancelCommitKeepsTrip(r) ==
    /\ At(r, "cancelCommit")
    /\ offer' = WithdrawOffers(req[r].order, None)
    /\ order' = [order EXCEPT ![req[r].order] = "CANCELLED"]
    /\ Finish(r)
    /\ UNCHANGED <<due, trip, avail, geo, nextOrder>>

\* The transaction of cancel.  It writes what the read decided, whatever the
\* order and the trip have become since.
CancelCommit(r) ==
    LET o == req[r].order
        d == req[r].driver
        busy == \E other \in Orders \ {o} : trip[other].driver = d /\ trip[other].status \in Active
    IN  /\ At(r, "cancelCommit")
        /\ offer' = WithdrawOffers(o, None)
        /\ order' = [order EXCEPT ![o] = "CANCELLED"]
        /\ trip' = IF d = None THEN trip ELSE [trip EXCEPT ![o].status = "CANCELLED"]
        /\ avail' = IF d = None \/ busy THEN avail ELSE [avail EXCEPT ![d] = "ONLINE"]
        /\ Finish(r)
        /\ UNCHANGED <<due, geo, nextOrder>>
===============================================================================
