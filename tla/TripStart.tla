------------------------------ MODULE TripStart ------------------------------
(***************************************************************************)
(* The trip from the accepted offer to its completion, as far as the       *)
(* driver's buttons, the driver's availability and the start OTP are       *)
(* concerned.  (What an acceptance tests before its transaction, and all   *)
(* it does to offers and orders, is in DispatchService; the payment, in    *)
(* Payments.)                                                              *)
(***************************************************************************)
EXTENDS ShiftStore

\* The row's availability is written without the indexes.
WriteAvail(r, status, call) ==
    /\ avail' = status
    /\ lagging' = TRUE
    /\ Crowd(r, call)
    /\ UNCHANGED <<verification, located, bounds>>

Offering == /\ trip = "NONE" /\ located
            /\ view.on /\ Serving

\* acceptOffer's transaction.  Only drivers found in an index have offers.
AcceptOffer(r) ==
    /\ At(r, "idle") /\ Offering
    /\ trip' = "ASSIGNED"
    /\ WriteAvail(r, "BUSY", OnTrip("acceptOtp", NoCode, "idle"))
    /\ UNCHANGED <<listed, otp, shown, view>>

\* The first code, drawn outside the transaction; the app then refreshes.
AcceptOtp(r, c) ==
    /\ At(r, "acceptOtp")
    /\ otp' = c
    /\ Refresh(r)
    /\ UNCHANGED <<driver, listed, trip, shown, view, history>>

-------------------------------------------------------------------------------
(* The driver's button: what it calls depends on the trip the app shows.   *)

\* The first step of the call for a trip shown as t; the code is the customer's.
ButtonOf == [t \in ActiveTrip |->
    CASE t = "ASSIGNED"        -> "enRoute"
      [] t = "DRIVER_EN_ROUTE" -> "arrive"
      [] t = "ARRIVED_PICKUP"  -> "otpCheck"
      [] t = "LOADING"         -> "transit"
      [] t = "IN_TRANSIT"      -> "complete"]

Press(r, t) ==
    /\ At(r, "idle") /\ Serving
    /\ view.on /\ view.trip = t
    /\ t = "ARRIVED_PICKUP" => shown # NoCode
    /\ Become(r, OnTrip(ButtonOf[t], shown, "idle"))
    /\ UNCHANGED <<driver, listed, start, view, history>>

\* accept and startTransit write the status whatever it was.
Advance(r, pc, status) ==
    /\ At(r, pc)
    /\ trip' = status
    /\ Refresh(r)
    /\ UNCHANGED <<driver, listed, otp, shown, view, history>>

Accept(r) == Advance(r, "enRoute", "DRIVER_EN_ROUTE")
StartTransit(r) == Advance(r, "transit", "IN_TRANSIT")

Complete(r) ==
    /\ At(r, "complete")
    /\ IF trip = "IN_TRANSIT" THEN Goto(r, "completeCommit") ELSE Finish(r)
    /\ UNCHANGED <<driver, listed, start, view, history>>

CompleteCommit(r) ==
    /\ At(r, "completeCommit")
    /\ trip' = "COMPLETED"
    /\ WriteAvail(r, "ONLINE", Reading("jobs", "OFFLINE", "NONE"))
    /\ UNCHANGED <<listed, otp, shown, view>>

-------------------------------------------------------------------------------
(* ensureTripStartOtp, and the same steps in the customer's findById: read  *)
(* the code, draw and store one if there is none, go on with it.            *)

Ensure(r, next) ==
    IF otp # NoCode
    THEN Become(r, OnTrip(next, otp, "idle"))
    ELSE Become(r, OnTrip("otpSet", NoCode, next))

OtpSet(r, c) ==
    /\ At(r, "otpSet")
    /\ otp' = c
    /\ Become(r, OnTrip(req[r].next, c, "idle"))
    /\ UNCHANGED <<driver, listed, trip, shown, view, history>>

\* arrivedPickup sees to it that there is a code, and commits.
Arrive(r) ==
    /\ At(r, "arrive")
    /\ Ensure(r, "arriveCommit")
    /\ UNCHANGED <<driver, listed, start, view, history>>

ArriveCommit(r) == Advance(r, "arriveCommit", "ARRIVED_PICKUP")

\* startLoading compares the code, deletes it, and commits.  Without a stored code
\* it makes one, for the customer to see, and refuses.
OtpCheck(r) ==
    /\ At(r, "otpCheck")
    /\ IF otp = NoCode THEN Goto(r, "otpEnsure")
       ELSE IF otp = req[r].code THEN Goto(r, "otpDelete")
       ELSE Finish(r)
    /\ UNCHANGED <<driver, listed, start, view, history>>

OtpEnsure(r) ==
    /\ At(r, "otpEnsure")
    /\ Ensure(r, "refuse")
    /\ UNCHANGED <<driver, listed, start, view, history>>

Refuse(r) ==
    /\ At(r, "refuse")
    /\ Finish(r)
    /\ UNCHANGED <<driver, listed, start, view, history>>

OtpDelete(r) ==
    /\ At(r, "otpDelete")
    /\ otp' = NoCode
    /\ Goto(r, "loadCommit")
    /\ UNCHANGED <<driver, listed, trip, shown, view, history>>

LoadCommit(r) == Advance(r, "loadCommit", "LOADING")

\* (variant) The code is shown until the driver has arrived.
VisibleBeforeArrival == {"ASSIGNED", "DRIVER_EN_ROUTE"}

TripStartOtpVisible == {"ASSIGNED", "DRIVER_EN_ROUTE", "ARRIVED_PICKUP"}

\* The customer's app polls the order; the trip was read with it.
CustomerPoll(r) ==
    /\ At(r, "idle") /\ Serving
    /\ trip \in TripStartOtpVisible
    /\ Ensure(r, "otpShow")
    /\ UNCHANGED <<driver, listed, start, view, history>>

OtpShow(r) ==
    /\ At(r, "otpShow")
    /\ shown' = req[r].code
    /\ Finish(r)
    /\ UNCHANGED <<driver, listed, trip, otp, view, history>>

\* Twelve hours have passed.
OtpExpires ==
    /\ Limited /\ otp # NoCode
    /\ otp' = NoCode
    /\ UNCHANGED <<driver, listed, trip, shown, view, req, lagging>>
===============================================================================
