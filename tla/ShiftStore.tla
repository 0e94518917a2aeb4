------------------------------ MODULE ShiftStore ------------------------------
(***************************************************************************)
(* The state behind a driver's shift with one trip: the DriverProfile and  *)
(* Trip rows in Postgres, the two geo indexes and the trip's start OTP in  *)
(* Redis, what the driver's and the customer's apps show of them, and the  *)
(* requests in flight.  Each round trip to a database or to Redis is a     *)
(* step; one transaction is one step.                                      *)
(***************************************************************************)
EXTENDS Integers

CONSTANTS
    Codes,          \* the six-digit codes the generator may draw
    NoCode,         \* no code stored, or none shown yet
    Requests,       \* slots for requests in flight: the bound on concurrency
    MaxDisturbances, \* bound on crashes, restarts, expiries and admin decisions
    Mixes           \* bound on what happens in one behaviour: sets of events, see Shift

ASSUME NoCodeIsNoCode == NoCode \notin Codes

VARIABLES
    avail,        \* DriverProfile.availabilityStatus
    verification, \* DriverProfile.verificationStatus
    located,      \* DriverProfile.currentLat and currentLng are set
    listed,       \* the geo indexes (drivers:geo:online, :busy) that list the driver
    trip,         \* Trip.status, "NONE" before the offer is accepted
    otp,          \* trip:<id>:start-otp
    shown,        \* the start OTP on the customer's screen
    view,         \* the driver's app: signed in, availabilityStatus, currentJob's status
    req,          \* req[r]: the request in slot r
    lagging,      \* history: the indexes may not follow the row, see Disturb
    disturbances, \* how many disturbances there have been
    mix           \* the events of this behaviour, one of Mixes

driver == <<avail, verification, located>>
start == <<trip, otp, shown>>
bounds == <<disturbances, mix>>
history == <<lagging, bounds>>
vars == <<driver, listed, start, view, req, history>>

-------------------------------------------------------------------------------
AvailabilityStatus == {"OFFLINE", "ONLINE", "BUSY"}
Indexes == {"ONLINE", "BUSY"}
ActiveTrip == {"ASSIGNED", "DRIVER_EN_ROUTE", "ARRIVED_PICKUP", "LOADING", "IN_TRANSIT"}
TripStatus == ActiveTrip \cup {"NONE", "COMPLETED"}

\* The steps between the database and the geo indexes.
SyncSteps == {"dropOnline", "dropBusy", "list"}
PresenceSteps == SyncSteps \cup {"setWrite", "pingWrite", "bootOnline", "bootBusy", "bootRead"}
Steps == PresenceSteps \cup
    {"idle", "setShow", "users", "usersShow", "jobs", "jobsTrip", "jobsShow",
     "acceptOtp", "enRoute", "arrive", "otpSet", "arriveCommit", "otpCheck", "otpDelete",
     "loadCommit", "otpEnsure", "refuse", "otpShow", "transit", "complete", "completeCommit"}

\* A request: its next step; the availability status it read or was given, and
\* whether it saw a location; the trip status or the code it read; where it goes
\* when the code is there; and, a history, whether no other writer of presence has
\* been about since it began.
Request == [pc : Steps, status : AvailabilityStatus, mapped : BOOLEAN,
            trip : TripStatus, code : Codes \cup {NoCode}, next : Steps, alone : BOOLEAN]

Call(pc, status, mapped, t, code, next, alone) ==
    [pc |-> pc, status |-> status, mapped |-> mapped, trip |-> t, code |-> code,
     next |-> next, alone |-> alone]
Free == Call("idle", "OFFLINE", FALSE, "NONE", NoCode, "idle", FALSE)
\* A call about presence that goes on to n when the indexes are written.
Presence(pc, status, mapped, n, alone) == Call(pc, status, mapped, "NONE", NoCode, n, alone)
\* A call about the trip; n is where it goes when there is a code.
OnTrip(pc, code, n) == Call(pc, "OFFLINE", FALSE, "NONE", code, n, FALSE)
\* A call of the app that reads what it will show.
Reading(pc, status, t) == Call(pc, status, FALSE, t, NoCode, "idle", FALSE)

At(r, pc) == req[r].pc = pc
Become(r, call) == req' = [req EXCEPT ![r] = call]
Goto(r, pc) == Become(r, [req[r] EXCEPT !.pc = pc])
Finish(r) == Become(r, Free)
\* The app goes on with refreshJobs.
Refresh(r) == Become(r, Reading("jobs", "OFFLINE", "NONE"))

InPresence(r) == req[r].pc \in PresenceSteps
\* No request is served before the module's onModuleInit is through.
Booting(r) == req[r].next = "bootRead"
Serving == \A r \in Requests : ~Booting(r)

\* Slot r holds call and the presence calls in flight are not alone any more.
Crowd(r, call) ==
    req' = [q \in Requests |-> IF q = r THEN call ELSE [req[q] EXCEPT !.alone = FALSE]]

Limited == /\ disturbances < MaxDisturbances
           /\ disturbances' = disturbances + 1
           /\ UNCHANGED mix

Init ==
    /\ avail = "OFFLINE" /\ verification = "APPROVED" /\ located \in BOOLEAN
    /\ listed = {}
    /\ trip = "NONE" /\ otp = NoCode /\ shown = NoCode
    /\ view = [on |-> TRUE, avail |-> "OFFLINE", trip |-> "NONE"]
    /\ req = [r \in Requests |-> Free]
    /\ lagging = FALSE /\ disturbances = 0 /\ mix \in Mixes
===============================================================================
