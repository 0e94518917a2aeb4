--------------------------------- MODULE Shift ---------------------------------
(***************************************************************************)
(* One driver's shift: the server's presence and trip handlers, the two    *)
(* apps that call them, crashes, a restart, the admin and the expiry of    *)
(* the start OTP.                                                          *)
(***************************************************************************)
EXTENDS Presence, TripStart, DriverApp

\* A step of the handler fails, or its response is lost: what it has done stays.
\* A presence call that dies may leave the indexes half written.
Fail(r) ==
    /\ Limited
    /\ ~At(r, "idle") /\ ~Booting(r)
    /\ lagging' = (lagging \/ InPresence(r))
    /\ Finish(r)
    /\ UNCHANGED <<driver, listed, start, view>>

ContinuePresence(r) ==
    \/ SetWrite(r) \/ PingWrite(r)
    \/ DropOnline(r) \/ DropBusy(r) \/ List(r)
    \/ BootOnline(r) \/ BootBusy(r) \/ BootRead(r)

ContinueTrip(r) ==
    \/ \E c \in Codes : AcceptOtp(r, c) \/ OtpSet(r, c)
    \/ Accept(r) \/ Arrive(r) \/ ArriveCommit(r)
    \/ OtpCheck(r) \/ OtpEnsure(r) \/ Refuse(r) \/ OtpDelete(r) \/ LoadCommit(r)
    \/ StartTransit(r) \/ Complete(r) \/ CompleteCommit(r)
    \/ OtpShow(r)

ContinueApp(r) ==
    Users(r) \/ UsersShow(r) \/ Jobs(r) \/ JobsTrip(r) \/ JobsShow(r) \/ SetShow(r)

Continue(r) == ContinuePresence(r) \/ ContinueTrip(r) \/ ContinueApp(r)

Happens(event) == event \in mix

Begins(r) ==
    \/ Happens("SetAvailability") /\ \E s \in {"ONLINE", "OFFLINE"} : SetAvailability(r, s)
    \/ Happens("UpdateLocation") /\ UpdateLocation(r)
    \/ Happens("Poll") /\ Poll(r)
    \/ Happens("Login") /\ Login(r)
    \/ Happens("AcceptOffer") /\ AcceptOffer(r)
    \/ Happens("Press") /\ \E t \in ActiveTrip : Press(r, t)
    \/ Happens("CustomerPoll") /\ CustomerPoll(r)

Disturbs ==
    \/ Happens("Fail") /\ \E r \in Requests : Fail(r)
    \/ Happens("Restart") /\ \E r \in Requests : Restart(r)
    \/ Happens("Review") /\ \E d \in {"APPROVED", "REJECTED"} : Review(d)
    \/ Happens("Login") /\ Logout
    \/ Happens("OtpExpires") /\ OtpExpires

Next == Disturbs \/ \E r \in Requests : Begins(r) \/ Continue(r)

Spec == Init /\ [][Next]_vars

\* Handlers finish.  The apps' timers go on for as long as the app is open, and a driver
\* who has been told the code enters it; that the driver goes on with the trip otherwise,
\* or moves, is not assumed.
Fairness ==
    /\ \A r \in Requests : WF_vars(Continue(r))
    /\ SF_vars(Happens("Poll") /\ \E r \in Requests : Poll(r))
    /\ SF_vars(Happens("CustomerPoll") /\ \E r \in Requests : CustomerPoll(r))
    /\ SF_vars(Happens("Press") /\ \E r \in Requests : Press(r, "ARRIVED_PICKUP"))

FairSpec == Spec /\ Fairness

-------------------------------------------------------------------------------
TypeOK ==
    /\ avail \in AvailabilityStatus
    /\ verification \in {"APPROVED", "REJECTED"}
    /\ located \in BOOLEAN
    /\ listed \subseteq Indexes
    /\ trip \in TripStatus
    /\ otp \in Codes \cup {NoCode}
    /\ shown \in Codes \cup {NoCode}
    /\ view \in [on : BOOLEAN, avail : AvailabilityStatus, trip : TripStatus]
    /\ req \in [Requests -> Request]
    /\ lagging \in BOOLEAN
    /\ disturbances \in Nat

Listing == IF located THEN {avail} \cap Indexes ELSE {}

\* The geo indexes list an approved driver exactly under the stored availability
\* once a presence call has run to its end with no other presence call, acceptance,
\* completion, crash or decision of the admin about; and then until the next of them.
IndexFollowsAvailability ==
    verification = "APPROVED" /\ ~lagging /\ Calm
        => listed = Listing

\* Why it is so: what each step of a presence call knows as long as it is alone.
Mapped ==
    /\ ~located => listed = {}
    /\ \A r \in Requests : req[r].mapped => located
    /\ \A r \in Requests : req[r].pc \in SyncSteps => req[r].mapped
Alone ==
    \A r \in Requests :
        IF req[r].alone
        THEN InPresence(r) /\ \A q \in Requests \ {r} : ~InPresence(q)
        ELSE InPresence(r) => lagging
Boot ==
    \A r \in Requests :
        /\ req[r].pc \in {"bootOnline", "bootBusy", "bootRead"} => Booting(r)
        /\ Booting(r) => req[r].alone /\ \A q \in Requests \ {r} : At(q, "idle")
        /\ At(r, "bootBusy") => "ONLINE" \notin listed
        /\ At(r, "bootRead") => listed = {}
Synced ==
    \A r \in Requests : req[r].alone =>
        /\ req[r].pc \in SyncSteps => req[r].status = avail
        /\ At(r, "setWrite") => (req[r].mapped <=> located)
        /\ At(r, "dropBusy") => "ONLINE" \notin listed
        /\ At(r, "list") => listed = {}
Answers ==
    \A r \in Requests : At(r, "otpSet") => req[r].next \in {"arriveCommit", "refuse", "otpShow"}

IInv == TypeOK /\ Mapped /\ Alone /\ Boot /\ Synced /\ Answers /\ IndexFollowsAvailability

\* The position watcher reports only a driver who moves (ten metres at least) and lets
\* the app know where; a parked one stays where the indexes have it.
KeepsMoving == []<><<\E r \in Requests : UpdateLocation(r)>>_vars

\* Whatever has gone wrong between row and indexes, it is mended for a driver who keeps
\* moving with the app open: the driver ends up in no wrong index, and again and again
\* in the right one.
IndexRecovers ==
    KeepsMoving /\ <>[][FALSE]_avail /\ <>[](view.on /\ avail # "OFFLINE")
        => <>[](listed \subseteq {avail}) /\ []<>(listed = {avail})

\* The driver has tapped ONLINE or OFFLINE and the answer is not shown yet.
Tapped == \E r \in Requests : "setShow" \in {req[r].pc, req[r].next}

\* Once the driver leaves the switch alone, the app comes to show what the server
\* has, though responses may overtake each other and late ones are shown too.
ViewIsTrue ==
    /\ view.trip = (IF trip \in ActiveTrip THEN trip ELSE "NONE")
    /\ view.avail = (IF trip \in ActiveTrip THEN "BUSY" ELSE avail)
AppFollows ==
    <>[][FALSE]_<<avail, trip, view.on>> /\ <>[]~Tapped => <>[](view.on => ViewIsTrue)

\* A driver who has arrived can start loading, however often the code expired, was
\* drawn twice, or was used up by an attempt that failed.
StartIsPossible == trip = "ARRIVED_PICKUP" ~> trip # "ARRIVED_PICKUP" \/ ~view.on
===============================================================================
