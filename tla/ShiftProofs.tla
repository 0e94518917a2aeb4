------------------------------ MODULE ShiftProofs ------------------------------
(***************************************************************************)
(* Shift for any number of requests in flight: the types, and that the geo *)
(* indexes follow the stored availability.  The property is not inductive: *)
(* a call that ends knows what it has written only if nobody came between. *)
(* Synced says what a call knows at each of its steps while it is alone,   *)
(* Alone and Boot that nobody else can then write, Mapped that a sync has  *)
(* a location.  Most steps are not about presence at all: QuietStep proves *)
(* them together.                                                          *)
(***************************************************************************)
EXTENDS Shift, TLAPS

\* The events of the next-state relation, apart from the choice of the mix.
LEMMA Actions ==
    ASSUME [Next]_vars
    PROVE  \/ \E r \in Requests, s \in {"ONLINE", "OFFLINE"} : SetAvailability(r, s)
           \/ \E r \in Requests : UpdateLocation(r) \/ Poll(r) \/ Login(r)
           \/ \E r \in Requests : AcceptOffer(r) \/ CustomerPoll(r)
           \/ \E r \in Requests, t \in ActiveTrip : Press(r, t)
           \/ \E r \in Requests : ContinuePresence(r)
           \/ \E r \in Requests : ContinueTrip(r)
           \/ \E r \in Requests : ContinueApp(r)
           \/ \E r \in Requests : Fail(r) \/ Restart(r)
           \/ \E d \in {"APPROVED", "REJECTED"} : Review(d)
           \/ Logout \/ OtpExpires \/ UNCHANGED vars
  BY DEF Next, Begins, Disturbs, Continue

-------------------------------------------------------------------------------
(* Types. *)

\* Every call the actions make up is a request.
LEMMA CallType ==
    ASSUME NEW pc \in Steps, NEW status \in AvailabilityStatus, NEW mapped \in BOOLEAN,
           NEW t \in TripStatus, NEW code \in Codes \cup {NoCode}, NEW next \in Steps,
           NEW alone \in BOOLEAN
    PROVE  Call(pc, status, mapped, t, code, next, alone) \in Request
  BY DEF Call, Request

LEMMA CallTypes ==
    /\ Free \in Request
    /\ \A pc, n \in Steps, s \in AvailabilityStatus, m, a \in BOOLEAN :
          Presence(pc, s, m, n, a) \in Request
    /\ \A pc, n \in Steps, c \in Codes \cup {NoCode} : OnTrip(pc, c, n) \in Request
    /\ \A pc \in Steps, s \in AvailabilityStatus, t \in TripStatus : Reading(pc, s, t) \in Request
  <1>1. /\ "OFFLINE" \in AvailabilityStatus /\ "NONE" \in TripStatus
        /\ "idle" \in Steps /\ NoCode \in Codes \cup {NoCode}
        /\ FALSE \in BOOLEAN
    BY DEF AvailabilityStatus, TripStatus, Steps
  <1> QED  BY <1>1, CallType DEF Free, Presence, OnTrip, Reading

LEMMA GotoType ==
    ASSUME TypeOK, NEW r \in Requests, NEW pc \in Steps
    PROVE  [req[r] EXCEPT !.pc = pc] \in Request
  BY DEF TypeOK, Request

LEMMA BecomeType ==
    ASSUME TypeOK, NEW r \in Requests, NEW call \in Request, Become(r, call)
    PROVE  req' \in [Requests -> Request]
  BY DEF TypeOK, Become

LEMMA CrowdType ==
    ASSUME TypeOK, NEW r \in Requests, NEW call \in Request, Crowd(r, call)
    PROVE  req' \in [Requests -> Request]
  BY DEF TypeOK, Crowd, Request

LEMMA InitType == Init => TypeOK
  <1> SUFFICES ASSUME Init PROVE TypeOK
    OBVIOUS
  <1>1. req \in [Requests -> Request]
    BY CallTypes DEF Init
  <1>2. view \in [on : BOOLEAN, avail : AvailabilityStatus, trip : TripStatus]
    BY DEF Init, AvailabilityStatus, TripStatus
  <1>3. disturbances \in Nat /\ lagging \in BOOLEAN
    BY DEF Init
  <1> QED  BY <1>1, <1>2, <1>3 DEF Init, TypeOK, AvailabilityStatus, TripStatus, Indexes

\* What a step does to the type of the requests: it makes r call.
LEMMA CallStepType ==
    ASSUME TypeOK, NEW r \in Requests, NEW call \in Request,
           Become(r, call) \/ Crowd(r, call),
           avail' \in AvailabilityStatus, UNCHANGED verification, located' \in BOOLEAN,
           listed' \subseteq Indexes, trip' \in TripStatus,
           otp' \in Codes \cup {NoCode}, shown' \in Codes \cup {NoCode},
           view' \in [on : BOOLEAN, avail : AvailabilityStatus, trip : TripStatus],
           lagging' \in BOOLEAN, disturbances' = disturbances
    PROVE  TypeOK'
  <1>1. req' \in [Requests -> Request]
    BY BecomeType, CrowdType
  <1> QED  BY <1>1 DEF TypeOK

LEMMA TypePresence ==
    ASSUME TypeOK, NEW r \in Requests, ContinuePresence(r)
    PROVE  TypeOK'
  <1> USE DEF driver, start, bounds, history
  <1>0. /\ req[r] \in Request /\ req[r].status \in AvailabilityStatus
        /\ req[r].mapped \in BOOLEAN /\ req[r].alone \in BOOLEAN
    BY DEF TypeOK, Request
  <1>p. /\ {"dropOnline", "dropBusy", "list", "setShow", "idle", "bootBusy", "bootRead"} \subseteq Steps
        /\ TRUE \in BOOLEAN /\ FALSE \in BOOLEAN
    BY DEF Steps, PresenceSteps, SyncSteps
  <1>g. \A pc \in Steps : [req[r] EXCEPT !.pc = pc] \in Request
    BY GotoType
  <1>1. CASE SetWrite(r)
    <2> DEFINE c == IF req[r].mapped
                    THEN Presence("dropOnline", req[r].status, TRUE, "setShow", req[r].alone)
                    ELSE Presence("setShow", req[r].status, FALSE, "idle", FALSE)
    <2>1. c \in Request
      BY <1>0, <1>p, CallTypes
    <2>2. Become(r, c)
      BY <1>1 DEF SetWrite, SyncOr
    <2> HIDE DEF c
    <2> QED  BY <1>0, <1>1, <2>1, <2>2, CallStepType DEF SetWrite, TypeOK
  <1>2. CASE PingWrite(r)
    <2>1. avail \in AvailabilityStatus
      BY DEF TypeOK
    <2>2. Presence("dropOnline", avail, TRUE, "idle", req[r].alone) \in Request
      BY <1>0, <1>p, <2>1, CallTypes
    <2>3. Become(r, Presence("dropOnline", avail, TRUE, "idle", req[r].alone))
      BY <1>2 DEF PingWrite, SyncOr
    <2> QED  BY <1>2, <2>2, <2>3, CallStepType DEF PingWrite, TypeOK
  <1>3. CASE DropOnline(r)
    BY <1>3, <1>g, <1>p, CallStepType DEF DropOnline, Goto, TypeOK
  <1>4. CASE DropBusy(r)
    BY <1>4, <1>g, <1>p, CallStepType DEF DropBusy, Goto, TypeOK
  <1>5. CASE List(r)
    <2> DEFINE c == IF req[r].next = "setShow"
                    THEN Presence("setShow", req[r].status, FALSE, "idle", FALSE)
                    ELSE Free
    <2>1. c \in Request
      BY <1>0, <1>p, CallTypes
    <2>2. Become(r, c)
      BY <1>5 DEF List, Finish
    <2> HIDE DEF c
    <2> QED  BY <1>0, <1>5, <2>1, <2>2, CallStepType DEF List, TypeOK
  <1>6. CASE BootOnline(r)
    BY <1>6, <1>g, <1>p, CallStepType DEF BootOnline, Goto, TypeOK
  <1>7. CASE BootBusy(r)
    BY <1>7, <1>g, <1>p, CallStepType DEF BootBusy, Goto, TypeOK
  <1>8. CASE BootRead(r)
    <2> DEFINE listing == avail \in Indexes /\ located /\ verification = "APPROVED"
               c == IF listing THEN Presence("dropOnline", avail, TRUE, "bootRead", TRUE) ELSE Free
    <2>1. c \in Request
      BY <1>p, CallTypes DEF TypeOK
    <2>2. Become(r, c) /\ lagging' \in BOOLEAN
      BY <1>8 DEF BootRead, Finish, TypeOK
    <2> HIDE DEF c
    <2> QED  BY <1>8, <2>1, <2>2, CallStepType DEF BootRead, TypeOK
  <1> QED
    BY <1>1, <1>2, <1>3, <1>4, <1>5, <1>6, <1>7, <1>8 DEF ContinuePresence

\* What the actions ask of a call: its type and, when it is no call about presence,
\* that it does not pretend to be one.
Quiet(call) ==
    /\ call \in Request /\ call.pc \notin PresenceSteps
    /\ ~call.alone /\ call.next # "bootRead"
    /\ call.mapped => located
    /\ call.pc = "otpSet" => call.next \in {"arriveCommit", "refuse", "otpShow"}

\* A step about anything but presence: slot r goes from one quiet call to another.
QuietStep(r) ==
    /\ ~InPresence(r)
    /\ At(r, "idle") => Serving
    /\ \E call \in Request : Quiet(call) /\ Become(r, call)
    /\ UNCHANGED <<driver, listed, history>>
    /\ trip' \in TripStatus
    /\ otp' \in Codes \cup {NoCode} /\ shown' \in Codes \cup {NoCode}
    /\ view' \in [on : BOOLEAN, avail : AvailabilityStatus, trip : TripStatus]

LEMMA QuietCalls ==
    /\ Quiet(Free)
    /\ \A pc, n \in Steps \ PresenceSteps, c \in Codes \cup {NoCode} :
          (pc = "otpSet" => n \in {"arriveCommit", "refuse", "otpShow"}) => Quiet(OnTrip(pc, c, n))
    /\ \A pc \in Steps \ PresenceSteps, s \in AvailabilityStatus, t \in TripStatus :
          pc # "otpSet" => Quiet(Reading(pc, s, t))
  <1>1. /\ "idle" \notin PresenceSteps /\ "bootRead" \in PresenceSteps
        /\ "idle" \in Steps /\ "idle" # "bootRead"
    BY DEF PresenceSteps, SyncSteps, Steps
  <1>2. Quiet(Free)
    BY <1>1, CallTypes DEF Quiet, Free, Call
  <1>3. ASSUME NEW pc \in Steps \ PresenceSteps, NEW n \in Steps \ PresenceSteps,
               NEW c \in Codes \cup {NoCode},
               pc = "otpSet" => n \in {"arriveCommit", "refuse", "otpShow"}
        PROVE Quiet(OnTrip(pc, c, n))
    BY <1>1, <1>3, CallTypes DEF Quiet, OnTrip, Call
  <1>4. ASSUME NEW pc \in Steps \ PresenceSteps, NEW s \in AvailabilityStatus,
               NEW t \in TripStatus, pc # "otpSet"
        PROVE Quiet(Reading(pc, s, t))
    BY <1>1, <1>4, CallTypes DEF Quiet, Reading, Call
  <1> QED  BY <1>2, <1>3, <1>4

\* A call that is in no presence step is quiet, and stays so as it goes on.
LEMMA QuietGoto ==
    ASSUME IInv, NEW r \in Requests, ~InPresence(r),
           NEW pc \in Steps \ PresenceSteps, pc # "otpSet"
    PROVE  Quiet([req[r] EXCEPT !.pc = pc])
  <1>1. [req[r] EXCEPT !.pc = pc] \in Request
    BY GotoType DEF IInv
  <1>2. req[r] \in Request
    BY DEF IInv, TypeOK
  <1>3. ~req[r].alone
    BY DEF IInv, Alone
  <1>4. req[r].next # "bootRead"
    BY <1>3 DEF IInv, Boot, Booting
  <1>5. req[r].mapped => located
    BY DEF IInv, Mapped
  <1> QED  BY <1>1, <1>2, <1>3, <1>4, <1>5 DEF Quiet, Request

LEMMA QuietType ==
    ASSUME TypeOK, NEW r \in Requests, QuietStep(r)
    PROVE  TypeOK'
  <1>1. PICK call \in Request : Become(r, call)
    BY DEF QuietStep
  <1>2. /\ UNCHANGED <<avail, verification, located, listed, lagging, disturbances>>
    BY DEF QuietStep, driver, history, bounds
  <1> QED  BY <1>1, <1>2, CallStepType DEF QuietStep, TypeOK

\* The steps of a trip's handlers, but for the last one of complete, are quiet.
LEMMA QuietTrip ==
    ASSUME IInv, NEW r \in Requests, ContinueTrip(r)
    PROVE  QuietStep(r) \/ CompleteCommit(r)
  <1> USE DEF driver, start, QuietStep, At, InPresence
  <1>t. TypeOK /\ req[r] \in Request
    BY DEF IInv, TypeOK
  <1>p. /\ {"idle", "jobs", "acceptOtp", "enRoute", "arrive", "otpSet", "arriveCommit", "otpCheck",
            "otpDelete", "loadCommit", "otpEnsure", "refuse", "otpShow", "transit", "complete",
            "completeCommit"} \subseteq Steps \ PresenceSteps
        /\ {"DRIVER_EN_ROUTE", "ARRIVED_PICKUP", "LOADING", "IN_TRANSIT"} \subseteq TripStatus
        /\ "OFFLINE" \in AvailabilityStatus /\ "NONE" \in TripStatus
    BY DEF Steps, PresenceSteps, SyncSteps, TripStatus, ActiveTrip, AvailabilityStatus
  <1>r. Quiet(Reading("jobs", "OFFLINE", "NONE")) /\ Quiet(Free)
    BY <1>p, QuietCalls
  <1>g. ASSUME ~InPresence(r), NEW pc \in Steps \ PresenceSteps, pc # "otpSet"
        PROVE Quiet([req[r] EXCEPT !.pc = pc])
    BY <1>g, QuietGoto
  <1>a. ASSUME NEW pc \in Steps \ PresenceSteps, NEW status \in TripStatus,
               Advance(r, pc, status), pc # "idle"
        PROVE QuietStep(r)
    BY <1>a, <1>r, <1>t DEF Advance, Refresh, Quiet, TypeOK
  <1>e. ASSUME NEW n \in {"arriveCommit", "refuse", "otpShow"}, Ensure(r, n)
        PROVE \E call \in Request : Quiet(call) /\ Become(r, call)
    <2>1. CASE otp # NoCode
      <3>1. Quiet(OnTrip(n, otp, "idle"))
        BY <1>p, <1>t, QuietCalls DEF TypeOK
      <3> QED  BY <1>e, <2>1, <3>1 DEF Ensure, Quiet
    <2>2. CASE otp = NoCode
      <3>1. Quiet(OnTrip("otpSet", NoCode, n))
        BY <1>p, QuietCalls
      <3> QED  BY <1>e, <2>2, <3>1 DEF Ensure, Quiet
    <2> QED  BY <2>1, <2>2
  <1>1. ASSUME NEW c \in Codes, AcceptOtp(r, c) PROVE QuietStep(r)
    BY <1>1, <1>p, <1>r, <1>t DEF AcceptOtp, Refresh, Quiet, TypeOK
  <1>2. ASSUME NEW c \in Codes, OtpSet(r, c) PROVE QuietStep(r)
    <2>1. req[r].next \in {"arriveCommit", "refuse", "otpShow"}
      BY <1>2 DEF OtpSet, IInv, Answers
    <2>2. Quiet(OnTrip(req[r].next, c, "idle"))
      BY <1>p, <2>1, QuietCalls
    <2> QED  BY <1>2, <1>p, <2>2, <1>t DEF OtpSet, Quiet, TypeOK
  <1>3. CASE Accept(r)
    BY <1>3, <1>a, <1>p DEF Accept
  <1>4. CASE Arrive(r)
    BY <1>4, <1>e, <1>p, <1>t DEF Arrive, TypeOK
  <1>5. CASE ArriveCommit(r)
    BY <1>5, <1>a, <1>p DEF ArriveCommit
  <1>6. CASE OtpCheck(r)
    <2>1. \E pc \in {"otpEnsure", "otpDelete"} : Goto(r, pc) \/ Finish(r)
      BY <1>6 DEF OtpCheck
    <2>2. \E call \in Request : Quiet(call) /\ Become(r, call)
      BY <2>1, <1>6, <1>p, <1>g, <1>r DEF OtpCheck, Goto, Finish, Quiet
    <2> QED  BY <1>6, <1>p, <2>2, <1>t DEF OtpCheck, TypeOK
  <1>7. CASE OtpEnsure(r)
    BY <1>7, <1>e, <1>p, <1>t DEF OtpEnsure, TypeOK
  <1>8. CASE Refuse(r)
    BY <1>8, <1>p, <1>r, <1>t DEF Refuse, Finish, Quiet, TypeOK
  <1>9. CASE OtpDelete(r)
    <2>1. Quiet([req[r] EXCEPT !.pc = "loadCommit"])
      BY <1>9, <1>p, <1>g DEF OtpDelete
    <2> QED  BY <1>9, <1>p, <2>1, <1>t DEF OtpDelete, Goto, Quiet, TypeOK
  <1>10. CASE LoadCommit(r)
    BY <1>10, <1>a, <1>p DEF LoadCommit
  <1>11. CASE StartTransit(r)
    BY <1>11, <1>a, <1>p DEF StartTransit
  <1>12. CASE Complete(r)
    <2>1. Goto(r, "completeCommit") \/ Finish(r)
      BY <1>12 DEF Complete
    <2>2. \E call \in Request : Quiet(call) /\ Become(r, call)
      BY <2>1, <1>12, <1>p, <1>g, <1>r DEF Complete, Goto, Finish, Quiet
    <2> QED  BY <1>12, <1>p, <2>2, <1>t DEF Complete, TypeOK
  <1>13. CASE OtpShow(r)
    BY <1>13, <1>p, <1>r, <1>t DEF OtpShow, Finish, Quiet, TypeOK, Request
  <1> QED
    BY <1>1, <1>2, <1>3, <1>4, <1>5, <1>6, <1>7, <1>8, <1>9, <1>10, <1>11, <1>12, <1>13
       DEF ContinueTrip

\* So are those of the app.
LEMMA QuietApp ==
    ASSUME IInv, NEW r \in Requests, ContinueApp(r)
    PROVE  QuietStep(r)
  <1> USE DEF server, driver, start, QuietStep, At, InPresence
  <1>t. TypeOK /\ req[r] \in Request
    BY DEF IInv, TypeOK
  <1>p. /\ {"idle", "setShow", "users", "usersShow", "jobs", "jobsTrip", "jobsShow"}
             \subseteq Steps \ PresenceSteps
        /\ "OFFLINE" \in AvailabilityStatus /\ "BUSY" \in AvailabilityStatus
        /\ "NONE" \in TripStatus /\ avail \in AvailabilityStatus /\ trip \in TripStatus
        /\ req[r].status \in AvailabilityStatus /\ req[r].trip \in TripStatus
    BY <1>t DEF Steps, PresenceSteps, SyncSteps, TripStatus, AvailabilityStatus, TypeOK, Request
  <1>r. Quiet(Reading("jobs", "OFFLINE", "NONE")) /\ Quiet(Free)
    BY <1>p, QuietCalls
  <1>v. ASSUME NEW a \in AvailabilityStatus, NEW t \in TripStatus
        PROVE /\ [view EXCEPT !.avail = a]
                   \in [on : BOOLEAN, avail : AvailabilityStatus, trip : TripStatus]
              /\ [view EXCEPT !.avail = a, !.trip = t]
                   \in [on : BOOLEAN, avail : AvailabilityStatus, trip : TripStatus]
    BY <1>t DEF TypeOK
  <1>1. CASE Users(r)
    <2>1. Quiet(Reading("usersShow", avail, "NONE"))
      BY <1>p, QuietCalls
    <2> QED  BY <1>1, <1>p, <1>t, <2>1 DEF Users, Quiet, TypeOK
  <1>2. CASE UsersShow(r)
    BY <1>2, <1>p, <1>r, <1>t, <1>v DEF UsersShow, Refresh, Quiet, TypeOK
  <1>3. CASE Jobs(r)
    <2>1. Quiet(Reading("jobsTrip", avail, "NONE"))
      BY <1>p, QuietCalls
    <2> QED  BY <1>3, <1>p, <1>t, <2>1 DEF Jobs, Quiet, TypeOK
  <1>4. CASE JobsTrip(r)
    <2> DEFINE seen == IF trip \in ActiveTrip THEN trip ELSE "NONE"
    <2>1. seen \in TripStatus
      BY <1>p
    <2> HIDE DEF seen
    <2>2. Quiet(Reading("jobsShow", req[r].status, seen))
      BY <1>p, <2>1, QuietCalls
    <2>3. Become(r, Reading("jobsShow", req[r].status, seen))
      BY <1>4 DEF JobsTrip, seen
    <2> QED  BY <1>4, <1>p, <1>t, <2>2, <2>3 DEF JobsTrip, Quiet, TypeOK
  <1>5. CASE JobsShow(r)
    <2>1. ShownStatus(req[r].status, req[r].trip) \in AvailabilityStatus
      BY <1>p DEF ShownStatus
    <2> QED  BY <1>5, <1>p, <1>r, <1>t, <1>v, <2>1 DEF JobsShow, Finish, Quiet, TypeOK
  <1>6. CASE SetShow(r)
    BY <1>6, <1>p, <1>r, <1>t, <1>v DEF SetShow, Finish, Quiet, TypeOK
  <1> QED
    BY <1>1, <1>2, <1>3, <1>4, <1>5, <1>6 DEF ContinueApp

\* And the calls that begin with no write.
LEMMA QuietBegins ==
    ASSUME IInv, NEW r \in Requests, NEW t \in ActiveTrip,
           Poll(r) \/ Login(r) \/ CustomerPoll(r) \/ Press(r, t)
    PROVE  QuietStep(r)
  <1> USE DEF server, driver, start, QuietStep, At, InPresence
  <1>t. TypeOK
    BY DEF IInv
  <1>p. /\ {"idle", "users", "jobs", "otpShow", "otpSet"} \subseteq Steps \ PresenceSteps
        /\ "OFFLINE" \in AvailabilityStatus /\ "NONE" \in TripStatus
    BY DEF Steps, PresenceSteps, SyncSteps, TripStatus, AvailabilityStatus
  <1>1. CASE Poll(r)
    <2>1. Quiet(Reading("jobs", "OFFLINE", "NONE"))
      BY <1>p, QuietCalls
    <2> QED  BY <1>1, <1>p, <1>t, <2>1 DEF Poll, Refresh, Quiet, TypeOK
  <1>2. CASE Login(r)
    <2>1. Quiet(Reading("users", "OFFLINE", "NONE"))
      BY <1>p, QuietCalls
    <2> QED  BY <1>2, <1>p, <1>t, <2>1 DEF Login, Quiet, TypeOK
  <1>3. CASE CustomerPoll(r)
    <2>1. CASE otp # NoCode
      <3>1. Quiet(OnTrip("otpShow", otp, "idle"))
        BY <1>p, <1>t, QuietCalls DEF TypeOK
      <3> QED  BY <1>3, <1>p, <1>t, <2>1, <3>1 DEF CustomerPoll, Ensure, Quiet, TypeOK
    <2>2. CASE otp = NoCode
      <3>1. Quiet(OnTrip("otpSet", NoCode, "otpShow"))
        BY <1>p, QuietCalls
      <3> QED  BY <1>3, <1>p, <1>t, <2>2, <3>1 DEF CustomerPoll, Ensure, Quiet, TypeOK
    <2> QED  BY <2>1, <2>2
  <1>4. CASE Press(r, t)
    <2>1. ButtonOf[t] \in (Steps \ PresenceSteps) \ {"otpSet"}
      BY DEF ButtonOf, ActiveTrip, Steps, PresenceSteps, SyncSteps
    <2>2. Quiet(OnTrip(ButtonOf[t], shown, "idle"))
      BY <1>p, <1>t, <2>1, QuietCalls DEF TypeOK
    <2> QED  BY <1>4, <1>p, <1>t, <2>2 DEF Press, Quiet, TypeOK
  <1> QED  BY <1>1, <1>2, <1>3, <1>4

-------------------------------------------------------------------------------
(* The invariant. *)

LEMMA InitInv == Init => IInv
  <1> SUFFICES ASSUME Init PROVE IInv
    OBVIOUS
  <1>1. TypeOK
    BY InitType
  <1>2. \A r \in Requests : req[r] = Free /\ ~InPresence(r) /\ ~Booting(r)
    BY DEF Init, Free, Call, InPresence, Booting, PresenceSteps, SyncSteps
  <1>3. Mapped /\ Alone /\ Boot /\ Synced /\ Answers
    BY <1>2 DEF Init, Mapped, Alone, Boot, Synced, Answers, Free, Call, At, InPresence,
                Booting, SyncSteps
  <1>4. IndexFollowsAvailability
    BY DEF Init, IndexFollowsAvailability, Listing, Indexes
  <1> QED  BY <1>1, <1>3, <1>4 DEF IInv

\* What slot q holds when r has become call.
LEMMA Slots ==
    ASSUME TypeOK, NEW r \in Requests, NEW call, Become(r, call)
    PROVE  \A q \in Requests : req'[q] = IF q = r THEN call ELSE req[q]
  BY DEF TypeOK, Become

LEMMA CrowdSlots ==
    ASSUME TypeOK, NEW r \in Requests, NEW call, Crowd(r, call)
    PROVE  /\ req'[r] = call
           /\ \A q \in Requests : q # r =>
                 /\ req'[q].pc = req[q].pc /\ req'[q].next = req[q].next
                 /\ req'[q].mapped = req[q].mapped /\ ~req'[q].alone
  <1>1. req'[r] = call
    BY DEF Crowd
  <1>2. ASSUME NEW q \in Requests, q # r
        PROVE /\ req'[q].pc = req[q].pc /\ req'[q].next = req[q].next
              /\ req'[q].mapped = req[q].mapped /\ ~req'[q].alone
    <2>1. req'[q] = [req[q] EXCEPT !.alone = FALSE]
      BY <1>2 DEF Crowd
    <2>2. req[q] \in Request
      BY DEF TypeOK
    <2> QED  BY <2>1, <2>2 DEF Request
  <1> QED  BY <1>1, <1>2

LEMMA QuietKeeps ==
    ASSUME IInv, NEW r \in Requests, QuietStep(r)
    PROVE  IInv'
  <1> USE DEF InPresence, At
  <1>t. TypeOK /\ TypeOK'
    BY QuietType DEF IInv
  <1>c. PICK call \in Request : Quiet(call) /\ Become(r, call)
    BY DEF QuietStep
  <1>q. \A q \in Requests : req'[q] = IF q = r THEN call ELSE req[q]
    BY <1>t, <1>c, Slots
  <1>u. /\ UNCHANGED <<avail, verification, located, listed, lagging>>
        /\ ~InPresence(r) /\ (At(r, "idle") => Serving)
    BY DEF QuietStep, driver, history
  <1>k. call.pc \notin PresenceSteps /\ ~call.alone /\ call.next # "bootRead"
        /\ (call.mapped => located)
    BY <1>c DEF Quiet
  <1>1. Mapped'
    BY <1>q, <1>u, <1>k DEF IInv, Mapped, PresenceSteps
  <1>2. Alone'
    BY <1>q, <1>u, <1>k DEF IInv, Alone
  <1>3. Boot'
    <2>1. call.pc \notin {"bootOnline", "bootBusy", "bootRead"}
      BY <1>k DEF PresenceSteps
    <2>2. ASSUME NEW q \in Requests, Booting(q), q # r PROVE FALSE
      BY <1>u, <2>2 DEF IInv, Boot, Serving
    <2> QED  BY <1>q, <1>u, <1>k, <2>1, <2>2 DEF IInv, Boot, Booting
  <1>4. Synced'
    BY <1>q, <1>u, <1>k DEF IInv, Synced
  <1>5. Answers'
    BY <1>c, <1>q DEF IInv, Answers, Quiet
  <1>6. IndexFollowsAvailability'
    <2>1. Calm' => Calm
      BY <1>q, <1>u DEF Calm
    <2> QED  BY <1>u, <2>1 DEF IInv, IndexFollowsAvailability, Listing
  <1> QED  BY <1>t, <1>1, <1>2, <1>3, <1>4, <1>5, <1>6 DEF IInv

\* setAvailability or updateLocation begins.
LEMMA BeginKeeps ==
    ASSUME IInv, NEW r \in Requests, NEW pc \in {"setWrite", "pingWrite"},
           NEW status \in AvailabilityStatus, NEW mapped \in BOOLEAN,
           NEW next \in {"setShow", "idle"}, Begin(r, pc, status, mapped, next),
           mapped => located, pc = "setWrite" => mapped = located,
           UNCHANGED <<driver, listed, start, view, bounds>>
    PROVE  IInv'
  <1> USE DEF InPresence, At
  <1> DEFINE call == Presence(pc, status, mapped, next, Calm)
  <1>t. TypeOK /\ Calm \in BOOLEAN
    BY DEF IInv, Calm
  <1>k. /\ call \in Request
        /\ call.pc = pc /\ call.mapped = mapped /\ call.next = next /\ call.alone = Calm
        /\ pc \in PresenceSteps /\ pc \notin SyncSteps
    <2>1. pc \in Steps /\ next \in Steps
      BY DEF Steps, PresenceSteps, SyncSteps
    <2>2. call \in Request
      BY <1>t, <2>1, CallTypes
    <2> QED  BY <2>2 DEF Presence, Call, PresenceSteps, SyncSteps
  <1>b. Crowd(r, call) /\ At(r, "idle") /\ Serving /\ lagging' = (lagging \/ ~Calm)
    BY DEF Begin
  <1> HIDE DEF call
  <1>f. \A q \in Requests : q # r =>
           /\ req'[q].pc = req[q].pc /\ req'[q].next = req[q].next
           /\ req'[q].mapped = req[q].mapped /\ ~req'[q].alone
    BY <1>b, <1>t, CrowdSlots
  <1>r. req'[r] = call
    BY <1>b, <1>t, CrowdSlots
  <1>u. UNCHANGED <<avail, verification, located, listed>>
    BY DEF driver
  <1>s. \A q \in Requests : ~Booting(q)
    BY <1>b DEF Serving
  <1>0. TypeOK'
    BY <1>b, <1>k, <1>t, CallStepType DEF TypeOK, driver, start, bounds
  <1>1. Mapped'
    BY <1>f, <1>r, <1>u, <1>k DEF IInv, Mapped
  <1>2. Alone'
    <2>1. ASSUME NEW q \in Requests, q # r PROVE ~req'[q].alone /\ (InPresence(q)' => lagging')
      BY <1>b, <1>f, <2>1 DEF Calm
    <2>2. IF req'[r].alone THEN InPresence(r)' /\ \A q \in Requests \ {r} : ~InPresence(q)'
                           ELSE InPresence(r)' => lagging'
      BY <1>b, <1>f, <1>r, <1>k DEF Calm
    <2> QED  BY <2>1, <2>2 DEF Alone
  <1>3. Boot'
    BY <1>f, <1>r, <1>k, <1>s DEF IInv, Boot, Booting
  <1>4. Synced'
    BY <1>f, <1>r, <1>u, <1>k DEF Synced, SyncSteps
  <1>5. Answers'
    BY <1>f, <1>r, <1>k DEF IInv, Answers
  <1>6. IndexFollowsAvailability'
    <2>1. ~Calm'
      BY <1>r, <1>k DEF Calm
    <2> QED  BY <2>1 DEF IndexFollowsAvailability
  <1> QED  BY <1>0, <1>1, <1>2, <1>3, <1>4, <1>5, <1>6 DEF IInv

\* The availability is written without the indexes, by a transaction or by the admin:
\* whoever was alone is so no longer.
LEMMA CrowdedKeeps ==
    ASSUME IInv, TypeOK', NEW r \in Requests, NEW call, Quiet(call), Crowd(r, call),
           ~InPresence(r), Serving, lagging' = TRUE,
           UNCHANGED <<located, listed>>
    PROVE  IInv'
  <1> USE DEF InPresence, At
  <1>t. TypeOK
    BY DEF IInv
  <1>f. \A q \in Requests : q # r =>
           /\ req'[q].pc = req[q].pc /\ req'[q].next = req[q].next
           /\ req'[q].mapped = req[q].mapped /\ ~req'[q].alone
    BY <1>t, CrowdSlots
  <1>k. /\ req'[r] = call /\ call.pc \notin PresenceSteps /\ ~call.alone
        /\ call.next # "bootRead" /\ (call.mapped => located)
        /\ (call.pc = "otpSet" => call.next \in {"arriveCommit", "refuse", "otpShow"})
    BY <1>t, CrowdSlots DEF Quiet
  <1>s. \A q \in Requests : ~Booting(q)
    BY DEF Serving
  <1>1. Mapped'
    BY <1>f, <1>k DEF IInv, Mapped, PresenceSteps
  <1>2. Alone'
    BY <1>f, <1>k DEF Alone
  <1>3. Boot'
    BY <1>f, <1>k, <1>s DEF IInv, Boot, Booting, PresenceSteps
  <1>4. Synced'
    BY <1>f, <1>k DEF Synced
  <1>5. Answers'
    BY <1>f, <1>k DEF IInv, Answers
  <1>6. IndexFollowsAvailability'
    BY DEF IndexFollowsAvailability
  <1> QED  BY <1>1, <1>2, <1>3, <1>4, <1>5, <1>6 DEF IInv

\* A step of a presence call: what it must see to for the invariant.
LEMMA PresenceStep ==
    ASSUME IInv, TypeOK', NEW r \in Requests, InPresence(r), NEW call, Become(r, call),
           UNCHANGED verification, located => located',
           ~located' => listed' = {},
           call.mapped => located', call.pc \in SyncSteps => call.mapped,
           call.alone => req[r].alone /\ call.pc \in PresenceSteps,
           ~call.alone /\ call.pc \in PresenceSteps => lagging',
           lagging' = lagging \/ req[r].alone,
           call.pc \in {"bootOnline", "bootBusy", "bootRead"} => call.next = "bootRead",
           call.next = "bootRead" => call.alone /\ Booting(r),
           call.pc = "bootBusy" => "ONLINE" \notin listed',
           call.pc = "bootRead" => listed' = {},
           call.alone =>
              /\ call.pc \in SyncSteps => call.status = avail'
              /\ call.pc = "setWrite" => (call.mapped <=> located')
              /\ call.pc = "dropBusy" => "ONLINE" \notin listed'
              /\ call.pc = "list" => listed' = {},
           call.pc # "otpSet",
           verification = "APPROVED" /\ ~lagging' /\ call.pc \notin PresenceSteps
              => listed' = Listing'
    PROVE  IInv'
  <1> USE DEF InPresence, At
  <1>t. TypeOK
    BY DEF IInv
  <1>q. \A q \in Requests : req'[q] = IF q = r THEN call ELSE req[q]
    BY <1>t, Slots
  <1>i. "idle" \notin PresenceSteps
    BY DEF PresenceSteps, SyncSteps
  <1>1. Mapped'
    BY <1>q DEF IInv, Mapped
  <1>2. Alone'
    <2>1. ASSUME NEW q \in Requests, q # r
          PROVE /\ ~req'[q].alone
                /\ InPresence(q)' => lagging'
                /\ req[r].alone => ~InPresence(q)'
      <3>1. ~req[q].alone
        BY <2>1 DEF IInv, Alone
      <3>2. req[r].alone => ~InPresence(q)
        BY <2>1 DEF IInv, Alone
      <3>3. InPresence(q) => lagging
        BY <3>1 DEF IInv, Alone
      <3> QED  BY <1>q, <2>1, <3>1, <3>2, <3>3
    <2> QED  BY <1>q, <2>1 DEF Alone
  <1>3. Boot'
    <2>1. ASSUME NEW q \in Requests, q # r PROVE ~Booting(q)
      BY <1>i, <2>1 DEF IInv, Boot
    <2>2. Booting(r) => \A q \in Requests \ {r} : req[q].pc = "idle"
      BY DEF IInv, Boot
    <2>3. ASSUME NEW q \in Requests, q # r
          PROVE req[q].pc \notin {"bootOnline", "bootBusy", "bootRead"}
      BY <2>1, <2>3 DEF IInv, Boot
    <2> QED  BY <1>q, <2>1, <2>2, <2>3 DEF Boot, Booting
  <1>4. Synced'
    <2>1. ASSUME NEW q \in Requests, q # r PROVE ~req[q].alone
      BY <2>1 DEF IInv, Alone
    <2> QED  BY <1>q, <2>1 DEF Synced
  <1>5. Answers'
    BY <1>q DEF IInv, Answers
  <1>6. IndexFollowsAvailability'
    BY <1>q DEF IndexFollowsAvailability, Calm
  <1> QED  BY <1>1, <1>2, <1>3, <1>4, <1>5, <1>6 DEF IInv

LEMMA PresenceKeeps ==
    ASSUME IInv, NEW r \in Requests, ContinuePresence(r)
    PROVE  IInv'
  <1> USE DEF driver, history, bounds, At
  <1>t. TypeOK /\ TypeOK' /\ req[r] \in Request
    BY TypePresence DEF IInv, TypeOK
  <1>i. /\ Mapped /\ Boot
        /\ req[r].alone => InPresence(r)
        /\ InPresence(r) /\ ~req[r].alone => lagging
        /\ Booting(r) => req[r].alone
        /\ req[r].next = "bootRead" => Booting(r)
        /\ req[r].mapped => located
        /\ ~located => listed = {}
    BY DEF IInv, Alone, Mapped, Boot, Booting
  <1>s. req[r].alone =>
           /\ req[r].pc \in SyncSteps => req[r].status = avail
           /\ req[r].pc = "setWrite" => (req[r].mapped <=> located)
           /\ req[r].pc = "dropBusy" => "ONLINE" \notin listed
           /\ req[r].pc = "list" => listed = {}
    BY DEF IInv, Synced
  <1>p. /\ SyncSteps \subseteq PresenceSteps
        /\ {"setShow", "idle"} \cap PresenceSteps = {}
        /\ {"setWrite", "pingWrite", "bootOnline", "bootBusy", "bootRead"} \cap SyncSteps = {}
        /\ {"setWrite", "pingWrite", "bootOnline", "bootBusy", "bootRead"} \subseteq PresenceSteps
        /\ SyncSteps = {"dropOnline", "dropBusy", "list"}
    BY DEF SyncSteps, PresenceSteps
  <1>g. ASSUME NEW pc \in Steps
        PROVE  LET c == [req[r] EXCEPT !.pc = pc] IN
               /\ c.pc = pc /\ c.status = req[r].status /\ c.mapped = req[r].mapped
               /\ c.next = req[r].next /\ c.alone = req[r].alone
    BY <1>t DEF Request
  <1>1. CASE SetWrite(r)
    <2>p. InPresence(r)
      BY <1>1, <1>p DEF SetWrite, InPresence
    <2>1. CASE req[r].mapped
      <3> DEFINE c == Presence("dropOnline", req[r].status, TRUE, "setShow", req[r].alone)
      <3>1. Become(r, c)
        BY <1>1, <2>1 DEF SetWrite, SyncOr
      <3>2. /\ c.pc = "dropOnline" /\ c.status = req[r].status /\ c.mapped = TRUE
            /\ c.next = "setShow" /\ c.alone = req[r].alone
        BY DEF Presence, Call
      <3> HIDE DEF c
      <3> QED  BY <1>1, <1>t, <1>i, <1>p, <2>p, <2>1, <3>1, <3>2, PresenceStep DEF SetWrite
    <2>2. CASE ~req[r].mapped
      <3> DEFINE c == Presence("setShow", req[r].status, FALSE, "idle", FALSE)
      <3>1. Become(r, c)
        BY <1>1, <2>2 DEF SetWrite, SyncOr
      <3>2. /\ c.pc = "setShow" /\ c.mapped = FALSE /\ c.next = "idle" /\ c.alone = FALSE
        BY DEF Presence, Call
      <3>3. ~lagging' => listed' = Listing'
        BY <1>1, <1>i, <1>s, <2>p, <2>2 DEF SetWrite, Listing
      <3> HIDE DEF c
      <3> QED  BY <1>1, <1>t, <1>i, <1>p, <2>p, <3>1, <3>2, <3>3, PresenceStep DEF SetWrite
    <2> QED  BY <2>1, <2>2
  <1>2. CASE PingWrite(r)
    <2>p. InPresence(r)
      BY <1>2, <1>p DEF PingWrite, InPresence
    <2> DEFINE c == Presence("dropOnline", avail, TRUE, "idle", req[r].alone)
    <2>1. Become(r, c)
      BY <1>2 DEF PingWrite, SyncOr
    <2>2. /\ c.pc = "dropOnline" /\ c.status = avail /\ c.mapped = TRUE
          /\ c.next = "idle" /\ c.alone = req[r].alone
      BY DEF Presence, Call
    <2> HIDE DEF c
    <2> QED  BY <1>2, <1>t, <1>i, <1>p, <2>p, <2>1, <2>2, PresenceStep DEF PingWrite
  <1>3. CASE DropOnline(r)
    <2>p. InPresence(r) /\ req[r].pc \in SyncSteps /\ req[r].mapped
      BY <1>3, <1>p, <1>i DEF DropOnline, InPresence, Mapped
    <2> DEFINE c == [req[r] EXCEPT !.pc = "dropBusy"]
    <2>1. Become(r, c)
      BY <1>3 DEF DropOnline, Goto
    <2>2. /\ c.pc = "dropBusy" /\ c.status = req[r].status /\ c.mapped = req[r].mapped
          /\ c.next = req[r].next /\ c.alone = req[r].alone
      BY <1>g DEF Steps, PresenceSteps, SyncSteps
    <2> HIDE DEF c
    <2> QED  BY <1>3, <1>t, <1>i, <1>s, <1>p, <2>p, <2>1, <2>2, PresenceStep DEF DropOnline
  <1>4. CASE DropBusy(r)
    <2>p. InPresence(r) /\ req[r].pc \in SyncSteps /\ req[r].mapped
      BY <1>4, <1>p, <1>i DEF DropBusy, InPresence, Mapped
    <2> DEFINE c == [req[r] EXCEPT !.pc = "list"]
    <2>1. Become(r, c)
      BY <1>4 DEF DropBusy, Goto
    <2>2. /\ c.pc = "list" /\ c.status = req[r].status /\ c.mapped = req[r].mapped
          /\ c.next = req[r].next /\ c.alone = req[r].alone
      BY <1>g DEF Steps, PresenceSteps, SyncSteps
    <2>3. req[r].alone => listed' = {}
      BY <1>4, <1>s, <1>t DEF DropBusy, TypeOK, Indexes
    <2> HIDE DEF c
    <2> QED  BY <1>4, <1>t, <1>i, <1>s, <1>p, <2>p, <2>1, <2>2, <2>3, PresenceStep DEF DropBusy
  <1>5. CASE List(r)
    <2>p. InPresence(r) /\ req[r].pc \in SyncSteps /\ req[r].mapped /\ located
      BY <1>5, <1>p, <1>i DEF List, InPresence, Mapped
    <2> DEFINE c == IF req[r].next = "setShow"
                    THEN Presence("setShow", req[r].status, FALSE, "idle", FALSE)
                    ELSE Free
    <2>1. Become(r, c)
      BY <1>5 DEF List, Finish
    <2>2. c.pc \in {"setShow", "idle"} /\ c.mapped = FALSE /\ c.next = "idle" /\ c.alone = FALSE
      BY DEF Presence, Free, Call
    <2>3. ~lagging' => listed' = Listing'
      <3>1. CASE ~req[r].alone
        BY <1>5, <1>i, <2>p, <3>1 DEF List
      <3>2. CASE req[r].alone
        <4>1. listed = {} /\ req[r].status = avail /\ avail' = avail /\ located'
          BY <1>5, <1>s, <2>p, <3>2 DEF List
        <4>2. listed' = listed \cup ({req[r].status} \cap Indexes)
          BY <1>5 DEF List
        <4> QED  BY <4>1, <4>2 DEF Listing
      <3> QED  BY <3>1, <3>2
    <2>4. lagging' = lagging \/ req[r].alone
      <3>1. ~req[r].alone => lagging' = TRUE /\ lagging = TRUE
        BY <1>5, <1>i, <1>t, <2>p DEF List, TypeOK
      <3> QED  BY <3>1
    <2> HIDE DEF c
    <2> QED  BY <1>5, <1>t, <1>i, <1>p, <2>p, <2>1, <2>2, <2>3, <2>4, PresenceStep DEF List
  <1>6. CASE BootOnline(r)
    <2>p. InPresence(r) /\ Booting(r) /\ req[r].next = "bootRead"
      BY <1>6, <1>p, <1>i DEF BootOnline, InPresence, Boot, Booting
    <2> DEFINE c == [req[r] EXCEPT !.pc = "bootBusy"]
    <2>1. Become(r, c)
      BY <1>6 DEF BootOnline, Goto
    <2>2. /\ c.pc = "bootBusy" /\ c.mapped = req[r].mapped
          /\ c.next = req[r].next /\ c.alone = req[r].alone
      BY <1>g DEF Steps, PresenceSteps, SyncSteps
    <2> HIDE DEF c
    <2> QED  BY <1>6, <1>t, <1>i, <1>p, <2>p, <2>1, <2>2, PresenceStep DEF BootOnline
  <1>7. CASE BootBusy(r)
    <2>p. InPresence(r) /\ Booting(r) /\ req[r].next = "bootRead"
      BY <1>7, <1>p, <1>i DEF BootBusy, InPresence, Boot, Booting
    <2> DEFINE c == [req[r] EXCEPT !.pc = "bootRead"]
    <2>1. Become(r, c)
      BY <1>7 DEF BootBusy, Goto
    <2>2. /\ c.pc = "bootRead" /\ c.mapped = req[r].mapped
          /\ c.next = req[r].next /\ c.alone = req[r].alone
      BY <1>g DEF Steps, PresenceSteps, SyncSteps
    <2>3. listed' = {}
      BY <1>7, <1>i, <1>t DEF BootBusy, Boot, TypeOK, Indexes
    <2> HIDE DEF c
    <2> QED  BY <1>7, <1>t, <1>i, <1>p, <2>p, <2>1, <2>2, <2>3, PresenceStep DEF BootBusy
  <1>8. CASE BootRead(r)
    <2>p. InPresence(r) /\ Booting(r) /\ req[r].next = "bootRead" /\ req[r].alone /\ listed = {}
      BY <1>8, <1>p, <1>i DEF BootRead, InPresence, Boot, Booting
    <2>1. CASE avail \in Indexes /\ located /\ verification = "APPROVED"
      <3> DEFINE c == Presence("dropOnline", avail, TRUE, "bootRead", TRUE)
      <3>1. Become(r, c) /\ UNCHANGED lagging
        BY <1>8, <2>1 DEF BootRead
      <3>2. /\ c.pc = "dropOnline" /\ c.status = avail /\ c.mapped = TRUE
            /\ c.next = "bootRead" /\ c.alone = TRUE
        BY DEF Presence, Call
      <3> HIDE DEF c
      <3> QED  BY <1>8, <1>t, <1>i, <1>p, <2>p, <2>1, <3>1, <3>2, PresenceStep DEF BootRead
    <2>2. CASE ~(avail \in Indexes /\ located /\ verification = "APPROVED")
      <3>1. Become(r, Free) /\ lagging' = FALSE
        BY <1>8, <2>2 DEF BootRead, Finish
      <3>2. Free.pc = "idle" /\ Free.mapped = FALSE /\ Free.next = "idle" /\ Free.alone = FALSE
        BY DEF Free, Call
      <3>3. verification = "APPROVED" => listed' = Listing'
        BY <1>8, <2>p, <2>2 DEF BootRead, Listing
      <3> QED  BY <1>8, <1>t, <1>i, <1>p, <2>p, <3>1, <3>2, <3>3, PresenceStep DEF BootRead
    <2> QED  BY <2>1, <2>2
  <1> QED
    BY <1>1, <1>2, <1>3, <1>4, <1>5, <1>6, <1>7, <1>8 DEF ContinuePresence

\* A handler that dies takes no call out of line: at worst the indexes lag.
LEMMA FailKeeps ==
    ASSUME IInv, NEW r \in Requests, Fail(r)
    PROVE  IInv'
  <1> USE DEF driver, start, bounds, history
  <1>t. TypeOK
    BY DEF IInv
  <1>f. Free \in Request /\ Become(r, Free)
    BY CallTypes DEF Fail, Finish
  <1>0. TypeOK'
    <2>1. req' \in [Requests -> Request]
      BY <1>f, <1>t, BecomeType
    <2> QED  BY <1>t, <2>1 DEF Fail, Limited, TypeOK
  <1>1. CASE ~InPresence(r)
    <2>1. Quiet(Free)
      BY QuietCalls
    <2>q. \A q \in Requests : req'[q] = IF q = r THEN Free ELSE req[q]
      BY <1>t, <1>f, Slots
    <2>k. /\ Free.pc \notin PresenceSteps /\ ~Free.alone /\ Free.next # "bootRead"
          /\ ~Free.mapped /\ Free.pc # "otpSet"
      BY <2>1 DEF Quiet, Free, Call
    <2>u. UNCHANGED <<avail, verification, located, listed>> /\ lagging' = lagging
      BY <1>1, <1>t DEF Fail, TypeOK
    <2>2. Mapped' /\ Alone' /\ Synced' /\ Answers'
      BY <1>1, <2>q, <2>k, <2>u
         DEF IInv, Mapped, Alone, Synced, Answers, At, InPresence, PresenceSteps
    <2>3. Boot'
      <3>1. \A q \in Requests : Booting(q)' => Booting(q)
        BY <2>q, <2>k DEF Booting
      <3> QED  BY <2>q, <2>k, <2>u, <3>1 DEF IInv, Boot, Booting, At, PresenceSteps, Free, Call
    <2>4. Calm' => Calm
      BY <1>1, <2>q DEF Calm, InPresence
    <2>5. IndexFollowsAvailability'
      BY <2>u, <2>4 DEF IInv, IndexFollowsAvailability, Listing
    <2> QED  BY <1>0, <2>2, <2>3, <2>5 DEF IInv
  <1>2. CASE InPresence(r)
    <2>1. /\ Free.pc = "idle" /\ Free.mapped = FALSE /\ Free.next = "idle" /\ Free.alone = FALSE
          /\ "idle" \notin PresenceSteps /\ "idle" \notin SyncSteps
      BY DEF Free, Call, PresenceSteps, SyncSteps
    <2>2. lagging' = TRUE /\ UNCHANGED <<avail, verification, located, listed>>
      BY <1>2 DEF Fail
    <2>3. Mapped
      BY DEF IInv
    <2>q. \A q \in Requests : req'[q] = IF q = r THEN Free ELSE req[q]
      BY <1>t, <1>f, Slots
    <2>4. Mapped' /\ Synced' /\ Answers'
      BY <2>1, <2>2, <2>q DEF IInv, Mapped, Synced, Answers, At
    <2>5. Alone'
      BY <2>1, <2>2, <2>q DEF IInv, Alone, InPresence
    <2>6. Boot'
      BY <2>1, <2>2, <2>q DEF IInv, Boot, Booting, At
    <2>7. IndexFollowsAvailability'
      BY <2>2 DEF IndexFollowsAvailability
    <2> QED  BY <1>0, <2>4, <2>5, <2>6, <2>7 DEF IInv
  <1> QED  BY <1>1, <1>2

\* After a restart the boot is alone.
LEMMA RestartKeeps ==
    ASSUME IInv, NEW r \in Requests, Restart(r)
    PROVE  IInv'
  <1> USE DEF driver, start, bounds, history
  <1> DEFINE boot == Presence("bootOnline", "OFFLINE", FALSE, "bootRead", TRUE)
  <1>t. TypeOK
    BY DEF IInv
  <1>1. boot \in Request /\ Free \in Request
    <2>1. "bootOnline" \in Steps /\ "bootRead" \in Steps /\ "OFFLINE" \in AvailabilityStatus
          /\ TRUE \in BOOLEAN /\ FALSE \in BOOLEAN
      BY DEF Steps, PresenceSteps, AvailabilityStatus
    <2> QED  BY <2>1, CallTypes
  <1>2. /\ boot.pc = "bootOnline" /\ ~boot.mapped /\ boot.next = "bootRead" /\ boot.alone
        /\ Free.pc = "idle" /\ ~Free.mapped /\ Free.next = "idle" /\ ~Free.alone
    BY DEF Presence, Free, Call
  <1>3. req' = [q \in Requests |-> IF q = r THEN boot ELSE Free]
    BY DEF Restart
  <1> HIDE DEF boot
  <1>4. \A q \in Requests : req'[q] = IF q = r THEN boot ELSE Free
    BY <1>3
  <1>p. "bootOnline" \in PresenceSteps \ SyncSteps /\ "idle" \notin PresenceSteps
    BY DEF PresenceSteps, SyncSteps
  <1>5. UNCHANGED <<avail, verification, located, listed>> /\ lagging' = TRUE
    BY DEF Restart
  <1>6. TypeOK'
    <2>1. req' \in [Requests -> Request]
      BY <1>1, <1>3
    <2>2. UNCHANGED <<driver, listed, start, view>> /\ disturbances' = disturbances + 1
      BY DEF Restart, Limited
    <2> QED  BY <1>5, <1>t, <2>1, <2>2 DEF TypeOK
  <1>7. Mapped' /\ Alone' /\ Synced' /\ Answers'
    BY <1>2, <1>4, <1>5, <1>p
       DEF IInv, Mapped, Alone, Synced, Answers, At, InPresence, PresenceSteps, SyncSteps
  <1>8. Boot'
    BY <1>2, <1>4 DEF Boot, Booting, At
  <1>9. IndexFollowsAvailability'
    BY <1>5 DEF IndexFollowsAvailability
  <1> QED  BY <1>6, <1>7, <1>8, <1>9 DEF IInv

\* The admin's decision, when the server is up.
LEMMA ReviewKeeps ==
    ASSUME IInv, NEW d \in {"APPROVED", "REJECTED"}, Review(d)
    PROVE  IInv'
  <1> USE DEF driver, start, bounds, history
  <1>t. TypeOK
    BY DEF IInv
  <1>f. \A q \in Requests :
           /\ req'[q].pc = req[q].pc /\ req'[q].next = req[q].next
           /\ req'[q].mapped = req[q].mapped /\ ~req'[q].alone
    <2>1. ASSUME NEW q \in Requests
          PROVE /\ req'[q].pc = req[q].pc /\ req'[q].next = req[q].next
                /\ req'[q].mapped = req[q].mapped /\ ~req'[q].alone
      <3>1. req'[q] = [req[q] EXCEPT !.alone = FALSE] /\ req[q] \in Request
        BY <1>t DEF Review, TypeOK
      <3> QED  BY <3>1 DEF Request
    <2> QED  BY <2>1
  <1>1. UNCHANGED <<located, listed>> /\ lagging' = TRUE
    BY DEF Review
  <1>2. TypeOK'
    <2>1. req' \in [Requests -> Request]
      BY <1>t DEF Review, TypeOK, Request
    <2> QED  BY <1>t, <2>1 DEF Review, Limited, TypeOK, AvailabilityStatus
  <1>3. Mapped' /\ Alone' /\ Synced' /\ Answers'
    BY <1>f, <1>1 DEF IInv, Mapped, Alone, Synced, Answers, At, InPresence
  <1>4. Boot'
    <2>1. \A q \in Requests : ~Booting(q)
      BY DEF Review, Serving
    <2> QED  BY <1>f, <2>1 DEF IInv, Boot, Booting, At
  <1>5. IndexFollowsAvailability'
    BY <1>1 DEF IndexFollowsAvailability
  <1> QED  BY <1>2, <1>3, <1>4, <1>5 DEF IInv

\* Steps that change no request and nothing the indexes depend on.
LEMMA IdleKeeps ==
    ASSUME IInv, TypeOK', UNCHANGED <<driver, listed, req, lagging>>
    PROVE  IInv'
  BY DEF IInv, driver, Mapped, Alone, Boot, Synced, Answers, IndexFollowsAvailability, Listing,
         Calm, InPresence, Booting, At

LEMMA StepInv == IInv /\ [Next]_vars => IInv'
  <1> SUFFICES ASSUME IInv, [Next]_vars PROVE IInv'
    OBVIOUS
  <1>t. TypeOK
    BY DEF IInv
  <1>1. ASSUME NEW r \in Requests, NEW s \in {"ONLINE", "OFFLINE"}, SetAvailability(r, s)
        PROVE IInv'
    BY <1>1, <1>t, BeginKeeps DEF SetAvailability, TypeOK, AvailabilityStatus
  <1>2. ASSUME NEW r \in Requests, UpdateLocation(r) PROVE IInv'
    BY <1>2, BeginKeeps DEF UpdateLocation, AvailabilityStatus
  <1>3. ASSUME NEW r \in Requests, Poll(r) \/ Login(r) \/ CustomerPoll(r) PROVE IInv'
    BY <1>3, QuietBegins, QuietKeeps DEF ActiveTrip
  <1>4. ASSUME NEW r \in Requests, NEW t \in ActiveTrip, Press(r, t) PROVE IInv'
    BY <1>4, QuietBegins, QuietKeeps
  <1>5. ASSUME NEW r \in Requests, AcceptOffer(r) PROVE IInv'
    <2> DEFINE c == OnTrip("acceptOtp", NoCode, "idle")
    <2>p. {"acceptOtp", "idle"} \subseteq Steps \ PresenceSteps
      BY DEF Steps, PresenceSteps, SyncSteps
    <2>1. Quiet(c)
      BY <2>p, QuietCalls
    <2> HIDE DEF c
    <2>2. Crowd(r, c) /\ ~InPresence(r) /\ Serving /\ lagging' = TRUE /\ UNCHANGED <<located, listed>>
      BY <1>5, <2>p DEF AcceptOffer, WriteAvail, Offering, At, InPresence, c
    <2>3. TypeOK'
      <3>1. req' \in [Requests -> Request]
        BY <1>t, <2>1, <2>2, CrowdType DEF Quiet
      <3> QED
        BY <1>5, <1>t, <3>1
           DEF AcceptOffer, WriteAvail, TypeOK, TripStatus, ActiveTrip, AvailabilityStatus, bounds
    <2> QED  BY <2>1, <2>2, <2>3, CrowdedKeeps
  <1>6. ASSUME NEW r \in Requests, CompleteCommit(r) PROVE IInv'
    <2> DEFINE c == Reading("jobs", "OFFLINE", "NONE")
    <2>p. /\ {"completeCommit", "jobs"} \subseteq Steps \ PresenceSteps
          /\ "completeCommit" # "idle"
          /\ "OFFLINE" \in AvailabilityStatus /\ "NONE" \in TripStatus
      BY DEF Steps, PresenceSteps, SyncSteps, AvailabilityStatus, TripStatus
    <2>1. Quiet(c)
      BY <2>p, QuietCalls
    <2> HIDE DEF c
    <2>2. Crowd(r, c) /\ ~InPresence(r) /\ lagging' = TRUE /\ UNCHANGED <<located, listed>>
      BY <1>6, <2>p DEF CompleteCommit, WriteAvail, At, InPresence, c
    <2>s. Serving
      <3>1. ~req[r].alone
        BY <2>2 DEF IInv, Alone
      <3>2. ASSUME NEW q \in Requests, Booting(q) PROVE FALSE
        BY <1>6, <2>p, <3>1, <3>2 DEF IInv, Boot, CompleteCommit, At
      <3> QED  BY <3>2 DEF Serving
    <2>3. TypeOK'
      <3>1. req' \in [Requests -> Request]
        BY <1>t, <2>1, <2>2, CrowdType DEF Quiet
      <3> QED
        BY <1>6, <1>t, <3>1
           DEF CompleteCommit, WriteAvail, TypeOK, TripStatus, ActiveTrip, AvailabilityStatus, bounds
    <2> QED  BY <2>1, <2>2, <2>3, <2>s, CrowdedKeeps
  <1>7. ASSUME NEW r \in Requests, ContinuePresence(r) PROVE IInv'
    BY <1>7, PresenceKeeps
  <1>8. ASSUME NEW r \in Requests, ContinueTrip(r) PROVE IInv'
    BY <1>6, <1>8, QuietTrip, QuietKeeps
  <1>9. ASSUME NEW r \in Requests, ContinueApp(r) PROVE IInv'
    BY <1>9, QuietApp, QuietKeeps
  <1>10. ASSUME NEW r \in Requests, Fail(r) \/ Restart(r) PROVE IInv'
    BY <1>10, FailKeeps, RestartKeeps
  <1>11. ASSUME NEW d \in {"APPROVED", "REJECTED"}, Review(d) PROVE IInv'
    BY <1>11, ReviewKeeps
  <1>12. CASE Logout
    <2>1. [view EXCEPT !.on = FALSE]
              \in [on : BOOLEAN, avail : AvailabilityStatus, trip : TripStatus]
      BY <1>t DEF TypeOK
    <2>2. TypeOK'
      BY <1>12, <1>t, <2>1 DEF Logout, server, driver, start, history, bounds, TypeOK
    <2> QED  BY <1>12, <2>2, IdleKeeps DEF Logout, server, history
  <1>13. CASE OtpExpires
    <2>1. TypeOK'
      BY <1>13, <1>t DEF OtpExpires, Limited, driver, TypeOK
    <2> QED  BY <1>13, <2>1, IdleKeeps DEF OtpExpires
  <1>14. CASE UNCHANGED vars
    <2>1. TypeOK'
      BY <1>14, <1>t DEF vars, driver, start, history, bounds, TypeOK
    <2> QED  BY <1>14, <2>1, IdleKeeps DEF vars, history
  <1> QED
    BY <1>1, <1>2, <1>3, <1>4, <1>5, <1>7, <1>8, <1>9, <1>10, <1>11, <1>12, <1>13, <1>14, Actions

-------------------------------------------------------------------------------
\* Every value keeps its type, however many requests are in flight and however often
\* handlers fail, the server restarts and the admin decides.
THEOREM ShiftTypes == Spec => []TypeOK
  <1>1. IInv => TypeOK
    BY DEF IInv
  <1> QED  BY <1>1, InitInv, StepInv, PTL DEF Spec

\* The geo indexes follow the stored availability of an approved driver from the end
\* of any presence call nobody has crossed, for any number of requests in flight.
THEOREM IndexFollows == Spec => []IndexFollowsAvailability
  <1>1. IInv => IndexFollowsAvailability
    BY DEF IInv
  <1> QED  BY <1>1, InitInv, StepInv, PTL DEF Spec
===============================================================================
