---------------------------- MODULE EnrolmentStore ----------------------------
(***************************************************************************)
(* One driver's rows while the driver logs in, is verified and says how to *)
(* be paid, and the requests in flight.  The vehicle stands for the        *)
(* registration and licence data of the onboarding row.                    *)
(***************************************************************************)
EXTENDS Integers, FiniteSets

CONSTANTS
    Requests,            \* slots for requests in flight
    Vehicles, NoVehicle,
    Upis, NoUpi,
    MaxCodes,            \* bounds on OTP sessions,
    MaxMethods,          \*   payment methods
    MaxVerifications,    \*   and verifications
    Mixes                \* bound on what happens in one behaviour: sets of events

ASSUME NothingIsSomething == NoVehicle \notin Vehicles /\ NoUpi \notin Upis
ASSUME Bounds == MaxCodes \in Nat /\ MaxMethods \in Nat /\ MaxVerifications \in Nat

VARIABLES
    otp,          \* OtpSession.status by code, in the order of creation
    onboarding,   \* DriverOnboarding: status, vehicle, upiId
    profile,      \* the vehicle of DriverProfile, which this code only writes approved
    method,       \* DriverPaymentMethod rows
    verification, \* KycVerification.status
    call,         \* call[r]: the request in slot r
    logins,       \* history: sessions issued for a code
    passed,       \* history: vehicles the provider verified
    crossed,      \* history: areas in which requests overlapped, or one died half done
    mix           \* the events of this behaviour, one of Mixes

rows == <<otp, onboarding, profile, method, verification>>
ghosts == <<logins, passed>>
vars == <<rows, call, ghosts, crossed, mix>>

Codes == 1..MaxCodes
Methods == 1..MaxMethods
Verifications == 1..MaxVerifications

OtpStatus == {"NONE", "ACTIVE", "EXPIRED"}
OnboardingStatus == {"NONE", "NOT_STARTED", "IN_PROGRESS", "SUBMITTED", "APPROVED", "REJECTED"}
KycStatus == {"NONE", "VERIFIED", "REJECTED", "INCONCLUSIVE"}

\* What a kind of request reads and writes.
Areas == {"login", "methods", "kyc"}
Touches(op) ==
    CASE op \in {"requestOtp", "verifyOtp"} -> {"login"}
      [] op \in {"prefer", "remove"} -> {"methods"}
      [] op \in {"profile", "vehicle", "submit", "reject"} -> {"kyc"}
      [] op \in {"bank", "method", "verify", "approve"} -> {"methods", "kyc"}

Ops == {"requestOtp", "verifyOtp", "prefer", "remove", "profile", "vehicle", "submit",
        "reject", "bank", "method", "verify", "approve"}
Steps == {"idle", "newCode", "overdue", "redeem", "enter", "seed",
          "insert", "profile", "vehicle", "bank", "submit",
          "default", "unprefer", "add", "method", "fillUpi", "prefer", "remove",
          "ask", "approve", "enlist", "reject", "reopen"}

Onboarding(status, v, u) == [status |-> status, vehicle |-> v, upi |-> u]
\* A payment method; one without a UPI id is not there yet.
Method(u, active, preferred) == [upi |-> u, active |-> active, preferred |-> preferred]
Active == {m \in Methods : method[m].active}

\* A request: its kind, its step, and what it carries to the next.
Call(op, pc, n, v, u, status, prefer) ==
    [op |-> op, pc |-> pc, n |-> n, vehicle |-> v, upi |-> u, status |-> status,
     prefer |-> prefer]
Idle == Call("reject", "idle", 1, NoVehicle, NoUpi, "NONE", FALSE)

At(r, pc) == call[r].pc = pc
Goto(r, pc) == call' = [call EXCEPT ![r].pc = pc]
Finish(r) == call' = [call EXCEPT ![r] = Idle]
Busy(area) == {r \in Requests : ~At(r, "idle") /\ area \in Touches(call[r].op)}
Happens(event) == event \in mix

\* A request arrives and makes its first round trip.
Begin(r, request) ==
    /\ At(r, "idle")
    /\ call' = [call EXCEPT ![r] = request]
    /\ crossed' = crossed \cup {area \in Touches(request.op) : Busy(area) # {}}
    /\ UNCHANGED mix

\* Every later round trip of a request.
Keeps == UNCHANGED <<crossed, mix>>

Init ==
    /\ otp = [k \in Codes |-> "NONE"]
    /\ onboarding = Onboarding("NONE", NoVehicle, NoUpi)
    /\ profile = NoVehicle
    /\ method = [m \in Methods |-> Method(NoUpi, FALSE, FALSE)]
    /\ verification = [k \in Verifications |-> "NONE"]
    /\ call = [r \in Requests |-> Idle]
    /\ logins = [k \in Codes |-> 0]
    /\ passed = {} /\ crossed = {}
    /\ mix \in Mixes
===============================================================================
