------------------------------- MODULE Enrolment ------------------------------
(***************************************************************************)
(* The enrolment of one driver: login, onboarding, payment methods and     *)
(* verification as they share one database, with requests that overlap     *)
(* and may die between two round trips.                                    *)
(***************************************************************************)
EXTENDS OtpLogin, Kyc

LoggingIn(r) ==
    \/ Happens("Login") /\ (RequestOtp(r) \/ VerifyOtp(r))
    \/ NewCode(r) \/ Overdue(r) \/ Redeem(r) \/ Enter(r) \/ Seed(r)

Saving(r) ==
    \/ Happens("Data") /\ (SaveProfile(r) \/ Submit(r) \/ \E v \in Vehicles : SaveVehicle(r, v))
    \/ Happens("Bank") /\ \E u \in Upis : SaveBank(r, u)
    \/ Insert(r) \/ WriteProfile(r) \/ WriteVehicle(r) \/ WriteBank(r) \/ WriteSubmit(r)

Paying(r) ==
    \/ Happens("Methods") /\ \/ \E u \in Upis, wanted \in BOOLEAN : CreateMethod(r, u, wanted)
                             \/ \E m \in Methods : SetPreferred(r, m) \/ Delete(r, m)
    \/ Default(r) \/ Unprefer(r) \/ Add(r)
    \/ InsertMethod(r) \/ FillUpi(r) \/ Prefer(r) \/ Remove(r)

Verifying(r) ==
    \/ Happens("Verify") /\ Verify(r)
    \/ Happens("Decide") /\ \E k \in Verifications, op \in {"approve", "reject"} : Decide(r, k, op)
    \/ Verdict(r) \/ Approve(r) \/ Enlist(r) \/ Reject(r) \/ Reopen(r)

\* The process dies, or the database or the provider throws.
Fail(r) ==
    /\ Happens("Crash") /\ ~At(r, "idle")
    /\ Finish(r)
    /\ crossed' = crossed \cup (Touches(call[r].op) \cap {"kyc"})
    /\ UNCHANGED <<rows, ghosts, mix>>

Next ==
    \/ Happens("Data") /\ Me
    \/ \E r \in Requests : LoggingIn(r) \/ Saving(r) \/ Paying(r) \/ Verifying(r) \/ Fail(r)

Spec == Init /\ [][Next]_vars

-------------------------------------------------------------------------------
TypeOK ==
    /\ otp \in [Codes -> OtpStatus]
    /\ onboarding \in [status : OnboardingStatus, vehicle : Vehicles \cup {NoVehicle},
                       upi : Upis \cup {NoUpi}]
    /\ profile \in Vehicles \cup {NoVehicle}
    /\ method \in [Methods -> [upi : Upis \cup {NoUpi}, active : BOOLEAN, preferred : BOOLEAN]]
    /\ \A m \in Active : method[m].upi \in Upis
    /\ verification \in [Verifications -> KycStatus]
    /\ call \in [Requests -> [op : Ops, pc : Steps, n : Nat, vehicle : Vehicles \cup {NoVehicle},
                              upi : Upis \cup {NoUpi}, status : OnboardingStatus, prefer : BOOLEAN]]
    /\ logins \in [Codes -> Nat]
    /\ passed \subseteq Vehicles \cup {NoVehicle}
    /\ crossed \subseteq Areas

\* If logins come one at a time, although they may die half way: a code logs in once, and
\* only the last one sent is good.
CodeLogsInOnce ==
    "login" \notin crossed =>
        /\ \A k \in Codes : logins[k] <= 1
        /\ \A k \in Standing : \A j \in Codes : otp[j] # "NONE" => j <= k

\* If changes to the payment methods come one at a time, wherever they come from and
\* although they may die half way: a driver with methods has exactly one preferred, and
\* it is one of them.
OnePreferred ==
    "methods" \notin crossed =>
        LET preferred == {m \in Methods : method[m].preferred} IN
        /\ preferred \subseteq Active
        /\ Active # {} => \E m \in preferred : preferred = {m}

\* If nothing overlapped or died, approved data is what the driver works under: later
\* changes of it take the approval back.
ApprovedIsInForce ==
    /\ "kyc" \notin crossed /\ Busy("kyc") = {}
    /\ onboarding.status = "APPROVED" /\ onboarding.vehicle # NoVehicle
    => profile = onboarding.vehicle

\* If nothing overlapped and no admin decided otherwise, a driver works under data the
\* provider has verified.
ApprovedWasVerified ==
    "kyc" \notin crossed /\ ~Happens("Decide") => profile \in passed \cup {NoVehicle}

-------------------------------------------------------------------------------
(* Why they hold.  What a request carries fits the step it is at, *)

\* the kinds of request that pass through a step,
OpsAt(pc) ==
    CASE pc = "idle" -> Ops
      [] pc = "newCode" -> {"requestOtp"}
      [] pc \in {"overdue", "redeem", "enter", "seed"} -> {"verifyOtp"}
      [] pc = "insert" -> {"profile", "vehicle", "bank"}
      [] pc \in {"profile", "vehicle", "bank", "submit", "method", "prefer", "remove"} -> {pc}
      [] pc = "fillUpi" -> {"method"}
      [] pc \in {"default", "unprefer", "add"} -> {"bank", "verify", "approve"}
      [] pc \in {"ask", "reopen"} -> {"verify"}
      [] pc \in {"approve", "enlist"} -> {"verify", "approve"}
      [] pc = "reject" -> {"verify", "reject"}

\* what they carry,
Carries(c) ==
    /\ c.op \in OpsAt(c.pc)
    /\ c.pc \in {"overdue", "redeem", "enter"} => c.n \in Codes
    /\ c.pc \in {"prefer", "remove"} => c.n \in Methods
    /\ c.pc \in {"bank", "default", "unprefer", "add", "method", "fillUpi"}
           \/ (c.pc = "insert" /\ c.op = "bank") => c.upi \in Upis
    /\ c.pc = "profile" => c.status # "NONE"

\* and the steps that need the onboarding row.
HasRow == onboarding.status # "NONE"
Staged ==
    /\ \A r \in Requests : Carries(call[r])
    /\ \A r \in Requests :
           call[r].pc \in {"profile", "vehicle", "bank", "submit", "ask", "approve", "enlist",
                          "reject", "reopen"} => HasRow
    /\ \A k \in Verifications : verification[k] # "NONE" => HasRow
    /\ ~HasRow => onboarding.vehicle = NoVehicle /\ onboarding.upi = NoUpi

\* An area in which nothing overlapped has one request at most,
Occupies(c, area) == c.pc # "idle" /\ area \in Touches(c.op)
Sole ==
    \A area \in Areas \ crossed : \A r, q \in Requests :
        Occupies(call[r], area) /\ Occupies(call[q], area) => r = q

\* so that what this one has read is still true when it writes.
LoginRow(c) ==
    /\ c.pc = "newCode" => Standing = {}
    /\ c.pc \in {"overdue", "redeem"} => otp[c.n] = "ACTIVE"
    /\ c.pc = "enter" => otp[c.n] = "EXPIRED" /\ logins[c.n] = 0
LoginCourse ==
    "login" \notin crossed =>
        /\ \A j, k \in Codes : j < k /\ otp[j] = "NONE" => otp[k] = "NONE"
        /\ \A k \in Codes : otp[k] # "EXPIRED" => logins[k] = 0
        /\ \A r \in Requests : LoginRow(call[r])

MethodRow(c) ==
    /\ c.pc = "unprefer" => Active = {} /\ c.prefer
    /\ c.pc = "add" => (c.prefer <=> Active = {})
    /\ c.pc = "method" /\ Active = {} => c.prefer
    /\ c.pc = "prefer" => c.n \in Active
    /\ c.pc = "remove" => c.n \in Active /\ (c.prefer <=> method[c.n].preferred)
MethodCourse == "methods" \notin crossed => \A r \in Requests : MethodRow(call[r])

InForce == onboarding.status = "APPROVED" /\ onboarding.vehicle # NoVehicle
               => profile = onboarding.vehicle
KycRow(c) ==
    /\ c.pc = "profile" /\ c.status = "APPROVED" => onboarding.status = "APPROVED"
    /\ c.pc = "ask" => c.vehicle = onboarding.vehicle
    /\ c.pc = "enlist" => c.vehicle = onboarding.vehicle
    /\ c.pc \in {"approve", "enlist"} /\ ~Happens("Decide") => onboarding.vehicle \in passed
KycCourse ==
    "kyc" \notin crossed =>
        /\ (\A r \in Requests : ~At(r, "enlist")) => InForce
        /\ \A r \in Requests : KycRow(call[r])

IInv ==
    /\ TypeOK /\ CodeLogsInOnce /\ OnePreferred /\ ApprovedIsInForce /\ ApprovedWasVerified
    /\ Staged /\ Sole /\ LoginCourse /\ MethodCourse /\ KycCourse
===============================================================================
