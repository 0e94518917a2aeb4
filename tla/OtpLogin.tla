------------------------------- MODULE OtpLogin -------------------------------
(***************************************************************************)
(* AuthService: a code is requested and redeemed for a session.  Codes are *)
(* unguessed: a request either quotes the code it finds or fails.          *)
(***************************************************************************)
EXTENDS EnrolmentStore

Standing == {k \in Codes : otp[k] = "ACTIVE"}
Unissued == {k \in Codes : otp[k] = "NONE"}

Login(op, pc, k) == Call(op, pc, k, NoVehicle, NoUpi, "NONE", FALSE)

RequestOtp(r) ==
    /\ Begin(r, Login("requestOtp", "newCode", 1))
    /\ otp' = [k \in Codes |-> IF otp[k] = "ACTIVE" THEN "EXPIRED" ELSE otp[k]]
    /\ UNCHANGED <<onboarding, profile, method, verification, ghosts>>

NewCode(r) ==
    /\ At(r, "newCode")
    /\ \E k \in Unissued : /\ \A j \in Unissued : k <= j
                          /\ otp' = [otp EXCEPT ![k] = "ACTIVE"]
    /\ Finish(r)
    /\ Keeps /\ UNCHANGED <<onboarding, profile, method, verification, ghosts>>

\* verifyOtp finds the newest active code; with another code in the request, or none to
\* find, it changes nothing but a counter of attempts.
VerifyOtp(r) ==
    /\ \E k \in Standing, pc \in {"overdue", "redeem"} :
           (\A j \in Standing : j <= k) /\ Begin(r, Login("verifyOtp", pc, k))
    /\ UNCHANGED <<rows, ghosts>>

Overdue(r) ==
    /\ At(r, "overdue")
    /\ otp' = [otp EXCEPT ![call[r].n] = "EXPIRED"]
    /\ Finish(r)
    /\ Keeps /\ UNCHANGED <<onboarding, profile, method, verification, ghosts>>

\* (variant) verifiedAt is set and the status forgotten.
RedeemStamps(r) ==
    /\ At(r, "redeem")
    /\ Goto(r, "enter")
    /\ Keeps /\ UNCHANGED <<rows, ghosts>>

Redeem(r) ==
    /\ At(r, "redeem")
    /\ otp' = [otp EXCEPT ![call[r].n] = "EXPIRED"]
    /\ Goto(r, "enter")
    /\ Keeps /\ UNCHANGED <<onboarding, profile, method, verification, ghosts>>

\* The user is found or created, and issueSession.
Enter(r) ==
    /\ At(r, "enter")
    /\ logins' = [logins EXCEPT ![call[r].n] = @ + 1]
    /\ Goto(r, "seed")
    /\ Keeps /\ UNCHANGED <<rows, passed>>

Seed(r) ==
    /\ At(r, "seed")
    /\ IF onboarding.status = "NONE"
       THEN onboarding' = Onboarding("NOT_STARTED", NoVehicle, NoUpi)
       ELSE UNCHANGED onboarding
    /\ Finish(r)
    /\ Keeps /\ UNCHANGED <<otp, profile, method, verification, ghosts>>
===============================================================================
