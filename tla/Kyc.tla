--------------------------------- MODULE Kyc ----------------------------------
(***************************************************************************)
(* KycService: the provider's verification, the admin's decisions, and     *)
(* what they make of the onboarding row and the driver's profile.  The     *)
(* provider's answer is left open; documents, and the name and vehicle     *)
(* type the provider may correct, are left out.                            *)
(***************************************************************************)
EXTENDS DriverOnboarding

Kyc(op, pc, v) == Call(op, pc, 1, v, NoUpi, "NONE", FALSE)
Unused == {k \in Verifications : verification[k] = "NONE"}

\* A request that finds a recent verification of the same data to reuse changes nothing.
Verify(r) ==
    /\ onboarding.status # "NONE"
    /\ Begin(r, Kyc("verify", "ask", onboarding.vehicle))
    /\ UNCHANGED <<rows, ghosts>>

\* (variant) Only a rejection is not an approval.
OutcomeUnlessRejected(status) == IF status = "REJECTED" THEN "reject" ELSE "approve"

Outcome(status) ==
    CASE status = "VERIFIED" -> "approve"
      [] status = "REJECTED" -> "reject"
      [] OTHER -> "reopen"

Verdict(r) ==
    /\ At(r, "ask")
    /\ \E k \in Unused, status \in KycStatus \ {"NONE"} :
           /\ verification' = [verification EXCEPT ![k] = status]
           /\ passed' = IF status = "VERIFIED" THEN passed \cup {call[r].vehicle} ELSE passed
           /\ Goto(r, Outcome(status))
    /\ Keeps /\ UNCHANGED <<otp, onboarding, profile, method, logins>>

\* approveFromKyc takes the data as it is when the status is written,
Approve(r) ==
    /\ At(r, "approve")
    /\ onboarding' = [onboarding EXCEPT !.status = "APPROVED"]
    /\ IF onboarding.vehicle = NoVehicle /\ onboarding.upi = NoUpi
       THEN Finish(r)
       ELSE call' = [call EXCEPT ![r].vehicle = onboarding.vehicle, ![r].upi = onboarding.upi,
                ![r].pc = IF onboarding.vehicle = NoVehicle THEN "default" ELSE "enlist"]
    /\ Keeps /\ UNCHANGED <<otp, profile, method, verification, ghosts>>

\* (variant) A UPI id is taken for granted.
EnlistAll(r) ==
    /\ At(r, "enlist")
    /\ profile' = call[r].vehicle
    /\ Goto(r, "default")
    /\ Keeps /\ UNCHANGED <<otp, onboarding, method, verification, ghosts>>

\* and copies it to the profile the driver works under.
Enlist(r) ==
    /\ At(r, "enlist")
    /\ profile' = call[r].vehicle
    /\ IF call[r].upi = NoUpi THEN Finish(r) ELSE Goto(r, "default")
    /\ Keeps /\ UNCHANGED <<otp, onboarding, method, verification, ghosts>>

Reject(r) ==
    /\ At(r, "reject")
    /\ onboarding' = [onboarding EXCEPT !.status = "REJECTED"]
    /\ Finish(r)
    /\ Keeps /\ UNCHANGED <<otp, profile, method, verification, ghosts>>

Reopen(r) ==
    /\ At(r, "reopen")
    /\ onboarding' = [onboarding EXCEPT !.status = "IN_PROGRESS"]
    /\ Finish(r)
    /\ Keeps /\ UNCHANGED <<otp, profile, method, verification, ghosts>>

\* An admin decides on any verification there is, however old.
Decide(r, k, op) ==
    /\ verification[k] # "NONE"
    /\ Begin(r, Kyc(op, op, NoVehicle))
    /\ verification' = [verification EXCEPT ![k] = IF op = "approve" THEN "VERIFIED" ELSE "REJECTED"]
    /\ UNCHANGED <<otp, onboarding, profile, method, ghosts>>
===============================================================================
