--------------------------- MODULE DriverOnboarding ---------------------------
(***************************************************************************)
(* DriverOnboardingService: the driver's data, its status, and the payment *)
(* methods.  A transaction is a step; the payout account, labels and QR    *)
(* images are left out.                                                    *)
(***************************************************************************)
EXTENDS EnrolmentStore

Data(op, v, u, m, prefer) ==
    LET pc == IF op \in {"profile", "vehicle", "bank"} /\ onboarding.status = "NONE"
              THEN "insert" ELSE op
        status == IF op = "profile" THEN onboarding.status ELSE "NONE"
    IN Call(op, pc, m, v, u, status, prefer)

\* me creates the row it does not find.
Me ==
    /\ onboarding.status = "NONE"
    /\ onboarding' = Onboarding("IN_PROGRESS", NoVehicle, NoUpi)
    /\ UNCHANGED <<otp, profile, method, verification, call, ghosts, crossed, mix>>

SaveProfile(r) == Begin(r, Data("profile", NoVehicle, NoUpi, 1, FALSE)) /\ UNCHANGED <<rows, ghosts>>
SaveVehicle(r, v) == Begin(r, Data("vehicle", v, NoUpi, 1, FALSE)) /\ UNCHANGED <<rows, ghosts>>
SaveBank(r, u) == Begin(r, Data("bank", NoVehicle, u, 1, FALSE)) /\ UNCHANGED <<rows, ghosts>>

\* With a field missing submit fails, having created the row as me does.
Submit(r) ==
    /\ onboarding.vehicle # NoVehicle
    /\ Begin(r, Data("submit", NoVehicle, NoUpi, 1, FALSE)) /\ UNCHANGED <<rows, ghosts>>

\* ensureOnboarding: a row that another request created first makes this one fail.
Insert(r) ==
    /\ At(r, "insert")
    /\ IF onboarding.status = "NONE"
       THEN /\ onboarding' = Onboarding("IN_PROGRESS", NoVehicle, NoUpi)
            /\ call' = [call EXCEPT ![r].pc = call[r].op, ![r].status = "IN_PROGRESS"]
       ELSE Finish(r) /\ UNCHANGED onboarding
    /\ Keeps /\ UNCHANGED <<otp, profile, method, verification, ghosts>>

\* The status upsertProfile has read is written back.
WriteProfile(r) ==
    /\ At(r, "profile")
    /\ onboarding' = [onboarding EXCEPT !.status =
           IF call[r].status = "NOT_STARTED" THEN "IN_PROGRESS" ELSE call[r].status]
    /\ Finish(r)
    /\ Keeps /\ UNCHANGED <<otp, profile, method, verification, ghosts>>

\* (variant) New data keeps an old approval.
Resaved(v) == Onboarding(onboarding.status, v, onboarding.upi)

Saved(v) == Onboarding("IN_PROGRESS", v, onboarding.upi)

WriteVehicle(r) ==
    /\ At(r, "vehicle")
    /\ onboarding' = Saved(call[r].vehicle)
    /\ Finish(r)
    /\ Keeps /\ UNCHANGED <<otp, profile, method, verification, ghosts>>

WriteBank(r) ==
    /\ At(r, "bank")
    /\ onboarding' = Onboarding("IN_PROGRESS", onboarding.vehicle, call[r].upi)
    /\ Goto(r, "default")
    /\ Keeps /\ UNCHANGED <<otp, profile, method, verification, ghosts>>

WriteSubmit(r) ==
    /\ At(r, "submit")
    /\ onboarding' = [onboarding EXCEPT !.status = "SUBMITTED"]
    /\ Finish(r)
    /\ Keeps /\ UNCHANGED <<otp, profile, method, verification, ghosts>>

-------------------------------------------------------------------------------
(* payment methods *)

Free == {m \in Methods : method[m].upi = NoUpi}
Unpreferred == [m \in Methods |->
    IF method[m].active THEN [method[m] EXCEPT !.preferred = FALSE] ELSE method[m]]

\* ensureDefaultPaymentMethod: look, perhaps unprefer, insert.
Default(r) ==
    /\ At(r, "default")
    /\ IF \E m \in Active : method[m].upi = call[r].upi
       THEN Finish(r)
       ELSE call' = [call EXCEPT ![r].pc = IF Active = {} THEN "unprefer" ELSE "add",
                                 ![r].prefer = (Active = {})]
    /\ Keeps /\ UNCHANGED <<rows, ghosts>>

Unprefer(r) ==
    /\ At(r, "unprefer")
    /\ method' = Unpreferred
    /\ Goto(r, "add")
    /\ Keeps /\ UNCHANGED <<otp, onboarding, profile, verification, ghosts>>

Add(r) ==
    /\ At(r, "add")
    /\ \E m \in Free :
           method' = [method EXCEPT ![m] = Method(call[r].upi, TRUE, call[r].prefer)]
    /\ Finish(r)
    /\ Keeps /\ UNCHANGED <<otp, onboarding, profile, verification, ghosts>>

\* createPaymentMethod counts,
CreateMethod(r, u, wanted) ==
    /\ Begin(r, Data("method", NoVehicle, u, 1, wanted \/ Active = {}))
    /\ UNCHANGED <<rows, ghosts>>

\* inserts,
InsertMethod(r) ==
    /\ At(r, "method")
    /\ \E m \in Free :
           method' = [(IF call[r].prefer THEN Unpreferred ELSE method)
                          EXCEPT ![m] = Method(call[r].upi, TRUE, call[r].prefer)]
    /\ Goto(r, "fillUpi")
    /\ Keeps /\ UNCHANGED <<otp, onboarding, profile, verification, ghosts>>

\* and fills in an onboarding row that has no UPI id.
FillUpi(r) ==
    /\ At(r, "fillUpi")
    /\ IF onboarding.status # "NONE" /\ onboarding.upi = NoUpi
       THEN onboarding' = Onboarding("IN_PROGRESS", onboarding.vehicle, call[r].upi)
       ELSE UNCHANGED onboarding
    /\ Finish(r)
    /\ Keeps /\ UNCHANGED <<otp, profile, method, verification, ghosts>>

SetPreferred(r, m) ==
    /\ method[m].active
    /\ Begin(r, Data("prefer", NoVehicle, NoUpi, m, FALSE)) /\ UNCHANGED <<rows, ghosts>>

Prefer(r) ==
    /\ At(r, "prefer")
    /\ method' = [Unpreferred EXCEPT ![call[r].n].preferred = TRUE]
    /\ Finish(r)
    /\ Keeps /\ UNCHANGED <<otp, onboarding, profile, verification, ghosts>>

\* isPreferred is read here and used in the transaction.
Delete(r, m) ==
    /\ method[m].active
    /\ Begin(r, Data("remove", NoVehicle, NoUpi, m, method[m].preferred))
    /\ UNCHANGED <<rows, ghosts>>

Removed(m) == [method EXCEPT ![m].active = FALSE, ![m].preferred = FALSE]

\* (variant) Nothing takes the place of the preferred method.
RemoveOnly(r) ==
    /\ At(r, "remove")
    /\ method' = Removed(call[r].n)
    /\ Finish(r)
    /\ Keeps /\ UNCHANGED <<otp, onboarding, profile, verification, ghosts>>

\* Which of the others was touched last is left open.
Remove(r) ==
    /\ At(r, "remove")
    /\ LET m == call[r].n
           others == Active \ {m}
       IN IF call[r].prefer /\ others # {}
          THEN \E o \in others : method' = [Removed(m) EXCEPT ![o].preferred = TRUE]
          ELSE method' = Removed(m)
    /\ Finish(r)
    /\ Keeps /\ UNCHANGED <<otp, onboarding, profile, verification, ghosts>>
===============================================================================
