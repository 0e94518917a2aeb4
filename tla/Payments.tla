------------------------------- MODULE Payments -------------------------------
(***************************************************************************)
(* The payment of one order while its goods are in transit: the Payment    *)
(* row (one per order, the column is unique), the requests of customer and *)
(* driver, the webhooks of the two gateways, and the driver's completion   *)
(* of the trip, which asks for the payment first.  As in RideStore, each   *)
(* round trip to the database is a step.                                   *)
(***************************************************************************)
CONSTANTS
    GatewayOrders,  \* order ids the gateways may give out: the bound on gateway intents
    Requests        \* slots for requests in flight: the bound on concurrency

VARIABLES
    payment,    \* the Payment row; status "NONE" before it exists
    trip,       \* Trip.status
    issued,     \* issued[g]: the gateway that gave out order id g (external)
    shown,      \* the UPI references the customer's app has asked to be paid (external)
    vouched,    \* the references the gateway, customer or driver reported paid (external)
    req         \* req[r]: the request in slot r

rows == <<payment, trip>>
outside == <<issued, shown, vouched>>
vars == <<payment, trip, issued, shown, vouched, req>>

-------------------------------------------------------------------------------
Gateways == {"RAZORPAY", "CASHFREE"}
PaymentProvider == Gateways \cup {"STRIPE", "UPI", "WALLET"}
\* AUTHORIZED and REFUNDED are in the enum too; nothing writes them.
PaymentStatus == {"PENDING", "CAPTURED", "FAILED"}

\* What the service writes as providerRef when it is no gateway's order id.
LocalRefs == {"intent", "upi_direct", "upi_escrow", "driver_confirmed", "driver_collected"}
ASSUME LocalRefsAreNotGatewayOrders == GatewayOrders \cap LocalRefs = {}

Payment == [provider : PaymentProvider,
            status : PaymentStatus \cup {"NONE"},
            ref : GatewayOrders \cup LocalRefs,
            direct : BOOLEAN]

\* A request: what it does next, the provider and settlement mode it was called
\* with, the status it has decided to write.
Request == [pc : {"idle", "intentRef", "driverWrite", "webhookWrite",
                  "completeGuard", "completeCommit"},
            provider : PaymentProvider,
            direct : BOOLEAN,
            status : PaymentStatus]

Free == [pc |-> "idle", provider |-> "WALLET", direct |-> FALSE, status |-> "PENDING"]
Ask(p, d) == [pc |-> "intentRef", provider |-> p, direct |-> d, status |-> "PENDING"]
Decide(s) == [pc |-> "webhookWrite", provider |-> "WALLET", direct |-> FALSE, status |-> s]

Init ==
    /\ payment = [provider |-> "WALLET", status |-> "NONE", ref |-> "intent", direct |-> FALSE]
    /\ trip = "IN_TRANSIT"
    /\ issued = [g \in GatewayOrders |-> "NONE"]
    /\ shown = {}
    /\ vouched = {}
    /\ req = [r \in Requests |-> Free]

At(r, pc) == req[r].pc = pc
Finish(r) == req' = [req EXCEPT ![r] = Free]

-------------------------------------------------------------------------------
(* createIntent: the row is reset, then the provider's reference is stored. *)

\* (variant) The upsert leaves a captured payment captured.
CreateIntentKeepsCaptured(r, p, d) ==
    /\ At(r, "idle")
    /\ payment' = [provider |-> p,
                   status |-> IF payment.status = "CAPTURED" THEN "CAPTURED" ELSE "PENDING",
                   ref |-> "intent", direct |-> FALSE]
    /\ IF p \in Gateways \cup {"UPI"}
       THEN req' = [req EXCEPT ![r] = Ask(p, d)]
       ELSE Finish(r)
    /\ UNCHANGED <<trip, outside>>

CreateIntent(r, p, d) ==
    /\ At(r, "idle")
    /\ payment' = [provider |-> p, status |-> "PENDING", ref |-> "intent", direct |-> FALSE]
    /\ IF p \in Gateways \cup {"UPI"}
       THEN req' = [req EXCEPT ![r] = Ask(p, d)]
       ELSE Finish(r)
    /\ UNCHANGED <<trip, outside>>

\* The gateway has given out an order id (or the service has made one up, which
\* is one that nobody will pay).  Provider and status are not written again.
IntentGatewayRef(r, g) ==
    /\ At(r, "intentRef") /\ req[r].provider \in Gateways
    /\ issued[g] = "NONE"
    /\ issued' = [issued EXCEPT ![g] = req[r].provider]
    /\ payment' = [payment EXCEPT !.ref = g]
    /\ Finish(r)
    /\ UNCHANGED <<trip, shown, vouched>>

\* A reference to the payment's own id, the same for every UPI intent of a mode.
\* A direct payment to a driver without a UPI id is refused: that is Fail.
UpiRef(d) == IF d THEN "upi_direct" ELSE "upi_escrow"
IntentUpiRef(r) ==
    /\ At(r, "intentRef") /\ req[r].provider = "UPI"
    /\ payment' = [payment EXCEPT !.ref = UpiRef(req[r].direct), !.direct = req[r].direct]
    /\ shown' = shown \cup {UpiRef(req[r].direct)}
    /\ Finish(r)
    /\ UNCHANGED <<trip, issued, vouched>>

-------------------------------------------------------------------------------
(* Reports that money has moved. *)

\* The customer answers the app's question whether the UPI payment succeeded,
\* however late and however often.  The payment is found by its id alone.
Confirm(r, ref, success) ==
    /\ At(r, "idle")
    /\ ref \in shown
    /\ payment' = [payment EXCEPT !.status = IF success THEN "CAPTURED" ELSE "FAILED",
                                  !.ref = ref]
    /\ vouched' = IF success THEN vouched \cup {ref} ELSE vouched
    /\ UNCHANGED <<trip, issued, shown, req>>

\* driverConfirmDirectUpiPayment: the driver has the money of a direct payment.
\* The reference gets a suffix, whatever it was: from then on it is the driver's.
DriverConfirm(r) ==
    /\ At(r, "idle")
    /\ payment.provider = "UPI" /\ payment.direct
    /\ payment.status \notin {"NONE", "CAPTURED"}
    /\ req' = [req EXCEPT ![r].pc = "driverWrite"]
    /\ UNCHANGED <<rows, outside>>

DriverConfirmWrite(r) ==
    /\ At(r, "driverWrite")
    /\ payment' = [payment EXCEPT !.status = "CAPTURED", !.ref = "driver_confirmed"]
    /\ vouched' = vouched \cup {"driver_confirmed"}
    /\ Finish(r)
    /\ UNCHANGED <<trip, issued, shown>>

\* (external) Somebody pays on the checkout page of a gateway's order, whether or
\* not the app still shows it.
PayAtGateway(g) ==
    /\ issued[g] # "NONE" /\ g \notin vouched
    /\ vouched' = vouched \cup {g}
    /\ UNCHANGED <<rows, issued, shown, req>>

\* (variant) The gateway's own word is stored.
OutcomeVerbatim(p, event) == IF event = "other" /\ p = "CASHFREE" THEN "NONE" ELSE event

\* What a webhook makes of an event.  Razorpay's takes every event that is not a
\* success for a failure; Cashfree's does nothing ("NONE") when it knows no better.
Outcome(p, event) ==
    IF event = "success" THEN "CAPTURED"
    ELSE IF event = "failure" \/ p = "RAZORPAY" THEN "FAILED"
    ELSE "NONE"

\* A webhook of order id g arrives: late, repeated, in any order.  A gateway reports
\* success only for what has been paid, and failure for any earlier attempt.
Webhook(r, g, event) ==
    /\ At(r, "idle")
    /\ issued[g] # "NONE"
    /\ event = "success" => g \in vouched
    /\ payment.status # "NONE" /\ payment.provider = issued[g] /\ payment.ref = g
    /\ Outcome(issued[g], event) # "NONE"
    /\ req' = [req EXCEPT ![r] = Decide(Outcome(issued[g], event))]
    /\ UNCHANGED <<rows, outside>>

WebhookWrite(r) ==
    /\ At(r, "webhookWrite")
    /\ payment' = [payment EXCEPT !.status = req[r].status]
    /\ Finish(r)
    /\ UNCHANGED <<trip, outside>>

-------------------------------------------------------------------------------
(* TripsService.complete, as far as it concerns the payment. *)

Complete(r) ==
    /\ At(r, "idle")
    /\ trip = "IN_TRANSIT"
    /\ req' = [req EXCEPT ![r].pc = "completeGuard"]
    /\ UNCHANGED <<rows, outside>>

\* (variant) Only a pending payment is waited for.
SettleableUnlessPending == payment.status # "PENDING" \/ payment.provider = "WALLET"

\* No payment yet, or cash, or captured.  (That a direct UPI payment must be
\* captured is tested first, for the sake of its message.)
Settleable == \/ payment.status \in {"NONE", "CAPTURED"}
              \/ payment.provider = "WALLET"

CompleteGuard(r) ==
    /\ At(r, "completeGuard")
    /\ IF Settleable THEN req' = [req EXCEPT ![r].pc = "completeCommit"] ELSE Finish(r)
    /\ UNCHANGED <<rows, outside>>

\* In one transaction the trip ends, and cash is taken for collected by the driver:
\* a payment row is made up if there is none.
CompleteCommit(r) ==
    /\ At(r, "completeCommit")
    /\ trip' = "COMPLETED"
    /\ payment' = IF payment.status = "NONE"
                  THEN [provider |-> "WALLET", status |-> "CAPTURED",
                        ref |-> "driver_collected", direct |-> FALSE]
                  ELSE IF payment.provider = "WALLET"
                  THEN [payment EXCEPT !.status = "CAPTURED"]
                  ELSE payment
    /\ vouched' = IF payment'.provider = "WALLET" THEN vouched \cup {payment'.ref} ELSE vouched
    /\ Finish(r)
    /\ UNCHANGED <<issued, shown>>

-------------------------------------------------------------------------------
\* The process stops, or an await throws, between two round trips.
Fail(r) ==
    /\ req[r].pc # "idle"
    /\ Finish(r)
    /\ UNCHANGED <<rows, outside>>

Step(r) ==
    \/ \E p \in PaymentProvider, d \in BOOLEAN : CreateIntent(r, p, d)
    \/ \E g \in GatewayOrders : IntentGatewayRef(r, g)
    \/ IntentUpiRef(r)
    \/ \E ref \in LocalRefs, success \in BOOLEAN : Confirm(r, ref, success)
    \/ DriverConfirm(r) \/ DriverConfirmWrite(r)
    \/ \E g \in GatewayOrders, event \in {"success", "failure", "other"} : Webhook(r, g, event)
    \/ WebhookWrite(r)
    \/ Complete(r) \/ CompleteGuard(r) \/ CompleteCommit(r)
    \/ Fail(r)

Next == (\E r \in Requests : Step(r)) \/ (\E g \in GatewayOrders : PayAtGateway(g))

Spec == Init /\ [][Next]_vars

-------------------------------------------------------------------------------
\* The values the columns, the calls in flight and the history may have.
TypeOK ==
    /\ payment \in Payment
    /\ trip \in {"IN_TRANSIT", "COMPLETED"}
    /\ issued \in [GatewayOrders -> Gateways \cup {"NONE"}]
    /\ shown \subseteq LocalRefs
    /\ vouched \subseteq GatewayOrders \cup LocalRefs
    /\ req \in [Requests -> Request]

\* A captured payment names a reference that the gateway, the customer or the driver
\* has reported paid: switching intents, repeated and late reports never credit an
\* intent nobody paid.  Crashes included; overlapping calls are not (a webhook that
\* has found its payment credits the intent that replaced it).
CapturedIsVouched == payment.status = "CAPTURED" => payment.ref \in vouched

\* A trip is completed only with its payment captured, as the refusal of complete says:
\* "Payment is still pending. Ask customer to complete payment before marking trip
\* delivered."
DeliveryIsPaid == [][trip' # trip => payment'.status = "CAPTURED"]_vars

\* What a request relies on, when there is one request at a time.
Sound(r) ==
    /\ At(r, "intentRef") => payment.status = "PENDING"
    /\ At(r, "webhookWrite") /\ req[r].status = "CAPTURED" => payment.ref \in vouched
    /\ At(r, "completeCommit") => Settleable

IInv == TypeOK /\ CapturedIsVouched /\ \A r \in Requests : Sound(r)
===============================================================================
