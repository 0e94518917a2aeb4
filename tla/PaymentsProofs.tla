----------------------------- MODULE PaymentsProofs -----------------------------
(***************************************************************************)
(* Payments for every number of gateway orders.  Neither property is       *)
(* inductive: a webhook writes what it decided a step ago, and a           *)
(* completion trusts what it read a step ago.  IInv says what each of them *)
(* relies on, with one request at a time: then the only other steps are    *)
(* the customer's payments at a gateway.  What a completion relies on is   *)
(* followed for any overlap: few of the other requests can undo it.        *)
(***************************************************************************)
EXTENDS Payments, TLAPS

\* No two requests are in flight together.
Sequential == \A r, s \in Requests : r = s

LEMMA InitInv == Init => IInv
  BY DEF Init, IInv, TypeOK, CapturedIsVouched, Sound, At, Free, Payment, Request,
         PaymentProvider, PaymentStatus, Gateways, LocalRefs

\* Every step keeps the types, however many requests there are.
LEMMA TypeStep == TypeOK /\ [Next]_vars => TypeOK'
  <1> SUFFICES ASSUME TypeOK, [Next]_vars PROVE TypeOK'
    OBVIOUS
  <1> USE DEF TypeOK, Payment, Request, Free, Finish, At, rows, outside
  <1> USE DEF PaymentProvider, PaymentStatus, Gateways, LocalRefs
  <1>1. ASSUME NEW r \in Requests, NEW p \in PaymentProvider, NEW d \in BOOLEAN,
               CreateIntent(r, p, d)
        PROVE TypeOK'
    <2>1. Ask(p, d) \in Request /\ Free \in Request
      BY DEF Ask
    <2>2. req' \in [Requests -> Request]
      BY <1>1, <2>1 DEF CreateIntent
    <2> QED  BY <1>1, <2>2 DEF CreateIntent
  <1>2. ASSUME NEW r \in Requests, NEW g \in GatewayOrders, IntentGatewayRef(r, g)
        PROVE TypeOK'
    BY <1>2 DEF IntentGatewayRef
  <1>3. ASSUME NEW r \in Requests, IntentUpiRef(r) PROVE TypeOK'
    BY <1>3 DEF IntentUpiRef, UpiRef
  <1>4. ASSUME NEW r \in Requests, NEW ref \in LocalRefs, NEW success \in BOOLEAN,
               Confirm(r, ref, success)
        PROVE TypeOK'
    BY <1>4 DEF Confirm
  <1>5. ASSUME NEW r \in Requests, DriverConfirm(r) PROVE TypeOK'
    BY <1>5 DEF DriverConfirm
  <1>6. ASSUME NEW r \in Requests, DriverConfirmWrite(r) PROVE TypeOK'
    BY <1>6 DEF DriverConfirmWrite
  <1>7. ASSUME NEW r \in Requests, NEW g \in GatewayOrders,
               NEW event \in {"success", "failure", "other"}, Webhook(r, g, event)
        PROVE TypeOK'
    <2>1. Outcome(issued[g], event) \in PaymentStatus
      BY <1>7 DEF Webhook, Outcome
    <2>2. Decide(Outcome(issued[g], event)) \in Request
      BY <2>1 DEF Decide
    <2> QED  BY <1>7, <2>2 DEF Webhook
  <1>8. ASSUME NEW r \in Requests, WebhookWrite(r) PROVE TypeOK'
    BY <1>8 DEF WebhookWrite
  <1>9. ASSUME NEW r \in Requests, Complete(r) PROVE TypeOK'
    BY <1>9 DEF Complete
  <1>10. ASSUME NEW r \in Requests, CompleteGuard(r) PROVE TypeOK'
    <2>1. CASE Settleable
      BY <1>10, <2>1 DEF CompleteGuard
    <2>2. CASE ~Settleable
      <3>1. req' = [req EXCEPT ![r] = Free] /\ UNCHANGED <<rows, outside>>
        BY <1>10, <2>2 DEF CompleteGuard
      <3> QED  BY <3>1
    <2> QED  BY <2>1, <2>2
  <1>11. ASSUME NEW r \in Requests, CompleteCommit(r) PROVE TypeOK'
    BY <1>11 DEF CompleteCommit
  <1>12. ASSUME NEW r \in Requests, Fail(r) PROVE TypeOK'
    BY <1>12 DEF Fail
  <1>13. ASSUME NEW g \in GatewayOrders, PayAtGateway(g) PROVE TypeOK'
    BY <1>13 DEF PayAtGateway
  <1>14. CASE UNCHANGED vars
    BY <1>14 DEF vars
  <1> HIDE DEF TypeOK, Payment, Request, Free, Finish, At, rows, outside
  <1> QED
    BY <1>1, <1>2, <1>3, <1>4, <1>5, <1>6, <1>7, <1>8, <1>9, <1>10, <1>11, <1>12,
       <1>13, <1>14 DEF Next, Step

\* A step of the only request in flight: captured money stays vouched for, and
\* what the request relies on next is true.
LEMMA SafeStep ==
    ASSUME Sequential, IInv, [Next]_vars
    PROVE  CapturedIsVouched' /\ \A r \in Requests : Sound(r)'
  <1> USE DEF IInv, CapturedIsVouched, Sound, At, Finish, Free, rows, outside
  <1>0. TypeOK' /\ TypeOK
    BY TypeStep
  <1>a. ASSUME NEW r \in Requests, CapturedIsVouched', Sound(r)'
        PROVE CapturedIsVouched' /\ \A s \in Requests : Sound(s)'
    BY <1>a, \A s \in Requests : s = r DEF Sequential
  <1> DEFINE Safe == CapturedIsVouched' /\ \A s \in Requests : Sound(s)'
  <1> HIDE DEF Safe
  <1> USE DEF TypeOK
  <1>1. ASSUME NEW r \in Requests, NEW p \in PaymentProvider, NEW d \in BOOLEAN,
               CreateIntent(r, p, d)
        PROVE Safe
    <2>1. CapturedIsVouched' /\ Sound(r)'
      BY <1>0, <1>1 DEF CreateIntent, Ask
    <2> QED  BY <2>1, <1>a DEF Safe
  <1>2. ASSUME NEW r \in Requests, NEW g \in GatewayOrders, IntentGatewayRef(r, g)
        PROVE Safe
    <2>1. CapturedIsVouched' /\ Sound(r)'
      BY <1>0, <1>2 DEF IntentGatewayRef, Payment
    <2> QED  BY <2>1, <1>a DEF Safe
  <1>3. ASSUME NEW r \in Requests, IntentUpiRef(r) PROVE Safe
    <2>1. CapturedIsVouched' /\ Sound(r)'
      BY <1>0, <1>3 DEF IntentUpiRef, Payment
    <2> QED  BY <2>1, <1>a DEF Safe
  <1>4. ASSUME NEW r \in Requests, NEW ref \in LocalRefs, NEW success \in BOOLEAN,
               Confirm(r, ref, success)
        PROVE Safe
    <2>1. CapturedIsVouched' /\ Sound(r)'
      BY <1>0, <1>4 DEF Confirm, Payment
    <2> QED  BY <2>1, <1>a DEF Safe
  <1>5. ASSUME NEW r \in Requests, DriverConfirm(r) PROVE Safe
    <2>1. CapturedIsVouched' /\ Sound(r)'
      BY <1>0, <1>5 DEF DriverConfirm
    <2> QED  BY <2>1, <1>a DEF Safe
  <1>6. ASSUME NEW r \in Requests, DriverConfirmWrite(r) PROVE Safe
    <2>1. CapturedIsVouched' /\ Sound(r)'
      BY <1>0, <1>6 DEF DriverConfirmWrite, Payment
    <2> QED  BY <2>1, <1>a DEF Safe
  <1>7. ASSUME NEW r \in Requests, NEW g \in GatewayOrders,
               NEW event \in {"success", "failure", "other"}, Webhook(r, g, event)
        PROVE Safe
    <2>1. CapturedIsVouched' /\ Sound(r)'
      BY <1>0, <1>7 DEF Webhook, Outcome, Decide, Request
    <2> QED  BY <2>1, <1>a DEF Safe
  <1>8. ASSUME NEW r \in Requests, WebhookWrite(r) PROVE Safe
    <2>1. CapturedIsVouched' /\ Sound(r)'
      BY <1>0, <1>8 DEF WebhookWrite, Payment
    <2> QED  BY <2>1, <1>a DEF Safe
  <1>9. ASSUME NEW r \in Requests, Complete(r) PROVE Safe
    <2>1. CapturedIsVouched' /\ Sound(r)'
      BY <1>0, <1>9 DEF Complete
    <2> QED  BY <2>1, <1>a DEF Safe
  <1>10. ASSUME NEW r \in Requests, CompleteGuard(r) PROVE Safe
    <2>1. CapturedIsVouched' /\ Sound(r)'
      BY <1>0, <1>10 DEF CompleteGuard, Settleable, Request
    <2> QED  BY <2>1, <1>a DEF Safe
  <1>11. ASSUME NEW r \in Requests, CompleteCommit(r) PROVE Safe
    <2>1. CapturedIsVouched' /\ Sound(r)'
      BY <1>0, <1>11 DEF CompleteCommit, Payment
    <2> QED  BY <2>1, <1>a DEF Safe
  <1>12. ASSUME NEW r \in Requests, Fail(r) PROVE Safe
    <2>1. CapturedIsVouched' /\ Sound(r)'
      BY <1>0, <1>12 DEF Fail
    <2> QED  BY <2>1, <1>a DEF Safe
  <1>13. ASSUME NEW g \in GatewayOrders, PayAtGateway(g) PROVE Safe
    BY <1>13 DEF PayAtGateway, Safe, Settleable
  <1>14. CASE UNCHANGED vars
    BY <1>14 DEF vars, Safe, Settleable
  <1> QED
    BY <1>1, <1>2, <1>3, <1>4, <1>5, <1>6, <1>7, <1>8, <1>9, <1>10, <1>11, <1>12,
       <1>13, <1>14 DEF Next, Step, Safe

\* The values of rows and requests are of their types, overlapping or not.
THEOREM PaymentTypes == Spec => []TypeOK
  <1>1. Init => TypeOK
    BY InitInv DEF IInv
  <1> QED
    BY <1>1, TypeStep, PTL DEF Spec

\* IInv is inductive for requests that do not overlap.
THEOREM PaymentInvariant == ASSUME Sequential PROVE Spec => []IInv
  <1>1. IInv /\ [Next]_vars => IInv'
    BY SafeStep, TypeStep DEF IInv
  <1> QED
    BY <1>1, InitInv, PTL DEF Spec

\* Captured money is money somebody reported paid on the very reference the row names:
\* no order of intents, reports, webhooks and crashes credits an unpaid intent.
THEOREM CapturedIsVouchedAlways == ASSUME Sequential PROVE Spec => []CapturedIsVouched
  <1>1. IInv => CapturedIsVouched
    BY DEF IInv
  <1> QED
    BY <1>1, PaymentInvariant, PTL

-------------------------------------------------------------------------------
(* Completions, whatever overlaps. *)

\* A completion is between its guard and its transaction.
PastGuard == \E r \in Requests : At(r, "completeCommit")

\* The customer asks for an intent that is not cash, answers that a UPI payment failed,
\* or a webhook writes anything but a capture.
Unsettles ==
    \E r \in Requests :
        \/ \E p \in PaymentProvider \ {"WALLET"}, d \in BOOLEAN : CreateIntent(r, p, d)
        \/ \E ref \in LocalRefs : Confirm(r, ref, FALSE)
        \/ WebhookWrite(r) /\ req[r].status # "CAPTURED"

\* What a completion past its guard relies on.
Guarded == PastGuard => Settleable

LEMMA GuardedStep ==
    ASSUME TypeOK, Guarded, [Next]_vars, PastGuard => ~Unsettles
    PROVE  Guarded'
  <1>0. /\ payment \in Payment /\ req \in [Requests -> Request]
        /\ TypeOK'
    BY TypeStep DEF TypeOK
  <1> USE DEF Guarded, PastGuard, Settleable, At, Finish, Free, rows, outside
  <1>1. ASSUME NEW r \in Requests, NEW p \in PaymentProvider, NEW d \in BOOLEAN,
               CreateIntent(r, p, d)
        PROVE Guarded'
    <2>1. PastGuard' => PastGuard
      BY <1>0, <1>1 DEF CreateIntent, Ask
    <2>2. CASE p = "WALLET"
      BY <1>1, <2>2 DEF CreateIntent
    <2>3. CASE p # "WALLET"
      BY <1>1, <2>1, <2>3 DEF Unsettles
    <2> QED  BY <2>2, <2>3
  <1>2. ASSUME NEW r \in Requests, NEW g \in GatewayOrders, IntentGatewayRef(r, g)
        PROVE Guarded'
    BY <1>0, <1>2 DEF IntentGatewayRef, Payment
  <1>3. ASSUME NEW r \in Requests, IntentUpiRef(r) PROVE Guarded'
    BY <1>0, <1>3 DEF IntentUpiRef, Payment
  <1>4. ASSUME NEW r \in Requests, NEW ref \in LocalRefs, NEW success \in BOOLEAN,
               Confirm(r, ref, success)
        PROVE Guarded'
    <2>1. CASE success
      BY <1>0, <1>4, <2>1 DEF Confirm, Payment
    <2>2. CASE ~success
      <3>1. success = FALSE
        BY <2>2
      <3>2. PastGuard' => PastGuard
        BY <1>4 DEF Confirm
      <3> QED  BY <1>4, <3>1, <3>2 DEF Unsettles
    <2> QED  BY <2>1, <2>2
  <1>5. ASSUME NEW r \in Requests, DriverConfirm(r) PROVE Guarded'
    BY <1>0, <1>5 DEF DriverConfirm
  <1>6. ASSUME NEW r \in Requests, DriverConfirmWrite(r) PROVE Guarded'
    BY <1>0, <1>6 DEF DriverConfirmWrite, Payment
  <1>7. ASSUME NEW r \in Requests, NEW g \in GatewayOrders,
               NEW event \in {"success", "failure", "other"}, Webhook(r, g, event)
        PROVE Guarded'
    BY <1>0, <1>7 DEF Webhook, Decide
  <1>8. ASSUME NEW r \in Requests, WebhookWrite(r) PROVE Guarded'
    <2>1. PastGuard' => PastGuard
      BY <1>0, <1>8 DEF WebhookWrite
    <2>2. CASE req[r].status # "CAPTURED"
      BY <1>8, <2>1, <2>2 DEF Unsettles
    <2>3. CASE req[r].status = "CAPTURED"
      BY <1>0, <1>8, <2>3 DEF WebhookWrite, Payment
    <2> QED  BY <2>2, <2>3
  <1>9. ASSUME NEW r \in Requests, Complete(r) PROVE Guarded'
    BY <1>0, <1>9 DEF Complete
  <1>10. ASSUME NEW r \in Requests, CompleteGuard(r) PROVE Guarded'
    BY <1>0, <1>10 DEF CompleteGuard
  <1>11. ASSUME NEW r \in Requests, CompleteCommit(r) PROVE Guarded'
    BY <1>0, <1>11 DEF CompleteCommit, Payment
  <1>12. ASSUME NEW r \in Requests, Fail(r) PROVE Guarded'
    BY <1>0, <1>12 DEF Fail
  <1>13. ASSUME NEW g \in GatewayOrders, PayAtGateway(g) PROVE Guarded'
    BY <1>13 DEF PayAtGateway
  <1>14. CASE UNCHANGED vars
    BY <1>14 DEF vars
  <1> HIDE DEF Guarded, PastGuard, Settleable, At, Finish, Free, rows, outside
  <1> QED
    BY <1>1, <1>2, <1>3, <1>4, <1>5, <1>6, <1>7, <1>8, <1>9, <1>10, <1>11, <1>12,
       <1>13, <1>14 DEF Next, Step

\* No overlap of any number of requests leaves a delivered order unpaid but these three:
\* between the guard of complete and its transaction the customer asks for a new intent,
\* the customer reports a failed payment, or a webhook does.  Other completions, the
\* driver's confirmation, references that come late and captures do no harm.
THEOREM DeliveryPaid == Spec /\ [][PastGuard => ~Unsettles]_vars => DeliveryIsPaid
  <1> DEFINE Left == [PastGuard => ~Unsettles]_vars
             Good == TypeOK /\ Guarded
  <1>1. Init => Good
    BY InitInv DEF Init, Free, At, IInv, Guarded, PastGuard
  <1>2. Good /\ [Next]_vars /\ Left => Good'
    <2>1. ASSUME Good, UNCHANGED vars PROVE Good'
      <3>1. TypeOK'
        BY <2>1, TypeStep
      <3> QED  BY <2>1, <3>1 DEF Guarded, PastGuard, Settleable, At, vars
    <2> QED  BY <2>1, TypeStep, GuardedStep
  <1>3. Good /\ [Next]_vars => [trip' # trip => payment'.status = "CAPTURED"]_vars
    <2> SUFFICES ASSUME Good, Next, trip' # trip PROVE payment'.status = "CAPTURED"
      BY DEF vars
    <2>1. PICK r \in Requests : CompleteCommit(r)
      BY DEF Next, Step, CreateIntent, IntentGatewayRef, IntentUpiRef, Confirm, DriverConfirm,
             DriverConfirmWrite, Webhook, WebhookWrite, Complete, CompleteGuard, Fail,
             PayAtGateway, rows, outside
    <2>2. Settleable /\ payment \in Payment
      BY <2>1 DEF CompleteCommit, Guarded, PastGuard, TypeOK
    <2> QED
      BY <2>1, <2>2 DEF CompleteCommit, Settleable, Payment
  <1> QED
    BY <1>1, <1>2, <1>3, PTL DEF Spec, DeliveryIsPaid
===============================================================================
