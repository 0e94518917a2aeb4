# TLA+ models of the SamaanGaadi backend

SamaanGaadi (Qargo) is a goods-transport marketplace: customers book a vehicle, drivers accept
offers, the backend (NestJS, Postgres through Prisma, Redis) matches them and follows the trip. This
directory models the backend's services, checks the models with TLC and proves the central safety
properties with TLAPS. All source paths below are relative to `src/apps/backend/src/modules/`
unless they start with `docs/` or `apps/`.

There are five machines. `Rides` is how an order finds its driver, `Payments` how it is paid, `Shift` what a
driver's app and the search indexes show of the driver, `Desk` the support desk with its AI agent, and
`Enrolment` how a driver logs in, is approved and says how to be paid. They share rows only where noted below.

## The system

| Component | State | Operations | Talks to |
| --- | --- | --- | --- |
| Orders (`orders/`) | `Order` rows | estimate, create, findById (restarts the search), list, timeline, cancel, e-way bill | dispatch, pricing, Redis (start OTP) |
| Dispatch (`dispatch/`) | `TripOffer`, `DispatchDecision` rows, Redis `driver:{id}:next-order` | assignOrder, acceptOffer, rejectOffer, processExpiredOffers, queueNextJobForDriver, activateQueuedJob, runScheduledDispatch | drivers (geo search), trips, notifications |
| Driver app (`apps/driver/`) | what it shows: signed in, availability, current job | bootstrap, polls, position watcher, switch, trip button, sign-out | drivers, trips, dispatch, auth |
| Trips (`trips/`) | `Trip`, `TripDeliveryProof`, `Rating` rows, Redis `trip:{id}:start-otp` | accept, arrivedPickup, startLoading, startTransit, complete, rate, sos | dispatch (queue), payments (guard of complete) |
| Drivers (`drivers/`) | `DriverProfile` rows, Redis geo sets `drivers:online`, `drivers:busy` | updateLocation, setAvailability, findNearby, jobs, approve, plans, earnings | realtime |
| Payments (`payments/`) | `Payment` rows, one per order | createIntent, confirm, driverConfirmDirectUpiPayment, two webhooks | gateways |
| Onboarding (`driver-onboarding/`), KYC (`kyc/`) | onboarding, documents, verifications, payout accounts, payment methods | submit, verify, approve, reject, choose a payment method | KYC provider |
| Admin AI (`admin-ai/`) | sessions, runs, proposed actions | propose, confirm and execute, reject | support |
| Support (`support/`) | tickets, messages | create, reply, change status | notifications |
| Auth (`auth/`) | `OtpSession`, `AuthSession` rows | request and verify an OTP, logout | SMS, e-mail |
| Pricing, insurance, maps, route ETA, e-way bill, notifications, realtime, users, health, app config, admin console | little or none | computations, proxies, best-effort delivery | providers |

The services share one database and one Redis and call each other in process. There is no lock and
hardly a conditional write: a handler reads a row, awaits, and writes by id. Exclusion comes from
short transactions and two unique columns (`Trip.orderId`, `Payment.orderId`). Several server
processes, or just several requests on one event loop, interleave at every `await`. No worker runs:
expired offers and scheduled orders are only handled when somebody calls an endpoint
(`docs/SCALE_READINESS_10K_RIDES.md:36-37`); what keeps a search going is the customer's app, which asks
for the order every five seconds (`apps/mobile/src/screens/customer/CustomerTrackingScreen.tsx:361`).

What is hard, then: two drivers accepting one order; two searches of one order; a cancellation against an
acceptance or a departure; crashes between a transaction and the Redis write that completes it; a Redis
slot that expires, is overwritten or outlives its trip; a geo index that shows what a driver was; and the
progress of a search that nothing but polls drives; an app that shows answers in the order they arrive; a one-time code
that is stored, shown, compared and deleted by different handlers; a ticket status computed before a translation
and written after it; an action confirmed twice; an approval that copies data changed since it was verified. `PROJECT.json`
lists each at its line under "hazards", with the property that covers it or the reason none does.

What makes each component correct:

- dispatch: an order goes to one driver, who was offered it, and stays with that driver; offers go to
  drivers who can do the job and were not asked before; the search reaches everyone it should;
- orders: the customer's status agrees with the trip; cancellation is final and complete; a booking limit;
- trips: the customer's status moves with the trip's, only a ride in transit is delivered, the queued job is started while it waits. That
  a trip only moves forward is *not* a promise of the code: see `isolated` below;
- drivers: the geo index follows the stored availability, a driver is in one index; the app follows the server;
- payments: captured money is never forgotten, a delivered order is paid;
- onboarding and KYC: a driver works under verified, approved data; one preferred payment method;
- admin AI: an action runs at most once, after confirmation; support: a customer's message is not
  filed away unread; auth: a code logs in once.

## Modules

| Module | Models |
| --- | --- |
| `RideStore` | The rows and keys the four ride services share, and requests in flight; types and `Init` |
| `DispatchService` | `dispatch/dispatch.service.ts`, one action per round trip; time |
| `OrderService` | `orders/orders.service.ts`: create, findById, cancel; the endpoint that calls assignOrder |
| `TripService` | `trips/trips.service.ts`: the status machine and its effects |
| `DriverService` | `drivers/drivers.service.ts`: availability and the geo index |
| `Rides` | The composition: `Next`, fairness, crashes, isolation, all properties, the two refinement mappings, the inductive invariants |
| `Assignment` | The abstract specification of dispatch: orders are offered, and given once |
| `Lifecycle` | The abstract specification of an order: its status and its trip's move together, where the driver says; given once, cancelled before the driver sets out |
| `RidesProofs` | The theorems about `Rides` with any overlap |
| `IsolationProofs` | The theorems about `Rides` while the requests about one order do not overlap |
| `Payments` | `payments/payments.service.ts` and the payment guard of `TripsService.complete`, for one order |
| `PaymentsProofs` | The theorems about `Payments` |
| `ShiftStore` | One driver's row, geo indexes, trip and start OTP; what the apps show; requests |
| `Presence` | `drivers/drivers.service.ts`, Redis command by Redis command: availability, location, approval, the rebuild at start |
| `TripStart` | The trip's buttons and the start OTP: `trips/`, `attachTripStartOtp` of `orders/`, the code of `acceptOffer` |
| `DriverApp` | `apps/driver/src/store/useDriverAppStore.ts` and the timers that call it |
| `Shift` | The composition of the three: faults, fairness, properties, `IInv` |
| `SupportTickets` | `support/support.service.ts`, one ticket |
| `AgentActions` | `admin-ai/`: one run, its proposals and the admins' decisions |
| `Desk` | The composition: an executed action changes the ticket |
| `EnrolmentStore` | One driver's codes, onboarding row, profile, payment methods and verifications; requests |
| `OtpLogin` | `auth/auth.service.ts`: request and redeem a code |
| `DriverOnboarding` | `driver-onboarding/driver-onboarding.service.ts`: data, status, payment methods |
| `Kyc` | `kyc/kyc.service.ts` and the onboarding service's approval and rejection |
| `Enrolment` | The composition of the three: faults, properties, `IInv` |
| `ShiftProofs`, `DeskProofs`, `EnrolmentProofs` | The theorems about them |
| `MCRides`, `MCPayments`, `MCShift`, `MCDesk`, `MCEnrolment` | The small instances TLC checks |

### State

`order[o]`, `offer[f]`, `trip[o]`, `avail[d]` are the rows (`Order.status`, `TripOffer`, `Trip`,
`DriverProfile.availabilityStatus`); `geo[d]` says which Redis geo set lists the driver, `nextOrder[d]` is the
driver's queue slot, `due` the orders whose `scheduledAt` has passed. The trip is indexed by its order since
`Trip.orderId` is unique. Times are reduced to what the code asks of them: an offer is `overdue` or not.

`req[r]` is a request in flight: `pc` names the round trip it makes next, and the other fields are the values it has
read and still uses (the order, the driver, the offer; the drivers already tried; the batch of a sweep). A
handler's first action (`AcceptOffer`, `CancelOrder`, ...) is its first read and enters a slot; each further
database or Redis round trip is one action (`AcceptFindTrip`, `AcceptCommit`, `AcceptCount`,
`AcceptQueue`), a Prisma transaction is one action, and the last one frees the slot. Between any two, the steps
of other requests happen. Round trips that read only what cannot change (an order's vehicle type, a trip's
driver), that write only logs, or that nothing in the model depends on, are folded into a neighbour. Reading
the candidates (two geo searches, the drivers' rows, the queue slots and pending offers) is one action
(`Pick`); the drivers already tried were read before it, and the offer is inserted after it.

`Fail` ends a request between two round trips: a restart of the process, or an await that throws.

`Payments` is a machine of its own, since rides and payments share no more than the completion of a trip: `TripService`
leaves open whether the guard lets the driver through (the call is made or not), and `Payments` starts with
the trip in transit, has the guard, and leaves the driver's other rows out. `payment` is the row, `req[r]` a request as
above. A provider reference is a gateway's order id (fresh, `GatewayOrders` bounds them) or one of the service's own forms.
Three variables are not the service's: `issued`, which gateway gave out an order id; `shown`, the UPI references that the customer's
app may still confirm; `vouched`, the references reported paid, by a gateway that took money (`PayAtGateway`), by the
customer or by the driver. A webhook may come at any time for any order id ever issued, and again: that is
lateness, repetition and reordering. Amounts are left out.

`Shift` has one driver and one trip, and looks closer than `Rides` can: `syncGeoIndex` is three commands, the rebuild at
start is one per command, a jobs poll is two reads and a display. `listed` is the set of geo indexes that name the driver,
`view` what the app shows, `shown` the code on the customer's screen. The history variable `lagging` is raised by what the
code lets the indexes miss (an acceptance, a completion, a decision of the admin, overlapping presence calls, a crash inside
one) and lowered when a presence call that was `alone` from its first step ends, or the rebuild does. Trips do to
offers and orders what `Rides` says; here only their effect on availability and on the OTP counts.

A press of the driver's trip button may find the trip in any status (`Called` in `TripService`): the app's view is some seconds old, and
`accept`, `arrivedPickup`, `startLoading` and `startTransit` test the caller and nothing else (`trips/trips.service.ts:286-309`, `316`, `350`, `397`).

`Desk` has one ticket and one run. `message[r]` is the status a customer's message has read before its translation, `update[r]` the one that
`adminUpdateStatus` has read before its transaction, which writes a status whatever the ticket has become and adds a message only if that status differs from
what was read, or if there is a note (`support/support.service.ts:693-717`). Three histories go with them: `unanswered`, the latest message is the
customer's; `missed`, the updates that had read when it came; `overlooked`, one of those has been written without a message. `runner` is
`processRun`'s own state, `action` the rows it leaves, `call[r]` an admin's confirmation or rejection, step by step. The model's
answers and the tools' results are open choices. `ran` counts how often an action's tool took effect; `contested` names
actions whose decisions overlapped or died, `unsettled` says so of the run.

`Enrolment` has one driver. A request's kind says which areas (`login`, `methods`, `kyc`) it `Touches`; `crossed` collects the
areas in which two requests overlapped, or, for `kyc`, one died half done. Each property is about the areas not crossed, so it
says what a deployment keeps as long as one driver's requests of one kind do not overlap, *with* requests of the other
areas in between. A vehicle stands for the registration, type and licence data that approval copies.

In these three machines `Mixes` bounds what happens in one behaviour: a mix is a set of events, and a behaviour has the
events of one. It is a bound of the instances only; the proofs are for any.

Data is abstract: distances, ETAs, ratings, scores and the fairness penalties decide which of the candidates
comes first, so `Pick` may take any of the online ones, or, if there is none, any queue-safe busy one or
none. Vehicle types are ranks 1 to 3, as `vehicleRank` has them.

Definitions marked "(variant)" in a comment are not the code. Each is the definition below it with one plausible
mistake, kept because a run of the project finds the mistake: that shows what the property is able to notice.
No action of `Next` uses one.

## What is checked

All runs of `MCRides` use two drivers at most with vehicles that fit, unless the question is about vehicles, and an endpoint takes part
only if the run's `Operations` name it; they name the passing deadlines (`offerTtl`, `slotTtl`) and crashes (`fail`) too. TLC reports no deadlock (`CHECK_DEADLOCK FALSE`): the system really stops
when every order has ended or the `Offers` of the instance are used up; a desk stops when its run has ended and nobody writes, an enrolment when the bounded rows are used up. The
payment of an order can always be started anew and an open app always polls, so the runs of `MCPayments` and `MCShift` do check for deadlock. Drivers, orders and requests are
symmetric in the safety runs, in `queue` only the requests.

| Run | Instance | Shows |
| --- | --- | --- |
| `races` | 1 order, 2 drivers, 3 offers, 2 requests; create, schedule, poll, assign, scheduled, accept, reject, sweep, cancel, arrive, load, location updates, passing deadlines, crashes | `TypeOK`; `AcceptedOfferIsTheTrip`, `RideHasTrip` and the refinement `ImplementsAssignment` survive every overlap of two requests and every crash |
| `queue` | 2 orders and 2 drivers of different vehicles, 3 offers, 2 requests; create, accept, the presses from departure to completion, cancel, slot expiry, crashes | `QueueSlotIsOwnTrip`: lost acceptances, overlapping completions and cancellations never leave another driver's order in a slot; `OffersFitOrFollow`: an order too large for a driver's vehicle is only offered to a driver who has carried a comparable one |
| `isolated` | 2 orders, 2 drivers, 3 offers, 2 requests that are never about one order; create, poll, accept, reject, sweep, cancel, the driver's presses in any status of the trip, completion, passing deadlines, crashes | the refinement `FollowsLifecycle`, `CancellationIsComplete`, `OrderFollowsTrip`, `QueuedJobIsWaiting`, `SearchSkipsTriedDrivers` when calls about an order do not overlap |
| `search` | 1 order, 2 drivers, 4 offers, 2 requests, fair; create, poll, cancel, availability changes | `SearchReachesDrivers`: while the order is open, every online driver with a fitting vehicle is eventually asked |
| `payments` | 1 order, 2 gateway orders, 1 request; every operation, crashes | `CapturedIsVouched`: no switch of intents and no late or repeated report credits an intent nobody paid; `DeliveryIsPaid`: a completed trip has its payment captured |
| `paymentRace` | the same with 2 requests | violation: an intent overtakes the guard of complete, the order is delivered unpaid |
| `shift` | 1 driver, 1 trip, 2 codes, 2 requests, 1 disturbance (crash, restart, admin decision, OTP expiry), 4 mixes, fair | `IndexFollowsAvailability`; `IndexRecovers`: whatever went wrong, a driver who keeps moving is put into the right index; `AppFollows`: late answers do not stick; `StartIsPossible`: a driver who has arrived can start |
| `desk` | 1 ticket, 1 run, 2 tool calls, 2 requests, 1 crash, 3 mixes, fair | `CustomerIsHeard` (but for an update that overlooked the message), `NothingUnconfirmed` with any overlap; `DecisionHolds`, `RunStatusIsTrue` for decisions one at a time; `RunEnds`: the limit ends every run |
| `enrolment` | 1 driver, 3 codes, 2 methods, 2 vehicles, 2 UPI ids, 2 verifications, 2 requests, 4 mixes | `CodeLogsInOnce`, `OnePreferred`, `ApprovedIsInForce`, `ApprovedWasVerified`, each for its area |
| `tried` | 1 order, 2 drivers, 2 requests; create, poll, sweep | violation: overlapping searches ask a driver twice |
| `vehicle` | 2 orders, 1 driver, 1 request; a ride up to transit | violation: the queue offers an order the vehicle is too small for |
| `cancel` | 1 order, 1 driver, 2 requests; create, poll, accept, depart, cancel | violation: a started trip is cancelled |

Why the bounds are enough. The races are between two requests that hold a stale reading of one order: two slots give
every overlap of two handlers, and the proofs below cover any number. Three offers allow a first offer, a re-offer and one
that overlaps; two orders allow a current and a queued ride.

`isolated` is about `IsolatedSpec`: a step writes nothing to an order that another request in flight is about (`Undisturbed`). The code
takes no such lock. Its properties are false without it (a late `SetMatching` overwrites the status an acceptance or a
cancellation wrote; a cancellation that read no trip leaves one behind; two searches pick one driver), which
`tried` and `cancel` show for the two cases where the repository promises otherwise. What remains, and is checked, is that no sequence of whole
calls breaks them, no crash inside one, no passing deadline, and no request about
another order, although such requests share the driver's queue slot and availability and a sweep is about several orders. A handler that only
ever runs alone is the special case of one request slot.

Much that one would wish for is false even then, and the properties are worded around it. One press on a driver's screen that is behind, with nothing
overlapping, puts a trip of whatever status back on its way: an earlier leg again, or a cancelled or delivered trip revived, and, but for `accept`, its order with it. So
`Lifecycle` has no order of legs and no final status; `CancellationIsComplete` allows a cancelled order the trip that its driver says is under way, and says nothing
more once the driver has moved the order too; `OrderFollowsTrip` allows an order any ride status, and CANCELLED, while the trip is DRIVER_EN_ROUTE, which `accept` writes
without the order. What is kept: order and trip change together otherwise, an order with a trip is never on the market again or given to
another driver, only a trip nobody has set out on is cancelled, only one in transit completed, and the queue starts only a job that is waiting.
The run leaves out an operator's `assign`, which may reopen a cancelled order and so breaks `CancellationIsComplete` in one call (the others hold with
it, and are proved with it), and, for size, booking ahead, loading and location updates. `search` has an offer to spare: the poll may use one
twice on a driver.

`payments` has one slot, since its properties are false with two: a webhook that has found its payment credits the intent that replaced it
meanwhile. Two gateway orders are an intent and the one that replaced it.

`shift`, `desk` and `enrolment` have two slots: every property they check is broken by two requests or by one and a fault.
Two codes are one shown and one that replaced it; two tool calls reach the limit within a response and after one; two methods are the
preferred one and another; three login codes are one used, one replaced and one standing. The mixes put together the events that touch the same rows
(in `shift`: presence with faults, presence with sign-in and sign-out, presence with an acceptance, the trip with
the OTP's faults); all events at once exceed what TLC can enumerate, and the proofs do not need it.
`DecisionHolds`, `RunStatusIsTrue` and the properties of `enrolment` are false without their "one at a time":
two confirmations of one action execute it twice, two verifications of one code log in twice. No document promises otherwise, so these are listed as
hazards and not as findings.

Fairness of `Rides` (`FairSpec`). A request in flight goes on (weak fairness of `Continue(r)`: the event loop runs it). An offer's
deadline passes (weak fairness of `OfferDeadline`). The customer's app polls an open order again and again, so
`FindById` is strongly fair: the request slots of the model are a bound on concurrency, not a resource of the code, and the poll
must not starve because a slot is taken at times. Nothing is assumed of drivers, operators or the sweep.

Fairness of `Shift`. Handlers finish (weak). The timers of an open app come back again and again, the customer's every five seconds, the driver's
every six: strong, since slots may be
taken. The position watcher is not fair: it reports nothing while the driver is parked (`distanceInterval`, `apps/driver/src/screens/tabs/HomeScreen.tsx:383`) or refuses
the permission. `IndexRecovers` has the movement as its hypothesis (`KeepsMoving`): for a parked driver a wrong index may stay wrong, until
the driver taps the switch or the server restarts. A driver at the pickup who has been told a code enters it again and again (strong, for that button only). Faults are never fair.
Of `Desk`: `processRun` goes on while its process lives, since the model's request and every database call return or throw (weak).
`RunEnds` therefore says that a run ends *or its process died*: nothing takes up a run left RUNNING.

Findings, each a run that TLC refutes:

1. `tried`: `docs/DRIVER_ALLOCATION_ALGORITHM.md:65` promises a re-offer to a candidate "not already tried"; the
   tried drivers are collected long before the offer is inserted (`dispatch.service.ts:538`, `956`).
2. `vehicle`: `queueNextJobForDriver` compares the vehicle types of two orders (`dispatch.service.ts:1014`), where
   the docs require a driver's vehicle to be an `EXACT` or `UPGRADE` match.
3. `cancel`: the test that refuses to cancel a started trip (`orders.service.ts:617`) is made on a row read before the
   transaction, which writes regardless.
4. `paymentRace`: the guard of `complete` ("Payment is still pending. Ask customer to complete payment before marking
   trip delivered.", `trips.service.ts:474`) reads the payment before the transaction, which reads it again and does not test it.

## What is proved

`RidesProofs` proves, for every set of orders, drivers, offers and requests, every assignment of vehicles and
every choice of endpoints:

- `TypeCorrect`, `AcceptedOfferSafe`, `RideHasTripAlways`, `QueueSlotSafe`: the invariants of runs `races` and `queue`;
- `Implementation`: `Spec => ImplementsAssignment`, every behaviour of the four services is one of `Assignment`;
- `OffersFitOrFollowAlways`: how far the misfits of finding 2 go. The invariant `FitInv` carries what a search has seen of the
  driver's vehicle, and the queue of the driver's orders, to the step that inserts the offer;
- `IdentityIsKept`: no step deletes an offer or a trip or gives it to another driver.

The assumptions are those of the modules: offer ids are naturals, vehicle ranks are 1 to 3, `None` is not a value,
the booking limit is a natural number.

The argument. None of the invariants is inductive: `AcceptCommit` writes an order, a driver and an offer
read several steps ago, and keeps `AcceptedOfferIsTheTrip` only if they still belong together. `IInv` adds `Sound`: what a
request relies on at each `pc` (its offer exists and is of its order and driver; its trip exists and is its driver's).
`Sound` survives the steps of other requests because offers and trips are never deleted and never change hands;
`Keeps` says so of a step, and `KindKeeps` derives it from the three kinds of step: `Quiet` (no offer or trip
appears), `Offered` (one offer appears) and `Given` (an order without a trip gets one). The proof has two halves:
`NextRows` shows that each action keeps the rows (`Data`) and is of one of the kinds, `NextFrames` that it
keeps the requests (`Frames`), given `Keeps`. The same three kinds are the refinement: a `Quiet` step stutters in `Assignment`, an
`Offered` step is `Offer`, a `Given` step is `Give`.

`IsolationProofs` proves, for every set of orders, drivers, offers and requests, what `isolated` checks:

| Theorem | States | Hypotheses |
| --- | --- | --- |
| `IsolatedInvariant` | `IsolatedSpec => [](IInv /\ CourseInv)` | none |
| `LifecycleImplemented` | `IsolatedSpec => FollowsLifecycle` | none |
| `OrderFollowsTripIsolated` | `IsolatedSpec => []OrderFollowsTrip` | none |
| `QueuedJobIsolated` | `IsolatedSpec => []QueuedJobIsWaiting` | none |
| `CancellationIsolated` | `IsolatedSpec => []CancellationIsComplete` | no `assign` |
| `NoLateCancellation` | `IsolatedSpec => NoCancellationOnceStarted` | none |
| `SearchSkipsTriedIsolated` | `IsolatedSpec => []SearchSkipsTriedDrivers` | none |
| `OneAtATimeIsIsolated` | `Spec => IsolatedSpec` | at most one request slot |

The driver's calls are free: any endpoint, in any status of the trip, any number of times. No `assign`: `assignOrder` does not look at the order's status
(`dispatch/dispatch.service.ts:499`), so an operator reopens a cancelled order. Isolation: runs `tried` and `cancel` are what happens without it.

The argument. `CourseInv` adds to `OrderFollowsTrip` that an offer still PENDING is of an order on the market (`PendingInMarket`: no trip, an open
status) and `OnCourse`: what each `pc` may still rely on, such as that a search wants an order on the market, a cancellation has the trip's driver or no trip as it
read them, a completion finds the trip in transit. That is what `Sound` cannot say, since it is about what changes. `CoursePersists`: a request that does not move keeps its course,
because the orders it is `About` are left alone. For the one that moves there are three looks at each step: it is a step of `Lifecycle` or a stutter (`LifeFollows` and the `...Step`
lemmas, one per action of `Lifecycle`), it leaves `Course` true of the rows (`NextCourse`), and its own next frame is on course (the `...Own` lemmas).
`NoLateCancellation` needs no invariant of its own: it is read off the refinement, since `Lifecycle` cancels only what has not set out.
`TriedInv` is separate: the drivers a search excludes are all that were offered the order, from the reading to the insertion.
`OneAtATimeIsIsolated` shows that the hypothesis is met by a backend that handles one call after another: a request in flight moves with every step but those
of time and presence (`ContinueMoves`), which write no row of an order (`EnvironmentSame`).

`PaymentsProofs` proves, for any number of gateway orders: `PaymentTypes`, with any overlap; `CapturedIsVouchedAlways`, assuming `Sequential` (no two
requests in flight together, which the theorem names as its hypothesis); and `DeliveryPaid`, with any overlap again. The inductive
invariant of the second adds to `CapturedIsVouched` what a request relies on between its steps: an intent being made is still
pending, a webhook about to credit was vouched for on the row's own reference, a completion about to commit may settle.
Only payments at a gateway can happen in between, and they vouch for more. `DeliveryPaid` closes in on what run `paymentRace` shows: a trip is completed unpaid
only if, between the guard of a completion and its transaction (`PastGuard`), a new intent that is not cash is created, the customer reports a failed payment, or a
webhook does (`Unsettles`); whatever else overlaps, however many requests, a completion past its guard finds the payment settled (`Guarded`).

`ShiftProofs` proves `ShiftTypes` and `IndexFollows` for any number of requests, codes and disturbances. What an index holds in the middle of
three commands depends on who else is writing, so `IInv` follows the presence calls that are `alone`: such a call is the only one (`Alone`), its status is the stored
one and the indexes are as far as its step says (`Synced`, `Boot`), it never lists a driver without a location (`Mapped`); a call that
is not alone runs only while `lagging` holds. `Answers` says where a stored code goes on.

`DeskProofs` proves the five invariants of `desk` for any limit on tool calls and any number of admins: `DeskTypes`, `CustomerHeard`, `ConfirmedFirst`,
`DecisionsHold`, `RunStatusTrue`. For the ticket, `IInv` adds that what an update has read since the customer's last message is a status the customer is heard under
(`Seen`): without a message it can only write that one again. For the run it adds what is true of calls not made yet (`Fresh`), what a decision in flight knows of its row (`Known`), that an
uncontested action has one decision (`Sole`), how far that one has come (`Course`), and how the run's status follows from the rows (`Settled`).

`EnrolmentProofs` proves the five invariants of `enrolment` for any number of requests, codes, methods and verifications. `Staged` says what a request carries at each
step, `Sole` that an uncrossed area has one request, and `LoginCourse`, `MethodCourse` and `KycCourse` that what this one has read is still
true. A step keeps the course of its own area (`LoginStep`, `MethodStep`, `KycStep`); that it keeps those of the others is a frame
lemma each (`LoginFrame`, `MethodFrame`, `KycFrame`), which is where areas that touch (a bank detail is a payment method too) are paid for.

Assumptions: `NoCode`, `NoReading`, `NoVehicle`, `NoUpi` are not values; the limit on tool calls is positive, as the policy makes it
(`admin-ai/agent-policy.service.ts:32`); bounds are naturals.

Left to TLC: liveness under fairness (`SearchReachesDrivers`, `IndexRecovers`, `AppFollows`, `StartIsPossible`, `RunEnds`), which the prover
does not do. Every safety property of a passing run is stated by a theorem. What the four violation runs refute is false of `Spec`; three of the
four properties are proved where they do hold (`SearchSkipsTriedIsolated`, `NoLateCancellation` without overlap on an order, `DeliveryPaid` without the overlaps it names), and of the fourth, `OffersFitVehicle`, the weaker
`OffersFitOrFollow`.

## Not modelled

- Pricing and insurance: stateless floating-point arithmetic with decimal rounding, which TLA+'s integers do not represent. With it, all amounts: fares,
  surcharge, waiting charge, earnings.
- Maps, route ETA, notifications, realtime events, e-way bills, SMS delivery: proxies, caches and best-effort output. An
  await of theirs that throws is a `Fail`.
- Distances, scores and penalties of dispatch: `Pick` may take any of the candidates. The decision log.
- Documents and uploads; the payout account and its copy of the preferred UPI id; the fingerprint that lets a verification be reused; what
  a provider corrects of a name or vehicle type.
- The agent's dialogue, tokens and rate limit; the effect of its two KYC tools on `Enrolment`.
- Mock and passcode login, logout of a session, attempts at wrong codes.
- The customer's and the admins' apps, and of the driver's app everything but availability, the current job and sign-in: screens of layout, text and
  translations, which are most of the repository's lines and have no state the services read.
- The payment guard of `complete` in `Rides` and `Shift` is open: the call may be refused at any time, which is the absence of a
  step. `syncGeoIndex` is one step in `Rides` and three in `Shift`.
- Subscription plans, ratings, SOS, delivery-proof uploads: single-row writes nothing else reads.

Every component is in `PROJECT.json` with its status and reason.
