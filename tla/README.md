# TLA+ verification of the booking platform

The program is a multi-tenant booking platform for barbers and salons: a
Next.js application (`src/app`, `src/lib`) on PostgreSQL through Prisma, a BullMQ
worker (`src/worker/index.ts`), Stripe for tenants' subscriptions and, through Connect, for
customers' payments. This directory holds TLA+ modules of its stateful core, the
TLC configurations that check them, and proofs checked by TLAPS.

    tlc -config StripeEvents_ledger.cfg StripeEvents      # any run below
    tlapm StripeEvents_proofs.tla                         # any *_proofs module

Contents: [inventory](#1-inventory-of-the-system), [modules](#2-modules),
[runs](#3-runs-bounds-and-results), [fairness](#4-fairness),
[theorems](#5-theorems), [findings](#6-findings),
[what is left out](#7-what-is-not-modelled), [plan](#8-plan).

## 1. Inventory of the system

All lasting state is in PostgreSQL. Nearly every operation is a request (server
action, route handler) that runs a few Prisma calls one after the other, *without*
a transaction around them; what two requests may do to each other is therefore a
matter of the guards in single statements (`updateMany ... where status = ...`), of unique
keys and of one exclusion constraint. That is where the models put their atomic steps.

| Component | State | Operations | Talks to | What is hard, and what makes it correct |
|---|---|---|---|---|
| **Stripe event ledger** (`lib/services/stripe-event-service.ts`, the two webhook routes) | `stripe_event`: id, status, startedAt | claim (create, read, conditional take-over), dispatch, mark processed or failed | Stripe delivers; the routes dispatch to bookings and organizations | Concurrent and repeated deliveries, handlers that throw, die or outlast `PROCESSING_TIMEOUT_MS`, lost answers. One holder of an event at a time; no 200 before the event is done; a processed event is final; every event is answered at last. |
| **Booking calendar** (`booking-service.ts`, `scheduling/availability.ts`, the scheduling migration) | `booking` rows with staff, interval, status, `expiresAt` | availability, create, confirm, cancel, complete, no-show, sweep of expired holds | Customers, dashboard, Connect webhook, worker | Check and insert are separate; closing operations write by id what they decided on an earlier read; the sweep cancels ids found earlier. No two active bookings overlap; a hold with time left is not swept; a closed booking never comes back. |
| **Booking payments** (`booking-service.ts`, `create-booking-payment-checkout.ts`, Connect webhook) | payment columns of `booking`; sessions and refunds at Stripe | create checkout, confirm, record the amount, release, refund | Ledger, calendar, notification queue, Stripe | Several sessions of one booking, delayed methods, refunds in parts, a confirmation of three steps that may fail between any two, the sweep against a late payment. Paid holds are confirmed, unpaid ones released, the books cover what was captured and show refunds as they were told. |
| **Dashboard operations** (`_actions/dashboard-operations.ts`) | status, amounts, `customer.noShowCount` | complete, no-show, record on-site payment | Bookings | Read, check, write by id: stale reads. |
| **Worker maintenance** (`worker/index.ts`, `notifications.ts`) | repeatable jobs in Redis | sweep of holds each minute, MFA reminders | Bookings, queue, members | A crash between finding, cancelling and enqueuing. |
| **Notification queues** (`notifications.ts`, `worker/index.ts`, `notification-log-service.ts`) | BullMQ jobs with ids `type-booking`, the notification log | enqueue, run (five attempts), send, log | Resend (mail) | Retained job ids suppress later jobs; a crash after the send repeats it. |
| **Coupons** (`coupon-service.ts`, `customer-coupon-service.ts`) | coupons, service links, claims, the bookings that use one | validate, redeem through a booking, claim, replace links | createBooking, merge | Uses are counted before the insert (accepted as best effort in the code); replacing links is two statements; a cancellation gives a use back. |
| **Customers** (`customer-service.ts`) | customers per tenant, guests and accounts | find or create guest, merge guests into an account, erase, export | Bookings, conversations, claims | Two first bookings at once; a merge during a booking. No booking or message may be left with a deleted guest. |
| **Subscription, trial, onboarding** (`organization-service.ts`, `subscription-claim-service.ts`, `create-organization.ts`, billing webhook) | plan, status, period ends, Stripe ids, Connect capabilities | create the organization from a checkout, mirror subscription events, gate features | Ledger, Stripe | Events are handled in any order; two organizations claim one subscription; the row may not exist yet. |
| **Directory listing** (`organization-service.ts`, `directory-service.ts`) | `isListed`, `listedAt`, `directoryListingSetByOwner` | automatic listing, manual switch, public reads | Dashboard layout | The automatic listing races the owner's choice; unlisting must stay. |
| **Members and MFA grace period** (`member-service.ts`, `manage-members.ts`) | members, invitations, grace period, reminder mark | invite, accept, change role, remind | Better Auth, worker | Reminder sent twice or never. |
| **Services, staff, hours, settings** (`manage-operations.ts`, `settings-service.ts`) | staff, services, links, hours, closed periods | create under plan limits, replace hours | Calendar | Limits counted before the insert; delete-then-create. |
| **Conversations** (`conversation-service.ts`) | conversation per customer, messages, last-read marks | find or create, send, reply, mark read | Realtime, merge | A message between reading and marking is lost from the unread count. |
| **Rate limit** (`rate-limit.ts`) | Redis counter and expiry | INCR, then EXPIRE | All public actions | A crash between the two. |
| **Tenant scope** (`db.ts`, `tenant-context.ts`, `safe-action.ts`) | AsyncLocalStorage context, row-level policies | run with tenant, platform scope | Every query | What each context admits. |
| **Rules and amounts** (`rules/policies`, `availability.ts`, amounts in `booking-service.ts`) | price, coupon, rules; price, discount, charge and fee of a booking | discounts, deposits, fees, slots | Bookings, coupons, dashboard | Prices and coupons are read three times, by the page, by the validation and by the booking; rounding, zero charge, UTC date against tenant date. Nobody is charged what was not shown, or more than the price. |
| **Pages, forms and controls** (`app/t/[slug]`, `app/(protected)/dashboard`, `app/onboarding`, `app/(auth)`) | React state, pages as they were rendered, the queue of server actions | booking sheets, edit forms, switches, sign-in, sign-up, redirects | All actions | Answers that arrive when the user has moved on, pages that are out of date, double submissions. What is shown is what is done; what a page offers its action admits; redirects end. |
| **Authentication and access** (`safe-action.ts`, `authz.ts`, `auth/permissions.ts`, layouts) | session, membership, deadline of the second factor, standing of the shop | the clients of the actions, guards of pages and layouts | Better Auth | Pages, layout and actions each ask for their own conditions. Nobody is locked out for good who can still put things right. |
| Media, consent, metrics, export, scripts | held by libraries, or single statements | — | — | See section 7. |

`PROJECT.json` lists these components with their status, and under `hazards` the
places, line by line, where this code is hard to test.

## 2. Modules

    EventLease  <------- implements ------- StripeEvents          StripeEvents_proofs
        ^
        |  INSTANCE (acked <- concluded)
    BookingPayments ---- implements ---> BookingLifecycle <--- implements --- BookingCalendar
    MCBookingPayments                                       MCBookingCalendar  BookingCalendar_proofs
    BookingPayments_proofs

    Limits (constants of the office and their assumptions)
       Staffing                         BookingWizard
       Coupons   Coupons_proofs         Availability
       Customers Customers_proofs       TenantScope        -- INSTANCEd by --> MCOffice, MCOffice_proofs
       Directory                        Organization
       Charges
       Storefront  BookingSheet  BookingDetails  Editors  Controls  Visits  Access  Onboarding
                                               (screens: also in MCOffice; Screens_proofs)
       RateLimit  Conversations  Notifications             -- INSTANCEd by --> MCWaits, MCWaits_proofs

### Stripe events, calendar, payments

**EventLease** is the abstract specification of the ledger: an event is open, held
or concluded. It is what the webhook code may rely on. `late` names the events a holder
keeps beyond the timeout: for those the lease promises nothing (`Stray`).

**StripeEvents** models `claimStripeEvent`, `markStripeEventProcessed`,
`markStripeEventFailed` and the frame of both webhook routes. A handler is a
request; its program counter `pc` names the database call it makes next, so each call
is one action and everything else may happen in between: `Create` (the insert and its P2002),
`Read`, `Reclaim` (the conditional `updateMany`), `Dispatch`, `MarkProcessed`,
`MarkFailed`, and `Throw` and `Crash` where the code may throw or the process die. `row` and
`age` are the columns `status` and `now - startedAt`; times are relative and saturate just above
`Timeout`, where the code stops telling them apart. `Answer2xx` may be lost, so
Stripe redelivers what was done. `held`, `late`, `emitted`, `acked` and `concluded` are history.

**BookingLifecycle** is the abstract specification of `booking.status`: opened once, only
holds are confirmed, closed bookings stay closed (but may be closed again otherwise).

**BookingCalendar** models the rows of one tenant's calendar. `createBooking` is two actions,
`CheckSlot` (`getAvailableSlots`) and `Insert` (the insert under `booking_no_overlap`, or
`SLOT_TAKEN`), with the checked slot kept in `pending`. `cancelBooking`, `completeBooking` and
`markBookingNoShow` are `ReadToClose` and `WriteClosed`, with the decision kept in `ops`:
their update does not repeat the check. The sweep is `SweepFind` and `SweepCancel`. `left` is
`expiresAt - now`. What slots working hours, absences and closed periods admit is the constant
`Offer`; how they are computed is `Availability`. The constraint is checked only where rows are
inserted: that updates never violate it is a theorem (`NoOverlap`), not part of the model.

**BookingPayments** models one booking's money: checkout creation (`CheckoutRead`,
`CheckoutWrite`), Stripe (`Stripe`, `Refund`, which tells of refunds of any status: external, only as far as the
webhook tells events
apart), the dispatch of each event one database call at a time (`ConfirmBooking`,
`RecordReceived`, `NotifyConfirmed`; `CancelPending`, `NotifyExpired`; `ApplyRefund`), the sweep with
its notifications, and the operations of dashboard and account. Events reach
it through the `EventLease` that `StripeEvents` implements: `TakeEvent`, `FailEvent` and
`ConcludeEvent` are its `Acquire`, `Release` and `Conclude`, with the route's state beside them.
A failed delivery starts over, on the rows as the failure left them.

### The office

The other components of an organization share no state with one another, so that interleaving
them would multiply states and show nothing. **MCOffice** and **MCWaits** check them together
instead: `part` names the component that runs, the variables of the others stay as they are in one
initial state. `MCOffice` has the parts with safety properties only, `MCWaits` those in which somebody
waits. **Limits** declares their constants with the assumptions the proofs use. `Call` stands for
the concurrent calls of whatever the part does: requests, editors, bookings, browsers.

| Module | State in the code | Actions, after the calls of the code | What may come between |
|---|---|---|---|
| **Staffing** | the number of staff and of locations against the plan; the rows of working hours and of service links | `createStaff`, `createLocation`: `Count`, then `Create`; `setStaffWorkingHours`, `updateStaff`: `Delete`, then `CreateRows` or, by the key of the links, `Duplicate` | other creations after the count; other saves between the two statements; a call that dies there (`Lose`) |
| **Coupons** | one coupon's switch and scope, its service links, the bookings that use it | `validateCoupon`: `Read`, `CountRedemptions`, `FindLink`, then `InsertBooking` or `InsertClaim`; `updateCoupon`: `UpdateRow`, `DeleteLinks`, `CreateLinks`; `Cancel`, `BeginComplete`, `Complete` | everything between any two statements, those of other editors included, whose saves then mix; a cancellation gives a use back |
| **Customers** | the rows of customers with address and account, the bookings that refer to them | `FindGuest`, `CreateGuest`, `Book`; `Resolve` and `Merge` (`findOrCreateCustomerForUser` and its transaction) or `Abort`; `UpdateProfile`; `ListForErasure`, `Erase` | guests, merges, profile changes and erasures of the same person |
| **Directory** | `isListed`, `directoryListingSetByOwner`, the setup of hours and services | `LoadDashboard`, `Look` at each part of the setup, `AutoList`; `SetListing`; `Edit` | the owner's switch between the reads of a load and its update |
| **Organization** | the organization's row, the subscriptions and their events at Stripe | `createOrganization`: `Submit`, `CreateRow`, `WriteClaim`, `Backfill`, `SetGracePeriod`, `WriteDetails`, `Fail`; the billing webhook: `Handle`; `Buy`, `ChangeStatus`, `TrialEnds` | changes at Stripe, and events out of order, between the steps of the sign-up |
| **BookingWizard** | the React state of `service-item.tsx`; the server actions it has called, which Next.js runs one at a time | a button each (`Open`, `SelectDate`, `Confirm`, `PickAlternative`, ...) and an answer each (`BookingConflicts`, `BookingMade`, `PhotosUploaded`, ...) | whatever the customer does before the answer |
| **Availability** | working hours, what is busy, the lead times; the loop of `getAvailableSlots` | `Begin`, `TakeShift`, `Walk`, `LeaveShift`, `Return`; `Ask` (pages and dashboard), `Confirm` and `Answer` (the check in `createBooking`) | nothing: what matters are days, offsets and boundaries |
| **TenantScope** | the contexts of `AsyncLocalStorage`, the parameters that the policies read, per connection of the pool | `Enter`, `Leave`; a query of the extended client: `Begin`, `Configure`, `Query`, `End`; the unextended client: `Plain` | queries of other contexts on the same connections; keys to rows of another organization, which name the organization but for the coupon of a booking |
| **Charges** | price and coupon; what page, validation and `createBooking` have read of them; the amounts in the booking's row | `UpdateService`, `UpdateCoupon`; `LoadPage`, `ApplyCoupon`; `ReadService` and `Insert` or `Throw` (`createBooking`); `PayOnline`, `HoldRunsOut`, `RecordOnSitePayment`, `Cancel` | edits of the owner between any two readings; a cancellation from a list that is out of date; an on-site payment of a hold that is then paid online |
| **RateLimit** | a Redis counter and its life | `Incr`, `Expire`, `Die`, `Tick` | other calls, or a crash, between INCR and EXPIRE |
| **Conversations** | messages, which side has unread ones, what each open thread shows | `Find`, `Create`, `Insert`, `Announce`; `OpenThread`, `Load`, `Mark`, `CloseThread` | messages between the read of a thread and its mark |
| **Notifications** | the mail jobs of one booking, retained ids, attempts; the mark of the MFA reminder | `Enqueue`, `Take`, `Send`, `Record`, `RecordFails`, `Retry`, `Forget`; `ListMembers`, `Remind`, `MarkReminded`; `Crash` | a crash, a cancellation, a failing log insert between sending and recording |

### The screens

A screen is a component of its own: a page that stays as it was rendered, React state, and the answers
it awaits. Next.js sends the server actions of one browser one at a time in the order they were called; the
fields and buttons stay live meanwhile, but for those the code disables. These modules are parts of `MCOffice`.

| Module | The screen | Actions, after its buttons and answers |
|---|---|---|
| **BookingWizard** | dates and slots of the sheet of the public page (`service-item.tsx`) | see above |
| **BookingDetails** | the details step of the same sheet: contact, coupon, reference photos | `FillIn`, `TypeCode`, `ApplyCoupon`, `AddPhoto`, `Confirm`, `Close`, `Reopen`; `CouponValid`, `CouponRefused`, `Made`, `Refused`, `PhotosSent` |
| **BookingSheet** | the sheets of dashboard and account, which choose service, professional and date (`new-booking-sheet.tsx`, twice) | a choice or button each; the list of slots and the booking as answers |
| **Editors** | the edit forms and switches of staff, services, coupons, customers, members, hours, rules, Impressum, each in two browsers | `Open`, an edit of a field, a submission, which tells what the form shows and leaves out what the form sends as `undefined`; the update of the row; the refreshed page |
| **Controls** | the settings that show a change before it is saved: listing, category, status of a quote request, cover | a change, its action, its acceptance or refusal, and what the control then takes back; a tab that is left and opened again (`Return`), which brings its controls back from the values of the last render; the layout's listing beside the page's read (`AutoList`, `Render`) |
| **Visits** | one person on all hosts: pages, their redirects, the forms of sign-in, second factor, sign-up, claim, invitation | a page that opens or redirects, a form that is submitted; the external session |
| **Access** | the dashboard of one member: what a page was rendered with and offers, and what layout and actions admit | a page, a soft or full navigation, an action; changes of role, link, deadline and subscription |
| **Onboarding** | the wizard of the sign-up: the slug, submissions that wait for the device's id or for their answer | fields and steps, `Submit`; what each call of `createOrganization` comes to |
| **Storefront** | the public lists of the directory, the shop's page, the area of its customers | `Listing`, `FindCity`, `Discover`, `Visit`, `OpenArea`, `Book`, `SubmitQuote`; what owner, Stripe and time do to the shop |

`MC*` modules give the constants values. Mutants (`ReclaimAnyProcessing`,
`AdmitsOverHolds`, ...) are defined just before the definition they would replace; each makes
one property fail, and no specification uses them.

Every definition that models code is mapped to its lines in `PROJECT.json` (`map`): about a third of the
22,500 lines of the implementation. Most of the others render pages, style components, or word legal texts
and mails.

## 3. Runs, bounds and results

| Run | Bounds | Properties |
|---|---|---|
| `events_ledger` | 2 events, 2 handlers, Timeout 1, 2 faults | `TypeOK`, `LeaseExclusive`, `AckedIsConcluded`, `ProcessedIsFinal`, `LeaseSpec`, `EventuallyAnswered` |
| `calendar_day` | 3 slots of 2 barbers, 2 bookings, 2 requests, 1 actor, 1 crash, hold of 1 tick | `TypeOK`, `NoOverlap`, `HoldNotCutShort`, `LifecycleSpec`, `BlockedOfferClears` |
| `payments_checkouts` | 1 booking, 2 sessions, 1 fault | `NoOrphanHold`, `EndedCheckoutReleases`, `PaymentSettles` |
| `payments_money` | 1 booking, 1 session, refunds of 1 and 2 of a charge of 2, succeeded or not, price 3, 1 operation, 1 fault | `TypeOK`, `CaptureRecorded`, `RefundStands`, `LifecycleSpec` |
| `office_parts` | 2 concurrent calls, 1 fault, limits of 1, 2 barbers; `Availability`: days of 4 hours, tenant's midnight 1 hour after UTC's, slots of 2 hours every hour; prices of 1 and 150 cents, 50 % | `TypeOK` and the seventeen properties of `MCOffice` in the next table |
| `office_waits` | 2 concurrent calls, 1 fault, 2 calls admitted per window, 2 attempts | `RecordedIsMailed`, `DeniedIsReleased`, `EveryMessageShown`, `EveryJobEnds` |
| `events_reexecuted`, `payments_books`, `payments_sweep`, `slots_refused`, `signup_orphaned`, `offers_refused` | the same or smaller | one claim of a comment or document each, refuted: section 6 |

What they show:

* *Ledger.* However deliveries interleave, no two handlers run one event at a time and a
  `PROCESSED` row is final, as long as none of the event's handlers outlasts the timeout; no answer
  ever stops the redelivery of an event that was not once dispatched to its end, even
  then; the ledger implements `EventLease`; and every event is answered in the end. Two handlers and
  two faults are what a take-over needs (one dies or overruns, the other reclaims, and an
  answer is lost besides); two events show that overruns of one do not touch the other;
  Timeout 1 gives ages below, at and above it. For more of each there are the theorems.
* *Calendar.* No double booking, although bookings are checked against the constraint only
  on insert and closing operations write on stale reads; the sweep never takes a hold with time left;
  and a slot that is shown as free while an expired hold makes the constraint refuse
  it does not stay so, worker crashes included. Two bookings and overlapping unequal slots are
  enough for a conflict, a second request for the race, one operation in flight for the stale write.
  The clock of the calendar stops at `MaxNow`, after which slots count as those of later days; hold
  time goes on.
* *Payments.* When the webhook is done with a completed session the booking that waits for it no
  longer waits; expired sessions release their booking unless another one was paid; every paid
  booking is paid or closed at last. What was captured is recorded and announced if
  no delivery failed half way, on-site payments in between notwithstanding. A row that shows a refund shows what one
  refund event of its
  own payment told, with the status that goes with that amount, however often events are delivered and
  confirmations resumed; whether the money was given back it does not show (`payments_books`). Two
  sessions are needed for one to replace the other in the row; the price and deposit
  (3 and 2) leave a rest to pay on site, and refunds of 1 and 2 are part and whole.
* *Office and waits.*

| Property | What it says | What could break it |
|---|---|---|
| `OwnersChoiceStands` | once the owner has used the switch, the directory shows what he chose last | an automatic listing decided on rows read before |
| `WithinPlan` | staff and locations exceed the plan by less than the creations in flight (they may exceed it: the count is not in a transaction with the insert) | a count that does not see an insert |
| `RowsOfLastSave` | rows of a save that was over before the last one began never come back, nor do deleted ones | deleting less than what was there |
| `RedemptionsBounded` | a coupon is used more often than its maximum by less than the calls in flight, cancellations and closings included | a use that is counted late and another given back twice |
| `AcceptedWasMeant` | a coupon is accepted for a service only if a save names the service that had a say in the coupon since its row was read: the saves under way, each with those it overlapped, and the last that ended | the empty set of links between the two statements of an update, read as "all services"; links of an old save that outlive a newer one |
| `NoFreeRide` | with the events handled, nobody writes after the trial without a subscription that runs, or whose end was told before its claim was written and its metadata filled in (`EndIsNeverOrphaned` is without that exception, and refuted) | events in any order, a sign-up that fails half way, a claim written from an old reading |
| `BookingsFollowIdentity` | bookings of an account were made by it or under its verified address; those of a guest under the guest's address | a merge or profile change between the lookup of a row and the booking for it |
| `OncePerOpening` | one opening of the booking wizard, or of a sheet of dashboard or account, makes one booking, unless its checkout could not be created; one wizard of the sign-up makes one shop, unless a call failed half way or two submissions were pressed in a row | closing, reopening, going back, pressing again while answers are awaited |
| `SummaryIsBooked` | the slot, coupon and photos booked are those shown, unless the choice was changed with a confirmation unsettled (`mixed`) or a list still loading (`restated`), or the code typed over (`typedOver`); a booking costs what was shown when it was confirmed, unless the owner edited price or coupon in between (`moved`); no more than its price is ever discounted, charged, recorded as received or fined, and the row shows all that its customer has paid, unless an online payment was written over one on site (`overwritten`; see `payments_books`) | the same, and three readings of the price |
| `SavedAsSaid` | a row holds in each column what the forms that show it said of it last, as they showed it when they were saved; but for the texts that the forms of staff and Impressum empty in vain (`EmptiedInVain`) | a form that sends what it does not show, or omits what was changed |
| `ShownIsStored` | a control at rest shows what is stored, unless the value was changed elsewhere or by the layout, the control keeps a change that was refused (category, cover), or its tab was left and opened again while a change of its own was under way | answers that take back more, or less, than was refused |
| `NoRedirectLoop` | no chain of redirects comes back to a page, but for the one of section 6 | guards of pages that contradict one another |
| `SignedInIsSeen` | a form that has succeeded leads to a page that knows the person | a session that is only half there, for want of the second factor |
| `OfferedIsPermitted` | what a page offers its action admits, as long as what it was rendered from stands, for members in the dashboard and for visitors of a shop. Excepted are the forms of the catalog, the first agenda of a professional without a link and customers with a session (`offers_refused` is without these two, and refuted), and the area of a shop past its trial or churned. While the German location of the sign-up lacks its Impressum the public page takes nothing | pages, layouts and clients of actions that ask for different conditions |
| `NoLockout` | an owner past the deadline of the second factor, or past the trial, still reaches the page that puts it right | a gate that closes its own way out |
| `OfferIsExact` | the slots listed are the free grid slots of the tenant's day, of asked staff, within the lead times: no more, no less | looking for busy intervals by UTC day or by their start |
| `TenantIsolation` | no query in the context of an organization reads, writes or links rows of another: by composite keys, and for the coupon of a booking, whose key names no organization, because it was found in the same context | parameters that outlive their transaction on a pooled connection |
| `RecordedIsMailed` | a mail recorded as sent was accepted by the provider | recording before sending, a retry that skips |
| `DeniedIsReleased` | a caller that is refused is admitted again, unless the process died between INCR and EXPIRE | an expiry set by others than the first call, or renewed |
| `EveryMessageShown` | a stored message reaches the other side's open thread | a load that trusts the unread mark |
| `EveryJobEnds` | a waiting mail job is completed or failed | an attempt that is not counted |

  Two calls are enough: each of these is about what one call does between two steps of another, and the
  bounds by the calls in flight are theorems for any number. In `Availability` an offset of 1 puts
  the days of tenant and UTC apart and slots of 2 hours cross shifts' ends; there are shifts of
  either barber on each of three days, lead times at both sides of its bounds (`Leads`) and, when they leave
  the day open, at most one busy interval (`Few`) near it (`Near`). `TenantScope` has two connections
  and nests contexts to `Depth`, in one call at a time. The wizard and the sheets offer two dates (`Date`), are opened at most twice
  (`MaxOpenings`) and make at most two bookings per opening (`MaxMade`), enough to see a second one; there are
  two codes to type over one another (`Code`). A screen calls no further action when two wait (`MaxWaiting`), in
  `Controls` together with uploads under way; in `Editors` two browsers send two inputs (`MaxSent`), enough for one
  to save between the opening and the saving of the other; in `Controls` one control at a time (`MaxAstray`) is changed by others or left with a change
  under way. All of these are arbitrary in the theorems. `Visits`, `Access` and
  `Storefront` are finite without a bound. In `Charges` a booking is made two hours (`Horizon`) before it starts,
  fees are free until 0, 1 or 2 hours before; of the prices one rounds up at 50 % and one is above the 100
  that a percentage may be; `OfficeChargesWithinPrice` has no such bounds. Symmetry in calls is
  used in `office_parts`, which checks safety only, and nowhere else.

  `office_parts` has 852,767 distinct states in its seventeen parts, `office_waits` 113,276.

Deadlock is checked for the ledger and the calendar, whose clock never stops. A booking's money
comes to rest, and so do most parts of the office, so `CHECK_DEADLOCK FALSE` is set there.

Other bounds by name: `MaxFaults` (throws, crashes, lost answers, refused mails), `MaxCrashes`,
`MaxOps`, `MaxNow`, `Undelivered` (events waiting at Stripe). Everything else is finite by the sets of
ids.

## 4. Fairness

* *Ledger*: the clock ticks; a request that is running makes its next call (it may throw or die
  instead, at most `MaxFaults` times); Stripe redelivers what it has no 2xx answer
  for (strongly fair, for the handlers are finitely many here and may be busy with another event
  whenever it tries). Nothing makes a handler finish within the timeout.
* *Calendar*: the clock and the sweep, a BullMQ job repeated every 60 s (`scheduleStaleHoldSweep`).
  No customer, webhook or staff member has to act.
* *Payments*: holds run out, the sweep is repeated, a delivered event is handled and an unconcluded one
  delivered again, which is what `EventuallyAnswered` shows of the ledger. Paying, refunding
  and operations stay optional.
* *Rate limit*: Redis' clock, and an EXPIRE that has been sent arrives (`Release`). Nobody has to call.
* *Conversations*: an open thread polls (`POLL_INTERVAL_MS`, `Poll`). Nobody has to write or to open one.
* *Notifications*: the worker takes, sends, records and retries its jobs (`WorkOn`); the provider may
  refuse and the process die.

In `MCWaits` the fairness of a part is conditional on its running, so a behavior of one part owes
nothing to the others.

## 5. Theorems

All of them hold for every value of the constants within the named assumptions: the timeout and
the bounds are naturals, the hold lasts at least one tick, the offer is a non-empty
set of slots; for the office those of `Limits` (finitely many calls, at least one; positive limits, slot
lengths and granularity; any integer offset; prices are naturals and percentages at most 100; any dates and codes
other than the markers for none, any bounds on openings, bookings, waiting calls, inputs and controls astray).

`StripeEvents_proofs`: `TypeCorrect`, `LeaseIsExclusive`, `AckedAreConcluded`, `ProcessedStays`,
`LedgerIsALease`. `LeaseExclusive` is not inductive: a `Reclaim` is harmless only
because an `age` above the timeout means that nobody holds the event in time. The
strengthening `HolderAgrees` says so: of an event that is not late, a holder sees `PROCESSING`, and the
time it has held the event is the age of the row and within the timeout. `IInv` is
that, `LeaseExclusive`, and `TypeInv`: types, a request has been given only events that happened, and
`PROCESSED` rows are those of concluded events (for `AckedIsConcluded`).
`TypeInvStep` and `LeaseInvStep` show that each action preserves them. For the refinement,
`LeaseStep` maps every action to a step of the lease: claims acquire, the end of a handler
releases or concludes, an early 200 acknowledges, time outlasts, and the steps of a late
event's handlers stray.

`BookingCalendar_proofs`: `TypeCorrect`, `NoDoubleBooking`, `SweepCutsNoHoldShort`,
`CalendarKeepsLifecycle`. The invariant adds `InHand` to the type invariant: what an
operation or the sweep has in hand is a row that exists, and what the sweep found stale has no time
left unless it is no hold any more. So updates on stale reads can close a booking again,
but neither open one nor cut a hold short; with that, `NoOverlap` need be shown for inserts only.

`BookingPayments_proofs`: `TypeCorrect`, `NoHoldOrphaned`, `EndedReleases`, `CapturesAreRecorded`,
`RefundsStand`, `PaymentsKeepLifecycle`. The invariant relates four things that are written at
different times: the step a delivery has reached and the state of its event (`StepOfPhase`), what Stripe
has emitted and what has become of the session (`EmittedOfSession`), the sessions in a row and whose they are
(`OwnSession`), and the row's status and its payment intent (`OneHold`). On these rest
`HandledLeavesNoHold` (a delivery past its first call leaves no hold of its session), `Written` (what a
delivery of a completed session has written at each of its steps) and `NoIntentNoRefund` (a row without an intent
shows no refund: a row that shows one is no hold any more, so that no confirmation, only the next refund event, writes it).

`Coupons_proofs`: `UsesAreBounded` counts, beside the uses, the calls by which the coupon may still gain one
(`Due`): those past the count, and the closings that write over a cancellation they have not seen.
`AcceptedAsSaved`: every save keeps, while it is under way, the services of all saves it overlaps (`since`), and scope and
links are always of those (`Editing`); when one ends, what is in force is of its `since` (`InForce`), and a validation
has covered all that was in force since its read (`Covered`). Saves under way may mix; what was saved before
all of them comes back in none.

`Customers_proofs`: `BookingsAreOwn`. What a call remembers from an earlier read holds of the rows it names
(`Remembers`), and every step moves a row only the way `Goes` says: from free to taken, from guest to gone or to
the account that has verified its address. `MergeStep` is the merge itself.

`MCOffice_proofs` takes those two over by `INSTANCE` and bridges them to the composition
(`OfficeRedemptions`, `OfficeAcceptsAsSaved`, `OfficeBookingsAreOwn`):
steps of the other parts leave their variables alone. The screens come from `Screens_proofs`, and the remaining
parts are proved in place; `IInv` is the invariant of whichever part runs, `Invariant` that it is kept.
`PlanIsKept` and `OfficeWithinPlan` count the rows there are *and to come* (`WithinPlanToCome`);
`LastSaveStands` and `OfficeRowsOfLastSave` need that only the last save and its rivals may still create rows
(`SaversAreRivals`).
`OfficeChoiceStands`: the guard in the update is what makes a stale load harmless (`DirInv`).
`OfficeNoFreeRide`: the news of a subscription that has stopped is stored, under way in a form that
will find the organization, or was overlooked (`SubsInv`).
`OfficeOffersExactly`: half way through the loop the offer has all slots of the reference but those of shifts to
come and those of this shift behind the cursor (`WalkInv`), and the cursor is on the grid of its shift;
`Grid` is the arithmetic, with no bound on offset, lengths or granularity. `OfficeChargesWithinPrice`: until there is
a booking, what is shown and what has been read are what is in the database, unless the owner has edited it since
(`MoneyInv`); the rest is arithmetic: no rounded percentage up to 100 exceeds its amount (`Rounding`), so neither
discount nor charge nor fee does (`DiscountBounded`, `ChargeBounded`, `FeeBounded`), and what is recorded is what was
collected
until a confirmation writes over it.
`OfficeShowsStored`: of the calls of a control that is not astray the last carries the value it shows, and none is
from before
its tab was left; a control that takes a change back has no other call of its own (`PanelInv`), however many calls wait.
`OfficeIsolates`: a connection that is used has the parameters of the context that uses it, and an idle one
has none (`ScopeInv`); a booking's coupon was found in the context that names it, so its key need not name the organization.

`MCWaits_proofs`: `DoneIsMailed`, and `WindowIsBounded`, which is proved and not among the runs' properties: a
window of the rate limit admits no more than its maximum, however many checks run at once.

`Screens_proofs` has the invariants of the screens and that their steps keep them, `MCOffice_proofs` the theorems that
follow. What a screen awaits is a queue of any length, so the invariants speak of all its calls, in four ways:
one call of a kind at most (`Once`), the last of a kind is such (`LastIn`), none of a kind before one of another
(`NoneBefore`), and all calls are such (of `Queued`). `QueueAppend` and `QueueTail` say once what appending and taking a
call do to each; the proofs of the screens are built from these two.

* `OfficeBooksOnce`. *Wizard* (`WizardBooks`): one booking is under way at most, for an opening that has made none; an
  opening that has made one is confirmed, or the call that takes it to the checkout is on its way, or the checkout
  failed. Only with the second half is the first inductive: it is what keeps the button off after the answer.
  *Sheets* (`SheetBooks`): the same, by the number of the opening a call belongs to. *Sign-up* (`OneAtATime`):
  unless two submissions were hurried, one waits at most and none once a shop is whole.
* `OfficeBooksTheSummary`. The date of a booking under way is the one shown, unless it was changed with a confirmation
  unsettled, and the list is of the choice once the last call for it is answered (`WizardShows`, `SheetLists`): of the
  calls for lists only the last must be right, which is why `LastIn` is needed. In the details, a validation that
  waits is of the code in the field, and none is before a booking, unless the customer typed over it (`DetailAwaits`).
* `OfficeSavesAsSaid` (`EditInv`): every update under way writes just what its form sends, which is what it told but
  for a text emptied in vain (`Update`), for the seven
  kinds of forms and the switches; then no order of saves can make row and telling differ.
* `OfficeRedirectsEnd` (`VisitInv`). Termination by a measure: `RanksFall` shows that each redirect of a page or layout
  leads to one of lower `Rank`, as things stand, but for the member that section 6 names (`Torn`); so no page of
  the trail can come again. `OfficeSeesSignedIn` is the other conjunct: a form that succeeds leaves a session that is
  known, but for the two that do not ask for the second factor.
* `OfficePermitsOffered`, `OfficeLocksNobodyOut`. A page was rendered for a role it opens to (`Rendered`, `GateShows`), and
  a page of the shop for a standing in which it is shown (`FrontShows`); that is what permissions and admissions are
  compared with, since role and standing change while the page is open. `NoLockout` follows from the types alone.
* `OfficeTypeCorrect` collects the types of all parts.

Model-checked only: the liveness properties (`EventuallyAnswered`, `BlockedOfferClears`, `PaymentSettles`,
`DeniedIsReleased`, `EveryMessageShown`, `EveryJobEnds`), which the prover cannot do. Every safety property of a
passing run is a theorem.

## 6. Findings

Each is a run that TLC refutes, on behaviour the code does have.

| Run | The code | What is said of it |
|---|---|---|
| `events_reexecuted` | `markStripeEventFailed` (`stripe-event-service.ts:71`) names the id alone: a handler that outlasted the timeout and then throws turns the `PROCESSED` row of its successor into `FAILED`, and the event runs again. | the comment on lines 9-10: concluded events are never executed again |
| `payments_books` | a confirmation that fails after its first update is resumed as a no-op (`booking-service.ts:297`): no amount, no notification; and more, below. | `customer-service.ts:42-44`: received less refunded is what the customer has in fact paid; `docs/ARCHITECTURE.md:16`: a failed event can be reclaimed |
| `payments_sweep` | the sweep's `updateMany` (`booking-service.ts:349`) names ids found earlier and no status: a hold the webhook has confirmed in between is cancelled. | `notifications.ts:35`: the backstop is for holds without a webhook |
| `slots_refused` | `createBooking` asks for the slots of the UTC date of `startAt` (`booking-service.ts:90`): the evening of a tenant behind UTC is on offer and refused. | `availability.ts:23`: the date is the tenant's; lines 33-34: the same function serves pages, dashboard and revalidation |
| `signup_orphaned` | an end told before the sign-up has written its claim finds no organization and is concluded (`billing/webhook/route.ts:64`); if the metadata is not filled in either, the shop writes on after its trial. | lines 59-60: events are never orphaned, even when the backfill fails or the event comes before it |
| `offers_refused` | `agenda/page.tsx:21` shows a professional without a staff row the whole agenda. With `-continue` also: `customerActionClient` builds on the client that asks for a membership (`safe-action.ts:114-121`), so a signed-in customer can neither book nor cancel. | `get-agenda-bookings.ts:11-12`: first render and polling are identical, `authz.ts:43-44`: fail-closed; `safe-action.ts:183-186`: without a check of the staff's roles, for the identity is a customer |

`PaidIsReceived` fails in other ways too, which other bounds (and `-continue`) show:

* without faults, refunds and operations: `checkout.session.completed` confirms and records without a look at
  `payment_status` (`connect/webhook/route.ts:54`), so a delayed payment that fails is in the row as received, and its
  failure finds no hold to release, though lines 88-90 say that `async_payment_failed` covers that case;
* with one operation: the rest of a hold can be recorded on site (`dashboard-operations.ts:24`), and the
  confirmation of its checkout sets the amount received to the online amount (`booking-service.ts:304`);
* with refunds: a refund's own amount is compared with the charge and overwrites the last one (`booking-service.ts:407`), so
  that two halves are `PARTIALLY_REFUNDED`, of one half, against lines 403-405; `charge.refund.updated` is applied without a
  look at `refund.status` (`connect/webhook/route.ts:92-99`), so that a refund that is pending or fails counts; and one that is
  handled before the confirmation finds no row.

Met while modelling, and part of the models, without a run of their own:

* an expired hold still blocks the insert until the sweep has run, although
  `availability.ts:97` says it does not block (`BlockedOfferClears` bounds the damage);
* `completeBooking` completes a booking cancelled after its check (`dashboard-operations.ts:24` and
  `:32`; `BookingLifecycle` allows it); two concurrent on-site payments are both recorded
  in full (`dashboard-operations.ts:55-57`);
* `README.md:25` and `docs/LAUNCH-READINESS.md:193-195` have it that every relation between tenant tables has a key with the
  organization; that of a booking's coupon has not (`schema.prisma:328`, `migration.sql:311` of `scheduling_core`). No
  run refutes isolation with it, since `createBooking` names the coupon that its validation has found in
  the same context (`booking-service.ts:116-125`, `coupon-service.ts:10`; `Linked`);
* the writes of the sign-up are not one transaction, although `create-organization.ts:208-210` and `303-304`
  say so: the extended client opens a transaction of its own for every query, within `db.$transaction`
  too. A sign-up that fails after the organization is there cannot be repeated, for its slug is taken
  (`CreateRow`, `WriteDetails`). For the same reason the pair of updates in `markBookingNoShow`
  (`dashboard-operations.ts:42`) is kept as one step in the models as an abstraction, not as a guarantee;
* comments of `db.ts` are behind the code: that no call uses `runInTenantTransaction` yet
  (`customer-service.ts:196` does), and that the application connects as owner of the tables;
  `listOrganizationSummaries` counts bookings through the policies without a context and finds none.

Met on the screens; the properties name each as an exception, so that they show that there are no others:

* *Forms.* The staff form sends the photo it was opened with, so that a removal in another browser is undone, and sends an
  emptied photo or job title as `undefined` (`staff-form.tsx:88-89`), as the Impressum form does with its optional fields
  (`impressum-form.tsx:55-60`): they stay as they were, and the form says that it has saved, although its button reads "Remove
  photo" (`messages/en.json:492`).
  `EditCustomerSheet` saves the notes, the block and the tags of its snapshot over newer ones.
* *Sheets.* After a change of service or professional the sheets of dashboard and account load the list of the choice
  before (a closure over the old state): `restated` of `SlotIsOfChoice`. In the wizard the answer to a booking closes
  whichever opening is there. In the details step Confirm does not wait for a validation, and the answer to one
  applies its coupon even when the code was changed or the sheet reopened (`typedOver`, `touched`).
* *Redirects.* A superadmin who is a professional or receptionist and past the deadline is sent from the dashboard to
  the settings (`dashboard/layout.tsx:57`) and from there back (`settings/page.tsx:39`), without end.
* *Second factor.* `ClaimAccountForm` (24-44) and `AcceptInvitationAuthForm` (29-47) do not look whether the sign-in
  asks for a second factor, and come back to themselves. The layout's gate does not run on soft navigations. The comment of
  `security-section.tsx:27` says that there is only a banner.
* *Dashboard.* The pages of services, staff and coupons offer their forms to every role, although `safe-action.ts:133-137`
  says that the interface hides what a role may not do. The link of a professional to its staff row is a second
  step of `acceptInvitation`. `replyToMessage` writes under the client for reads. The upload of media has
  none of the gates of the actions. Churned shops cannot reach billing again.
* *Storefront.* Only the public page refuses bookings for want of an Impressum (`page.tsx:103-105`), the actions do not
  ask. That no booking gets through all the same rests on `createLocation`, whose input names no country
  (`manage-operations.schemas.ts:78`): the default is Brazil (`schema.prisma:671`), so that only the sign-up, which
  writes the Impressum as well, makes a German location. Were one made later, pages that are open would go on taking
  bookings. The area of customers opens for shops that are past their trial or churned; the directory lists shops
  past their trial, whose pages refuse. Nothing sets `SUSPENDED`.
* *Settings.* A tab that is left while a change is under way and opened again shows the old value once the change is saved,
  with nothing pending, until the tab is opened once more. On the first load after the setup is complete
  the layout may list the shop while its page has read that it is not listed (`layout.tsx:66-68`).
* *Sign-up.* `onboarding-wizard-form.tsx` awaits the id of the device before its button is disabled, so two
  submissions may be on their way (`hurried`). A repetition with the same slug after a failure half way is refused,
  though `create-organization.ts:303-304` calls it the recovery. The legal name keeps the default of an older name.
* *Amounts.* `cancelBooking` does not look at the status (`booking-service.ts:203-222`): a list that is out of date cancels
  a cancelled booking or an expired hold again, and writes the fee of that moment over none. A hold that charges nothing (a
  price of 0, a full discount, a deposit whose mode is of the rules and whose percentage nobody entered) cannot be paid
  and only runs out (`PayOnline`). Price and coupon are read anew on confirmation and not shown again. The account's
  list shows the price without the discount. The no-show fee, `blockAfterCount` and `overbookingDefault` are stored
  and read by no code.
* *Dates.* A coupon's last day ends where it begins (`validUntil` is its midnight, UTC), and the forms of absences and closed
  periods take the browser's time zone for the shop's.
* *Staff.* `createStaff` keeps its row when the invitation fails, and answers with an error.

## 7. What is not modelled

* *Within modelled components.* Amounts are given in `BookingPayments` (`Charges` has how they come about),
  `account.updated` and the
  Connect capabilities, wording, mails, logging. A booking always finds its payment
  intent under the name of its session: Stripe has one per session. Answers to Stripe are
  lost in `StripeEvents` only; in `BookingPayments` a redelivery of a concluded event changes no row.
* *Ledger.* A mark that commits and still throws is not modelled: `Throw` never has the effect of the call. It would have
  the row `FAILED` after `PROCESSED`, which `events_reexecuted` shows by another way.
* *Overruns in BookingPayments.* Events are held in time there; `events_reexecuted`
  shows what an overrun does to the ledger.
* *Availability.* Changes of the offset (daylight saving), the validity dates of working hours, and shifts
  that end before they start: the schema of the form accepts any two times, the model assumes a shift within
  its day. Buffers are part of the slot's length.
* *Organization.* A `PAST_DUE` grace period is never enforced by the code and has no state here; an
  organization that has churned does not come back. `ensureMfaGracePeriod` is a step of the sign-up; its race
  with itself (two first loads both set the deadline) leaves either deadline.
* *Staffing.* `createStaff` with a failing invitation leaves the row and answers with an error; editing and
  switching off single rows of services, coupons and closed periods are single updates.
* *Customers.* What staff edit, `deleteUserAccount` in the route that erases an account (the rows are
  anonymised first; an erased row keeps its `userId`).
* *Screens.* `Visits` leaves out the pages that name a wrong e-mail address, Google, and what Better Auth does inside;
  `Access` the sidebar and what the actions behind a page do; `Storefront` coupons, claims and messages of the area;
  `Editors` the statements of an update, which are of `Staffing` and `Coupons`. `Charges` has one booking, and no
  completion or no-show of it, which move no money; payments on site are recorded there one at a time, the race of two is of
  `BookingPayments`. `Controls` loads its page anew only at rest, and shows the one quote request whatever the category.
* *Notifications.* A failing log insert makes the job throw and the mail is sent again (`RecordFails`): known,
  and stated by no property, since no document promises one mail only.
* *TenantScope.* What `upsert.update` and `updateManyAndReturn` may write is stopped by the policies alone;
  the pool itself, in which nested transactions may wait for a connection until `maxWait`.
* *Components.* What Better Auth holds (users, sessions, members, invitations) is external to `Visits` and
  `Access`; media, consent, fingerprint, metrics, health (single statements or pure functions); export and
  retention (reads, and deletions by date run by hand); rendering, vendored interface components, legal pages,
  scripts, configuration.
* *Hazards without a property.* The half sign-up (`create-organization.ts:299`), and parts of others: a second MFA
  reminder, a job whose id a retained one still holds, a counter left without its expiry, a no-show counted twice,
  guests found twice, messages and claims of a merged guest. `PROJECT.json` says at each why. Not listed there, for no
  document promises anything: a worker that dies between cancelling holds and enqueuing their mails
  (`worker/index.ts:118`), nested transactions that wait for a connection of the pool (`db.ts:183`), and a charge of
  nothing (`booking-service.ts:131`), which is in `Charges` and told in section 6.

## 8. Plan

Done: the modules above. What would add most to them, in this order:

1. *Booking as a whole*: `Coupons`, `Customers`, `Charges` and `BookingCalendar` composed through `createBooking`, to
   see what a failure between their writes leaves.
2. *Members*: removal and change of role as rows, and the erasure of an account that races its sign-up.
3. *Ledger of one booking*: on-site and online payments and refunds against each other, once a document says what
   becomes of money that matches no booking.
4. *Proofs*: types of the conversations and the queues, and one more refinement (a coupon as a counter).
