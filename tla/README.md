# Food delivery platform: TLA+ models and proofs

The back end under `backend/src` is a NestJS service over MongoDB. It uses no
database transactions: every promise it makes about orders and money rests on
updates of single documents (`findOneAndUpdate`, `updateMany` with a filter) and
on what was read before an `await`. These modules model that. A handler that
reads a document, decides and saves later is two or more actions, and any other
request, webhook or cron job may run in between; an update with a filter is one
action whose guard is the filter.

TLC checks the modules on small instances (`*.cfg`); TLAPS proves the theorems
of the `*_proofs` modules for every value of the constants.

    tlc -workers 2 -config payout_serial.cfg MCPayouts.tla
    tlapm Payouts_proofs.tla

## Inventory

| Part | State | Operations | Talks to | Hard about it | What makes it correct |
|---|---|---|---|---|---|
| Order state machine (`orders/order-state-machine.ts`) | three graphs | `canTransition` and its two subsets | orders | nothing by itself; everyone relies on it | subsets agree with the graph |
| Order fulfilment (`orders/orders.service.ts`, `rider-dispatch-scheduler.service.ts`, `riders.controller.ts`) | `Order.status`, `riderId`, `readyForPickupAt`, `deliveredAt`, `statusHistory` | seller and rider transitions, self-claim, seller's pick, reassignment, every-minute sweep | riders, notifications, realtime | read-then-save on one document; four ways to attach a rider; check in one query, update in another | one rider per order, only the graph's transitions, no order waits for ever while a rider it can find is free |
| Payments (`payments/payments.service.ts`, adapters) | `paymentStatus`, `paymentProvider`, `paymentRef`, `paymentRefs` | initiate, webhook, verify | Stripe, Paystack, Flutterwave | late, repeated, reordered webhooks; several sessions of one order | placed exactly when charged |
| Refunds (`payments.service.ts`, `orders.service.ts`) | `status`, `paymentStatus`, `refundReconciliationRequired` | claim, reverse, finalize, revert, flag, reconcile; refund webhooks | providers, payouts | unknown outcomes, a restart in mid-claim, refunds made outside the application | one refund at a time, none blind, all decided |
| Payouts (`payouts/*.ts`) | `Payout`, `PayoutClawback`, `Order.vendorPayoutId`, `riderPayoutId` | weekly batch, reconciliation, clawback netting | providers, orders, refunds | claim then transfer, ambiguous transfers, refunds in flight | every order paid once, every clawback taken once |
| Promo codes (`promo-codes`) | `isActive`, `usageLimit`, `usedCount` | create, update, validate, redeem | checkout | the limit under concurrent checkouts | the counter within the limit, the discounts given away bounded |
| Checkout (`createOrder`) and cart (`cart`) | `Cart`, new `Order` | add, merge, update, remove, reorder, clear, create order | menu, stores, promo codes | double submit, two tabs, a cart that changes while it is ordered | one seller per cart, orders of one kind, no empty carts |
| Ad campaigns (`ad-campaigns`) | campaign `status`, dates, `paymentRefs`; the vendor's `sponsoredUntil` | create, initialize, webhook, verify, mark paid, cancel, daily sweep | payment adapters, vendors | payment racing cancellation and the sweep; the vendor's copy is a second write | shown exactly while paid and in its window |
| Sessions (`auth`, `users`, `frontend/src/lib/redux/api.ts`) | refresh tokens, accounts; the browser's cookie and the tab's lock | register, login, refresh, logout, change password, suspend | mail, sms | several queries refresh at once; a refresh overtaken by a revocation | no session outlives a revocation; reuse detection spares the honest |
| Payout onboarding (`payments/*-payouts.controller.ts`, the account webhook) | `payoutAccounts` of a vendor or rider | set up, Stripe's form, `account.updated` | providers | find-then-push of an entry; late and repeated webhooks | one entry per provider, active when the provider says so |
| Restaurants and stores (`restaurants`, `stores`), business verification, approval (`admin`) | `isApproved`, `businessVerification`, content, items | create, edit, re-verify, approve, automatic approval | register of companies, menu | edits overlapping approvals | what is live was approved, and complete |
| Catalog (`stores/products.service.ts`, `menu`) | categories with parents, products | create, move, delete, file | - | walks of several queries, deletions in two writes | a forest, nothing orphaned |
| Reviews, rating statistics (`reviews`) | review, `avgRating`, `reviewCount` | create, recompute | restaurants, stores, riders | recomputation racing another review | the rating is that of the reviews |
| Riders (`riders`, `users`) | `Rider`, `User.role`, `phone` | apply, verify, go online; grant and revoke admin | users, orders | three documents written one after the other, a role read from a token | role and profile agree |
| Realtime gateway and pages (`realtime`, `frontend/src/app`) | rooms, connections; what a page shows | connect, subscribe, emit, refetch, poll | orders, conversations | lost connections, events during a fetch | a page at rest is current |
| Opening hours (`frontend/src/lib/opening-hours.ts`) | weekly schedule, `isOpen` | `getOpenStatus`, toggle | - | midnight, the end of the week, overlaps | shown open exactly in its hours |
| Notifications, push, sms, mail | notification rows | fire and forget | all | best effort by design | - |
| Taxes, delivery zones, support tickets, vendor messages, knowledge base, chatbot, uploads, health | their own documents | CRUD, arithmetic | - | little beyond CRUD | - |
| The rest of the frontend | - | - | REST interface | presentation | - |

How they meet: checkout creates the order; **payments** turn
`PENDING_PAYMENT` into `PLACED`; **fulfilment** carries it to `DELIVERED` or
`CANCELLED`; **payouts** claim delivered orders through `vendorPayoutId` and
`riderPayoutId`; a **refund** takes a delivered or cancelled order to
`REFUNDED`, and leaves a clawback if the vendor's payout has claimed it. All
of it meets in one order document, written by all of them. A **vendor** must be
listed before anybody can order from it, and have a **payout account** before
anything is transferred to it; a **campaign** shows it first in the lists. A
**page** sees an order through the realtime gateway, and everything a browser asks
for goes through its **session**.

## Plan

| | Module | Status |
|---|---|---|
| 1 | `OrderStateMachine`, `OrderLifecycle` (abstract), `OrderFulfilment` | checked, proved |
| 2 | `OrderPayments` | checked, proved |
| 3 | `Payouts` | checked, proved |
| 4 | `Checkout`: cart, `createOrder`, promo codes | checked, proved |
| 5 | `CampaignLifecycle` (abstract), `AdCampaigns` | checked, proved |
| 6 | `Sessions`, `LivePage`, `RiderAccounts`, `OpeningHours`, together in `MCClients` | checked, proved |
| 7 | `VendorListing`, `Catalog`, `Ratings`, `PayoutOnboarding`, together in `MCVendors` | checked, proved |
| - | `OrderMoney`: orders, payments and payouts composed | not written: an abstract ledger (charged, paid out, clawed back, refunded) that the composition implements; it would split the save of `finalizeRefund` from the record of the clawback |

## Modules

`OrderStateMachine` holds the graphs of `order-state-machine.ts` as sets of
edges. `OrderFulfilment` and `OrderPayments` extend it. `OrderLifecycle` is the
abstract specification of an order's status, and `OrderFulfilment` instantiates
it with a refinement mapping. `Payouts` stands beside them: it needs of an order
only whether it is delivered or refunded. `Checkout` ends where `OrderPayments`
begins, with an order in `PENDING_PAYMENT`. `AdCampaigns` instantiates
`CampaignLifecycle` as `OrderFulfilment` does `OrderLifecycle`. Each of these
components `X` has
- `X`: constants with their assumptions, variables, one action per handler step,
  properties;
- `MCX`: the values TLC needs, and the symmetry;
- `X_proofs`: lemmas and theorems (`Carts_proofs` has those about carts).

The eight modules described after `AdCampaigns` share two instances, `MCClients` and
`MCVendors`, and two modules of proofs, `Clients_proofs` and `Vendors_proofs`.
They have no variable in common, so their steps commute and any interleaving of
two of them is, for each of them, a behaviour of its own: a variable `part` that
never changes says which of them moves in a behaviour, and the others stay as they
began.

Operators marked `Mutant` are plausible errors in the code; nothing refers to
them. Each shows that a property can fail: with it in place of the definition
named in `PROJECT.json`, TLC finds the property violated.

### OrderStateMachine, OrderLifecycle

`ORDER_TRANSITIONS`, `RESTAURANT_SETTABLE_TRANSITIONS` and
`RIDER_SETTABLE_TRANSITIONS`, and the status sets that handlers test. The
lifecycle's state is a status and the status a refund has claimed the order
from: it takes one edge at a time, or takes back a refund's claim.

### OrderFulfilment

| State | Code |
|---|---|
| `status`, `riderId`, `readyForPickupAt`, `deliveredAt` | the paths of the order document (the times as Booleans: is it set, and for `readyForPickupAt`, is it past the grace period) |
| `by` | the author of the last entry of `statusHistory` |
| `refund` | the status a refund in flight claimed the order from |
| `believes` | riders whose last notification or response says an order is theirs |
| `online`, `verified` | flags of the rider |
| `req` | an HTTP request between its read and its write, with the document as it was read |
| `sweep` | a run of `autoDispatchStaleReadyOrders` between its queries |

`updateStatusByOwner`, `updateStatusByRider` and `assignRiderByOwner` are a read
and a write each; `assignToRider` (the riders' own claim, and the tail of the
sweep and of the seller's pick) is one `findOneAndUpdate`. The sweep lists stale
orders, asks who is near, asks who of them is busy, and assigns. The list of who
is near ends at `Limit` riders (`NEARBY_RIDER_CANDIDATE_LIMIT`, 15 in the code),
busy or not (`IsNearest`), and only then are the busy ones struck off. Riders move, so
which of those in reach are the nearest is open each time. The payment
side appears as `markPaidFromWebhook`, `claimForRefund` and
`revertFailedRefundClaim`, which `OrderPayments` has in full.

### OrderPayments

One order, its checkout sessions at several providers, and the requests that
handle them. `charge` and `webhooks` are the providers (external): a session is
opened, paid, declined or reversed, and each of these sends an event that may be
delivered late, twice and in any order. A webhook leaves the set when the server
has answered it, and providers may send it again before. `unknown` remembers
that a refund call went unanswered. `MayDie` lets a request be cut off between
any two steps. The refund is the code's: claim the order with one update
(`claimForRefund`), call the provider (`AdapterRefund`), then finalize, revert,
or flag for an administrator.

### Payouts

| State | Code |
|---|---|
| `status`, `claimedBy["vendor"]`, `claimedBy["rider"]` | `Order.status`, `vendorPayoutId`, `riderPayoutId` |
| `refund`, `payoutRead` | how far a refund is, and the `vendorPayoutId` on the document `finalizeRefund` got back |
| `payee`, `covers`, `consumption`, `payoutStatus`, `reconciliationRequired` | the `Payout` documents |
| `createdAt`, `remainingAmount`, `pending` | the `PayoutClawback` documents |
| `work` | a batch at one payee, or an administrator's reconciliation, between two awaits |
| `moved` | transfers whose money has really moved (external) |

A batch reads the unpaid orders (`getUnpaidEarnings`), reads and nets the
clawbacks and creates the payout (`createPayout`), claims the orders one document
at a time (`claimOrder`, since `updateMany` is atomic for each document only),
counts them (`ClaimDone`), sends the transfer (`Accepted`, `Rejected`,
`OutcomeUnknown`) and saves the result; the consumption of the clawbacks is a
read and a save for each. `resolveReconciliation` answers truthfully, then
consumes or releases, then saves. `DatabaseError` is an exception of the database
driver: in the `try` block of `executePayout` it is treated as a rejected
transfer, as the code does.

A document slot is used again once its attempt has failed for good and nothing
refers to it; only the history of failed attempts is lost by that, and no
property asks for it.

### Checkout

| State | Code |
|---|---|
| `cartSeller`, `cartLines` | the `Cart` documents: `sellerType` with `restaurantId` or `storeId`, and `items`; no seller means no document |
| `customerId`, `orderSeller`, `orderLines`, `discounted` | the `Order` documents, and whether a code's discount is in them |
| `isActive`, `usedCount` | one `PromoCode`, valid for `CodeSellers` |
| `accepting`, `available` | sellers approved and open; dishes and products on offer |
| `req` | a request between two awaits, with what it has kept of the cart it read |
| `raced` | history: customers of whom a request pushed a line onto a cart that another had changed since the first read it |

A cart handler is a read (`addItem`, which also stands for `addStoreItem`,
`updateItem`, `removeItem`, `reorderFromOrder`) and a save (`InsertCart`,
`PushLine`, `SetLine`, `SetLines`, `DeleteCart`). Which save it is decides what
Mongoose asks of the document: pushing a line asks for nothing, and moves the
document's version on; writing one line asks for the version that was read;
replacing the lines asks for it and moves it on; deleting asks for nothing.
`createOrder` reads the cart (twice, for a restaurant: `createRestaurantOrder`),
checks the seller and the items, validates the code, creates the order, redeems
the code with one conditional update and deletes the cart.

An item is what makes two lines of a cart the same: a dish with its modifiers and
notes, or a product. The reads of a seller and of the items of one check are one
step: each of them is switched by its own owner, so any outcome of reading them
apart is an outcome of reading them together. `reorderFromOrder` keeps the lines
of the old order whose items are still on offer (`Kept`).

### CampaignLifecycle, AdCampaigns

| State | Code |
|---|---|
| `status`, `paymentStatus`, `startDate`, `endDate`, `paymentProvider`, `paymentRef`, `refsOf`, `markedPaidManually` | the paths of `AdCampaign` (`refsOf` is `paymentRefs`; times in days) |
| `sponsoredUntil` | the field of the restaurant or store that the lists sort by |
| `sessionAt`, `session` | the checkout sessions at the providers (external) |
| `req` | a webhook, a verification, an administrator's request or a sweep, between two awaits |
| `disturbed` | history: vendors to whom one of three accidents happened |

The lifecycle is the graph of `ad-campaign-state-machine.ts` and a cancellation
that was allowed earlier. Activation is one `findOneAndUpdate`; the sponsorship is
a second write, by whoever changed the status (`setSponsorship`). The sweep reads
its list, then takes one campaign after the other, and may go on past midnight.
`Continue(t)` is the next step of a request; writes may fail (`faults`) and requests
be cut off.

### Sessions

A refresh token is a document and a cookie. `call` is a request between two
awaits: `refresh` finds the token, reads the user (`assertActive`), issues
the new token (`issueTokens`) and retires the old one (`Rotate`, an unconditional
save). `resetPassword`, `changePassword` and `suspend` save and then revoke every
live token. `Locked` is the mutex of `api.ts`: one per tab, while the cookie is
one per browser. The history says when everything of a user's was last to be
revoked (`epoch`, `issuedIn`), which tokens were issued by a call that a revocation
overtook (`late`), and who has had a reason to be signed out (`provoked`).

### LivePage

A document known by its version, and pages that follow it: `connect`, join the
room (`handleOrderSubscribe`), hear of a change (`emitOrderStatusChanged`, then
`handleStatusChanged`), `Read` and `Show`. RTK Query keeps one fetch under way and
drops a refetch meanwhile (external). `missed` marks the pages that had no way to
hear of a change: cut off, joining, an answer lost, or a fetch that was read before
the change and answered after it was told.

### RiderAccounts, OpeningHours

`RiderAccounts` has the writes of `RidersService.apply` in their order (`WriteAfter`:
phone number, profile, role) beside `changeAdminRole`, which reads and saves, and
the role in the access token, which is out of date until it is renewed.
`OpeningHours` has `getOpenStatus` and `describeOpenStatus` as operators on a
schedule and a clock, and compares them with what a schedule means: each window
opens at its time and stays open for as long as the clock takes to reach its closing
time, up to a day.

### Catalog, VendorListing, Ratings, PayoutOnboarding

- `Catalog`: `shelf` and `parent` are the `ProductCategory` documents, `filed` the
  products' `categoryId`. `collectDescendantIds` is one query per level of the
  walk; a deletion writes the products, then the categories.
- `VendorListing`: one vendor document, loaded and saved by `update`, `approve` and
  the automatic approval; only the fields a handler set are saved, so an edit keeps
  an approval it has not seen (`ApprovedAfterEdit`). `content` counts the editions.
- `Ratings`: insert, aggregate, write. The unique index makes a second review of an
  order fail; `round1` is the code's rounding in tenths.
- `PayoutOnboarding`: `applyPayoutAccountUpdate` is an update of the entry there is
  (`UpdateEntry`), else a push guarded against one that has come since
  (`PushEntry`). Stripe's form and its events are external; events are repeated and
  reordered.

## Runs

Passing runs:

| Run | Instance | Shows |
|---|---|---|
| `fulfil_serial` | 2 orders, 2 riders, 1 request, 1 sweep that looks at one rider (`Limit`); `Serialised`, fair | documents stay consistent (`DocumentsAgree`: no rider on a ready or cancelled order, `deliveredAt` and the status agree; `OnlyTheRiderBelieves`), the handlers implement the lifecycle (`FollowsLifecycle`), and no ready order is ignored for ever while a nearby rider stays free and the busy ones around do not fill the list (`NoReadyOrderStalls`) |
| `fulfil_concurrent` | 1 order, 2 riders, 2 requests, 1 sweep, all interleavings | what the filters alone guarantee: a carried order names its rider and attached riders are verified (`CarriedByVerifiedRider`), and the rider of an order changes only before pickup |
| `pay_concurrent` | 2 sessions of 2 providers, 2 requests, restarts, refunds in a dashboard | an order is placed only if charged and shown refunded only if reversed; one refund at a time, holding its claim (`ClaimIsALock`), never tried again blindly; once placed, an order's payment is written over only by reports of failures that were past their check by then, once each (`OnlyOvertakenFailuresDowngrade`) |
| `pay_serial` | 2 sessions of 1 provider, 1 request, fair | paid orders are placed, claimed refunds are decided and watched until then |
| `payout_concurrent` | 2 orders, 3 documents, 2 workers, restarts, ambiguous transfers | no order is counted in two payouts |
| `payout_serial` | 2 orders with unlike earnings, vendor and rider, 1 worker, fair | both payees end up with what they earned less what was taken back (`PayeeIsSquare`), no claim is stuck, everything earned is paid |
| `checkout_tabs` | 1 customer, 2 requests that interleave, restarts, two dishes and a product | whatever two tabs add, change, remove, reorder and order at once: a cart document exists exactly while it has lines (`CartIsNeverEmpty`), only a push onto a changed cart mixes sellers (`OneSellerPerCart`), and even of such a cart no order of dishes and products is made (`OrderIsOfOneKind`) |
| `checkout_code` | 2 customers and 2 requests, of one customer or of both, a code with one use, 3 orders | different carts, or one submitted twice: the code's counter is truthful (`UsesAreDiscounts`), and the discounts exceed its limit by at most one for each other request (`DiscountsAreBounded`) |
| `campaigns` | 1 vendor, 2 campaigns, 1 session, 2 requests and the scheduler, any of them sweeping, 2 days, 1 fault | nothing is shown unpaid or early (`ShownAsSold`), the vendor is sponsored exactly while a campaign is active (`SponsoredWhileActive`), statuses follow the lifecycle |
| `campaigns_live` | 1 campaign, 2 sessions at either provider, 1 request, 1 fault, fair | a campaign whose last day has come does not stay up (`CampaignsEnd`); a payment through the current provider is recognised (`PaymentsCount`) |
| `clients` | a user with 2 browsers, 3 tokens, 2 calls, 1 revocation, 1 lost call; 2 pages, one of which polls, 3 changes, 2 drops; 2 people, 2 numbers, 3 requests; every schedule of 3 days of 4 minutes | no session outlives a revocation, nobody is taken for a thief, pages are current, role and rider profile agree, hours are shown as they are |
| `vendors` | 3 categories, 1 product, 2 edits; 3 tasks, 3 editions, 2 items; 4 orders, 2 targets, 3 posts; 3 accounts at 2 providers, 2 jobs | categories form a forest and nothing is orphaned; what is live was approved and is complete; ratings are those of the reviews; one entry per provider, active when Stripe says so |

Where a property of the runs from `checkout_tabs` on excludes an accident, it names it by a
history variable (`disturbed`, `late`, `cutOff`, `missed`, `raced`, `stranded`,
`movedTogether`, `deletedUnder`, `drifted`, `garbled`): each is an interleaving or a
failure in which the code really breaks the promise, described in the next section.

### Where the code and what is said of it part

Properties that fail outside the runs' constants. To reproduce one, take the cfg
named and change what is given (`Spec` instead of `FairSpec` is enough for those
that are not about liveness):

| Property | With | What happens |
|---|---|---|
| `NoReadyOrderStarves` | `fulfil_serial` | `findNearbyRiderCandidates` cuts the list off (`orders.service.ts:1029`) before it takes out who is mid-delivery (1043-1054): the nearest rider carries another order for ever, is the whole list each time, and a free rider further away is never looked at. Lines 49-50 call the limit "generous enough that a handful of busy riders near the front doesn't exhaust the list", and `rider-dispatch-scheduler.service.ts:8-9` says that the sweep "guarantees an order the seller never gets to eventually gets a rider anyway": so it does while fewer riders than the limit are busy in reach, which is `NoReadyOrderStalls` |
| `NoReadyOrderStalls` | `fulfil_concurrent`, `FairSpec`, no symmetry | two ready requests read the order; the second saves after a rider was attached; the order is `READY_FOR_PICKUP` with a rider, and no sweep or rider can take it |
| `FollowsLifecycle`, `DocumentsAgree` | `fulfil_concurrent` | the second of two saves writes over the first (`ASSIGNED_TO_RIDER` back to `READY_FOR_PICKUP`) |
| `ProgressByAssignedRider` | `fulfil_concurrent` | the seller reassigns the order between a rider's read and save; the rider who lost it still moves it on (`orders.service.ts:1423`), though `order-state-machine.ts:51` speaks of "the order's assigned rider" |
| `OnlyTheRiderBelieves` | `fulfil_concurrent`, 3 riders | two reassignments overlap: the rider chosen by the first is never told of the second |
| `NoSecondDeliveryFromDispatch` | `fulfil_serial`, 1 rider | a rider accepts an order after the sweep found them free (`orders.service.ts:1046`) and before it assigns them another |
| `PaidOrderIsPlaced` | `pay_serial`, 2 providers, `ProviderOf <- EachItsOwn` | the customer switches provider, then pays on the first session: the webhook is ignored and `verify` asks the other provider |
| `NeverDowngraded` | `pay_concurrent` | a declined webhook reads the order, a payment is confirmed, the first then saves `failed` (`orders.service.ts:1529`), though line 1515 says "Never downgrade a payment that another webhook already resolved as final". If the order was claimed for a refund meanwhile, the filters of `revertFailedRefundClaim` and `flagAmbiguousRefund` (1601, 1623) find no payment to stand by: a refund that fails then leaves the order `REFUNDED` and its payment `failed` |
| `NoBlindRetry` | `pay_serial`, 2 requests, `OneResolver = FALSE` | two administrators reconcile one refund (`orders.service.ts:1664`); after the first answers and a new attempt goes unanswered, the second clears that flag |
| `ClaimIsWatched` | `pay_serial`, `MayDie = TRUE` | a restart between the claim and its end leaves the order in `REFUNDED` with the payment standing: no administrator is told |
| `RefundTargetsTheCharge` | `pay_serial`, 2 requests | a second checkout is opened and the first is paid: `paymentRef` names a session with nothing to reverse |
| `NoRefundForgotten` | `pay_serial`, `OutsideRefunds <- BeforeToo` or 2 requests | the refund webhook comes before the order is refundable, or meets a refund in flight: it is answered as if it had been applied |
| `OrderPaidOnce` | `payout_serial`, one payee, `FailingSteps = {"saveSucceeded"}` | the transfer is accepted, saving the payout fails, the `catch` takes it for a rejection and releases the orders, the next batch pays them again |
| `DeductedOnce` | `payout_serial`, one payee, 3 orders, `AmbiguousDeductions = TRUE` | a payout net of a clawback has an unknown outcome; the next batch deducts the same clawback (`payouts.service.ts:114`); the first payout is then confirmed |
| `PayeeIsSquare` | `payout_serial`, `RefundsMeetPayouts = TRUE` | an order refunded after the batch read the earnings is paid with no clawback; one refunded while its payout is open gets a clawback even if that payout fails |
| `ClaimIsAnswered` | `payout_serial`, `MayDie = TRUE` | a restart in mid-batch leaves the payout `pending` or `processing` with its orders claimed, and nothing looks at it again |
| `DiscountsAreBounded` | `checkout_code`, `MayDie = TRUE` | each restart between the creation of an order and the redemption gives away a use that is never counted |
| `NeverLoggedOutUnprovoked` | `clients`, `BrowserOf` one browser for both tabs | two tabs share the cookie and not the mutex: both refresh with one token, and the second is taken for theft, the incident told in `api.ts:40-48` |
| `PaymentsCount` without its last disjunct | `campaigns_live` | the vendor turns to another provider and then pays at the first: the webhook is ignored (`ad-campaigns.service.ts:558`), the money stays there; a payment for a campaign cancelled meanwhile is not recorded either |

What the excluded accidents are, each found by dropping the exclusion:

- `raced` (`OneSellerPerCart`): a tab reads the cart to add a dish, another starts it
  over with a product, the first pushes its line: the cart holds both, though
  `cart.service.ts:108` says "A cart has exactly one seller". Of a cart of dishes and
  products no order can be made; one of two restaurants' dishes is ordered from
  whichever restaurant the cart names.
- `disturbed` (`SponsoredWhileActive`, and the `Cancel` of `CampaignLifecycle`): a
  cancellation is saved over a campaign that has gone live since it was read
  (`ad-campaigns.service.ts:703`), though 687-688 say "There is deliberately no path
  to cancel an already-`active` campaign"; the vendor stays sponsored for good. Also
  a request cut off before its sponsorship write, and two such writes at once.
- `late`, `cutOff` (`LiveSessionsAreCurrent`): a refresh or a sign-in past its checks
  issues a token after the revocation; a request cut off between the new password
  and the revocation leaves the old sessions.
- `provoked` (`NeverLoggedOutUnprovoked`): the check at `auth.service.ts:355` also
  fires for a token that a sign-out, a password change or a suspension revoked,
  though 356 says "This token was already rotated once"; a refused refresh never
  clears the cookie, so a browser may show such a token and end the sessions of the
  others. A lost answer to a refresh leaves the browser with the retired token.
- `missed` (`PageIsCurrent`): a page that reconnects joins again and does not fetch
  again (the tracking page does not poll), so a change made in between is not shown
  until the next; RTK Query drops a refetch while an answer read before the change
  is pending. Conversations poll; that shows messages and does not mark them read.
- `raced`, `stranded` (`RidersHaveAProfile`): `changeAdminRole` saves over the role
  of an application that finished since it read the account; an application cut off
  before `updateRole` leaves a profile without the role, and trying again is refused.
- `movedTogether` (`CategoriesFormAForest`): two moves that each pass
  `isDescendant` close a circle, and from then on `collectDescendantIds` does not
  end for them.
- `deletedUnder` (`NothingIsOrphaned`): what is filed or moved under a category
  after the walk has passed it outlives the category.
- `raced` (`NothingSwappedIn`, `GoesLiveComplete`): an edit loaded before an approval
  and saved after it is live without review; the last item deleted between the
  count and the approval lists an empty menu.
- `drifted` (`RatingIsRight`): two recomputations write in the opposite order of
  their aggregations, though `restaurants.service.ts:617-619` says a full aggregate
  "can't drift out of sync"; the property says that the next review mends it.
- `garbled` (`OneEntryPerProvider` holds without it; `StatusFollowsStripe`): two
  setups open two Stripe accounts and keep one, and the webhook of the other finds
  no vendor; two events handled in the wrong order leave the older status.

Seen while reading, and not properties here:
- A cart submitted twice, by a double click or by a client that was not answered, is
  ordered twice: both requests read it before either clears it, or the first is cut
  off between the order and the end of the cart, and nothing in `createOrder`
  recognises the second. What the first to finish deletes is the cart as it is by
  then, with what was put into it meanwhile (`FinishOrder`). The runs have all of it;
  no document says otherwise, and what an order costs the code is bounded all the same
  (`DiscountsAreBounded`).
- An automatically approved vendor that edits its name is taken down, and its next
  menu item lists it again: the verification of the old name still counts and no
  administrator looks (`restaurants.service.ts:284-289`, 416-440). Deleting the last
  item of a live vendor leaves it live.
- `createCategory` lets a category that holds products get subcategories, against
  `products.service.ts:216-219`.
- Two `sendPhoneCode` calls at once leave two live codes, against
  `auth.service.ts:187`.
- A rider's licence must be valid "for as long as they're actually delivering"
  (`riders.service.ts:71`) and is not looked at again after the verification.
- `createOrder` asks for the owner's switch and not for the opening hours, so a shop
  shown as closed accepts orders.
- `tax-resolver.ts:47-48` speaks of "a discount larger than the pre-tax total
  (already possible today)"; `validate` caps a discount at the subtotal.

### Bounds

Every constant set is finite in a run and no action counts without limit, except
`createdAt` of `Payouts`, which is bounded by the number of orders, so no state
constraint is needed.
- Two requests or workers are enough for each race named under the hazards: every
  read-then-write in the code spans one await gap at a time, and the races are
  between a pair of handlers, with the sweep as a third.
- Two sessions give every relation between a charge and the reference an order
  keeps: same, earlier, other provider. Three or more repeat one of these.
- In `Payouts` two orders with earnings 1 and 2 let a clawback be absorbed
  entirely, partly, or by two weeks' earnings; the documents number one more than
  can be open at once.
- `payout_serial` keeps refunds away from open payouts and ambiguity away from
  net payouts; the divergences above are what lies beyond.
- In `Checkout` one code with one use, three orders and two customers let both
  pass the check before the last use is taken, and a third order show whether the
  overrun stops there. Two dishes of one restaurant and a product of one store give
  every relation of a new line to a cart: same line, same seller, other kind of
  seller. A cart of two lines can be raced by a third. `MaxQty` stands for the cap of
  20; the runs have 1, so that adding a line again reaches it, and the theorems any.
- `Limit` is 1 of 2 riders in `fulfil_serial`, so that one busy rider fills the list, and
  2 in `fulfil_concurrent`, which is no limit.
- `Orders`, `MaxLines` and `Volatile` bound what customers and owners do in an
  instance; `HasRoom` keeps a customer from ordering when there is no document left.
- In `AdCampaigns` two campaigns of one vendor are what the partial unique index,
  two writes of the vendor's document and a cancelled campaign's successor need;
  two days let a campaign start later than it was paid, or at once, and end. One
  fault at any step: what a second adds is more of the same accident.
- In `clients` three tokens are a session, its successor and another browser's; two
  changes of an epoch would need a fourth. Three versions let a page be behind,
  catch up and fall behind again. Three days of four minutes give every relation of
  yesterday's, today's and tomorrow's windows, midnight and the week's end; the
  comparison depends on nothing else of 7 and 1440.
- In `vendors` three categories make a circle of two and one beside it, and a walk of
  two levels; four orders, three of one target, round in both directions; three
  accounts are one kept, one replaced and one more; two changes of mind make an
  account ready and unready. `NotBoth` stops exploring a catalog to which both of its
  accidents have happened, of which its properties say nothing.
- Symmetry (requests, customers, riders, workers, and the values shared by the parts
  of `clients` and `vendors`) is used only in runs without temporal properties other
  than step properties and `FollowsLifecycle`, which is one.
- Deadlock is not checked where everything may really be over, or a bound reached:
  all orders refunded or paid, all sessions and tokens used.

### Fairness

- Fulfilment: time passes (`GraceElapses`), the cron trigger fires and a sweep
  runs to its end (weak fairness of each sweep's step). Sellers and riders owe
  nothing.
- Payments: a request that has started runs on (weak fairness of `Proceed`). A
  webhook is sent again until it is answered (strong fairness, because the
  handling of another request disables it meanwhile); all three providers retry.
- Payouts: a worker and a refund under way go on (weak). The batch comes every
  Monday and an administrator works through the reconciliations (strong fairness
  of `Start`, which refunds disable meanwhile), and a provider that keeps
  rejecting accepts one day (strong fairness of `Accepted`): without it nothing
  is ever paid.
- Campaigns: the scheduler's job comes every day (weak fairness of
  `runLifecycleSweep(Cron)`), requests go on (weak fairness of `Continue`), and a
  webhook is sent again until it is answered (strong fairness). Nobody has to
  verify, mark as paid or cancel anything.

## Theorems

All are proved by TLAPS from the assumptions on the constants that the module
states and the one named here. The type invariant of each component is one of them.

| Theorem | Assumes | States |
|---|---|---|
| `OrderFulfilment_proofs!TypeCorrect` | - | `[]TypeOK` |
| `RiderAlwaysNamed`, `RiderNeverOverwritten` | - | `CarriedByVerifiedRider`, `RiderFixedOnceAttached` |
| `DocumentsStayConsistent`, `RidersAreToldRight` | `Serialised` | `DocumentsAgree`, `OnlyTheRiderBelieves` |
| `ImplementsLifecycle` | `Serialised` | `Spec => Lifecycle!LifecycleSpec` |
| `OrderPayments_proofs!TypeCorrect` | - | `[]TypeOK` |
| `OneRefundAtATime` | - | `ClaimIsALock` |
| `ClaimStaysWatched` | no restarts | `ClaimIsWatched` |
| `NeverRetriedBlindly` | `OneResolver` | `NoBlindRetry` |
| `PlacedOnlyIfCharged`, `RefundedOnlyIfReversed` | - | `PlacedMeansCharged`, `RefundedMeansReversed` |
| `DowngradesAreOvertaken` | - | `OnlyOvertakenFailuresDowngrade` |
| `Payouts_proofs!TypeCorrect` | - | `[]TypeOK` |
| `OrderNeverPaidTwice` | `NoLostSave` | `OrderPaidOnce` |
| `NoClaimIsForgotten` | `BatchesFinish` | `ClaimIsAnswered` |
| `TheMoneyAddsUp` | `BatchesFinish`, `OneAtATime`, a finite number of payouts | `PayeeIsSquare` |
| `Checkout_proofs!UsesAreReal` | - | `UsesAreDiscounts` |
| `PromoOverrunIsBounded` | no restarts | `DiscountsAreBounded` |
| `Carts_proofs!CheckoutTypeOK` | - | `[]TypeOK` |
| `CartsAreNeverEmpty` | - | `CartIsNeverEmpty` |
| `CartsHaveOneSeller` | - | `OneSellerPerCart` |
| `OrdersAreOfOneKind` | - | `OrderIsOfOneKind` |
| `AdCampaigns_proofs!TypeCorrect` | - | `[]TypeOK` |
| `VendorsHaveOneCampaign` | - | `OneCampaignAtATime` |
| `ShownAsItWasSold`, `SponsorshipIsRight` | - | `ShownAsSold`, `SponsoredWhileActive` |
| `AdCampaigns_proofs!ImplementsLifecycle` | - | `Spec => L!LifecycleSpec` |
| `Vendors_proofs!ListingTyped`, `OnboardingTyped`, `CatalogTyped`, `RatingsTyped` | - | the four type invariants |
| `ListingNotSwapped`, `ListingGoesLiveComplete` | - | `NothingSwappedIn`, `GoesLiveComplete` |
| `OnboardingOneEntry`, `OnboardingFollowsStripe` | - | `OneEntryPerProvider`, `StatusFollowsStripe` |
| `CatalogIsAForest`, `CatalogLosesNothing` | - | `CategoriesFormAForest`, `NothingIsOrphaned` |
| `RatingsAreRight` | - | `RatingIsRight` |
| `Clients_proofs!SessionsTyped`, `PagesTyped`, `RiderAccountsTyped`, `OpeningHoursTyped` | - | the four type invariants |
| `SessionsAreCurrent` | - | `LiveSessionsAreCurrent` |
| `SessionsNotLostUnprovoked` | every tab has a browser of its own | `NeverLoggedOutUnprovoked` |
| `PagesAreCurrent`, `PagesNeverGoBack` | - | `PageIsCurrent`, `NeverGoesBack` |
| `RidersAreWhole` | - | `RidersHaveAProfile` |
| `HoursAreShownRight` | - | `HoursShownAreTheShops` |

The theorems of `Vendors_proofs` and `Clients_proofs` are about the specification
of each part (`VendorListingSpec`, `OnboardingSpec`, `CatalogSpec`, `RatingsSpec`,
`SessionsSpec`, `LivePageSpec`, `RiderAccountsSpec`, `OpeningHoursSpec`).

The arguments:
- **Fulfilment, any interleaving** (`CarryInv`). A request remembers a `from` and
  a `to` that are an edge of the seller's or the rider's graph, so what it saves
  later is one of few statuses even when the document has moved on; the seller's
  never name a status with a rider on the way, and a rider's was sent by a rider
  the order named, and nothing ever detaches a rider.
- **Fulfilment, in turns** (`TurnsInv`). With one request at a time for an order,
  what a request has read is still true when it saves, except where a
  `findOneAndUpdate` has changed it; then the save is shown to be a lifecycle edge.
- **Refund claims** (`ClaimInv`). At most one request is at a step after a claim,
  and while it is, the status is `REFUNDED`, which no other claim accepts; a
  flagged order is back in the status it was claimed from, and an order shown as
  refunded is `REFUNDED`, so no other path takes the status from under a claim.
- **No blind retry** (`RetryInv`). While an outcome is unknown, the order is still
  claimed or is flagged, whoever has the claim is about to flag it, and no
  administrator's answer is on its way to clear a later flag.
- **Money** (`MoneyInv`). Every request or webhook that acts on a payment or a
  refund has, in a session of the order, the charge or the reversal it rests on
  (`Evidence`), and references are never removed.
- **Payouts** (`LockInv`). An order's claim is a lock: a payout that has moved
  money, or counts as paid, holds every order it covers (`Locked`), because a
  batch sends only what it has claimed entirely and gives claims up only when
  nothing has moved (`Knows`), and because the batch that created a payout has it
  to itself until it is flagged (`Alone`). Two paid payouts of one payee that
  shared an order would both hold its one claim field.
- **Claims are answered** (`AnswerInv`). The payout that a claim names is settled, or
  flagged, or in the hands of the batch that made it, and a worker lets go of a
  payout that has failed only when no claim names it any more (`Leaves`).
- **The money** (`LedgerInv`, on top of `AnswerInv`). `PayeeIsSquare` speaks of
  moments at rest; the invariant has to speak of all the others. It keeps the books
  order by order (`Booked`): what is left of the order's clawback, and what payouts
  have taken from it and written off (`Applied`), is the vendor's part of the order,
  or nothing if there is no clawback. A worker that is about to write an amount off
  has read the amount that is there (`Relies`); a payout takes from a clawback no
  more than is left; a payout that was not sent took all it covers (`Sound`); and a
  refund leaves a clawback exactly if the vendor was paid (`Refunding`), which holds
  because refunds and payouts are kept apart (`Apart`). At rest the books are summed
  over the orders, and what the payouts deducted, summed by payouts, is what was
  taken from the clawbacks, summed by orders (`SumOfTable`).
- **Sums**. `Sum` counts cents: it is the cardinality of a set of pairs, so that it has
  its laws (`SumUnion`, `SumAdds`, `SumSame`, `SumOfTable`, `SumOfGroups`) from those
  of finite sets. Where a law needs induction on a set, `FiniteInduction` stands in:
  a family of subsets that has the empty set, and with a set the set and one element
  more, has the whole set. It is about a set of sets and not about a predicate, so
  that it can be cited.
- **A payment stays made** (`PendingInv`). The check of `markPaymentFailed` lets a
  write through only while the payment is pending (one that has failed is not written
  again), which is not the case of any order that was placed: so from
  then on the failures that are still to be saved only become fewer
  (`OnlyAfterTheCheck`, `OthersStay`), and every write of `failed` is one of them.
- **Promo codes** (`Counted`, `Overrun`). While uses are left, the discounts are
  exactly the uses counted and those about to be redeemed. Once the limit is
  reached, discounts and requests past the check add up to no more than the limit
  and the other requests: the one that took the last use is not among them. No
  bound holds without the second half: a request that has passed the check
  creates a discount whatever the counter says by then.
- **Carts** (`CartInv`, `SellerInv`, `KindInv`). The index a request has kept is a line of
  the cart as long as the version it read is the current one, and the version moves
  whenever lines could go; so a save writes a line that is there or fails. While that
  version is the current one, what a request is about to push or to save is of the
  seller it will find in the cart, and what it is about to insert or to order is of the
  seller it has kept (`From`); the push that does not ask for the version is the one
  gap, and who fell into it is in `raced`. Nothing is assumed about how many requests a
  customer sends. What an order is made of has been looked up among the items of its
  seller's kind before (`Checked`), whatever the cart held.
- **Campaigns** (`IInv`, in `AdCampaigns`). What a request has read stays true of its
  campaign whoever gets in between (`RequestsKnow`), sessions once paid stay paid,
  and days only pass. Of an undisturbed vendor the one write that is due says what
  is right at that moment (`OneRightWriter`): every step that would make it wrong is
  itself a second writer, or one of the accidents.
- **The campaign lifecycle** (`StepFollowsLifecycle`). From `IInv`, every step of a
  request is an edge of the abstract graph or leaves every status alone; few steps
  touch the mapped `cancelling` (`MostAreAside`), and for these it changes as the
  abstract request and its answer do.
- **Listing** (`ListingInv`). An edit that saves over an approval it has not seen was
  under way when the approval was saved, which is the race that is named; an
  approval under way has counted items and a verdict that nobody has touched since.
- **Onboarding** (`OnboardingInv`). An account belongs to one job or one entry.
  For every account that nothing garbled, the entry's status is that of the latest
  event handled, and what is newer is in an event still on its way.
- **Categories** (`ForestInv`, `OrphanInv`, on `CatalogBase`). A move walks down from
  its category, and goes on only if it has not met its target: then some set that
  holds the target, and with a category its parent, keeps clear of the category
  (`MoveKnows`), and the new edge closes no circle. While the walk lasts, the set may
  meet what was found only where the walk has still to go. A deletion has found
  all that hangs below its category, apart from the frontier that it has still to
  read (`DeleteKnows`).
- **Ratings** (`RatingsInv`). A post that nobody overtook writes the count and the
  average as they are, unless another post has still to write them (`Fresh`); so a
  target that nobody is posting about shows them (`Settled`). `Total` is the
  cardinality of a set of stars, and rounding is division with its remainder.
- **Sessions** (`SessionInv`). A live token is of the current epoch, or late, or its
  user has a revocation coming or cut off; a call that is about to issue one is the
  same, or marked as overtaken.
- **No false theft** (`ReplayInv`). The token in an unprovoked user's cookie is live,
  unless the answer that replaces it is on its way to the same browser, and no
  other browser has the same token. The lock keeps the tab from showing it
  meanwhile; a second tab on the cookie would break it.
- **Pages** (`LiveInv`). A page that missed nothing shows the document, or has a fetch
  that is not read yet, or is to be told; so with nothing on its way it is current.

- **Riders** (`RiderInv`). An errand that is about to save the role has made the profile,
  and whoever has a profile without the role has such an errand, or was cut off, or
  raced with a change of the role.
- **Opening hours** (`OpensOnTheDay`, `WeeksGoRound`). No invariant is needed beyond the
  types; the work is arithmetic modulo the week, for every length of a day and
  number of days: the first day on which `getOpenStatus` finds an opening is the day
  of the first minute at which the shop is in its hours.

The assumptions. `NoLostSave` says that the database does not fail in the steps that
`executePayout` guards with its `catch`, and `BatchesFinish` that neither it nor a
restart cuts a batch off with a payout in hand: the table above has what happens
otherwise. `OneAtATime` says, in `Payouts`, that one batch or administrator is at
work at a time, that refunds are not under way while a payout is open, and that no
transfer net of a clawback is ambiguous: these are the conditions of the run
`payout_serial`, without which the property fails as told above. `IsFiniteSet(Payouts)`
stands for: there are finitely many payout documents.

Only model-checked: liveness (`NoReadyOrderStalls`, `PaidOrderIsPlaced`,
`RefundIsDecided`, `EarningsAreSettled`, `CampaignsEnd`, `PaymentsCount`), which
TLAPS does not do under fairness. Every other property of the runs is stated by a
theorem.

## Not modelled

- Data: addresses, prices, modifiers, wording, pagination, reports. No guard of
  `createOrder` depends on an amount, except a code's minimum, whose refusal ends
  the request like any other; fees, tax and commission are computed and stored.
- Editing a code's limit or scope, and a line's notes. The stock of a product is
  compared with the quantity at checkout (it is part of `available`) and nothing
  in the code ever decrements it.
- Providers: their HTTP interfaces and signatures. A transfer is accepted,
  rejected or unknown; one that is accepted and fails days later (Flutterwave's
  queue) is not told to the server by any handler in the code.
- Disputes (they set a flag), partial refunds (they notify), orders settled by an
  instant split (never claimed by a payout).
- Payouts in several currencies or at several providers: groups share nothing
  but the worker, which takes them one after the other. A batch over many payees
  is many workers.
- An administrator who answers a reconciliation wrongly, or whose answer money
  overtakes later.
- Taxes, fees and prices: arithmetic on amounts, on which no guard of a modelled
  handler depends. Delivery zones: a geometric query of the database.
- Support tickets and vendor messages, apart from what a page shows of them: a
  message is pushed, a conversation closed, and nothing relates the two. Knowledge
  base and chatbot: reads, and an external language model.
- Notifications, push, sms, mail: fire and forget. Uploads, health, configuration,
  migrations, scripts: input and output, run once.
- Phone codes and links in e-mails: they decide who may sign in; what a session does
  afterwards is in `Sessions`.
- The frontend's pages, forms, translations and the request and response types, more
  than half of the repository's lines: presentation over the REST interface. They
  hold no state another actor could race with beyond what `Sessions`, `LivePage` and
  `OpeningHours` have, and what they may send, and how often, is an input of every
  model. DTO validation, response shaping, queries, exports and reports of the back
  end change no state. This is why the models cover a small share of all
  lines, and most of the state-changing code of the modelled services.
- The composition `OrderMoney` of the plan: orders, payments and payouts meet through
  the interface each module states of the others (the refund claim in
  `OrderFulfilment`, `payoutRead` in `Payouts`), and their product is beyond what TLC
  can explore in full at two orders.
