# Verification of milkandhenny.com

TLA+ specifications of the parts of milkandhenny.com whose correctness depends
on the order of concurrent steps: the sale of tickets through Stripe, what
happens to a ticket afterwards (assignment, transfer, return, refund, exchange,
admission), the scanner that works without a signal, the waitlist, the e-mail
outbox, the queues behind photos and previews, the publication of albums, one
page in a game room, and one game. TLC checks small instances; TLAPS proves the
main safety properties of all of these parts for every instance.

Paths below are relative to the repository (`src/` in PROJECT.json).

## The system

One Next.js application and one media worker process share a Postgres database,
two R2 buckets (private originals, public copies), Stripe and an e-mail
provider. Almost every feature is a set of request handlers over Postgres rows;
parts interact through those rows, through webhooks, and through queues that a
worker or a scheduled job drains with leases. Two pages keep state of their own
in the browser: the door scanner and the pages of the multiplayer rooms.

| Part | State it keeps | Operations | What is hard |
|---|---|---|---|
| Ticket capacity (`features/tickets/capacity.server.ts`) | counts over `tickets`, `checkout_sessions`, exchange holds | sold and held places per type, event and person | several sellers of one place; holds without an expiry |
| Checkout (`features/tickets/checkout.server.ts`) | `checkout_sessions`: status, expiry, claim time, `refund_ref` | start, persist, fulfil, expire, cancel, dispute, refund status, buyer's page | every step commits on its own; a handler can stop anywhere; a claim is taken over after two minutes |
| Refund of one ticket (`checkout.server.ts`, from line 1040) | `ticket_refund_allocations` | prepare, call Stripe per allocation, record, webhooks | lost answers; two allocations of which one fails; an order-wide balance |
| Ticket store and issuance (`store.server.ts`, `tickets.server.ts`) | `tickets`, `event_participants` | insert under capacity, void, refund, dispute, restore, redeem | a cumulative refund amount; statuses written by five features |
| Ticket exchange (`exchange.server.ts`) | `ticket_exchanges`, `ticket_exchange_refunds` | reserve, complete free, refund a difference, charge a difference | a handler and its own webhook both complete it |
| Attendee operations (`ticket-operations.server.ts`) | assignments, transfers, return requests | request, accept, cancel, resend, expire, consent | two parties, links that lapse, a holder that changes |
| Stripe webhook (`features/event-operations/stripe-webhook.server.ts`) | none of its own | one branch per event type | events lost, repeated, delayed and reordered |
| Stripe adapter (`lib/platform/stripe.server.ts`) | Stripe's sessions, payments, refunds, disputes | create, retrieve, refund by idempotency key, list | an answer that is lost after the effect |
| Door scanner (`features/tickets/ui/DoorScanner.tsx`, `door-queue.ts`) | the page's state, its ref, session storage | scan, decide offline, replay, refresh, reload | three copies of one state, handlers that interleave at every await |
| Waitlist (`features/event-waitlist/waitlist.server.ts`) | entries, inventory seen and credited | request, confirm, leave, reconcile | places that come free, are sold and come free between reconciliations |
| E-mail outbox (`lib/platform/email-outbox.server.ts`) | `email_outbox`, `email_suppressions` | insert, claim, deliver, settle, cancel, bounce | late reports of attempts whose lock lapsed |
| Object operations (`features/media/object-operations.server.ts`) | `media_object_operations` | enqueue, claim, renew, complete, fail | a lease that ends under its worker; the attempt limit |
| Album publication (`features/media/album-*.server.ts`, `admin-albums.ts`) | `gallery_albums`, `gallery_album_photos`, both buckets | create, publish, unpublish, edit, upload, remove, delete; the worker's batch | bucket calls cannot be rolled back; stale snapshots; takeovers |
| Transfer media jobs (`features/transfers/media-*.server.ts`) | `transfer_media_jobs`, attempt outputs, the private bucket | claim, complete, fail, requeue, cancel, stage, delete | late attempts that publish or delete outputs |
| Rooms (`features/things/shared`, `lib/platform/multiplayer*`) | rooms, action receipts; on the page: uncertain ids, poll | act, retry, poll, end | one intent, one effect; snapshots out of order |
| Liars (`features/things/liars/liars-room-engine.server.ts`) | the room's JSON | lobby, deal, night, day, vote, verdict, ending, host controls | choices and ballots of earlier rounds; who decides a game |
| Credits, guest requests, event cancellation, checkpoints, scheduled jobs, scoring, polls, pages and so on | rows per form | read and write | single-row updates, or loops over the operations above |

PROJECT.json lists every part, with its status and the reason when it is not
modelled, and the hazards found while reading, each at its line.

## Modules

    TicketCapacity   <-- Checkout          <-- MCCheckout, CheckoutProofs
    TicketExchange   <-- TicketOperations  <-- TicketOperationsProofs
    TicketOperations, OfflineDoor          <-- MCTicketOperations
    OfflineDoor      <-- OfflineDoorProofs
    Waitlist, EmailOutbox, LiveRoom        <-- MCDelivery, DeliveryProofs
    ObjectOperations <-- ObjectOperationsProofs
    ObjectOperations <-- TransferMedia
    TransferMedia, ObjectOperationsProofs  <-- TransferMediaProofs
    TransferMedia, LiarsRoom               <-- MCMediaAndGame
    LiarsRoom        <-- LiarsRoomProofs
    ObjectOperations <--INSTANCE-- AlbumPublication <-- MCAlbumPublication, AlbumPublicationProofs

An arrow without a label is EXTENDS. Three MC modules hold parts that do not
interact in the code. Their variable `part` says which one moves, the others
stay in their initial state, so each is explored as if it were alone.
`MCAlbumPublication` chooses among instances of one module in the same way.

### TicketCapacity

The counting queries. A held place is a pair (reference, number), so that a sum
of quantities is the size of a set. `Available` is the conjunction of refusals
that `startCheckout` and `insertTicketsWithCapacity` share; both run while they
hold the event's and the ticket type's row locks, so each is one atomic step.

### Checkout

The ledger row of each reference, the tickets, and Stripe's side: session,
refunds by idempotency key, dispute, and the webhook events that were `sent`
and those still `due` (not acknowledged). A handler is a worker with a program
counter; every database statement or transaction and every Stripe call is one
action, so another handler can run between any two.

| Code | Actions |
|---|---|
| `startCheckout` | `StartCheckout`, `CreateSession`, `CreateFails`, `PersistSession`, `PersistFails` |
| `fulfilCheckout` | `Claim`, `Retrieve`, `RetrieveFails`, `Recover`, `Issue`, `IssueThrows`, `Release`, `RefundPayment`, `RefundPaymentRefused`, `RefundFails`, `Settle`, `Record` |
| `expireCheckout`, `resolveCheckoutOutcome` | `ExpireCheckout`, `Nudge` |
| `handleStripeWebhookEvent` | `Deliver`, `Reconcile`, `CancelFind`, `CancelRefund`, `CancelRefundRefused`, `CancelWrite`, `RefundRow`, `RefundTickets`, `DisputeRow`, `DisputeTickets`, `RestoreTickets`, `Reopen` |
| `issueTickets` without payment, `voidTicket` | `IssueDirect`, `VoidTicket` |
| Stripe, the buyer, time | `Pay`, `AsyncPayment`, `Lapse`, `GrowStale`, `DashboardRefund`, `RefundSettles`, `OpenDispute`, `WinDispute` |
| the process | `Crash` |

Abstractions. Money is counted in tickets of equal price, so a partial refund is
a whole number of tickets, and what was refunded is the size of a set of units
(refund, number), of which there are as many as its amount. Each of the two clocks is a Boolean that time may
set: `lapsed` (the row's `expires_at` has passed) and `stale` (the claim is
older than two minutes). Stripe's `charge.disputed` is taken to be false again
once a dispute is won, which is how the won branch of the webhook relies on it.
Left out: credits, exchange holds, cancellation of the event and the sales
window, waitlist conversion, e-mails, comp overrides, and the capacity triggers
of the migrations. An event without a capacity is one with a large `Capacity`.

### TicketExchange and TicketOperations

`TicketExchange` has the rows of `ticket_exchanges`, each with its refund, its
checkout session, the handler that began it, a webhook at work on it, and
Stripe's side of it; `TicketOperations` extends it with everything else that can
happen to an issued ticket and has the specification. Every transaction locks
its ticket row first and is one action; statements outside a transaction are
actions of their own, and what they read is kept until it is used: the webhook's
look at the row (`HookReadsExchange`) and the handler's (`CheckExchange`) come a
step before the transaction that relies on them. Nothing keeps the next exchange
of a ticket from being reserved while a handler or a webhook is still at work on
the last one; `overtaken` records where that happened.

| Code | Actions |
|---|---|
| `reserveExchange`, `beginTicketExchange` | `ReserveExchange`, `CompleteFree`, `AllocateExchangeRefund`, `CallExchangeRefund`, `ExchangeAnswerLost`, `WriteExchangeRefund`, `PendExchange`, `CheckExchange`, `FinishExchange`, `OpenExchangeSession`, `AwaitPayment` |
| the exchange's webhooks and Stripe | `ExchangeBankSettles`, `HookReadsExchange`, `HookExchangeRefund`, `SessionEnds`, `FulfilExchange`, `ExpireExchange`, `UpgradeRefunded` |
| assignments | `RequestAssignment`, `AcceptAssignment`, `CancelAssignment`, `ResendAssignment`, `ExpireAssignment` |
| transfers | `RequestTransfer`, `AcceptTransfer`, `EndTransfer` |
| returns | `RequestReturn`, `Consent`, `EndReturn` |
| `refundTicket` | `StartRefund`, `StartReturnRefund`, `RefuseReturnRefund` (its transaction), `AnswerRefund`, `CallFailed`, `RecordAnswer`, `MarkRefunded`, `TellReturn` |
| the refund's webhooks and Stripe | `BankSettles`, `HookAllocation`, `HookReturn`, `HookTicket`, `ChargeRefunded` |
| the door and staff | `Look`, `ClaimRedemption`, `Unredeem`, `VoidTicket` |
| the process | `Crash`, `ExchangeStops` |

An operation that ended keeps no record, since its link is consumed or revoked
in the same transaction; one past its expiry can only be ended. `refundTicket`
reads the order's balance just before its transaction; the read is merged into
it. `consented` holds a handler of `acceptRefundConsent` between its own
transaction and its call of `refundTicket`. Prices differ by one unit at most,
so one payment covers a difference; a ticket is upgraded against payment once at
most, and the webhooks of one exchange are handled one at a time. Left out: policies (a refusal is a step not
taken), corrections by administrators, disputes of upgrade payments,
`refundOrder`, notifications.

### OfflineDoor

One scanner page against the server's row of each code. The page keeps its
shift as React state, as the ref its handlers read and in session storage.
`Render` draws the state; `Effects` are the passive effects of that render, which
run later and write the shift that was drawn (`drawn`, not the latest) to the ref
and the storage. A scan may be decided in between: the effect then takes its
admission out of the ref again, and the next scan, which makes the state what the
ref is, forgets it (`between`, disagreement 23). A queue is a set: a code is
queued once, since whom the page let in it refuses, and a replay may take the
entries in any order, the order of the scans among them.

| Code | Actions |
|---|---|
| `handleScan` | `Scan`, `ScanAnswered`, `ScanUnanswered`, `ScanDecided` |
| the replay | `StartReplay` (inside `Effects`), `ReplayAnswered`, `ReplayStops` |
| the manifest | `Refresh` |
| render, effects, reload, the browser's signal | `Render`, `Effects`, `Reload`, `SignalChanges` |
| a transfer, refund or rotation elsewhere | `CodeLapses` |

### Waitlist

Every operation is one transaction under the event's row lock. `Reconcile`
computes what came free against what was seen (`Delta`, `CapacityDelta`), adds it
to credits (`Credited`), goes through the line in order (`Turn`, a recursive
function: in his turn a candidate takes a credit of the event and one of a type)
and queues alerts; an address blocked meanwhile gives its place to the next. A
person makes one entry. `line` keeps everybody in the order of `confirmed_at`;
who of them is still a candidate is asked in his turn, as the query does. A sum
over the types is the size of a set of places, as in `TicketCapacity`.

`freed` counts the places that come free, to compare them with the alerts. The
first reconciliation of an event has no inventory rows to compare with and takes
everything on sale for new; those places are counted too (disagreement 26).

| Code | Actions |
|---|---|
| request, confirm, leave | `RequestWaitlist`, `RequestStopped`, `Confirm`, `Leave` |
| reconciliation | `Reconcile`, `ReconcileSome` |
| the box office, an alerted buyer | `Sell`, `BuyAlerted`, `ReturnTicket`, `Exchange`, `ChangeEvent` |
| bounces and their removal | `Stop`, `Resume` |

### EmailOutbox

A row's status, attempts and whether its lock still holds, and one courier per
row in flight: `InsertEmail`, `ClaimMail`, `Deliver`, `FinishAttempt`,
`CourierLost`, `LockLapses`, `StopDelivery`, `ContentExpires`, `CancelMail`,
`BounceReported`, `Unblock`. Retry delays are time and not modelled.

### ObjectOperations

One row per operation: status, attempts and whether its lease is `live`. A claim
token is fresh for every claim, so the number of the attempt stands for it.
`held` is what workers remember, current or not: a worker whose lease ran out
still holds its claim and may try to settle it. Renewal moves the end of a
running lease and changes nothing in this state.

### AlbumPublication

One album. `Write` is the transaction of `writePostgresAlbum` or
`deletePostgresAlbum` with everything it enqueues; a request first reads the
album (`Ask...`), may then upload bytes or list buckets without a lock, and
writes against the revision it read. A worker goes through `Begin`, `TakeLock`,
`Call`, `SettleOp` or `FailOp`; it holds the album's lock from `TakeLock` to the
end of its transaction. `fresh` records that `lease_until > now()` is evaluated
with the transaction's start time, however long the lock or the bucket takes.
The variants and the original of a photo go through every operation together
and share a key. Only the Postgres store is modelled (`ALBUM_STORE=postgres`);
a photo's bytes, titles, order and focal point are not.

### TransferMedia

The previews of one transferred file. A claim token names its attempt's output
keys, so a token stands for the objects of its attempt.

| Code | Actions |
|---|---|
| the worker | `ClaimJob`, `SourceGone`, `Upload`, `CompleteJob`, `OriginalOnly`, `FailJob`, `StopJob`, `DropOutputs`, `LeaveOutputs`, `JobLeaseEnds` |
| reprocessing, expiry, deletion | `Requeue`, `Expire`, `Tombstone` |
| maintenance and operators | `CancelObsolete`, `StageAbandoned`, `ClearQueue`, `RetryDead` |
| the ledger's worker | `LedgerStep`, `DeleteStaged` |

`DeleteStaged` puts an object's deletion and the completion of its operation
into one step: the claim, the failure and the lost lease around it are those of
`ObjectOperations`.

### LiveRoom

One player's page, one room in Postgres, requests that arrive, arrive late or
get lost, and a poll. `Press`, `Arrives`, `ArrivesLate`, `Answered`, `Fails`
are the dispatcher and `runMultiplayerAction`; `Transition` is what the server
does with an action, and asks for a receipt before it asks who sends it, so that
a removed player's retry is still answered; `StartRead`, `ReadRoom`,
`ReadAnswered`, `Unreachable` the poll; `Render` the next screen; `OthersAct`
and `RoomCloses` the room's other side. What the action does is up to the game.
The limit of forty uncertain ids is not reached, and a conflict of fingerprints
cannot occur, since an id carries its control. The wake socket, which only asks
for a read earlier, and the Redis and in-memory stores are left out.

### LiarsRoom

Mafia mode. Every request is one transition of the room under its lock.

| Code | Actions |
|---|---|
| lobby and host | `JoinLiars`, `StartLiars`, `Depart`, `PassHost`, `ClaimHost`, `Replay`, `BackToLobby`, `EndLiars` |
| night | `NightSelect` |
| day | `ReadyToVote`, `VoteCast`, `GraveyardVote`, `VoteLock` |
| `advance`: the end of a phase | `Elapse`: `DealOver`, `EndNight`, `DawnOver`, `TalkOver`, `VoteOver`, `VerdictOver` |

Deadlines and presence are not modelled: a phase may end at any time, so pausing,
extending and locking a choice at night change nothing, and the host's role may
pass to anybody the rule allows. Choices that only inform, roles from nine
players on other than the jester, and what the players are told are left out.

## Runs

| Run | Instance | Shows |
|---|---|---|
| `CheckoutRaces` | two references of two types, one place in the event, a guest, staff, two handlers, one fault | `TypeOK`, `NoOversell` |
| `CheckoutPayments` | one reference of two tickets, room for four, immediate and delayed payment, two handlers, two faults, two dashboard refunds | `OneOrderPerCheckout`, `RefundedMeansReturned` |
| `CheckoutRefunds` | one reference of two tickets, one handler at a time, one dispute, one dashboard refund that may be pending or fail, two faults | `AdmissionWithinMoneyKept`, `DisputedAdmitsNobody` |
| `CheckoutSettles` | one reference, every payment outcome, pending refunds, two faults, fairness | `PaidIsAnswered` |
| `AlbumPublication` | `partial`: two photos, one administrator and worker, publish, unpublish, remove; `takeover`: one photo, two administrators, two workers; three revisions | `PublishedIsServed`, `OnlyPublishedIsPublic` |
| `AlbumRequests` | one photo, four revisions, up to two faults, fairness; `ends`, `again` (removed and uploaded again), `deleted` (and created again), `card` | `AlbumTypeOK`, `PublicationEnds`, `QueueDrains` |
| `MediaAndGame` | a file of two generations, two claims, a ledger of one worker; a table of four, two deals, two rounds, two games | `NothingStranded`, `SettledIsFinal`, `PreviewIsServed`, `PreviewIsCurrent`, `DeletedLeavesNothing`; `UndecidedGoesOn`, `ChoicesAreFresh`, `HostIsHere`; `TypesOK` |
| `TicketOperations` | `desk`: one ticket, sold or complimentary, two persons, two types, two rotations of the reference, one fault, one exchange; `exchanges`: three exchanges of one ticket; `door`: one scanner page, two codes, two scans or replays at a time; `lapses`: a code that loses its force | `CheckedInHasNoRefund`, `BothConsented`, `TransferExcludesReturn`, `AmountMatchesMoney`, `ExchangedOnce`; `OfflineOnce`, `NothingUnsent`; `TypesOK` |
| `Delivery` | two people, two types of one place, two places freed; two mails to one address, two couriers, two attempts; one control, three states of the room, two intents, two losses; fairness | `AlertsWithinPlaces`, `ToldIsQueued`, `FirstComeFirstTold`, `NoPlaceLost`; `OfferedIsFree`, `MailSettles`; `MeantOnceHappensOnce`, `AcceptedHappened`, `LiveRoomGoesOn`, `PageCatchesUp`; `TypesOK` |
| `CheckoutRestoreOversells` | two references, one place, one dispute | `NoOversell` is violated |
| `CheckoutSlowClaim` | one reference, two handlers, claims that outlive two minutes | `OneOrderPerCheckout` is violated |
| `CheckoutRefundRace` | one reference, two handlers, one dashboard refund | `AdmissionWithinMoneyKept` is violated |

`TypesOK` is the conjunction of the types of a run's parts. Deadlock is not
checked: a shop whose buyers have all been served, an empty queue and a game
that is over have nothing to do.

### Bounds

Capacity can only be exceeded by two sellers of the last place, so one place,
two buyers of different types and a guest contain every race. A second order
needs two runs of `fulfilCheckout` for one reference, so two handlers and a
number of repeats suffice; room for four tickets makes sure that capacity does
not hide a second order of two. A cumulative amount can be misapplied only with
two partial refunds of an order of two.

Two photos are needed for a publication that is partly copied; three revisions
give publish, interrupt, publish; the fourth is needed for a publication after
an upload that replaced a removed photo. Two operations are the smallest queue
in which a worker can hold a current and a lost claim. Two claims of a file's
jobs are an attempt and the one that overtakes it, of the same generation or of
the next.

What happens to a ticket is decided under its own row's lock, so one ticket
shows every order of its handlers; two persons are giver and receiver, and two
rotations a transfer there and back. Every handler of the ticket, both webhooks
and a scan can be in progress at once. With one ticket `ChargeRefunded` is the
refund of a whole order; see disagreement 13 for an order of two. Three exchanges
are what it takes to bring a ticket back to the type that an exchange still at
work had found; meanwhile the ticket may be voided, scanned and undone, and the
handlers and webhooks of all three overlap. Two scans or replays at a time
contain every overlap of two handlers of a page; the two codes are alike
(`SYMMETRY`), and a page that lost an admission is not followed further, because
both properties of the door except what was lost.

Two people and two types show who is passed over and for whom; a second place
that comes free is one that an earlier reconciliation saw and the box office
sold. Two mails to one address show a block that stops what is under way. Three
states of a room are an old, a current and a newer screen; two intents and two
losses an action, its retry and the next action.

A game of liars needs five players; the run has four, which keeps the night's,
the vote's and the graveyard's choices few enough. `Suspects` bounds whom choices and ballots
name, `Leavers` who leaves, `Leads` whom the role of host is given to; while p2
lives it otherwise falls to p2. A game that ended is followed into the next up
to its first vote. `MoreRounds` stops a game after two rounds. The proof about
this game has none of these bounds but `MoreRounds`, which is a guard of the
module.

### Fairness

`Checkout`: a running handler takes its next step (weakly fair), a claim grows
old, Stripe settles the refunds it accepted, and every event type of every
reference is delivered again until it is acknowledged (strongly fair: Stripe
retries for three days, and a worker is free again and again). Faults are
bounded, so a call that is repeated is answered at some point. Nothing is
assumed of the buyer: the page that nudges a checkout may never be opened.

`AlbumPublication` and the queue under it: a worker goes on with its batch
(weak), claims again and again, because the worker's loop runs every thirty
seconds and takes the oldest row (strong, because between two of its batches it
is busy), and leases end.

`EmailOutbox`: a courier that has claimed a row delivers and settles it or is
lost, locks lapse, the outbox's job comes back for every row that can be claimed
(strong: couriers are busy in between), and rows past their attempts are swept
up. Nothing is assumed of bounces, cancellations or the provider's answer.

`LiveRoom`: the poll's timer fires, a read ends, and React renders the newest
snapshot. Nothing is assumed of the person, of the actions or of other players.

`Waitlist`, `TicketOperations`, `OfflineDoor`, `TransferMedia` and `LiarsRoom`
are checked for safety only.

## Proofs

### Sale: CheckoutProofs

For any references, ticket types, buyers, handlers, quantities, capacities and
faults, from `CapacityAssumption`, `CheckoutAssumption` and `NoneAssumption`
("no event" is not an event):

- `NothingOversold`: `NoOversell` holds always if no payment is disputed
  (`Disputes = {}`), also when slow claims are taken over;
- `IssuedOnce`: `OneOrderPerCheckout` holds always if no payment is disputed and
  claims outlive their handlers (`SlowClaims = FALSE`);
- `DisputeStopsAdmission`: `DisputedAdmitsNobody` holds always if handlers run
  one at a time (`Workers` has one member at most), as in `CheckoutRefunds`, with
  crashes, slow claims, repeats and any order of events;
- `CheckoutIsTyped`: `TypeOK` holds always, and with it that no payment returns
  more than it brought in, without a hypothesis;
- `RefundsArePaidFor`: `RefundedMeansReturned` holds always, at every moment and
  not only at rest, if a refund succeeds at once (`RefundStarts` has only
  `succeeded`);
- `AdmitsWithinMoneyKept`: `AdmissionWithinMoneyKept` holds always if handlers
  run one at a time, whatever becomes of a refund later.

The hypotheses are needed: the runs `CheckoutRestoreOversells` and
`CheckoutSlowClaim` violate the first two properties without theirs, and so does
item 9 below; with a second handler the third and the last fail as item 3 says;
a refund that fails after it was reported is item 8. For the first two, the argument has two parts. Capacity: `Available` counts what is sold and
what is held under the lock, the inserted rows were not valid before, so the
sets of sold tickets grow by exactly the quantity asked for (`IssueAddsOnce`);
every other step only shrinks them (`KeptSaleKeepsCounts`). Issuance:
`OneOrderPerCheckout` is not inductive, since two handlers could both stand
before the insert. `SaleInv` adds that a row has one claimant at most
(`OneClaimant`), that nobody else can move a claimed row back to a status from
which it can be claimed or let its claim grow old (`ClaimKept`; this needs that
a cancellation only ever writes `refunded` or `refund_pending`), and that a
handler about to issue found no tickets of its reference (`WorkerOK`). Every
action is shown to leave rows, tickets and handlers within `RowsKept`,
`TicketsKept` and `GoesOn`, from which the invariant follows once for all of
them; only the claim and the two issuances are argued on their own. `SaleInv`
says nothing of amounts.

A dispute is another argument, about what is still to come. `DisputeInv` says of
every open dispute that its event is still due, or that no ticket of the payment
is valid and no handler of it is past `retrieveSession` (`Stopped`). Only the
handler of that very event can acknowledge it, and it does so in the step that
voids the tickets (`HandlerTrue`); `retrieveSession` sends nobody on to issue
while the dispute is open; tickets are restored only for a dispute that was won,
which it stays (`NoticesTrue`). Events repeated after the win, and a crash
between the row and the tickets, leave this intact. With two handlers it is
`Stopped` that breaks: one may have asked Stripe before the dispute opened.

The last three are about money. A sum of refunds is the size of a set of units,
so adding a refund is adding a set disjoint from it, which takes no induction: a
refund that Stripe makes is a new element because of its idempotency key.
`TypeInv` is `TypeOK` with what the types rest on (Stripe refuses what exceeds
the balance; an event of a handler is one that was sent). For a ticket marked
refunded, `BooksInv` says that an event tells no more than was returned, and
that the refunded tickets of a payment are among its first in order of issue, as
many as were paid back; amounts only grow where refunds do not fail, and new
tickets come after all others, so that what was covered stays covered. For
admission, `KeptInv` is again about what is still to come: what a payment has
returned is told by an event still due, or taken from its tickets while nobody
is about to issue (`Told`). A handler past the reconciliation has applied its
event's total (`KnowsOrder`), and the event is acknowledged only there.

### After the sale: TicketOperationsProofs

For any tickets, persons, scanners, prices that keep `PriceAssumption`, and any
bounds:

- `AdmittedAreNotRefunded`: whoever is inside has no refund under way or paid;
- `RefundsAreAgreed`: the refund of a transferred ticket carries the word of the
  buyer and of the holder;
- `TransfersAndReturnsApart`: a transfer that can be accepted excludes a return
  and a refund;
- `AmountsMatchMoney`: the amount of a ticket in use is what Stripe keeps for it
  (`AmountMatchesMoney`), unless a refund's answer was lost, an exchange was
  given up whose difference had gone back, or an exchange's change was made
  twice; for orders of one ticket where exchanges are offered;
- `OperationsAreTyped`: `TypeOK` for any number of tickets, and with it that no
  amount is ever negative.

None of the first three is inductive: a webhook, a crash or an answer changes one of ticket, handler,
allocations and Stripe's refunds at a time. `DeskInv` says what each tells of the others:
while a refund is under way its ticket is neither valid nor redeemed
(`OutOfUse`); where a handler stands and which allocations exist tell what
Stripe may have been asked (`HandlerKnows`, `RowsMatchBank`); a return that
reached its refund has both words, and the words are of the present holder
(`WordsGiven`, `Agreed`); `Apart` is the third property. The hardest step is the
failure of one call (`CallFailedInv`), which restores the ticket: it may do so
only because a handler that has not `started` has no allocation at Stripe. A
refund whose answer was lost is none that anybody knows of, and not counted as
under way: see disagreement 17. `Ledger` gives what the amounts need for the
refund's transaction to ask for something. Each action keeps
`DeskInv` for its own ticket and leaves the others' state alone
(`OneTicketStep`).

The amounts are a balance that every step keeps, `AccountsInv`: what a ticket
costs is what Stripe keeps for it, what its exchanges have moved and the ticket
does not show yet, or shows twice, and what its refund has moved. `RowOK` says of
every row of `ticket_exchanges`, the one under way and those that came before,
where its handler, its refund, its session and its webhook may stand and how
often its change was made; every action keeps it for the row it moves and leaves
the other rows' alone. A ticket costs nothing or the price of its type, which
with differences of one unit makes every amount a number. In an order of several
tickets a difference may be refunded from the upgrade of another one, whose
amount then shows nothing of it (disagreement 20), so the balance is per order
there and the theorem asks for a single ticket. The types follow from the same
invariant for any number of tickets. `ExchangedOnce`, that a change is made
twice only to a row overtaken by a later one, is left to TLC.

The first proof showed an error of the model, since corrected: a consent used to
overwrite the handler of a refund that was running; a handler between its
consent and its call of `refundTicket` is now remembered on its own
(`consented`).

### The scanner's page: OfflineDoorProofs

For any codes, pages, scans and replays in progress, without an assumption:

- `DoorTypeCorrect`;
- `LetInOnce`: a page lets a code in once without the server (`OfflineOnce`);
- `NothingLeftUnsent`: whoever was let in is queued, or checked in, or refused
  by the server (`NothingUnsent`).

Both except the admissions that a reload lost before they were stored
(`unsaved`) and those of scans decided between a render and its effects
(`between`). `DoorInv` holds of each of the four copies of the shift (the state,
the one drawn, the ref, the one stored) what the second property says of the
state (`Copies`), because any of them may become the state: the ref when a scan
is decided, the one drawn by way of the ref, the storage at a reload. It also
says when copies are one: the state and the one drawn while no render is to
come, and the ref with them while no effect is to come either. A replay clears
from the queue only what it counts as sent, and that was answered (`Replaying`).
Whom the page let in is in the state, in the ref and, while effects are to come,
in the shift they will write (`Remembered`, `Knows`); that is what a scan decided
before the effects breaks, and nothing else does. Only `ScanDecided` and `Reload`
touch what is remembered.

### Queue of object operations: ObjectOperationsProofs

For any set of operations, any set of workers and any limit of attempts, from
`OperationsAssumption` only:

- `OpsTypeCorrect`: the type invariant, with "only a claimed row has a lease";
- `NothingStrandedAlways`: what waits can be claimed, what is dead used every
  attempt;
- `SettledIsFinalAlways`: no step moves a completed or a dead row.

`OpsInv` adds `TokenIssued` (a token held by anyone is of an attempt that was
made, which `TransferMediaProofs` builds on), `NeverTried` (an operation that is
not enqueued has no attempts) and `NothingStranded`. Each action preserves
`OpsInv` by a lemma of its own.

### Previews of transferred files: TransferMediaProofs

For any generations, claims, attempts and workers of the ledger, from
`MediaAssumption` and `OperationsAssumption`:

- `MediaTypeCorrect`, with the bound of a job's attempts by the tokens given for
  it (`Counted`);
- `ShownIsThere`: the preview of a live file is in the bucket;
- `ShownIsCurrent`: it is of the file's present generation, whose job is
  completed;
- `DeletionLeavesNothing`: in the end nothing is left of a deleted transfer but
  what a stopped process or a dead deletion left.

Every claim has a fresh token, and a token that lost its job never holds it
again (`FallKeepsFence`: no step but a claim gives a job a token or a lease). So
an attempt that can still publish is not staged for deletion (`Unstaged`), one
that was staged cannot publish, and what is published stays unstaged while the
file lives (`Published`). `OpsInv` of the queue above gives that a deletion that
a worker holds was enqueued, so that it never deletes what is published. For the
deleted transfer, `Swept` says that every attempt is staged and `Cleaned` which
objects can be there after their deletion was done: those of attempts that
upload late.

### Albums: AlbumPublicationProofs

For any photos, administrators, workers, revisions and faults, from
`AlbumAssumption`:

- `AlbumIsTyped`;
- `PublishedAlbumIsServed`: every photo of a published album is in the public
  bucket;
- `WithdrawnIsHidden`: once the queue is empty the public bucket holds nothing
  but the photos of a published album, if nobody deletes an album or changes its
  social card (`Intents` has neither; with them it fails as items 10 and 11
  say).

Neither is inductive, since bytes move long after the catalogue did. Three facts
carry both: a write takes a revision later than that of every operation there
is, so its own operations are new (`RevisionsGrow`); what a request has read is
true as long as the revision it read stands (`SnapTrue`); and the reference
check before a bucket call holds until the call is settled, because both are
under the lock that a write needs (`CallTrue`). `ServedInv` adds that a
publication has a copy for every photo and that those completed are there
(`CopiesTrue`), which is what its last step relies on when it calls the album
published. `HiddenInv` adds `Withdraws`: whatever is public and not on show has a
deletion that is still in the queue, a publication that goes on has a copy left
to make, and nobody puts back what was deleted under a lock still held.

### E-mail: DeliveryProofs

For any mails, addresses, couriers and any limit of attempts:
`OutboxTypeCorrect`, and `LateReportsSettleNothing`: no row is offered for
another attempt while a courier could still settle it (`OfferedIsFree`).
`OutboxInv` adds that a courier's attempt is one that was made
(`HoldsAnAttempt`) and that no two couriers hold the same attempt of a row
(`AttemptIsOnes`); without the second, a courier that reports a failure would
offer the row while another courier with the same number goes on.

### The waitlist: DeliveryProofs

For any types in any order, any quantities, capacities, people and scopes, from
`WaitlistAssumption`:

- `WaitlistIsTyped`: `WaitTypeOK` holds always, with it that no type is sold
  beyond its places and that whoever waits is in the line;
- `ToldAreQueued`: an entry is marked as told exactly when its alert is queued;
- `FirstComeAreFirstTold`: an alert passes nobody who waits longer;
- `NoCreditIsLost`: a credit is given up only for an alert or for a place that
  is no longer free;
- `AlertsStayWithinPlaces`: no more people are alerted than places came free.

The turns of a reconciliation are a function defined by recursion over the line.
`TurnsExist` shows that there is such a function and `LineSpent` what each turn
has spent; both argue by the least turn for which they would fail, since an
induction rule is out of the prover's reach (`LeastNumber` is taken from the
well-foundedness of the natural numbers). `WaitInv` adds to the types that nobody
stands in the line twice (`LineOnce`) and that everybody in it has confirmed
(`LinePast`), without which one person could spend two credits.

That alerts are within the places is not inductive, and neither is it with the
credits added: the next reconciliation adds what is on sale and was not seen. It
does so in two ways. Where the capacity binds, it adds the largest difference of
any scope; where it does not, the sum of the differences of the types. So
`PlacesInv` bounds, besides alerts and credits themselves, these plus what is on
sale of each scope by what came free plus what was seen of it, and these plus
what is on sale in all by what came free plus what was seen of the places that
still exist (`Lesser`, summed over the types). Each change of the event keeps
both (`Moves`): a sale, a return, an exchange and a save each have a lemma. The
sums rest on six lemmas about the size of a set of places (`TotalMonotone` to
`TotalAdds`).

### A page in a room: DeliveryProofs

For any controls and any numbers of states, intents and losses:

- `LiveRoomTypeCorrect`;
- `MeantOnce`: what a person meant once happens at most once;
- `ToldIsTrue`: what is reported accepted happened;
- `OnlyGoneEnds`: if a live room is found unavailable at most twice in a row
  (`Blips < 3`, a hypothesis about the network and the server, which the page
  cannot check), only a room that is gone ends the page.

The first two are about the dispatcher's ids. `RoomInv` says that an id and the
intent it was drawn for are one (`IdsAreIntents`), that an id kept for a retry
is of an intent still open (`KeptIsOpen`), and that a receipt exists exactly for
what was applied (`ReceiptsTell`). This relies on the page waiting for an answer
before it sends again; disagreement 28 is what happens otherwise. `PollStands`
ties the number of failures in a row to what the reads found.

### The game: LiarsRoomProofs

For any players, deals and minimum, from `LiarsAssumption`:

- `LiarsTypeCorrect`;
- `NoDecidedGameGoesOn`: every death, departure and removal is followed by the
  question who has won;
- `NoStaleChoices`: no choice, ballot or lock of an earlier round or game
  counts;
- `TheHostIsHere`.

They are one inductive invariant together with `LobbyIsWhole` (a lobby holds
nobody who left, so a game that starts deals to those present). The first
attempt failed at `StartLiars`, whose guard on who stays behind was misread by
the parser; the definition is corrected. What a vote
decides is a set of leaders of a tally, of which only membership is used
(`LeadersArePlayers`).

### Only model-checked

Liveness (fairness and ENABLED are outside the prover's reach):
`PaidIsAnswered`, `PublicationEnds`, `QueueDrains`, `MailSettles`,
`PageCatchesUp`. Of the safety properties of the passing runs
only `ExchangedOnce` has no theorem; the others do, some under the hypotheses named above; the `TypesOK` of an MC module is
the conjunction of the types of its parts, each of which is proved.

## Known disagreements

Three runs show the code doing what a comment of it excludes; PROJECT.json quotes
the comments.

1. A won dispute restores tickets without a look at capacity
   (`CheckoutRestoreOversells`). `NoOversell` is checked without disputes.
2. A fulfilment slower than two minutes is taken over while it runs, and both
   issue (`CheckoutSlowClaim`). The other runs assume that a claim outlives its
   handler (`SlowClaims = FALSE`).
3. A refund that is handled between `retrieveSession` and the issuance cancels a
   row that the running handler then overwrites (`CheckoutRefundRace`). A
   dispute handled at the same point is overwritten likewise.
   `CheckoutRefunds` has one handler at a time; within it the order of events,
   repeats and crashes is free.

The rest came up while modelling. They have no run of their own, and many are
why an instance leaves something out or a property says what it says.

Checkout:

4. `charge.dispute.created` handled after `charge.dispute.closed` voids the
   tickets of a won dispute for good (stripe-webhook.server.ts:190).
5. A handler of a won dispute that stops after `reopenWonDisputeCheckout` leaves
   a paid checkout pending; the next delivery finds no disputed row and is
   acknowledged (stripe-webhook.server.ts:170). `CheckoutSettles` has no
   disputes.
6. An expiry that arrives while a page load has the row in `fulfilling` changes
   nothing and is acknowledged; if that request dies, the row holds its places
   without an expiry (checkout.server.ts:551).
7. Two payments completed as their holds lapse count each other's `fulfilling`
   rows and are both refunded although the last place is free
   (checkout.server.ts:948).
8. Tickets marked for a refund that is still pending carry the payment's id;
   `refund.failed` looks for the refund's id and changes none
   (checkout.server.ts:679). `CheckoutPayments` starts refunds as succeeded.
9. A dispute that is opened and won while a handler is about to issue reopens
   the row; the second handler claims it, and both find no tickets and issue
   (checkout.server.ts:871). `CheckoutPayments` and `IssuedOnce` are without
   disputes.

Albums:

10. `deleteAlbum` lists the public bucket before its transaction; a copy that
    completes in between is never deleted (admin-albums.ts:394).
11. A social card uploaded for an album that was published when it was read
    stays public after an unpublish in between (admin-albums.ts:319).
12. A photo uploaded again under the id of a removed one can lose its private
    objects to the pending deletion before the write that would have refused it
    (admin-albums.ts:505). Because of 10 to 12, `AlbumPublication` checks
    `OnlyPublishedIsPublic` without those requests. A deletion that used up its
    attempts blocks every later publication of its album.

Refunds, returns and the door's own row:

13. After one ticket of an order was refunded on its own, `charge.refunded`
    lays the same amount once more from the order's first ticket on
    (`markOrderRefunded`; the comment at checkout.server.ts:1086 excludes it).
    `ChargeRefunded` is therefore taken for orders of one ticket.
14. A transfer accepted between the look of `redeemTicket` and its claim leaves
    the old QR with authority once (tickets.server.ts:291-306).
15. `refund.updated` that arrives before `refund_ref` is written matches no
    allocation and is acknowledged (checkout.server.ts:1349, 1425).
16. A process that ends between a confirmed consent and the refund, or a refund
    that is refused there, leaves the request `confirmed` for good; one that
    ends after `prepare` leaves a void ticket and an allocation `processing`
    (checkout.server.ts:1255).
17. A refund whose answer was lost restores its ticket although the money went
    back; `lost` marks these tickets, and `AmountMatchesMoney` excludes them. An
    exchange's refund whose answer was lost fails the exchange likewise, and the
    difference has gone back; its webhook may complete the row afterwards, or
    throw for good if the ticket has changed (exchange.server.ts:533).
18. Of two allocations whose first call fails, the second stays `processing` and
    its unique index refuses every later refund. A staff void during a refund is
    undone by the refund's failure (checkout.server.ts:1288).
19. A ticket transferred back to its buyer can be neither returned nor refunded.
    A transfer past its expiry blocks admission until the expiry job ran.

Exchanges:

20. A partial refund of an upgrade's payment, made by the application itself for
    a downgrade, is taken by its own webhook for a refund of the upgrade; which
    upgrade's payment is refunded is decided by order, so one ticket's downgrade
    can void another's upgrade (`voidExchangePaymentRefund`).
21. `beginTicketExchange` writes `refund_pending` or `awaiting_payment` without
    looking whether a webhook has completed or failed the exchange meanwhile
    (exchange.server.ts:566, 655). A paid upgrade of a ticket voided meanwhile
    never completes. The handler and the webhook look at the row's status before
    their transaction (exchange.server.ts:579, 793), and the transaction compares
    the ticket's type only: if two more exchanges bring the ticket back to the
    type it had while one of them is still at work, the change is made twice and
    the ticket's amount is short by it. A webhook that comes after the exchange
    was given up may complete it beside another one that is active.

Door, media, messages:

22. A ticket admitted online can be admitted again offline by another page, or
    offline at two pages (store.server.ts:806); `OfflineOnce` is about one page.
    A reload before the storage effect forgets admissions (`unsaved`).
23. The effect that writes the ref is passive and writes the shift its render
    drew (DoorScanner.tsx:343); a scan decided between a refresh's or a replay's
    render and that effect is taken out of the ref, and the next scan without a
    signal, of a group's next ticket for example (DoorScanner.tsx:610), makes the
    state what the ref is. The admission is then neither queued nor known, and the
    ticket is let in again, although door-queue.ts:131-133 says that "those people
    are already inside, and forgetting that would let the same ticket admit
    twice". `between` marks these admissions, and both properties except them.
    An entry queued while its page went online during the hash is not replayed
    until the signal changes again (DoorScanner.tsx:557). Any verdict of a replay
    counts as synced, a refusal too (DoorScanner.tsx:417).
24. A completion that commits and whose answer is lost is followed by the
    deletion of the outputs it published (media-job-executor-postgres.server.ts:163).
25. A bounce reported before the provider's id was recorded blocks nobody; a
    lock that lapses under a slow delivery sends a message twice.
26. A reconciliation that runs before anybody waits, as every save of an event
    does (routes/api/admin/events/$slug/route.ts:83), credits the places on sale
    as if they had just come free (waitlist.server.ts:234-256). What the event
    keeps of that credit can let a single returned ticket alert two people, with
    two types of two places and a capacity of three for example;
    docs/events-platform.md:92 says that the batch is capped "to newly available
    capacity". Never are more alerted than places are free at that moment. The
    proof of `AlertsWithinPlaces` failed on this, so `freed` counts those places.

Rooms and the game:

27. A host's control pressed just after the role passed on is answered
    `room_unavailable`, which ends the page of a room that lives. `LiveRoom`
    is a player's page.
28. A late success forgets the id kept for the same control, though that id may
    belong to a newer screen (useReliableMultiplayerAction.ts:52). It needs two
    requests in flight, which a player's page does not send.
29. The runoff is open to anybody: `runoffIds`, said to restrict it
    (liars-room-engine.server.ts:228), is never read.
30. The vigilante's guilt lands the same night from round two on; the engine's
    comment and docs/liars.md:99 say the night after. (The role is not modelled.)
31. `previousNightTarget`, cleared by the deal, is set again from the last
    game's target by the first round; `ChoicesAreFresh` says nothing of it.
32. Leaving during the ending asks again who has won and can change the winner;
    leaving during the verdict asks without the ejected jester. The host's role
    may be passed to a dead player, and with nobody alive in the room it is lost
    for good.

Not reached by a model: credits reserved for a checkout whose start is refused
afterwards, or whose row stays `creating`, are kept from their owner
(checkout.server.ts:326, 471-479).

## Plan

Done: every module above, and proofs about the sale, the tickets afterwards, the
scanner's page, the queue of object operations, the previews, the albums, the
outbox, the waitlist, a page in a room and the game.

Next, in this order:

1. An abstract queue with leases that ObjectOperations, the outbox and the media
   jobs implement; an abstract sale that Checkout implements.
2. `refundOrder`, credits, cancellation of an event; exchange holds counted in
   TicketCapacity; upload reservations.

## Not modelled

The parts listed as `not_modelled` in PROJECT.json. Those without a place in the
plan are single-row forms, rendering, content and generated files; the rules of
the other games share `LiveRoom`'s store and page. An R2 deletion still in flight
when its process dies, whose effect comes after the lock was released, is
outside the bucket calls of AlbumPublication. Of the worker's and the
scheduler's timers only what the fairness above says is used.
