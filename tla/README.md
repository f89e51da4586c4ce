# Verification of the recovery background service

TLA+ models, TLC runs and TLAPS proofs for the background service under `src/src`: the part of
the product that notices abandoned checkouts on Shopify and WooCommerce, buys the right to
contact the customer with a *recovery credit*, sends a WhatsApp message, and settles the credit
according to what WhatsApp says about the message. `PROJECT.json` lists components, runs,
source map, findings, hazards and theorems in machine-readable form; this file explains them.

## 1. The system

The service is a set of BullMQ workers (Redis) over a PostgreSQL database (Prisma). A *shop* has
credits from four sources; a *recovery* is one abandoned checkout; an *outreach attempt* is one
message to the customer of a recovery, and costs one credit. Jobs are retried, workers may die
at any point, several workers may hold jobs of the same recovery, and the providers (Meta,
Shopify, WooCommerce) answer late, twice, or not at all.

| Component (under `src/src/services` unless said otherwise) | State it keeps | Operations | What makes it correct |
| --- | --- | --- | --- |
| Credit reservations (`*-recovery-reservation.service.ts`, `recovery-reservation/`) | `UsageReservation` rows shared by the four sources; a counter per source, per lot, per grant, per period | reserve, commit, release, markAmbiguous, each one SERIALIZABLE transaction | counters equal rows; nothing overdrawn; replays move nothing; a settled row is final |
| Credit purchases (`recovery-credit-purchase.service.ts`) | lots (`RecoveryCreditPurchase`) | request, report, activate | a lot grants its pack once |
| Refunds (`recovery-credit-refund-correction/`, `woocommerce-billing/charge-refund-settlement.ts`) | refund rows linked to withdrawn lots, a correction usage event | select, check meter, freeze and link, complete; Woo hold and receipt | the refund covers what the lot still has, and only that |
| Delivery compensation (`recovery-delivery-compensation/`) | none of its own | reverse the credit of an undeliverable message | a customer that cannot be reached costs nothing, once |
| Period transition (`billing-period-transition/`, `same-plan-…-rollover.service.ts`) | `BillingPeriod`, counter per period | close and open the successor | the close is never refused for good and leaves nothing open |
| Promotions (`promotional-…`, `promotion-selection-expiry-…`) | grants, campaigns, the selected grant | select, release expired selection | a grant is not overdrawn |
| Recovery billing (`recovery-billing.service.ts`, `recovery-billing/`) | nothing in memory between jobs; the admission a worker holds | admit, revalidateBeforeProvider, releaseBeforeProvider, settle | one credit per attempt |
| Initial outreach (`checkout-recovery/recovery-initiation…`, `…finalization…`) | `RecoveryOutreachAttempt` | inspect, admit, prepare, send, finalize, block, fail | one message; charged iff sent; resumable after a crash |
| Outbound admission (`outbound-whatsapp-admission/`, `recovery-conversation/outbound-send-fence.service.ts`) | `ConversationMessage`, usage event, dispatch permit | reserve, resume, fence, markSent, fail | no message without a permit, no permit twice, no permit without its credit |
| Provider status (`whatsapp-provider-status…`, `synchronous-recipient-failure…`) | status, failure code and timestamps of a message | apply a report, then compensate | reports in any order converge |
| Candidates (`pending-recovery-candidate/`, `checkout-recovery/checkout-event…`) | a delayed BullMQ job, two Redis aliases, the checkout lock, the order tombstone | schedule, refresh, mature, retry, cancel; an update refreshes, looks and schedules in three steps | one open generation; no outreach after an order; no candidate is forgotten |
| Orchestration (`checkout-recovery/checkout-event…`, `…capacity-resume…`, `order-…`) | `CheckoutRecovery`, status history | materialize, refresh, complete, resume, expire | terminal is terminal; who waits for capacity is started once there is some, unless something else refuses it |
| Follow-ups (`…follow-up…`, `recovery-conversation/human-command-…`) | the attempt with sequence two; send commands with leases and permits | claim, evaluate, admit, send, settle, cancel, repair | one follow-up, whoever sends it; charged iff accepted; no claim kept for ever |
| Conversation turns (`conversation-turn-processor…`, `conversation.service.ts`, `conversation-moderation/`) | versions, pending turn, moderation assessments | receive, schedule, process | every inbound version is answered or deliberately dropped |
| Human ownership (`recovery-conversation/`) | control owner and revision | take over, hand back | a reply never spans a change of owner |
| Subscription reconciliation (`billing-subscription-reconciliation/`, `billing-reconciliation…`, `shopify-plan-change…`) | `Subscription`, its period, the job of its next instant | queued job, leased scan, lifecycle events | served from an open period; older events ignored; converges to the provider |
| Usage publisher (`shopify-usage-event-publisher…`) | report state and lease of usage events | publish, retry, give up | an event is billed at most once |
| WooCommerce billing (`woocommerce-billing/`) | receipts, operations, the shop's subscription, a charge | receive, project, quarantine, end coverage, settle a charge | the plan served is the one paid for; a charge becomes one lot |
| WooCommerce recovery (`woocommerce-recovery/`) | recoveries, candidates, an activity watermark, order evidence, a lease | checkout activity, abandonment, order, admission, send, settle a resumed recovery | orders stop messages; what may be delivered keeps its credit |
| Translation batches (`translation-batch-…`, `merchant-pricing-…`, `store-category-…`, template pipelines) | items, batches, runs, reconciliation requests | assemble, submit, poll, apply, publish, repair | a batch is bought once; only translations of the current text are published |
| Templates, offers, media, merchant knowledge, consent, agents | their own tables | batch jobs and provider calls | leases and idempotent publication |
| Runtime (`src/src/runtime`, `workers`, `entrypoints`) | leases, configuration snapshot | schedule, renew | one scheduler at a time |

### How the components interact

```
 checkout event -> candidate (Redis) --matures--> materialization --> initial outreach
                                                       |                  |  1 inspect
 capacity resume (after purchases, rollovers) ---------+                  |  2 admit -----> recovery billing -> 4 sources
                                                                          |  3 revalidate ->     "
 order / expiry -> closes the recovery                                    |  4 reserve message, usage event
                                                                          |  5 fence: permit in SQL (looks at the credit)
                                                                          |  6 Meta
 WhatsApp report -> provider status --> compensation -> 4 sources         |  7 settle -----> 4 sources
 billing worker -> rollover, purchases, refunds ------> 4 sources         |  8 finalize --> follow-up job
```

All sharing is through rows of the database; there is no shared memory between jobs. Each number
is at least one transaction of its own, so everything else in the picture can happen between two
numbers, and the process can stop there. What is behind steps 5 and 7 decides whether a customer
gets two messages or a merchant pays for none; that is where the models go deepest.

### What is hard here

* one table of reservations, four sources, each with counters that are changed by five services;
* an admission that is held across four transactions while the plan, the period, the lot or the
  campaign under it changes;
* a provider call whose outcome may be unknown, between a permit and a receipt;
* reports about a message that arrive before the sender has finished its own bookkeeping;
* a checkout lock that lasts ten seconds, is not renewed, and is not held by the resume path while it sends;
* an update of a checkout that looks for the recovery between two sections of the lock, and so acts on what is no longer so;
* refunds prepared in three separate steps over a lot that may get credits back in between;
* queue jobs with deterministic ids, which are lost, or dropped because the id is still taken, while the row that
  calls for them waits;
* webhooks of customers, WhatsApp, Shopify and WooCommerce that come twice and in any order, each handled in several
  transactions that may be repeated from the start;
* a merchant who takes a conversation over, or hands it back, in the middle of the agent's turn;
* two writers of a subscription that ask the provider first and write afterwards.

`PROJECT.json` lists 40 hazards with their lines; 38 are covered by properties that the runs check. The other two are
modelled, and their entries say why no property settles them.

## 2. The modules

| Module | Models | State variables |
| --- | --- | --- |
| `UsageReservations` | the reservation table, its keys and transition rules | `reservation` |
| `FreeCredits` | lifetime free credits | `freeCounter` |
| `PaidIncludedCredits` | credits of billing periods, end and rollover of a period | `current`, `ended`, `periodCounter` |
| `PurchasedCredits` | lots: purchase, withdrawal, reservations, compensation | `lot`, `purchased`, `refund` |
| `CreditRefunds` | refunds of both platforms | `seen`, and the above |
| `PromotionalCredits` | grants, campaigns, selection | `grant`, `campaign`, `selected` |
| `CreditLedger` | the composition: every operation, in any order, by anybody | – |
| `RecoveryBilling` | the order in which a worker asks the sources; revalidation, release | `contract`, `paused`, `worker` |
| `InitialOutreach` | the attempt, its message, the provider, its reports | `attempt`; `dispatched` and `contended` are histories |
| `PendingCandidates` | a checkout's candidate, its jobs and aliases, its generations, the updates in hand, the order | `job`, `index`, `cartIndex`, `lock`, `run`, `recovery`, `update`, `order`, `now` …; `seen` and `crossed` are histories |
| `CapacityResume` | recoveries blocked for credits or a suppressed recipient, and the queue that resumes them | `row`, `suppress`, `refusal`, `credit`, `eligible`, `queue`, `resumer`, … |
| `FollowUps` | the second attempt, the scheduled job and the merchant's commands | `slot`, `first`, `cmd`, `fuCredit`, `control`, `consent`, … |
| `ConversationTurns` | the customer's messages and the turns that answer them | `convo`, `msg`, `inbox`, `turnJob`, `turn`, `reply` |
| `TranslationBatches` | the four translation pipelines | `item`, `batch`, `trRun`, `target`, `source`, `trQueue`, `hand` |
| `WooRecovery` | one WooCommerce checkout from its events to its first message | `evt`, `rec`, `cand`, `mark`, `ord`, `att`, `wooMsg`, `res`, `lease`, `wk`, … |
| `WooBilling` | receipts, contracts, coverage and a charge of WooCommerce | `provider`, `rcpt`, `op`, `wooSub`, `charge` |
| `ShopifySubscription` | the projection of a Shopify contract by job, scan and lifecycle events | `prov`, `sub`, `period`, `shop`, `syncJob`, `proc` |
| `EntitlementPeriods` | what that projection promises to the credit accounts | `at`, `over` |
| `MCCreditLedger`, `MCInitialOutreach` | symmetry sets for TLC | – |
| `MCLedgerSources`, `MCOutreachCases`, `MCQueuedWork`, `MCLeasedWork`, `MCSubscriptions` | several components or settings in one run, one of them per behaviour | `which` and the like |
| `LedgerSourcesProofs` | proofs: the rows, and what one write does to them; the invariants of free, promotional and included credits | – |
| `LedgerProofs` | proofs: lots and refunds, the turns of refund corrections; the types and the invariants of the whole ledger | – |
| `OutreachProofs` | proofs: the outreach implements the ledger; what is charged, sent and kept for one attempt | – |
| `LeasedWorkProofs` | proofs: one answer per version, within one owner; the pending turn; an order ends a WooCommerce recovery, a closed one gets no permit, a delivered message keeps its credit; both components together | – |
| `FollowUpProofs` | proofs: one follow-up reaches the customer, and its row stays its own | – |
| `QueuedWorkProofs` | proofs: a suppressed recovery will be woken; one open generation per checkout, no outreach after an order, none too early; a batch bought once and counted once; the four queued components beside each other | – |
| `SubscriptionProofs` | proofs: the projection serves from open periods, orders events and implements `EntitlementPeriods` | – |

`CreditLedger` is the abstract specification of what the credit services promise to their
callers: each operation is one atomic step of one source. `RecoveryBilling` and `InitialOutreach`
extend it, drive its operations through program counters, and `ImplementsLedger == Spec` is
checked as a property of `outreach_cases`: the refinement mapping is the identity on the ledger's
variables, everything else stutters.

`EntitlementPeriods` is the second abstract specification. A shop draws included credits from at most one period; a
period is closed only in the step that leaves it; nothing attaches the shop to a closed one. `ShopifySubscription`
implements it with `at <- sub.per` and `over <-` the closed periods (`ImplementsEntitlement`), although the row is
written by a scan and a job that both ask the provider first.

The other modules stand beside the ledger: their credit is one value (`fuCredit`, `res`, `credit`), because what they
add is the order of the steps around an admission, whose own behaviour the ledger models.

### How state and actions correspond to the code

* **A step is a transaction.** Every operation of the credit services runs in a SERIALIZABLE
  transaction that is retried on a conflict, so it is one action. Where the code uses several
  transactions, or a read outside of the transaction that writes, the model has several actions
  and carries what was read (`worker[w]`, `seen[l]`).
* **`reservation`** maps a source key to a row. The free, purchased and promotional sources share
  the attempt's logical key, `<<a, 0>>`; the paid source prefixes the billing period, `<<a, p>>`.
  That difference is essential: an attempt can have one row per period. `unit` is the lot or grant
  the row points to. Quantities are always one: all callers use the default, and settlement and
  compensation refuse anything else.
* **Outcomes.** The answer of a reserve call that does not reserve (`RESERVED`, `COMMITTED`,
  `RELEASED` … for a replay, `exhausted`, `paused`, `unavailable`, `throws`) is an operator
  (`FreeReserveOutcome` and its siblings) because the caller's next step depends on it.
* **Workers.** `worker[w].pc` names the place in `RecoveryInitiationService` and
  `RecoveryBillingService`, with the admission (`kind`, `key`) and the policy facts (`period`,
  `post`) it was obtained under. `Abandon` is a crash, an exception, a lost lock, or an early
  return: the worker forgets everything, and the durable state stays. There is an `Abandon` at
  every place, so every retry by the queue is an `Inspect` by the same or another worker.
* **The policy** (`contract`, `paused`, `current`, `ended`) changes at any moment by the actions
  of the billing components; the resolvers' many fields are reduced to those the admission
  branches on.
* **The message.** `message` folds status, permit, provider id and failure code of the
  `ConversationMessage`; `usage` is the existence of its usage event; `linked`, `coded` and
  `status` are the attempt's `outboundMessageId`, `failureCode` and `status`; `job` is a
  delivery-failure report whose compensation has not succeeded yet. `dispatched` counts calls of
  the provider and `contended` remembers the attempts that two workers have served at once; both exist for the properties
  only, no guard reads them.
* **The provider** accepts, rejects definitively, bounces with 131026, or does not answer. A report
  "undeliverable" may come at any moment after the receipt, before or after the charge, and may
  be repeated.

The modules beside the outreach follow the same rules. What is particular to each:

* **`PendingCandidates`.** A job is delayed, active or failed in BullMQ; `run[j]` is where its worker stands
  (picked, checked, cleaning up, errored), each a section of its own. A `checkouts/update` is three steps, as in the code:
  `UpdateRefreshes` or `UpdateMisses` (the candidate is refreshed under the lock, or is not there or no longer delayed),
  `UpdateLookup` (the latest recovery, without the lock), then `UpdateSchedule` (the lock again, the tombstone is looked at, the
  recovery is not) or `UpdateRecord` (the activity goes to the recovery that was found, if it is still open). Between them
  anybody else may move, and `UpdateStops` may end the handler. `seen` is the latest activity that was *accepted*: written to
  a candidate or to an open recovery. `crossed` remembers that an update scheduled a candidate beside an open recovery.
  The faults of a behaviour (a lapsing lock, a lapsing tombstone, a redelivered create or update, an order webhook that stops half way)
  are fixed in `faults` at the start, so that each property names those it does not survive; an emptied cart is chosen there too.
  `Delay` and `Lifetime` (of an open recovery) are parameters: when a recovery expires before the delay has passed, the activity
  it took expires with it.
* **`CapacityResume`.** `queue` holds the shop jobs and the jobs of single recoveries with their due time; a worker's
  steps are the three looks at the row, two under the lock and one at the admission gate, with the call to Shopify between,
  then the parts of `handleCheckoutCreated`. `refusal[r]` is what, besides credit, keeps the message of `r` from going out, and
  `Refuse` changes it at any moment: withdrawn consent; or no recipient, no prepared template, a plan or outbound limit, a
  refused permit. A refused message leaves the row as it is. `Report` reads the row again, and one that is still blocked for
  want of credit ends the batch without a continuation, whatever it was refused for.
* **`FollowUps`.** `slot` is the attempt with sequence 2, `cmd[c]` a command with lease, revision, permit and
  provider outcome; each transaction of the dispatcher is an action, and so is the scheduled job's.
  `DispatcherStops` may come at every place.
* **`ConversationTurns`.** `msg[v]` are the inbound messages in the order of their events, `convo` the version counters,
  pending turn, control revision and mode. `reply[v]` is the message and usage of key `agent:conversation:version`, `wire`
  what the provider was given. Takeover, lapse and stall may come between any two steps of a turn.
* **`TranslationBatches`.** One action per job handler and edge of the four pipelines; where one pipeline differs,
  an operator carries its name (`CategoryPoll`, `TemplateComplete` …). The provider's knowledge of a batch is `made`.
* **`WooRecovery`.** The sections of a handler run under one Redis lease; `wk[w].pc` names them. Redis (`cand`, `idx`, `mark`, `ord`)
  is lost or stale independently of the rows. Outbound sending is the configuration `enabled()` allows.
* **`WooBilling`.** A receipt is its topic, time, coverage and soundness, a transaction one step. The reduction of the
  evidence (`Financial`, `ReduceTermination`, `Contradicts`, `NotCausal`) is translated as operators over the set of
  receipts, as the code folds over rows.
* **`ShopifySubscription`.** `proc` holds for the job and the scan the row and the provider's answer they have read; a
  write goes through the compare-and-set of the code (`CasPending`, `CasCycle`, `CasPlanChange`, `StillCurrent`,
  `SameIntent`). An instant is a number, `Retries` the set of "now plus delay" ones.

### Bounds

The ledger and the outreach have no counters that need a cap: credits, lots, grants, attempts and periods are
finite sets of the configuration, and a permit bounds the calls of the provider. Their bounds are
`Attempts` (3 in the ledger, so that one attempt competes for what two others hold; 1 for the outreach, whose
properties are about one attempt and its workers), `Workers` (1, or 2 in contention), `Lots` and `Grants`
(2, so a second can be chosen, withdrawn or be on the meter while the first is in use), `MaxPeriod`
(3: a closed one, one that closes under open rows, and its successor; 2 in the outreach), and the
sizes `FreeGranted`, `Included`, `PackSize`, `GrantSize` (1 or 2: exhaustion has to be reachable with
the attempts at hand). Symmetry is used for attempts, workers, lots and grants, which no action
compares, except in runs with a liveness property.

The other modules bound what the environment does, each by a constant in the guards:

| Constant | Bounds | Why it is enough |
| --- | --- | --- |
| `MaxTime`, `MaxEvents`, `MaxGeneration`, `JobAttempts`, `Updaters` | clock, webhooks, generations and tries of a candidate, updates in hand at once | 2 each and one updater, with `Delay` and `Lifetime` 1: an event during the wait or the work of a job, a worker or an order between the steps of an update, a successor, a second generation, a last try |
| `ResumeHorizon`, `MaxMoves`, `MaxCredit`, `Resumable` | clock, what customers and merchants do, credits, recoveries | a purchase and a refusal (or its end, an order, a return, a suppression) around two blocked recoveries of a shop, of which the older may hold up the other; one recovery with a fault |
| `MaxClaims`, `MaxUpsets` | leases of a command; handovers, replies, crashes | a command that is taken again after a lapse or stop; two commands and the scheduled job compete |
| `MaxMessages`, `MaxControl`, `MaxMishaps`, `ModerationTries` | messages, takeovers, mishaps, retries | 2 messages (a turn and the one that joins or follows it), away and back; one mishap in the run |
| `MaxBatches`, `MaxPolls`, `MaxSubmits`, `MaxRetries`, `MaxFaults` | batches and tries | an item that goes through a second batch, with one lost job or answer |
| `MaxWooEvents`, `MaxSecond`, `MaxGen`, `WooFaults` | events, times, generations, faults | an activity and an order, or two activities, with equal or inverted times |
| `MaxReceipts`, `MaxClock`, `Term`, `Period`, `MaxBad` | receipts, clock, malformed renewals | activation, renewal and end of a contract and a second one that interferes |
| `MaxCycle`, `SyncMoves`, `Retries` | cycles, moves of merchant and provider, retry instants | a cycle and its successor, one move in the middle of any read and write |

`ConversationTurns` was also explored with two mishaps and two workers without its liveness property (4.6 million states), and
the safety properties of `PendingCandidates` with three webhooks and with two updaters. `CandInit` allows
any faults together; `MCQueuedWork` takes four choices (`CandidateFaults`): none, and with an emptied cart a lapsing lock, a
redelivered create, or a lapsing tombstone, the last two beside an order webhook that stops half way. An update that comes
again needs a third webhook to show anything new.
Deadlock is checked in the outreach runs. In the other passing runs it is not: a shop may have
consumed all its credits and settled every row, and a checkout, conversation or contract comes to an end when the
bounded environment has nothing left to do.

## 3. The runs

| Run | States | What it shows |
| --- | --- | --- |
| `ledger_shopify` | 166 371 | two lots, three attempts, Shopify refunds: lots, counter, rows and refunds agree; every charge can still be reversed; a refund follows its lot; one correction at a time on the meter |
| `ledger_sources` | 226 966 | one setting per behaviour: the WooCommerce hold is the one already set aside; free and included credits over three periods, whose close is never refused and leaves nothing open; two grants under campaigns that come and go; a charge is final and an uncertain send keeps its credit |
| `outreach_cases` | 430 844 | one worker at a time with crashes and reports, with the plan changing under it or with a purchased lot withdrawn and refunded under it: one credit, one message, nothing paid for an undeliverable message, every report compensated in the end; each step is a step of the ledger |
| `outreach_contention` | 562 224 | two workers on one attempt: still at most one charge, only for an accepted message, and only a charged attempt waits for a response |
| `queued_work` | 400 001 | candidates, blocked recoveries, follow-ups, translation batches: one open generation and no outreach after an order; one follow-up; one provider batch; what waits is served, with the exceptions named below |
| `leased_work` | 612 172 | two workers on a conversation or on a WooCommerce recovery: one answer per message, within one owner; orders stop messages; what may be delivered keeps its credit; turns and resumed recoveries settle |
| `subscriptions` | 700 269 | WooCommerce receipts in any order and the Shopify projection: the plan served is the one paid for, a charge becomes one lot, lapsed coverage ends, an active shop is served from an open period, the projection converges |
| five `violation` runs | – | the disagreements below |

A composite run joins components that share no variable; a variable chosen in its initial state says which one the
behaviour follows, the others stay where they are. It says the same as one run per component. `ledger_shopify` runs the
ledger without the steps of the two sources its shop does not have (`LotsSpec`).

Properties that belong together are conjunctions of named parts: `CreditsAccounted`, `LotsBackRows`, `PeriodsClose`
and `RowsSettleForGood` (in `CreditLedger`), `ChargedOnceForSent` (`InitialOutreach`), `GenerationsInTurn` and
`OutreachInTime` (`PendingCandidates`), `FollowUpSentOnce`, `TranslationsSound`, `RecoveryIsCurrent`,
`LifecycleInOrder`, and those of the MC modules. Each part has its own comment and, where a
plausible slip of the code breaks it alone, its own mutant in `PROJECT.json`.

| Properties | Components | What they exclude |
| --- | --- | --- |
| `OneOpenGeneration`, `QuietBeforeRecovery`, `WaitingCandidateIndexed` | candidates | two open generations; a recovery of a customer who is still busy; a waiting job no event can find |
| `OrderStopsOutreach`, `OrderClosesRecovery` | candidates | a message after the order, as long as lock and tombstone last; a recovery left open by it, unless an update has crossed a worker |
| `WakeupBeforeMark`, `BlockedIsDetected`, `BlockedResumes` | resume | a recovery marked as waiting that nothing will wake; one that waits although there is a credit and nothing refuses it or an older one |
| `OneFollowUp`, `PermitKeepsSlot`, `CancelledClaimFreed`, `AcceptedFollowUpCharged` | follow-ups | two follow-ups, one that loses its row while on its way, one that blocks or is never charged after a crash |
| `AnsweredOnce`, `ReplyWithinOneOwner`, `PendingIffUnprocessed`, `TranscriptsInOrder`, `PendingTurnSettles` | conversation | a second answer, an answer across a takeover, a message dropped from its turn |
| `OneProviderBatch`, `EachBatchCountsOnce`, `PublishedIsCurrent`, `TranslatedMessageShown`, `TranslationsSettle` | translations | a batch bought twice, a late result counted for another batch, stale text published |
| `OrderEndsWooRecovery`, `AdmittedIsNewest`, `ClosedIsNotPermitted`, `DeliveredIsNotReturned`, `ResumedIsSettled` | WooCommerce recovery | a message permitted after the order, a credit given back for a message that may have arrived |
| `ServedAsPaid`, `ContractsDoNotMix`, `QuarantineIsRepaired`, `LapsedCoverageStops`, `ChargeSettledOnce`, `PaidChargeCredited` | WooCommerce billing | service from the wrong contract or beyond its coverage, a lot twice or never |
| `ServedPeriodIsOpen`, `ImplementsEntitlement`, `EventsInOrder`, `FrozenNotServed`, `ProjectionConverges` | Shopify subscription | credits from a closed period, an old event over a new one, a silently stale row |

### Fairness

* **Outreach.** `ReportsAreReconciled` assumes weak fairness of `ReconcileReport(a)` only.
  The report's job is a BullMQ job that throws when the compensation fails, with attempts and
  backoff; it is enabled until it succeeds, and nothing else is assumed to happen: workers may
  die, reports may repeat, purchases and refunds may stop anywhere. What the property says is
  therefore that no reachable state *refuses* the compensation. It is stated for one
  worker, with and without billing periods: an attempt that gets two rows (finding 2) is refused by the fence before
  anything is sent, so no report is about it.
* **Queued work.** Weak fairness that some worker which is at work goes on (a crash is an action of its own, and bounded),
  that the periodic repairs run, that the clock and the periodic assembly go on; strong fairness that a job which is due, or a
  command that calls for repair, is taken (BullMQ and the polls serve in order, and lock or lease may make it
  unavailable meanwhile, or the jobs of a shop, which may go on for ever, come between). `MCQueuedWork` states these once for all jobs, workers and commands, which is weaker than the
  specifications of the components and so proves more.
* **Leased work.** Weak fairness of each worker's turn, of the repair of pending turns and of time; strong fairness of a
  WooCommerce worker, which needs the lease another one may hold, and of taking jobs. `FirstStarts` lets the second worker
  start only while the first is at work: they are interchangeable.
* **Subscriptions.** Weak fairness per receipt of the WooCommerce scan, of the charge polls, of the entitlement timer, of the
  queue's due job and of the leased scan; merchants and providers need not do anything (a shop that left is assumed to
  come back, since nothing is said about one that does not).

Liveness properties name what they excuse. `TranslationsSettle` excuses a `Stranded` batch: one whose worker stopped while
submitting, one of unknown fate that the provider does not know, a support batch that failed to be submitted; only
the template pipeline looks for those. `BlockedResumes` excuses a recovery that something but credit refuses, a blocked one
behind an older one that is refused, and a suppressed one that was refused when its wake-up came. `ResumedIsSettled` excuses an event that was refused or given up.
`ProjectionConverges` excuses a row that reports its error, and a contract the provider has not announced.

### What the checkout lock does not give

The lock of `checkout-order-guard.service.ts` expires after ten seconds and is not renewed, and the capacity resume does not hold
it while it sends; so nothing is assumed of it, and two workers may serve one attempt. Whatever they do, these hold
(`outreach_contention`, and proved): `OneChargePerAttempt`, `ChargedMessageWasSent`, `WaitingWasCharged` (joined in
`ChargedOnceForSent`), and at most one worker is about to call the provider for a permit (`OneCallPerPermit`). These do
not: `OneCreditPerAttempt`, `PermittedSendHasCredit`, `SentAtMostOnce`, `UndeliverableCostsNothing`. Two of the four are shown as
findings because the code's comments promise otherwise. `outreach_cases` checks them with one worker, and section 4 proves them
for any number, of every attempt that no two workers have served at once.

### Two limits of the queued work

*An order beside a crossed update.* No fault is needed for this: a candidate is picked, so an update does not refresh it and finds no
recovery; the worker opens the recovery; the update then schedules a successor, because
`pending-recovery-candidate.service.ts:265` looks at the tombstone only. An open recovery stands beside a waiting candidate.
When the order comes, `order-recovery-correlation.service.ts:68` cancels the candidate, and the recovery is left open (no message
follows: a later candidate meets the tombstone; the recovery may expire). `OrderClosesRecovery` therefore holds only while no update
has crossed a worker in this way (`crossed`), and says so. In the same window the recovery is opened although the customer is back:
`QuietBeforeRecovery` is about the activity that was accepted, and an update in hand is not accepted yet.

*A refused row at the head of the batch.* A resume that is refused for a reason other than credit or consent leaves the row blocked, and
`recovery-capacity-resume-processor.service.ts:262` then reports that capacity is exhausted. The worker ends the batch
without a continuation, and the next batch starts with the same row: as long as the refusal lasts, younger recoveries of the
shop wait although it has credits. A suppressed recovery whose single wake-up comes while it is refused is not looked for by the
repair, which reads rows blocked for want of credit.

### Findings

1. `refund_frozen_evidence` – refund preparation writes a quantity from a lot it read before its
   transaction and fences the write by the refund only. A compensation in between restores a credit
   to the lot, sees the refund not yet frozen and does not ask for review; completion then
   refuses the changed quantity on every run. The comment in
   `recovery-delivery-compensation/purchased.ts:66` describes the opposite.
2. `one_row_after_rollover` – `revalidateBeforeProvider` releases the row of an old period and admits
   again under a new key; the released row remains, and
   `recovery-delivery-compensation/lineage.ts:103` requires one. Fence, settlement and
   compensation then refuse the attempt: the message is not sent and its credit stays reserved.
3. `rejected_outreach` – after a definitive rejection the Shopify outreach neither releases the credit
   nor calls `handleProviderFailure`, as a test title says it does; the credit stays reserved.
4. `permit_under_release` – the second of two workers releases the credit of a message that the first
   one's permit may already have brought to Meta.
5. `second_message` – a report reconciled between receipt and finalization removes the usage event,
   the only trace of the first message; another worker may then send a second one.

## 4. Proofs

TLAPS proves, for every value of the constants (any finite set of attempts, any lots, grants, number of
periods and sizes), under the named assumptions of the modules:

| Theorem | Statement |
| --- | --- |
| `LedgerSourcesProofs!RowsInvariant` | `Spec => []RowsInv` |
| `LedgerSourcesProofs!ChargesAreFinal` | `Spec => ChargedForGood` |
| `LedgerSourcesProofs!AmbiguousRowsKept` | `Spec => AmbiguousKeepsCredit` |
| `LedgerSourcesProofs!FreeCounterExact` | `Spec => []FreeReconciled` |
| `LedgerSourcesProofs!FreeCreditsBounded` | `Spec => []FreeNeverOverdrawn` |
| `LedgerSourcesProofs!PromotionalGrantsReconciled` | `Spec => []PromotionalReconciled` |
| `LedgerSourcesProofs!PromotionalGrantsBounded` | `Spec => []GrantNeverOverdrawn` |
| `LedgerSourcesProofs!PaidCountersExact` | `Spec => []PaidReconciled` |
| `LedgerSourcesProofs!CloseNeverRefused` | `Spec => []RolloverNeverRefused` |
| `LedgerSourcesProofs!ClosedPeriodsStaySettled` | `Spec => []ClosedPeriodSettled` |
| `LedgerProofs!PurchasedRowsCounted` | `Spec => []PurchasedReconciled` |
| `LedgerProofs!CounterFollowsLots` | `Spec => []LotsReconciled` |
| `LedgerProofs!NothingHeldOnFinishedLots` | `Spec => []HeldOnLiveLots` |
| `LedgerProofs!RefundsFollowLots` | `Spec => []RefundFollowsLot` |
| `LedgerProofs!WooHoldIsSetAside` | `Spec => []WooHoldAlreadySetAside` |
| `LedgerProofs!EveryChargeReversible` | `Spec => []ChargesReversible` |
| `LedgerProofs!CorrectionsTakeTurns` | `Spec => []OneCorrectionOnMeter` |
| `LedgerProofs!LedgerTyped` | `Spec => []TypeOK` |
| `LedgerProofs!EveryCreditAccounted` | `Spec => []CreditsAccounted` |
| `LedgerProofs!LotsAlwaysBackRows` | `Spec => []LotsBackRows` |
| `LedgerProofs!PeriodsAlwaysClose` | `Spec => []PeriodsClose` |
| `LedgerProofs!RowsAreFinal` | `Spec => RowsSettleForGood` |
| `OutreachProofs!OutreachImplementsLedger` | `OutreachSpec => ImplementsLedger` |
| `OutreachProofs!OutreachTyped` | `OutreachSpec => []OutreachTypeOK` |
| `OutreachProofs!OutreachAccounts` | `OutreachSpec => [](CreditsAccounted /\ LotsBackRows /\ PeriodsClose)` |
| `OutreachProofs!ChargedOnce` | `OutreachSpec => []ChargedOnceForSent` |
| `OutreachProofs!SentOnce` | `OutreachSpec => [](...)`: `dispatched[a] <= 1` for every `a \notin contended`, and `contended = {} => SentAtMostOnce` |
| `OutreachProofs!OneCredit` | likewise: one live row of every `a \notin contended`, and `contended = {} => OneCreditPerAttempt` |
| `OutreachProofs!PermitIsBacked` | likewise: `Backed(a)` behind a permit, and `contended = {} => PermittedSendHasCredit` |
| `OutreachProofs!UndeliverableIsFree` | likewise: no live row after the report, and `contended = {} => UndeliverableCostsNothing` |
| `OutreachProofs!OneCallPerPermit` | `OutreachSpec => []PermitServesOne` |
| `LeasedWorkProofs!TurnsTyped` | `TurnSpec => []TurnTypeOK` |
| `LeasedWorkProofs!AnsweredAtMostOnce` | `TurnSpec => []AnsweredOnce` |
| `LeasedWorkProofs!RepliesStayWithOwner` | `TurnSpec => []ReplyWithinOneOwner` |
| `LeasedWorkProofs!PendingTurnIsExact` | `TurnSpec => [](PendingIffUnprocessed /\ TranscriptsInOrder)` |
| `LeasedWorkProofs!WooTyped` | `WooSpec => []WooTypeOK` |
| `LeasedWorkProofs!DeliveredNotReturned` | `WooSpec => []DeliveredIsNotReturned` |
| `LeasedWorkProofs!OrderEnds` | `WooSpec => []OrderEndsWooRecovery` |
| `LeasedWorkProofs!ClosedNotPermitted` | `WooSpec => ClosedIsNotPermitted` |
| `LeasedWorkProofs!LeasedAlwaysConsistent` | `LeasedSpec => []LeasedConsistent` |
| `FollowUpProofs!FollowUpsTyped` | `FuSpec => []FuTypeOK` |
| `FollowUpProofs!FollowUpOnce` | `FuSpec => []FollowUpSentOnce` |
| `QueuedWorkProofs!ResumeTyped` | `ResumeSpec => [](ResumeTypeOK /\ BlockedIsDetected)` |
| `QueuedWorkProofs!SuppressedIsWoken` | `ResumeSpec => WakeupBeforeMark` |
| `QueuedWorkProofs!CandidatesTyped` | `CandSpec => []CandTypeOK` |
| `QueuedWorkProofs!GenerationsAlwaysInTurn` | `CandSpec => []GenerationsInTurn` |
| `QueuedWorkProofs!OutreachAlwaysInTime` | `CandSpec => OutreachInTime` |
| `QueuedWorkProofs!TranslationsTyped` | `TrSpec => []TrTypeOK` |
| `QueuedWorkProofs!TranslationsAlwaysSound` | `TrSpec => []TranslationsSound` |
| `QueuedWorkProofs!QueuedAlwaysConsistent` | `QueuedSpec => []QueuedConsistent` |
| `SubscriptionProofs!SyncTyped` | `SyncSpec => []SyncTypeOK` |
| `SubscriptionProofs!ServedOpen` | `SyncSpec => []ServedPeriodIsOpen` |
| `SubscriptionProofs!ProjectionEntitles` | `SyncSpec => ImplementsEntitlement` |
| `SubscriptionProofs!EventsOrdered` | `SyncSpec => EventsInOrder` |
| `SubscriptionProofs!PeriodsStayClosed` | no step of `SyncSpec` opens a closed period |

The argument has two layers. `FreeReconciled` (the counter equals the rows) is not inductive by
itself: the table is shared, and nothing in the formula prevents, say, a paid commit from writing a row
that counts as free. `LedgerSourcesProofs` therefore first proves `RowsInv`, the typing of the table and
the shape of its rows: the unit and the form of the key follow from `kind`, `kind` is
"none" exactly for absent rows, only committed rows are compensated. On the way it proves
`LedgerWrites`: every step of the ledger leaves the table alone, is a `RowStep(kind)` of exactly one source (one row,
absent before or of that source), or is the rollover, which releases the held rows of one
period. From that come `OtherSourcesUntouched` and `RolloverTouchesPaidOnly`, by which a source's
proof needs to look at its own operations only, and `AfterReserve`, `AfterStatus` and
`AfterCompensate`, which say what one write does to the sets the counters count.
It then proves for the free credits the inductive invariant
`FreeInv == FreeTypeOK /\ FreeReconciled /\ FreeNeverOverdrawn` with one step per operation, in terms of
the cardinalities of those sets. `FreeInv` also carries the bound: it is what makes the guard of the
reserve operation sufficient.

For the promotional credits the scheme repeats grant by grant. A compensation that comes while the campaign does not run
leaves the quantity consumed, so the proved relation to the charged rows is `>=`.

The paid credits follow period by period; `PaidInv` needs two conjuncts more than the counts. The bound (reserved,
committed and forfeited within the grant) is what makes the amount forfeited at the close non-negative, and
`ClosedPeriodSettled` has to be carried along because a charge can be compensated after its period was closed,
which moves a unit from committed to forfeited. `CloseNeverRefused` is a consequence.

`LedgerProofs` has to relate the rows, the lots, the one counter they share, the refunds and what a preparing
worker remembers of a lot. `LotsInv` has three parts:

- `LotFine`, per lot: its reserved amount is its number of held rows; what it contains and what is charged to it is
  within the pack, which is why a compensation always has room; status, content and refund status fit together.
  Its last conjuncts are the ones that make it inductive: once a correction is linked, or the worker has read
  the lot without reservations, or WooCommerce waits for the provider, the withdrawn lot has no reservation and
  cannot get one, and a refund under review is never the refund of a lot whose last credit is reserved. Without
  them the commit of a last credit could complete a lot whose refund it may not cancel, or a refund could complete on
  a lot with a reservation.
- `CounterOK`: the counter against the rows, and against the two pools of unreserved credits, of the active and of
  the withdrawn lots.
- the types of the variables.

A pool is a sum over lots. It is stated as the cardinality of a set of single credits, and `CreditsMove`,
`PoolMoves` and `LotStep` reduce it to the lot that a step changes, so that each operation is left with
arithmetic on one lot (`LotsAfter...`). Its last part joins the invariants of all sources to `TypeOK` and to
the four properties of the whole ledger that the runs check, each from the theorems of the sources.

`OneCorrectionOnMeter` needs an invariant of its own, `TurnsInv`. The worker looks at the meter in one step and links
the correction in a later one, so nothing in the linking step says that the meter is still free. What makes it safe
is the order: refunds are numbered as they are requested (below the number of refunds made, no two alike), a finished
refund never comes to life again, so nobody can get ahead of a refund that had its turn. `HasItsTurn` therefore holds
for what was *seen* (`stage = "clear"`) as well as for what is linked.

### The outreach

`OutreachProofs` starts with `OutreachInv`: the rows of the ledger, and the types of worker and attempt, with what
a worker's place says of the attempt it serves and the key it carries. That is what `OutreachImplementsLedger` needs:
every step of a worker, report, plan or shop is a step of `CreditLedger` or leaves the ledger alone (`StepInLedger`), because
the key a worker holds is a source key of its own attempt. By it every theorem about the ledger holds of the outreach,
so that `OutreachTyped` and `OutreachAccounts` follow without another induction.

`ChargedOnce` says that an attempt is charged at most once, only for a message the provider has accepted, and that only
a charged attempt waits for a response, for any number of workers and without mutual exclusion. `ChargeInv` adds
what makes this inductive: the usage event or the link of a charged message stays (`Traceable`), a worker that is about to
finalize has a committed row, and so has an attempt that waits for a response. `NoNewCharge` reduces the induction to
the one step that charges.

The other four are about the attempts that no two workers have served at once, however the workers came to be alone: by the
checkout lock, by the queue, by luck. `permit_under_release` and `second_message` show that nothing stronger is true. The
exception is per attempt and not per behaviour: two workers that meet on one attempt share the free counter, the lots and the
grants with all others, and the theorems say that what they do there does not reach them. `UncontendedInv` is inductive:

- `contended` contains every attempt that has two workers now.
- `AttemptFine`, per attempt not in it: one live row at most, none uncertain, none committed before the provider has the message;
  what was dispatched agrees with the state of the message; a permitted message has its usage event and its credit, or
  the period of that credit has been closed; an undeliverable message that has been dealt with has no live row.
- `WorkerFine`, per worker of such an attempt: while it asks for a credit its attempt has none; what it then carries is the
  attempt's only one; it releases nothing once the message has a permit; at the send the provider has not been called.

That a step of one attempt leaves the rows, the message and the workers of the others alone is `OthersSame`, with
one lemma per kind of step (`BillingTouches`, `OutreachTouches`, `InspectTouches`, `ReportTouches`), and `ContendedGrows` says
that an attempt outside of `contended` after a step had at most one worker before it, which is the one that moved.

A crash may leave any of these states behind, and the next worker starts from `AttemptFine` alone; that is why everything it
relies on must be stated of the attempt. The proof goes through the places of a worker one by one (`...Keeps`), with
frame lemmas (`AttemptFineFrame`, `WorkerFineFrame`) for whatever a step does not touch. An undeliverable report that
comes between receipt and finalization is the case that needs the last conjunct of `AttemptFine`: settlement commits
the credit of a message that is already known to be lost, and the pending report must still find it.

`OneCallPerPermit` holds of contended attempts too: the permit is taken from a prepared message, which it makes an admitted one
(`TakePermit`), and no other step leads to the call (`NeverToSend`) or, while a worker is about to call, takes the permit away
(`PermitStays`).

### Conversation turns

The first part of `LeasedWorkProofs` proves for any number of messages, workers, control changes and mishaps what `leased_work` checks for two of
each. The parts of `TurnInv`:

- `InboxFine`: the jobs of the inbox are handled in the order of their messages, and a message has a version only when
  it is stored.
- `VersionsFine`: without a counting argument, the number of versions stays below the first message that has none after
  it. This is what gives every message room for its version, and with it `TranscriptsInOrder`: a transcript is stored
  last or not at all.
- `PendingFine`: `PendingIffUnprocessed`, the first version of the pending turn, and that only a pending turn is leased.
- `RevisionsFine`: a message of the pending turn is no older than the turn's revision. It may be younger: control can be
  taken and handed back between two messages of one turn. `ReplyWithinOneOwner` therefore does not follow from how
  messages join; it follows because a reservation and the permit compare the *current* revision with the turn's, and
  revisions only grow, so that all messages in between are of that one revision.
- `TurnFine`, `AnswerFine`: a worker's version exists, its revision is the pending turn's if its version is the newest, and
  whoever prepares or sends an answer is the only one for its version: it holds the usage, which another can have only
  after it was deleted by the holder.
- `JobsFine`: jobs exist for existing versions only. The guard of `TakeTurnJob` compares a version with the newest
  one for being older, and the invariant was not inductive before this was added.

The proof classifies the steps instead of going through all invariants for all actions: a step stores one message (`Stores`)
or leaves versions alone (`ConvoKept`, `MessagesKept`), and changes the turn of at most one worker in one of seven ways
(`WorkerEffect`); `OneTurnKeepsAnswers` is the frame for those.

### The WooCommerce recovery

The second part of `LeasedWorkProofs` proves, for any number of events, generations, workers and faults, that an order ends
the recoveries of its checkout, that a closed recovery gets no permit and that a delivered message keeps its credit. The
parts of `WooInv`:

- `WooRows`, `GensInv`, `JobsInv`: the rows; generations are admitted one after the other and only the newest can be live; what
  a worker's step says of its job, and that no two workers have the same candidate or dispatch.
- `MsgInv`: whoever prepares, sends or releases knows the state of the message. A release happens only for a cancelled
  recovery before its permit, and the fence permits none that is not `DETECTED`; the lease plays no part, so
  `DeliveredIsNotReturned` and `ClosedIsNotPermitted` hold however many leases are lost.
- `LeaseInv`: who is in a section without the lease has lost it (`Stray`), and after one loss at most one worker has.
- `QueueInv`, `InsertInv`: the index leads to the candidate of the next generation until a lease was lost, and nobody inserts
  beyond that generation.
- `StrayInv`: a worker that lost the lease while it was to insert the next generation keeps the index. The order's worker
  therefore finds the candidate active, is refused, and its event is tried again.
- `OrderInv`: the order's evidence is written first, the candidate goes next, the recovery last. From the transition on nobody
  is to insert; later workers see the evidence.

TLC checked `WooInv` on an instance (all but `InsertInv`, with three events and one fault: 8.2 million states) before the
proof, and showed two things. With *two* lost leases `OrderEndsWooRecovery` is false: a worker that has lost the lease
places an older candidate and takes the index away from the job that another one, without the lease too, is inserting from; the
order finds nothing to cancel, and the recovery appears after it. The property now counts lost leases (`lapses <= 1`). And
`SchedulePending` overwrote the data of a job that the index does not lead to; BullMQ ignores an `add` whose id is
taken, and the model now does the same.

`LeasedAlwaysConsistent` joins both parts: a step of `LeasedNext` is a step of one component and leaves the variables of the
other alone (`LeasedIsTheirs`).

### The follow-up

`FollowUpProofs` proves `FollowUpSentOnce` for any number of commands, dispatchers, leases and upsets. That at most one
message goes out is not argued by counting: every sender that may have reached WhatsApp owns the one row
(`PermitKeepsSlot` for a command, `JobFine` for the scheduled job), so two senders are the same. The parts of `FuInv`:

- `WireFine`: what WhatsApp accepted of a command was permitted, and a permit is never taken back; a dispatcher that is
  about to call holds the permit of a command that has not been sent, and it is the only one, because the fence
  refuses a command with a permit. Leases play no part in this: they may run out at any moment.
- `PermitKeepsSlot`: the permit writes the message into the row, and both who gives a row back (`FreeWhenSafe`) and who takes
  it (`SlotFree`) look for a row without a message.
- `JobFine`: from its claim to its end the scheduled job owns the row, and it keeps it once its message may be out. A job that is
  run again from its start finds its own claim and stops.

The proof needs that `NoKey` differs from the key of the scheduled job, which `FollowUpAssumption` now says: an empty claim
key is no claim. Steps are classified: all but the permit, the call and the job's own steps are `Quiet`, which leave
permits and calls alone and take, keep or free the row; `QuietKeeps` is their frame lemma.

### Queued work

`QueuedWorkProofs` is about three components that wait in a queue, for any number of jobs, workers, events, batches and
instants, and about the run that puts them beside the follow-up.

*The resumption of blocked recoveries.* `WakeupBeforeMark` is a property of one step, the mark, but it holds because of what a
worker did two steps before: it put a job into the queue, and until it marks the row anybody may run that job. `Woken` says
what survives: whoever is about to mark `r`, and still may, finds that `r` is settled, that a job names it, or that another
worker is still to look at it (`WillWake`). To carry it through the end of a job one needs that a job's name determines its time
(`JobFine`) and that a running job was due (`ResumerFine`): a job asked for a later time is therefore not one that runs, so
BullMQ does not drop it as a duplicate. Two things came out of the attempt. With two workers the property was false as it
stood: the shop may be switched off between look and mark, its job then ends without a successor, and the row is marked; the
property now names the shop that is off, whose recoveries are dealt with when it is switched on. A refusal does the same, since a
worker that is refused is done with the wake-up; it is named too, and only a refusal that never was is as good as
none (`RefusalsStay`). And a worker that goes through
the recoveries of a shop comes to the end only when there are finitely many, which `ResumeAssumption` now says.

*The pending candidates.* `CandInv` has eight parts. `GenerationInv`: every generation before the newest has expired, also
before the one that a job at work is about to open; that gives `OneOpenGeneration` without counting. `UpdateInv`: an update that is to
be recorded has found its recovery. `WorkInv` and `LockInv`: a worker has its job, and, as long as lock and tombstone last, the
checkout's lock; nobody is past the check once the order was handled. `AliasInv`: the checkout's alias names a job that exists, the
cart's alias names no other, and a job in its first wait is the one they name (`Aliased`). `OpenInv`: no recovery is open
beside a candidate that an order would cancel, *unless an update has crossed a worker*, and the alias of a job past the check
is its own or gone. `QuietInv`: the activity accepted last is known to the candidate or to an open recovery, or has aged
(`Covered`). The steps of an update are three kinds: taken in hand, looked at or given up (nothing but `update` changes), a
candidate put for an activity, or an activity recorded with an open recovery; any number may be in hand. Four of the parts hold under
the faults they name only. Larger instances showed limits that the properties state: a redelivered update parts the
aliases from a waiting job just as a redelivered create does, an emptied cart takes the successor and the alias with it, and a recovery
that expires before the delay has passed forgets the activity it took (`Delay <= Lifetime`).

*The translations.* `TranslationsSound` holds because of the parts of `TrInv`. `NamedInv`: a job is of a batch, unless it is the
one that assembles. `BatchesInv`: batches are assembled one after the other, an unused one is blank, and a ready one has a try
left. `SubmitInv`: one worker at most is between claim and record of a batch, and nothing was made for a batch that is ready, or
whose creation is still to come or has failed so that it may be tried again; hence a batch is bought once although its job may be
delivered twice, lost and repaired. `CountInv` counts with sets: the batches an item was in (`Holders`) are its tries, and the
one it is in or has left for good (`Counted`); assembly adds one on both sides, a result that is tried again moves the last one to
the tries. `ShownInv` is about what customers see. Most steps change neither members nor tries and are
dealt with together (`OrdinaryStep`); assembly, submission, creation, a record that makes a batch ready again, results, an edit and
the publication are not. That a new batch can be submitted at all needs `MaxSubmits` to be positive, as the bounds of the
configuration say (`background-runtime-config.ts:24`), and `TranslationAssumption` does too.

*Beside each other.* A step of `QueuedNext` is a step of one component and leaves the variables of the others alone
(`QueuedIsTheirs`), so that the four invariants carry over to `QueuedConsistent`.

### The subscription

`SubscriptionProofs` proves that the projection implements `EntitlementPeriods`, for any number of cycles, moves and
instants (`ProjectionEntitles`), and what its own row and periods promise. Nothing is proved of the abstract specification by
itself: that it attaches the shop to open periods only is what its guards say, and what the projection has to keep. The parts of `SyInv`:

- `ServedFine` is stronger than `ServedPeriodIsOpen`: the period a row names is open, of the row's plan unless it has none,
  and of the cycle the row shows, *whatever the status*. A row that is frozen keeps its period, and `Restore` makes it
  active again in the same cycle without looking at that period; this is why it may. And an active row has a plan.
- `ProcsFine`: what job and scan remember is a row and an answer the provider could give, whose event is no newer than the
  latest; a rollover job has a period and a plan-change job an announced cycle, which the boundaries they save are
  taken from; a scan that is about to record the current cycle has seen the plan and the cycle of the row it expects.
- `ProvFine` bounds the provider's events: a freeze owes its end and an announced cancellation its event, and each move pays
  for both. It gives the bound in `SyncTypeOK`.

Every operation is classified by what it does to row and periods (`RowStep`): the row is served as before or less
(`Calm`), the period is left, or another one is attached, whose predecessor stays as it is or is closed in that step. There is
one lemma per operation; that a rollover, a plan transition or a restoration leads away from the period it closes comes from
their comparison of cycles with `sub.per = sub.cyc` (`RolloverLeads`, `TransitionLeads`). From `RowStep` the invariant, the order of
events and the step of `EPNext` follow by three cases each, without another look at the operations. `FreshIs` needs three instants,
which `SubscriptionAssumption` states.

### What is only model-checked

Of `WooRecovery`, `AdmittedIsNewest`, and with it `RecoveryIsCurrent`; of `WooBilling`, `ServedAsPaid` and `QuarantineIsRepaired`, and with them `SubscriptionsConsistent`,
`ContractsDoNotMix`, `ChargesCreditedOnce` and `LapsesEndService`; of the Shopify projection `FrozenNotServed`, which needs that
an instant a scan remembers does not come back, and with it `LifecycleInOrder`. Liveness too: fairness and ENABLED are
outside of what the prover handles. The findings are counterexamples of TLC.

## 5. What is not modelled

`PROJECT.json` gives a reason for every component. In short:

* Content (templates, offers, prices, media, agents and their tools, speech) enters as a nondeterministic outcome. The
  template lifecycle appears only as far as its translations go. Consent synchronization and the merchant's documents have
  state of their own and are not modelled yet; platform configuration, runtime and entry points are wiring.
* The outreach of WooCommerce is off in this commit's normal composition; `WooRecovery` models the configuration in which it
  is enabled.
* Of the subscription reconciliation: Free plans without packs, the repair of lifetime-free counters, unsupported trials, the
  publication of discounts and the provider's usage totals. Of WooCommerce billing: the creation of contracts and
  amounts; refund receipts are part of `CreditRefunds`.
* Of conversations: what the agent says, the routing tables, the merchant's plain text messages beyond their permit;
  takeover and hand-back are inputs.
* The usage event publisher, except for the outcome of a refund correction.
* Of the capacity resume: the steps of an outreach within `AdmitResumed`, which `InitialOutreach` models; why a message is refused
  is one of two kinds.
* Within the modelled components: notices to merchants, logs, provider arithmetic of usage meters, and the retry loops around
  a transaction; read receipts and delivered usage are not told apart.

Two hazards are modelled without a property: a WooCommerce resumption that fails between its record and its settlement and whose
event is then acknowledged as a duplicate, and a reply reserved before a crash, which turns the retried turn into a
completed one without an answer. No text of the repository says which outcome is wanted.

## 6. Plan

Done: the reservation table with its four sources, refunds and the ledger; the billing worker and the initial outreach; the proofs of the
ledger; candidates, capacity resume, follow-ups, conversation turns, translation batches, WooCommerce recovery and
billing, the Shopify projection and the entitlement it implements. Next:

1. Proofs about the other components: `FrozenNotServed` and with it `LifecycleInOrder`; `AdmittedIsNewest` of the WooCommerce
   recovery; the receipts of WooCommerce billing.
2. `UsageEventPublisher`: leases, retries and the close of a period under an event that is being sent.
3. The document pipeline of merchant knowledge, and the lifecycle of templates.
