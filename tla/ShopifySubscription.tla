------------------------ MODULE ShopifySubscription ------------------------
(***************************************************************************)
(* The projection of a shop's Shopify subscription: a delayed job fenced   *)
(* by the instant it was scheduled for, and a leased scan of all shops,    *)
(* read the Partner API and then write the row they read before, or after, *)
(* asking.  Billing periods are numbered by the provider's cycles.  A row's *)
(* status folds in whether the error code of a SYNC_ERROR is one the job   *)
(* retries ("SYNC_ERROR") or not ("STUCK"); TRIALING counts as ACTIVE.      *)
(***************************************************************************)
EXTENDS Integers, FiniteSets

CONSTANTS
    MaxCycle,       \* bound on the provider's billing cycles
    SyncMoves,      \* bound on the moves of the merchant and the provider, failed reads, incomplete answers, lost jobs, crashes
    Retries         \* instants "now + delay": an instant in use is never handed out again

ASSUME SubscriptionAssumption ==
    /\ MaxCycle \in Nat \ {0} /\ SyncMoves \in Nat
    /\ Retries \in Nat /\ Retries >= 3

VARIABLES
    prov,       \* Shopify's side: plan, cycle, phase of the cycle, pending plan, events
    sub,        \* the Subscription row
    period,     \* the BillingPeriod of every cycle: "none", its plan while OPEN, "closed"
    shop,       \* status, reinstallPendingAt and onboardingCompleted
    syncJob,    \* the job of the row's instant: none, queued, or its id taken (running, or kept when completed)
    proc,       \* the worker of the job and the scan
    moves       \* moves and faults so far
syncVars == <<prov, sub, period, shop, syncJob, proc, moves>>

Cycles == 1 .. MaxCycle
Mapped == {"free", "paid"}              \* plans of the catalogue; "x" is an unmapped handle
SyncPlans == Mapped \cup {"x"}
Never == <<"none", 0>>
Instants == {Never} \cup ({"pre", "end"} \X Cycles) \cup ({"retry"} \X (1 .. Retries))
NoContract == [st |-> "NO_CONTRACT", plan |-> "none", per |-> 0, cyc |-> 0, pend |-> "none", eff |-> 0,
               next |-> Never, ev |-> 0]
NoAnswer == [plan |-> "none", cyc |-> 0, pend |-> "none", ok |-> TRUE, ev |-> 0, state |-> "none"]
Idle == [pc |-> "idle", kind |-> "none", exp |-> NoContract, snap |-> NoAnswer]

SyncTypeOK ==
    /\ prov \in [plan : SyncPlans \cup {"none"}, cyc : 0 .. MaxCycle, phase : {"early", "drain", "over"},
                 pend : SyncPlans \cup {"none", "cancel"}, frozen : BOOLEAN, ev : 0 .. 2 * SyncMoves + MaxCycle + 1,
                 state : {"none", "OTHER", "FROZEN", "UNFROZEN", "CANCELED"}]
    /\ sub.st \in {"NO_CONTRACT", "ACTIVE", "FROZEN", "SYNC_ERROR", "STUCK", "UNMAPPED"}
    /\ sub.plan \in Mapped \cup {"none"} /\ sub.per \in 0 .. MaxCycle /\ sub.cyc \in 0 .. MaxCycle
    /\ sub.pend \in SyncPlans \cup {"none", "cancel"} /\ sub.eff \in 0 .. MaxCycle
    /\ sub.next \in Instants /\ sub.ev \in 0 .. prov.ev
    /\ period \in [Cycles -> Mapped \cup {"none", "closed"}]
    /\ shop \in [st : {"ACTIVE", "UNINSTALLED"}, back : BOOLEAN, onboarded : BOOLEAN]
    /\ syncJob \in {"none", "queued", "taken"}
    /\ \A p \in {"job", "scan"} :
           proc[p].pc \in {"idle", "read", "load", "order", "life", "apply", "cycle", "progress", "reconstruct"}
    /\ moves \in 0 .. SyncMoves

\* A shop whose merchant chose a plan, one served from its paid cycle, or a Free shop of the time before its period was
\* recorded.
Started(plan, row, first) ==
    /\ prov = [plan |-> plan, cyc |-> IF plan = "none" THEN 0 ELSE 1, phase |-> "early", pend |-> "none", frozen |-> FALSE,
               ev |-> IF plan = "none" THEN 0 ELSE 1, state |-> IF plan = "none" THEN "none" ELSE "OTHER"]
    /\ sub = row /\ shop = [st |-> "ACTIVE", back |-> FALSE, onboarded |-> plan # "none"]
    /\ period = [k \in Cycles |-> IF k = 1 THEN first ELSE "none"] /\ syncJob = "queued"
    /\ proc = [p \in {"job", "scan"} |-> Idle] /\ moves = 0
NewShop(q) == Started("none", [NoContract EXCEPT !.pend = q, !.next = <<"retry", 1>>], "none")
PaidShop == Started("paid", [NoContract EXCEPT !.st = "ACTIVE", !.plan = "paid", !.per = 1, !.cyc = 1, !.next = <<"pre", 1>>], "paid")
OldShop == Started("free", [NoContract EXCEPT !.st = "ACTIVE", !.plan = "free", !.next = <<"retry", 1>>], "none")
SyncInit == (\E q \in Mapped : NewShop(q)) \/ PaidShop \/ OldShop

------------------------------------------------------------------------------
\* Time: an instant of an earlier cycle has passed.
Drained(k) == k < prov.cyc \/ prov.phase # "early"
Over(k) == k < prov.cyc \/ prov.phase = "over"
Reached(t) ==
    \/ t[1] = "retry"
    \/ t[1] = "pre" /\ Drained(t[2])
    \/ t[1] = "end" /\ Over(t[2])

\* An instant p takes from the clock is none of those the others still expect.
Fresh(p) == <<"retry", CHOOSE g \in 1 .. Retries : \A q \in {"job", "scan"} \ {p} : proc[q].exp.next # <<"retry", g>>>>
\* Mutant: the drain of the cycle after it.
MutDrainOf(p, k) == IF Drained(k) THEN Fresh(p) ELSE <<"pre", k + 1>>
\* The drain of the period, or now when it has begun.
DrainOf(p, k) == IF Drained(k) THEN Fresh(p) ELSE <<"pre", k>>
\* The next of the two boundaries of a running period.
NextBoundary(k) == IF Drained(k) THEN <<"end", k>> ELSE <<"pre", k>>

\* queue.add ignores an id that is still taken; a completed job may have been evicted meanwhile.  A job of an instant that
\* is no longer the row's is skipped when it runs, so only the job of the row's instant is kept.
Added(taken) == syncJob' \in IF taken THEN {"queued", "taken"} ELSE {"queued"}
Save(row, t) == sub' = row /\ IF t = Never THEN syncJob' = "none" ELSE Added(t[1] = "end" /\ Over(t[2]))
Write(row) == sub' = row /\ UNCHANGED syncJob
Keep == UNCHANGED <<sub, syncJob>>
\* The instant stays the row's; it is enqueued again.
Republish == UNCHANGED sub /\ IF sub.next = Never THEN UNCHANGED syncJob ELSE Added(syncJob = "taken")
Retry(p, row) == sub' = [row EXCEPT !.next = Fresh(p)] /\ syncJob' = "queued"

\* The error code is overwritten without the status: a retryable SYNC_ERROR is no longer one.
Recoded(row) == IF row.st = "SYNC_ERROR" THEN [row EXCEPT !.st = "STUCK"] ELSE row

PendingOf(row, s) == [row EXCEPT !.pend = s.pend, !.eff = IF s.pend \in SyncPlans THEN s.cyc ELSE 0]
Failed(row, code) == [row EXCEPT !.st = code]

------------------------------------------------------------------------------
\* Billing periods.

\* Mutant: the plan and the state of a recorded period are not looked at.
MutCompatible(k, plan) == TRUE
\* ensureCurrentBillingPeriodProjection: the cycle has no period yet, or one that is open and of this plan.
Compatible(k, plan) == period[k] \in {"none", plan}
Opened(s) == IF period[s.cyc] = "none" THEN [period EXCEPT ![s.cyc] = s.plan] ELSE period

\* Served from the cycle the provider reported.
Serves(row, s, next) == [row EXCEPT !.st = "ACTIVE", !.plan = s.plan, !.per = s.cyc, !.cyc = s.cyc, !.next = next,
                                    !.pend = IF s.pend = "cancel" THEN "cancel" ELSE "none", !.eff = 0]

\* closeBillingPeriod and ensureSuccessorBillingPeriod in one transaction.
Moved(s) == [k \in Cycles |-> IF k = sub.per THEN "closed" ELSE Opened(s)[k]]
Movable(s) == Compatible(s.cyc, s.plan) /\ (sub.per # 0 => period[sub.per] \in Mapped)

\* Mutant: a cycle before the current period is accepted as its successor.
MutSamePlanRollover(row, s, plan) ==
    IF s.cyc = 0 \/ s.plan # plan \/ ~s.ok \/ row.plan # plan \/ row.st # "ACTIVE" \/ row.per = 0 \/ row.cyc = 0
    THEN "not-applicable" ELSE IF s.cyc = row.cyc THEN IF Over(row.per) THEN "lag" ELSE "unchanged" ELSE "transitioned"

SamePlanRollover(row, s, plan) ==
    IF s.cyc = 0 \/ s.plan # plan \/ ~s.ok \/ row.plan # plan \/ row.st # "ACTIVE" \/ row.per = 0 \/ row.cyc = 0
    THEN "not-applicable"
    ELSE IF s.cyc = row.cyc THEN IF Over(row.per) THEN "lag" ELSE "unchanged"
    ELSE IF s.cyc < row.per \/ ~Movable(s) THEN "throws" ELSE "transitioned"

RolledOver(p, row, s) ==
    [row EXCEPT !.st = "ACTIVE", !.per = s.cyc, !.cyc = s.cyc, !.next = DrainOf(p, s.cyc),
                !.pend = IF row.pend \in SyncPlans THEN row.pend ELSE IF s.pend = "cancel" THEN "cancel" ELSE "none"]

PlanTransition(row, s, from) ==
    IF s.plan \notin Mapped \/ s.cyc = 0 \/ ~s.ok \/ row.plan # from \/ row.st \notin {"ACTIVE", "SYNC_ERROR"}
       \/ (row.plan = "paid" /\ (row.per = 0 \/ row.cyc = 0))
    THEN "not-applicable"
    ELSE IF s.cyc <= row.cyc \/ ~Movable(s) THEN "throws" ELSE "transitioned"

------------------------------------------------------------------------------
\* Steps of a process: p goes on, ends, or fails.

GoOn(p, pc) == proc' = [proc EXCEPT ![p].pc = pc]
\* The scan reconstructs the jobs once it has been through the shops.
End(p) == proc' = [proc EXCEPT ![p] = IF p = "job" THEN Idle ELSE [Idle EXCEPT !.pc = "reconstruct"]]

Move == moves < SyncMoves /\ moves' = moves + 1
SyncRest == <<prov, shop, moves>>

\* markSyncError: the row as it is now is postponed.
MarkSyncError == Retry("scan", Recoded(sub))

\* A failed job is removed, its id is free; a failed shop of the scan is marked.
Throws(p) ==
    /\ IF p = "job" THEN UNCHANGED sub /\ syncJob' = IF sub.next = proc[p].exp.next THEN "none" ELSE syncJob ELSE MarkSyncError
    /\ UNCHANGED period /\ End(p)

------------------------------------------------------------------------------
\* The first activation: the merchant chose a plan, the provider confirms it.

CasPending(e) == sub.st = "NO_CONTRACT" /\ sub.plan = "none" /\ sub.pend = e.pend /\ sub.next = e.next
Abandoned(row) == [row EXCEPT !.pend = "none", !.eff = 0, !.next = Never]

\* No contract yet, or no answer: retried for a day, then the choice is given up.
ActivationPostponed(e, late) ==
    IF ~CasPending(e) THEN Keep ELSE IF late THEN Save(Abandoned(sub), Never) ELSE Retry("job", sub)

CompleteVerifiedFree(e, s) ==
    IF ~CasPending(e) THEN Keep /\ UNCHANGED <<period, shop>>
    ELSE IF s.cyc = 0 THEN Retry("job", sub) /\ UNCHANGED <<period, shop>>
    ELSE IF ~Compatible(s.cyc, "free") THEN Retry("job", Failed(sub, "STUCK")) /\ UNCHANGED <<period, shop>>
    ELSE /\ Save(Serves(sub, s, DrainOf("job", s.cyc)), DrainOf("job", s.cyc))
         /\ period' = Opened(s) /\ shop' = [shop EXCEPT !.onboarded = TRUE]

\* Without a cycle, a meter or an allowance the choice stays; after a day it is no longer scheduled.
PaidActivationFailure(p, e, late) ==
    IF ~CasPending(e) THEN Keep ELSE IF late THEN Save([sub EXCEPT !.next = Never], Never) ELSE Retry(p, sub)

CompleteVerifiedPaid(p, e, s, late) ==
    IF s.cyc = 0 \/ ~s.ok THEN PaidActivationFailure(p, e, late) /\ End(p) /\ UNCHANGED <<period, shop>>
    ELSE IF ~CasPending(e) THEN Keep /\ End(p) /\ UNCHANGED <<period, shop>>
    ELSE IF ~Compatible(s.cyc, "paid") THEN Throws(p) /\ UNCHANGED shop
    ELSE /\ Save(Serves(sub, s, DrainOf(p, s.cyc)), DrainOf(p, s.cyc)) /\ End(p)
         /\ period' = Opened(s) /\ shop' = [shop EXCEPT !.onboarded = TRUE]

Usable(s) == s.plan \in Mapped
Metered(s) == s.plan = "paid" => s.ok
ObservedStatus(s) == IF ~Usable(s) THEN "UNMAPPED" ELSE IF ~Metered(s) THEN "SYNC_ERROR" ELSE "ACTIVE"

\* The provider is on another plan than the one chosen: what it says is projected, unscheduled.
ApplyOtherCurrentPlan(e, s) ==
    LET served == ObservedStatus(s) = "ACTIVE"
        row == [PendingOf(sub, s) EXCEPT !.st = ObservedStatus(s), !.plan = IF Usable(s) THEN s.plan ELSE "none",
                                         !.per = IF served THEN s.cyc ELSE 0, !.cyc = s.cyc, !.next = Never]
    IN  IF ~CasPending(e) THEN Keep /\ UNCHANGED period
        ELSE IF served /\ s.cyc = 0 THEN Retry("job", sub) /\ UNCHANGED period
        ELSE IF served /\ ~Compatible(s.cyc, s.plan) THEN Retry("job", Failed(sub, "STUCK")) /\ UNCHANGED period
        ELSE Save(row, Never) /\ period' = IF served THEN Opened(s) ELSE period

InitialActivation(p, e, s, late) ==
    IF s.plan = "none" THEN ActivationPostponed(e, late) /\ End(p) /\ UNCHANGED <<period, shop>>
    ELSE IF s.plan = e.pend /\ s.plan = "free" THEN CompleteVerifiedFree(e, s) /\ End(p)
    ELSE IF s.plan = e.pend /\ s.plan = "paid" THEN CompleteVerifiedPaid(p, e, s, late)
    ELSE ApplyOtherCurrentPlan(e, s) /\ End(p) /\ UNCHANGED shop

------------------------------------------------------------------------------
\* The running cycle, its close, and the discovery of a missing one.

CasCycle(e) == sub.st = "ACTIVE" /\ sub.plan = e.plan /\ sub.per = e.per /\ sub.cyc = e.cyc /\ sub.next = e.next
RolloverRetry(p, e) == IF CasCycle(e) THEN Retry(p, sub) ELSE Keep
\* recordMissingCycle and recordCycleDiscoveryFailure
MissingCycle(e) == IF CasCycle(e) /\ sub.pend = "none" THEN Retry("job", sub) ELSE Keep

ChangesAtEnd(e, s) ==
    (s.pend # "none" \/ e.pend = "cancel") /\ s.plan = e.plan /\ s.cyc = e.cyc /\ s.cyc # 0 /\ ~Over(s.cyc)

\* The flush of the period's usage events may fail while the period drains.
CurrentCycleTruth(e, s, flushed) ==
    IF ~(sub.plan = e.plan /\ sub.per = e.per /\ sub.next = e.next) THEN Keep
    ELSE IF Drained(s.cyc) /\ ~flushed THEN Retry("job", PendingOf(sub, s))
    ELSE Save([PendingOf(sub, s) EXCEPT !.next = NextBoundary(s.cyc)], NextBoundary(s.cyc))

PreCloseStep(e, flushed) ==
    IF ~CasCycle(e) THEN Keep
    ELSE IF Drained(e.cyc) /\ ~flushed THEN Retry("job", sub)
    ELSE Save([sub EXCEPT !.next = NextBoundary(e.cyc)], NextBoundary(e.cyc))

ReconcileRollover(e, s) ==
    LET r == SamePlanRollover(sub, s, e.plan) IN
    CASE r = "transitioned" -> Save(RolledOver("job", sub, s), DrainOf("job", s.cyc)) /\ period' = Moved(s)
      [] r = "unchanged" -> Republish /\ UNCHANGED period
      [] OTHER -> RolloverRetry("job", e) /\ UNCHANGED period

FreeCycle(e, s) ==
    IF s.plan # e.plan \/ s.cyc = 0 THEN MissingCycle(e) /\ UNCHANGED period
    ELSE IF ~(CasCycle(e) /\ sub.pend = "none") THEN Keep /\ UNCHANGED period
    ELSE IF ~Compatible(s.cyc, s.plan) THEN Retry("job", Failed(sub, "STUCK")) /\ UNCHANGED period
    ELSE /\ Save([sub EXCEPT !.per = s.cyc, !.cyc = s.cyc, !.next = DrainOf("job", s.cyc),
                             !.pend = IF s.pend = "cancel" THEN "cancel" ELSE "none"], DrainOf("job", s.cyc))
         /\ period' = Opened(s)

\* reconcileAccepted
CycleStep(kind, e, s, flushed) ==
    IF kind = "rollover" /\ ChangesAtEnd(e, s) THEN CurrentCycleTruth(e, s, flushed) /\ UNCHANGED period
    ELSE IF kind = "rollover" /\ ~Over(e.cyc) THEN PreCloseStep(e, flushed) /\ UNCHANGED period
    ELSE IF kind = "rollover" THEN IF s.plan = "none" THEN RolloverRetry("job", e) /\ UNCHANGED period ELSE ReconcileRollover(e, s)
    ELSE FreeCycle(e, s)

------------------------------------------------------------------------------
\* A plan change the provider had announced.

CasPlanChange(e) ==
    /\ sub.st \in {"ACTIVE", "SYNC_ERROR"} /\ sub.plan = e.plan
    /\ sub.pend = e.pend /\ sub.eff = e.eff /\ sub.next = e.next
PlanChangeFailure(e) == IF CasPlanChange(e) THEN Retry("job", Failed(sub, "SYNC_ERROR")) ELSE Keep
PlanChangeUnmapped(e) ==
    IF CasPlanChange(e) THEN Save([sub EXCEPT !.plan = "none", !.st = "UNMAPPED", !.next = Never], Never) ELSE Keep
\* recordRetry: only a configuration failure closes the row.
PlanChangeRetry(e, failClosed) ==
    IF CasPlanChange(e) THEN Retry("job", IF failClosed THEN Failed(sub, "SYNC_ERROR") ELSE Recoded(sub)) ELSE Keep
\* The old plan is still the provider's: its intent is stored again, the status stays.
StillCurrent(e, s) ==
    LET next == IF s.pend \in SyncPlans /\ s.cyc # 0 THEN <<"end", s.cyc>> ELSE IF e.cyc = 0 THEN Never ELSE DrainOf("job", e.cyc)
        row == PendingOf(Recoded(sub), s)
    IN  IF CasPlanChange(e) THEN Save([row EXCEPT !.pend = IF s.pend = "cancel" THEN "none" ELSE s.pend, !.next = next], next)
        ELSE Keep

PlanChange(p, e, s) ==
    LET r == PlanTransition(sub, s, e.plan) IN
    IF s.plan = "none" THEN PlanChangeRetry(e, FALSE) /\ End(p) /\ UNCHANGED period
    ELSE IF s.plan = e.plan THEN StillCurrent(e, s) /\ End(p) /\ UNCHANGED period
    ELSE IF s.plan = "x" THEN PlanChangeUnmapped(e) /\ End(p) /\ UNCHANGED period
    ELSE IF s.plan # e.pend \/ (e.cyc # 0 /\ s.cyc = e.cyc) THEN PlanChangeFailure(e) /\ End(p) /\ UNCHANGED period
    ELSE IF ~Over(e.eff)
         THEN /\ IF CasPlanChange(e) THEN Save([Recoded(sub) EXCEPT !.next = <<"end", e.eff>>], <<"end", e.eff>>) ELSE Keep
              /\ End(p) /\ UNCHANGED period
    ELSE IF s.cyc = 0 \/ ~s.ok THEN PlanChangeRetry(e, TRUE) /\ End(p) /\ UNCHANGED period
    ELSE CASE r = "transitioned" -> /\ Save(Serves(sub, s, DrainOf("job", s.cyc)), DrainOf("job", s.cyc))
                                    /\ period' = Moved(s) /\ End(p)
           [] r = "throws" -> Throws(p)
           [] OTHER -> PlanChangeFailure(e) /\ End(p) /\ UNCHANGED period

------------------------------------------------------------------------------
\* A shop that came back.

Authority(e) == shop.st = "UNINSTALLED" /\ shop.back /\ sub.next = e.next
Back == [st |-> "ACTIVE", back |-> FALSE, onboarded |-> TRUE]
ReinstallBlocked(e) == IF sub.next = e.next THEN Save([sub EXCEPT !.next = Never], Never) ELSE Keep

ReinstallWithoutContract(e) ==
    IF Authority(e)
    THEN Save([NoContract EXCEPT !.ev = sub.ev], Never) /\ shop' = [shop EXCEPT !.st = "ACTIVE", !.back = FALSE]
    ELSE Keep /\ UNCHANGED shop

ReinstallFree(e, s) ==
    IF ~s.ok THEN ReinstallBlocked(e) /\ UNCHANGED <<period, shop>>
    ELSE IF ~Authority(e) THEN Keep /\ UNCHANGED <<period, shop>>
    ELSE IF s.cyc = 0 \/ ~Compatible(s.cyc, "free") THEN Retry("job", Failed(sub, "STUCK")) /\ UNCHANGED <<period, shop>>
    ELSE /\ Save(PendingOf(Serves(sub, s, DrainOf("job", s.cyc)), s), DrainOf("job", s.cyc))
         /\ period' = Opened(s) /\ shop' = Back

\* The same cycle is served again if its period is open; another one must be a rollover.
ReinstallPaid(e, s) ==
    LET r == SamePlanRollover(sub, s, "paid") IN
    IF ~s.ok \/ sub.plan # "paid" \/ sub.per = 0 \/ sub.cyc = 0 THEN ReinstallBlocked(e) /\ UNCHANGED <<period, shop>>
    ELSE IF ~Authority(e) THEN Keep /\ UNCHANGED <<period, shop>>
    ELSE IF s.cyc = sub.cyc /\ period[sub.per] = "paid"
         THEN /\ Save([PendingOf(sub, s) EXCEPT !.st = "ACTIVE", !.next = DrainOf("job", s.cyc)], DrainOf("job", s.cyc))
              /\ shop' = Back /\ UNCHANGED period
    ELSE IF s.cyc # sub.cyc /\ r = "transitioned"
         THEN Save(PendingOf(RolledOver("job", sub, s), s), DrainOf("job", s.cyc)) /\ period' = Moved(s) /\ shop' = Back
    ELSE ReinstallBlocked(e) /\ UNCHANGED <<period, shop>>

ReinstallStep(e, s) ==
    IF s.plan = "none" THEN ReinstallWithoutContract(e) /\ UNCHANGED period
    ELSE IF s.plan = "free" THEN ReinstallFree(e, s)
    ELSE IF s.plan = "paid" THEN ReinstallPaid(e, s)
    ELSE ReinstallBlocked(e) /\ UNCHANGED <<period, shop>>

ReinstallFailure(e, late) ==
    IF sub.next # e.next THEN Keep ELSE IF late THEN Save([sub EXCEPT !.next = Never], Never) ELSE Retry("job", sub)

------------------------------------------------------------------------------
\* The provider's lifecycle events, newest first.

\* Mutant: an event is never taken for older than the one already applied.
MutOlder(s) == FALSE
Older(s) == s.ev < sub.ev
Noted(row, s) == [row EXCEPT !.ev = s.ev]
RecordUnresolved(p, s) == Retry(p, IF s.state # "none" /\ ~Older(s) THEN Noted(Recoded(sub), s) ELSE Recoded(sub))

\* The first transaction of reconcile: an older event never reaches the second.
Ordering(p, s) ==
    /\ UNCHANGED period
    /\ IF s.state = "none"
       THEN IF s.plan = "none" THEN RecordUnresolved(p, s) /\ End(p) ELSE Keep /\ GoOn(p, "apply")
       ELSE IF ~Older(s) THEN Keep /\ GoOn(p, "life")
       ELSE IF sub.st = "FROZEN" THEN Retry(p, sub) /\ End(p)
       ELSE IF s.plan = "none" THEN Retry(p, Recoded(sub)) /\ End(p)
       ELSE Keep /\ GoOn(p, "apply")

Cancelled(s) ==
    IF Older(s) \/ (sub.st = "NO_CONTRACT" /\ sub.plan = "none" /\ sub.per = 0) THEN Republish /\ UNCHANGED period
    ELSE /\ Save([NoContract EXCEPT !.ev = s.ev], Never)
         /\ period' = IF sub.per # 0 THEN [period EXCEPT ![sub.per] = "closed"] ELSE period

Frozen(p, s) ==
    IF Older(s) THEN IF sub.st = "FROZEN" THEN Retry(p, sub) ELSE Republish
    ELSE Retry(p, Noted(Failed(sub, "FROZEN"), s))

UnfrozenWithoutContract(p, s) == IF Older(s) THEN Republish ELSE Retry(p, Noted(Failed(sub, "FROZEN"), s))

\* restore: the plan and the cycle may have moved while the contract was frozen.
Restore(p, s) ==
    LET thawed == [sub EXCEPT !.st = "ACTIVE"]
        r == IF sub.plan = s.plan THEN SamePlanRollover(thawed, s, s.plan) ELSE PlanTransition(thawed, s, sub.plan)
        moved == IF sub.plan = s.plan THEN RolledOver(p, thawed, s) ELSE Serves(thawed, s, DrainOf(p, s.cyc))
        again == IF p = "job" THEN End(p) ELSE proc' = [proc EXCEPT ![p].pc = "apply", ![p].exp = sub']
    IN  IF sub.st # "FROZEN" \/ Older(s) THEN Republish /\ UNCHANGED period /\ End(p)
        ELSE IF ~Usable(s) THEN Retry(p, PendingOf(Noted(Failed(sub, "UNMAPPED"), s), s)) /\ UNCHANGED period /\ End(p)
        ELSE IF s.cyc = 0 \/ ~s.ok THEN Retry(p, PendingOf(Noted(Failed(sub, "SYNC_ERROR"), s), s)) /\ UNCHANGED period /\ End(p)
        ELSE IF sub.plan = s.plan /\ sub.cyc = s.cyc
             THEN /\ Save([PendingOf(Noted(thawed, s), s) EXCEPT !.next = NextBoundary(s.cyc)], NextBoundary(s.cyc))
                  /\ UNCHANGED period /\ again
        ELSE CASE r = "transitioned" -> /\ Save(Noted(moved, s), moved.next)
                                        /\ period' = Moved(s) /\ again
               [] r = "throws" -> Throws(p)
               [] OTHER -> Retry(p, Noted(Failed(sub, "SYNC_ERROR"), s)) /\ UNCHANGED period /\ End(p)

Lifecycle(p, s) ==
    IF s.plan = "none" /\ s.state = "CANCELED" THEN Cancelled(s) /\ End(p)
    ELSE IF s.state = "FROZEN" THEN Frozen(p, s) /\ UNCHANGED period /\ End(p)
    ELSE IF s.plan = "none" /\ sub.st = "FROZEN" /\ s.state = "UNFROZEN"
         THEN UnfrozenWithoutContract(p, s) /\ UNCHANGED period /\ End(p)
    ELSE IF s.plan = "none" THEN RecordUnresolved(p, s) /\ UNCHANGED period /\ End(p)
    ELSE IF sub.st # "FROZEN" \/ s.state # "UNFROZEN" THEN Keep /\ UNCHANGED period /\ GoOn(p, "apply")
    ELSE Restore(p, s)

------------------------------------------------------------------------------
\* The delayed job.

Kind(row) ==
    CASE shop.st = "UNINSTALLED" -> IF shop.back THEN "reinstall" ELSE "none"
      [] row.st = "NO_CONTRACT" /\ row.plan = "none" /\ row.pend \in Mapped -> "initial-activation"
      [] ~shop.onboarded \/ row.plan = "none" -> "none"
      [] row.st = "ACTIVE" /\ row.pend \in {"none", "cancel"} -> IF row.per = 0 THEN "cycle-discovery" ELSE "rollover"
      [] row.st \in {"ACTIVE", "SYNC_ERROR"} /\ row.pend \in Mapped /\ row.eff # 0 -> "established-plan-change"
      [] row.st = "FROZEN" -> "frozen-reconciliation"
      [] OTHER -> "none"

\* reconcileJob: the job of a row that is not eligible completes at once.
TakeSyncJob ==
    /\ proc["job"].pc = "idle" /\ syncJob = "queued" /\ Reached(sub.next) /\ syncJob' = "taken"
    /\ LET kind == Kind(sub) IN
       /\ proc' = [proc EXCEPT !["job"] = IF kind = "none" \/ (kind = "cycle-discovery" /\ sub.plan # "free") THEN Idle
                                          ELSE [Idle EXCEPT !.pc = "read", !.kind = kind, !.exp = sub]]
       /\ UNCHANGED <<prov, sub, period, shop, moves>>

\* What the Partner API answers now; a frozen contract may be missing from the answer.
Answers ==
    LET now == [plan |-> prov.plan, cyc |-> IF prov.plan = "none" THEN 0 ELSE prov.cyc, pend |-> prov.pend, ok |-> TRUE,
                ev |-> prov.ev, state |-> prov.state]
        gone == [now EXCEPT !.plan = "none", !.cyc = 0, !.pend = "none"]
        bare == [now EXCEPT !.cyc = 0, !.pend = IF prov.pend = "cancel" THEN "cancel" ELSE "none"]
    IN  {<<now, 0>>} \cup (IF prov.frozen THEN {<<gone, 0>>} ELSE {})
        \cup (IF prov.plan # "none" /\ moves < SyncMoves THEN {<<bare, 1>>, <<[now EXCEPT !.ok = FALSE], 1>>} ELSE {})

JobReads ==
    /\ proc["job"].pc = "read"
    /\ \E a \in Answers :
         /\ moves' = moves + a[2]
         /\ LET kind == proc["job"].kind
                order == kind \notin {"reinstall", "initial-activation"}
                         /\ (a[1].state # "none" \/ kind = "frozen-reconciliation")
            IN  proc' = [proc EXCEPT !["job"].snap = a[1], !["job"].pc = IF order THEN "order" ELSE "apply"]
    /\ UNCHANGED <<prov, sub, period, shop, syncJob>>

FrozenFailure(e) == IF sub.st = "FROZEN" /\ sub.plan = e.plan /\ sub.next = e.next THEN Retry("job", sub) ELSE Keep

\* The read throws: each kind postpones its own row.
JobReadFails(late) ==
    LET e == proc["job"].exp  kind == proc["job"].kind IN
    /\ proc["job"].pc = "read" /\ Move
    /\ CASE kind = "cycle-discovery" -> MissingCycle(e)
         [] kind = "rollover" -> RolloverRetry("job", e)
         [] kind = "established-plan-change" -> PlanChangeRetry(e, FALSE)
         [] kind = "frozen-reconciliation" -> FrozenFailure(e)
         [] kind = "reinstall" -> ReinstallFailure(e, late)
         [] OTHER -> ActivationPostponed(e, late)
    /\ End("job") /\ UNCHANGED <<prov, period, shop>>

JobApplies(late, flushed) ==
    LET e == proc["job"].exp  s == proc["job"].snap  kind == proc["job"].kind IN
    /\ proc["job"].pc = "apply" /\ (flushed \/ moves < SyncMoves)
    /\ moves' = IF flushed THEN moves ELSE moves + 1
    /\ CASE kind \in {"cycle-discovery", "rollover"} -> CycleStep(kind, e, s, flushed) /\ End("job") /\ UNCHANGED shop
         [] kind = "established-plan-change" -> PlanChange("job", e, s) /\ UNCHANGED shop
         [] kind = "reinstall" -> ReinstallStep(e, s) /\ End("job")
         [] kind = "initial-activation" -> InitialActivation("job", e, s, late)
         \* a frozen row the lifecycle left alone meets the fences of the first activation
         [] OTHER -> Keep /\ End("job") /\ UNCHANGED <<period, shop>>
    /\ UNCHANGED prov

------------------------------------------------------------------------------
\* The leased scan of all shops: asks first, reads the row afterwards.

ScanReads ==
    /\ proc["scan"].pc = "idle" /\ shop.st = "ACTIVE"
    /\ \E a \in Answers : /\ moves' = moves + a[2]
                          /\ proc' = [proc EXCEPT !["scan"] = [Idle EXCEPT !.pc = "load", !.snap = a[1]]]
    /\ UNCHANGED <<prov, sub, period, shop, syncJob>>

ScanReadFails ==
    /\ proc["scan"].pc = "idle" /\ shop.st = "ACTIVE" /\ Move
    /\ MarkSyncError /\ End("scan") /\ UNCHANGED <<prov, period, shop>>

ScanLoads ==
    /\ proc["scan"].pc = "load"
    /\ LET order == sub.st # "NO_CONTRACT" /\ (proc["scan"].snap.state # "none" \/ sub.st = "FROZEN") IN
       proc' = [proc EXCEPT !["scan"].exp = sub, !["scan"].pc = IF order THEN "order" ELSE "apply"]
    /\ UNCHANGED <<prov, sub, period, shop, syncJob, moves>>

\* No contract: the row is postponed without a job.
ProviderAbsent(e) == IF sub.next = e.next THEN Save([sub EXCEPT !.next = Fresh("scan")], Never) ELSE Keep

\* The fence of the scan's plan change: the announced change, not the status nor the instant.
SameIntent(e) == sub.plan = e.plan /\ sub.pend = e.pend /\ sub.eff = e.eff
ObservedFailure(e) == IF SameIntent(e) THEN Retry("scan", Failed(sub, "SYNC_ERROR")) ELSE Keep

ExpectedTarget(e, s) ==
    LET r == PlanTransition(sub, s, e.plan) IN
    IF e.cyc # 0 /\ s.cyc = e.cyc THEN ObservedFailure(e) /\ UNCHANGED period /\ End("scan")
    ELSE IF ~Over(e.eff) THEN Keep /\ UNCHANGED period /\ End("scan")
    ELSE IF s.cyc = 0 \/ ~s.ok THEN ObservedFailure(e) /\ UNCHANGED period /\ End("scan")
    ELSE CASE r = "transitioned" -> /\ Save(Serves(sub, s, DrainOf("scan", s.cyc)), DrainOf("scan", s.cyc))
                                    /\ period' = Moved(s) /\ End("scan")
           [] r = "throws" -> Throws("scan")
           [] OTHER -> ObservedFailure(e) /\ UNCHANGED period /\ End("scan")

EstablishedPlanObservation(e, s) ==
    IF s.plan = e.pend THEN ExpectedTarget(e, s)
    ELSE /\ UNCHANGED period /\ End("scan")
         /\ IF s.plan = "x"
            THEN IF SameIntent(e) THEN Save([sub EXCEPT !.plan = "none", !.st = "UNMAPPED", !.next = Never], Never) ELSE Keep
            ELSE ObservedFailure(e)

\* readLockedGenericSubscription
UnchangedRow(e) == [sub EXCEPT !.ev = 0] = [e EXCEPT !.ev = 0]

GenericProjection(e, s) ==
    LET row == [PendingOf(sub, s) EXCEPT !.st = ObservedStatus(s), !.plan = IF Usable(s) THEN s.plan ELSE "none", !.cyc = s.cyc]
    IN  IF ObservedStatus(s) # "ACTIVE" THEN Write([row EXCEPT !.per = 0]) /\ UNCHANGED period
        ELSE IF ~UnchangedRow(e) THEN Keep /\ UNCHANGED period
        ELSE IF s.cyc = 0 THEN Retry("scan", Failed(sub, "SYNC_ERROR")) /\ UNCHANGED period
        ELSE IF ~Compatible(s.cyc, s.plan) THEN Retry("scan", Failed(sub, "STUCK")) /\ UNCHANGED period
        ELSE Write([row EXCEPT !.per = s.cyc]) /\ period' = Opened(s)

\* applySubscription, after the lifecycle events
ScanApplies ==
    LET e == proc["scan"].exp  s == proc["scan"].snap IN
    /\ proc["scan"].pc = "apply"
    /\ IF s.plan = "none" THEN ProviderAbsent(e) /\ End("scan") /\ UNCHANGED <<period, shop>>
       ELSE IF e.st = "NO_CONTRACT" /\ e.plan = "none" /\ e.pend = s.plan
            THEN IF s.plan = "paid" THEN \E late \in BOOLEAN : CompleteVerifiedPaid("scan", e, s, late)
                 ELSE Keep /\ End("scan") /\ UNCHANGED <<period, shop>>
       ELSE /\ UNCHANGED shop
            /\ IF e.plan # "none" /\ e.pend \in Mapped /\ e.eff # 0 /\ s.plan # e.plan THEN EstablishedPlanObservation(e, s)
               ELSE IF s.plan # e.plan THEN GenericProjection(e, s) /\ End("scan")
               ELSE Keep /\ UNCHANGED period /\ GoOn("scan", IF s.cyc # 0 /\ s.cyc = e.cyc THEN "cycle" ELSE "progress")
    /\ UNCHANGED <<prov, moves>>

\* samePlanCurrentCycleReconciliation
ScanCycle ==
    LET e == proc["scan"].exp  s == proc["scan"].snap IN
    /\ proc["scan"].pc = "cycle"
    /\ IF ~(sub.st = e.st /\ sub.plan = e.plan /\ sub.per = e.per /\ sub.cyc = e.cyc /\ sub.next = e.next)
       THEN Keep /\ UNCHANGED period /\ End("scan")
       ELSE IF ~Compatible(s.cyc, s.plan) THEN Retry("scan", Failed(sub, "STUCK")) /\ UNCHANGED period /\ End("scan")
       ELSE /\ Write([sub EXCEPT !.st = ObservedStatus(s), !.per = s.cyc])
            /\ period' = Opened(s) /\ GoOn("scan", "progress")
    /\ UNCHANGED SyncRest

\* samePlanPeriodProgression: the announced change, or the next cycle.
ScanProgress ==
    LET e == proc["scan"].exp  s == proc["scan"].snap
        r == SamePlanRollover(sub, s, e.plan)
        next == IF s.pend \in SyncPlans THEN <<"end", s.cyc>> ELSE NextBoundary(s.cyc)
    IN  /\ proc["scan"].pc = "progress"
        /\ IF ChangesAtEnd(e, s)
           THEN /\ IF sub.plan = e.plan /\ sub.per = e.per /\ sub.next = e.next
                   THEN Save([PendingOf(sub, s) EXCEPT !.next = next], next) ELSE Keep
                /\ UNCHANGED period /\ End("scan")
           ELSE CASE r = "transitioned" -> Save(RolledOver("scan", sub, s), Never) /\ period' = Moved(s) /\ End("scan")
                  [] r = "throws" -> Throws("scan")
                  [] r = "lag" -> RolloverRetry("scan", e) /\ UNCHANGED period /\ End("scan")
                  [] OTHER -> Keep /\ UNCHANGED period /\ End("scan")
        /\ UNCHANGED SyncRest

\* The rows reconstruct() selects; the plan of a row with a period is a mapped one.
Selected(row) ==
    /\ row.next # Never /\ (shop.st = "ACTIVE" \/ shop.back)
    /\ \/ row.pend \in Mapped \/ row.st = "FROZEN" \/ shop.back
       \/ /\ row.st = "ACTIVE" /\ row.plan # "none" /\ row.pend \in {"none", "cancel"}
          /\ row.per # 0 \/ (shop.onboarded /\ row.plan = "free")

\* Mutant: the jobs are not reconstructed.
MutReconstruct == proc["scan"].pc = "reconstruct" /\ GoOn("scan", "idle") /\ Keep /\ UNCHANGED <<period, SyncRest>>
Reconstruct ==
    /\ proc["scan"].pc = "reconstruct" /\ GoOn("scan", "idle")
    /\ IF Selected(sub) THEN Republish ELSE Keep
    /\ UNCHANGED <<period, SyncRest>>

Ordered(p) == proc[p].pc = "order" /\ Ordering(p, proc[p].snap) /\ UNCHANGED SyncRest
Lived(p) == proc[p].pc = "life" /\ Lifecycle(p, proc[p].snap) /\ UNCHANGED SyncRest

------------------------------------------------------------------------------
\* The merchant and the provider (external).

Event(state) == [prov EXCEPT !.ev = @ + 1, !.state = state]
Outside == UNCHANGED <<period, proc>>

\* The web application stores the chosen plan and the instant of the first check.
ChoosePlan(q) ==
    /\ sub.st = "NO_CONTRACT" /\ sub.plan = "none" /\ sub.pend = "none" /\ shop.st = "ACTIVE"
    /\ sub' = [sub EXCEPT !.pend = q, !.next = Fresh("web")] /\ syncJob' = "queued"
    /\ Outside /\ UNCHANGED <<prov, shop, moves>>

Subscribe(q) ==
    /\ Move /\ prov.plan = "none" /\ prov.cyc < MaxCycle
    /\ prov' = [Event("OTHER") EXCEPT !.plan = q, !.cyc = @ + 1, !.phase = "early", !.pend = "none", !.frozen = FALSE]
    /\ Outside /\ UNCHANGED <<sub, syncJob, shop>>

Announce(q) ==
    /\ Move /\ prov.plan # "none" /\ prov.pend # q /\ prov.plan # q /\ ~prov.frozen /\ prov.phase # "over"
    /\ prov' = [prov EXCEPT !.pend = q] /\ Outside /\ UNCHANGED <<sub, syncJob, shop>>

ChangeAtOnce(q) ==
    /\ Move /\ prov.plan # "none" /\ prov.plan # q /\ ~prov.frozen
    /\ prov' = [prov EXCEPT !.plan = q, !.pend = "none"] /\ Outside /\ UNCHANGED <<sub, syncJob, shop>>

Freeze ==
    /\ Move /\ prov.plan # "none" /\ ~prov.frozen /\ prov' = [Event("FROZEN") EXCEPT !.frozen = TRUE]
    /\ Outside /\ UNCHANGED <<sub, syncJob, shop>>
Thaw ==
    /\ prov.frozen /\ prov' = [Event("UNFROZEN") EXCEPT !.frozen = FALSE] /\ UNCHANGED moves
    /\ Outside /\ UNCHANGED <<sub, syncJob, shop>>

CancelContract ==
    /\ Move /\ prov.plan # "none"
    /\ prov' = [Event("CANCELED") EXCEPT !.plan = "none", !.pend = "none", !.frozen = FALSE]
    /\ Outside /\ UNCHANGED <<sub, syncJob, shop>>

\* Uninstalling, and coming back: the web application asks for a reconciliation.
Uninstall ==
    /\ Move /\ shop.st = "ACTIVE" /\ shop' = [shop EXCEPT !.st = "UNINSTALLED"]
    /\ Outside /\ UNCHANGED <<prov, sub, syncJob>>
Reinstall ==
    /\ shop.st = "UNINSTALLED" /\ ~shop.back /\ shop' = [shop EXCEPT !.back = TRUE]
    /\ sub' = [sub EXCEPT !.next = Fresh("web")] /\ syncJob' = "queued"
    /\ Outside /\ UNCHANGED <<prov, moves>>

PhasePasses ==
    /\ prov.cyc # 0 /\ prov.phase # "over"
    /\ prov' = [prov EXCEPT !.phase = IF @ = "early" THEN "drain" ELSE "over"]
    /\ Outside /\ UNCHANGED <<sub, syncJob, shop, moves>>

\* The provider renews late: until then it reports the cycle that is over.
Renew ==
    /\ prov.plan # "none" /\ prov.phase = "over" /\ prov.cyc < MaxCycle /\ ~prov.frozen
    /\ prov' = IF prov.pend = "cancel" THEN [Event("CANCELED") EXCEPT !.plan = "none", !.pend = "none"]
               ELSE [prov EXCEPT !.cyc = @ + 1, !.phase = "early", !.pend = "none",
                                 !.plan = IF prov.pend = "none" THEN @ ELSE prov.pend]
    /\ Outside /\ UNCHANGED <<sub, syncJob, shop, moves>>

\* A job is lost on the way to the queue, or its worker dies and it is delivered again.
LoseJob ==
    /\ Move /\ syncJob = "queued" /\ syncJob' = "none"
    /\ UNCHANGED <<prov, sub, period, shop, proc>>
JobCrashes ==
    /\ Move /\ proc["job"].pc # "idle"
    /\ syncJob' = (IF sub.next = proc["job"].exp.next THEN "queued" ELSE syncJob) /\ proc' = [proc EXCEPT !["job"] = Idle]
    /\ UNCHANGED <<prov, sub, period, shop>>

JobSync ==
    \/ TakeSyncJob
    \/ JobReads
    \/ \E late \in BOOLEAN : JobReadFails(late)
    \/ \E late, flushed \in BOOLEAN : JobApplies(late, flushed)
    \/ Ordered("job")
    \/ Lived("job")

ScanSync == ScanReads \/ ScanReadFails \/ ScanLoads \/ Ordered("scan") \/ Lived("scan") \/ ScanApplies
            \/ ScanCycle \/ ScanProgress \/ Reconstruct

SyncNext ==
    \/ JobSync
    \/ ScanSync
    \/ \E q \in Mapped : ChoosePlan(q)
    \/ \E q \in SyncPlans : Subscribe(q)
    \/ \E q \in SyncPlans \cup {"cancel"} : Announce(q)
    \/ \E q \in SyncPlans : ChangeAtOnce(q)
    \/ Freeze
    \/ Thaw
    \/ CancelContract
    \/ Uninstall
    \/ Reinstall
    \/ PhasePasses
    \/ Renew
    \/ LoseJob
    \/ JobCrashes

\* The leased scheduler runs the scan again and again; the queue delivers a due job; a shop that left comes back.
SyncFairness == WF_syncVars(JobSync) /\ WF_syncVars(ScanSync) /\ WF_syncVars(Reinstall)
SyncSpec == SyncInit /\ [][SyncNext]_syncVars /\ SyncFairness

------------------------------------------------------------------------------
\* The period an active row is served from is open, of the row's plan and of the cycle it shows: the scan may have read the
\* provider before a job rolled the row over, and either may be overtaken between its read and its write.
ServedPeriodIsOpen == sub.st = "ACTIVE" /\ sub.per # 0 => period[sub.per] = sub.plan /\ sub.per = sub.cyc

\* What the credit accounts are promised: see EntitlementPeriods.
Entitlement == INSTANCE EntitlementPeriods
    WITH Periods <- Cycles, at <- sub.per, over <- {k \in Cycles : period[k] = "closed"}
\* Job, scan, events and reinstallation together never attach the row to a closed period, and close a period only in the
\* transaction that leaves it (closeBillingPeriod).
ImplementsEntitlement == Entitlement!EPSpec

\* An older lifecycle event never undoes a newer one, whichever of the two readers comes last.
EventsInOrder == [][sub'.ev >= sub.ev]_syncVars

\* A contract whose latest event, its freeze, is recorded is not served again by a projection that read the provider
\* before the freeze (only a shop that comes back is taken at the provider's word).
FrozenNotServed ==
    [][sub.st = "FROZEN" /\ sub.ev = prov.ev /\ prov.state = "FROZEN" /\ UNCHANGED shop => sub'.st # "ACTIVE"]_syncVars

\* Lifecycle events take effect in their order although job, scan and reinstallation read them apart (reconcile, freeze).
LifecycleInOrder == EventsInOrder /\ FrozenNotServed

Agrees ==
    IF prov.plan = "none" THEN sub.st = "NO_CONTRACT"
    ELSE IF prov.frozen THEN sub.st = "FROZEN"
    ELSE sub.st = "ACTIVE" /\ sub.plan = prov.plan /\ sub.cyc = prov.cyc /\ sub.per = prov.cyc
Reported == sub.st \in {"SYNC_ERROR", "STUCK", "UNMAPPED"} \/ shop.st = "UNINSTALLED"
\* A change of plan nobody had announced is projected by the scan alone, which each retry of the job can overtake.
Unannounced == sub.plan \in Mapped /\ prov.plan \notin {sub.plan, sub.pend, "none"}
\* Once the provider is quiet the projection comes to say what the provider says, or says that it failed: a lost job, a
\* failed read, a late renewal or a job id still taken never leaves it silently wrong.
ProjectionConverges == <>[](Agrees \/ Reported \/ Unannounced)
=============================================================================
