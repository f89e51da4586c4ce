------------------------- MODULE PendingCandidates -------------------------
(***************************************************************************)
(* One Shopify checkout from its first webhook to its recovery: the        *)
(* delayed BullMQ job that waits for the checkout to be abandoned          *)
(* (pending-recovery-candidate/), the Redis aliases by which later events  *)
(* find it, the checkout lock and the order tombstone, the materialization *)
(* of the mature candidate into a CheckoutRecovery generation, and the     *)
(* events that refresh, cancel, complete or expire it.                     *)
(*                                                                         *)
(* Webhooks are redelivered and arrive in any order: an event carries any  *)
(* activity time up to now. What goes wrong is chosen once, in faults.     *)
(***************************************************************************)
EXTENDS Naturals, FiniteSets

CONSTANTS
    MaxTime,        \* bound on the clock
    MaxGeneration,  \* bound on the generations of the checkout
    MaxEvents,      \* bound on the webhooks handled
    JobAttempts,    \* attempts of a job (three in the code)
    Delay,          \* recoveryDelayMinutes, in steps of the clock
    Lifetime,       \* checkoutRecoveryLifetimeDays, likewise
    Updaters,       \* handlers of checkouts/update that may be at work at once
    NoJob

ASSUME CandidateAssumption == /\ MaxTime \in Nat /\ MaxGeneration \in Nat \ {0} /\ MaxEvents \in Nat
                               /\ JobAttempts \in Nat \ {0} /\ Delay \in Nat /\ Lifetime \in Nat

Times == 0 .. MaxTime

Base == <<"base", 0>>
Successor(t) == <<"update", t>>
SuccessorRetry(t) == <<"retry", t>>
JobIds == {Base} \cup {Successor(t) : t \in Times} \cup {SuccessorRetry(t) : t \in Times}
ASSUME NoJobAssumption == NoJob \notin JobIds

VARIABLES
    now,        \* the clock
    events,     \* webhooks handled so far
    faults,     \* the faults this behaviour may show, chosen initially
    job,        \* JobIds -> the BullMQ job
    index,      \* the checkout alias: a job or NoJob
    cartIndex,  \* the cart alias: a job or NoJob
    lock,       \* the job whose worker holds the checkout lock, or NoJob
    run,        \* JobIds -> where the worker of the job stands
    tombstone,  \* the order tombstone is set
    order,      \* none, placed (its webhook not yet handled), handled
    recovery,   \* generation -> the CheckoutRecovery row
    update,     \* Updaters -> the checkouts/update in hand after its first look
    seen,       \* the latest activity accepted (an emptied cart is none)
    crossed     \* an update scheduled a candidate beside an open recovery

candVars == <<now, events, faults, job, index, cartIndex, lock, run,
              tombstone, order, recovery, update, seen, crossed>>

\* updatedAgain: an update carries the time of an earlier one, whose successor
\* was given up by the aliases and still waits to be retried.
Faults == {"lockLapses", "createdAgain", "updatedAgain", "tombstoneLapses", "orderCrashes"}
Emptied == "cartEmptied"    \* the customer may empty the cart: no fault
JobStates == {"none", "delayed", "active", "failed"}
Phases == {"idle", "picked", "checked", "cleanup", "errored"}
\* MESSAGE_SENT stands for ENGAGED too; CANCELLED is CapacityResume's.
Statuses == {"none", "DETECTED", "MESSAGE_SENT", "COMPLETED", "EXPIRED"}
Active == {"DETECTED", "MESSAGE_SENT"}
NoneJob == [state |-> "none", activity |-> 0, cart |-> FALSE, url |-> FALSE, tries |-> 0]
Idle == [phase |-> "idle", url |-> FALSE, gen |-> 0]
NoRecovery == [status |-> "none", activity |-> 0, sent |-> FALSE]
\* Its activity t, whether it names cart and recovery URL (full), and the
\* generation found.
UpdatePhases == {"none", "lookup", "schedule", "record"}
NoUpdate == [phase |-> "none", t |-> 0, full |-> FALSE, gen |-> 0]

CandTypeOK ==
    /\ now \in Times /\ events \in 0 .. MaxEvents /\ faults \subseteq Faults \cup {Emptied}
    /\ job \in [JobIds -> [state : JobStates, activity : Times, cart : BOOLEAN,
                           url : BOOLEAN, tries : 0 .. JobAttempts]]
    /\ index \in JobIds \cup {NoJob} /\ cartIndex \in JobIds \cup {NoJob}
    /\ lock \in JobIds \cup {NoJob}
    /\ run \in [JobIds -> [phase : Phases, url : BOOLEAN, gen : 0 .. MaxGeneration]]
    /\ tombstone \in BOOLEAN /\ order \in {"none", "placed", "handled"}
    /\ recovery \in [1 .. MaxGeneration -> [status : Statuses, activity : Times, sent : BOOLEAN]]
    /\ update \in [Updaters -> [phase : UpdatePhases, t : Times, full : BOOLEAN,
                                 gen : 0 .. MaxGeneration]]
    /\ seen \in Times /\ crossed \in BOOLEAN

CandInit ==
    /\ now = 0 /\ events = 0 /\ seen = 0 /\ crossed = FALSE
    /\ update = [u \in Updaters |-> NoUpdate]
    /\ faults \in SUBSET (Faults \cup {Emptied})
    /\ job = [j \in JobIds |-> NoneJob]
    /\ index = NoJob /\ cartIndex = NoJob /\ lock = NoJob
    /\ run = [j \in JobIds |-> Idle]
    /\ tombstone = FALSE /\ order = "none"
    /\ recovery = [g \in 1 .. MaxGeneration |-> NoRecovery]

MaxOf(a, b) == IF a >= b THEN a ELSE b
Exists(j) == j # NoJob /\ job[j].state # "none"
Generations == {g \in 1 .. MaxGeneration : recovery[g].status # "none"}
\* findLatestRecovery: 0 when there is none.
Latest == IF Generations = {} THEN 0 ELSE CHOOSE g \in Generations : \A h \in Generations : h <= g
LatestStatus == IF Latest = 0 THEN "none" ELSE recovery[Latest].status

-----------------------------------------------------------------------------
(* Aliases and jobs.                                                       *)

\* candidate-index.store upsert and, in the refreshing callers, updateData and
\* changeDelay: the job is (again) delayed until its activity has aged.
Put(j, data) ==
    /\ job' = [job EXCEPT ![j] = data]
    /\ index' = j
    /\ cartIndex' = IF data.cart THEN j ELSE cartIndex

\* lifecycle.resolve: the checkout alias first, the cart alias when it is absent.
Resolve(byCheckout) ==
    LET found == IF byCheckout /\ index # NoJob THEN index ELSE cartIndex IN
    IF Exists(found) THEN found ELSE NoJob

\* lifecycle.cancel: removes the job and the aliases; BullMQ refuses to remove
\* a job a worker has locked.
Removable(j) == job[j].state # "active"
Cancel(j) ==
    /\ Removable(j)
    /\ job' = [job EXCEPT ![j] = NoneJob]
    /\ index' = NoJob
    /\ cartIndex' = IF job[j].cart THEN NoJob ELSE cartIndex

\* The activity a candidate merges with is never moved back.
Merged(j, t) == IF Exists(j) THEN MaxOf(job[j].activity, t) ELSE t

Fresh(t, cart, url) == [state |-> "delayed", activity |-> t, cart |-> cart, url |-> url, tries |-> 0]

\* Activity times an event may carry, so that its candidate can still mature.
Happened == {t \in Times : t <= now /\ t + Delay <= MaxTime}

Event ==
    /\ events < MaxEvents
    /\ events' = events + 1

\* scheduleFromCheckoutCreated: neither the checkout lock nor the tombstone nor
\* an existing recovery is looked at.
CheckoutCreated ==
    /\ Event
    /\ events = 0 \/ "createdAgain" \in faults
    /\ LET old == job[Base] IN
       Put(Base, IF Exists(Base)
                 THEN [old EXCEPT !.activity = Merged(Base, 0), !.cart = TRUE, !.url = TRUE]
                 ELSE Fresh(0, TRUE, TRUE))
    /\ UNCHANGED <<now, faults, lock, run, tombstone, order, recovery, update, seen,
                   crossed>>

\* scheduleFromCheckoutUpdated, under the lock: a delayed job is refreshed, any
\* other gets a successor named after the activity, and the alias moves to it.
Reschedule(t, full) ==
    LET current == IF index # NoJob /\ Exists(index) THEN index
                   ELSE IF Exists(Base) THEN Base ELSE NoJob
        wanted == IF current = NoJob THEN Base ELSE Successor(t)
        target == IF job[wanted].state \in {"none", "delayed"} THEN wanted ELSE SuccessorRetry(t)
        from == IF Exists(target) THEN target ELSE current
        kept(f) == from # NoJob /\ job[from][f]
    IN  IF current # NoJob /\ job[current].state = "delayed"
        THEN Put(current, [job[current] EXCEPT !.activity = Merged(current, t),
                                               !.cart = @ \/ full, !.url = @ \/ full])
        ELSE /\ Exists(target) => "updatedAgain" \in faults
             /\ Put(target, [(IF Exists(target) THEN job[target] ELSE Fresh(t, FALSE, FALSE))
                                 EXCEPT !.activity = Merged(from, t),
                                        !.cart = kept("cart") \/ full, !.url = kept("url") \/ full])

\* handleCheckoutUpdatedContract, whose steps other handlers and workers come
\* between. First, under the lock: a delayed candidate found by its alias is
\* refreshed (candidate-activity.refresh), which ends the event; a stale activity
\* adds what was missing.
RefreshCandidate(j, t, full) ==
    LET data == [job[j] EXCEPT !.cart = @ \/ full, !.url = @ \/ full] IN
    /\ job[j].state = "delayed"
    /\ IF t > job[j].activity THEN Put(j, [data EXCEPT !.activity = t])
       ELSE /\ job' = [job EXCEPT ![j] = data]
            /\ cartIndex' = IF full /\ ~job[j].cart THEN j ELSE cartIndex
            /\ UNCHANGED index

Indexed == IF Exists(index) THEN index ELSE NoJob
UpdateRefreshes(t, full) ==
    /\ Event
    /\ lock = NoJob /\ t \in Happened
    /\ Indexed # NoJob /\ RefreshCandidate(Indexed, t, full)
    /\ seen' = MaxOf(seen, t)
    /\ UNCHANGED <<now, faults, lock, run, tombstone, order, recovery, update, crossed>>

\* A candidate that is not there, or not delayed any more, leaves the event to
\* the latest recovery. (A stale activity of such a candidate changes nothing.)
UpdateMisses(u, t, full) ==
    /\ Event
    /\ update[u].phase = "none" /\ t \in Happened
    /\ Indexed # NoJob => lock = NoJob /\ job[Indexed].state # "delayed" /\ t > job[Indexed].activity
    /\ update' = [update EXCEPT ![u] = [phase |-> "lookup", t |-> t, full |-> full, gen |-> 0]]
    /\ UNCHANGED <<now, faults, job, index, cartIndex, lock, run, tombstone, order,
                   recovery, seen, crossed>>

\* findLatestRecovery, without the lock. An expired recovery lends its cart and
\* URL to the next candidate.
UpdateLookup(u) ==
    /\ update[u].phase = "lookup"
    /\ update' = [update EXCEPT ![u] =
         CASE LatestStatus = "none" -> [@ EXCEPT !.phase = "schedule"]
           [] LatestStatus = "EXPIRED" -> [@ EXCEPT !.phase = "schedule", !.full = TRUE]
           [] LatestStatus \in Active -> [@ EXCEPT !.phase = "record", !.gen = Latest]
           [] OTHER -> NoUpdate]
    /\ UNCHANGED <<now, events, faults, job, index, cartIndex, lock, run, tombstone, order,
                   recovery, seen, crossed>>

EndUpdate(u) == update' = [update EXCEPT ![u] = NoUpdate]

\* The lock again: the tombstone is looked at, the recovery is not.
UpdateSchedule(u) ==
    /\ update[u].phase = "schedule"
    /\ lock = NoJob
    /\ IF tombstone THEN UNCHANGED <<job, index, cartIndex, seen, crossed>>
       ELSE /\ Reschedule(update[u].t, update[u].full)
            /\ seen' = MaxOf(seen, update[u].t)
            /\ crossed' = (crossed \/ LatestStatus \in Active)
    /\ EndUpdate(u)
    /\ UNCHANGED <<now, events, faults, lock, run, tombstone, order, recovery>>

\* recordExternalActivity: a recovery that has expired since does not take it.
UpdateRecord(u) ==
    LET g == update[u].gen  t == update[u].t IN
    /\ update[u].phase = "record"
    /\ lock = NoJob
    /\ IF recovery[g].status \in Active /\ recovery[g].activity < t
       THEN recovery' = [recovery EXCEPT ![g].activity = t] /\ seen' = MaxOf(seen, t)
       ELSE UNCHANGED <<recovery, seen>>
    /\ EndUpdate(u)
    /\ UNCHANGED <<now, events, faults, job, index, cartIndex, lock, run, tombstone,
                   order, crossed>>

\* The handler stops half way, or the lock cannot be had; a redelivery is an
\* event of its own.
UpdateStops(u) ==
    /\ update[u].phase # "none"
    /\ EndUpdate(u)
    /\ UNCHANGED <<now, events, faults, job, index, cartIndex, lock, run, tombstone, order,
                   recovery, seen, crossed>>

\* handleCartActivityContract: the candidate is found by its cart, refreshed by
\* a later activity, cancelled by an empty cart.
CartActivity(t, empty) ==
    /\ Event
    /\ lock = NoJob
    /\ t \in Happened
    /\ empty => Emptied \in faults
    /\ LET j == Resolve(FALSE) IN
       /\ j # NoJob /\ job[j].cart /\ job[j].state = "delayed" /\ t > job[j].activity
       /\ IF empty THEN Cancel(j)
          ELSE Put(j, [job[j] EXCEPT !.activity = t])
    /\ seen' = IF empty THEN seen ELSE MaxOf(seen, t)
    /\ UNCHANGED <<now, faults, lock, run, tombstone, order, recovery, update, crossed>>

-----------------------------------------------------------------------------
(* The order.                                                              *)

PlaceOrder ==
    /\ order = "none"
    /\ order' = "placed"
    /\ UNCHANGED <<now, events, faults, job, index, cartIndex, lock, run, tombstone,
                   recovery, seen, update, crossed>>

\* handleOrderCompleted, under the lock. A candidate is cancelled before the
\* tombstone is written; the cancellation throws on a job a worker holds, and
\* the webhook is delivered again.
CancelForOrder(j) == Cancel(j) /\ UNCHANGED recovery
\* Mutant: only a recovery whose message went out is completed.
MutCompleteForOrder ==
    /\ recovery' = IF LatestStatus = "MESSAGE_SENT"
                   THEN [recovery EXCEPT ![Latest].status = "COMPLETED"] ELSE recovery
    /\ UNCHANGED <<job, index, cartIndex>>
CompleteForOrder ==
    /\ recovery' = IF LatestStatus \in Active
                   THEN [recovery EXCEPT ![Latest].status = "COMPLETED"] ELSE recovery
    /\ UNCHANGED <<job, index, cartIndex>>

\* Mutant: the order is not remembered.
MutMarkOrderProcessed == UNCHANGED tombstone
MarkOrderProcessed == tombstone' = TRUE

OrderCompleted ==
    /\ order = "placed"
    /\ lock = NoJob
    /\ LET j == Resolve(TRUE) IN
       IF j # NoJob THEN CancelForOrder(j) ELSE CompleteForOrder
    /\ MarkOrderProcessed
    /\ order' = "handled"
    /\ UNCHANGED <<now, events, faults, lock, run, seen, update, crossed>>

\* The worker of the webhook stops after the cancellation.
OrderCrashes ==
    /\ "orderCrashes" \in faults
    /\ order = "placed"
    /\ lock = NoJob
    /\ Resolve(TRUE) # NoJob
    /\ CancelForOrder(Resolve(TRUE))
    /\ UNCHANGED <<now, events, faults, lock, run, tombstone, order, seen, update, crossed>>

-----------------------------------------------------------------------------
(* The worker of a mature candidate.                                       *)

\* BullMQ hands a job whose delay has passed to a worker.
Pick(j) ==
    /\ job[j].state = "delayed"
    /\ job[j].activity + Delay <= now
    /\ job' = [job EXCEPT ![j].state = "active"]
    /\ run' = [run EXCEPT ![j] = [phase |-> "picked", url |-> job[j].url, gen |-> 0]]
    /\ UNCHANGED <<now, events, faults, index, cartIndex, lock, tombstone, order,
                   recovery, seen, update, crossed>>

Leave(j, phase) == run' = [run EXCEPT ![j].phase = phase]

\* continueInitialOutreach: what the first message of the latest generation says.
\* A confirmed message ends the evaluation whatever the status of the recovery.
Progress == IF recovery[Latest].sent THEN {"reconciled"} ELSE {"blocked", "held", "needs-preparation"}

\* The generation to start: the detected one again, or the one after an expired
\* one; 0 when the checkout is not to be recovered.
MutNextGeneration == IF Latest = 0 THEN 1
                     ELSE IF LatestStatus = "DETECTED" THEN Latest ELSE Latest + 1
NextGeneration ==
    CASE Latest = 0 -> 1
      [] LatestStatus = "DETECTED" -> Latest
      [] LatestStatus = "EXPIRED" -> Latest + 1
      [] OTHER -> 0

\* Mutant: a job that lost the alias carries on.
MutSuperseded(j) == FALSE
Superseded(j) == index # NoJob /\ index # j

\* materialize up to the decision to start a recovery, under the lock.
MaterializeCheck(j) ==
    /\ run[j].phase = "picked"
    /\ lock = NoJob
    /\ \/ /\ Latest > 0 /\ "reconciled" \in Progress
          /\ recovery' = IF LatestStatus = "DETECTED"
                         THEN [recovery EXCEPT ![Latest].status = "MESSAGE_SENT"] ELSE recovery
          /\ Leave(j, "cleanup") /\ UNCHANGED lock
       \/ /\ Latest > 0 /\ "blocked" \in Progress
          /\ Leave(j, "cleanup") /\ UNCHANGED <<lock, recovery>>
       \/ /\ Latest > 0 /\ "held" \in Progress
          /\ Leave(j, "errored") /\ UNCHANGED <<lock, recovery>>
       \/ /\ Latest > 0 => "needs-preparation" \in Progress
          /\ LET gen == NextGeneration
                 go == gen \in 1 .. MaxGeneration /\ ~tombstone /\ ~Superseded(j) /\ run[j].url IN
             IF go THEN /\ run' = [run EXCEPT ![j].phase = "checked", ![j].gen = gen]
                        /\ lock' = j
             ELSE Leave(j, "cleanup") /\ UNCHANGED lock
          /\ UNCHANGED recovery
    /\ UNCHANGED <<now, events, faults, job, index, cartIndex, tombstone, order, seen,
                   update, crossed>>

\* The lookup at Shopify and the first outreach. The row is inserted unless the
\* generation exists, with the activity of its candidate; the message goes out,
\* or the recovery stays DETECTED (no capacity, recipient suppressed, a failure
\* the job is retried for).
StartRecovery(j, status) ==
    recovery' = [recovery EXCEPT ![run[j].gen] =
        IF @.status \in {"none", "DETECTED"}
        THEN [status |-> status, activity |-> IF @.status = "none" THEN job[j].activity ELSE @.activity,
              sent |-> @.sent \/ status = "MESSAGE_SENT"]
        ELSE @]

Free(j) == lock' = IF lock = j THEN NoJob ELSE lock

LookupFails(j) ==      \* Shopify does not answer: thrown
    /\ run[j].phase = "checked"
    /\ Leave(j, "errored") /\ Free(j)
    /\ UNCHANGED <<now, events, faults, job, index, cartIndex, tombstone, order,
                   recovery, seen, update, crossed>>

\* It finds none, several, a completed one, or its bound; no recipient and no
\* consent end the evaluation like a checkout that is gone.
LookupDiscards(j) ==
    /\ run[j].phase = "checked"
    /\ Leave(j, "cleanup") /\ Free(j)
    /\ UNCHANGED <<now, events, faults, job, index, cartIndex, tombstone, order,
                   recovery, seen, update, crossed>>

Initiate(j, status) ==
    /\ run[j].phase = "checked"
    /\ StartRecovery(j, status)
    /\ \/ Leave(j, "cleanup")
       \/ status = "DETECTED" /\ Leave(j, "errored")
    /\ Free(j)
    /\ UNCHANGED <<now, events, faults, job, index, cartIndex, tombstone, order, seen,
                   update, crossed>>

\* handleCandidateMatured, under the lock, whatever the outcome: the aliases go
\* if they still name this job; the job is removed, or retried after an error.
MutDropAliases(j) == index' = NoJob /\ cartIndex' = IF job[j].cart THEN NoJob ELSE cartIndex
DropAliases(j) ==
    IF index = j THEN index' = NoJob /\ cartIndex' = IF job[j].cart THEN NoJob ELSE cartIndex
    ELSE UNCHANGED <<index, cartIndex>>

\* Mutant: a repeated job is never counted.
MutAfterError(data) == [data EXCEPT !.state = "delayed"]
\* Mutant: the queue repeats a job without a bound.
MutAttempts(data) == [data EXCEPT !.state = "delayed", !.tries = @ + 1]
\* attempts of the queue's options; a failed job is kept.
AfterError(data) ==
    IF data.tries + 1 < JobAttempts THEN [data EXCEPT !.state = "delayed", !.tries = @ + 1]
    ELSE [data EXCEPT !.state = "failed"]

Finish(j) ==
    /\ run[j].phase \in {"cleanup", "errored"}
    /\ lock = NoJob
    /\ DropAliases(j)
    /\ run' = [run EXCEPT ![j] = Idle]
    /\ job' = [job EXCEPT ![j] = IF run[j].phase = "cleanup" THEN NoneJob ELSE AfterError(@)]
    /\ UNCHANGED <<now, events, faults, lock, tombstone, order, recovery, seen, update,
                   crossed>>

-----------------------------------------------------------------------------
(* Time, expiry and faults.                                                *)

Advance ==
    /\ now < MaxTime
    /\ now' = now + 1
    /\ UNCHANGED <<events, faults, job, index, cartIndex, lock, run, tombstone, order,
                   recovery, seen, update, crossed>>

\* expireInactive, one row: the transaction compares status and activity again.
Expire(g) ==
    /\ recovery[g].status \in Active
    /\ recovery[g].activity + Lifetime <= now
    /\ recovery' = [recovery EXCEPT ![g].status = "EXPIRED"]
    /\ UNCHANGED <<now, events, faults, job, index, cartIndex, lock, run, tombstone,
                   order, seen, update, crossed>>

LockLapses ==      \* the ten seconds of the lock are not renewed
    /\ "lockLapses" \in faults
    /\ lock # NoJob
    /\ lock' = NoJob
    /\ UNCHANGED <<now, events, faults, job, index, cartIndex, run, tombstone, order,
                   recovery, seen, update, crossed>>

TombstoneLapses == \* the tombstone is kept for an hour
    /\ "tombstoneLapses" \in faults
    /\ tombstone
    /\ tombstone' = FALSE
    /\ UNCHANGED <<now, events, faults, job, index, cartIndex, lock, run, order,
                   recovery, seen, update, crossed>>

CandWorker(j) ==
    \/ Pick(j) \/ MaterializeCheck(j) \/ LookupFails(j) \/ LookupDiscards(j) \/ Finish(j)
    \/ \E s \in {"MESSAGE_SENT", "DETECTED"} : Initiate(j, s)

CandNext ==
    \/ CheckoutCreated
    \/ \E t \in Times, full \in BOOLEAN :
         UpdateRefreshes(t, full) \/ \E u \in Updaters : UpdateMisses(u, t, full)
    \/ \E u \in Updaters : UpdateLookup(u) \/ UpdateSchedule(u) \/ UpdateRecord(u) \/ UpdateStops(u)
    \/ \E t \in Times, empty \in BOOLEAN : CartActivity(t, empty)
    \/ PlaceOrder \/ OrderCompleted \/ OrderCrashes
    \/ \E j \in JobIds : CandWorker(j)
    \/ \E g \in 1 .. MaxGeneration : Expire(g)
    \/ Advance \/ LockLapses \/ TombstoneLapses

\* The worker process is restarted and BullMQ hands it what is due; time passes.
CandSpec ==
    /\ CandInit /\ [][CandNext]_candVars
    /\ \A j \in JobIds : WF_candVars(CandWorker(j))
    /\ WF_candVars(Advance)

-----------------------------------------------------------------------------
(* Properties.                                                             *)

\* findLatestRecovery stands for the checkout only if every generation before
\* the latest one has expired: a completed or cancelled checkout is never
\* recovered again and no two generations are open, whatever lapses.
OneOpenGeneration ==
    \A g, h \in Generations : g < h => recovery[g].status = "EXPIRED"

\* Once the webhook of the order has been handled no message of a recovery goes
\* out, as long as lock and tombstone last (the comment above
\* handleOrderCompleted): a mature candidate that was already picked finds the
\* tombstone.
OrderStopsOutreach ==
    [][faults \cap {"lockLapses", "tombstoneLapses"} = {} /\ order = "handled"
         => \A g \in 1 .. MaxGeneration : recovery'[g].sent => recovery[g].sent]_candVars

\* A handled order leaves no recovery of its checkout open when no fault occurs:
\* the candidate it cancels instead of the recovery stands beside an open one
\* only where an update scheduled it on a look at the recovery, taken before the
\* lock, that a worker had overtaken meanwhile. Then handleOrderCompleted cancels
\* the candidate and the recovery stays open.
OrderClosesRecovery ==
    faults \subseteq {Emptied} /\ ~crossed /\ order = "handled" => LatestStatus \notin Active

\* No recovery is created before its checkout has been quiet for the recovery
\* delay, although activity may be accepted while the candidate is delayed,
\* picked, retried or replaced by its successor, or by an earlier recovery while
\* it is open (its lifetime is then no shorter than the delay). An update that is
\* still in hand, or that a recovery did not take because it expired in between,
\* is not accepted. A recovery that exists is continued by a retry whatever
\* happened since. A cart that is emptied takes the successor and the alias with
\* it: the candidate it replaced, if a worker has it, is no longer superseded and
\* goes ahead.
QuietBeforeRecovery ==
    [][faults = {} /\ Delay <= Lifetime => \A g \in 1 .. MaxGeneration :
         recovery[g].status = "none" /\ recovery'[g].status # "none" => seen + Delay <= now]_candVars

\* A candidate in its first wait can be found by its checkout: the cleanup of
\* one job does not take the alias of another. (A checkouts/create that comes
\* again, or an update that takes up a successor the aliases have left, can part
\* the alias of the cart from that of the checkout.)
WaitingCandidateIndexed ==
    faults \cap {"createdAgain", "updatedAgain"} = {} =>
      \A j \in JobIds : job[j].state = "delayed" /\ job[j].tries = 0 => Exists(index)

\* Every candidate is evaluated in the end, or kept as failed after its
\* attempts: once the customer is quiet, no job is left waiting or at work.
CandidateSettles == []<>(\A j \in JobIds : job[j].state \in {"none", "failed"})

\* One generation after the other (materialize), none open once an order is handled (handleOrderCompleted), and a candidate
\* that waits is found by whatever comes next, the order included (handleCandidateMatured).
GenerationsInTurn == OneOpenGeneration /\ OrderClosesRecovery /\ WaitingCandidateIndexed
\* Whatever the candidate's job is doing, no outreach after the order and no recovery of a customer who came back in time
\* (handleOrderCompleted, materialize).
OutreachInTime == OrderStopsOutreach /\ QuietBeforeRecovery
=============================================================================
