--------------------------- MODULE OutreachProofs ---------------------------
(***************************************************************************)
(* The first message of a recovery, for any number of attempts, workers,   *)
(* periods, purchases and grants: its transactions are operations of the   *)
(* ledger, it is charged once and only for a message that was sent, and it *)
(* is sent once, unless two workers have served its attempt at once.       *)
(***************************************************************************)
EXTENDS InitialOutreach, LedgerProofs

(***************************************************************************)
(* The worker's record.  At a place of Holding it carries an admission, so *)
(* that what it gives back, or shows to the fence, is a row of its attempt.*)
(***************************************************************************)
Holding == Releasing \cup {"admitted", "revalidate", "deliver", "fence", "send", "compensate"}

WorkerRow == [pc : Places, attempt : Attempts \cup {None}, kind : Kinds,
              key : SourceKeys \cup {None}, period : 0 .. MaxPeriod, post : BOOLEAN,
              checked : BOOLEAN, resumes : BOOLEAN]

GoodWorker(r) ==
    /\ r.attempt = None <=> r.pc = "idle"
    /\ r.key # None => r.key[1] = r.attempt
    /\ r.pc \in Holding => r.key \in SourceKeys /\ r.key[1] = r.attempt

WorkersInv ==
    /\ contract \in Contracts
    /\ paused \in BOOLEAN
    /\ current \in 0 .. MaxPeriod
    /\ worker \in [Workers -> WorkerRow]
    /\ \A w \in Workers : GoodWorker(worker[w])

AttemptRow == [status : AttemptStatuses, message : Messages, usage : BOOLEAN,
               linked : BOOLEAN, coded : BOOLEAN, job : BOOLEAN]
AttemptsInv ==
    /\ attempt \in [Attempts -> AttemptRow]
    /\ dispatched \in [Attempts -> Nat]
    /\ contended \subseteq Attempts

OutreachInv == RowsInv /\ WorkersInv /\ AttemptsInv

-----------------------------------------------------------------------------
(* Every step is a step of the ledger, or leaves it alone.                 *)

\* The source that owns a row finds it under the key of its attempt.
LEMMA RowActsInLedger ==
    ASSUME RowsInv, NEW k \in SourceKeys,
           CommitRow(k) \/ ReleaseRow(k) \/ CompensateRow(k)
    PROVE  Next
<1>1. k[1] \in Attempts /\ (reservation[k].kind = "paid" => k[2] \in Periods)
  BY DEF SourceKeys, RowsInv, RowShape
<1>2. CASE reservation[k].kind = "free"
  BY <1>1, <1>2 DEF CommitRow, ReleaseRow, CompensateRow, OnlyFree, Next, Free, FreeNext
<1>3. CASE reservation[k].kind = "paid"
  BY <1>1, <1>3 DEF CommitRow, ReleaseRow, CompensateRow, OnlyPaid, Next, Paid, PaidNext
<1>4. CASE reservation[k].kind = "purchased"
  BY <1>1, <1>4 DEF CommitRow, ReleaseRow, CompensateRow, OnlyPurchased, Next, Purchased,
     PurchasedNext
<1>5. CASE reservation[k].kind = "promotional"
  BY <1>1, <1>5 DEF CommitRow, ReleaseRow, CompensateRow, OnlyPromotional, Next, Promotional,
     PromotionalNext
<1>6. QED
  BY <1>2, <1>3, <1>4, <1>5 DEF CommitRow, ReleaseRow, CompensateRow

\* A worker's place says which attempt it serves, and what it carries.
LEMMA WorkerFacts ==
    ASSUME WorkersInv, NEW w \in Workers
    PROVE  /\ worker[w] \in WorkerRow
           /\ ~At(w, "idle") => Of(w) \in Attempts
           /\ worker[w].pc \in Holding => worker[w].key \in SourceKeys /\ worker[w].key[1] = Of(w)
BY InitialAssumption DEF WorkersInv, GoodWorker, WorkerRow, At, Of

LEMMA BillingInLedger ==
    ASSUME RowsInv, WorkersInv, NEW w \in Workers, BillingSteps(w)
    PROVE  Next \/ UNCHANGED vars
<1>0. paused \in BOOLEAN
  BY DEF WorkersInv
<1>1. CASE AskPromotional(w)
  <2>1. Of(w) \in Attempts
    BY <1>1, WorkerFacts DEF AskPromotional, At
  <2>2. QED
    BY <1>0, <1>1, <2>1 DEF AskPromotional, Of, OnlyPromotional, Next, Promotional, PromotionalNext
<1>2. CASE AskPaid(w)
  <2>1. Of(w) \in Attempts
    BY <1>2, WorkerFacts DEF AskPaid, At
  <2>2. QED
    BY <1>2, <2>1 DEF AskPaid, Of, OnlyPaid, Next, Paid, PaidNext
<1>3. CASE AskPurchased(w) \/ RevivePurchased(w)
  <2>1. Of(w) \in Attempts
    BY <1>3, WorkerFacts DEF AskPurchased, RevivePurchased, At
  <2>2. QED
    BY <1>3, <2>1 DEF AskPurchased, RevivePurchased, Of, OnlyPurchased, Next, Purchased,
       PurchasedNext
<1>4. CASE AskFree(w) \/ ReviveFree(w)
  <2>1. Of(w) \in Attempts
    BY <1>4, WorkerFacts DEF AskFree, ReviveFree, At
  <2>2. FreePause(w) \in BOOLEAN
    BY DEF FreePause
  <2>3. QED
    BY <1>4, <2>1, <2>2 DEF AskFree, ReviveFree, Of, OnlyFree, Next, Free, FreeNext
<1>5. CASE Release(w)
  <2>1. worker[w].key \in SourceKeys
    BY <1>5, WorkerFacts DEF Release, Holding
  <2>2. QED
    BY <1>5, <2>1, RowActsInLedger DEF Release, ReleaseAdmission
<1>6. QED
  BY <1>1, <1>2, <1>3, <1>4, <1>5 DEF BillingSteps, ReadPolicy, Revalidate, Abandon

LEMMA ShopInLedger ==
    ASSUME ShopSteps
    PROVE  Next \/ UNCHANGED vars
<1>1. ASSUME Periodic PROVE Next
  BY <1>1 DEF Periodic, OnlyPaid, Next, Paid, PaidNext
<1>2. ASSUME Purchases PROVE Next
  BY <1>2 DEF Purchases, OnlyPurchased, Next, Purchased, PurchasedNext
<1>3. ASSUME Campaigns PROVE Next
  BY <1>3 DEF Campaigns, OnlyPromotional, Next, Promotional, PromotionalNext
<1>4. QED
  BY <1>1, <1>2, <1>3 DEF ShopSteps, ContractChanges, PauseChanges, Next

\* The compensation reverses a row through its own source.
LEMMA CompensateInLedger ==
    ASSUME RowsInv, NEW a \in Attempts, Compensate(a)
    PROVE  Next \/ UNCHANGED vars
<1>1. RowsOf(a) \subseteq SourceKeys
  BY DEF RowsOf
<1>2. QED
  BY <1>1, RowActsInLedger DEF Compensate, Reverse

LEMMA StepInLedger ==
    ASSUME RowsInv, WorkersInv, [OutreachNext]_allVars
    PROVE  [Next]_vars
<1>1. ASSUME NEW w \in Workers, OutreachSteps(w) PROVE Next \/ UNCHANGED vars
  <2>1. CASE Settle(w)
    BY <2>1, RowActsInLedger DEF Settle, RowsOf
  <2>2. CASE ReconcileBounce(w)
    <3>1. Of(w) \in Attempts
      BY <2>2, WorkerFacts DEF ReconcileBounce, At
    <3>2. QED
      BY <2>2, <3>1, CompensateInLedger DEF ReconcileBounce
  <2>3. QED
    BY <1>1, <2>1, <2>2
    DEF OutreachSteps, LedgerAlone, Inspect, RevalidateExisting, CheckConsent, MarkFailed,
        MarkBlocked, Prepare, Deliver, TakePermit, RefusePermit, CallProvider, Finalize
<1>2. ASSUME NEW a \in Attempts, Reports(a) PROVE Next \/ UNCHANGED vars
  BY <1>2, CompensateInLedger
  DEF Reports, LedgerAlone, ReportUndeliverable, ReportFailed, ReportDelivered, ReconcileReport
<1>3. QED
  BY <1>1, <1>2, BillingInLedger, ShopInLedger DEF OutreachNext, OutreachActs, allVars

-----------------------------------------------------------------------------
(* The workers keep their shape.                                           *)

\* A step of one worker.
WorkerStep(w) ==
    \E r \in WorkerRow : GoodWorker(r) /\ worker' = [worker EXCEPT ![w] = r]

LEMMA StopIsStep ==
    ASSUME NEW w \in Workers, Stop(w)
    PROVE  WorkerStep(w)
<1>1. Idle \in WorkerRow
  BY TableAssumption DEF Idle, WorkerRow, Places, Kinds
<1>2. GoodWorker(Idle)
  BY DEF Idle, GoodWorker, Holding, Releasing
<1>3. QED
  BY <1>1, <1>2 DEF Stop, WorkerStep

LEMMA GotoIsStep ==
    ASSUME WorkersInv, NEW w \in Workers, ~At(w, "idle"),
           NEW pc \in Places \ {"idle"},
           pc \in Holding => worker[w].pc \in Holding,
           Goto(w, pc)
    PROVE  WorkerStep(w)
<1> DEFINE r == [worker[w] EXCEPT !.pc = pc]
<1>1. worker[w] \in WorkerRow /\ GoodWorker(worker[w])
  BY DEF WorkersInv
<1>2. r \in WorkerRow /\ GoodWorker(r)
  BY <1>1 DEF WorkerRow, GoodWorker, At
<1>3. worker' = [worker EXCEPT ![w] = r]
  BY DEF Goto, WorkersInv
<1>4. QED
  BY <1>2, <1>3 DEF WorkerStep

LEMMA AdmitIsStep ==
    ASSUME WorkersInv, NEW w \in Workers, ~At(w, "idle"),
           NEW kind \in Kinds, NEW k \in SourceKeys, k[1] = Of(w),
           Admit(w, kind, k)
    PROVE  WorkerStep(w)
<1> DEFINE r == [worker[w] EXCEPT !.pc = "admitted", !.kind = kind, !.key = k]
<1>1. worker[w] \in WorkerRow /\ GoodWorker(worker[w])
  BY DEF WorkersInv
<1>2. r \in WorkerRow
  BY <1>1 DEF WorkerRow, Places
<1>3. r.attempt = worker[w].attempt /\ r.pc = "admitted" /\ r.key = k
  BY <1>1 DEF WorkerRow
<1>4. GoodWorker(r)
  BY <1>1, <1>3 DEF GoodWorker, At, Of
<1>5. worker' = [worker EXCEPT ![w] = r]
  BY DEF Admit, WorkersInv
<1>6. QED
  BY <1>2, <1>4, <1>5 DEF WorkerStep

\* Every billing step moves its worker, within its shape.
LEMMA BillingMovesWorker ==
    ASSUME RowsInv, WorkersInv, NEW w \in Workers, BillingSteps(w)
    PROVE  WorkerStep(w)
<1> DEFINE a == worker[w].attempt
<1>0. /\ worker[w] \in WorkerRow /\ GoodWorker(worker[w])
      /\ ~At(w, "idle") => a \in Attempts /\ Of(w) = a
      /\ IncludedPeriod \in 0 .. MaxPeriod
      /\ current \in 0 .. MaxPeriod
  BY WorkerFacts, TableAssumption DEF WorkersInv, IncludedPeriod, Of
<1>1. /\ a \in Attempts => PlainKey(a) \in SourceKeys /\ PlainKey(a)[1] = a
      /\ a \in Attempts /\ current \in Periods =>
            PaidKey(a, current) \in SourceKeys /\ PaidKey(a, current)[1] = a
  BY TableAssumption DEF PlainKey, PaidKey, SourceKeys, Periods
<1>2. ASSUME NEW pc \in Asking \cup {"blocked", "exhausted", "markFailed", "markBlocked"}, ~At(w, "idle"), Goto(w, pc)
      PROVE  WorkerStep(w)
  <2>1. pc \in Places \ {"idle"} /\ pc \notin Holding
    BY DEF Places, Asking, Releasing, Holding
  <2>2. QED
    BY <1>2, <2>1, GotoIsStep
<1>3. ASSUME NEW kind \in {"free", "purchased", "promotional"}, ~At(w, "idle"),
             Admit(w, kind, PlainKey(a))
      PROVE  WorkerStep(w)
  BY <1>0, <1>1, <1>3, AdmitIsStep DEF Kinds
<1>4. CASE ReadPolicy(w)
  <2> DEFINE pc == IF Refused THEN "blocked"
                   ELSE IF contract = "ended" THEN "purchased" ELSE "promotional"
             r == [worker[w] EXCEPT !.pc = pc, !.post = (contract = "ended"),
                                    !.period = IncludedPeriod]
  <2>1. pc \in Places /\ pc # "idle" /\ pc \notin Holding
    BY DEF Places, Asking, Holding, Releasing
  <2>2. r \in WorkerRow /\ r.pc = pc /\ r.attempt = a /\ r.key = worker[w].key
    BY <1>0, <2>1 DEF WorkerRow
  <2>3. GoodWorker(r)
    BY <1>0, <1>4, <2>1, <2>2 DEF GoodWorker, ReadPolicy, At
  <2>4. worker' = [worker EXCEPT ![w] = r]
    BY <1>4 DEF ReadPolicy, WorkersInv
  <2>5. QED
    BY <2>2, <2>3, <2>4 DEF WorkerStep
<1>5. CASE AskPromotional(w)
  BY <1>2, <1>3, <1>5 DEF AskPromotional, At, Asking
<1>6. CASE AskPaid(w)
  <2>1. ASSUME Admit(w, "paid", PaidKey(a, current)) PROVE WorkerStep(w)
    BY <1>0, <1>1, <1>6, <2>1, AdmitIsStep DEF AskPaid, Kinds, At
  <2>2. QED
    BY <1>2, <1>6, <2>1, StopIsStep DEF AskPaid, At, Asking
<1>7. CASE AskPurchased(w)
  BY <1>2, <1>3, <1>7, StopIsStep DEF AskPurchased, ReplayDurable, At, Asking
<1>8. CASE AskFree(w)
  BY <1>2, <1>3, <1>8, StopIsStep DEF AskFree, ReplayDurable, At, Asking
<1>9. CASE ReviveFree(w) \/ RevivePurchased(w)
  BY <1>2, <1>3, <1>9 DEF ReviveFree, RevivePurchased, At, Asking
<1>10. CASE Revalidate(w)
  <2> DEFINE keeps == Keeps(worker[w].kind, worker[w].period)
             pc == CASE Refused \/ (~keeps /\ contract = "ended") -> "releaseBlock"
                     [] ~Refused /\ keeps -> "admitted"
                     [] OTHER -> "releaseAgain"
             r == [worker[w] EXCEPT !.checked = TRUE, !.pc = pc]
  <2>1. pc \in {"releaseBlock", "admitted", "releaseAgain"}
    OBVIOUS
  <2>2. worker' = [worker EXCEPT ![w] = r]
    BY <1>10 DEF Revalidate, WorkersInv
  <2> HIDE DEF pc
  <2>3. r \in WorkerRow /\ r.pc = pc /\ r.attempt = a /\ r.key = worker[w].key
    BY <1>0, <2>1 DEF WorkerRow, Places, Releasing
  <2>4. GoodWorker(r)
    BY <1>0, <1>10, <2>1, <2>3 DEF GoodWorker, Revalidate, At, Holding
  <2>5. QED
    BY <2>2, <2>3, <2>4 DEF WorkerStep
<1>11. CASE Release(w)
  <2>1. worker[w].pc # "releaseStop" =>
           AfterRelease[worker[w].pc] \in {"markFailed", "markBlocked", "policy"}
    BY <1>11 DEF Release, AfterRelease, Releasing
  <2>2. ~At(w, "idle")
    BY <1>11 DEF Release, Releasing, At
  <2>3. QED
    BY <1>2, <1>11, <2>1, <2>2, StopIsStep DEF Release, Asking
<1>12. CASE Abandon(w)
  BY <1>12, StopIsStep DEF Abandon
<1>13. QED
  BY <1>4, <1>5, <1>6, <1>7, <1>8, <1>9, <1>10, <1>11, <1>12 DEF BillingSteps

\* And so does every step of the outreach.
LEMMA OutreachMovesWorker ==
    ASSUME RowsInv, WorkersInv, NEW w \in Workers, OutreachSteps(w)
    PROVE  WorkerStep(w)
<1>0. worker[w] \in WorkerRow /\ GoodWorker(worker[w])
  BY DEF WorkersInv
<1>1. ASSUME NEW pc \in {"settle", "finalize"}, ~At(w, "idle"), Goto(w, pc) PROVE WorkerStep(w)
  BY <1>1, GotoIsStep DEF Places, Holding, Releasing, Asking
<1>2. ASSUME NEW pc \in {"policy"} \cup Holding, worker[w].pc \in Holding \cup {"existing"},
             pc \in Holding => worker[w].pc \in Holding, Goto(w, pc)
      PROVE  WorkerStep(w)
  <2>1. pc \in Places \ {"idle"} /\ ~At(w, "idle")
    BY <1>2 DEF Places, Holding, Releasing, Asking, At
  <2>2. QED
    BY <1>2, <2>1, GotoIsStep DEF Holding, Releasing
<1>3. ASSUME NEW a \in Attempts, Inspect(w, a) PROVE WorkerStep(w)
  <2> DEFINE pc == IF Progress(a) = "confirmed" THEN "settle" ELSE "existing"
             r == [worker[w] EXCEPT !.attempt = a, !.pc = pc,
                                    !.resumes = (Progress(a) = "prepared")]
  <2>1. worker' = [worker EXCEPT ![w] = r]
    BY <1>3 DEF Inspect, WorkersInv
  <2>2. r \in WorkerRow /\ r.pc = pc /\ r.attempt = a /\ r.key = worker[w].key
    BY <1>0 DEF WorkerRow, Places
  <2>3. r.key = None
    BY <1>0, <1>3, <2>2, InitialAssumption
    DEF WorkerRow, GoodWorker, Inspect, At, SourceKeys
  <2>4. pc # "idle" /\ pc \notin Holding
    BY DEF Holding, Releasing
  <2>5. GoodWorker(r)
    BY <2>2, <2>3, <2>4, InitialAssumption DEF GoodWorker
  <2>6. QED
    BY <2>1, <2>2, <2>5 DEF WorkerStep
<1>4. CASE RevalidateExisting(w)
  <2>1. ASSUME NEW k \in RowsOf(Of(w)),
               worker' = [worker EXCEPT
                       ![w].pc = "admitted",
                       ![w].kind = reservation[k].kind,
                       ![w].key = k,
                       ![w].period = IncludedPeriod,
                       ![w].post = contract = "ended"]
        PROVE  WorkerStep(w)
    <3> DEFINE r == [worker[w] EXCEPT !.pc = "admitted", !.kind = reservation[k].kind,
                       !.key = k, !.period = IncludedPeriod, !.post = (contract = "ended")]
    <3>1. k \in SourceKeys /\ k[1] = Of(w) /\ reservation[k].kind \in Kinds
      BY DEF RowsOf, RowsInv, ReservationsTypeOK, Row
    <3>2. IncludedPeriod \in 0 .. MaxPeriod
      BY TableAssumption DEF IncludedPeriod, WorkersInv
    <3>3. /\ r \in WorkerRow /\ r.pc = "admitted" /\ r.attempt = worker[w].attempt
          /\ r.key = k
      BY <1>0, <3>1, <3>2 DEF WorkerRow, Places
    <3>4. GoodWorker(r)
      BY <1>0, <1>4, <3>1, <3>3 DEF GoodWorker, RevalidateExisting, At, Of
    <3>5. worker' = [worker EXCEPT ![w] = r]
      BY <2>1 DEF WorkersInv
    <3>6. QED
      BY <3>3, <3>4, <3>5 DEF WorkerStep
  <2>2. ASSUME Goto(w, "policy") PROVE WorkerStep(w)
    BY <1>2, <1>4, <2>2 DEF RevalidateExisting, At, Holding, Releasing
  <2>3. QED
    BY <1>4, <2>1, <2>2 DEF RevalidateExisting
<1>5. CASE CheckConsent(w)
  BY <1>2, <1>5 DEF CheckConsent, At, Holding, Releasing
<1>6. CASE MarkFailed(w) \/ MarkBlocked(w) \/ Finalize(w) \/ ReconcileBounce(w)
  BY <1>6, StopIsStep DEF MarkFailed, MarkBlocked, Finalize, ReconcileBounce
<1>7. CASE Prepare(w)
  <2>1. Goto(w, "releaseStop") \/ Goto(w, "deliver") \/ Goto(w, "settle") \/ Goto(w, "releaseFail")
    BY <1>7 DEF Prepare, Duplicate
  <2>2. QED
    BY <1>1, <1>2, <1>7, <2>1 DEF Prepare, At, Holding, Releasing
<1>8. CASE Deliver(w)
  <2>1. Goto(w, "releaseStop") \/ Goto(w, "fence") \/ Goto(w, "settle")
    BY <1>8 DEF Deliver, Duplicate
  <2>2. QED
    BY <1>1, <1>2, <1>8, <2>1 DEF Deliver, At, Holding, Releasing
<1>9. CASE TakePermit(w) \/ RefusePermit(w)
  BY <1>2, <1>9 DEF TakePermit, RefusePermit, At, Holding, Releasing
<1>10. CASE CallProvider(w)
  <2>1. Goto(w, "settle") \/ Stop(w) \/ Goto(w, "compensate")
    BY <1>10 DEF CallProvider, ProviderAccepts, ProviderRejects, ProviderBounces, ProviderUnknown
  <2>2. QED
    BY <1>1, <1>2, <1>10, <2>1, StopIsStep DEF CallProvider, At, Holding
<1>11. CASE Settle(w)
  BY <1>1, <1>11 DEF Settle, At
<1>12. QED
  BY <1>3, <1>4, <1>5, <1>6, <1>7, <1>8, <1>9, <1>10, <1>11 DEF OutreachSteps

\* The period never leaves its range, whoever moves the ledger.
LEMMA CurrentStaysInRange ==
    ASSUME current \in 0 .. MaxPeriod, [Next]_vars
    PROVE  current' \in 0 .. MaxPeriod /\ current' >= current
<1>1. current' = current \/ (current' = current + 1 /\ current \in 0 .. MaxPeriod - 1)
  <2>1. CASE Paid
    <3>1. current' = current \/ OpenFirstPeriod \/ Rollover
      BY <2>1 DEF Paid, PaidNext, paidVars, ReservePaid, CommitPaid, ReleasePaid,
         MarkPaidAmbiguous, CompensatePaid, PeriodEnds
    <3>2. ASSUME OpenFirstPeriod PROVE current' = current + 1 /\ current \in 0 .. MaxPeriod - 1
      BY <3>2, TableAssumption DEF OpenFirstPeriod
    <3>3. ASSUME Rollover PROVE current' = current + 1 /\ current \in 0 .. MaxPeriod - 1
      <4>1. current \in 1 .. MaxPeriod - 1 /\ current' = current + 1
        BY <3>3 DEF Rollover
      <4>2. QED
        BY <4>1, TableAssumption
    <3>4. QED
      BY <3>1, <3>2, <3>3
  <2>2. CASE UNCHANGED paidVars
    BY <2>2 DEF paidVars
  <2>3. QED
    BY <2>1, <2>2 DEF Next, vars, Free, Purchased, Refunds, Promotional
<1>2. QED
  BY <1>1, TableAssumption

LEMMA WorkersInvStep ==
    ASSUME RowsInv, WorkersInv, [OutreachNext]_allVars
    PROVE  WorkersInv'
<1>1. current' \in 0 .. MaxPeriod
  BY StepInLedger, CurrentStaysInRange DEF WorkersInv
<1>2. contract' \in Contracts /\ paused' \in BOOLEAN
  <2>1. UNCHANGED policyVars \/ ContractChanges \/ PauseChanges
    <3>1. ASSUME NEW w \in Workers, OutreachSteps(w) PROVE UNCHANGED policyVars
      BY <3>1
      DEF OutreachSteps, LedgerAlone, Inspect, RevalidateExisting, CheckConsent, MarkFailed, MarkBlocked,
          Prepare, Deliver, TakePermit, RefusePermit, CallProvider, Settle, Finalize, ReconcileBounce
    <3>2. ASSUME NEW w \in Workers, BillingSteps(w) PROVE UNCHANGED policyVars
      BY <3>2
      DEF BillingSteps, ReadPolicy, AskPromotional, AskPaid, AskPurchased, AskFree, ReviveFree,
          RevivePurchased, Revalidate, Release, Abandon
    <3>3. ASSUME NEW a \in Attempts, Reports(a) PROVE UNCHANGED policyVars
      BY <3>3 DEF Reports, LedgerAlone, ReportUndeliverable, ReportFailed, ReportDelivered, ReconcileReport
    <3>4. QED
      BY <3>1, <3>2, <3>3 DEF OutreachNext, OutreachActs, allVars, ShopSteps
  <2>2. QED
    BY <2>1 DEF WorkersInv, policyVars, ContractChanges, PauseChanges
<1>3. (\E w \in Workers : WorkerStep(w)) \/ UNCHANGED worker
  BY BillingMovesWorker, OutreachMovesWorker
  DEF OutreachNext, OutreachActs, allVars, Reports, ReportUndeliverable, ReportFailed, ReportDelivered,
      ReconcileReport
<1>4. worker' \in [Workers -> WorkerRow] /\ \A v \in Workers : GoodWorker(worker'[v])
  BY <1>3 DEF WorkersInv, WorkerStep
<1>5. QED
  BY <1>1, <1>2, <1>4 DEF WorkersInv

-----------------------------------------------------------------------------
(* What a step writes in the table.                                        *)

\* A row is set aside: it was absent, or given back.
SetsAside(k, kind) ==
    /\ reservation[k].status \in {"NONE", "RELEASED"}
    /\ \E unit : WriteReserved(k, kind, unit)
\* A held row is given back or charged, a charged one corrected.
Settles(k, status) == reservation[k].status = "RESERVED" /\ WriteStatus(k, status)
Corrects(k) == IsCharged(k) /\ WriteCompensated(k)

LEMMA AfterSetsAside ==
    ASSUME RowsInv, NEW k \in SourceKeys, NEW kind, SetsAside(k, kind)
    PROVE  /\ \A j \in SourceKeys \ {k} : reservation'[j] = reservation[j]
           /\ reservation'[k].status = "RESERVED" /\ reservation'[k].kind = kind
BY DEF SetsAside, WriteReserved, ReservedRow, RowsInv, ReservationsTypeOK

LEMMA AfterSettles ==
    ASSUME RowsInv, NEW k \in SourceKeys, NEW status, Settles(k, status)
    PROVE  /\ \A j \in SourceKeys \ {k} : reservation'[j] = reservation[j]
           /\ reservation'[k].status = status
           /\ reservation'[k].compensated = reservation[k].compensated
           /\ ~reservation[k].compensated
           /\ reservation'[k].kind = reservation[k].kind
BY DEF Settles, WriteStatus, RowsInv, RowShape, ReservationsTypeOK, Row

LEMMA AfterCorrects ==
    ASSUME RowsInv, NEW k \in SourceKeys, Corrects(k)
    PROVE  /\ \A j \in SourceKeys \ {k} : reservation'[j] = reservation[j]
           /\ reservation'[k].status = "COMMITTED"
           /\ reservation'[k].compensated
           /\ reservation'[k].kind = reservation[k].kind
BY DEF Corrects, WriteCompensated, IsCharged, RowsInv, ReservationsTypeOK, Row

LEMMA PlainKeyIs ==
    ASSUME RowsInv, NEW k \in SourceKeys
    PROVE  /\ reservation[k].kind \in {"free", "purchased", "promotional"} => k = PlainKey(k[1])
           /\ reservation[k].kind = "paid" => k = PaidKey(k[1], k[2])
BY DEF SourceKeys, PlainKey, PaidKey, RowsInv, RowShape

\* CommitRow, ReleaseRow and CompensateRow, whatever the source of the row.
LEMMA RowActsWrite ==
    ASSUME RowsInv, NEW k \in SourceKeys
    PROVE  /\ CommitRow(k) => Settles(k, "COMMITTED")
           /\ ReleaseRow(k) => Settles(k, "RELEASED")
           /\ CompensateRow(k) => Corrects(k)
<1>1. CASE reservation[k].kind \in {"free", "purchased", "promotional"}
  <2>1. k = PlainKey(k[1])
    BY <1>1, PlainKeyIs
  <2>2. QED
    BY <1>1, <2>1
    DEF CommitRow, ReleaseRow, CompensateRow, CommitFree, ReleaseFree, CompensateFree,
        CommitPurchased, ReleasePurchased, CompensatePurchased, CommitPromotional,
        ReleasePromotional, CompensatePromotional, Settles, Corrects, Transitions
<1>2. CASE reservation[k].kind = "paid"
  <2>1. k = PaidKey(k[1], k[2])
    BY <1>2, PlainKeyIs
  <2>2. QED
    BY <1>2, <2>1
    DEF CommitRow, ReleaseRow, CompensateRow, CommitPaid, ReleasePaid, CompensatePaid,
        Settles, Corrects, Transitions
<1>3. QED
  BY <1>1, <1>2 DEF CommitRow, ReleaseRow, CompensateRow

\* Where a worker goes, field by field.
Elsewhere(w) == \A v \in Workers \ {w} : worker'[v] = worker[v]

LEMMA AfterGoto ==
    ASSUME WorkersInv, NEW w \in Workers, NEW pc, Goto(w, pc)
    PROVE  /\ Elsewhere(w)
           /\ worker'[w].pc = pc /\ worker'[w].attempt = worker[w].attempt
           /\ worker'[w].key = worker[w].key /\ worker'[w].kind = worker[w].kind
BY DEF Goto, WorkersInv, WorkerRow, Elsewhere

LEMMA AfterStop ==
    ASSUME WorkersInv, NEW w \in Workers, Stop(w)
    PROVE  /\ Elsewhere(w)
           /\ worker'[w].pc = "idle" /\ worker'[w].attempt = None
BY DEF Stop, WorkersInv, Elsewhere, Idle

LEMMA AfterAdmit ==
    ASSUME WorkersInv, NEW w \in Workers, NEW kind, NEW k, Admit(w, kind, k)
    PROVE  /\ Elsewhere(w)
           /\ worker'[w].pc = "admitted" /\ worker'[w].attempt = worker[w].attempt
           /\ worker'[w].key = k /\ worker'[w].kind = kind
BY DEF Admit, WorkersInv, WorkerRow, Elsewhere

LEMMA AfterInspect ==
    ASSUME WorkersInv, NEW w \in Workers, NEW a \in Attempts, Inspect(w, a)
    PROVE  /\ Elsewhere(w)
           /\ worker'[w].pc = IF Progress(a) = "confirmed" THEN "settle" ELSE "existing"
           /\ worker'[w].attempt = a
BY DEF Inspect, WorkersInv, WorkerRow, Elsewhere

LEMMA AfterExisting ==
    ASSUME WorkersInv, NEW w \in Workers, RevalidateExisting(w)
    PROVE  /\ Elsewhere(w)
           /\ worker'[w].attempt = worker[w].attempt
           /\ \/ worker'[w].pc = "policy" /\ RowsOf(Of(w)) = {}
              \/ /\ worker'[w].pc = "admitted"
                 /\ RowsOf(Of(w)) = {worker'[w].key}
                 /\ worker'[w].kind = reservation[worker'[w].key].kind
<1>1. CASE Goto(w, "policy") /\ RowsOf(Of(w)) = {}
  BY <1>1, AfterGoto
<1>2. ASSUME NEW k, RowsOf(Of(w)) = {k},
             worker' = [worker EXCEPT ![w] = [worker[w] EXCEPT
                           !.pc = "admitted", !.kind = reservation[k].kind, !.key = k,
                           !.period = IncludedPeriod, !.post = (contract = "ended")]]
      PROVE  /\ Elsewhere(w)
             /\ worker'[w].attempt = worker[w].attempt
             /\ worker'[w].pc = "admitted" /\ worker'[w].key = k
             /\ worker'[w].kind = reservation[k].kind
  BY <1>2 DEF WorkersInv, WorkerRow, Elsewhere
<1>3. ASSUME NEW k, worker' = [worker EXCEPT
                       ![w].pc = "admitted",
                       ![w].kind = reservation[k].kind,
                       ![w].key = k,
                       ![w].period = IncludedPeriod,
                       ![w].post = contract = "ended"]
      PROVE  worker' = [worker EXCEPT ![w] = [worker[w] EXCEPT
                           !.pc = "admitted", !.kind = reservation[k].kind, !.key = k,
                           !.period = IncludedPeriod, !.post = (contract = "ended")]]
  BY <1>3 DEF WorkersInv
<1>4. QED
  BY <1>1, <1>2, <1>3 DEF RevalidateExisting

LEMMA AfterReadPolicy ==
    ASSUME WorkersInv, NEW w \in Workers, ReadPolicy(w)
    PROVE  /\ Elsewhere(w)
           /\ worker'[w].pc \in {"blocked", "purchased", "promotional"}
           /\ worker'[w].attempt = worker[w].attempt
BY DEF ReadPolicy, WorkersInv, WorkerRow, Elsewhere

LEMMA AfterRevalidate ==
    ASSUME WorkersInv, NEW w \in Workers, Revalidate(w)
    PROVE  /\ Elsewhere(w)
           /\ worker'[w].pc \in {"admitted", "releaseBlock", "releaseAgain"}
           /\ worker'[w].attempt = worker[w].attempt
           /\ worker'[w].key = worker[w].key /\ worker'[w].kind = worker[w].kind
BY DEF Revalidate, WorkersInv, WorkerRow, Elsewhere

(***************************************************************************)
(* A billing step either sets a row of its attempt aside, and then the     *)
(* worker is admitted with it; or releases the row it carries; or writes   *)
(* no row.                                                                 *)
(***************************************************************************)
Admitting(w, k, kind) ==
    /\ worker[w].pc \in Asking /\ k[1] = Of(w)
    /\ SetsAside(k, kind) /\ Admit(w, kind, k)

LEMMA BillingWrites ==
    ASSUME RowsInv, WorkersInv, NEW w \in Workers, BillingSteps(w)
    PROVE  \/ UNCHANGED reservation
           \/ \E k \in SourceKeys, kind \in Sources : Admitting(w, k, kind)
           \/ Release(w) /\ Settles(worker[w].key, "RELEASED")
<1> DEFINE a == worker[w].attempt
           Wrote == \E k \in SourceKeys, kind \in Sources : Admitting(w, k, kind)
<1>1. ~At(w, "idle") => a \in Attempts /\ a = Of(w)
  BY WorkerFacts DEF Of
<1>2. /\ a \in Attempts => PlainKey(a) \in SourceKeys /\ PlainKey(a)[1] = a
      /\ a \in Attempts /\ current \in Periods =>
            PaidKey(a, current) \in SourceKeys /\ PaidKey(a, current)[1] = a
  BY TableAssumption DEF PlainKey, PaidKey, SourceKeys, Periods
<1>3. CASE AskPromotional(w)
  <2>1. ASSUME NEW g \in Grants, ReservePromotional(a, g, paused), Admit(w, "promotional", PlainKey(a))
        PROVE  Wrote
    <3>1. reservation[PlainKey(a)].status \in {"NONE", "RELEASED"}
      BY <1>1, <1>2, <1>3, <2>1, RowFields
      DEF ReservePromotional, PromotionalReserveOutcome, Absent, Reactivable, AskPromotional, At
    <3>2. SetsAside(PlainKey(a), "promotional")
      BY <2>1, <3>1 DEF ReservePromotional, SetsAside
    <3>3. QED
      BY <1>1, <1>2, <1>3, <2>1, <3>2 DEF Admitting, Sources, AskPromotional, At, Asking
  <2>2. QED
    BY <1>3, <2>1 DEF AskPromotional, vars
<1>4. CASE AskPaid(w)
  <2>1. ASSUME ReservePaid(a, current), Admit(w, "paid", PaidKey(a, current))
        PROVE  Wrote
    <3>1. reservation[PaidKey(a, current)].status \in {"NONE", "RELEASED"}
      BY <1>1, <1>2, <1>4, <2>1, RowFields
      DEF ReservePaid, PaidReserveOutcome, Absent, Reactivable, AskPaid, At
    <3>2. SetsAside(PaidKey(a, current), "paid")
      BY <2>1, <3>1 DEF ReservePaid, SetsAside
    <3>3. QED
      BY <1>1, <1>2, <1>4, <2>1, <3>2 DEF Admitting, Sources, AskPaid, At, Asking
  <2>2. QED
    BY <1>4, <2>1 DEF AskPaid, vars
<1>5. CASE AskPurchased(w) \/ RevivePurchased(w)
  <2>1. ASSUME NEW l \in Lots, ReservePurchased(a, l), Admit(w, "purchased", PlainKey(a))
        PROVE  Wrote
    <3>1. reservation[PlainKey(a)].status \in {"NONE", "RELEASED"}
      BY <1>1, <1>2, <1>5, <2>1, RowFields
      DEF ReservePurchased, PurchasedReserveOutcome, Absent, Reactivable, AskPurchased,
          RevivePurchased, At
    <3>2. SetsAside(PlainKey(a), "purchased")
      BY <2>1, <3>1 DEF ReservePurchased, SetsAside
    <3>3. QED
      BY <1>1, <1>2, <1>5, <2>1, <3>2
      DEF Admitting, Sources, AskPurchased, RevivePurchased, At, Asking
  <2>2. QED
    BY <1>5, <2>1 DEF AskPurchased, RevivePurchased, vars
<1>6. CASE AskFree(w) \/ ReviveFree(w)
  <2>1. ASSUME ReserveFree(a, FreePause(w)), Admit(w, "free", PlainKey(a))
        PROVE  Wrote
    <3>1. reservation[PlainKey(a)].status \in {"NONE", "RELEASED"}
      BY <1>1, <1>2, <1>6, <2>1, RowFields
      DEF ReserveFree, FreeReserveOutcome, Absent, Reactivable, AskFree, ReviveFree, At
    <3>2. SetsAside(PlainKey(a), "free")
      BY <2>1, <3>1 DEF ReserveFree, SetsAside
    <3>3. QED
      BY <1>1, <1>2, <1>6, <2>1, <3>2 DEF Admitting, Sources, AskFree, ReviveFree, At, Asking
  <2>2. QED
    BY <1>6, <2>1 DEF AskFree, ReviveFree, vars
<1>7. CASE Release(w)
  <2>1. worker[w].key \in SourceKeys
    BY <1>7, WorkerFacts DEF Release, Holding
  <2>2. QED
    BY <1>7, <2>1, RowActsWrite DEF Release, ReleaseAdmission, vars
<1>8. QED
  BY <1>3, <1>4, <1>5, <1>6, <1>7 DEF BillingSteps, ReadPolicy, Revalidate, Abandon, vars

LEMMA ShopWrites == ShopSteps => UNCHANGED reservation \/ Rollover
BY RefundsWriteNoRow
   DEF ShopSteps, ContractChanges, PauseChanges, vars, Periodic, PeriodEnds, OpenFirstPeriod,
       Purchases, RequestPurchase, PurchaseReported, ActivatePurchase, WithdrawLot, Campaigns,
       SelectGrant, CampaignChanges, ReleaseExpiredSelection, Refunds

LEMMA CompensateWrites ==
    ASSUME RowsInv, NEW a \in Attempts, Compensate(a)
    PROVE  \/ UNCHANGED reservation
           \/ \E k \in RowsOf(a) : Settles(k, "RELEASED") \/ Corrects(k)
BY RowActsWrite DEF Compensate, Reverse, RowsOf, vars

-----------------------------------------------------------------------------
(* The attempts keep their types.                                          *)

AttemptStep(a) ==
    \E r \in AttemptRow : attempt' = [attempt EXCEPT ![a] = r]

\* One attempt moves at a time, and its calls of the provider are counted.
LEMMA AttemptMoves ==
    ASSUME WorkersInv, AttemptsInv, [OutreachNext]_allVars
    PROVE  /\ UNCHANGED attempt \/ \E a \in Attempts : AttemptStep(a)
           /\ \/ UNCHANGED dispatched
              \/ \E w \in Workers : CallProvider(w)
<1>0. \A a \in Attempts : attempt[a] \in AttemptRow
  BY DEF AttemptsInv
<1>1. ASSUME NEW a \in Attempts, NEW m \in Messages, SetMessage(a, m)
      PROVE  AttemptStep(a)
  <2>1. [attempt[a] EXCEPT !.message = m] \in AttemptRow
    BY <1>0 DEF AttemptRow
  <2>2. QED
    BY <1>1, <2>1 DEF SetMessage, AttemptStep, AttemptsInv
<1>2. ASSUME NEW a \in Attempts, NEW m \in Messages, NEW usage \in BOOLEAN,
             CloseFailed(a, m, usage)
      PROVE  AttemptStep(a)
  <2>1. [attempt[a] EXCEPT !.status = "FAILED", !.message = m, !.usage = usage,
                           !.linked = TRUE, !.coded = TRUE] \in AttemptRow
    BY <1>0 DEF AttemptRow, AttemptStatuses
  <2>2. QED
    BY <1>2, <2>1 DEF CloseFailed, AttemptStep
<1>3. ASSUME NEW a \in Attempts, Compensate(a) PROVE AttemptStep(a)
  <2>1. /\ [attempt[a] EXCEPT !.usage = FALSE, !.job = FALSE] \in AttemptRow
        /\ [attempt[a] EXCEPT !.job = FALSE] \in AttemptRow
    BY <1>0 DEF AttemptRow
  <2>2. QED
    BY <1>3, <2>1 DEF Compensate, AttemptStep, AttemptsInv
<1>4. ASSUME NEW w \in Workers, OutreachSteps(w)
      PROVE  /\ UNCHANGED attempt \/ \E a \in Attempts : AttemptStep(a)
             /\ UNCHANGED dispatched \/ CallProvider(w)
  <2>0. ~At(w, "idle") => Of(w) \in Attempts
    BY WorkerFacts
  <2> DEFINE a == Of(w)
  <2>1. CASE MarkFailed(w)
    <3>1. a \in Attempts
      BY <2>0, <2>1 DEF MarkFailed, At
    <3>2. [attempt[a] EXCEPT !.status = "FAILED", !.coded = TRUE] \in AttemptRow
      BY <1>0, <3>1 DEF AttemptRow, AttemptStatuses
    <3>3. attempt' = [attempt EXCEPT ![a] =
                        [attempt[a] EXCEPT !.status = "FAILED", !.coded = TRUE]]
      BY <2>1, <3>1 DEF MarkFailed, AttemptsInv
    <3>4. QED
      BY <2>1, <3>1, <3>2, <3>3 DEF MarkFailed, AttemptStep
  <2>2. CASE MarkBlocked(w)
    <3> DEFINE r == [attempt[a] EXCEPT !.status = "CAPACITY_BLOCKED",
                                       !.coded = attempt[a].coded \/ worker[w].checked]
    <3>1. a \in Attempts
      BY <2>0, <2>2 DEF MarkBlocked, At
    <3>2. r \in AttemptRow
      BY <1>0, <3>1 DEF AttemptRow, AttemptStatuses
    <3>3. attempt' = [attempt EXCEPT ![a] = r]
      BY <2>2, <3>1 DEF MarkBlocked, AttemptsInv
    <3>4. QED
      BY <2>2, <3>1, <3>2, <3>3 DEF MarkBlocked, AttemptStep
  <2>3. CASE Prepare(w)
    <3>1. a \in Attempts
      BY <2>0, <2>3 DEF Prepare, At
    <3>2. [attempt[a] EXCEPT !.message = "prepared", !.usage = TRUE] \in AttemptRow
      BY <1>0, <3>1 DEF AttemptRow, Messages
    <3>3. UNCHANGED attempt
            \/ attempt' = [attempt EXCEPT ![a] =
                             [attempt[a] EXCEPT !.message = "prepared", !.usage = TRUE]]
      BY <2>3, <3>1 DEF Prepare, AttemptsInv
    <3>4. QED
      BY <2>3, <3>1, <3>2, <3>3 DEF Prepare, AttemptStep
  <2>4. CASE TakePermit(w)
    BY <1>1, <2>0, <2>4 DEF TakePermit, At, Messages
  <2>5. CASE RefusePermit(w)
    BY <1>2, <2>0, <2>5 DEF RefusePermit, At, Messages
  <2>6. CASE CallProvider(w)
    BY <1>1, <1>2, <2>0, <2>6
    DEF CallProvider, ProviderAccepts, ProviderRejects, ProviderBounces, ProviderUnknown, At,
        Messages
  <2>7. CASE Finalize(w)
    <3>1. a \in Attempts
      BY <2>0, <2>7 DEF Finalize, At
    <3>2. [attempt[a] EXCEPT !.status = "WAITING_FOR_RESPONSE", !.linked = TRUE] \in AttemptRow
      BY <1>0, <3>1 DEF AttemptRow, AttemptStatuses
    <3>3. attempt' = [attempt EXCEPT ![a] =
             [attempt[a] EXCEPT !.status = "WAITING_FOR_RESPONSE", !.linked = TRUE]]
      BY <2>7, <3>1 DEF Finalize, AttemptsInv
    <3>4. QED
      BY <2>7, <3>1, <3>2, <3>3 DEF Finalize, AttemptStep
  <2>8. CASE ReconcileBounce(w)
    BY <1>3, <2>0, <2>8 DEF ReconcileBounce, At
  <2>9. QED
    BY <1>4, <2>1, <2>2, <2>3, <2>4, <2>5, <2>6, <2>7, <2>8
    DEF OutreachSteps, OutreachAlone, outreachVars, Inspect, RevalidateExisting, CheckConsent,
        Deliver, Settle
<1>5. ASSUME NEW a \in Attempts, Reports(a) PROVE AttemptStep(a) /\ UNCHANGED dispatched
  <2>1. CASE ReportUndeliverable(a)
    <3> DEFINE waiting == attempt[a].status = "WAITING_FOR_RESPONSE" /\ attempt[a].linked
               r == [attempt[a] EXCEPT
                        !.message = "undeliverable",
                        !.status = IF waiting THEN "FAILED" ELSE attempt[a].status,
                        !.coded = attempt[a].coded \/ waiting,
                        !.job = TRUE]
    <3>1. r \in AttemptRow
      BY <1>0 DEF AttemptRow, AttemptStatuses, Messages
    <3>2. QED
      BY <2>1, <3>1 DEF ReportUndeliverable, AttemptStep
  <2>2. CASE ReportFailed(a) \/ ReportDelivered(a)
    BY <1>1, <2>2 DEF ReportFailed, ReportDelivered, Messages
  <2>3. QED
    BY <1>3, <1>5, <2>1, <2>2 DEF Reports, ReportUndeliverable, ReconcileReport
<1>6. QED
  BY <1>4, <1>5 DEF OutreachNext, OutreachActs, allVars, outreachVars, OutreachAlone

LEMMA AttemptsInvStep ==
    ASSUME WorkersInv, AttemptsInv, [OutreachNext]_allVars
    PROVE  AttemptsInv'
<1>1. attempt' \in [Attempts -> AttemptRow]
  BY AttemptMoves DEF AttemptStep, AttemptsInv
<1>2. dispatched' \in [Attempts -> Nat]
  <2>1. ASSUME NEW w \in Workers, CallProvider(w) PROVE dispatched' \in [Attempts -> Nat]
    BY <2>1, WorkerFacts DEF CallProvider, At, AttemptsInv
  <2>2. QED
    BY <2>1, AttemptMoves DEF AttemptsInv
<1>3. contended' \subseteq Attempts
  BY DEF AttemptsInv, OutreachNext, allVars, Shared
<1>4. QED
  BY <1>1, <1>2, <1>3 DEF AttemptsInv

LEMMA OutreachInvInit == OutreachInit => OutreachInv
<1> SUFFICES ASSUME OutreachInit PROVE OutreachInv
  OBVIOUS
<1>1. Idle \in WorkerRow /\ GoodWorker(Idle)
  BY TableAssumption DEF Idle, WorkerRow, Places, Kinds, GoodWorker, Holding, Releasing
<1>2. current \in 0 .. MaxPeriod
  BY TableAssumption DEF OutreachInit, Init, PaidInit
<1>3. WorkersInv
  BY <1>1, <1>2, ContractAssumption DEF OutreachInit, BillingInit, WorkersInv
<1>4. AttemptsInv
  BY DEF OutreachInit, AttemptsInv, AttemptRow, AttemptStatuses, Messages
<1>5. QED
  BY <1>3, <1>4, RowsInvInit DEF OutreachInv, OutreachInit

LEMMA OutreachInvStep ==
    ASSUME OutreachInv, [OutreachNext]_allVars
    PROVE  OutreachInv' /\ [Next]_vars
BY StepInLedger, WorkersInvStep, RowsInvStep, AttemptsInvStep DEF OutreachInv

LEMMA OutreachInvariant == OutreachSpec => []OutreachInv
BY OutreachInvInit, OutreachInvStep, PTL DEF OutreachSpec

(***************************************************************************)
(* The outreach implements the ledger: each of its transactions is one     *)
(* operation of the credit services on one source, or none, so everything  *)
(* proved about the ledger holds of the rows of an outreach.               *)
(***************************************************************************)
THEOREM OutreachImplementsLedger == OutreachSpec => ImplementsLedger
<1>1. OutreachInit => Init
  BY DEF OutreachInit
<1>2. OutreachInv /\ [OutreachNext]_allVars => [Next]_vars
  BY OutreachInvStep
<1>3. QED
  BY <1>1, <1>2, OutreachInvariant, PTL DEF OutreachSpec, ImplementsLedger, Spec

(***************************************************************************)
(* Type correctness of the outreach, for any number of attempts and        *)
(* workers: a worker's key is always one of its own attempt, and the       *)
(* counters of the ledger under it never become negative.                  *)
(***************************************************************************)
THEOREM OutreachTyped == OutreachSpec => []OutreachTypeOK
<1>1. OutreachInv /\ TypeOK => OutreachTypeOK
  BY DEF OutreachInv, WorkersInv, AttemptsInv, WorkerRow, GoodWorker, AttemptRow,
         BillingTypeOK, OutreachTypeOK
<1>2. QED
  BY <1>1, OutreachInvariant, OutreachImplementsLedger, LedgerTyped, PTL DEF ImplementsLedger

(***************************************************************************)
(* Under the workers, the counters of the four sources stay exact and      *)
(* within their grants, whatever a worker does between two of its steps.   *)
(***************************************************************************)
THEOREM OutreachAccounts == OutreachSpec => [](CreditsAccounted /\ LotsBackRows /\ PeriodsClose)
BY OutreachImplementsLedger, EveryCreditAccounted, LotsAlwaysBackRows, PeriodsAlwaysClose, PTL
   DEF ImplementsLedger

-----------------------------------------------------------------------------
(* One charge, for a message that was sent.                                *)

\* A set whose members are all the same has at most one.
LEMMA AtMostOne ==
    ASSUME NEW S, \A x, y \in S : x = y
    PROVE  Cardinality(S) <= 1
<1>1. CASE S = {}
  BY <1>1, FS_EmptySet
<1>2. ASSUME NEW x \in S PROVE Cardinality(S) <= 1
  <2>1. S = {x}
    BY <1>2
  <2>2. QED
    BY <2>1, FS_Singleton
<1>3. QED
  BY <1>1, <1>2

(***************************************************************************)
(* The inductive invariant.  Between the charge and the report that        *)
(* reverses it the message stays one that WhatsApp accepted, and the       *)
(* attempt can still be traced from it, so that the message is never       *)
(* prepared anew over a charge.                                            *)
(***************************************************************************)
Received == {"sent", "delivered", "undeliverable", "failed", "contradicted"}
Settled(a) == \E k \in RowsOf(a) : reservation[k].status = "COMMITTED"

ChargeFine(a) ==
    /\ \A j, k \in RowsOf(a) : IsCharged(j) /\ IsCharged(k) => j = k
    /\ \A k \in RowsOf(a) : IsCharged(k) => Message(a) \in Received /\ Traceable(a)
    /\ attempt[a].status = "WAITING_FOR_RESPONSE" => Settled(a)

ChargeInv ==
    /\ \A a \in Attempts : ChargeFine(a)
    /\ \A w \in Workers : At(w, "finalize") => Settled(Of(w))

\* Only Settle charges: every other step leaves the charged rows of the
\* attempts, or fewer.
NoNewCharge == \A k \in SourceKeys : IsCharged(k)' => IsCharged(k)

LEMMA NoNewChargeFrom ==
    ASSUME RowsInv,
           \/ UNCHANGED reservation
           \/ \E k \in SourceKeys : \/ \E kind : SetsAside(k, kind)
                                    \/ Settles(k, "RELEASED")
                                    \/ Corrects(k)
           \/ Rollover
    PROVE  NoNewCharge
<1>1. CASE UNCHANGED reservation
  BY <1>1 DEF NoNewCharge, IsCharged
<1>2. ASSUME NEW k \in SourceKeys, NEW kind, SetsAside(k, kind) PROVE NoNewCharge
  BY <1>2, AfterSetsAside DEF NoNewCharge, IsCharged
<1>3. ASSUME NEW k \in SourceKeys, Settles(k, "RELEASED") PROVE NoNewCharge
  BY <1>3, AfterSettles DEF NoNewCharge, IsCharged
<1>4. ASSUME NEW k \in SourceKeys, Corrects(k) PROVE NoNewCharge
  BY <1>4, AfterCorrects DEF NoNewCharge, IsCharged
<1>5. CASE Rollover
  <2>1. \A k \in SourceKeys :
          reservation'[k] = IF k \in HeldIn(current)
                            THEN [reservation[k] EXCEPT !.status = "RELEASED"]
                            ELSE reservation[k]
    BY <1>5 DEF Rollover
  <2>2. \A k \in SourceKeys : reservation[k] \in Row
    BY DEF RowsInv, ReservationsTypeOK
  <2>3. QED
    BY <2>1, <2>2 DEF NoNewCharge, IsCharged, Row
<1>6. QED
  BY <1>1, <1>2, <1>3, <1>4, <1>5

\* A committed row keeps its attempt settled for good.
LEMMA SettledForGood ==
    ASSUME RowsInv, [Next]_vars, NEW a, Settled(a)
    PROVE  Settled(a)'
BY ChargesKeptStep DEF ChargesKept, Settled, RowsOf

\* What keeps an attempt fine without a new charge.
LEMMA ChargeFineFrom ==
    ASSUME RowsInv, [Next]_vars, NoNewCharge, NEW a \in Attempts, ChargeFine(a),
           \/ Message(a)' \in Received /\ Traceable(a)'
           \/ Message(a) \notin Received
           \/ ~Traceable(a)
           \/ \A k \in RowsOf(a) : ~IsCharged(k)',
           attempt'[a].status = "WAITING_FOR_RESPONSE" =>
               attempt[a].status = "WAITING_FOR_RESPONSE" \/ Settled(a)
    PROVE  ChargeFine(a)'
<1>1. \A k \in RowsOf(a)' : IsCharged(k)' => k \in RowsOf(a) /\ IsCharged(k)
  BY DEF NoNewCharge, RowsOf, IsCharged
<1>2. attempt'[a].status = "WAITING_FOR_RESPONSE" => Settled(a)'
  BY SettledForGood DEF ChargeFine
<1>3. QED
  BY <1>1, <1>2 DEF ChargeFine

\* The message of a charged attempt stays received and traceable, or its
\* charge is reversed; only Finalize makes an attempt wait.
Accounted(a) ==
    /\ \/ Message(a)' \in Received /\ Traceable(a)'
       \/ Message(a) \notin Received
       \/ ~Traceable(a)
       \/ \A k \in RowsOf(a) : ~IsCharged(k)'
    /\ attempt'[a].status = "WAITING_FOR_RESPONSE" =>
           attempt[a].status = "WAITING_FOR_RESPONSE" \/ Settled(a)

LEMMA AccountedFrame ==
    ASSUME NEW a, attempt'[a] = attempt[a]
    PROVE  Accounted(a)
BY DEF Accounted, Message, Traceable

LEMMA CompensateAccounts ==
    ASSUME RowsInv, AttemptsInv, NEW b \in Attempts, Compensate(b), NEW a \in Attempts
    PROVE  Accounted(a)
<1>1. CASE a # b
  BY <1>1, AccountedFrame DEF Compensate, AttemptsInv
<1>2. CASE a = b /\ Message(b) \in {"undeliverable", "bounced"} /\ Traceable(b)
  <2>1. PICK k \in RowsOf(b) : RowsOf(b) = {k} /\ Reverse(k)
    BY <1>2 DEF Compensate
  <2>2. k \in SourceKeys
    BY DEF RowsOf
  <2>3. \/ Settles(k, "RELEASED")
        \/ Corrects(k)
        \/ (reservation[k].status = "RELEASED" \/ reservation[k].compensated) /\ UNCHANGED vars
    BY <2>1, <2>2, RowActsWrite DEF Reverse
  <2>4. ~IsCharged(k)'
    BY <2>2, <2>3, AfterSettles, AfterCorrects DEF IsCharged, vars
  <2>5. attempt'[a].status = attempt[a].status
    BY <1>2 DEF Compensate, AttemptsInv, AttemptRow
  <2>6. QED
    BY <1>2, <2>1, <2>4, <2>5 DEF Accounted
<1>3. CASE a = b /\ (Message(b) \notin {"undeliverable", "bounced"} \/ ~Traceable(b))
  <2>1. /\ attempt'[a].status = attempt[a].status
        /\ attempt'[a].message = attempt[a].message
        /\ attempt'[a].linked = attempt[a].linked
        /\ Message(b) \notin {"undeliverable", "bounced"} => attempt'[a].usage = attempt[a].usage
    BY <1>3 DEF Compensate, AttemptsInv, AttemptRow
  <2>2. QED
    BY <1>3, <2>1 DEF Accounted, Message, Traceable
<1>4. QED
  BY <1>1, <1>2, <1>3

LEMMA StepAccounts ==
    ASSUME OutreachInv, ChargeInv, [OutreachNext]_allVars, NEW a \in Attempts
    PROVE  Accounted(a)
<1>0. /\ \A b \in Attempts : attempt[b] \in AttemptRow
      /\ RowsInv /\ WorkersInv /\ AttemptsInv
  BY DEF OutreachInv, AttemptsInv
<1>1. ASSUME NEW w \in Workers, OutreachSteps(w) PROVE Accounted(a)
  <2> DEFINE b == Of(w)
  <2>0. ~At(w, "idle") => b \in Attempts
    BY <1>0, WorkerFacts
  <2>1. CASE UNCHANGED attempt
    BY <2>1, AccountedFrame
  <2>2. CASE MarkFailed(w) \/ MarkBlocked(w)
    <3>1. b \in Attempts
      BY <2>0, <2>2 DEF MarkFailed, MarkBlocked, At
    <3>2. /\ attempt'[b].status # "WAITING_FOR_RESPONSE"
          /\ attempt'[b].message = attempt[b].message
          /\ attempt'[b].linked = attempt[b].linked /\ attempt'[b].usage = attempt[b].usage
          /\ a # b => attempt'[a] = attempt[a]
      BY <1>0, <2>2, <3>1 DEF MarkFailed, MarkBlocked, AttemptRow, AttemptsInv
    <3>3. QED
      BY <3>2, AccountedFrame DEF Accounted, Message, Traceable
  <2>3. CASE Prepare(w)
    <3>1. b \in Attempts
      BY <2>0, <2>3 DEF Prepare, At
    <3>2. ASSUME attempt' = [attempt EXCEPT ![b].message = "prepared", ![b].usage = TRUE],
                 ~Exists(b), Open(b)
          PROVE  Accounted(a)
      <4>1. attempt'[b].status = attempt[b].status /\ (a # b => attempt'[a] = attempt[a])
        BY <1>0, <3>1, <3>2 DEF AttemptRow, AttemptsInv
      <4>2. ~Traceable(b)
        BY <3>2 DEF Exists, Open, Traceable
      <4>3. QED
        BY <4>1, <4>2, AccountedFrame DEF Accounted
    <3>3. QED
      BY <2>1, <2>3, <3>2 DEF Prepare
  <2>4. CASE TakePermit(w) \/ RefusePermit(w) \/ CallProvider(w)
    <3>1. b \in Attempts
      BY <2>0, <2>4 DEF TakePermit, RefusePermit, CallProvider, At
    <3>2. UNCHANGED attempt \/
          /\ Message(b) \in {"prepared", "admitted"}
          /\ \E m : SetMessage(b, m) \/ \E usage : CloseFailed(b, m, usage)
      BY <2>4
      DEF TakePermit, RefusePermit, CallProvider, ProviderAccepts, ProviderRejects,
          ProviderBounces, ProviderUnknown
    <3>3. ASSUME NEW m, SetMessage(b, m) \/ \E usage : CloseFailed(b, m, usage)
          PROVE  /\ attempt'[b].status \in {attempt[b].status, "FAILED"}
                 /\ a # b => attempt'[a] = attempt[a]
      <4>1. CASE SetMessage(b, m)
        BY <1>0, <3>1, <4>1 DEF SetMessage, AttemptRow, AttemptsInv
      <4>2. CASE \E usage : CloseFailed(b, m, usage)
        BY <1>0, <3>1, <4>2 DEF CloseFailed, AttemptRow, AttemptsInv
      <4>3. QED
        BY <3>3, <4>1, <4>2
    <3>4. QED
      BY <2>1, <3>2, <3>3, AccountedFrame DEF Accounted, Received
  <2>5. CASE Finalize(w)
    <3>1. b \in Attempts /\ Settled(b)
      BY <2>0, <2>5 DEF Finalize, At, ChargeInv
    <3>2. /\ attempt'[b].message = attempt[b].message /\ attempt'[b].linked
          /\ a # b => attempt'[a] = attempt[a]
      BY <1>0, <2>5, <3>1 DEF Finalize, AttemptRow, AttemptsInv
    <3>3. QED
      BY <3>1, <3>2, AccountedFrame DEF Accounted, Message, Traceable
  <2>6. CASE ReconcileBounce(w)
    BY <1>0, <2>0, <2>6, CompensateAccounts DEF ReconcileBounce, At
  <2>7. QED
    BY <1>1, <2>1, <2>2, <2>3, <2>4, <2>5, <2>6
    DEF OutreachSteps, OutreachAlone, outreachVars, Inspect, RevalidateExisting, CheckConsent,
        Deliver, Settle
<1>2. ASSUME NEW b \in Attempts, Reports(b) PROVE Accounted(a)
  <2>1. CASE ReconcileReport(b)
    BY <1>0, <2>1, CompensateAccounts DEF ReconcileReport
  <2>2. CASE ReportUndeliverable(b) \/ ReportFailed(b) \/ ReportDelivered(b)
    <3>1. /\ attempt'[b].status \in {attempt[b].status, "FAILED"}
          /\ attempt'[b].message \in Received
          /\ attempt'[b].linked = attempt[b].linked /\ attempt'[b].usage = attempt[b].usage
          /\ a # b => attempt'[a] = attempt[a]
      <4>1. CASE ReportUndeliverable(b)
        BY <1>0, <4>1 DEF ReportUndeliverable, AttemptRow, AttemptsInv, Received
      <4>2. ASSUME NEW m \in Received, SetMessage(b, m)
            PROVE  /\ attempt'[b] = [attempt[b] EXCEPT !.message = m]
                   /\ a # b => attempt'[a] = attempt[a]
        BY <1>0, <4>2 DEF SetMessage, AttemptsInv
      <4>3. (\E m \in Received : SetMessage(b, m)) \/ ReportUndeliverable(b)
        BY <2>2 DEF ReportFailed, ReportDelivered, Received
      <4>4. QED
        BY <1>0, <4>1, <4>2, <4>3 DEF AttemptRow
    <3>2. QED
      BY <3>1, AccountedFrame DEF Accounted, Message, Traceable
  <2>3. QED
    BY <1>2, <2>1, <2>2 DEF Reports
<1>3. QED
  BY <1>1, <1>2, AccountedFrame DEF OutreachNext, OutreachActs, allVars, outreachVars, OutreachAlone

LEMMA ChargeFineStep ==
    ASSUME OutreachInv, ChargeInv, [OutreachNext]_allVars, NEW a \in Attempts
    PROVE  ChargeFine(a)'
<1>0. /\ RowsInv /\ WorkersInv /\ AttemptsInv /\ ChargeFine(a)
      /\ [Next]_vars
  BY OutreachInvStep DEF OutreachInv, ChargeInv
<1>1. ASSUME NoNewCharge PROVE ChargeFine(a)'
  BY <1>0, <1>1, StepAccounts, ChargeFineFrom DEF Accounted
<1>2. ASSUME NEW w \in Workers, Settle(w) PROVE ChargeFine(a)'
  <2>1. PICK k \in RowsOf(Of(w)) :
           /\ Settleable(Of(w), k)
           /\ CommitRow(k) \/ (IsCharged(k) /\ UNCHANGED vars)
    BY <1>2 DEF Settle
  <2>2. k \in SourceKeys /\ k[1] = Of(w)
    BY DEF RowsOf
  <2>3. CASE UNCHANGED vars
    BY <1>0, <1>1, <2>3, NoNewChargeFrom DEF vars
  <2>4. CASE CommitRow(k)
    <3>1. Settles(k, "COMMITTED")
      BY <1>0, <2>2, <2>4, RowActsWrite
    <3>2. UNCHANGED attempt
      BY <1>2 DEF Settle, OutreachAlone, outreachVars
    <3>3. CASE a # Of(w)
      <4>1. \A j \in SourceKeys : j[1] = a => reservation'[j] = reservation[j]
        BY <1>0, <2>2, <3>1, <3>3, AfterSettles
      <4>2. RowsOf(a)' = RowsOf(a) /\ \A j \in RowsOf(a) : reservation'[j] = reservation[j]
        BY <4>1 DEF RowsOf
      <4>3. QED
        BY <1>0, <3>2, <4>2 DEF ChargeFine, Settled, IsCharged, Message, Traceable
    <3>4. CASE a = Of(w)
      <4>1. RowsOf(a) = {k} /\ Confirmed(a) /\ Traceable(a)
        BY <2>1, <3>4 DEF Settleable
      <4>2. RowsOf(a)' = {k}
        BY <1>0, <2>2, <3>1, <4>1, AfterSettles DEF RowsOf
      <4>3. reservation'[k].status = "COMMITTED"
        BY <1>0, <2>2, <3>1, AfterSettles
      <4>4. Message(a)' \in Received /\ Traceable(a)'
        BY <3>2, <4>1 DEF Confirmed, Message, Traceable, Received
      <4>5. QED
        BY <4>2, <4>3, <4>4 DEF ChargeFine, Settled
    <3>5. QED
      BY <3>3, <3>4
  <2>5. QED
    BY <2>1, <2>3, <2>4
<1>3. ASSUME NEW w \in Workers, ReconcileBounce(w) PROVE NoNewCharge
  BY <1>0, <1>3, CompensateWrites, NoNewChargeFrom, WorkerFacts DEF ReconcileBounce, At, RowsOf
<1>4. ASSUME NEW w \in Workers, BillingSteps(w) PROVE NoNewCharge
  <2>1. Release(w) => worker[w].key \in SourceKeys
    BY <1>0, WorkerFacts DEF Release, Holding
  <2>2. QED
    BY <1>0, <1>4, <2>1, BillingWrites, NoNewChargeFrom DEF Admitting
<1>5. ASSUME NEW b \in Attempts, Reports(b) PROVE NoNewCharge
  <2>1. CASE ReconcileReport(b)
    BY <1>0, <2>1, CompensateWrites, NoNewChargeFrom DEF ReconcileReport, RowsOf
  <2>2. QED
    BY <1>0, <1>5, <2>1, NoNewChargeFrom
    DEF Reports, ReportUndeliverable, ReportFailed, ReportDelivered, LedgerAlone, vars
<1>6. ShopSteps \/ UNCHANGED vars => NoNewCharge
  BY <1>0, ShopWrites, NoNewChargeFrom DEF vars
<1>7. ASSUME NEW w \in Workers, OutreachSteps(w), ~Settle(w), ~ReconcileBounce(w)
      PROVE  NoNewCharge
  BY <1>6, <1>7
  DEF OutreachSteps, LedgerAlone, Inspect, RevalidateExisting, CheckConsent, MarkFailed,
      MarkBlocked, Prepare, Deliver, TakePermit, RefusePermit, CallProvider, Finalize
<1>8. QED
  BY <1>1, <1>2, <1>3, <1>4, <1>5, <1>6, <1>7 DEF OutreachNext, OutreachActs, allVars

LEMMA FinalizeStep ==
    ASSUME OutreachInv, ChargeInv, [OutreachNext]_allVars,
           NEW w \in Workers, At(w, "finalize")'
    PROVE  Settled(Of(w))'
<1>0. RowsInv /\ WorkersInv /\ [Next]_vars
  BY OutreachInvStep DEF OutreachInv
<1>1. ASSUME At(w, "finalize"), Of(w)' = Of(w) PROVE Settled(Of(w))'
  <2>1. Settled(Of(w))
    BY <1>1 DEF ChargeInv
  <2>2. ASSUME NEW a, a = Of(w), Settled(a) PROVE Settled(a)'
    BY <1>0, <2>2, SettledForGood
  <2>3. QED
    BY <1>1, <2>1, <2>2 DEF Settled, RowsOf, Of
<1>2. ASSUME worker'[w] = worker[w] PROVE Settled(Of(w))'
  BY <1>1, <1>2 DEF At, Of
<1>3. ASSUME NEW v \in Workers, v # w, WorkerStep(v) PROVE worker'[w] = worker[w]
  BY <1>0, <1>3 DEF WorkerStep, WorkersInv
<1>4. ASSUME NEW pc, Goto(w, pc) PROVE pc = "finalize" /\ Of(w)' = Of(w)
  BY <1>0, <1>4, AfterGoto DEF At, Of
<1>5. ASSUME Stop(w) PROVE FALSE
  BY <1>0, <1>5, AfterStop DEF At
<1>6. ASSUME NEW kind, NEW k, Admit(w, kind, k) PROVE FALSE
  BY <1>0, <1>6, AfterAdmit DEF At
<1>7. ASSUME BillingSteps(w) PROVE FALSE
  <2>1. ASSUME ReadPolicy(w) PROVE FALSE
    BY <1>0, <2>1, AfterReadPolicy DEF At
  <2>2. ASSUME Revalidate(w) PROVE FALSE
    BY <1>0, <2>2, AfterRevalidate DEF At
  <2>3. ASSUME Release(w) PROVE FALSE
    <3>1. worker[w].pc # "releaseStop" =>
             AfterRelease[worker[w].pc] \in {"markFailed", "markBlocked", "policy"}
      BY <2>3 DEF Release, AfterRelease, Releasing
    <3>2. QED
      BY <1>4, <1>5, <2>3, <3>1 DEF Release
  <2>4. QED
    BY <1>4, <1>5, <1>6, <1>7, <2>1, <2>2, <2>3
    DEF BillingSteps, AskPromotional, AskPaid, AskPurchased, AskFree, ReviveFree,
        RevivePurchased, ReplayDurable, Abandon
<1>8. ASSUME OutreachSteps(w) PROVE Settled(Of(w))'
  <2>1. CASE Settle(w)
    <3>1. PICK k \in RowsOf(Of(w)) : CommitRow(k) \/ (IsCharged(k) /\ UNCHANGED vars)
      BY <2>1 DEF Settle
    <3>2. k \in SourceKeys /\ k[1] = Of(w)
      BY DEF RowsOf
    <3>3. reservation'[k].status = "COMMITTED"
      BY <1>0, <3>1, <3>2, RowActsWrite, AfterSettles DEF IsCharged, vars
    <3>4. Of(w)' = Of(w)
      BY <1>4, <2>1 DEF Settle
    <3>5. QED
      BY <3>2, <3>3, <3>4 DEF Settled, RowsOf
  <2>2. ASSUME NEW a \in Attempts, Inspect(w, a) PROVE FALSE
    BY <1>0, <2>2, AfterInspect DEF At
  <2>3. ASSUME RevalidateExisting(w) PROVE FALSE
    BY <1>0, <2>3, AfterExisting DEF At
  <2>4. CASE Stop(w) \/ \E pc \in {"releaseStop", "releaseFail", "revalidate", "deliver",
                                  "settle", "fence", "send", "compensate"} : Goto(w, pc)
    BY <1>4, <1>5, <2>4
  <2>5. QED
    BY <1>8, <2>1, <2>2, <2>3, <2>4
    DEF OutreachSteps, CheckConsent, MarkFailed, MarkBlocked, Prepare, Duplicate, Deliver,
        TakePermit, RefusePermit, CallProvider, ProviderAccepts, ProviderRejects,
        ProviderBounces, ProviderUnknown, Finalize, ReconcileBounce
<1>9. QED
  BY <1>0, <1>2, <1>3, <1>7, <1>8, BillingMovesWorker, OutreachMovesWorker
  DEF OutreachNext, OutreachActs, allVars, Reports, ReportUndeliverable, ReportFailed, ReportDelivered,
      ReconcileReport

LEMMA ChargeInvariant == OutreachSpec => []ChargeInv
<1>1. OutreachInit => ChargeInv
  <2> SUFFICES ASSUME OutreachInit PROVE ChargeInv
    OBVIOUS
  <2>1. \A a : RowsOf(a) = {}
    BY DEF OutreachInit, Init, ReservationsInit, NoRow, RowsOf
  <2>2. \A w \in Workers : ~At(w, "finalize")
    BY DEF OutreachInit, BillingInit, Idle, At
  <2>3. \A a \in Attempts : attempt[a].status # "WAITING_FOR_RESPONSE"
    BY DEF OutreachInit
  <2>4. QED
    BY <2>1, <2>2, <2>3 DEF ChargeInv, ChargeFine
<1>2. OutreachInv /\ ChargeInv /\ [OutreachNext]_allVars => ChargeInv'
  BY ChargeFineStep, FinalizeStep DEF ChargeInv
<1>3. QED
  BY <1>1, <1>2, OutreachInvariant, PTL DEF OutreachSpec

(***************************************************************************)
(* Two workers on one attempt, which the expired checkout lock allows,     *)
(* never charge it twice, nor for a message that WhatsApp did not accept;  *)
(* and a customer's answer is only awaited for a charged message (settle,  *)
(* finalize, reconcile).                                                   *)
(***************************************************************************)
THEOREM ChargedOnce == OutreachSpec => []ChargedOnceForSent
<1>1. ASSUME ChargeInv PROVE ChargedOnceForSent
  <2>1. ASSUME NEW a \in Attempts
        PROVE  Cardinality({k \in RowsOf(a) : IsCharged(k)}) <= 1
    <3> DEFINE C == {k \in RowsOf(a) : IsCharged(k)}
    <3>1. \A j, k \in C : j = k
      BY <1>1 DEF ChargeInv, ChargeFine
    <3>2. QED
      BY <3>1, AtMostOne
  <2>2. QED
    BY <1>1, <2>1
    DEF ChargeInv, ChargeFine, Settled, Received, ChargedOnceForSent, OneChargePerAttempt,
        ChargedMessageWasSent, WaitingWasCharged
<1>2. QED
  BY <1>1, ChargeInvariant, PTL

-----------------------------------------------------------------------------
(* One message, one credit: for an attempt that is not contended.          *)

\* The row holds a credit, or has spent it.
Live(k) == reservation[k].status \in HeldStatuses \/ IsCharged(k)
NoneLive(a) == \A k \in RowsOf(a) : ~Live(k)
\* The credit behind a permit, or the period it went with.
Backed(a) == \E k \in RowsOf(a) : Live(k) \/ (k[2] # 0 /\ Closed(k[2]))

(***************************************************************************)
(* The inductive invariant of one attempt.  No row is committed before     *)
(* WhatsApp has the message, so a credit set aside by an earlier worker is *)
(* either kept or given back; and once an undeliverable message has been   *)
(* dealt with, nothing on the attempt is spent or set aside again.         *)
(***************************************************************************)
AttemptFine(a) ==
    /\ \A j, k \in RowsOf(a) : Live(j) /\ Live(k) => j = k
    /\ \A k \in RowsOf(a) : reservation[k].status # "AMBIGUOUS"
    /\ Message(a) \notin Received => ~Settled(a)
    /\ dispatched[a] <= 1
    /\ Message(a) \in {"none", "prepared"} => dispatched[a] = 0
    /\ Message(a) \in {"prepared", "admitted", "sent", "delivered", "failed"} => attempt[a].usage
    /\ Message(a) \in {"admitted", "sent", "delivered", "failed"} => Backed(a)
    /\ Message(a) = "undeliverable" /\ (~attempt[a].job \/ ~attempt[a].usage) => NoneLive(a)

(***************************************************************************)
(* And of one worker: while it asks for a credit its attempt has none, and *)
(* what it then carries is the attempt's only one; it gives back nothing   *)
(* once the message has a permit.                                          *)
(***************************************************************************)
Bearing == Holding \ {"compensate"}
BeforePermit == Asking \cup {"existing", "admitted", "revalidate", "deliver", "fence",
                             "releaseBlock", "releaseAgain"}

WorkerFine(w) ==
    /\ worker[w].pc \in Asking => NoneLive(Of(w))
    /\ worker[w].pc \in Bearing =>
          /\ worker[w].key \in RowsOf(Of(w))
          /\ reservation[worker[w].key].kind = worker[w].kind
          /\ \A k \in RowsOf(Of(w)) : Live(k) => k = worker[w].key
    /\ worker[w].pc \in BeforePermit => Message(Of(w)) \in {"none", "prepared"}
    /\ worker[w].pc \in {"releaseFail", "releaseStop"} =>
          Message(Of(w)) \in {"none", "prepared", "refused"}
    /\ At(w, "send") => Message(Of(w)) = "admitted" /\ dispatched[Of(w)] = 0

(***************************************************************************)
(* Both hold of every attempt that two workers never served at once; an    *)
(* attempt on which they met is left out from then on, and what happens to *)
(* it does not reach the others.                                           *)
(***************************************************************************)
UncontendedInv ==
    /\ Shared \subseteq contended
    /\ \A a \in Attempts \ contended : AttemptFine(a)
    /\ \A w \in Workers : Of(w) \notin contended => WorkerFine(w)

\* What a step leaves of the rows of an attempt.
RowsSame(a) == \A k \in SourceKeys : k[1] = a => reservation'[k] = reservation[k]
RowsShrink(a) ==
    \A k \in SourceKeys : k[1] = a =>
        /\ Live(k)' => Live(k)
        /\ reservation'[k].status = "NONE" <=> reservation[k].status = "NONE"
        /\ reservation'[k].status = "COMMITTED" <=> reservation[k].status = "COMMITTED"
        /\ reservation'[k].status = "AMBIGUOUS" => reservation[k].status = "AMBIGUOUS"
        /\ reservation[k].status # "NONE" => reservation'[k].kind = reservation[k].kind

LEMMA SameShrinks == ASSUME NEW a, RowsSame(a) PROVE RowsShrink(a)
BY DEF RowsSame, RowsShrink, Live, IsCharged

LEMMA AfterShrink ==
    ASSUME NEW a, RowsShrink(a)
    PROVE  /\ RowsOf(a)' = RowsOf(a)
           /\ \A k \in RowsOf(a) : Live(k)' => Live(k)
           /\ Settled(a)' <=> Settled(a)
           /\ NoneLive(a) => NoneLive(a)'
           /\ \A k \in RowsOf(a) : /\ reservation'[k].status = "AMBIGUOUS" =>
                                        reservation[k].status = "AMBIGUOUS"
                                   /\ reservation'[k].kind = reservation[k].kind
<1>1. RowsOf(a)' = RowsOf(a)
  BY DEF RowsShrink, RowsOf
<1>2. \A k \in RowsOf(a) : k \in SourceKeys /\ k[1] = a /\ reservation[k].status # "NONE"
  BY DEF RowsOf
<1>3. QED
  BY <1>1, <1>2 DEF RowsShrink, Settled, NoneLive

\* An attempt whose message and credit are left alone stays fine.
LEMMA AttemptFineFrame ==
    ASSUME WorkersInv, WorkersInv', current' >= current,
           NEW a \in Attempts, AttemptFine(a), RowsSame(a),
           attempt'[a].message = attempt[a].message,
           attempt'[a].usage = attempt[a].usage,
           attempt'[a].job = attempt[a].job,
           dispatched'[a] = dispatched[a]
    PROVE  AttemptFine(a)'
<1>1. RowsOf(a)' = RowsOf(a) /\ \A k \in RowsOf(a) : reservation'[k] = reservation[k]
  BY DEF RowsSame, RowsOf
<1>2. \A k \in RowsOf(a) : Live(k)' <=> Live(k)
  BY <1>1 DEF Live, IsCharged
<1>3. \A k \in RowsOf(a) : Closed(k[2]) => Closed(k[2])'
  <2>1. \A k \in RowsOf(a) : k[2] \in 0 .. MaxPeriod
    BY DEF RowsOf, SourceKeys
  <2>2. QED
    BY <2>1, TableAssumption DEF Closed, WorkersInv
<1>4. Backed(a) => Backed(a)'
  BY <1>1, <1>2, <1>3 DEF Backed
<1>5. (Settled(a)' <=> Settled(a)) /\ (NoneLive(a)' <=> NoneLive(a))
  BY <1>1, <1>2 DEF Settled, NoneLive
<1>6. QED
  BY <1>1, <1>2, <1>4, <1>5 DEF AttemptFine, Message

\* A worker that stays where it is, while its attempt keeps its message.
LEMMA WorkerFineFrame ==
    ASSUME NEW w \in Workers, WorkerFine(w), worker'[w] = worker[w],
           RowsShrink(Of(w)),
           attempt'[Of(w)].message = attempt[Of(w)].message,
           dispatched'[Of(w)] = dispatched[Of(w)]
    PROVE  WorkerFine(w)'
<1>1. Of(w)' = Of(w)
  BY DEF Of
<1>2. QED
  BY <1>1, AfterShrink DEF WorkerFine, Message, At

\* A worker at a place about which nothing is promised.
LEMMA WorkerFineElsewhere ==
    ASSUME NEW w \in Workers,
           worker'[w].pc \notin Asking \cup Bearing \cup BeforePermit
    PROVE  WorkerFine(w)'
BY DEF WorkerFine, At, Bearing, BeforePermit, Holding, Releasing

\* What stays of an attempt whose rows stay.
LEMMA RowsStay ==
    ASSUME UNCHANGED <<reservation, current>>, NEW a
    PROVE  /\ RowsOf(a)' = RowsOf(a) /\ (Settled(a)' <=> Settled(a))
           /\ (NoneLive(a)' <=> NoneLive(a)) /\ (Backed(a)' <=> Backed(a))
           /\ \A k \in RowsOf(a) : Live(k)' <=> Live(k)
BY DEF RowsOf, Settled, NoneLive, Backed, Live, IsCharged, Closed

-----------------------------------------------------------------------------
(* A step touches one attempt.                                             *)

OthersSame(a) ==
    \A b \in Attempts \ {a} : /\ attempt'[b] = attempt[b] /\ dispatched'[b] = dispatched[b]
                              /\ RowsSame(b)
\* A step of worker w on attempt a, which it serves before it or after it.
OnlyOf(w, a) ==
    /\ Elsewhere(w) /\ worker'[w].attempt \in {a, None}
    /\ OthersSame(a)

\* A write to a row of one attempt leaves the rows of the others.
LEMMA OneRowMoves ==
    ASSUME NEW a, NEW k \in SourceKeys, k[1] = a,
           \A j \in SourceKeys \ {k} : reservation'[j] = reservation[j]
    PROVE  \A b \in Attempts \ {a} : RowsSame(b)
BY DEF RowsSame

LEMMA CompensateOnly ==
    ASSUME RowsInv, AttemptsInv, NEW a \in Attempts, Compensate(a), UNCHANGED dispatched
    PROVE  OthersSame(a)
<1>1. \A b \in Attempts \ {a} : attempt'[b] = attempt[b]
  BY DEF Compensate, AttemptsInv
<1>2. \A b \in Attempts \ {a} : RowsSame(b)
  <2>1. CASE UNCHANGED reservation
    BY <2>1 DEF RowsSame
  <2>2. ASSUME NEW k \in RowsOf(a), Settles(k, "RELEASED") \/ Corrects(k)
        PROVE  \A b \in Attempts \ {a} : RowsSame(b)
    <3>1. k \in SourceKeys /\ k[1] = a
      BY DEF RowsOf
    <3>2. QED
      BY <2>2, <3>1, AfterSettles, AfterCorrects, OneRowMoves
  <2>3. QED
    BY <2>1, <2>2, CompensateWrites
<1>3. QED
  BY <1>1, <1>2 DEF OthersSame

LEMMA ReportTouches ==
    ASSUME RowsInv, AttemptsInv, NEW a \in Attempts, Reports(a)
    PROVE  OthersSame(a) /\ UNCHANGED <<worker, dispatched>>
<1>1. CASE ReconcileReport(a)
  BY <1>1, CompensateOnly DEF ReconcileReport
<1>2. CASE ReportUndeliverable(a) \/ ReportFailed(a) \/ ReportDelivered(a)
  <2>1. UNCHANGED <<reservation, worker, dispatched>>
    BY <1>2 DEF ReportUndeliverable, ReportFailed, ReportDelivered, LedgerAlone, vars
  <2>2. \A b \in Attempts \ {a} : attempt'[b] = attempt[b]
    BY <1>2 DEF ReportUndeliverable, ReportFailed, ReportDelivered, SetMessage, AttemptsInv
  <2>3. QED
    BY <2>1, <2>2 DEF OthersSame, RowsSame
<1>3. QED
  BY <1>1, <1>2 DEF Reports

LEMMA BillingTouches ==
    ASSUME RowsInv, WorkersInv, NEW w \in Workers, NEW a \in Attempts, a = Of(w),
           BillingSteps(w), OutreachAlone
    PROVE  OnlyOf(w, a)
<1>1. Elsewhere(w)
  BY BillingMovesWorker DEF WorkerStep, WorkersInv, Elsewhere
<1>2. worker'[w].attempt \in {a, None}
  <2>1. \/ ReadPolicy(w) \/ Revalidate(w) \/ Stop(w)
        \/ \E pc : Goto(w, pc)
        \/ \E kind, k : Admit(w, kind, k)
    BY DEF BillingSteps, AskPromotional, AskPaid, AskPurchased, AskFree, ReviveFree,
       RevivePurchased, ReplayDurable, Release, Abandon
  <2>2. QED
    BY <2>1, AfterReadPolicy, AfterRevalidate, AfterStop, AfterGoto, AfterAdmit DEF Of
<1>3. \A b \in Attempts \ {a} : RowsSame(b)
  <2>1. CASE UNCHANGED reservation
    BY <2>1 DEF RowsSame
  <2>2. ASSUME NEW k \in SourceKeys, NEW kind \in Sources, Admitting(w, k, kind)
        PROVE  \A b \in Attempts \ {a} : RowsSame(b)
    BY <2>2, AfterSetsAside, OneRowMoves DEF Admitting
  <2>3. CASE Release(w) /\ Settles(worker[w].key, "RELEASED")
    <3>1. worker[w].key \in SourceKeys /\ worker[w].key[1] = a
      BY <2>3, WorkerFacts DEF Release, Holding
    <3>2. QED
      BY <2>3, <3>1, AfterSettles, OneRowMoves
  <2>4. QED
    BY <2>1, <2>2, <2>3, BillingWrites
<1>4. QED
  BY <1>1, <1>2, <1>3 DEF OnlyOf, OthersSame, OutreachAlone, outreachVars

LEMMA OutreachTouches ==
    ASSUME RowsInv, WorkersInv, AttemptsInv, NEW w \in Workers, NEW a \in Attempts, a = Of(w),
           OutreachSteps(w)
    PROVE  OnlyOf(w, a)
<1>0. ~\E b \in Attempts : Inspect(w, b)
  BY InitialAssumption DEF Inspect, At, Of, WorkersInv, GoodWorker
<1>1. Elsewhere(w)
  BY OutreachMovesWorker DEF WorkerStep, WorkersInv, Elsewhere
<1>2. worker'[w].attempt \in {a, None}
  <2>1. RevalidateExisting(w) \/ Stop(w) \/ \E pc : Goto(w, pc)
    BY <1>0
    DEF OutreachSteps, CheckConsent, MarkFailed, MarkBlocked, Prepare, Duplicate, Deliver,
        TakePermit, RefusePermit, CallProvider, ProviderAccepts, ProviderRejects,
        ProviderBounces, ProviderUnknown, Settle, Finalize, ReconcileBounce
  <2>2. QED
    BY <2>1, AfterExisting, AfterStop, AfterGoto DEF Of
<1>3. CASE ReconcileBounce(w)
  BY <1>1, <1>2, <1>3, CompensateOnly DEF ReconcileBounce, OnlyOf
<1>4. CASE Settle(w)
  <2>1. UNCHANGED <<attempt, dispatched>>
    BY <1>4 DEF Settle, OutreachAlone, outreachVars
  <2>2. ASSUME NEW k \in RowsOf(a), CommitRow(k) PROVE \A b \in Attempts \ {a} : RowsSame(b)
    <3>1. k \in SourceKeys /\ k[1] = a
      BY DEF RowsOf
    <3>2. QED
      BY <2>2, <3>1, RowActsWrite, AfterSettles, OneRowMoves
  <2>3. UNCHANGED vars => \A b \in Attempts \ {a} : RowsSame(b)
    BY DEF vars, RowsSame
  <2>4. QED
    BY <1>1, <1>2, <1>4, <2>1, <2>2, <2>3 DEF Settle, OnlyOf, OthersSame
<1>5. CASE ~ReconcileBounce(w) /\ ~Settle(w)
  <2>1. UNCHANGED reservation
    BY <1>0, <1>5
    DEF OutreachSteps, RevalidateExisting, CheckConsent, MarkFailed, MarkBlocked, Prepare,
        Deliver, TakePermit, RefusePermit, CallProvider, Finalize, LedgerAlone, vars
  <2>2. \A b \in Attempts \ {a} : attempt'[b] = attempt[b]
    BY <1>0, <1>5
    DEF OutreachSteps, RevalidateExisting, CheckConsent, MarkFailed, MarkBlocked, Prepare,
        Deliver, TakePermit, RefusePermit, CallProvider, ProviderAccepts, ProviderRejects,
        ProviderBounces, ProviderUnknown, Finalize, SetMessage, CloseFailed, OutreachAlone,
        outreachVars, AttemptsInv
  <2>3. \A b \in Attempts \ {a} : dispatched'[b] = dispatched[b]
    BY <1>0, <1>5
    DEF OutreachSteps, RevalidateExisting, CheckConsent, MarkFailed, MarkBlocked, Prepare,
        Deliver, TakePermit, RefusePermit, CallProvider, Finalize, OutreachAlone,
        outreachVars, AttemptsInv
  <2>4. QED
    BY <1>1, <1>2, <2>1, <2>2, <2>3 DEF OnlyOf, OthersSame, RowsSame
<1>6. QED
  BY <1>3, <1>4, <1>5

LEMMA InspectTouches ==
    ASSUME WorkersInv, NEW w \in Workers, NEW a \in Attempts, Inspect(w, a)
    PROVE  OnlyOf(w, a) /\ worker'[w].attempt = a /\ At(w, "idle")
<1>1. UNCHANGED <<reservation, attempt, dispatched>> /\ At(w, "idle")
  BY DEF Inspect, LedgerAlone, vars, OutreachAlone, outreachVars
<1>2. QED
  BY <1>1, AfterInspect DEF OnlyOf, OthersSame, RowsSame

LEMMA IdleInspects ==
    ASSUME NEW w \in Workers, At(w, "idle"),
           OutreachSteps(w) \/ (BillingSteps(w) /\ OutreachAlone)
    PROVE  \E a \in Attempts : Inspect(w, a)
BY DEF OutreachSteps, RevalidateExisting, CheckConsent, MarkFailed, MarkBlocked, Prepare, Deliver,
       TakePermit, RefusePermit, CallProvider, Settle, Finalize, ReconcileBounce, BillingSteps,
       ReadPolicy, AskPromotional, AskPaid, AskPurchased, AskFree, ReviveFree, RevivePurchased,
       Revalidate, Release, Releasing, Abandon, At

\* contended only grows, and has every attempt that is shared after a step.
LEMMA ContendedGrows ==
    ASSUME [OutreachNext]_allVars, Shared \subseteq contended
    PROVE  contended \subseteq contended' /\ Shared' \subseteq contended'
BY DEF OutreachNext, allVars, Shared, Of

(***************************************************************************)
(* So only the worker's own attempt is left to be looked at, and that one  *)
(* only as long as no other worker has served it.                          *)
(***************************************************************************)
LEMMA OwnStep ==
    ASSUME OutreachInv, [OutreachNext]_allVars, UncontendedInv,
           NEW w \in Workers, NEW a \in Attempts, OnlyOf(w, a),
           a \in {Of(w), worker'[w].attempt},
           a \notin contended' => AttemptFine(a)' /\ WorkerFine(w)'
    PROVE  UncontendedInv'
<1>1. /\ WorkersInv /\ WorkersInv'
      /\ current' >= current
  BY OutreachInvStep, CurrentStaysInRange DEF OutreachInv, WorkersInv
<1>2. contended \subseteq contended' /\ Shared' \subseteq contended'
  BY ContendedGrows DEF UncontendedInv
<1>3. ASSUME NEW b \in Attempts, b \notin contended' PROVE AttemptFine(b)'
  <2>1. CASE b = a
    BY <1>3, <2>1
  <2>2. CASE b # a
    <3>1. AttemptFine(b)
      BY <1>2, <1>3 DEF UncontendedInv
    <3>2. QED
      BY <1>1, <2>2, <3>1, AttemptFineFrame DEF OnlyOf, OthersSame
  <2>3. QED
    BY <2>1, <2>2
<1>4. ASSUME NEW v \in Workers, v # w, worker'[v].attempt \notin contended' PROVE WorkerFine(v)'
  <2>1. worker'[v] = worker[v] /\ Of(v) \notin contended'
    BY <1>4 DEF OnlyOf, Elsewhere, Of
  <2>2. CASE At(v, "idle")
    BY <2>1, <2>2, WorkerFineElsewhere
    DEF At, Asking, Bearing, BeforePermit, Holding, Releasing
  <2>3. CASE ~At(v, "idle")
    <3>1. Of(v) # a
      <4>1. Of(w) = a => a \in Shared \/ Of(v) # a
        BY <1>4 DEF Shared
      <4>2. worker'[w].attempt = a => a \in Shared' \/ Of(v) # a
        BY <1>4, <2>1 DEF Shared, Of
      <4>3. QED
        BY <1>2, <2>1, <4>1, <4>2 DEF UncontendedInv
    <3>2. Of(v) \in Attempts \ {a}
      BY <1>1, <2>3, <3>1, WorkerFacts
    <3>3. WorkerFine(v)
      BY <1>2, <2>1 DEF UncontendedInv
    <3>4. QED
      BY <2>1, <3>2, <3>3, SameShrinks, WorkerFineFrame DEF OnlyOf, OthersSame
  <2>4. QED
    BY <2>2, <2>3
<1>5. ASSUME worker'[w].attempt \notin contended' PROVE WorkerFine(w)'
  <2>1. CASE worker'[w].attempt = a
    BY <1>5, <2>1
  <2>2. CASE worker'[w].attempt = None
    <3>1. worker'[w].pc = "idle"
      BY <1>1, <2>2 DEF WorkersInv, GoodWorker
    <3>2. QED
      BY <3>1, WorkerFineElsewhere DEF Asking, Bearing, BeforePermit, Holding, Releasing
  <2>3. QED
    BY <2>1, <2>2 DEF OnlyOf
<1>6. QED
  <2>1. \A b \in Attempts \ contended' : AttemptFine(b)'
    BY <1>3
  <2>2. \A v \in Workers : worker'[v].attempt \notin contended' => WorkerFine(v)'
    BY <1>4, <1>5
  <2>3. QED
    BY <1>2, <2>1, <2>2 DEF UncontendedInv, Of

\* A report about attempt a: no worker moves.
LEMMA ReportStep ==
    ASSUME OutreachInv, [OutreachNext]_allVars, UncontendedInv,
           NEW a \in Attempts, OthersSame(a), UNCHANGED worker,
           a \notin contended =>
              AttemptFine(a)' /\ \A w \in Workers : Of(w) = a => WorkerFine(w)'
    PROVE  UncontendedInv'
<1>1. /\ WorkersInv /\ WorkersInv'
      /\ current' >= current
  BY OutreachInvStep, CurrentStaysInRange DEF OutreachInv, WorkersInv
<1>2. contended \subseteq contended' /\ Shared' \subseteq contended'
  BY ContendedGrows DEF UncontendedInv
<1>3. ASSUME NEW b \in Attempts, b \notin contended' PROVE AttemptFine(b)'
  <2>1. CASE b = a
    BY <1>2, <1>3, <2>1
  <2>2. CASE b # a
    <3>1. AttemptFine(b)
      BY <1>2, <1>3 DEF UncontendedInv
    <3>2. QED
      BY <1>1, <2>2, <3>1, AttemptFineFrame DEF OthersSame
  <2>3. QED
    BY <2>1, <2>2
<1>4. ASSUME NEW v \in Workers, worker'[v].attempt \notin contended' PROVE WorkerFine(v)'
  <2>1. worker'[v] = worker[v] /\ Of(v) \notin contended'
    BY <1>4 DEF Of
  <2>2. CASE At(v, "idle")
    BY <2>1, <2>2, WorkerFineElsewhere
    DEF At, Asking, Bearing, BeforePermit, Holding, Releasing
  <2>3. CASE Of(v) = a
    BY <1>2, <2>1, <2>3
  <2>4. CASE ~At(v, "idle") /\ Of(v) # a
    <3>1. Of(v) \in Attempts \ {a}
      BY <1>1, <2>4, WorkerFacts
    <3>2. WorkerFine(v)
      BY <1>2, <2>1 DEF UncontendedInv
    <3>3. QED
      BY <2>1, <3>1, <3>2, SameShrinks, WorkerFineFrame DEF OthersSame
  <2>5. QED
    BY <2>2, <2>3, <2>4
<1>5. QED
  <2>1. \A b \in Attempts \ contended' : AttemptFine(b)'
    BY <1>3
  <2>2. \A v \in Workers : worker'[v].attempt \notin contended' => WorkerFine(v)'
    BY <1>4
  <2>3. QED
    BY <1>2, <2>1, <2>2 DEF UncontendedInv, Of

(***************************************************************************)
(* A worker and the attempt it serves are fine together, and the step of   *)
(* the worker keeps both so.                                               *)
(***************************************************************************)
Serves(w, a) == a = Of(w) /\ ~At(w, "idle") /\ AttemptFine(a) /\ WorkerFine(w)
StaysFine(w, a) == AttemptFine(a)' /\ WorkerFine(w)'

\* The attempt of a step in which no row and no attempt moves.
LEMMA QuietStep ==
    ASSUME OutreachInv, [OutreachNext]_allVars,
           NEW w \in Workers, NEW a \in Attempts, Serves(w, a),
           UNCHANGED <<reservation, attempt, dispatched>>,
           WorkerFine(w)'
    PROVE  StaysFine(w, a)
<1>1. /\ WorkersInv /\ WorkersInv'
      /\ current' >= current
  BY OutreachInvStep, CurrentStaysInRange DEF OutreachInv, WorkersInv
<1>2. AttemptFine(a)'
  BY <1>1, AttemptFineFrame DEF RowsSame, Serves
<1>3. QED
  BY <1>2 DEF StaysFine

\* A worker that goes on without a write takes its admission with it.
LEMMA GoesOn ==
    ASSUME NEW w \in Workers, WorkerFine(w),
           worker'[w].attempt = worker[w].attempt, worker'[w].key = worker[w].key,
           worker'[w].kind = worker[w].kind,
           UNCHANGED <<reservation, attempt, dispatched>>,
           worker'[w].pc \in Asking => NoneLive(Of(w)),
           worker'[w].pc \in Bearing => worker[w].pc \in Bearing,
           worker'[w].pc \in BeforePermit => Message(Of(w)) \in {"none", "prepared"},
           worker'[w].pc \in {"releaseFail", "releaseStop"} =>
               Message(Of(w)) \in {"none", "prepared", "refused"},
           worker'[w].pc # "send"
    PROVE  WorkerFine(w)'
<1>1. Of(w)' = Of(w)
  BY DEF Of
<1>2. RowsShrink(Of(w))
  BY SameShrinks DEF RowsSame
<1>3. QED
  BY <1>1, <1>2, AfterShrink DEF WorkerFine, Message, At

\* No row of the attempt is there to be replayed while a worker asks.
LEMMA NothingToReplay ==
    ASSUME RowsInv, NEW a, NoneLive(a), ~Settled(a), NEW k \in SourceKeys, k[1] = a
    PROVE  reservation[k].status \in {"NONE", "RELEASED"}
BY RowFields DEF NoneLive, Settled, RowsOf, Live, HeldStatuses, Statuses

\* So an answer of a source admits the worker only with a new row.
LEMMA AdmittedAnew ==
    ASSUME RowsInv, NEW a \in Attempts, NoneLive(a), ~Settled(a)
    PROVE  /\ ~Admits(PromotionalReserveOutcome(a, paused))
           /\ \A p : ~Admits(FreeReserveOutcome(a, p))
           /\ ~Admits(PurchasedReserveOutcome(a))
           /\ current \in Periods => ~Admits(PaidReserveOutcome(a, current))
<1>1. PlainKey(a) \in SourceKeys /\ PlainKey(a)[1] = a
  BY TableAssumption DEF PlainKey, SourceKeys
<1>2. reservation[PlainKey(a)].status \in {"NONE", "RELEASED"}
  BY <1>1, NothingToReplay
<1>3. ~Admits(PromotionalReserveOutcome(a, paused))
  BY <1>2 DEF Admits, PromotionalReserveOutcome, Absent, Reactivable
<1>4. \A p : ~Admits(FreeReserveOutcome(a, p))
  BY <1>2 DEF Admits, FreeReserveOutcome, Absent, Reactivable
<1>5. ~Admits(PurchasedReserveOutcome(a))
  BY <1>2 DEF Admits, PurchasedReserveOutcome, Absent, Reactivable
<1>6. ASSUME current \in Periods PROVE ~Admits(PaidReserveOutcome(a, current))
  <2>1. PaidKey(a, current) \in SourceKeys /\ PaidKey(a, current)[1] = a
    BY <1>6, TableAssumption DEF PaidKey, SourceKeys, Periods
  <2>2. reservation[PaidKey(a, current)].status \in {"NONE", "RELEASED"}
    BY <2>1, NothingToReplay
  <2>3. QED
    BY <2>2 DEF Admits, PaidReserveOutcome, Absent, Reactivable
<1>7. QED
  BY <1>3, <1>4, <1>5, <1>6

\* Where an asking worker goes without a new row.
LEMMA AskingGoes ==
    ASSUME OutreachInv, NEW w \in Workers, NEW a \in Attempts, Serves(w, a), BillingSteps(w),
           worker[w].pc \in Asking, UNCHANGED reservation
    PROVE  \/ Stop(w)
           \/ ReadPolicy(w)
           \/ \E pc \in Asking \cup {"blocked", "exhausted"} : Goto(w, pc)
<1>0. RowsInv /\ WorkersInv
  BY DEF OutreachInv
<1>1. worker[w].attempt = a /\ NoneLive(a) /\ ~Settled(a)
  <2>1. worker[w].pc \in BeforePermit
    BY DEF BeforePermit
  <2>2. NoneLive(a) /\ Message(a) \in {"none", "prepared"}
    BY <2>1 DEF Serves, WorkerFine
  <2>3. QED
    BY <2>2 DEF Serves, AttemptFine, Received, Of
<1>2. \A k \in SourceKeys : \A kind : ~SetsAside(k, kind)
  BY <1>0, AfterSetsAside DEF SetsAside
<1>3. PlainKey(a) \in SourceKeys /\ (current \in Periods => PaidKey(a, current) \in SourceKeys)
  BY TableAssumption DEF PlainKey, PaidKey, SourceKeys, Periods
<1>4. CASE AskPromotional(w)
  <2>1. ~\E g \in Grants : ReservePromotional(a, g, paused)
    BY <1>0, <1>1, <1>2, <1>3, NothingToReplay
    DEF ReservePromotional, SetsAside, PlainKey
  <2>2. QED
    BY <1>0, <1>1, <1>4, <2>1, AdmittedAnew DEF AskPromotional, Asking
<1>5. CASE AskPaid(w)
  <2>1. current \in Periods
    BY <1>5 DEF AskPaid
  <2>2. ~ReservePaid(a, current)
    BY <1>0, <1>1, <1>2, <1>3, <2>1, NothingToReplay DEF ReservePaid, SetsAside, PaidKey
  <2>3. QED
    BY <1>0, <1>1, <1>5, <2>1, <2>2, AdmittedAnew DEF AskPaid, Asking
<1>6. CASE AskPurchased(w) \/ RevivePurchased(w)
  <2>1. ~\E l \in Lots : ReservePurchased(a, l)
    BY <1>0, <1>1, <1>2, <1>3, NothingToReplay DEF ReservePurchased, SetsAside, PlainKey
  <2>2. QED
    BY <1>0, <1>1, <1>6, <2>1, AdmittedAnew
    DEF AskPurchased, RevivePurchased, ReplayDurable, Asking
<1>7. CASE AskFree(w) \/ ReviveFree(w)
  <2>1. ~ReserveFree(a, FreePause(w))
    BY <1>0, <1>1, <1>2, <1>3, NothingToReplay DEF ReserveFree, SetsAside, PlainKey
  <2>2. QED
    BY <1>0, <1>1, <1>7, <2>1, AdmittedAnew
    DEF AskFree, ReviveFree, ReplayDurable, Asking
<1>8. QED
  BY <1>4, <1>5, <1>6, <1>7
  DEF BillingSteps, Revalidate, Release, Abandon, At, Asking, Releasing

LEMMA QuietBillingKeeps ==
    ASSUME OutreachInv, [OutreachNext]_allVars,
           NEW w \in Workers, NEW a \in Attempts, Serves(w, a),
           BillingSteps(w), OutreachAlone, UNCHANGED reservation
    PROVE  StaysFine(w, a)
<1>0. /\ RowsInv /\ WorkersInv /\ WorkerFine(w)
      /\ UNCHANGED <<reservation, attempt, dispatched>>
  BY DEF OutreachInv, Serves, OutreachAlone, outreachVars
<1>1. ~At(w, "idle")
  BY DEF BillingSteps, ReadPolicy, AskPromotional, AskPaid, AskPurchased, AskFree, ReviveFree,
     RevivePurchased, Revalidate, Release, Abandon, At, Releasing
<1>2. ASSUME worker'[w].attempt = worker[w].attempt,
             worker'[w].key = worker[w].key, worker'[w].kind = worker[w].kind,
             worker'[w].pc \in Asking => NoneLive(Of(w)),
             worker'[w].pc \in Bearing => worker[w].pc \in Bearing,
             worker'[w].pc \in BeforePermit => worker[w].pc \in BeforePermit,
             worker'[w].pc \notin {"releaseFail", "releaseStop", "send"}
      PROVE  StaysFine(w, a)
  <2>1. WorkerFine(w)'
    BY <1>0, <1>2, GoesOn DEF WorkerFine
  <2>2. QED
    BY <1>0, <1>1, <1>2, <2>1, QuietStep
<1>3. ASSUME Stop(w) PROVE StaysFine(w, a)
  <2>1. WorkerFine(w)'
    BY <1>0, <1>3, AfterStop, WorkerFineElsewhere
    DEF Asking, Bearing, BeforePermit, Holding, Releasing
  <2>2. QED
    BY <1>0, <1>1, <1>3, <2>1, AfterStop, QuietStep
<1>4. ASSUME NEW pc \in {"blocked", "exhausted", "markFailed", "markBlocked"}, Goto(w, pc)
      PROVE  StaysFine(w, a)
  <2>1. pc \notin Asking \cup Bearing \cup BeforePermit \cup {"releaseFail", "releaseStop", "send"}
    BY DEF Asking, Bearing, BeforePermit, Holding, Releasing
  <2>2. QED
    BY <1>0, <1>2, <1>4, <2>1, AfterGoto
<1>5. CASE worker[w].pc \in Asking
  <2>1. NoneLive(Of(w)) /\ worker[w].pc \in BeforePermit
    BY <1>0, <1>5 DEF WorkerFine, BeforePermit
  <2>2. ASSUME NEW pc \in Asking, Goto(w, pc) PROVE StaysFine(w, a)
    <3>1. pc \notin Bearing \cup {"releaseFail", "releaseStop", "send"}
      BY DEF Asking, Bearing, Holding, Releasing
    <3>2. QED
      BY <1>0, <1>2, <2>1, <2>2, <3>1, AfterGoto
  <2>3. ASSUME ReadPolicy(w) PROVE StaysFine(w, a)
    <3>1. /\ worker'[w].pc \in {"blocked", "purchased", "promotional"}
          /\ worker'[w].attempt = worker[w].attempt
          /\ worker'[w].key = worker[w].key /\ worker'[w].kind = worker[w].kind
      BY <1>0, <2>3 DEF ReadPolicy, WorkersInv, WorkerRow
    <3>2. worker'[w].pc \notin Bearing \cup {"releaseFail", "releaseStop", "send"}
      BY <3>1 DEF Bearing, Holding, Releasing
    <3>3. QED
      BY <1>2, <2>1, <3>1, <3>2
  <2>4. QED
    BY <1>3, <1>4, <1>5, <2>2, <2>3, AskingGoes
<1>6. CASE Revalidate(w)
  <2>1. worker[w].pc \in Bearing \cap BeforePermit
    BY <1>6 DEF Revalidate, At, Bearing, BeforePermit, Holding
  <2>2. /\ worker'[w].pc \in {"admitted", "releaseBlock", "releaseAgain"}
        /\ worker'[w].attempt = worker[w].attempt
        /\ worker'[w].key = worker[w].key /\ worker'[w].kind = worker[w].kind
    BY <1>0, <1>6, AfterRevalidate
  <2>3. worker'[w].pc \notin Asking
    BY <2>2 DEF Asking
  <2>4. QED
    BY <1>2, <2>1, <2>2, <2>3
<1>7. CASE Release(w) /\ worker[w].pc = "releaseAgain"
  <2>1. Goto(w, "policy")
    BY <1>7 DEF Release, AfterRelease, Releasing
  <2>2. worker[w].pc \in Bearing \cap BeforePermit
    BY <1>7 DEF Bearing, BeforePermit, Holding, Releasing
  <2>3. a = Of(w)
    BY DEF Serves
  <2>4. PICK k \in RowsOf(a) : k = worker[w].key
    BY <1>0, <2>2, <2>3 DEF WorkerFine
  <2>5. k \in SourceKeys /\ reservation[k].status # "RESERVED"
    <3>1. ASSUME reservation[k].status = "RESERVED" PROVE FALSE
      <4>1. k \in SourceKeys
        BY DEF RowsOf
      <4>2. Transitions(k, worker[w].kind)
        BY <1>0, <2>2, <2>4, <3>1 DEF Transitions, WorkerFine
      <4>3. Settles(k, "RELEASED")
        BY <1>0, <1>7, <2>4, <4>1, <4>2, RowActsWrite DEF Release, ReleaseAdmission
      <4>4. QED
        BY <1>0, <3>1, <4>1, <4>3, AfterSettles
    <3>2. QED
      BY <3>1 DEF RowsOf
  <2>6. ~Live(k)
    <3>1. AttemptFine(a) /\ Message(a) \notin Received
      BY <1>0, <2>2, <2>3 DEF Serves, WorkerFine, Received
    <3>2. QED
      BY <2>5, <3>1 DEF AttemptFine, Live, IsCharged, Settled, HeldStatuses
  <2>7. NoneLive(a)
    BY <1>0, <2>2, <2>3, <2>4, <2>6 DEF WorkerFine, NoneLive
  <2>8. QED
    BY <1>0, <1>2, <2>1, <2>2, <2>3, <2>7, AfterGoto DEF Bearing, Holding, Releasing
<1>8. CASE Release(w) /\ worker[w].pc # "releaseAgain"
  BY <1>3, <1>4, <1>8 DEF Release, AfterRelease, Releasing
<1>9. QED
  BY <1>3, <1>5, <1>6, <1>7, <1>8
  DEF BillingSteps, ReadPolicy, AskPromotional, AskPaid, AskPurchased, AskFree, ReviveFree,
      RevivePurchased, Abandon, At, Asking

\* A credit is set aside: it becomes the only one of its attempt.
LEMMA AdmittingKeeps ==
    ASSUME OutreachInv, [OutreachNext]_allVars, OutreachAlone,
           NEW w \in Workers, NEW a \in Attempts, Serves(w, a), NEW k \in SourceKeys, NEW kind \in Sources, Admitting(w, k, kind)
    PROVE  StaysFine(w, a)
<1>0. /\ RowsInv /\ WorkersInv /\ WorkerFine(w)
      /\ UNCHANGED <<attempt, dispatched>>
  BY DEF OutreachInv, Serves, OutreachAlone, outreachVars
<1>1. ~At(w, "idle")
  BY DEF Admitting, At, Asking
<1>2. a = Of(w) /\ AttemptFine(a)
  BY DEF Serves
<1>3. /\ k[1] = a
      /\ \A j \in SourceKeys \ {k} : reservation'[j] = reservation[j]
      /\ reservation'[k].status = "RESERVED" /\ reservation'[k].kind = kind
  BY <1>0, <1>2, AfterSetsAside DEF Admitting
<1>4. /\ worker'[w].pc = "admitted" /\ worker'[w].attempt = a
      /\ worker'[w].key = k /\ worker'[w].kind = kind
  BY <1>0, <1>2, AfterAdmit DEF Admitting, Of
<1>5. AttemptFine(a) /\ NoneLive(a) /\ Message(a) \in {"none", "prepared"}
  BY <1>0, <1>2 DEF Serves, WorkerFine, Admitting, BeforePermit
<1>6. RowsOf(a)' = RowsOf(a) \cup {k} /\ \A j \in RowsOf(a) : j # k => reservation'[j] = reservation[j]
  BY <1>3 DEF RowsOf
<1>7. \A j \in RowsOf(a)' : Live(j)' => j = k
  BY <1>5, <1>6 DEF NoneLive, Live, IsCharged
<1>8. AttemptFine(a)'
  <2>1. ~Settled(a)'
    BY <1>3, <1>5, <1>6 DEF AttemptFine, Settled, Received
  <2>2. \A j \in RowsOf(a)' : reservation'[j].status # "AMBIGUOUS"
    BY <1>3, <1>5, <1>6 DEF AttemptFine
  <2>3. Message(a)' = Message(a)
    BY <1>0 DEF Message
  <2>4. QED
    BY <1>0, <1>5, <1>7, <2>1, <2>2, <2>3 DEF AttemptFine
<1>9. WorkerFine(w)'
  <2>1. Of(w)' = a /\ Message(a)' = Message(a)
    BY <1>0, <1>4 DEF Of, Message
  <2>2. QED
    BY <1>3, <1>4, <1>5, <1>6, <1>7, <2>1 DEF WorkerFine, At, Asking
<1>10. QED
  BY <1>8, <1>9 DEF StaysFine

\* The credit of the worker is given back, before there was a permit.
LEMMA ReleasingKeeps ==
    ASSUME OutreachInv, [OutreachNext]_allVars, OutreachAlone,
           NEW w \in Workers, NEW a \in Attempts, Serves(w, a), Release(w), Settles(worker[w].key, "RELEASED")
    PROVE  StaysFine(w, a)
<1>0. /\ RowsInv /\ WorkersInv /\ WorkerFine(w)
      /\ UNCHANGED <<attempt, dispatched>>
  BY DEF OutreachInv, Serves, OutreachAlone, outreachVars
<1>1. ~At(w, "idle") /\ worker[w].pc \in Bearing
  BY DEF Release, At, Releasing, Bearing, Holding
<1>2. a = Of(w) /\ AttemptFine(a)
  BY DEF Serves
<1>3. PICK k \in RowsOf(a) : k = worker[w].key
  BY <1>0, <1>1, <1>2 DEF WorkerFine
<1>4. /\ k \in SourceKeys /\ k[1] = a
      /\ \A j \in SourceKeys \ {k} : reservation'[j] = reservation[j]
      /\ reservation'[k].status = "RELEASED"
  <2>1. k \in SourceKeys /\ k[1] = a
    BY DEF RowsOf
  <2>2. QED
    BY <1>0, <1>3, <2>1, AfterSettles
<1>5. AttemptFine(a) /\ Message(a) \in {"none", "prepared", "refused"}
  BY <1>0, <1>2 DEF Serves, WorkerFine, Release, Releasing, BeforePermit
<1>6. RowsOf(a)' = RowsOf(a) /\ \A j \in RowsOf(a) : j # k => reservation'[j] = reservation[j]
  BY <1>4 DEF RowsOf
<1>7. NoneLive(a)'
  <2>1. \A j \in RowsOf(a) : Live(j) => j = k
    BY <1>0, <1>1, <1>2, <1>3 DEF WorkerFine
  <2>2. QED
    BY <1>4, <1>6, <2>1 DEF NoneLive, Live, IsCharged, HeldStatuses
<1>8. AttemptFine(a)'
  <2>1. ~Settled(a)'
    BY <1>4, <1>5, <1>6 DEF AttemptFine, Settled, Received
  <2>2. \A j \in RowsOf(a)' : reservation'[j].status # "AMBIGUOUS"
    BY <1>4, <1>5, <1>6 DEF AttemptFine
  <2>3. Message(a)' = Message(a)
    BY <1>0 DEF Message
  <2>4. \A i, j \in RowsOf(a)' : Live(i)' /\ Live(j)' => i = j
    BY <1>7 DEF NoneLive
  <2>5. QED
    BY <1>0, <1>5, <1>7, <2>1, <2>2, <2>3, <2>4 DEF AttemptFine
<1>9. \/ Stop(w)
      \/ worker[w].pc = "releaseAgain" /\ Goto(w, "policy")
      \/ Goto(w, "markFailed") \/ Goto(w, "markBlocked")
  BY DEF Release, AfterRelease, Releasing
<1>10. \/ worker'[w].pc \in {"idle", "markFailed", "markBlocked"}
       \/ worker'[w].pc = "policy" /\ worker'[w].attempt = a /\ worker[w].pc = "releaseAgain"
  BY <1>0, <1>2, <1>9, AfterStop, AfterGoto DEF Of
<1>11. WorkerFine(w)'
  <2>1. CASE worker'[w].pc \in {"idle", "markFailed", "markBlocked"}
    BY <2>1, WorkerFineElsewhere DEF Asking, Bearing, BeforePermit, Holding, Releasing
  <2>2. CASE worker'[w].pc = "policy" /\ worker'[w].attempt = a /\ worker[w].pc = "releaseAgain"
    <3>1. Of(w)' = a /\ Message(a)' = Message(a)
      BY <1>0, <2>2 DEF Of, Message
    <3>2. Message(a) \in {"none", "prepared"}
      BY <1>0, <1>2, <2>2 DEF WorkerFine, BeforePermit
    <3>3. QED
      BY <1>7, <2>2, <3>1, <3>2 DEF WorkerFine, At, Bearing, Holding, Releasing
  <2>3. QED
    BY <1>10, <2>1, <2>2
<1>12. QED
  BY <1>8, <1>11 DEF StaysFine

LEMMA BillingKeeps ==
    ASSUME OutreachInv, [OutreachNext]_allVars,
           NEW w \in Workers, NEW a \in Attempts, Serves(w, a),
           BillingSteps(w), OutreachAlone
    PROVE  StaysFine(w, a)
BY QuietBillingKeeps, AdmittingKeeps, ReleasingKeeps, BillingWrites DEF OutreachInv

-----------------------------------------------------------------------------
(* The steps of the outreach.                                              *)

LEMMA InspectKeeps ==
    ASSUME OutreachInv, [OutreachNext]_allVars,
           NEW w \in Workers, NEW a \in Attempts, AttemptFine(a), Inspect(w, a)
    PROVE  StaysFine(w, a)
<1>0. /\ RowsInv /\ WorkersInv /\ WorkersInv' /\ AttemptFine(a) /\ current' >= current
      /\ UNCHANGED <<reservation, attempt, dispatched>>
  BY OutreachInvStep, CurrentStaysInRange
  DEF OutreachInv, WorkersInv, Inspect, OutreachAlone, outreachVars, LedgerAlone, vars
<1>1. /\ worker'[w].attempt = a
      /\ worker'[w].pc = IF Progress(a) = "confirmed" THEN "settle" ELSE "existing"
  BY <1>0, AfterInspect
<1>2. AttemptFine(a)'
  BY <1>0, AttemptFineFrame DEF RowsSame
<1>3. WorkerFine(w)'
  <2>1. CASE Progress(a) = "confirmed"
    BY <1>1, <2>1, WorkerFineElsewhere DEF Asking, Bearing, BeforePermit, Holding, Releasing
  <2>2. CASE Progress(a) # "confirmed"
    <3>1. Message(a) \in {"none", "prepared"}
      BY <2>2 DEF Inspect, Progress
    <3>2. Of(w)' = a /\ Message(a)' = Message(a) /\ worker'[w].pc = "existing"
      BY <1>0, <1>1, <2>2 DEF Of, Message
    <3>3. QED
      BY <3>1, <3>2 DEF WorkerFine, At, Asking, Bearing, Holding, Releasing
  <2>3. QED
    BY <2>1, <2>2
<1>4. QED
  BY <1>2, <1>3 DEF StaysFine

LEMMA ExistingKeeps ==
    ASSUME OutreachInv, [OutreachNext]_allVars,
           NEW w \in Workers, NEW a \in Attempts, Serves(w, a),
           RevalidateExisting(w)
    PROVE  StaysFine(w, a)
<1>0. /\ RowsInv /\ WorkersInv /\ WorkerFine(w) /\ At(w, "existing") /\ ~At(w, "idle")
      /\ UNCHANGED <<reservation, attempt, dispatched>>
  <2>1. RowsInv /\ WorkersInv /\ WorkerFine(w)
    BY DEF OutreachInv, Serves
  <2>2. At(w, "existing") /\ LedgerAlone /\ OutreachAlone
    BY Zenon DEF RevalidateExisting
  <2>3. QED
    BY <2>1, <2>2 DEF At, OutreachAlone, outreachVars, LedgerAlone, vars
<1>1. a = Of(w)
  BY DEF Serves
<1>2. Message(a) \in {"none", "prepared"}
  BY <1>0, <1>1 DEF WorkerFine, At, BeforePermit
<1>3. /\ worker'[w].attempt = worker[w].attempt
      /\ \/ worker'[w].pc = "policy" /\ RowsOf(a) = {}
         \/ /\ worker'[w].pc = "admitted"
            /\ RowsOf(a) = {worker'[w].key}
            /\ worker'[w].kind = reservation[worker'[w].key].kind
  BY <1>0, <1>1, AfterExisting
<1>4. Of(w)' = a /\ Message(a)' = Message(a) /\ RowsOf(a)' = RowsOf(a)
  BY <1>0, <1>1, <1>3 DEF Of, Message, RowsOf
<1>5. WorkerFine(w)'
  <2>1. CASE worker'[w].pc = "policy" /\ RowsOf(a) = {}
    <3>1. NoneLive(a)'
      BY <1>4, <2>1 DEF NoneLive
    <3>2. QED
      BY <1>2, <1>4, <2>1, <3>1 DEF WorkerFine, At, Bearing, Holding, Releasing
  <2>2. CASE /\ worker'[w].pc = "admitted"
             /\ RowsOf(a) = {worker'[w].key}
             /\ worker'[w].kind = reservation[worker'[w].key].kind
    BY <1>0, <1>2, <1>4, <2>2 DEF WorkerFine, At, Asking
  <2>3. QED
    BY <1>3, <2>1, <2>2
<1>6. QED
  BY <1>0, <1>3, <1>5, QuietStep

\* A worker with its admission goes on before the permit, without a write.
LEMMA OnwardKeeps ==
    ASSUME OutreachInv, [OutreachNext]_allVars,
           UNCHANGED <<reservation, attempt, dispatched>>,
           NEW w \in Workers, NEW a \in Attempts, Serves(w, a),
           worker[w].pc \in {"admitted", "deliver", "fence"},
           NEW pc \in {"revalidate", "deliver", "fence", "settle", "releaseFail", "releaseStop"},
           Goto(w, pc)
    PROVE  StaysFine(w, a)
<1>1. /\ WorkersInv /\ WorkerFine(w) /\ ~At(w, "idle")
      /\ worker[w].pc \in Bearing \cap BeforePermit /\ pc \notin Asking
  BY DEF OutreachInv, Serves, At, Bearing, BeforePermit, Holding, Asking
<1>2. Message(Of(w)) \in {"none", "prepared"}
  BY <1>1 DEF WorkerFine
<1>3. WorkerFine(w)'
  BY <1>1, <1>2, AfterGoto, GoesOn
<1>4. QED
  BY <1>1, <1>3, AfterGoto, QuietStep

LEMMA LookingKeeps ==
    ASSUME OutreachInv, [OutreachNext]_allVars,
           UNCHANGED attempt, NEW w \in Workers, NEW a \in Attempts, Serves(w, a),
           CheckConsent(w) \/ Prepare(w) \/ Deliver(w) \/ RefusePermit(w)
    PROVE  StaysFine(w, a)
<1>1. UNCHANGED <<reservation, dispatched>> /\ worker[w].pc \in {"admitted", "deliver", "fence"}
  BY DEF CheckConsent, Prepare, Deliver, RefusePermit, LedgerAlone, vars, OutreachAlone,
     outreachVars, At
<1>2. \/ Goto(w, "revalidate") \/ Goto(w, "deliver") \/ Goto(w, "fence") \/ Goto(w, "settle")
      \/ Goto(w, "releaseFail") \/ Goto(w, "releaseStop")
  BY DEF CheckConsent, Prepare, Deliver, RefusePermit, Duplicate
<1>3. QED
  BY <1>1, <1>2, OnwardKeeps

\* The attempt is marked, or finalized; its message and its credit stay.
LEMMA MarkingKeeps ==
    ASSUME OutreachInv, [OutreachNext]_allVars,
           NEW w \in Workers, NEW a \in Attempts, Serves(w, a),
           MarkFailed(w) \/ MarkBlocked(w) \/ Finalize(w)
    PROVE  StaysFine(w, a)
<1>0. /\ WorkersInv /\ WorkersInv' /\ AttemptsInv /\ current' >= current /\ ~At(w, "idle")
      /\ UNCHANGED <<reservation, dispatched>> /\ Stop(w)
  BY OutreachInvStep, CurrentStaysInRange
  DEF OutreachInv, WorkersInv, MarkFailed, MarkBlocked, Finalize, At, LedgerAlone, vars
<1>1. a = Of(w) /\ AttemptFine(a)
  BY DEF Serves
<1>2. /\ attempt'[a].message = attempt[a].message
      /\ attempt'[a].usage = attempt[a].usage
      /\ attempt'[a].job = attempt[a].job
  BY <1>0, <1>1 DEF MarkFailed, MarkBlocked, Finalize, AttemptsInv, AttemptRow
<1>3. AttemptFine(a)'
  BY <1>0, <1>2, AttemptFineFrame DEF Serves, RowsSame
<1>4. WorkerFine(w)'
  BY <1>0, AfterStop, WorkerFineElsewhere DEF Asking, Bearing, BeforePermit, Holding, Releasing
<1>5. QED
  BY <1>3, <1>4 DEF StaysFine

LEMMA PrepareKeeps ==
    ASSUME OutreachInv, [OutreachNext]_allVars,
           NEW w \in Workers, NEW a \in Attempts, Serves(w, a),
           Prepare(w), attempt' # attempt
    PROVE  StaysFine(w, a)
<1>0. /\ WorkersInv /\ AttemptsInv /\ At(w, "admitted") /\ ~At(w, "idle") /\ WorkerFine(w)
      /\ UNCHANGED <<reservation, current, dispatched>> /\ Goto(w, "deliver")
  BY DEF OutreachInv, Serves, Prepare, At, LedgerAlone, vars, paidVars
<1>1. a = Of(w) /\ AttemptFine(a)
  BY DEF Serves
<1>2. /\ attempt'[a].message = "prepared" /\ attempt'[a].usage
  BY <1>0, <1>1 DEF Prepare, AttemptsInv, AttemptRow
<1>3. /\ worker'[w].pc = "deliver" /\ worker'[w].attempt = a
      /\ worker'[w].key = worker[w].key /\ worker'[w].kind = worker[w].kind
  BY <1>0, <1>1, AfterGoto DEF Of
<1>4. Message(a) \in {"none", "prepared"}
  BY <1>0, <1>1 DEF WorkerFine, BeforePermit, At
<1>5. AttemptFine(a)'
  <2>1. Message(a)' = "prepared" /\ attempt'[a].usage
    BY <1>2 DEF Message
  <2>2. AttemptFine(a) /\ dispatched[a] = 0 /\ ~Settled(a)
    BY <1>4 DEF Serves, AttemptFine, Received
  <2>3. QED
    BY <1>0, <2>1, <2>2, RowsStay DEF AttemptFine
<1>6. WorkerFine(w)'
  <2>1. Of(w)' = a /\ Message(a)' = "prepared"
    BY <1>2, <1>3 DEF Of, Message
  <2>2. QED
    BY <1>0, <1>1, <1>3, <2>1, RowsStay DEF WorkerFine, At, Asking, Bearing, Holding
<1>7. QED
  BY <1>5, <1>6 DEF StaysFine

LEMMA PermitKeeps ==
    ASSUME OutreachInv, [OutreachNext]_allVars,
           NEW w \in Workers, NEW a \in Attempts, Serves(w, a), TakePermit(w)
    PROVE  StaysFine(w, a)
<1>0. /\ WorkersInv /\ AttemptsInv /\ At(w, "fence") /\ ~At(w, "idle") /\ WorkerFine(w)
      /\ UNCHANGED <<reservation, current, dispatched>> /\ Goto(w, "send")
  BY DEF OutreachInv, Serves, TakePermit, At, LedgerAlone, vars, paidVars
<1>1. a = Of(w) /\ AttemptFine(a)
  BY DEF Serves
<1>2. /\ attempt'[a].message = "admitted" /\ attempt'[a].usage
  BY <1>0, <1>1 DEF TakePermit, SetMessage, AttemptsInv, AttemptRow
<1>3. /\ worker'[w].pc = "send" /\ worker'[w].attempt = a
      /\ worker'[w].key = worker[w].key /\ worker'[w].kind = worker[w].kind
  BY <1>0, <1>1, AfterGoto DEF Of
<1>4. AttemptFine(a) /\ dispatched[a] = 0 /\ ~Settled(a) /\ Backed(a)
  <2>1. Message(a) = "prepared" /\ AttemptFine(a)
    BY <1>1 DEF TakePermit, Serves
  <2>2. Backed(a)
    BY <1>1 DEF TakePermit, ExactCredit, Backed, Live, HeldStatuses
  <2>3. QED
    BY <2>1, <2>2 DEF AttemptFine, Received
<1>5. AttemptFine(a)'
  <2>1. Message(a)' = "admitted" /\ attempt'[a].usage
    BY <1>2 DEF Message
  <2>2. QED
    BY <1>0, <1>4, <2>1, RowsStay DEF AttemptFine
<1>6. WorkerFine(w)'
  <2>1. Of(w)' = a /\ Message(a)' = "admitted"
    BY <1>2, <1>3 DEF Of, Message
  <2>2. worker[w].pc \in Bearing
    BY <1>0 DEF At, Bearing, Holding
  <2>3. QED
    BY <1>0, <1>1, <1>3, <1>4, <2>1, <2>2, RowsStay
    DEF WorkerFine, At, Asking, BeforePermit
<1>7. QED
  BY <1>5, <1>6 DEF StaysFine

\* The record that CloseFailed writes.
LEMMA AfterCloseFailed ==
    ASSUME AttemptsInv, NEW a \in Attempts, NEW m, NEW usage, CloseFailed(a, m, usage)
    PROVE  attempt'[a].message = m /\ attempt'[a].usage = usage
<1> DEFINE r == [attempt[a] EXCEPT !.status = "FAILED", !.message = m, !.usage = usage,
                                   !.linked = TRUE, !.coded = TRUE]
<1>1. attempt' = [attempt EXCEPT ![a] = r]
  BY DEF CloseFailed
<1>2. r.message = m /\ r.usage = usage
  BY DEF AttemptsInv, AttemptRow
<1>3. QED
  BY <1>1, <1>2 DEF AttemptsInv

LEMMA RefuseKeeps ==
    ASSUME OutreachInv, [OutreachNext]_allVars,
           NEW w \in Workers, NEW a \in Attempts, Serves(w, a),
           RefusePermit(w), attempt' # attempt
    PROVE  StaysFine(w, a)
<1>0. /\ WorkersInv /\ AttemptsInv /\ At(w, "fence") /\ ~At(w, "idle") /\ WorkerFine(w)
      /\ UNCHANGED <<reservation, current, dispatched>> /\ Goto(w, "releaseFail")
  BY DEF OutreachInv, Serves, RefusePermit, At, LedgerAlone, vars, paidVars
<1>1. a = Of(w) /\ AttemptFine(a)
  BY DEF Serves
<1>2. /\ attempt'[a].message = "refused"
  BY <1>0, <1>1, AfterCloseFailed DEF RefusePermit
<1>3. /\ worker'[w].pc = "releaseFail" /\ worker'[w].attempt = a
      /\ worker'[w].key = worker[w].key /\ worker'[w].kind = worker[w].kind
  BY <1>0, <1>1, AfterGoto DEF Of
<1>4. AttemptFine(a) /\ ~Settled(a)
  BY <1>0, <1>1 DEF Serves, AttemptFine, WorkerFine, At, BeforePermit, Received
<1>5. AttemptFine(a)'
  <2>1. Message(a)' = "refused"
    BY <1>2 DEF Message
  <2>2. QED
    BY <1>0, <1>4, <2>1, RowsStay DEF AttemptFine
<1>6. WorkerFine(w)'
  <2>1. Of(w)' = a /\ Message(a)' = "refused"
    BY <1>2, <1>3 DEF Of, Message
  <2>2. worker[w].pc \in Bearing
    BY <1>0 DEF At, Bearing, Holding
  <2>3. QED
    BY <1>0, <1>1, <1>3, <2>1, <2>2, RowsStay DEF WorkerFine, At, Asking, BeforePermit
<1>7. QED
  BY <1>5, <1>6 DEF StaysFine

LEMMA CallKeeps ==
    ASSUME OutreachInv, [OutreachNext]_allVars,
           NEW w \in Workers, NEW a \in Attempts, Serves(w, a), CallProvider(w)
    PROVE  StaysFine(w, a)
<1>0. /\ WorkersInv /\ AttemptsInv /\ At(w, "send") /\ ~At(w, "idle") /\ WorkerFine(w)
      /\ UNCHANGED <<reservation, current>>
  BY DEF OutreachInv, Serves, CallProvider, At, LedgerAlone, vars, paidVars
<1>1. a = Of(w) /\ AttemptFine(a)
  BY DEF Serves
<1>2. /\ AttemptFine(a) /\ Message(a) = "admitted" /\ dispatched[a] = 0
      /\ attempt[a].usage /\ Backed(a) /\ ~Settled(a)
  BY <1>0, <1>1 DEF WorkerFine, Serves, AttemptFine, Received
<1>3. /\ dispatched'[a] = 1
      /\ \/ attempt'[a].message \in {"sent", "admitted"} /\ attempt'[a].usage
         \/ attempt'[a].message \in {"rejected", "bounced"}
  <2>1. dispatched'[a] = 1
    BY <1>0, <1>1, <1>2 DEF CallProvider, AttemptsInv
  <2>2. \/ SetMessage(a, "sent") \/ UNCHANGED attempt
        \/ CloseFailed(a, "rejected", FALSE) \/ CloseFailed(a, "bounced", TRUE)
    BY <1>1 DEF CallProvider, ProviderAccepts, ProviderRejects, ProviderBounces, ProviderUnknown
  <2>3. ASSUME SetMessage(a, "sent")
        PROVE  attempt'[a].message = "sent" /\ attempt'[a].usage
    BY <1>0, <1>2, <2>3 DEF SetMessage, AttemptsInv, AttemptRow
  <2>4. QED
    BY <1>0, <1>2, <2>1, <2>2, <2>3, AfterCloseFailed DEF Message
<1>4. worker'[w].pc \in {"settle", "compensate", "idle"}
  BY <1>0, <1>1, AfterGoto, AfterStop
  DEF CallProvider, ProviderAccepts, ProviderRejects, ProviderBounces, ProviderUnknown, Of
<1>5. AttemptFine(a)'
  <2>1. Message(a)' = attempt'[a].message
    BY DEF Message
  <2>2. QED
    BY <1>0, <1>2, <1>3, <2>1, RowsStay DEF AttemptFine
<1>6. WorkerFine(w)'
  BY <1>4, WorkerFineElsewhere DEF Asking, Bearing, BeforePermit, Holding, Releasing
<1>7. QED
  BY <1>5, <1>6 DEF StaysFine

\* The credit is charged.
LEMMA SettleKeeps ==
    ASSUME OutreachInv, [OutreachNext]_allVars,
           NEW w \in Workers, NEW a \in Attempts, Serves(w, a), Settle(w)
    PROVE  StaysFine(w, a)
<1>0. /\ RowsInv /\ WorkersInv /\ At(w, "settle") /\ ~At(w, "idle")
      /\ UNCHANGED <<attempt, dispatched>> /\ Goto(w, "finalize")
  BY DEF OutreachInv, Settle, At, OutreachAlone, outreachVars
<1>1. a = Of(w) /\ AttemptFine(a)
  BY DEF Serves
<1>2. PICK k \in RowsOf(a) : /\ Settleable(a, k)
                             /\ CommitRow(k) \/ (IsCharged(k) /\ UNCHANGED vars)
  BY <1>1 DEF Settle
<1>3. /\ AttemptFine(a) /\ RowsOf(a) = {k} /\ Message(a) \in {"sent", "delivered"}
      /\ k \in SourceKeys /\ k[1] = a
  BY <1>2 DEF Settleable, Confirmed, Serves, RowsOf
<1>4. /\ \A j \in SourceKeys \ {k} : reservation'[j] = reservation[j]
      /\ reservation'[k].status = "COMMITTED" /\ IsCharged(k)'
  <2>1. CASE CommitRow(k)
    BY <1>0, <1>3, <2>1, RowActsWrite, AfterSettles DEF IsCharged
  <2>2. CASE IsCharged(k) /\ UNCHANGED vars
    BY <2>2 DEF IsCharged, vars
  <2>3. QED
    BY <1>2, <2>1, <2>2
<1>5. RowsOf(a)' = {k}
  BY <1>3, <1>4 DEF RowsOf
<1>6. worker'[w].pc = "finalize"
  BY <1>0, <1>1, AfterGoto DEF Of
<1>7. AttemptFine(a)'
  <2>1. Message(a)' = Message(a)
    BY <1>0 DEF Message
  <2>2. Backed(a)'
    BY <1>4, <1>5 DEF Backed, Live
  <2>3. QED
    BY <1>0, <1>3, <1>4, <1>5, <2>1, <2>2 DEF AttemptFine, Received
<1>8. WorkerFine(w)'
  BY <1>6, WorkerFineElsewhere DEF Asking, Bearing, BeforePermit, Holding, Releasing
<1>9. QED
  BY <1>7, <1>8 DEF StaysFine

(***************************************************************************)
(* The compensation of an attempt.  It reverses a row only for a message   *)
(* that could not be delivered, and then none of its credits is left.      *)
(***************************************************************************)
LEMMA CompensateFine ==
    ASSUME RowsInv, AttemptsInv, NEW a \in Attempts, AttemptFine(a), Compensate(a),
           UNCHANGED dispatched
    PROVE  /\ AttemptFine(a)' /\ Message(a)' = Message(a)
           /\ RowsSame(a) \/ Message(a) \in {"undeliverable", "bounced"}
<1>1. /\ attempt'[a].message = attempt[a].message /\ ~attempt'[a].job
  BY DEF Compensate, AttemptsInv, AttemptRow
<1>2. CASE Message(a) \notin {"undeliverable", "bounced"}
  <2>1. UNCHANGED vars /\ attempt'[a].usage = attempt[a].usage
    BY <1>2 DEF Compensate, AttemptsInv, AttemptRow
  <2>2. UNCHANGED <<reservation, current>>
    BY <2>1 DEF vars, paidVars
  <2>3. RowsSame(a) /\ Message(a)' = Message(a)
    BY <1>1, <2>2 DEF RowsSame, Message
  <2>4. QED
    BY <1>2, <2>1, <2>2, <2>3, RowsStay DEF AttemptFine
<1>3. ASSUME NEW k \in RowsOf(a), RowsOf(a) = {k}, Reverse(k),
             Message(a) \in {"undeliverable", "bounced"}
      PROVE  AttemptFine(a)' /\ Message(a)' = Message(a)
  <2>1. k \in SourceKeys /\ k[1] = a
    BY DEF RowsOf
  <2>2. /\ \A j \in SourceKeys \ {k} : reservation'[j] = reservation[j]
        /\ reservation'[k].status # "NONE" /\ ~Live(k)'
        /\ reservation'[k].status \notin {"AMBIGUOUS"}
        /\ reservation'[k].status = "COMMITTED" => reservation[k].status = "COMMITTED"
    <3>1. CASE ReleaseRow(k)
      BY <2>1, <3>1, RowActsWrite, AfterSettles DEF Live, HeldStatuses, IsCharged
    <3>2. CASE CompensateRow(k)
      <4>1. Corrects(k)
        BY <2>1, <3>2, RowActsWrite
      <4>2. QED
        BY <2>1, <4>1, AfterCorrects DEF Corrects, Live, HeldStatuses, IsCharged
    <3>3. CASE /\ reservation[k].status = "RELEASED" \/ reservation[k].compensated
               /\ UNCHANGED vars
      <4>1. UNCHANGED reservation /\ reservation[k].status \in {"RELEASED", "COMMITTED"}
        BY <2>1, <3>3 DEF vars, RowsInv, RowShape
      <4>2. QED
        BY <3>3, <4>1 DEF Live, HeldStatuses, IsCharged
    <3>4. QED
      BY <1>3, <3>1, <3>2, <3>3 DEF Reverse
  <2>3. RowsOf(a)' = {k}
    BY <1>3, <2>1, <2>2 DEF RowsOf
  <2>4. NoneLive(a)' /\ (Settled(a)' => Settled(a))
    BY <1>3, <2>2, <2>3 DEF NoneLive, Settled
  <2>5. Message(a)' = Message(a)
    BY <1>1, <2>1, <2>2 DEF RowsSame, Message
  <2>6. QED
    BY <1>3, <2>2, <2>3, <2>4, <2>5 DEF AttemptFine
<1>4. ASSUME ~Traceable(a), UNCHANGED vars, Message(a) \in {"undeliverable", "bounced"}
      PROVE  AttemptFine(a)' /\ Message(a)' = Message(a)
  <2>1. UNCHANGED <<reservation, current>>
    BY <1>4 DEF vars, paidVars
  <2>2. Message(a)' = Message(a)
    BY <1>1, <2>1 DEF RowsSame, Message
  <2>3. Message(a) = "undeliverable" => NoneLive(a)
    BY <1>4 DEF AttemptFine, Traceable
  <2>4. QED
    BY <1>4, <2>1, <2>2, <2>3, RowsStay DEF AttemptFine
<1>5. QED
  BY <1>2, <1>3, <1>4 DEF Compensate

LEMMA BounceKeeps ==
    ASSUME OutreachInv, [OutreachNext]_allVars,
           NEW w \in Workers, NEW a \in Attempts, Serves(w, a),
           ReconcileBounce(w)
    PROVE  StaysFine(w, a)
<1>0. /\ RowsInv /\ WorkersInv /\ AttemptsInv /\ ~At(w, "idle") /\ UNCHANGED dispatched
      /\ Stop(w) /\ Compensate(Of(w))
  BY DEF OutreachInv, ReconcileBounce, At
<1>1. a = Of(w) /\ AttemptFine(a)
  BY DEF Serves
<1>2. AttemptFine(a)'
  BY <1>0, <1>1, CompensateFine DEF Serves
<1>3. WorkerFine(w)'
  BY <1>0, AfterStop, WorkerFineElsewhere DEF Asking, Bearing, BeforePermit, Holding, Releasing
<1>4. QED
  BY <1>2, <1>3 DEF StaysFine

LEMMA OutreachKeeps ==
    ASSUME OutreachInv, [OutreachNext]_allVars,
           NEW w \in Workers, NEW a \in Attempts, Serves(w, a),
           OutreachSteps(w)
    PROVE  StaysFine(w, a)
<1>1. ~\E b \in Attempts : Inspect(w, b)
  BY DEF Inspect, Serves
<1>2. QED
  BY <1>1, ExistingKeeps, LookingKeeps, MarkingKeeps, PrepareKeeps, PermitKeeps, RefuseKeeps,
     CallKeeps, SettleKeeps, BounceKeeps
     DEF OutreachSteps, CheckConsent, Deliver, OutreachAlone, outreachVars

-----------------------------------------------------------------------------
(* Every step keeps the invariant.                                         *)

\* A worker begins with an attempt, or goes on with its own.
LEMMA WorkerKeeps ==
    ASSUME OutreachInv, [OutreachNext]_allVars, UncontendedInv, NEW w \in Workers,
           OutreachSteps(w) \/ (BillingSteps(w) /\ OutreachAlone)
    PROVE  UncontendedInv'
<1>0. /\ RowsInv /\ WorkersInv /\ AttemptsInv
      /\ contended \subseteq contended' /\ Shared' \subseteq contended'
  BY ContendedGrows DEF OutreachInv, UncontendedInv
<1>1. ASSUME NEW a \in Attempts, Inspect(w, a) PROVE UncontendedInv'
  <2>1. OnlyOf(w, a) /\ worker'[w].attempt = a
    BY <1>0, <1>1, InspectTouches
  <2>2. ASSUME a \notin contended' PROVE AttemptFine(a)' /\ WorkerFine(w)'
    <3>1. AttemptFine(a)
      BY <1>0, <2>2 DEF UncontendedInv
    <3>2. QED
      BY <1>1, <3>1, InspectKeeps DEF StaysFine
  <2>3. QED
    BY <2>1, <2>2, OwnStep
<1>2. ASSUME ~At(w, "idle") PROVE UncontendedInv'
  <2>1. PICK a \in Attempts : a = Of(w)
    BY <1>0, <1>2, WorkerFacts
  <2>2. OnlyOf(w, a)
    BY <1>0, <2>1, BillingTouches, OutreachTouches
  <2>3. ASSUME a \notin contended' PROVE AttemptFine(a)' /\ WorkerFine(w)'
    <3>1. Serves(w, a)
      BY <1>0, <1>2, <2>1, <2>3 DEF UncontendedInv, Serves
    <3>2. QED
      BY <3>1, OutreachKeeps, BillingKeeps DEF StaysFine
  <2>4. QED
    BY <2>1, <2>2, <2>3, OwnStep
<1>3. QED
  BY <1>1, <1>2, IdleInspects

\* A worker of a message that WhatsApp has dealt with is past its permit.
LEMMA PastThePermit ==
    ASSUME NEW w \in Workers, WorkerFine(w), UNCHANGED worker,
           Message(Of(w)) \in Received \cup {"bounced"}
    PROVE  WorkerFine(w)'
<1>1. /\ worker[w].pc \notin BeforePermit \cup {"releaseFail", "releaseStop", "send"}
  BY DEF WorkerFine, Received, At
<1>2. worker'[w].pc \notin Asking \cup Bearing \cup BeforePermit
  BY <1>1 DEF Asking, Bearing, BeforePermit, Holding, Releasing
<1>3. QED
  BY <1>2, WorkerFineElsewhere

\* A report that finds the attempt and its workers fine leaves them so.
LEMMA ReportFine ==
    ASSUME RowsInv, AttemptsInv, NEW a \in Attempts, AttemptFine(a), Reports(a),
           \A w \in Workers : Of(w) = a => WorkerFine(w)
    PROVE  AttemptFine(a)' /\ \A w \in Workers : Of(w) = a => WorkerFine(w)'
<1> DEFINE Goal == AttemptFine(a)' /\ \A w \in Workers : Of(w) = a => WorkerFine(w)'
<1>0. UNCHANGED <<worker, dispatched>>
  BY ReportTouches
<1>1. ASSUME AttemptFine(a)', Message(a) \in Received \cup {"bounced"}
      PROVE  Goal
  BY <1>0, <1>1, PastThePermit
<1>2. CASE ReportUndeliverable(a)
  <2> DEFINE waiting == attempt[a].status = "WAITING_FOR_RESPONSE" /\ attempt[a].linked
             r == [attempt[a] EXCEPT
                      !.message = "undeliverable",
                      !.status = IF waiting THEN "FAILED" ELSE attempt[a].status,
                      !.coded = attempt[a].coded \/ waiting,
                      !.job = TRUE]
  <2>1. UNCHANGED <<reservation, current>> /\ attempt' = [attempt EXCEPT ![a] = r]
    BY <1>2 DEF ReportUndeliverable, LedgerAlone, vars, paidVars
  <2>2. r.message = "undeliverable" /\ r.job /\ r.usage = attempt[a].usage
    BY <1>0 DEF AttemptsInv, AttemptRow
  <2>3. /\ Message(a)' = "undeliverable" /\ attempt'[a].job
        /\ attempt'[a].usage = attempt[a].usage
    BY <1>0, <2>1, <2>2 DEF Message, AttemptsInv
  <2>4. Message(a) \in {"sent", "undeliverable"}
    BY <1>2 DEF ReportUndeliverable
  <2>5. AttemptFine(a)'
    BY <1>0, <2>1, <2>3, <2>4, RowsStay DEF AttemptFine, Received
  <2>6. QED
    BY <1>1, <2>4, <2>5 DEF Received
<1>3. CASE ReportFailed(a) \/ ReportDelivered(a)
  <2>1. /\ UNCHANGED <<reservation, current>> /\ Message(a) \in {"sent", "undeliverable", "failed"}
        /\ \/ Message(a) = "sent" /\ SetMessage(a, "failed")
           \/ Message(a) = "sent" /\ SetMessage(a, "delivered")
           \/ SetMessage(a, "contradicted")
    BY <1>3 DEF ReportFailed, ReportDelivered, LedgerAlone, vars, paidVars
  <2>2. /\ \/ Message(a) = "sent" /\ Message(a)' \in {"failed", "delivered"}
           \/ Message(a)' = "contradicted"
        /\ attempt'[a].usage = attempt[a].usage
    BY <1>0, <2>1 DEF SetMessage, Message, AttemptsInv, AttemptRow
  <2>3. AttemptFine(a)'
    BY <1>0, <2>1, <2>2, RowsStay DEF AttemptFine, Received
  <2>4. QED
    BY <1>1, <2>1, <2>3 DEF Received
<1>4. CASE ReconcileReport(a)
  <2>1. /\ AttemptFine(a)' /\ Message(a)' = Message(a)
        /\ RowsSame(a) \/ Message(a) \in {"undeliverable", "bounced"}
    BY <1>0, <1>4, CompensateFine DEF ReconcileReport
  <2>2. CASE Message(a) \in {"undeliverable", "bounced"}
    BY <1>1, <2>1, <2>2 DEF Received
  <2>3. CASE RowsSame(a)
    <3>1. ASSUME NEW w \in Workers, Of(w) = a PROVE WorkerFine(w)'
      <4>1. attempt'[Of(w)].message = attempt[Of(w)].message
        BY <2>1, <3>1 DEF Message
      <4>2. QED
        BY <1>0, <2>3, <3>1, <4>1, SameShrinks, WorkerFineFrame
    <3>2. QED
      BY <2>1, <3>1
  <2>4. QED
    BY <2>1, <2>2, <2>3
<1>5. QED
  BY <1>2, <1>3, <1>4 DEF Reports

LEMMA ReportKeeps ==
    ASSUME OutreachInv, [OutreachNext]_allVars, UncontendedInv, NEW a \in Attempts, Reports(a)
    PROVE  UncontendedInv'
<1>1. OthersSame(a) /\ UNCHANGED worker
  BY ReportTouches DEF OutreachInv
<1>2. ASSUME a \notin contended
      PROVE  AttemptFine(a)' /\ \A w \in Workers : Of(w) = a => WorkerFine(w)'
  BY <1>2, ReportFine DEF OutreachInv, UncontendedInv
<1>3. QED
  BY <1>1, <1>2, ReportStep

(***************************************************************************)
(* The shop: a rollover gives back what is held in the period it closes,   *)
(* so that a credit behind a permit may go, but then with its period.      *)
(***************************************************************************)
LEMMA RolloverFrees ==
    ASSUME RowsInv, Rollover
    PROVE  /\ \A a \in Attempts : RowsShrink(a)
           /\ \A k \in SourceKeys : Live(k) => Live(k)' \/ (k[2] # 0 /\ Closed(k[2])')
           /\ current \in Nat /\ current' = current + 1
<1>1. /\ current \in 1 .. MaxPeriod - 1 /\ current' = current + 1
      /\ \A k \in SourceKeys : reservation'[k] =
            IF k \in HeldIn(current) THEN [reservation[k] EXCEPT !.status = "RELEASED"]
                                     ELSE reservation[k]
  BY DEF Rollover
<1>2. ASSUME NEW k \in SourceKeys, k \in HeldIn(current)
      PROVE  /\ reservation[k].status \in HeldStatuses /\ k[2] = current
             /\ reservation'[k].status = "RELEASED"
             /\ reservation'[k].kind = reservation[k].kind
  <2>1. reservation[k] \in Row
    BY DEF RowsInv, ReservationsTypeOK
  <2>2. QED
    BY <1>1, <1>2, <2>1 DEF HeldIn, Held, Row
<1>3. ASSUME NEW k \in SourceKeys, k \notin HeldIn(current)
      PROVE  reservation'[k] = reservation[k]
  BY <1>1, <1>3
<1>4. ASSUME NEW a \in Attempts PROVE RowsShrink(a)
  BY <1>2, <1>3 DEF RowsShrink, Live, IsCharged, HeldStatuses
<1>5. ASSUME NEW k \in SourceKeys, Live(k), ~Live(k)' PROVE k[2] # 0 /\ Closed(k[2])'
  <2>1. k \in HeldIn(current)
    BY <1>3, <1>5 DEF Live, IsCharged
  <2>2. QED
    BY <1>1, <1>2, <2>1, TableAssumption DEF Closed
<1>6. QED
  BY <1>1, <1>4, <1>5, TableAssumption

LEMMA ShopKeeps ==
    ASSUME OutreachInv, [OutreachNext]_allVars, UncontendedInv,
           ShopSteps, UNCHANGED worker, OutreachAlone
    PROVE  UncontendedInv'
<1>0. /\ RowsInv /\ WorkersInv /\ WorkersInv' /\ current' >= current
      /\ UNCHANGED <<worker, attempt, dispatched>>
  BY OutreachInvStep, CurrentStaysInRange DEF OutreachInv, WorkersInv, OutreachAlone, outreachVars
<1>1. contended \subseteq contended' /\ Shared' \subseteq contended'
  BY ContendedGrows DEF UncontendedInv
<1>2. \A a \in Attempts : RowsShrink(a)
  BY <1>0, ShopWrites, SameShrinks, RolloverFrees DEF RowsSame
<1>3. ASSUME NEW a \in Attempts, a \notin contended' PROVE AttemptFine(a)'
  <2>1. AttemptFine(a)
    BY <1>1, <1>3 DEF UncontendedInv
  <2>2. CASE UNCHANGED reservation
    BY <1>0, <2>1, <2>2, AttemptFineFrame DEF RowsSame
  <2>3. CASE Rollover
    <3>1. Message(a)' = Message(a)
      BY <1>0 DEF Message
    <3>2. Backed(a) => Backed(a)'
      <4>1. ASSUME NEW k \in RowsOf(a), Live(k) \/ (k[2] # 0 /\ Closed(k[2]))
            PROVE  Live(k)' \/ (k[2] # 0 /\ Closed(k[2])')
        <5>1. k \in SourceKeys /\ k[2] \in 0 .. MaxPeriod
          BY DEF RowsOf, SourceKeys
        <5>2. CASE Live(k)
          BY <1>0, <2>3, <5>1, <5>2, RolloverFrees
        <5>3. CASE k[2] # 0 /\ Closed(k[2])
          BY <1>0, <2>3, <5>1, <5>3, RolloverFrees, TableAssumption DEF Closed
        <5>4. QED
          BY <4>1, <5>2, <5>3
      <4>2. RowsOf(a)' = RowsOf(a)
        BY <1>2, AfterShrink
      <4>3. QED
        BY <4>1, <4>2 DEF Backed
    <3>3. QED
      BY <1>0, <1>2, <2>1, <3>1, <3>2, AfterShrink DEF AttemptFine
  <2>4. QED
    BY <2>2, <2>3, ShopWrites
<1>4. ASSUME NEW w \in Workers, Of(w) \notin contended' PROVE WorkerFine(w)'
  <2>1. CASE At(w, "idle")
    BY <1>0, <2>1, WorkerFineElsewhere
    DEF At, Asking, Bearing, BeforePermit, Holding, Releasing
  <2>2. CASE ~At(w, "idle")
    <3>1. WorkerFine(w) /\ Of(w) \in Attempts
      BY <1>0, <1>1, <1>4, <2>2, WorkerFacts DEF UncontendedInv
    <3>2. QED
      BY <1>0, <1>2, <3>1, WorkerFineFrame
  <2>3. QED
    BY <2>1, <2>2
<1>5. QED
  <2>1. \A a \in Attempts \ contended' : AttemptFine(a)'
    BY <1>3
  <2>2. \A w \in Workers : Of(w)' \notin contended' => WorkerFine(w)'
    BY <1>0, <1>4 DEF Of
  <2>3. QED
    BY <1>1, <2>1, <2>2 DEF UncontendedInv

LEMMA UncontendedInvInit ==
    ASSUME OutreachInit PROVE UncontendedInv
<1>1. \A a \in Attempts : RowsOf(a) = {}
  BY DEF OutreachInit, Init, ReservationsInit, RowsOf, NoRow
<1>2. \A w \in Workers : worker[w].pc = "idle" /\ Of(w) = None
  BY DEF OutreachInit, BillingInit, Idle, Of
<1>3. ASSUME NEW a \in Attempts PROVE AttemptFine(a)
  BY <1>1 DEF OutreachInit, AttemptFine, Message, Settled, NoneLive, Received
<1>4. ASSUME NEW w \in Workers PROVE WorkerFine(w)
  BY <1>2 DEF WorkerFine, At, Asking, Bearing, BeforePermit, Holding, Releasing
<1>5. Shared = {}
  BY <1>2, InitialAssumption DEF Shared
<1>6. QED
  BY <1>3, <1>4, <1>5 DEF UncontendedInv

LEMMA UncontendedInvStep ==
    ASSUME OutreachInv, [OutreachNext]_allVars, UncontendedInv
    PROVE  UncontendedInv'
<1>1. CASE UNCHANGED allVars
  <2>1. UNCHANGED <<reservation, current, worker, attempt, dispatched, contended>>
    BY <1>1 DEF allVars, vars, outreachVars, paidVars
  <2>2. \A a \in Attempts : AttemptFine(a) => AttemptFine(a)'
    BY <2>1, RowsStay DEF AttemptFine, Message
  <2>3. ASSUME NEW w \in Workers, WorkerFine(w) PROVE WorkerFine(w)'
    <3>1. RowsShrink(Of(w))
      BY <2>1, SameShrinks DEF RowsSame
    <3>2. QED
      BY <2>1, <2>3, <3>1, WorkerFineFrame
  <2>4. Shared' = Shared /\ \A w \in Workers : Of(w)' = Of(w)
    BY <2>1 DEF Shared, Of
  <2>5. QED
    BY <2>1, <2>2, <2>3, <2>4 DEF UncontendedInv
<1>2. CASE OutreachNext
  BY <1>2, WorkerKeeps, ReportKeeps, ShopKeeps DEF OutreachNext, OutreachActs
<1>3. QED
  BY <1>1, <1>2

LEMMA UncontendedInvariant == OutreachSpec => []UncontendedInv
<1>1. OutreachInit => UncontendedInv
  BY UncontendedInvInit
<1>2. OutreachInv /\ UncontendedInv /\ [OutreachNext]_allVars => UncontendedInv'
  BY UncontendedInvStep
<1>3. QED
  BY <1>1, <1>2, OutreachInvariant, PTL DEF OutreachSpec

(***************************************************************************)
(* The customer gets one message: unless a second worker started on the    *)
(* attempt while the first one was at work, no interleaving with the       *)
(* provider's reports, no crash and no retry calls the provider again, and *)
(* what two workers do to another attempt makes no difference.             *)
(***************************************************************************)
THEOREM SentOnce ==
    OutreachSpec => []( /\ \A a \in Attempts \ contended : dispatched[a] <= 1
                        /\ contended = {} => SentAtMostOnce )
<1>1. UncontendedInv => /\ \A a \in Attempts \ contended : dispatched[a] <= 1
                        /\ contended = {} => SentAtMostOnce
  BY DEF UncontendedInv, AttemptFine, SentAtMostOnce
<1>2. QED
  BY <1>1, UncontendedInvariant, PTL

(***************************************************************************)
(* An attempt that is not contended never holds, or is charged, two        *)
(* credits, over any number of sources and billing periods it is moved     *)
(* through by admit, revalidate, release and revive.                       *)
(***************************************************************************)
THEOREM OneCredit ==
    OutreachSpec => []( /\ \A a \in Attempts \ contended :
                               \A j, k \in RowsOf(a) : Live(j) /\ Live(k) => j = k
                        /\ contended = {} => OneCreditPerAttempt )
<1>1. ASSUME UncontendedInv
      PROVE  \A a \in Attempts \ contended : \A j, k \in RowsOf(a) : Live(j) /\ Live(k) => j = k
  BY <1>1 DEF UncontendedInv, AttemptFine
<1>2. ASSUME UncontendedInv, contended = {} PROVE OneCreditPerAttempt
  <2>1. ASSUME NEW a \in Attempts
        PROVE  Cardinality({k \in RowsOf(a) : reservation[k].status \in HeldStatuses
                                                \/ IsCharged(k)}) <= 1
    <3> DEFINE S == {k \in RowsOf(a) : reservation[k].status \in HeldStatuses \/ IsCharged(k)}
    <3>1. \A j, k \in S : j = k
      BY <1>1, <1>2 DEF Live
    <3>2. QED
      BY <3>1, AtMostOne
  <2>2. QED
    BY <2>1 DEF OneCreditPerAttempt
<1>3. QED
  BY <1>1, <1>2, UncontendedInvariant, PTL

(***************************************************************************)
(* Behind a message with a permit there is its credit, or the billing      *)
(* period it went with, unless two workers met on the attempt:             *)
(* releaseBeforeProvider never runs for it.                                *)
(***************************************************************************)
THEOREM PermitIsBacked ==
    OutreachSpec => []( /\ \A a \in Attempts \ contended :
                               Message(a) \in {"admitted", "sent", "delivered", "failed"} => Backed(a)
                        /\ contended = {} => PermittedSendHasCredit )
<1>1. UncontendedInv => \A a \in Attempts \ contended :
         Message(a) \in {"admitted", "sent", "delivered", "failed"} => Backed(a)
  BY DEF UncontendedInv, AttemptFine
<1>2. UncontendedInv /\ contended = {} => PermittedSendHasCredit
  BY <1>1 DEF Backed, Live, PermittedSendHasCredit
<1>3. QED
  BY <1>1, <1>2, UncontendedInvariant, PTL

(***************************************************************************)
(* When reconcile has dealt with the report of an undeliverable message,   *)
(* none of the attempt's rows holds a credit or is charged for it, unless  *)
(* two workers met on the attempt.                                         *)
(***************************************************************************)
THEOREM UndeliverableIsFree ==
    OutreachSpec => []( /\ \A a \in Attempts \ contended :
                               Message(a) = "undeliverable" /\ ~attempt[a].job => NoneLive(a)
                        /\ contended = {} => UndeliverableCostsNothing )
<1>1. UncontendedInv => \A a \in Attempts \ contended :
         Message(a) = "undeliverable" /\ ~attempt[a].job => NoneLive(a)
  BY DEF UncontendedInv, AttemptFine
<1>2. UncontendedInv /\ contended = {} => UndeliverableCostsNothing
  BY <1>1 DEF NoneLive, Live, UndeliverableCostsNothing
<1>3. QED
  BY <1>1, <1>2, UncontendedInvariant, PTL
-----------------------------------------------------------------------------
(* What holds of every attempt, contended or not.                          *)

(***************************************************************************)
(* A permit serves one call: the worker that is about to call the provider *)
(* is the only one of its attempt to be there, and the message is the one  *)
(* it has the permit for.                                                  *)
(***************************************************************************)
PermitServesOne ==
    /\ \A w \in Workers : At(w, "send") => Message(Of(w)) = "admitted" /\ attempt[Of(w)].usage
    /\ \A v, w \in Workers : At(v, "send") /\ At(w, "send") /\ Of(v) = Of(w) => v = w

\* Only the permit leads to the provider.
LEMMA NeverToSend ==
    ASSUME WorkersInv, NEW w \in Workers, ~TakePermit(w),
           OutreachSteps(w) \/ (BillingSteps(w) /\ OutreachAlone)
    PROVE  worker'[w].pc # "send"
<1>1. CASE BillingSteps(w)
  <2>1. \/ ReadPolicy(w) \/ Revalidate(w) \/ Stop(w)
        \/ \E pc \in Asking \cup {"blocked", "exhausted", "markFailed", "markBlocked"} : Goto(w, pc)
        \/ \E kind, k : Admit(w, kind, k)
    BY <1>1
    DEF BillingSteps, AskPromotional, AskPaid, AskPurchased, AskFree, ReviveFree,
        RevivePurchased, ReplayDurable, Release, AfterRelease, Releasing, Abandon, Asking
  <2>2. QED
    BY <2>1, AfterReadPolicy, AfterRevalidate, AfterStop, AfterGoto, AfterAdmit DEF Asking
<1>2. CASE OutreachSteps(w)
  <2>1. \/ \E a \in Attempts : Inspect(w, a)
        \/ RevalidateExisting(w) \/ Stop(w)
        \/ \E pc \in Releasing \cup {"revalidate", "deliver", "fence", "settle", "finalize",
                                     "compensate"} : Goto(w, pc)
    BY <1>2
    DEF OutreachSteps, CheckConsent, MarkFailed, MarkBlocked, Prepare, Duplicate, Deliver,
        RefusePermit, CallProvider, ProviderAccepts, ProviderRejects, ProviderBounces,
        ProviderUnknown, Settle, Finalize, ReconcileBounce, Releasing
  <2>2. QED
    BY <2>1, AfterInspect, AfterExisting, AfterStop, AfterGoto DEF Releasing
<1>3. QED
  BY <1>1, <1>2

\* While a message has its permit, only its caller can do something to it.
LEMMA PermitStays ==
    ASSUME OutreachInv, NEW w \in Workers, NEW a \in Attempts, a = Of(w),
           OutreachSteps(w) \/ (BillingSteps(w) /\ OutreachAlone),
           ~At(w, "send"), Message(a) = "admitted", attempt[a].usage
    PROVE  Message(a)' = "admitted" /\ attempt'[a].usage /\ worker'[w].pc # "send"
<1>0. WorkersInv /\ AttemptsInv
  BY DEF OutreachInv
<1>1. ~TakePermit(w) /\ ~CallProvider(w)
  BY DEF TakePermit, CallProvider
<1>2. CASE UNCHANGED attempt
  BY <1>0, <1>1, <1>2, NeverToSend DEF Message
<1>3. CASE MarkFailed(w) \/ MarkBlocked(w) \/ Finalize(w)
  <2>1. attempt'[a].message = attempt[a].message /\ attempt'[a].usage = attempt[a].usage
    <3>1. CASE MarkFailed(w)
      BY <1>0, <3>1 DEF MarkFailed, AttemptsInv, AttemptRow
    <3>2. CASE MarkBlocked(w)
      BY <1>0, <3>2 DEF MarkBlocked, AttemptsInv, AttemptRow
    <3>3. CASE Finalize(w)
      BY <1>0, <3>3 DEF Finalize, AttemptsInv, AttemptRow
    <3>4. QED
      BY <1>3, <3>1, <3>2, <3>3
  <2>2. QED
    BY <1>0, <1>1, <2>1, NeverToSend DEF Message
<1>4. CASE ReconcileBounce(w)
  <2>1. attempt'[a].message = attempt[a].message /\ attempt'[a].usage = attempt[a].usage
    BY <1>0, <1>4 DEF ReconcileBounce, Compensate, Message, AttemptsInv, AttemptRow
  <2>2. QED
    BY <1>0, <1>1, <2>1, NeverToSend DEF Message
<1>5. QED
  BY <1>1, <1>2, <1>3, <1>4
  DEF OutreachSteps, Inspect, RevalidateExisting, CheckConsent, Prepare, Exists, Deliver,
      RefusePermit, Settle, OutreachAlone, outreachVars

LEMMA WorkerKeepsPermits ==
    ASSUME OutreachInv, PermitServesOne, NEW w \in Workers,
           OutreachSteps(w) \/ (BillingSteps(w) /\ OutreachAlone)
    PROVE  PermitServesOne'
<1>0. RowsInv /\ WorkersInv /\ AttemptsInv
  BY DEF OutreachInv
<1>1. CASE At(w, "idle")
  <2>1. PICK a \in Attempts : Inspect(w, a)
    BY <1>1, IdleInspects
  <2>2. Elsewhere(w) /\ worker'[w].pc \in {"settle", "existing"}
    BY <1>0, <2>1, AfterInspect
  <2>3. UNCHANGED attempt
    BY <2>1 DEF Inspect, OutreachAlone, outreachVars
  <2>4. QED
    BY <2>2, <2>3 DEF PermitServesOne, Elsewhere, At, Of, Message
<1>2. CASE ~At(w, "idle")
  <2>1. PICK a \in Attempts : a = Of(w) /\ OnlyOf(w, a)
    BY <1>0, <1>2, WorkerFacts, BillingTouches, OutreachTouches
  <2>2. \A v \in Workers \ {w} : /\ worker'[v] = worker[v]
                                 /\ At(v, "send") => Of(v) \in Attempts
    BY <1>0, <2>1, WorkerFacts DEF OnlyOf, Elsewhere, At
  <2>3. \A b \in Attempts \ {a} : attempt'[b] = attempt[b]
    BY <2>1 DEF OnlyOf, OthersSame
  <2>4. ASSUME \A v \in Workers \ {w} : At(v, "send") => Of(v) # a,
               worker'[w].pc = "send" =>
                  worker'[w].attempt = a /\ attempt'[a].message = "admitted" /\ attempt'[a].usage
        PROVE  PermitServesOne'
    BY <2>2, <2>3, <2>4 DEF PermitServesOne, At, Of, Message
  <2>5. ASSUME NEW v \in Workers \ {w}, At(v, "send"), Of(v) = a PROVE PermitServesOne'
    <3>1. ~At(w, "send") /\ Message(a) = "admitted" /\ attempt[a].usage
      BY <2>1, <2>5 DEF PermitServesOne
    <3>2. Message(a)' = "admitted" /\ attempt'[a].usage /\ worker'[w].pc # "send"
      BY <2>1, <3>1, PermitStays
    <3>3. QED
      BY <2>2, <2>3, <3>2 DEF PermitServesOne, At, Of, Message
  <2>6. CASE TakePermit(w)
    <3>1. /\ worker'[w].attempt = a /\ attempt'[a].message = "admitted" /\ attempt'[a].usage
          /\ Message(a) = "prepared"
      BY <1>0, <2>1, <2>6, AfterGoto DEF TakePermit, SetMessage, AttemptsInv, AttemptRow, Of
    <3>2. \A v \in Workers \ {w} : At(v, "send") => Of(v) # a
      BY <3>1 DEF PermitServesOne
    <3>3. QED
      BY <2>4, <3>1, <3>2
  <2>7. CASE ~TakePermit(w)
    <3>1. worker'[w].pc # "send"
      BY <1>0, <1>2, <2>7, NeverToSend
    <3>2. QED
      BY <2>4, <2>5, <3>1
  <2>8. QED
    BY <2>6, <2>7
<1>3. QED
  BY <1>1, <1>2

LEMMA ReportKeepsPermits ==
    ASSUME OutreachInv, PermitServesOne, NEW a \in Attempts, Reports(a)
    PROVE  PermitServesOne'
<1>1. OthersSame(a) /\ UNCHANGED worker
  BY ReportTouches DEF OutreachInv
<1>2. Message(a) = "admitted" => Message(a)' = "admitted" /\ (attempt[a].usage => attempt'[a].usage)
  BY DEF Reports, ReportUndeliverable, ReportFailed, ReportDelivered, ReconcileReport, Compensate,
         Message, OutreachInv, AttemptsInv, AttemptRow
<1>3. \A w \in Workers : At(w, "send") => Of(w) \in Attempts
  BY WorkerFacts DEF OutreachInv, At
<1>4. QED
  BY <1>1, <1>2, <1>3 DEF PermitServesOne, OthersSame, At, Of, Message

(***************************************************************************)
(* Each call of the provider has a permit to itself, however many workers  *)
(* serve the attempt: a lapsed checkout lock alone never lets two workers  *)
(* send the message that fenceProviderSend admitted.                       *)
(***************************************************************************)
THEOREM OneCallPerPermit == OutreachSpec => []PermitServesOne
<1>1. OutreachInit => PermitServesOne
  BY DEF OutreachInit, BillingInit, Idle, PermitServesOne, At
<1>2. ASSUME OutreachInv, PermitServesOne, [OutreachNext]_allVars PROVE PermitServesOne'
  <2>1. CASE UNCHANGED <<worker, attempt>>
    BY <1>2, <2>1 DEF PermitServesOne, At, Of, Message
  <2>2. CASE OutreachNext
    BY <1>2, <2>1, <2>2, WorkerKeepsPermits, ReportKeepsPermits
    DEF OutreachNext, OutreachActs, OutreachAlone, outreachVars
  <2>3. QED
    BY <1>2, <2>1, <2>2 DEF allVars, outreachVars
<1>3. QED
  BY <1>1, <1>2, OutreachInvariant, PTL DEF OutreachSpec
=============================================================================
