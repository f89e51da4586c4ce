-------------------------- MODULE RecoveryBilling --------------------------
(***************************************************************************)
(* How a worker obtains, keeps and gives back the credit of one outreach   *)
(* attempt (recovery-billing.service.ts and recovery-billing/): the        *)
(* policy is read, the sources are asked one after the other, and what was *)
(* admitted is looked at again before the provider is called.  Each source *)
(* is asked in a transaction of its own, so other workers, the billing     *)
(* period and the merchant's plan move between any two of these steps.     *)
(*                                                                         *)
(* A worker serves one attempt at a time, and an attempt may have several  *)
(* workers.  What happens before the first step and after "admitted" or    *)
(* "blocked" belongs to the outreach that extends this module.             *)
(***************************************************************************)
EXTENDS CreditLedger

CONSTANTS
    Workers,        \* processors of recovery jobs
    Contracts       \* the contract states that occur

(***************************************************************************)
(* paid: an active metered plan; free: an active plan without included     *)
(* credits; frozen: the subscription is frozen; ended: no contract after a *)
(* verified cancellation; required: no contract otherwise.                 *)
(***************************************************************************)
ASSUME ContractAssumption ==
    /\ Contracts \subseteq {"paid", "free", "frozen", "ended", "required"}
    /\ "free" \in Contracts

VARIABLES
    contract,   \* the subscription as the policy resolvers project it
    paused,     \* newRecoveriesPaused, or the feature is not available
    worker      \* Workers -> its place, its attempt, and the admission it holds

policyVars == <<contract, paused>>

(***************************************************************************)
(* kind and key are the admission; period is the billing period whose      *)
(* included credits the policy offered (0: none) and post says that it was *)
(* a post-contract policy; checked, that revalidateBeforeProvider ran;     *)
(* resumes, that the outreach found a prepared message.                    *)
(***************************************************************************)
Releasing == {"releaseFail", "releaseBlock", "releaseAgain", "releaseStop"}
Asking == {"policy", "promotional", "paid", "purchased", "free",
           "reviveFree", "revivePurchased"}
Places == {"idle", "existing", "admitted", "blocked", "exhausted", "revalidate",
           "deliver", "fence", "send", "settle", "finalize", "compensate",
           "markFailed", "markBlocked"} \cup Asking \cup Releasing

BillingTypeOK ==
    /\ contract \in Contracts
    /\ paused \in BOOLEAN
    /\ worker \in [Workers -> [pc : Places, attempt : Attempts \cup {None},
                               kind : Kinds, key : SourceKeys \cup {None},
                               period : 0 .. MaxPeriod, post : BOOLEAN,
                               checked : BOOLEAN, resumes : BOOLEAN]]
    /\ \A w \in Workers :
          /\ worker[w].attempt = None <=> worker[w].pc = "idle"
          /\ worker[w].key # None => worker[w].key[1] = worker[w].attempt

Idle == [pc |-> "idle", attempt |-> None, kind |-> "none", key |-> None,
         period |-> 0, post |-> FALSE, checked |-> FALSE, resumes |-> FALSE]

BillingInit ==
    /\ contract = "free"
    /\ paused = FALSE
    /\ worker = [w \in Workers |-> Idle]

At(w, pc) == worker[w].pc = pc
Goto(w, pc) == worker' = [worker EXCEPT ![w].pc = pc]
\* Mutant: a worker keeps the admission of its last attempt.
MutStop(w) == worker' = [worker EXCEPT ![w].pc = "idle", ![w].attempt = None]
Stop(w) == worker' = [worker EXCEPT ![w] = Idle]
Admit(w, kind, k) ==
    worker' = [worker EXCEPT ![w].pc = "admitted", ![w].kind = kind, ![w].key = k]

\* The ledger moves in one source only.
OnlyFree == UNCHANGED <<paidVars, purchasedVars, seen, promotionalVars>>
OnlyPaid == UNCHANGED <<freeCounter, purchasedVars, seen, promotionalVars>>
OnlyPurchased == UNCHANGED <<freeCounter, paidVars, seen, promotionalVars>>
OnlyPromotional == UNCHANGED <<freeCounter, paidVars, purchasedVars, seen>>

-----------------------------------------------------------------------------
(* admit.                                                                  *)

\* The period whose included credits the policy offers (phase ACTIVE).
IncludedPeriod == IF contract = "paid" /\ ~ended THEN current ELSE 0

\* What admits nothing, and costs an admission that is already held.
Refused ==
    \/ contract = "required"
    \/ paused
    \/ ~Woo /\ (contract = "frozen" \/ (contract = "paid" /\ ended))

ReadPolicy(w) ==
    /\ At(w, "policy")
    /\ worker' = [worker EXCEPT
          ![w].pc = IF Refused THEN "blocked"
                    ELSE IF contract = "ended" THEN "purchased" ELSE "promotional",
          ![w].post = contract = "ended",
          ![w].period = IncludedPeriod]
    /\ UNCHANGED <<vars, policyVars>>

\* A replay of a row that is reserved or committed admits as well.
Admits(answer) == answer \in {"RESERVED", "COMMITTED"}
InFlight(answer) == answer \in {"AMBIGUOUS", "RELEASED"}

AskPromotional(w) ==
    LET a == worker[w].attempt
        answer == PromotionalReserveOutcome(a, paused)
    IN  /\ At(w, "promotional")
        /\ \/ /\ \E g \in Grants : ReservePromotional(a, g, paused)
              /\ OnlyPromotional
              /\ Admit(w, "promotional", PlainKey(a))
           \/ Admits(answer) /\ UNCHANGED vars /\ Admit(w, "promotional", PlainKey(a))
           \/ InFlight(answer) /\ UNCHANGED vars /\ Goto(w, "blocked")
           \/ /\ answer = "unavailable"
              /\ UNCHANGED vars
              /\ Goto(w, IF worker[w].period = 0 THEN "purchased" ELSE "paid")
        /\ UNCHANGED policyVars

\* The service takes the period that is current now, not the policy's.
AskPaid(w) ==
    LET a == worker[w].attempt
        answer == PaidReserveOutcome(a, current)
    IN  /\ At(w, "paid")
        /\ current \in Periods
        /\ \/ ReservePaid(a, current) /\ OnlyPaid /\ Admit(w, "paid", PaidKey(a, current))
           \/ Admits(answer) /\ UNCHANGED vars /\ Admit(w, "paid", PaidKey(a, current))
           \/ InFlight(answer) /\ UNCHANGED vars /\ Goto(w, "blocked")
           \/ answer = "exhausted" /\ UNCHANGED vars /\ Goto(w, "purchased")
           \/ answer = "throws" /\ UNCHANGED vars /\ Stop(w)
        /\ UNCHANGED policyVars

\* An existing row belongs to either durable source, and is admitted, left
\* alone, or revived through the source that owns it.
ReplayDurable(w, asked, answer) ==
    LET a == worker[w].attempt
        kind == reservation[PlainKey(a)].kind
    IN  /\ kind \in {"free", "purchased"}
        /\ \/ Admits(answer) /\ Admit(w, kind, PlainKey(a))
           \/ InFlight(answer) /\ kind = asked /\ Goto(w, "blocked")
           \/ answer = "AMBIGUOUS" /\ kind # asked /\ Goto(w, "blocked")
           \/ /\ answer = "RELEASED" /\ kind # asked
              /\ Goto(w, IF kind = "free" THEN "reviveFree" ELSE "revivePurchased")

AskPurchased(w) ==
    LET a == worker[w].attempt
        answer == PurchasedReserveOutcome(a)
    IN  /\ At(w, "purchased")
        /\ \/ /\ \E l \in Lots : ReservePurchased(a, l)
              /\ OnlyPurchased
              /\ Admit(w, "purchased", PlainKey(a))
           \/ UNCHANGED vars /\ ReplayDurable(w, "purchased", answer)
           \/ answer = "exhausted" /\ UNCHANGED vars /\ Goto(w, "free")
           \/ answer = "throws" /\ UNCHANGED vars /\ Stop(w)
        /\ UNCHANGED policyVars

\* reservePostContract does not look at the pause.
FreePause(w) == paused /\ ~worker[w].post

AskFree(w) ==
    LET a == worker[w].attempt
        answer == FreeReserveOutcome(a, FreePause(w))
    IN  /\ At(w, "free")
        /\ \/ /\ ReserveFree(a, FreePause(w))
              /\ OnlyFree
              /\ Admit(w, "free", PlainKey(a))
           \/ UNCHANGED vars /\ ReplayDurable(w, "free", answer)
           \/ answer = "exhausted" /\ UNCHANGED vars /\ Goto(w, "exhausted")
           \/ answer = "paused" /\ UNCHANGED vars /\ Goto(w, "blocked")
           \/ answer = "throws" /\ UNCHANGED vars /\ Stop(w)
        /\ UNCHANGED policyVars

\* The second reservation call of the durable fallbacks.
ReviveFree(w) ==
    LET a == worker[w].attempt
        answer == FreeReserveOutcome(a, FreePause(w))
    IN  /\ At(w, "reviveFree")
        /\ \/ /\ ReserveFree(a, FreePause(w))
              /\ OnlyFree
              /\ Admit(w, "free", PlainKey(a))
           \/ /\ answer # "reserved"
              /\ UNCHANGED vars
              /\ IF Admits(answer) THEN Admit(w, "free", PlainKey(a))
                                   ELSE Goto(w, "blocked")
        /\ UNCHANGED policyVars

RevivePurchased(w) ==
    LET a == worker[w].attempt
        answer == PurchasedReserveOutcome(a)
    IN  /\ At(w, "revivePurchased")
        /\ \/ /\ \E l \in Lots : ReservePurchased(a, l)
              /\ OnlyPurchased
              /\ Admit(w, "purchased", PlainKey(a))
           \/ /\ answer # "reserved"
              /\ UNCHANGED vars
              /\ IF Admits(answer) THEN Admit(w, "purchased", PlainKey(a))
                                   ELSE Goto(w, "blocked")
        /\ UNCHANGED policyVars

-----------------------------------------------------------------------------
(* revalidateBeforeProvider and the lifecycle calls.                       *)

\* The admissions that the present policy lets stand.
Keeps(kind, period) ==
    \/ kind \in {"free", "purchased"}
    \/ /\ kind = "promotional" /\ Woo
       /\ contract = "frozen" \/ (contract = "paid" /\ ended)
    \/ kind = "paid" /\ IncludedPeriod # 0 /\ IncludedPeriod = period

\* Mutant: the admission that no longer stands is not given back.
MutRevalidate(w) ==
    LET keeps == Keeps(worker[w].kind, worker[w].period)
    IN  /\ At(w, "revalidate")
        /\ worker' = [worker EXCEPT
              ![w].checked = TRUE,
              ![w].pc = CASE Refused \/ (~keeps /\ contract = "ended") -> "releaseBlock"
                          [] ~Refused /\ keeps -> "admitted"
                          [] OTHER -> "policy"]
        /\ UNCHANGED <<vars, policyVars>>

Revalidate(w) ==
    LET keeps == Keeps(worker[w].kind, worker[w].period)
    IN  /\ At(w, "revalidate")
        /\ worker' = [worker EXCEPT
              ![w].checked = TRUE,
              ![w].pc = CASE Refused \/ (~keeps /\ contract = "ended") -> "releaseBlock"
                          [] ~Refused /\ keeps -> "admitted"
                          [] OTHER -> "releaseAgain"]
        /\ UNCHANGED <<vars, policyVars>>

\* The source that owns row k commits, releases or compensates it.
CommitRow(k) ==
    \/ reservation[k].kind = "free" /\ CommitFree(k[1]) /\ OnlyFree
    \/ reservation[k].kind = "paid" /\ CommitPaid(k[1], k[2]) /\ OnlyPaid
    \/ reservation[k].kind = "purchased" /\ CommitPurchased(k[1]) /\ OnlyPurchased
    \/ reservation[k].kind = "promotional" /\ CommitPromotional(k[1]) /\ OnlyPromotional
ReleaseRow(k) ==
    \/ reservation[k].kind = "free" /\ ReleaseFree(k[1]) /\ OnlyFree
    \/ reservation[k].kind = "paid" /\ ReleasePaid(k[1], k[2]) /\ OnlyPaid
    \/ reservation[k].kind = "purchased" /\ ReleasePurchased(k[1]) /\ OnlyPurchased
    \/ reservation[k].kind = "promotional" /\ ReleasePromotional(k[1]) /\ OnlyPromotional
CompensateRow(k) ==
    \/ reservation[k].kind = "free" /\ CompensateFree(k[1]) /\ OnlyFree
    \/ reservation[k].kind = "paid" /\ CompensatePaid(k[1], k[2]) /\ OnlyPaid
    \/ reservation[k].kind = "purchased" /\ CompensatePurchased(k[1]) /\ OnlyPurchased
    \/ reservation[k].kind = "promotional" /\ CompensatePromotional(k[1]) /\ OnlyPromotional

\* Mutant: the row is given back and its counter is not.
MutReleaseAdmission(w) ==
    LET k == worker[w].key
    IN  /\ IF Transitions(k, worker[w].kind) THEN WriteStatus(k, "RELEASED")
                                             ELSE UNCHANGED reservation
        /\ UNCHANGED <<freeCounter, paidVars, purchasedVars, seen, promotionalVars>>

\* releaseBeforeProvider; on a row that is no longer reserved it is a replay.
ReleaseAdmission(w) ==
    LET k == worker[w].key
    IN  IF Transitions(k, worker[w].kind) THEN ReleaseRow(k) ELSE UNCHANGED vars

AfterRelease ==
    [pc \in Releasing |-> CASE pc = "releaseFail" -> "markFailed"
                            [] pc = "releaseBlock" -> "markBlocked"
                            [] pc = "releaseAgain" -> "policy"
                            [] pc = "releaseStop" -> "idle"]

Release(w) ==
    /\ worker[w].pc \in Releasing
    /\ ReleaseAdmission(w)
    /\ IF worker[w].pc = "releaseStop" THEN Stop(w)
       ELSE Goto(w, AfterRelease[worker[w].pc])
    /\ UNCHANGED policyVars

(***************************************************************************)
(* The process stops, the checkout lock is lost, a call throws, or the     *)
(* handler returns before its next write: what is durable stays.           *)
(***************************************************************************)
Abandon(w) ==
    /\ ~At(w, "idle")
    /\ Stop(w)
    /\ UNCHANGED <<vars, policyVars>>

BillingSteps(w) ==
    \/ ReadPolicy(w)
    \/ AskPromotional(w)
    \/ AskPaid(w)
    \/ AskPurchased(w)
    \/ AskFree(w)
    \/ ReviveFree(w)
    \/ RevivePurchased(w)
    \/ Revalidate(w)
    \/ Release(w)
    \/ Abandon(w)

-----------------------------------------------------------------------------
(* The rest of the shop: plan and pause, periods, purchases, promotions.   *)

ContractChanges ==
    /\ \E c \in Contracts \ {contract} :
          /\ c = "paid" => current # 0
          /\ contract' = c
    /\ UNCHANGED <<vars, paused>>

PauseChanges ==
    /\ paused' = ~paused
    /\ UNCHANGED <<vars, contract>>

Periodic == (PeriodEnds \/ OpenFirstPeriod \/ Rollover) /\ OnlyPaid
Purchases ==
    /\ \E l \in Lots : \/ RequestPurchase(l)
                       \/ PurchaseReported(l)
                       \/ ActivatePurchase(l)
                       \/ WithdrawLot(l)
    /\ OnlyPurchased
Campaigns ==
    /\ \/ \E g \in Grants : SelectGrant(g) \/ CampaignChanges(g)
       \/ ReleaseExpiredSelection
    /\ OnlyPromotional

ShopSteps ==
    \/ ContractChanges
    \/ PauseChanges
    \/ (Periodic \/ Purchases \/ Campaigns \/ Refunds) /\ UNCHANGED policyVars

-----------------------------------------------------------------------------
(***************************************************************************)
(* An attempt never sets aside, or is charged, two credits: not when its   *)
(* billing period rolls over, its plan changes, its worker dies, or its    *)
(* admission moves from one source to another.                             *)
(***************************************************************************)
OneCreditPerAttempt ==
    \A a \in Attempts :
        Cardinality({k \in RowsOf(a) : reservation[k].status \in HeldStatuses
                                         \/ IsCharged(k)}) <= 1
=============================================================================
