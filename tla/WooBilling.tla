---------------------------- MODULE WooBilling ----------------------------
(***************************************************************************)
(* WooCommerce billing: the webhook receipts of recurring contracts and of *)
(* one-time charges wait in one table.  One scan projects the contracts    *)
(* onto the shop's subscription, another turns charges into credit lots, a *)
(* timer rolls the entitlement periods over and enforces the coverage.     *)
(* Receipts arrive in any order; every one is handled in one transaction   *)
(* under the locks of the shop, so a transaction is one step.              *)
(***************************************************************************)
EXTENDS Integers, FiniteSets

CONSTANTS
    Contracts,      \* recurring contracts, numbered in the order of their creation
    MaxReceipts,    \* bound on the receipts of the contracts
    MaxClock,       \* bound on the clock
    Term,           \* what one payment covers
    Period,         \* length of an entitlement period
    MaxBad          \* bound on renewals with incomplete evidence

ASSUME WooBillingAssumption ==
    /\ Contracts = 1 .. Cardinality(Contracts)
    /\ MaxReceipts \in Nat /\ MaxClock \in Nat \ {0} /\ MaxBad \in Nat
    /\ Term \in Nat \ {0} /\ Period \in Nat \ {0}

VARIABLES
    clock,
    provider,   \* the provider's side of each contract
    rcpt,       \* the receipts of the contracts
    op,         \* the billing operations of each contract
    wooSub,     \* the shop's subscription
    charge      \* one charge: its operation, its lot, its receipts
wbVars == <<clock, provider, rcpt, op, wooSub, charge>>

Receipts == 1 .. MaxReceipts
Times == 0 .. MaxClock + Term + Period
Topics == {"activated", "updated", "renewed", "paused", "canceled", "prepaid_term_ended"}
NoReceipt == [st |-> "none", topic |-> "activated", c |-> 0, at |-> 0, cov |-> 0, plan |-> 0, bad |-> FALSE]
FreePlan == [c |-> 0, st |-> "ACTIVE", plan |-> 0, cov |-> 0, cancel |-> FALSE, ps |-> 0, pe |-> 0, due |-> 0]

WooBillingTypeOK ==
    /\ clock \in 1 .. MaxClock
    /\ provider \in [Contracts -> [st : {"none", "active", "paused", "canceled", "ended"}, plan : 1 .. 2, cov : Times]]
    /\ rcpt \in [Receipts -> [st : {"none", "sent", "new", "processed", "quarantined"}, topic : Topics, c : {0} \cup Contracts,
                              at : Times, cov : Times, plan : 0 .. 2, bad : BOOLEAN]]
    /\ op \in [Contracts -> [create : {"none", "INITIATING", "AWAITING", "CONFIRMED"},
                             switch : {"none", "AWAITING", "CONFIRMED"}, switchAt : Times,
                             cancel : {"none", "AWAITING", "CONFIRMED"}]]
    /\ wooSub \in [c : {0} \cup Contracts, st : {"ACTIVE", "FROZEN"}, plan : 0 .. 2, cov : Times, cancel : BOOLEAN,
                ps : Times, pe : Times, due : Times]
    /\ charge \in [op : {"AWAITING", "CONFIRMED", "FAILED"}, lot : {"REQUESTED", "ACTIVE"}, credits : 0 .. 2,
                   activated : {"none", "new", "quarantined", "processed"},
                   canceled : {"none", "new", "quarantined", "processed"}, complete : BOOLEAN]

WooBillingInit ==
    /\ clock = 1 /\ wooSub = FreePlan
    /\ provider = [c \in Contracts |-> [st |-> "none", plan |-> 1, cov |-> 0]]
    /\ rcpt = [r \in Receipts |-> NoReceipt]
    /\ op = [c \in Contracts |-> [create |-> "none", switch |-> "none", switchAt |-> 0, cancel |-> "none"]]
    /\ charge = [op |-> "AWAITING", lot |-> "REQUESTED", credits |-> 0,
                 activated |-> "none", canceled |-> "none", complete |-> TRUE]

(***************************************************************************)
(* Evidence.  Every receipt of a contract that has arrived is read again   *)
(* whenever one of them is handled, the handled and quarantined ones too.  *)
(***************************************************************************)
\* Mutant: quarantined receipts are left out.
MutEvidence(c) == {r \in Receipts : rcpt[r].c = c /\ rcpt[r].st \in {"new", "processed"}}
Evidence(c) == {r \in Receipts : rcpt[r].c = c /\ rcpt[r].st \in {"new", "processed", "quarantined"}}
Of(c, topics) == {r \in Evidence(c) : rcpt[r].topic \in topics}
Newest(S) == {r \in S : \A q \in S : rcpt[q].at <= rcpt[r].at}

\* Payment facts; a receipt without them makes every later one of its contract fail.
Financial(c) == Of(c, {"activated", "updated", "renewed", "paused"})
Paid(c) == Of(c, {"activated", "updated", "renewed"})
Health(r) == IF rcpt[r].topic = "paused" THEN "FROZEN" ELSE "ACTIVE"
Parses(c) == \A r \in Evidence(c) : ~rcpt[r].bad

\* Mutant: the comparison is swapped.
MutReduceFinancial(S) == {r \in S : \A q \in S : rcpt[r].at <= rcpt[q].at}
\* reduceFinancialEvidence: the provider's latest facts.
ReduceFinancial(S) == Newest(S)
\* Two renewals are two payments.
Agree(S) ==
    \A q, r \in S : /\ Health(q) = Health(r) /\ rcpt[q].cov = rcpt[r].cov
                    /\ rcpt[q].topic = "renewed" /\ rcpt[r].topic = "renewed" => q = r

\* reduceTerminationEvidence: the end of the term the provider announced, 0 for none.
Terminal(c) == Of(c, {"prepaid_term_ended"})
Ends(c) ==
    LET cancels == Of(c, {"canceled"})
        newest == IF \E q, r \in cancels : rcpt[q].cov # rcpt[r].cov THEN Newest(cancels) ELSE cancels IN
    {rcpt[r].cov : r \in IF Terminal(c) # {} THEN Terminal(c) ELSE newest}
ReduceTermination(c) ==
    CASE Ends(c) = {} -> "none"
      [] Cardinality(Ends(c)) > 1 -> "conflict"
      [] OTHER -> LET end == CHOOSE e \in Ends(c) : TRUE IN
                  IF end <= clock THEN "ended" ELSE IF Terminal(c) # {} THEN "conflict" ELSE "scheduled"
TermEnd(c) == CHOOSE e \in Ends(c) : TRUE

\* resolvePlanIntent: what a snapshot says of the newest plan operation of c.
ResolvePlanIntent(c, r) ==
    LET switched == op[c].switch # "none" IN
    CASE switched /\ rcpt[r].at < op[c].switchAt -> "stale"
      [] rcpt[r].plan # (IF switched THEN 2 ELSE 1) -> "conflict"
      [] OTHER -> IF switched THEN "switch" ELSE "create"
PlanIntents(c) == {ResolvePlanIntent(c, r) : r \in Of(c, {"updated"})}

LatestCreateMatches(c) ==
    op[c].create \notin {"none", "CONFIRMED"} /\ \A d \in Contracts : d > c => op[d].create = "none"

\* A renewal whose payment is not the newest of its time.
NotCausal(r) ==
    rcpt[r].topic = "renewed"
    /\ \E q \in Of(rcpt[r].c, {"activated", "renewed"}) \ {r} : rcpt[q].at = rcpt[r].at

(***************************************************************************)
(* The subscription.                                                       *)
(***************************************************************************)
\* Mutant: the end of the coverage is not watched.
MutNextReconcile(pe, cov) == pe
NextReconcile(pe, cov) == IF pe < cov THEN pe ELSE cov

Activated(c) ==
    LET r == CHOOSE q \in Of(c, {"activated"}) : TRUE
        cov == rcpt[CHOOSE q \in ReduceFinancial(Paid(c)) : TRUE].cov
        pe == rcpt[r].at + Period IN
    [c |-> c, st |-> "ACTIVE", plan |-> 1, cov |-> cov, cancel |-> FALSE,
     ps |-> rcpt[r].at, pe |-> pe, due |-> NextReconcile(pe, cov)]

\* endWooPaidSubscription needs a period that began before the end.
MayEnd(s, end) == end > s.ps

\* Mutant: a receipt of another contract is applied to the current one.
MutHistorical(c) ==
    wooSub.c # c /\ wooSub.c = 0 /\ (Of(c, {"activated"}) = {} \/ ReduceTermination(c) = "ended" \/ ~LatestCreateMatches(c))
\* The receipt belongs to a contract that is not, and may not become, current.
Historical(c) ==
    wooSub.c # c /\ (wooSub.c # 0 \/ Of(c, {"activated"}) = {} \/ ReduceTermination(c) = "ended" \/ ~LatestCreateMatches(c))

Start(c) == IF wooSub.c = 0 THEN Activated(c) ELSE wooSub

\* What makes the evidence of receipt r permanently contradictory.
Contradicts(r) ==
    LET c == rcpt[r].c IN
    \/ ~Parses(c) \/ ReduceTermination(c) = "conflict"
    \/ /\ ~Historical(c)
       /\ IF ReduceTermination(c) = "ended" THEN ~MayEnd(Start(c), TermEnd(c))
          ELSE \/ wooSub.c = 0 /\ (~Agree(ReduceFinancial(Paid(c))) \/ op[c].switch # "none")
               \/ "conflict" \in PlanIntents(c) \/ NotCausal(r)
               \/ ~Agree(ReduceFinancial(Financial(c)))

\* The plan, then the payment facts, then the scheduled end, each on top of the other.
Switched(s, c) == IF "switch" \in PlanIntents(c) THEN [s EXCEPT !.plan = 2] ELSE s
Funded(s, c) ==
    LET f == ReduceFinancial(Financial(c))
        r == CHOOSE q \in f : TRUE IN
    IF f = {} THEN s
    ELSE IF Health(r) = "FROZEN" THEN [s EXCEPT !.st = "FROZEN", !.due = 0]
    ELSE [s EXCEPT !.st = "ACTIVE", !.cov = rcpt[r].cov, !.due = NextReconcile(s.pe, rcpt[r].cov)]
Scheduled(s, c) ==
    IF ReduceTermination(c) # "scheduled" THEN s
    ELSE [s EXCEPT !.st = "ACTIVE", !.cancel = TRUE, !.cov = TermEnd(c), !.due = NextReconcile(s.pe, TermEnd(c))]

Handled(r) == rcpt' = [rcpt EXCEPT ![r].st = "processed"]

\* A receipt whose contract no operation and no subscription knows is set
\* aside for good; a charge's receipt always is.
QuarantineReceipt(r) ==
    /\ rcpt[r].st = "new" /\ op[rcpt[r].c].create = "INITIATING"
    /\ rcpt' = [rcpt EXCEPT ![r].st = "quarantined"]
    /\ UNCHANGED <<clock, provider, op, wooSub, charge>>

QuarantineCharge(topic) ==
    /\ charge[topic] = "new" /\ charge' = [charge EXCEPT ![topic] = "quarantined"]
    /\ UNCHANGED <<clock, provider, rcpt, op, wooSub>>

Correlated(r) == rcpt[r].st = "new" /\ op[rcpt[r].c].create # "INITIATING"

\* A second transaction records the conflict and freezes the current contract.
RecordConflict(r) ==
    /\ Correlated(r) /\ Contradicts(r) /\ Handled(r)
    /\ wooSub' = IF wooSub.c = rcpt[r].c THEN [wooSub EXCEPT !.st = "FROZEN"] ELSE wooSub
    /\ UNCHANGED <<clock, provider, op, charge>>

\* transitionWooSubscription.
TransitionSubscription(r) ==
    LET c == rcpt[r].c IN
    /\ Correlated(r) /\ ~Contradicts(r) /\ Handled(r)
    /\ IF Historical(c) THEN UNCHANGED <<wooSub, op>>
       ELSE IF ReduceTermination(c) = "ended"
       THEN wooSub' = FreePlan /\ op' = IF wooSub.c = 0 THEN [op EXCEPT ![c].create = "CONFIRMED"] ELSE op
       ELSE /\ wooSub' = Scheduled(Funded(Switched(Start(c), c), c), c)
            /\ op' = [op EXCEPT ![c].create = "CONFIRMED",
                                ![c].switch = IF "switch" \in PlanIntents(c) THEN "CONFIRMED" ELSE @,
                                ![c].cancel = IF ReduceTermination(c) = "scheduled" /\ @ = "AWAITING"
                                              THEN "CONFIRMED" ELSE @]
    /\ UNCHANGED <<clock, provider, charge>>

(***************************************************************************)
(* The timer: only active subscriptions that are due.                      *)
(***************************************************************************)
Due == wooSub.c # 0 /\ wooSub.st = "ACTIVE" /\ wooSub.due <= clock

\* currentWooEntitlementWindow: whole periods that passed unseen are skipped.
Window == wooSub.pe + ((clock - wooSub.pe) \div Period) * Period

EndTerm ==
    /\ Due /\ wooSub.cancel /\ wooSub.cov <= clock /\ MayEnd(wooSub, wooSub.cov)
    /\ wooSub' = FreePlan /\ UNCHANGED <<clock, provider, rcpt, op, charge>>

FreezeLapsed ==
    /\ Due /\ ~wooSub.cancel /\ wooSub.cov <= clock
    /\ wooSub' = [wooSub EXCEPT !.st = "FROZEN", !.due = 0] /\ UNCHANGED <<clock, provider, rcpt, op, charge>>

RollOver ==
    /\ Due /\ wooSub.cov > clock
    /\ wooSub' = IF wooSub.pe > clock THEN [wooSub EXCEPT !.due = NextReconcile(wooSub.pe, wooSub.cov)]
              ELSE [wooSub EXCEPT !.ps = Window, !.pe = Window + Period, !.due = NextReconcile(Window + Period, wooSub.cov)]
    /\ UNCHANGED <<clock, provider, rcpt, op, charge>>

(***************************************************************************)
(* One-time charges.                                                       *)
(***************************************************************************)
\* Mutant: a receipt with an error is not looked at again.
MutClaimable(topic) == charge[topic] = "new"
Claimable(topic) == charge[topic] \in {"new", "quarantined"}

\* Mutant: an operation that failed may still be confirmed.
MutUnresolved == charge.op \in {"AWAITING", "FAILED"}
Unresolved == charge.op = "AWAITING"

PaymentEvidence == charge.complete

\* Incomplete payment facts, or an operation in another state, leave the receipt waiting.
ActivateCharge ==
    /\ Claimable("activated") /\ PaymentEvidence
    /\ \/ /\ charge.op = "CONFIRMED" /\ charge' = [charge EXCEPT !.activated = "processed"]
       \/ /\ Unresolved /\ charge.lot = "REQUESTED"
          /\ charge' = [charge EXCEPT !.op = "CONFIRMED", !.lot = "ACTIVE", !.credits = @ + 1, !.activated = "processed"]
    /\ UNCHANGED <<clock, provider, rcpt, op, wooSub>>

TerminateCharge ==
    /\ Claimable("canceled")
    /\ \/ /\ charge.op \in {"CONFIRMED", "FAILED"} /\ charge' = [charge EXCEPT !.canceled = "processed"]
       \/ /\ Unresolved /\ charge.lot = "REQUESTED"
          /\ charge' = [charge EXCEPT !.op = "FAILED", !.canceled = "processed"]
    /\ UNCHANGED <<clock, provider, rcpt, op, wooSub>>

(***************************************************************************)
(* The merchant and the provider.                                          *)
(***************************************************************************)
StartContract(c) ==
    /\ op[c].create = "none" /\ wooSub.c = 0 /\ charge.activated = "none" /\ charge.canceled = "none"
    /\ \A d \in Contracts : d < c => op[d].create # "none"
    /\ op' = [op EXCEPT ![c].create = "INITIATING"]
    /\ UNCHANGED <<clock, provider, rcpt, wooSub, charge>>

StoreReference(c) ==
    /\ op[c].create = "INITIATING" /\ op' = [op EXCEPT ![c].create = "AWAITING"]
    /\ UNCHANGED <<clock, provider, rcpt, wooSub, charge>>

AskForSwitch(c) ==
    /\ wooSub.c = c /\ op[c].switch = "none" /\ provider[c].st = "active"
    /\ op' = [op EXCEPT ![c].switch = "AWAITING", ![c].switchAt = clock]
    /\ UNCHANGED <<clock, provider, rcpt, wooSub, charge>>

\* A webhook on its way; a renewal may lack the payment it should carry.
Emit(c, topic, at, cov, plan) ==
    \E bad \in BOOLEAN :
        LET free == {r \in Receipts : rcpt[r].st = "none"}
            r == CHOOSE q \in free : \A p \in free : q <= p IN
        /\ free # {} /\ (bad => topic = "renewed" /\ Cardinality({q \in Receipts : rcpt[q].bad}) < MaxBad)
        /\ rcpt' = [rcpt EXCEPT ![r] = [st |-> "sent", topic |-> topic, c |-> c, at |-> at, cov |-> cov,
                                        plan |-> plan, bad |-> bad]]

ProviderCharges(c) ==
    /\ \/ provider[c].st = "none" /\ op[c].create # "none" /\ Emit(c, "activated", clock, clock + Term, 1)
       \/ provider[c].st \in {"active", "paused"} /\ Emit(c, "renewed", clock, clock + Term, provider[c].plan)
    /\ provider' = [provider EXCEPT ![c].st = "active", ![c].cov = clock + Term]
    /\ UNCHANGED <<clock, op, wooSub, charge>>

ProviderPauses(c) ==
    /\ provider[c].st = "active" /\ Emit(c, "paused", clock, 0, provider[c].plan)
    /\ provider' = [provider EXCEPT ![c].st = "paused"]
    /\ UNCHANGED <<clock, op, wooSub, charge>>

ProviderUpdates(c) ==
    /\ provider[c].st = "active" /\ op[c].switch = "AWAITING"
    /\ \E plan \in 1 .. 2 : /\ Emit(c, "updated", clock, provider[c].cov, plan)
                            /\ provider' = [provider EXCEPT ![c].plan = plan]
    /\ UNCHANGED <<clock, op, wooSub, charge>>

\* The merchant's cancellation ends with the term, the provider's at once.
ProviderCancels(c) ==
    /\ provider[c].st = "active"
    /\ \E end \in {clock, provider[c].cov} :
           /\ Emit(c, "canceled", clock, end, provider[c].plan)
           /\ provider' = [provider EXCEPT ![c].st = "canceled", ![c].cov = end]
           /\ op' = IF end > clock THEN [op EXCEPT ![c].cancel = "AWAITING"] ELSE op
    /\ UNCHANGED <<clock, wooSub, charge>>

ProviderEndsTerm(c) ==
    /\ provider[c].st = "canceled" /\ provider[c].cov <= clock
    /\ Emit(c, "prepaid_term_ended", clock, provider[c].cov, provider[c].plan)
    /\ provider' = [provider EXCEPT ![c].st = "ended"]
    /\ UNCHANGED <<clock, op, wooSub, charge>>

ReceiptArrives(r) ==
    /\ rcpt[r].st = "sent" /\ rcpt' = [rcpt EXCEPT ![r].st = "new"]
    /\ UNCHANGED <<clock, provider, op, wooSub, charge>>

\* Charges share the table with contracts and nothing else: a behaviour has one or the other.
ChargeArrives(topic) ==
    /\ charge[topic] = "none" /\ \A c \in Contracts : op[c].create = "none"
    /\ \E ok \in BOOLEAN : charge' = [charge EXCEPT ![topic] = "new", !.complete = IF topic = "activated" THEN ok ELSE @]
    /\ UNCHANGED <<clock, provider, rcpt, op, wooSub>>

\* Nothing is timed before the first contract.
ClockTicks == op[1].create # "none" /\ clock < MaxClock /\ clock' = clock + 1
              /\ UNCHANGED <<provider, rcpt, op, wooSub, charge>>

HandleReceipt(r) == QuarantineReceipt(r) \/ RecordConflict(r) \/ TransitionSubscription(r)
ReconcileEntitlement == EndTerm \/ FreezeLapsed \/ RollOver
ChargeTopics == {"activated", "canceled"}
HandleCharges == ActivateCharge \/ TerminateCharge

WooBillingNext ==
    \/ \E r \in Receipts : HandleReceipt(r) \/ ReceiptArrives(r)
    \/ \E topic \in ChargeTopics : QuarantineCharge(topic) \/ ChargeArrives(topic)
    \/ HandleCharges \/ ReconcileEntitlement \/ ClockTicks
    \/ \E c \in Contracts : \/ StartContract(c) \/ StoreReference(c) \/ AskForSwitch(c) \/ ProviderCharges(c)
                            \/ ProviderPauses(c) \/ ProviderUpdates(c) \/ ProviderCancels(c) \/ ProviderEndsTerm(c)

\* Every scan of the billing worker comes back; it claims each receipt that waits.
WooBillingFairness ==
    /\ \A r \in Receipts : WF_wbVars(HandleReceipt(r))
    /\ WF_wbVars(ActivateCharge) /\ WF_wbVars(TerminateCharge) /\ WF_wbVars(ReconcileEntitlement)

WooBillingSpec == WooBillingInit /\ [][WooBillingNext]_wbVars /\ WooBillingFairness

(***************************************************************************)
(* Properties.                                                             *)
(***************************************************************************)
Quiet(c) == \A r \in Evidence(c) : rcpt[r].st # "new" /\ ~rcpt[r].bad

(* Whatever the order of arrival, a contract whose receipts are all handled*)
(* is served only while the newest of them says it is paid, and as far as  *)
(* that one says, unless its end is announced.                             *)
ServedAsPaid ==
    wooSub.c # 0 /\ wooSub.st = "ACTIVE" /\ ~wooSub.cancel /\ Quiet(wooSub.c) =>
        \E r \in Financial(wooSub.c) : /\ rcpt[r].topic # "paused" /\ rcpt[r].cov = wooSub.cov
                                    /\ \A q \in Financial(wooSub.c) : rcpt[q].at <= rcpt[r].at

(* A contract becomes current only from the free plan and only as the      *)
(* newest the merchant started; it leaves only for the free plan, and only *)
(* after the provider announced an end of that contract that has passed.   *)
ContractsDoNotMix ==
    [][/\ wooSub'.c # wooSub.c => wooSub.c = 0 \/ wooSub'.c = 0
       /\ wooSub'.c # 0 /\ wooSub.c = 0 => \A d \in Contracts : d > wooSub'.c => op[d].create = "none"
       /\ wooSub.c # 0 /\ wooSub'.c = 0 =>
            \E r \in Receipts : rcpt[r].c = wooSub.c /\ rcpt[r].topic \in {"canceled", "prepaid_term_ended"}
                                /\ rcpt[r].cov <= clock]_wbVars

(* An activation that arrived too early to be correlated is made good by   *)
(* the next receipt of its contract: they are never all handled with the   *)
(* subscription still free, unless they contradict each other.             *)
QuarantineIsRepaired ==
    \A c \in Contracts :
        /\ wooSub.c = 0 /\ op[c].create = "AWAITING" /\ \A d \in Contracts : d > c => op[d].create = "none"
        /\ \E r \in Receipts : rcpt[r].c = c /\ rcpt[r].topic = "activated" /\ rcpt[r].st = "quarantined"
        /\ \A r \in Receipts : rcpt[r].c = c => rcpt[r].topic \notin {"canceled", "prepaid_term_ended"} /\ ~rcpt[r].bad
        /\ \A q, r \in Receipts : rcpt[q].c = c /\ rcpt[r].c = c /\ q # r => rcpt[q].at # rcpt[r].at
        => ~\E r \in Receipts : rcpt[r].c = c /\ rcpt[r].st = "processed"

(* An active subscription whose coverage has passed is frozen or ended, or *)
(* turns out to be paid further, unless its end precedes its period.       *)
LapsedCoverageStops ==
    []<>(wooSub.c # 0 /\ wooSub.st = "ACTIVE" /\ MayEnd(wooSub, wooSub.cov) => wooSub.cov > clock)

(* A charge is settled once: what a second receipt says, in either order,  *)
(* changes neither the operation nor the credits.                          *)
ChargeSettledOnce ==
    [][charge.op # "AWAITING" => charge'.op = charge.op /\ charge'.credits = charge.credits]_wbVars

(* A paid charge is credited although the contracts' scan sets its receipt *)
(* aside first, unless the charge was canceled before.                     *)
PaidChargeCredited ==
    []<>(charge.activated # "none" /\ charge.complete => charge.credits = 1 \/ charge.op = "FAILED")
====
