--------------------------- MODULE CreditRefunds ---------------------------
(***************************************************************************)
(* Refunds of withdrawn lots.  On Shopify the billing worker proves the    *)
(* amount, links a negative usage event (the correction) to the refund,    *)
(* and completes the refund when the provider's meter shows it             *)
(* (recovery-credit-refund-correction/).  On WooCommerce it freezes the    *)
(* quantity and waits for the provider's receipt                           *)
(* (woocommerce-refund-hold-preparation, charge-refund-settlement).        *)
(*                                                                         *)
(* The Shopify preparation is not one transaction: the worker selects the  *)
(* refund with its lot, looks whether the meter is free, asks the          *)
(* provider, and writes afterwards with a compare-and-set on the refund    *)
(* alone.  seen is what it holds in between.                               *)
(***************************************************************************)
EXTENDS PurchasedCredits

CONSTANT Woo        \* the shop's platform is WooCommerce

ASSUME RefundAssumption == Woo \in BOOLEAN

VARIABLE seen       \* Lots -> the lot as the preparing worker read it

NotSeen == [stage |-> "idle", current |-> 0, reserved |-> 0]
RefundsTypeOK ==
    seen \in [Lots -> [stage : {"idle", "selected", "clear"}, current : Nat,
                       reserved : Nat]]
RefundsInit == seen = [l \in Lots |-> NotSeen]

\* Mutant: refunds do not wait for one another.
MutMeterBusy(l) == \E m \in Lots \ {l} : lot[m].status = "REQUESTED"

\* hasEarlierLiveMeterMutation: one live change of the provider's meter.
MeterBusy(l) ==
    \/ \E m \in Lots \ {l} : LiveRefund(m) /\ refund[m].seq < refund[l].seq
    \/ \E m \in Lots : lot[m].status = "REQUESTED"

Unlinked(l) == refund[l].status = "REQUESTED" /\ refund[l].correction = "NONE"

\* processDue selects the page of refunds, each with its lot.
SelectRefund(l) ==
    /\ ~Woo
    /\ Unlinked(l) /\ seen[l].stage = "idle"
    /\ seen' = [seen EXCEPT ![l] = [stage |-> "selected",
                                    current |-> lot[l].current,
                                    reserved |-> lot[l].reserved]]
    /\ UNCHANGED <<reservation, purchasedVars>>

\* prepare asks for an earlier mutation of the meter, and leaves the refund
\* for a later run when there is one.
CheckMeter(l) ==
    /\ seen[l].stage = "selected"
    /\ seen' = IF MeterBusy(l) THEN [seen EXCEPT ![l] = NotSeen]
               ELSE [seen EXCEPT ![l].stage = "clear"]
    /\ UNCHANGED <<reservation, purchasedVars>>

\* RefundPreparationService.prepare, on a proof the provider confirms.  A
\* refund that is no longer unlinked loses the race and keeps what it has.
LinkCorrection(l) ==
    /\ seen[l].stage = "clear" /\ seen[l].reserved = 0 /\ seen[l].current > 0
    /\ refund' = IF Unlinked(l)
                 THEN [refund EXCEPT ![l].final = seen[l].current,
                                     ![l].correction = "PENDING"]
                 ELSE refund
    /\ seen' = [seen EXCEPT ![l] = NotSeen]
    /\ UNCHANGED <<reservation, lot, purchased>>

\* markProviderActionRequired, when the lot or the provider is not proven,
\* or any query of the preparation fails.
RequireProviderAction(l) ==
    /\ seen[l].stage # "idle"
    /\ refund' = IF Unlinked(l)
                 THEN [refund EXCEPT ![l].final = seen[l].current,
                                     ![l].status = "PROVIDER_ACTION_REQUIRED"]
                 ELSE refund
    /\ seen' = [seen EXCEPT ![l] = NotSeen]
    /\ UNCHANGED <<reservation, lot, purchased>>

\* The usage-event publisher reports the correction, or gives up on it.
CorrectionReported(l) ==
    /\ refund[l].correction = "PENDING"
    /\ \E outcome \in {"REPORTED", "NEEDS_ATTENTION"} :
          refund' = [refund EXCEPT ![l].correction = outcome]
    /\ UNCHANGED <<reservation, lot, purchased, seen>>

\* reconcile: the correction failed, or the provider's meter contradicts it.
ReconcileNeedsAttention(l) ==
    /\ refund[l].status = "REQUESTED"
    /\ refund[l].correction \in {"REPORTED", "NEEDS_ATTENTION"}
    /\ refund' = [refund EXCEPT ![l].status = "NEEDS_ATTENTION"]
    /\ UNCHANGED <<reservation, lot, purchased, seen>>

\* The lot still is what the frozen quantity says.
Completable(l) ==
    /\ lot[l].status = "WITHDRAWN"
    /\ lot[l].reserved = 0
    /\ lot[l].current = refund[l].final
    /\ purchased.refunding >= refund[l].final
    /\ purchased.granted >= refund[l].final

\* Mutants: the refund takes the whole pack, or leaves the hold in place.
MutRefundedPack(l) ==
    /\ lot' = [lot EXCEPT ![l].status = "REFUNDED", ![l].current = 0]
    /\ purchased' = [purchased EXCEPT !.refunding = @ - refund[l].final,
                                      !.granted = @ - PackSize]
    /\ refund' = [refund EXCEPT ![l].status = "COMPLETED"]
    /\ UNCHANGED <<reservation, seen>>
MutRefundedHold(l) ==
    /\ lot' = [lot EXCEPT ![l].status = "REFUNDED", ![l].current = 0]
    /\ purchased' = [purchased EXCEPT !.granted = @ - refund[l].final]
    /\ refund' = [refund EXCEPT ![l].status = "COMPLETED"]
    /\ UNCHANGED <<reservation, seen>>

Refunded(l) ==
    /\ lot' = [lot EXCEPT ![l].status = "REFUNDED", ![l].current = 0]
    /\ purchased' = [purchased EXCEPT !.refunding = @ - refund[l].final,
                                      !.granted = @ - refund[l].final]
    /\ refund' = [refund EXCEPT ![l].status = "COMPLETED"]
    /\ UNCHANGED <<reservation, seen>>

\* RefundCompletionService, when the meter matches the expected quantity.
CompleteRefund(l) ==
    /\ refund[l].status = "REQUESTED"
    /\ refund[l].correction = "REPORTED"
    /\ Completable(l)
    /\ Refunded(l)

WooHolds == Unreserved({l \in Lots : LiveRefund(l) /\ lot[l].status = "WITHDRAWN"})

\* WooRefundHoldPreparationService; waits while a credit of the lot is
\* reserved, and gives up when lot, snapshot and hold do not fit together.
PrepareWooHold(l) ==
    LET coherent == /\ lot[l].current >= refund[l].snapshot
                    /\ WooHolds >= purchased.refunding
    IN  /\ Woo
        /\ Unlinked(l) /\ lot[l].status = "WITHDRAWN" /\ lot[l].reserved = 0
        /\ lot[l].current > 0
        /\ purchased' = IF coherent
                        THEN [purchased EXCEPT !.refunding = WooHolds]
                        ELSE purchased
        /\ refund' = IF coherent
                     THEN [refund EXCEPT
                             ![l].status = "PROVIDER_ACTION_REQUIRED",
                             ![l].final = lot[l].current]
                     ELSE [refund EXCEPT ![l].status = "NEEDS_ATTENTION"]
        /\ UNCHANGED <<reservation, lot, seen>>

\* settleWooRefundReceipt, for the provider's receipt of the refund.
SettleWooReceipt(l) ==
    /\ Woo
    /\ refund[l].status = "PROVIDER_ACTION_REQUIRED"
    /\ IF Completable(l) /\ refund[l].final > 0
       THEN Refunded(l)
       ELSE /\ refund' = [refund EXCEPT ![l].status = "NEEDS_ATTENTION"]
            /\ UNCHANGED <<reservation, lot, purchased, seen>>

RefundsNext == \E l \in Lots : \/ SelectRefund(l)
                               \/ CheckMeter(l)
                               \/ LinkCorrection(l)
                               \/ RequireProviderAction(l)
                               \/ CorrectionReported(l)
                               \/ ReconcileNeedsAttention(l)
                               \/ CompleteRefund(l)
                               \/ PrepareWooHold(l)
                               \/ SettleWooReceipt(l)

-----------------------------------------------------------------------------
\* A refund is live exactly while its lot is withdrawn: no withdrawn lot is
\* left without a refund, and no finished lot keeps one alive.
RefundFollowsLot ==
    \A l \in Lots : /\ LiveRefund(l) <=> lot[l].status = "WITHDRAWN"
                    /\ refund[l].status = "COMPLETED"
                          <=> lot[l].status = "REFUNDED"

\* A second correction never reaches the provider's meter while an earlier one
\* is unresolved, although the meter is looked at before the link is written.
OneCorrectionOnMeter ==
    \A l, m \in Lots :
        LiveRefund(l) /\ LiveRefund(m)
        /\ refund[l].correction # "NONE" /\ refund[m].correction # "NONE"
            => l = m

\* The hold the WooCommerce preparation computes afresh is the hold the
\* counter already has: the refund takes no more than was set aside for it.
WooHoldAlreadySetAside ==
    WooHolds = purchased.refunding

(***************************************************************************)
(* "Preserve its original provider amount, freeze the workflow and require *)
(* operator review" (recovery-delivery-compensation/purchased.ts): a       *)
(* refund whose correction is linked and that nobody is asked to review    *)
(* covers what the lot contains.                                           *)
(***************************************************************************)
FrozenRefundCoversLot ==
    \A l \in Lots : (refund[l].status = "REQUESTED" /\ refund[l].correction # "NONE")
                       => refund[l].final = lot[l].current
=============================================================================
