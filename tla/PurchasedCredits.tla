-------------------------- MODULE PurchasedCredits --------------------------
(***************************************************************************)
(* Purchased recovery credits: the purchases ("lots"), the counter         *)
(* PURCHASED_RECOVERY_CREDITS of the shop that sums them, and the          *)
(* reservation operations (purchased-recovery-reservation.service.ts,      *)
(* recovery-credit-purchase.service.ts, and the purchased branch of        *)
(* recovery-delivery-compensation/).  Refunds of lots are processed in     *)
(* CreditRefunds; the operations here read and write their status.         *)
(***************************************************************************)
EXTENDS UsageReservations

CONSTANT PackSize       \* creditsGranted of a purchase

ASSUME PurchasedAssumption == PackSize \in Nat \ {0} /\ IsFiniteSet(Lots)

VARIABLES
    lot,        \* Lots -> status, currentAmount, reservedAmount
    purchased,  \* the counter
    refund      \* Lots -> the refund of the lot, at most one per lot

purchasedVars == <<lot, purchased, refund>>

LotStatuses == {"NONE", "REQUESTED", "ACTIVE", "WITHDRAWN", "COMPLETED", "REFUNDED"}
RefundStatuses == {"NONE", "REQUESTED", "PROVIDER_ACTION_REQUIRED",
                   "NEEDS_ATTENTION", "COMPLETED", "CANCELLED"}
CorrectionStates == {"NONE", "PENDING", "REPORTED", "NEEDS_ATTENTION"}

PurchasedTypeOK ==
    /\ lot \in [Lots -> [status : LotStatuses, current : Nat, reserved : Nat,
                         reported : BOOLEAN]]
    /\ purchased \in [granted : Nat, reserved : Nat, committed : Nat,
                      refunding : Nat]
    /\ refund \in [Lots -> [status : RefundStatuses, seq : Nat, final : Nat,
                            snapshot : Nat, correction : CorrectionStates]]

NoRefund == [status |-> "NONE", seq |-> 0, final |-> 0, snapshot |-> 0,
             correction |-> "NONE"]

PurchasedInit ==
    /\ lot = [l \in Lots |-> [status |-> "NONE", current |-> 0, reserved |-> 0,
                              reported |-> FALSE]]
    /\ purchased = [granted |-> 0, reserved |-> 0, committed |-> 0,
                    refunding |-> 0]
    /\ refund = [l \in Lots |-> NoRefund]

PurchasedAvailable ==
    purchased.granted - purchased.committed - purchased.reserved
                      - purchased.refunding

Spendable(l) == lot[l].current - lot[l].reserved
\* The unreserved credits of a set of lots, one by one: their number is the
\* sum of what the lots can give.
Credits(S) == UNION {{l} \X (1 .. Spendable(l)) : l \in S}
Unreserved(S) == Cardinality(Credits(S))

SpendableLots == {l \in Lots : lot[l].status = "ACTIVE" /\ Spendable(l) >= 1}

LiveRefund(l) == refund[l].status \in
    {"REQUESTED", "PROVIDER_ACTION_REQUIRED", "NEEDS_ATTENTION"}

-----------------------------------------------------------------------------
(* Purchases.                                                              *)

\* create: a REQUESTED purchase with its PENDING usage event.
RequestPurchase(l) ==
    /\ lot[l].status = "NONE"
    /\ lot' = [lot EXCEPT ![l].status = "REQUESTED"]
    /\ UNCHANGED <<reservation, purchased, refund>>

\* The usage event of the purchase reaches the provider's meter.
PurchaseReported(l) ==
    /\ lot[l].status = "REQUESTED" /\ ~lot[l].reported
    /\ lot' = [lot EXCEPT ![l].reported = TRUE]
    /\ UNCHANGED <<reservation, purchased, refund>>

\* reconcileProviderConfirmed: two reported candidates on one meter cannot be
\* told apart, and activate neither.
Candidates == {l \in Lots : lot[l].status = "REQUESTED" /\ lot[l].reported}
ActivatePurchase(l) ==
    /\ Candidates = {l}
    /\ lot' = [lot EXCEPT ![l].status = "ACTIVE", ![l].current = PackSize]
    /\ purchased' = [purchased EXCEPT !.granted = @ + PackSize]
    /\ UNCHANGED <<reservation, refund>>

(***************************************************************************)
(* The merchant asks for a refund in the merchant application, which is    *)
(* not in this repository: the lot is withdrawn and its unreserved credits *)
(* move to the refund hold of the counter.  All of them may be reserved    *)
(* (the concurrency test withdraws such a lot); the commit of the last one *)
(* then cancels the refund.                                                *)
(***************************************************************************)
WithdrawLot(l) ==
    /\ lot[l].status = "ACTIVE"
    /\ refund[l].status = "NONE"
    /\ lot' = [lot EXCEPT ![l].status = "WITHDRAWN"]
    /\ purchased' = [purchased EXCEPT !.refunding = @ + Spendable(l)]
    /\ refund' = [refund EXCEPT ![l] =
          [NoRefund EXCEPT !.status = "REQUESTED", !.snapshot = Spendable(l),
              !.seq = Cardinality({m \in Lots : refund[m].status # "NONE"})]]
    /\ UNCHANGED reservation

-----------------------------------------------------------------------------
(* Reservations.                                                           *)

\* A reactivated row keeps its lot when that is still spendable; otherwise a
\* spendable lot is picked (oldest first; which one makes no difference here).
LotChoices(k) ==
    LET original == reservation[k].unit
    IN  IF Reactivable(k, "purchased") /\ original \in SpendableLots
        THEN {original} ELSE SpendableLots

PurchasedReserveOutcome(a) ==
    LET k == PlainKey(a)
        free == PurchasedAvailable >= 1 /\ SpendableLots # {}
    IN  CASE Absent(k) /\ ~free -> "exhausted"
          [] Absent(k) /\ free -> "reserved"
          [] Reactivable(k, "purchased") /\ free -> "reserved"
          [] reservation[k].kind = "promotional" -> "throws"
          [] OTHER -> reservation[k].status

ReservePurchased(a, l) ==
    /\ PurchasedReserveOutcome(a) = "reserved"
    /\ l \in LotChoices(PlainKey(a))
    /\ WriteReserved(PlainKey(a), "purchased", l)
    /\ lot' = [lot EXCEPT ![l].reserved = @ + 1]
    /\ purchased' = [purchased EXCEPT !.reserved = @ + 1]
    /\ UNCHANGED refund

\* Mutant: a refund survives the commit of the last credit of its lot.
MutCommitPurchased(a) ==
    LET k == PlainKey(a)
        l == reservation[k].unit
        completes == lot[l].current = 1 /\ lot[l].reserved = 1
    IN  /\ Transitions(k, "purchased")
        /\ lot[l].status \in {"ACTIVE", "WITHDRAWN"}
        /\ lot[l].reserved >= 1 /\ purchased.reserved >= 1
        /\ WriteStatus(k, "COMMITTED")
        /\ lot' = [lot EXCEPT ![l].current = @ - 1,
                              ![l].reserved = @ - 1,
                              ![l].status = IF completes THEN "COMPLETED" ELSE @]
        /\ purchased' = [purchased EXCEPT !.reserved = @ - 1,
                                          !.committed = @ + 1]
        /\ UNCHANGED refund

\* Committing the last credit completes the purchase, and leaves nothing to
\* refund: a refund that was not yet acted on is cancelled.
CommitPurchased(a) ==
    LET k == PlainKey(a)
        l == reservation[k].unit
        completes == lot[l].current = 1 /\ lot[l].reserved = 1
        cancels == /\ completes
                   /\ lot[l].status = "WITHDRAWN"
                   /\ refund[l].status \in {"REQUESTED", "PROVIDER_ACTION_REQUIRED"}
    IN  /\ Transitions(k, "purchased")
        /\ lot[l].status \in {"ACTIVE", "WITHDRAWN"}
        /\ lot[l].reserved >= 1 /\ purchased.reserved >= 1
        /\ WriteStatus(k, "COMMITTED")
        /\ lot' = [lot EXCEPT ![l].current = @ - 1,
                              ![l].reserved = @ - 1,
                              ![l].status = IF completes THEN "COMPLETED" ELSE @]
        /\ purchased' = [purchased EXCEPT !.reserved = @ - 1,
                                          !.committed = @ + 1]
        /\ refund' = IF cancels
                     THEN [refund EXCEPT ![l].status = "CANCELLED"] ELSE refund

\* Mutant: a credit released on a withdrawn lot becomes spendable.
MutReleasePurchased(a) ==
    LET k == PlainKey(a)
        l == reservation[k].unit
    IN  /\ Transitions(k, "purchased")
        /\ lot[l].status \in {"ACTIVE", "WITHDRAWN"}
        /\ lot[l].reserved >= 1 /\ purchased.reserved >= 1
        /\ WriteStatus(k, "RELEASED")
        /\ lot' = [lot EXCEPT ![l].reserved = @ - 1]
        /\ purchased' = [purchased EXCEPT !.reserved = @ - 1]
        /\ UNCHANGED refund

\* A credit released on a withdrawn lot joins the refund hold.
ReleasePurchased(a) ==
    LET k == PlainKey(a)
        l == reservation[k].unit
        hold == IF lot[l].status = "WITHDRAWN" THEN 1 ELSE 0
    IN  /\ Transitions(k, "purchased")
        /\ lot[l].status \in {"ACTIVE", "WITHDRAWN"}
        /\ lot[l].reserved >= 1 /\ purchased.reserved >= 1
        /\ WriteStatus(k, "RELEASED")
        /\ lot' = [lot EXCEPT ![l].reserved = @ - 1]
        /\ purchased' = [purchased EXCEPT !.reserved = @ - 1,
                                          !.refunding = @ + hold]
        /\ UNCHANGED refund

MarkPurchasedAmbiguous(a) ==
    /\ Transitions(PlainKey(a), "purchased")
    /\ WriteStatus(PlainKey(a), "AMBIGUOUS")
    /\ UNCHANGED purchasedVars

-----------------------------------------------------------------------------
(* Delivery compensation of a committed purchased credit.                  *)

\* classifyPurchasedCreditState; "conflict" is a lineage error.
Disposition(l) ==
    CASE lot[l].status = "REFUNDED" /\ refund[l].status = "COMPLETED"
           -> "historical-only"
      [] lot[l].status = "WITHDRAWN" /\ LiveRefund(l) -> "held-for-refund"
      [] /\ \/ lot[l].status = "ACTIVE" /\ lot[l].current > 0
            \/ lot[l].status = "COMPLETED" /\ lot[l].current = 0
         /\ refund[l].status \in {"NONE", "CANCELLED"} -> "restored-spendable"
      [] OTHER -> "conflict"

\* The monetary evidence of the refund is already fixed.
FrozenRefund(l) ==
    \/ refund[l].status = "PROVIDER_ACTION_REQUIRED"
    \/ /\ refund[l].status = "REQUESTED"
       /\ refund[l].final # 0 \/ refund[l].correction # "NONE"

\* Mutant: a restored credit makes its lot spendable, whatever the refund.
MutCompensateSpendable(a) ==
    LET k == PlainKey(a)
        l == reservation[k].unit
    IN  /\ reservation[k].kind = "purchased"
        /\ IsCharged(k)
        /\ Disposition(l) # "conflict" /\ purchased.committed >= 1
        /\ WriteCompensated(k)
        /\ lot' = [lot EXCEPT ![l].current = @ + 1, ![l].status = "ACTIVE"]
        /\ purchased' = [purchased EXCEPT !.committed = @ - 1]
        /\ UNCHANGED refund

\* Mutant: a completed lot gets the credit back and stays completed, and a
\* withdrawn one gets it outside its refund hold.
MutCompensatePurchased(a) ==
    LET k == PlainKey(a)
        l == reservation[k].unit
    IN  /\ reservation[k].kind = "purchased"
        /\ IsCharged(k)
        /\ Disposition(l) # "conflict" /\ purchased.committed >= 1
        /\ WriteCompensated(k)
        /\ lot' = [lot EXCEPT ![l].current = @ + 1]
        /\ purchased' = [purchased EXCEPT !.committed = @ - 1]
        /\ UNCHANGED refund

CompensatePurchased(a) ==
    LET k == PlainKey(a)
        l == reservation[k].unit
        d == Disposition(l)
    IN  /\ reservation[k].kind = "purchased"
        /\ IsCharged(k)
        /\ d # "conflict"
        /\ purchased.committed >= 1
        /\ lot[l].current + 1 <= PackSize
        /\ d = "held-for-refund" => purchased.refunding >= Spendable(l)
        /\ WriteCompensated(k)
        /\ lot' = IF d = "historical-only" THEN lot
                  ELSE [lot EXCEPT ![l].current = @ + 1,
                                   ![l].status = IF d = "restored-spendable"
                                                 THEN "ACTIVE" ELSE @]
        /\ purchased' = [purchased EXCEPT
              !.committed = @ - 1,
              !.granted = IF d = "historical-only" THEN @ - 1 ELSE @,
              !.refunding = IF d = "held-for-refund" THEN @ + 1 ELSE @]
        /\ refund' = IF d = "held-for-refund" /\ FrozenRefund(l)
                     THEN [refund EXCEPT ![l].status = "NEEDS_ATTENTION"]
                     ELSE refund

PurchasedNext ==
    \/ \E l \in Lots : \/ RequestPurchase(l)
                       \/ PurchaseReported(l)
                       \/ ActivatePurchase(l)
                       \/ WithdrawLot(l)
    \/ \E a \in Attempts : \/ \E l \in Lots : ReservePurchased(a, l)
                           \/ CommitPurchased(a)
                           \/ ReleasePurchased(a)
                           \/ MarkPurchasedAmbiguous(a)
                           \/ CompensatePurchased(a)

-----------------------------------------------------------------------------
\* Each lot counts the rows held on it, and the counter counts them all.
PurchasedReconciled ==
    /\ \A l \in Lots : lot[l].reserved = Cardinality(HeldOn(l))
    /\ purchased.reserved = Cardinality(Held("purchased"))
    /\ purchased.committed = Cardinality(Charged("purchased"))

\* The counter's split of the granted credits agrees with the lots: what it
\* offers is what the active lots can still give, what it holds back for
\* refunds is what the withdrawn lots still contain.
LotsReconciled ==
    /\ PurchasedAvailable = Unreserved({l \in Lots : lot[l].status = "ACTIVE"})
    /\ purchased.refunding = Unreserved({l \in Lots : lot[l].status = "WITHDRAWN"})

\* A finished lot backs no open reservation, so no later commit or release
\* can fail on it or touch a refunded credit.
HeldOnLiveLots ==
    \A l \in Lots : lot[l].status \notin {"ACTIVE", "WITHDRAWN"}
                       => HeldOn(l) = {} /\ lot[l].current = 0

\* A charge can always be reversed: its lot is never in a state that the
\* compensation refuses as incompatible.
ChargesReversible ==
    \A k \in Charged("purchased") :
        LET l == reservation[k].unit
        IN  /\ Disposition(l) # "conflict"
            /\ lot[l].current + 1 <= PackSize
            /\ Disposition(l) = "held-for-refund"
                  => purchased.refunding >= Spendable(l)
=============================================================================
