--------------------------- MODULE CreditLedger ---------------------------
(***************************************************************************)
(* The recovery credits of one shop: the four sources over the shared      *)
(* reservation table, and the refunds.  Every operation is offered at any  *)
(* time, to any number of workers; which worker calls what, and in which   *)
(* order, is RecoveryBilling's subject.                                    *)
(***************************************************************************)
EXTENDS FreeCredits, PaidIncludedCredits, PromotionalCredits, CreditRefunds

ASSUME LedgerAssumption == Lots \cap Grants = {}

vars == <<reservation, freeCounter, paidVars, purchasedVars, seen,
          promotionalVars>>

TypeOK == /\ ReservationsTypeOK
          /\ FreeTypeOK
          /\ PaidTypeOK
          /\ PurchasedTypeOK
          /\ RefundsTypeOK
          /\ PromotionalTypeOK

Init == /\ ReservationsInit
        /\ FreeInit
        /\ PaidInit
        /\ PurchasedInit
        /\ RefundsInit
        /\ PromotionalInit

\* One source moves; the others keep their counters.
Free == /\ \E a \in Attempts : FreeNext(a)
        /\ UNCHANGED <<paidVars, purchasedVars, seen, promotionalVars>>
Paid == /\ PaidNext
        /\ UNCHANGED <<freeCounter, purchasedVars, seen, promotionalVars>>
Purchased == /\ PurchasedNext
             /\ UNCHANGED <<freeCounter, paidVars, seen, promotionalVars>>
Refunds == /\ RefundsNext
           /\ UNCHANGED <<freeCounter, paidVars, promotionalVars>>
Promotional == /\ PromotionalNext
               /\ UNCHANGED <<freeCounter, paidVars, purchasedVars, seen>>

Next == Free \/ Paid \/ Purchased \/ Refunds \/ Promotional

Spec == Init /\ [][Next]_vars

-----------------------------------------------------------------------------
(***************************************************************************)
(* A row is final once committed, changes its owner only by a reactivation *)
(* (another lot), and its compensation happens once.                       *)
(***************************************************************************)
ChargedForGood ==
    [][\A k \in SourceKeys :
          reservation[k].status = "COMMITTED" =>
              /\ reservation'[k].status = "COMMITTED"
              /\ reservation'[k].unit = reservation[k].unit
              /\ reservation[k].compensated => reservation'[k] = reservation[k]]_vars

(***************************************************************************)
(* An uncertain send keeps its credit: nothing but the close of its        *)
(* billing period takes an AMBIGUOUS row out of that status.               *)
(***************************************************************************)
AmbiguousKeepsCredit ==
    [][\A k \in SourceKeys :
          reservation[k].status = "AMBIGUOUS" =>
              \/ reservation'[k] = reservation[k]
              \/ k[2] # 0 /\ k[2] < current' /\ reservation'[k].status = "RELEASED"]_vars

(***************************************************************************)
(* The invariants of the four sources, as a caller of the ledger has them. *)
(***************************************************************************)
\* Every counter equals the rows behind it, and no source gives out more than it was granted (the reserve, commit and
\* release transactions of the four services, and their compensations).
CreditsAccounted ==
    /\ FreeReconciled /\ FreeNeverOverdrawn
    /\ PaidReconciled
    /\ PurchasedReconciled /\ LotsReconciled
    /\ PromotionalReconciled /\ GrantNeverOverdrawn

\* A reservation's lot can still answer for it: nothing is held on a finished lot, every charge can be reversed, and a
\* refund lives exactly as long as its withdrawn lot (delivery compensation, refund correction).
LotsBackRows == HeldOnLiveLots /\ ChargesReversible /\ RefundFollowsLot

\* The close of a billing period is never refused for good and leaves nothing open (closeBillingPeriod).
PeriodsClose == RolloverNeverRefused /\ ClosedPeriodSettled

\* No replay, no second source and no late compensation reopens a settled row or gives an uncertain one away
\* (reservation-lifecycle).
RowsSettleForGood == ChargedForGood /\ AmbiguousKeepsCredit
=============================================================================
