--------------------------- MODULE MCSubscriptions ---------------------------
(***************************************************************************)
(* The two subscriptions, for TLC: the receipts of WooCommerce, and the    *)
(* reconciliation with Shopify.  A behaviour follows one of them; the      *)
(* other rests in a fixed initial state.  The contract of a Free shop from *)
(* the time before its periods were recorded ("legacy") does not change.   *)
(***************************************************************************)
EXTENDS WooBilling, ShopifySubscription

VARIABLE which              \* the platform of the behaviour, chosen once

subscriptionVars == <<which, wbVars, syncVars>>

SubscriptionsInit ==
    /\ which \in {"woo", "shopify", "legacy"}
    /\ WooBillingInit /\ SyncInit /\ (which = "woo" => PaidShop) /\ (which = "legacy" <=> OldShop)

Woo(A) == which = "woo" /\ A /\ UNCHANGED <<which, syncVars>>
Shopify(A) ==
    /\ which # "woo" /\ A /\ UNCHANGED <<which, wbVars>>
    /\ which = "legacy" => UNCHANGED moves

SubscriptionsNext == Woo(WooBillingNext) \/ Shopify(SyncNext)

\* The fairness of WooBillingSpec and SyncSpec.  Only the conditions of the
\* chosen platform can be enabled.
SubscriptionsFairness ==
    /\ \A r \in Receipts : WF_subscriptionVars(Woo(HandleReceipt(r)))
    /\ WF_subscriptionVars(Woo(ActivateCharge) \/ Shopify(JobSync))
    /\ WF_subscriptionVars(Woo(TerminateCharge) \/ Shopify(ScanSync))
    /\ WF_subscriptionVars(Woo(ReconcileEntitlement) \/ Shopify(Reinstall))

SubscriptionsSpec == SubscriptionsInit /\ [][SubscriptionsNext]_subscriptionVars /\ SubscriptionsFairness

\* The rows are well formed; the plan served is the one paid for, whatever order the receipts came in, and an activation
\* quarantined for coming too early is made good by the contract's next receipt (transitionWooSubscription,
\* subscription-receipt-processor).
SubscriptionsConsistent == WooBillingTypeOK /\ SyncTypeOK /\ ServedAsPaid /\ QuarantineIsRepaired

\* Coverage that lapses ends the service (woo entitlement reconciliation).
LapsesEndService == which = "woo" => LapsedCoverageStops
\* A paid charge becomes one lot, once, although two scans and several receipts tell of it (charge-receipt-processor).
ChargesCreditedOnce == ChargeSettledOnce /\ (which = "woo" => PaidChargeCredited)
\* The row comes to agree with the provider, or reports why not (billing-reconciliation).
ProjectionsConverge == which # "woo" => ProjectionConverges
=============================================================================
