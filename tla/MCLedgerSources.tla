-------------------------- MODULE MCLedgerSources --------------------------
(***************************************************************************)
(* CreditLedger for TLC with one source at a time beside the free credits: *)
(* purchased lots and their WooCommerce refunds, the included credits of   *)
(* successive billing periods, or promotional grants.                      *)
(***************************************************************************)
EXTENDS MCCreditLedger

VARIABLE scenario           \* chosen once

\* Two attempts compete in the long scenario of the periods.
AtMostTwoAttempts ==
    Cardinality({a \in Attempts : \E k \in SourceKeys : k[1] = a /\ reservation'[k].status # "NONE"}) <= 2

\* A step of the scenario, in which the free credits compete with one other source.
In(scenarios) == scenario \in scenarios /\ UNCHANGED scenario

FreeMoves        == Free /\ In({"woo", "promotional"})
FreeOfPeriods    == Free /\ In({"periods"}) /\ AtMostTwoAttempts
PaidMoves        == Paid /\ In({"periods"}) /\ AtMostTwoAttempts
PurchasedMoves   == Purchased /\ In({"woo"})
RefundMoves      == Refunds /\ In({"woo"})
PromotionalMoves == Promotional /\ In({"promotional"})

SourcesNext == FreeMoves \/ FreeOfPeriods \/ PaidMoves \/ PurchasedMoves \/ RefundMoves \/ PromotionalMoves

SourcesInit == Init /\ scenario \in {"woo", "periods", "promotional"}
SourcesSpec == SourcesInit /\ [][SourcesNext]_<<vars, scenario>>
=============================================================================
