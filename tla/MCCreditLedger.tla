--------------------------- MODULE MCCreditLedger ---------------------------
(* Instances of CreditLedger for TLC.                                      *)
EXTENDS CreditLedger, TLC

\* A shop that has neither a plan with included credits nor a promotion.
LotsSpec == Init /\ [][Free \/ Purchased \/ Refunds]_vars

\* Attempts, lots and grants are interchangeable: no action compares them.
Symmetry == Permutations(Attempts) \cup Permutations(Lots) \cup Permutations(Grants)
=============================================================================
