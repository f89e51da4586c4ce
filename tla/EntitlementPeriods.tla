------------------------- MODULE EntitlementPeriods -------------------------
(***************************************************************************)
(* What the reconciliation of a shop's subscription promises to the credit *)
(* accounts: the shop draws its included credits from at most one billing  *)
(* period, a period is closed only while the shop is attached to it and in *)
(* the step that leaves it, and nothing attaches the shop to a closed one. *)
(* ShopifySubscription implements it.                                      *)
(***************************************************************************)
EXTENDS Integers

CONSTANT Periods        \* the billing periods of the shop; 0 is none of them

VARIABLES
    at,         \* the period the shop is attached to, or 0
    over        \* the closed periods
epVars == <<at, over>>

\* No period of a new shop is closed; an established one may be attached.
EPInit == at \in Periods \cup {0} /\ over = {}

\* The current period is recorded; the one left, if any, is left open.
Attach(k) == k \notin over /\ at' = k /\ UNCHANGED over
\* The successor is opened in the transaction that closes its predecessor.
Succeed(k) == at # 0 /\ k \notin over \cup {at} /\ at' = k /\ over' = over \cup {at}
\* The contract is over: its period is closed, or only no longer referred to.
Detach == at' = 0 /\ over' \in {over, over \cup ({at} \ {0})}

EPNext == Detach \/ \E k \in Periods : Attach(k) \/ Succeed(k)
EPSpec == EPInit /\ [][EPNext]_epVars
=============================================================================
