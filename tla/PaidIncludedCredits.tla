------------------------ MODULE PaidIncludedCredits ------------------------
(***************************************************************************)
(* The recovery credits included in a paid billing period                  *)
(* (paid-included-recovery-reservation.service.ts) and the close of a      *)
(* period, which releases its open rows and forfeits what was not used     *)
(* (billing-period-transition/).  Each period has a counter of its own and *)
(* each row belongs to the period in its key.                              *)
(***************************************************************************)
EXTENDS UsageReservations

CONSTANT Included       \* grantedQuantity of every period's counter

ASSUME PaidAssumption == Included \in Nat

VARIABLES
    current,        \* the period the subscription points to; 0 before the first
    ended,          \* now >= periodEnd of the current period
    periodCounter   \* period -> INCLUDED_RECOVERY_CREDITS counter

paidVars == <<current, ended, periodCounter>>

PaidTypeOK ==
    /\ current \in 0 .. MaxPeriod
    /\ ended \in BOOLEAN
    /\ periodCounter \in
         [Periods -> [reserved : Nat, committed : Nat, forfeited : Nat]]

PaidInit ==
    /\ current = 0
    /\ ended = FALSE
    /\ periodCounter =
         [p \in Periods |-> [reserved |-> 0, committed |-> 0, forfeited |-> 0]]

\* Periods follow one another: those before the current one are CLOSED.
Closed(p) == p < current

\* status OPEN, periodEnd > now, and the one the subscription points to.
CurrentOpen(p) == p = current /\ p # 0 /\ ~ended

Available(p) ==
    Included - periodCounter[p].committed - periodCounter[p].reserved
             - periodCounter[p].forfeited

ValidCounter(p) == Available(p) >= 0

PaidReserveOutcome(a, p) ==
    LET k == PaidKey(a, p)
    IN  CASE ~CurrentOpen(p) \/ ~ValidCounter(p) -> "throws"
          [] CurrentOpen(p) /\ Absent(k) /\ Available(p) = 0 -> "exhausted"
          [] CurrentOpen(p) /\ Absent(k) /\ Available(p) >= 1 -> "reserved"
          [] CurrentOpen(p) /\ Reactivable(k, "paid") /\ Available(p) >= 1
               -> "reserved"
          [] OTHER -> reservation[k].status

ReservePaid(a, p) ==
    /\ PaidReserveOutcome(a, p) = "reserved"
    /\ WriteReserved(PaidKey(a, p), "paid", None)
    /\ periodCounter' = [periodCounter EXCEPT ![p].reserved = @ + 1]
    /\ UNCHANGED <<current, ended>>

\* Throws PERIOD_NOT_CURRENT_OPEN once the period has ended or was closed.
CommitPaid(a, p) ==
    /\ Transitions(PaidKey(a, p), "paid")
    /\ CurrentOpen(p)
    /\ periodCounter[p].reserved >= 1
    /\ WriteStatus(PaidKey(a, p), "COMMITTED")
    /\ periodCounter' = [periodCounter EXCEPT ![p].reserved = @ - 1,
                                              ![p].committed = @ + 1]
    /\ UNCHANGED <<current, ended>>

\* No period condition: a row of an ended period can still be released.
ReleasePaid(a, p) ==
    /\ Transitions(PaidKey(a, p), "paid")
    /\ ValidCounter(p)
    /\ periodCounter[p].reserved >= 1
    /\ WriteStatus(PaidKey(a, p), "RELEASED")
    /\ periodCounter' = [periodCounter EXCEPT ![p].reserved = @ - 1]
    /\ UNCHANGED <<current, ended>>

\* Mutant: an uncertain row gives its unit back.
MutMarkPaidAmbiguous(a, p) ==
    /\ Transitions(PaidKey(a, p), "paid")
    /\ ~Closed(p) /\ ~ended
    /\ WriteStatus(PaidKey(a, p), "AMBIGUOUS")
    /\ periodCounter' = [periodCounter EXCEPT ![p].reserved = @ - 1]
    /\ UNCHANGED <<current, ended>>

MarkPaidAmbiguous(a, p) ==
    /\ Transitions(PaidKey(a, p), "paid")
    /\ ValidCounter(p)
    /\ ~Closed(p) /\ ~ended
    /\ WriteStatus(PaidKey(a, p), "AMBIGUOUS")
    /\ UNCHANGED paidVars

\* Mutant: a compensated credit of a closed period becomes available again.
MutCompensatePaid(a, p) ==
    LET k == PaidKey(a, p)
    IN  /\ reservation[k].kind = "paid"
        /\ IsCharged(k)
        /\ periodCounter[p].committed >= 1
        /\ WriteCompensated(k)
        /\ periodCounter' = [periodCounter EXCEPT ![p].committed = @ - 1]
        /\ UNCHANGED <<current, ended>>

\* A credit of a closed or ended period is forfeited, never spendable again.
CompensatePaid(a, p) ==
    LET k == PaidKey(a, p)
        forfeit == IF CurrentOpen(p) THEN 0 ELSE 1
    IN  /\ reservation[k].kind = "paid"
        /\ IsCharged(k)
        /\ periodCounter[p].committed >= 1
        /\ WriteCompensated(k)
        /\ periodCounter' = [periodCounter EXCEPT ![p].committed = @ - 1,
                                                  ![p].forfeited = @ + forfeit]
        /\ UNCHANGED <<current, ended>>

\* The clock reaches periodEnd; the row stays OPEN until the transition.
PeriodEnds ==
    /\ current # 0 /\ ~ended
    /\ ended' = TRUE
    /\ UNCHANGED <<reservation, current, periodCounter>>

(***************************************************************************)
(* closePaidIncludedCreditCounter throws, and with it the whole transition *)
(* to the next period, when the counter disagrees with the rows.           *)
(***************************************************************************)
ForfeitableAfterRelease(p) ==
    Included - periodCounter[p].committed - periodCounter[p].forfeited
CloseAccepted(p) ==
    /\ ForfeitableAfterRelease(p) >= 0
    /\ periodCounter[p].reserved = Cardinality(HeldIn(p))

\* The first period of the subscription opens.
OpenFirstPeriod ==
    /\ current = 0 /\ MaxPeriod >= 1
    /\ current' = 1
    /\ UNCHANGED <<reservation, ended, periodCounter>>

\* Mutant: the close settles the counter and forgets the uncertain rows.
MutRollover ==
    /\ current \in 1 .. MaxPeriod - 1
    /\ CloseAccepted(current)
    /\ reservation' = [k \in SourceKeys |->
          IF k \in HeldIn(current) /\ reservation[k].status = "RESERVED"
          THEN [reservation[k] EXCEPT !.status = "RELEASED"]
          ELSE reservation[k]]
    /\ periodCounter' = [periodCounter EXCEPT
          ![current].reserved = @ - Cardinality(HeldIn(current)),
          ![current].forfeited = @ + ForfeitableAfterRelease(current)]
    /\ current' = current + 1
    /\ ended' = FALSE

\* closeBillingPeriod and ensureSuccessorBillingPeriod, in one transaction.
Rollover ==
    /\ current \in 1 .. MaxPeriod - 1
    /\ CloseAccepted(current)
    /\ reservation' = [k \in SourceKeys |->
          IF k \in HeldIn(current)
          THEN [reservation[k] EXCEPT !.status = "RELEASED"]
          ELSE reservation[k]]
    /\ periodCounter' = [periodCounter EXCEPT
          ![current].reserved = @ - Cardinality(HeldIn(current)),
          ![current].forfeited = @ + ForfeitableAfterRelease(current)]
    /\ current' = current + 1
    /\ ended' = FALSE

PaidNext ==
    \/ \E a \in Attempts, p \in Periods :
          \/ ReservePaid(a, p)
          \/ CommitPaid(a, p)
          \/ ReleasePaid(a, p)
          \/ MarkPaidAmbiguous(a, p)
          \/ CompensatePaid(a, p)
    \/ PeriodEnds
    \/ OpenFirstPeriod
    \/ Rollover

-----------------------------------------------------------------------------
\* Every period's counter says what its rows say.
PaidReconciled ==
    \A p \in Periods :
        /\ periodCounter[p].reserved = Cardinality(HeldIn(p))
        /\ periodCounter[p].committed = Cardinality(ChargedIn(p))

\* Whatever the rows went through, the transition to the next period is
\* never refused for an inconsistent or overdrawn counter.
RolloverNeverRefused ==
    current \in Periods => CloseAccepted(current)

\* A closed period is settled for good: every granted credit was either
\* charged or forfeited, and nothing is held.
ClosedPeriodSettled ==
    \A p \in Periods : Closed(p) =>
        /\ periodCounter[p].reserved = 0
        /\ periodCounter[p].committed + periodCounter[p].forfeited = Included
=============================================================================
