---------------------------- MODULE FreeCredits ----------------------------
(***************************************************************************)
(* The lifetime free recovery credits of a shop                            *)
(* (free-recovery-reservation.service.ts): the ShopEntitlementCounter      *)
(* LIFETIME_FREE_RECOVERY_CREDITS and the operations on its rows.          *)
(***************************************************************************)
EXTENDS UsageReservations

CONSTANT FreeGranted    \* grantedQuantity of the counter

ASSUME FreeAssumption == FreeGranted \in Nat

VARIABLE freeCounter

FreeTypeOK == freeCounter \in [reserved : Nat, committed : Nat]
FreeInit == freeCounter = [reserved |-> 0, committed |-> 0]

\* Mutant: held credits count as remaining.
MutFreeRemaining == FreeGranted - freeCounter.committed

FreeRemaining == FreeGranted - freeCounter.committed - freeCounter.reserved

(***************************************************************************)
(* What reserve answers for an attempt: it reserves, or finds the row and  *)
(* replays its status, or has nothing left.  Only the creation of a row    *)
(* looks at newRecoveriesPaused, and reservePostContract never does.  A    *)
(* promotional row has no counter and makes the service throw.             *)
(***************************************************************************)
FreeReserveOutcome(a, paused) ==
    LET k == PlainKey(a)
    IN  CASE Absent(k) /\ paused -> "paused"
          [] Absent(k) /\ ~paused /\ FreeRemaining < 1 -> "exhausted"
          [] Absent(k) /\ ~paused /\ FreeRemaining >= 1 -> "reserved"
          [] Reactivable(k, "free") /\ FreeRemaining >= 1 -> "reserved"
          [] reservation[k].kind = "promotional" -> "throws"
          [] OTHER -> reservation[k].status

ReserveFree(a, paused) ==
    /\ FreeReserveOutcome(a, paused) = "reserved"
    /\ WriteReserved(PlainKey(a), "free", None)
    /\ freeCounter' = [freeCounter EXCEPT !.reserved = @ + 1]

CommitFree(a) ==
    /\ Transitions(PlainKey(a), "free")
    /\ freeCounter.reserved >= 1
    /\ WriteStatus(PlainKey(a), "COMMITTED")
    /\ freeCounter' = [freeCounter EXCEPT !.reserved = @ - 1,
                                          !.committed = @ + 1]

\* Mutant: the row is released and its unit stays reserved.
MutReleaseFree(a) ==
    /\ Transitions(PlainKey(a), "free")
    /\ WriteStatus(PlainKey(a), "RELEASED")
    /\ UNCHANGED freeCounter

ReleaseFree(a) ==
    /\ Transitions(PlainKey(a), "free")
    /\ freeCounter.reserved >= 1
    /\ WriteStatus(PlainKey(a), "RELEASED")
    /\ freeCounter' = [freeCounter EXCEPT !.reserved = @ - 1]

MarkFreeAmbiguous(a) ==
    /\ Transitions(PlainKey(a), "free")
    /\ WriteStatus(PlainKey(a), "AMBIGUOUS")
    /\ UNCHANGED freeCounter

\* correctCommittedCounter, free branch, with the recorded correction.
CompensateFree(a) ==
    /\ reservation[PlainKey(a)].kind = "free"
    /\ IsCharged(PlainKey(a))
    /\ freeCounter.committed >= 1
    /\ WriteCompensated(PlainKey(a))
    /\ freeCounter' = [freeCounter EXCEPT !.committed = @ - 1]

FreeNext(a) == \/ \E paused \in BOOLEAN : ReserveFree(a, paused)
               \/ CommitFree(a)
               \/ ReleaseFree(a)
               \/ MarkFreeAmbiguous(a)
               \/ CompensateFree(a)

-----------------------------------------------------------------------------
(***************************************************************************)
(* The counter says exactly what the rows say: no reserved unit without a  *)
(* held row, none lost by a replay, a retry, or a compensation.            *)
(***************************************************************************)
FreeReconciled ==
    /\ freeCounter.reserved = Cardinality(Held("free"))
    /\ freeCounter.committed = Cardinality(Charged("free"))

\* Concurrent admissions never hand out more than the granted credits.
FreeNeverOverdrawn == freeCounter.reserved + freeCounter.committed <= FreeGranted
=============================================================================
