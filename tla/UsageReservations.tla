------------------------- MODULE UsageReservations -------------------------
(***************************************************************************)
(* The UsageReservation table of one shop, which the four credit sources   *)
(* (lifetime free, purchased, promotional, paid included) share.  A row    *)
(* holds one recovery credit for one outreach attempt.  Every operation on *)
(* it runs in one SERIALIZABLE transaction that is retried on a conflict,  *)
(* so an operation is one atomic step here.                                *)
(*                                                                         *)
(* A row is found by its sourceKey, which is unique.  Three sources use    *)
(* the logical key of the attempt; the paid source prefixes it with the    *)
(* billing period ("paid-included:<period>:<logical key>"), so an attempt  *)
(* has one possible plain row and one possible row per billing period.     *)
(* Quantities are one everywhere: every caller takes the default, and      *)
(* settlement and compensation refuse any other.                           *)
(***************************************************************************)
EXTENDS Naturals, FiniteSets

CONSTANTS
    Attempts,   \* outreach attempts of the shop
    MaxPeriod,  \* billing periods are numbered 1 .. MaxPeriod
    Lots,       \* recovery-credit purchases
    Grants,     \* promotional credit grants
    None        \* no lot and no grant

ASSUME TableAssumption ==
    /\ IsFiniteSet(Attempts)
    /\ MaxPeriod \in Nat
    /\ None \notin Lots \cup Grants

VARIABLE reservation    \* sourceKey -> row

Periods == 1 .. MaxPeriod

\* The logical key of an attempt, and its key in a billing period.
PlainKey(a) == <<a, 0>>
PaidKey(a, p) == <<a, p>>
SourceKeys == Attempts \X (0 .. MaxPeriod)

(***************************************************************************)
(* status NONE is the absence of a row.  kind tells which of counterId,    *)
(* purchasedCreditPurchaseId, promotionalCreditGrantId and                 *)
(* billingPeriodEntitlementCounterId is set, unit is the lot or the grant  *)
(* it names, and compensated says that compensationUsageEventId is set.    *)
(***************************************************************************)
Statuses == {"NONE", "RESERVED", "COMMITTED", "RELEASED", "AMBIGUOUS"}
Kinds == {"none", "free", "purchased", "promotional", "paid"}
Row == [status : Statuses, kind : Kinds, unit : Lots \cup Grants \cup {None},
        compensated : BOOLEAN]

NoRow == [status |-> "NONE", kind |-> "none", unit |-> None,
          compensated |-> FALSE]
ReservedRow(kind, unit) ==
    [status |-> "RESERVED", kind |-> kind, unit |-> unit,
     compensated |-> FALSE]

ReservationsTypeOK == reservation \in [SourceKeys -> Row]
ReservationsInit == reservation = [k \in SourceKeys |-> NoRow]

-----------------------------------------------------------------------------
(* The transition rules every source applies (reservation-lifecycle.ts).   *)

\* Mutants: a settled row is taken for an open one.
MutReactivable(k, kind) ==
    reservation[k].status \in {"RELEASED", "COMMITTED"} /\ reservation[k].kind = kind
MutTransitions(k, kind) ==
    reservation[k].status \in {"RESERVED", "AMBIGUOUS"} /\ reservation[k].kind = kind
MutReplays(k, kind) ==
    reservation[k].status # "NONE" /\ reservation[k].kind = kind

\* A row may be created, or an own RELEASED row reactivated.
Absent(k) == reservation[k].status = "NONE"
Reactivable(k, kind) ==
    reservation[k].status = "RELEASED" /\ reservation[k].kind = kind

\* commit, release and markAmbiguous apply to a RESERVED row only; on any
\* other status they replay it (or throw) and change nothing.
Transitions(k, kind) ==
    reservation[k].status = "RESERVED" /\ reservation[k].kind = kind

WriteReserved(k, kind, unit) ==
    reservation' = [reservation EXCEPT ![k] = ReservedRow(kind, unit)]
WriteStatus(k, status) ==
    reservation' = [reservation EXCEPT ![k].status = status]
WriteCompensated(k) ==
    reservation' = [reservation EXCEPT ![k].compensated = TRUE]

-----------------------------------------------------------------------------
(* What the counters of the sources are supposed to count.                 *)

\* RESERVED and AMBIGUOUS rows keep their credit set aside.
HeldStatuses == {"RESERVED", "AMBIGUOUS"}
Held(kind) == {k \in SourceKeys : /\ reservation[k].kind = kind
                                  /\ reservation[k].status \in HeldStatuses}
HeldOn(unit) == {k \in SourceKeys : /\ reservation[k].unit = unit
                                    /\ reservation[k].status \in HeldStatuses}
HeldIn(p) == {k \in Held("paid") : k[2] = p}

\* Committed rows that no delivery compensation has reversed.
IsCharged(k) == reservation[k].status = "COMMITTED" /\ ~reservation[k].compensated
Charged(kind) == {k \in SourceKeys : reservation[k].kind = kind /\ IsCharged(k)}
ChargedOn(unit) == {k \in SourceKeys : reservation[k].unit = unit /\ IsCharged(k)}
ChargedIn(p) == {k \in Charged("paid") : k[2] = p}

(***************************************************************************)
(* The rows of one attempt.  findExactRecoveryReservationSource matches    *)
(* the logical key and every paid-included key that ends with it, whatever *)
(* the status, and asserts that it finds at most one.                      *)
(***************************************************************************)
RowsOf(a) == {k \in SourceKeys : k[1] = a /\ reservation[k].status # "NONE"}
=============================================================================
