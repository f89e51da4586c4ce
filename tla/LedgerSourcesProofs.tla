-------------------------- MODULE LedgerSourcesProofs --------------------------
(***************************************************************************)
(* The shared table and three of its four sources.  First what the proofs  *)
(* about every source rest on: the shape of the rows, and that a source    *)
(* writes no row but its own.  Then the lifetime free credits, the         *)
(* included credits of paid billing periods and the promotional grants:    *)
(* for any number of attempts, periods and grants, every counter equals    *)
(* the rows behind it and is never overdrawn.                              *)
(***************************************************************************)
EXTENDS CreditLedger, FiniteSetTheorems, TLAPS

(***************************************************************************)
(* The inductive invariant of the rows: which unit a row names follows     *)
(* from its source, paid rows are those under a period key, and only a     *)
(* committed row carries a compensation.                                   *)
(***************************************************************************)
RowShape ==
    \A k \in SourceKeys :
        /\ reservation[k].status = "NONE" <=> reservation[k].kind = "none"
        /\ reservation[k].kind = "purchased" => reservation[k].unit \in Lots
        /\ reservation[k].kind = "promotional" => reservation[k].unit \in Grants
        /\ reservation[k].kind \in {"none", "free", "paid"} => reservation[k].unit = None
        /\ reservation[k].kind = "paid" => k[2] \in Periods
        /\ reservation[k].kind \in {"free", "purchased", "promotional"} => k[2] = 0
        /\ reservation[k].compensated => reservation[k].status = "COMMITTED"

RowsInv == ReservationsTypeOK /\ RowShape

\* A step that writes one row, which was absent or of the same source, and
\* was neither uncertain nor finally settled.
RowStep(kind) ==
    \E k \in SourceKeys, r \in Row :
        /\ reservation' = [reservation EXCEPT ![k] = r]
        /\ reservation[k].kind \in {"none", kind}
        /\ r.kind = kind
        /\ r.status # "NONE"
        /\ kind = "purchased" => r.unit \in Lots
        /\ kind = "promotional" => r.unit \in Grants
        /\ kind \in {"free", "paid"} => r.unit = None
        /\ IF kind = "paid" THEN k[2] \in Periods ELSE k[2] = 0
        /\ r.compensated => r.status = "COMMITTED"
        /\ reservation[k].status # "AMBIGUOUS"
        /\ reservation[k].status = "COMMITTED" =>
              /\ ~reservation[k].compensated
              /\ r.status = "COMMITTED" /\ r.unit = reservation[k].unit

-----------------------------------------------------------------------------
LEMMA KeysFinite == IsFiniteSet(SourceKeys)
<1>1. IsFiniteSet(0 .. MaxPeriod)
  BY TableAssumption, FS_Interval
<1>2. QED
  BY <1>1, TableAssumption, FS_Product DEF SourceKeys

LEMMA KeysInTable ==
    /\ \A a \in Attempts : PlainKey(a) \in SourceKeys /\ PlainKey(a)[2] = 0
    /\ \A a \in Attempts, p \in Periods : PaidKey(a, p) \in SourceKeys /\ PaidKey(a, p)[2] = p
BY TableAssumption DEF PlainKey, PaidKey, SourceKeys, Periods

Sources == {"free", "purchased", "promotional", "paid"}
KeyOf(kind) == IF kind = "paid" THEN {k \in SourceKeys : k[2] \in Periods}
               ELSE {k \in SourceKeys : k[2] = 0}

\* Creating or reactivating a row is a step of its source.
LEMMA ReserveIsRowStep ==
    ASSUME RowsInv, NEW kind \in Sources, NEW k \in KeyOf(kind),
           NEW unit \in Lots \cup Grants \cup {None},
           Absent(k) \/ Reactivable(k, kind),
           WriteReserved(k, kind, unit),
           kind = "purchased" => unit \in Lots,
           kind = "promotional" => unit \in Grants,
           kind \in {"free", "paid"} => unit = None
    PROVE  RowStep(kind)
<1>1. ReservedRow(kind, unit) \in Row
  BY DEF ReservedRow, Row, Statuses, Kinds, Sources
<1>2. reservation[k].kind \in {"none", kind}
  BY DEF RowsInv, RowShape, Absent, Reactivable, KeyOf
<1>3. reservation[k].status \in {"NONE", "RELEASED"}
  BY DEF Absent, Reactivable
<1>4. QED
  BY <1>1, <1>2, <1>3 DEF RowStep, WriteReserved, ReservedRow, KeyOf

\* So are commit, release and markAmbiguous.
LEMMA StatusIsRowStep ==
    ASSUME RowsInv, NEW kind \in Sources, NEW k \in KeyOf(kind),
           NEW status \in {"RELEASED", "COMMITTED", "AMBIGUOUS"},
           Transitions(k, kind), WriteStatus(k, status)
    PROVE  RowStep(kind)
<1> DEFINE r == [reservation[k] EXCEPT !.status = status]
<1>0. k \in SourceKeys /\ reservation \in [SourceKeys -> Row] /\ reservation[k] \in Row
  BY DEF RowsInv, ReservationsTypeOK, KeyOf
<1>1. r \in Row /\ r.status = status /\ r.kind = kind
           /\ r.unit = reservation[k].unit /\ r.compensated = reservation[k].compensated
  BY <1>0 DEF Row, Statuses, Transitions
<1>2. reservation' = [reservation EXCEPT ![k] = r]
  BY <1>0 DEF WriteStatus
<1>3. ~reservation[k].compensated
  BY <1>0 DEF RowsInv, RowShape, Transitions
<1> HIDE DEF r
<1>4. /\ reservation[k].kind = kind /\ reservation[k].status # "AMBIGUOUS"
      /\ reservation[k].status # "COMMITTED"
      /\ IF kind = "paid" THEN k[2] \in Periods ELSE k[2] = 0
  BY DEF Transitions, KeyOf
<1>5. /\ kind = "purchased" => r.unit \in Lots
      /\ kind = "promotional" => r.unit \in Grants
      /\ kind \in {"free", "paid"} => r.unit = None
  BY <1>0, <1>1, <1>4 DEF RowsInv, RowShape
<1>6. QED
  BY <1>0, <1>1, <1>2, <1>3, <1>4, <1>5 DEF RowStep

\* And the record of a compensation.
LEMMA CompensateIsRowStep ==
    ASSUME RowsInv, NEW kind \in Sources, NEW k \in KeyOf(kind),
           reservation[k].kind = kind, IsCharged(k), WriteCompensated(k)
    PROVE  RowStep(kind)
<1> DEFINE r == [reservation[k] EXCEPT !.compensated = TRUE]
<1>0. k \in SourceKeys /\ reservation \in [SourceKeys -> Row] /\ reservation[k] \in Row
  BY DEF RowsInv, ReservationsTypeOK, KeyOf
<1>1. r \in Row /\ r.status = "COMMITTED" /\ r.kind = kind
           /\ r.unit = reservation[k].unit /\ r.compensated
  BY <1>0 DEF Row, IsCharged
<1>2. reservation' = [reservation EXCEPT ![k] = r]
  BY <1>0 DEF WriteCompensated
<1> HIDE DEF r
<1>3. /\ reservation[k].status = "COMMITTED" /\ ~reservation[k].compensated
      /\ IF kind = "paid" THEN k[2] \in Periods ELSE k[2] = 0
  BY DEF IsCharged, KeyOf
<1>4. /\ kind = "purchased" => r.unit \in Lots
      /\ kind = "promotional" => r.unit \in Grants
      /\ kind \in {"free", "paid"} => r.unit = None
  BY <1>0, <1>1 DEF RowsInv, RowShape
<1>5. QED
  BY <1>0, <1>1, <1>2, <1>3, <1>4 DEF RowStep

-----------------------------------------------------------------------------
(* Each source's actions, by the rows they write.                          *)

\* What the replay of a row answers is a status, never "reserved".
LEMMA RowFields ==
    ASSUME RowsInv, NEW k \in SourceKeys
    PROVE  /\ reservation[k] \in Row
           /\ reservation[k].status \in Statuses
           /\ reservation[k].status # "reserved"
BY DEF RowsInv, ReservationsTypeOK, Row, Statuses

LEMMA FreeWrites ==
    ASSUME RowsInv, NEW a \in Attempts, FreeNext(a)
    PROVE  RowStep("free")
<1>0. PlainKey(a) \in KeyOf("free") /\ PlainKey(a) \in SourceKeys
  BY KeysInTable DEF KeyOf
<1>1. ASSUME NEW paused \in BOOLEAN, ReserveFree(a, paused) PROVE RowStep("free")
  <2>1. Absent(PlainKey(a)) \/ Reactivable(PlainKey(a), "free")
    BY <1>0, <1>1, RowFields DEF ReserveFree, FreeReserveOutcome
  <2>2. QED
    BY <1>0, <1>1, <2>1, ReserveIsRowStep DEF ReserveFree, Sources
<1>2. ASSUME CommitFree(a) \/ ReleaseFree(a) \/ MarkFreeAmbiguous(a) PROVE RowStep("free")
  BY <1>0, <1>2, StatusIsRowStep DEF CommitFree, ReleaseFree, MarkFreeAmbiguous, Sources
<1>3. ASSUME CompensateFree(a) PROVE RowStep("free")
  BY <1>0, <1>3, CompensateIsRowStep DEF CompensateFree, Sources
<1>4. QED
  BY <1>1, <1>2, <1>3 DEF FreeNext

LEMMA PaidWrites ==
    ASSUME RowsInv, NEW a \in Attempts, NEW p \in Periods,
           \/ ReservePaid(a, p)
           \/ CommitPaid(a, p)
           \/ ReleasePaid(a, p)
           \/ MarkPaidAmbiguous(a, p)
           \/ CompensatePaid(a, p)
    PROVE  RowStep("paid")
<1>0. PaidKey(a, p) \in KeyOf("paid") /\ PaidKey(a, p) \in SourceKeys
  BY KeysInTable DEF KeyOf
<1>1. ASSUME ReservePaid(a, p) PROVE RowStep("paid")
  <2>1. Absent(PaidKey(a, p)) \/ Reactivable(PaidKey(a, p), "paid")
    BY <1>0, <1>1, RowFields DEF ReservePaid, PaidReserveOutcome
  <2>2. QED
    BY <1>0, <1>1, <2>1, ReserveIsRowStep DEF ReservePaid, Sources
<1>2. ASSUME CommitPaid(a, p) \/ ReleasePaid(a, p) \/ MarkPaidAmbiguous(a, p)
      PROVE  RowStep("paid")
  BY <1>0, <1>2, StatusIsRowStep DEF CommitPaid, ReleasePaid, MarkPaidAmbiguous, Sources
<1>3. ASSUME CompensatePaid(a, p) PROVE RowStep("paid")
  BY <1>0, <1>3, CompensateIsRowStep DEF CompensatePaid, Sources
<1>4. QED
  BY <1>1, <1>2, <1>3

LEMMA PromotionalWrites ==
    ASSUME RowsInv, PromotionalNext
    PROVE  RowStep("promotional") \/ UNCHANGED reservation
<1>0. \A a \in Attempts : PlainKey(a) \in KeyOf("promotional") /\ PlainKey(a) \in SourceKeys
  BY KeysInTable DEF KeyOf
<1>1. ASSUME NEW a \in Attempts, NEW g \in Grants, NEW paused \in BOOLEAN,
             ReservePromotional(a, g, paused)
      PROVE  RowStep("promotional")
  <2>1. Absent(PlainKey(a)) \/ Reactivable(PlainKey(a), "promotional")
    BY <1>0, <1>1, RowFields DEF ReservePromotional, PromotionalReserveOutcome
  <2>2. QED
    BY <1>0, <1>1, <2>1, ReserveIsRowStep DEF ReservePromotional, Sources
<1>2. ASSUME NEW a \in Attempts,
             CommitPromotional(a) \/ ReleasePromotional(a) \/ MarkPromotionalAmbiguous(a)
      PROVE  RowStep("promotional")
  BY <1>0, <1>2, StatusIsRowStep
  DEF CommitPromotional, ReleasePromotional, MarkPromotionalAmbiguous, Sources
<1>3. ASSUME NEW a \in Attempts, CompensatePromotional(a) PROVE RowStep("promotional")
  BY <1>0, <1>3, CompensateIsRowStep DEF CompensatePromotional, Sources
<1>4. QED
  BY <1>1, <1>2, <1>3
  DEF PromotionalNext, SelectGrant, CampaignChanges, ReleaseExpiredSelection

LEMMA PurchasedWrites ==
    ASSUME RowsInv, PurchasedNext
    PROVE  RowStep("purchased") \/ UNCHANGED reservation
<1>0. \A a \in Attempts : PlainKey(a) \in KeyOf("purchased") /\ PlainKey(a) \in SourceKeys
  BY KeysInTable DEF KeyOf
<1>1. ASSUME NEW a \in Attempts, NEW l \in Lots, ReservePurchased(a, l)
      PROVE  RowStep("purchased")
  <2>1. Absent(PlainKey(a)) \/ Reactivable(PlainKey(a), "purchased")
    BY <1>0, <1>1, RowFields DEF ReservePurchased, PurchasedReserveOutcome
  <2>2. QED
    BY <1>0, <1>1, <2>1, ReserveIsRowStep DEF ReservePurchased, Sources
<1>2. ASSUME NEW a \in Attempts,
             CommitPurchased(a) \/ ReleasePurchased(a) \/ MarkPurchasedAmbiguous(a)
      PROVE  RowStep("purchased")
  BY <1>0, <1>2, StatusIsRowStep
  DEF CommitPurchased, ReleasePurchased, MarkPurchasedAmbiguous, Sources
<1>3. ASSUME NEW a \in Attempts, CompensatePurchased(a) PROVE RowStep("purchased")
  BY <1>0, <1>3, CompensateIsRowStep DEF CompensatePurchased, Sources
<1>4. QED
  BY <1>1, <1>2, <1>3
  DEF PurchasedNext, RequestPurchase, PurchaseReported, ActivatePurchase, WithdrawLot

LEMMA RefundsWriteNoRow == RefundsNext => UNCHANGED reservation
BY DEF RefundsNext, SelectRefund, CheckMeter, LinkCorrection, RequireProviderAction,
       CorrectionReported, ReconcileNeedsAttention, CompleteRefund, PrepareWooHold,
       SettleWooReceipt, Refunded

-----------------------------------------------------------------------------
\* Every step of the ledger, by the rows it writes.
LEMMA LedgerWrites ==
    ASSUME RowsInv, [Next]_vars
    PROVE  \/ UNCHANGED reservation
           \/ Free /\ RowStep("free")
           \/ Paid /\ (RowStep("paid") \/ Rollover)
           \/ Purchased /\ RowStep("purchased")
           \/ Promotional /\ RowStep("promotional")
<1>1. ASSUME Free PROVE RowStep("free")
  BY <1>1, FreeWrites DEF Free
<1>2. ASSUME Paid PROVE UNCHANGED reservation \/ RowStep("paid") \/ Rollover
  BY <1>2, PaidWrites DEF Paid, PaidNext, PeriodEnds, OpenFirstPeriod
<1>3. ASSUME Purchased PROVE UNCHANGED reservation \/ RowStep("purchased")
  BY <1>3, PurchasedWrites DEF Purchased
<1>4. ASSUME Promotional PROVE UNCHANGED reservation \/ RowStep("promotional")
  BY <1>4, PromotionalWrites DEF Promotional
<1>5. ASSUME Refunds PROVE UNCHANGED reservation
  BY <1>5, RefundsWriteNoRow DEF Refunds
<1>6. QED
  BY <1>1, <1>2, <1>3, <1>4, <1>5 DEF Next, vars

LEMMA RowStepKeepsShape ==
    ASSUME RowsInv, NEW kind \in Sources, RowStep(kind)
    PROVE  RowsInv'
<1>1. PICK k \in SourceKeys, r \in Row :
        /\ reservation' = [reservation EXCEPT ![k] = r]
        /\ reservation[k].kind \in {"none", kind}
        /\ r.kind = kind
        /\ r.status # "NONE"
        /\ kind = "purchased" => r.unit \in Lots
        /\ kind = "promotional" => r.unit \in Grants
        /\ kind \in {"free", "paid"} => r.unit = None
        /\ IF kind = "paid" THEN k[2] \in Periods ELSE k[2] = 0
        /\ r.compensated => r.status = "COMMITTED"
  BY DEF RowStep
<1>2. ReservationsTypeOK'
  BY <1>1 DEF RowsInv, ReservationsTypeOK
<1>3. \A j \in SourceKeys : reservation'[j] = IF j = k THEN r ELSE reservation[j]
  BY <1>1 DEF RowsInv, ReservationsTypeOK
<1>4. RowShape'
  BY <1>1, <1>3 DEF RowShape, RowsInv, Sources
<1>5. QED
  BY <1>2, <1>4 DEF RowsInv

LEMMA RolloverKeepsShape == ASSUME RowsInv, Rollover PROVE RowsInv'
<1>1. \A k \in SourceKeys :
        reservation'[k] = IF k \in HeldIn(current)
                          THEN [reservation[k] EXCEPT !.status = "RELEASED"]
                          ELSE reservation[k]
  BY DEF Rollover
<1>2. \A k \in SourceKeys : reservation[k] \in Row
  BY DEF RowsInv, ReservationsTypeOK
<1>r. ASSUME NEW r \in Row
      PROVE  LET e == [r EXCEPT !.status = "RELEASED"]
             IN  /\ e \in Row /\ e.status = "RELEASED" /\ e.kind = r.kind
                 /\ e.unit = r.unit /\ e.compensated = r.compensated
  BY DEF Row, Statuses
<1>3. \A k \in SourceKeys :
        /\ reservation'[k] \in Row
        /\ reservation'[k].kind = reservation[k].kind
        /\ reservation'[k].unit = reservation[k].unit
        /\ reservation'[k].compensated = reservation[k].compensated
        /\ k \notin HeldIn(current) => reservation'[k].status = reservation[k].status
        /\ k \in HeldIn(current) => reservation'[k].status = "RELEASED"
  <2> SUFFICES ASSUME NEW k \in SourceKeys
               PROVE  /\ reservation'[k] \in Row
                      /\ reservation'[k].kind = reservation[k].kind
                      /\ reservation'[k].unit = reservation[k].unit
                      /\ reservation'[k].compensated = reservation[k].compensated
                      /\ k \notin HeldIn(current) => reservation'[k].status = reservation[k].status
                      /\ k \in HeldIn(current) => reservation'[k].status = "RELEASED"
    OBVIOUS
  <2>1. CASE k \in HeldIn(current)
    <3> DEFINE e == [reservation[k] EXCEPT !.status = "RELEASED"]
    <3>1. reservation'[k] = e
      BY <1>1, <2>1
    <3>2. /\ e \in Row /\ e.status = "RELEASED" /\ e.kind = reservation[k].kind
          /\ e.unit = reservation[k].unit /\ e.compensated = reservation[k].compensated
      BY <1>2, <1>r
    <3> HIDE DEF e
    <3>3. QED
      BY <2>1, <3>1, <3>2
  <2>2. CASE k \notin HeldIn(current)
    BY <1>1, <1>2, <2>2
  <2>3. QED
    BY <2>1, <2>2
<1>4. ReservationsTypeOK'
  BY <1>3 DEF Rollover, ReservationsTypeOK
<1>5. \A k \in HeldIn(current) : /\ reservation[k].kind = "paid"
                                 /\ reservation[k].status \in {"RESERVED", "AMBIGUOUS"}
  BY DEF HeldIn, Held, HeldStatuses
<1>6. RowShape'
  BY <1>3, <1>5 DEF RowShape, RowsInv
<1>7. QED
  BY <1>4, <1>6 DEF RowsInv

\* Every step of the ledger keeps the shape of the rows.
LEMMA RowsInvStep == ASSUME RowsInv, [Next]_vars PROVE RowsInv'
<1>1. ASSUME UNCHANGED reservation PROVE RowsInv'
  BY <1>1 DEF RowsInv, ReservationsTypeOK, RowShape
<1>2. QED
  BY <1>1, LedgerWrites, RowStepKeepsShape, RolloverKeepsShape DEF Sources

\* And the empty table has it.
LEMMA RowsInvInit == Init => RowsInv
BY DEF Init, ReservationsInit, RowsInv, RowShape, ReservationsTypeOK, NoRow, Row,
       Statuses, Kinds

(***************************************************************************)
(* The rows keep their shape through every operation of every source: a    *)
(* row never names a unit of another source, and a compensation is never   *)
(* left on a row that is not charged.                                      *)
(***************************************************************************)
THEOREM RowsInvariant == Spec => []RowsInv
BY RowsInvInit, RowsInvStep, PTL DEF Spec

-----------------------------------------------------------------------------
(***************************************************************************)
(* A step of one source leaves what the others count alone.                *)
(***************************************************************************)
LEMMA OtherSourcesUntouched ==
    ASSUME RowsInv, NEW kind \in Sources, RowStep(kind),
           NEW other \in Sources \ {kind}
    PROVE  /\ Held(other)' = Held(other)
           /\ Charged(other)' = Charged(other)
<1>1. PICK k \in SourceKeys, r \in Row :
        /\ reservation' = [reservation EXCEPT ![k] = r]
        /\ reservation[k].kind \in {"none", kind}
        /\ r.kind = kind
  BY DEF RowStep
<1>2. \A j \in SourceKeys : reservation'[j] = IF j = k THEN r ELSE reservation[j]
  BY <1>1 DEF RowsInv, ReservationsTypeOK
<1>3. kind # "none" /\ other # "none" /\ other # kind
  BY DEF Sources
<1>4. QED
  BY <1>1, <1>2, <1>3 DEF Held, Charged, IsCharged

LEMMA RolloverTouchesPaidOnly ==
    ASSUME RowsInv, Rollover, NEW other \in Sources \ {"paid"}
    PROVE  /\ Held(other)' = Held(other)
           /\ Charged(other)' = Charged(other)
<1>1. \A k \in SourceKeys :
        reservation'[k] = IF k \in HeldIn(current)
                          THEN [reservation[k] EXCEPT !.status = "RELEASED"]
                          ELSE reservation[k]
  BY DEF Rollover
<1>2. \A k \in SourceKeys : reservation[k] \in Row
  BY DEF RowsInv, ReservationsTypeOK
<1>3. \A k \in HeldIn(current) : reservation[k].kind = "paid"
  BY DEF HeldIn, Held
<1>4. \A k \in SourceKeys :
        /\ reservation'[k].kind = reservation[k].kind
        /\ reservation[k].kind # "paid" => reservation'[k] = reservation[k]
  BY <1>1, <1>2, <1>3 DEF Row
<1>5. QED
  BY <1>4 DEF Held, Charged, IsCharged

(***************************************************************************)
(* Nor does it touch the rows of a lot or grant of another source.         *)
(***************************************************************************)
SameRowsOn(u) == HeldOn(u)' = HeldOn(u) /\ ChargedOn(u)' = ChargedOn(u)

LEMMA OtherUnitsUntouched ==
    ASSUME RowsInv, NEW kind \in Sources, RowStep(kind), NEW u \in Lots \cup Grants,
           kind = "purchased" => u \in Grants,
           kind = "promotional" => u \in Lots
    PROVE  SameRowsOn(u)
<1>1. PICK k \in SourceKeys, r \in Row :
        /\ reservation' = [reservation EXCEPT ![k] = r]
        /\ reservation[k].kind \in {"none", kind}
        /\ r.kind = kind
        /\ kind = "purchased" => r.unit \in Lots
        /\ kind = "promotional" => r.unit \in Grants
        /\ kind \in {"free", "paid"} => r.unit = None
  BY DEF RowStep
<1>2. \A j \in SourceKeys : reservation'[j] = IF j = k THEN r ELSE reservation[j]
  BY <1>1 DEF RowsInv, ReservationsTypeOK
<1>3. r.unit # u
  BY <1>1, LedgerAssumption, TableAssumption DEF Sources
<1>4. reservation[k].unit # u
  BY <1>1, LedgerAssumption, TableAssumption DEF Sources, RowsInv, RowShape
<1>5. QED
  BY <1>2, <1>3, <1>4 DEF SameRowsOn, HeldOn, ChargedOn, IsCharged

LEMMA RolloverKeepsUnits ==
    ASSUME RowsInv, Rollover, NEW u \in Lots \cup Grants
    PROVE  SameRowsOn(u)
<1>1. \A k \in SourceKeys :
        reservation'[k] = IF k \in HeldIn(current)
                          THEN [reservation[k] EXCEPT !.status = "RELEASED"]
                          ELSE reservation[k]
  BY DEF Rollover
<1>2. \A k \in HeldIn(current) : reservation[k].unit # u
  BY TableAssumption DEF HeldIn, Held, RowsInv, RowShape
<1>3. \A k \in SourceKeys : reservation[k] \in Row
  BY DEF RowsInv, ReservationsTypeOK
<1>4. \A k \in SourceKeys :
        /\ reservation'[k].unit = reservation[k].unit
        /\ reservation[k].unit = u => reservation'[k] = reservation[k]
  BY <1>1, <1>2, <1>3 DEF Row
<1>5. QED
  BY <1>4 DEF SameRowsOn, HeldOn, ChargedOn, IsCharged

-----------------------------------------------------------------------------
(* How the sets that the counters count change with each write.            *)

LEMMA KeyCounts ==
    ASSUME NEW S \in SUBSET SourceKeys, NEW k \in SourceKeys
    PROVE  /\ Cardinality(S) \in Nat
           /\ k \notin S => Cardinality(S \cup {k}) = Cardinality(S) + 1
           /\ k \in S => Cardinality(S \ {k}) = Cardinality(S) - 1
<1>1. IsFiniteSet(S)
  BY KeysFinite, FS_Subset
<1>2. QED
  BY <1>1, FS_CardinalityType, FS_AddElement, FS_RemoveElement

LEMMA CountedKeys ==
    /\ \A kind : Held(kind) \in SUBSET SourceKeys /\ Charged(kind) \in SUBSET SourceKeys
    /\ \A unit : HeldOn(unit) \in SUBSET SourceKeys /\ ChargedOn(unit) \in SUBSET SourceKeys
    /\ \A p : HeldIn(p) \in SUBSET SourceKeys /\ ChargedIn(p) \in SUBSET SourceKeys
BY DEF Held, Charged, HeldOn, ChargedOn, HeldIn, ChargedIn

LEMMA AfterReserve ==
    ASSUME RowsInv, NEW kind \in Sources, NEW k \in SourceKeys, NEW unit,
           Absent(k) \/ Reactivable(k, kind),
           WriteReserved(k, kind, unit)
    PROVE  /\ k \notin Held(kind) /\ Held(kind)' = Held(kind) \cup {k}
           /\ Charged(kind)' = Charged(kind)
           /\ \A u : k \notin HeldOn(u)
           /\ \A u : HeldOn(u)' = IF u = unit THEN HeldOn(u) \cup {k} ELSE HeldOn(u)
           /\ \A u : ChargedOn(u)' = ChargedOn(u)
<1>1. \A j \in SourceKeys :
        reservation'[j] = IF j = k THEN ReservedRow(kind, unit) ELSE reservation[j]
  BY DEF WriteReserved, RowsInv, ReservationsTypeOK
<1>2. reservation[k].status \in {"NONE", "RELEASED"}
  BY DEF Absent, Reactivable
<1>3. /\ ReservedRow(kind, unit).status = "RESERVED"
      /\ ReservedRow(kind, unit).kind = kind
      /\ ReservedRow(kind, unit).unit = unit
  BY DEF ReservedRow
<1>4. k \notin Held(kind) /\ k \notin Charged(kind)
  BY <1>2 DEF Held, HeldStatuses, Charged, IsCharged
<1>5. \A u : k \notin HeldOn(u) /\ k \notin ChargedOn(u)
  BY <1>2 DEF HeldOn, HeldStatuses, ChargedOn, IsCharged
<1>6. Held(kind)' = Held(kind) \cup {k} /\ Charged(kind)' = Charged(kind)
  BY <1>1, <1>3, <1>4 DEF Held, HeldStatuses, Charged, IsCharged
<1>7. \A u : /\ HeldOn(u)' = IF u = unit THEN HeldOn(u) \cup {k} ELSE HeldOn(u)
             /\ ChargedOn(u)' = ChargedOn(u)
  BY <1>1, <1>3, <1>5 DEF HeldOn, HeldStatuses, ChargedOn, IsCharged
<1>8. QED
  BY <1>4, <1>5, <1>6, <1>7

\* commit, release and markAmbiguous: the row leaves the held ones unless it
\* becomes AMBIGUOUS, and joins the charged ones when it is committed.
LEMMA AfterStatus ==
    ASSUME RowsInv, NEW kind \in Sources, NEW k \in SourceKeys,
           NEW status \in {"RELEASED", "COMMITTED", "AMBIGUOUS"},
           Transitions(k, kind), WriteStatus(k, status)
    PROVE  LET unit == reservation[k].unit IN
           /\ k \in Held(kind) /\ k \notin Charged(kind)
           /\ Held(kind)' = IF status = "AMBIGUOUS" THEN Held(kind) ELSE Held(kind) \ {k}
           /\ Charged(kind)' = IF status = "COMMITTED" THEN Charged(kind) \cup {k}
                                                       ELSE Charged(kind)
           /\ k \in HeldOn(unit) /\ k \notin ChargedOn(unit)
           /\ \A u : HeldOn(u)' = IF u = unit /\ status # "AMBIGUOUS"
                                  THEN HeldOn(u) \ {k} ELSE HeldOn(u)
           /\ \A u : ChargedOn(u)' = IF u = unit /\ status = "COMMITTED"
                                     THEN ChargedOn(u) \cup {k} ELSE ChargedOn(u)
<1> DEFINE unit == reservation[k].unit
<1>0. \A j \in SourceKeys : reservation[j] \in Row
  BY DEF RowsInv, ReservationsTypeOK
<1>1. \A j \in SourceKeys :
        reservation'[j] = IF j = k THEN [reservation[k] EXCEPT !.status = status]
                          ELSE reservation[j]
  BY DEF WriteStatus, RowsInv, ReservationsTypeOK
<1>2. \A j \in SourceKeys :
        /\ reservation'[j].kind = reservation[j].kind
        /\ reservation'[j].unit = reservation[j].unit
        /\ reservation'[j].compensated = reservation[j].compensated
        /\ reservation'[j].status = IF j = k THEN status ELSE reservation[j].status
  BY <1>0, <1>1 DEF Row
<1>3. reservation[k].status = "RESERVED" /\ reservation[k].kind = kind
        /\ ~reservation[k].compensated
  BY DEF Transitions, RowsInv, RowShape
<1>4. /\ k \in Held(kind) /\ k \notin Charged(kind)
      /\ k \in HeldOn(unit) /\ k \notin ChargedOn(unit)
  BY <1>3 DEF Held, HeldOn, HeldStatuses, Charged, ChargedOn, IsCharged
<1> HIDE DEF unit
<1>5. Held(kind)' = IF status = "AMBIGUOUS" THEN Held(kind) ELSE Held(kind) \ {k}
  BY <1>2, <1>3 DEF Held, HeldStatuses
<1>6. Charged(kind)' = IF status = "COMMITTED" THEN Charged(kind) \cup {k} ELSE Charged(kind)
  BY <1>2, <1>3 DEF Charged, IsCharged
<1>7. \A u : HeldOn(u)' = IF u = unit /\ status # "AMBIGUOUS"
                          THEN HeldOn(u) \ {k} ELSE HeldOn(u)
  BY <1>2, <1>3 DEF HeldOn, HeldStatuses, unit
<1>8. \A u : ChargedOn(u)' = IF u = unit /\ status = "COMMITTED"
                             THEN ChargedOn(u) \cup {k} ELSE ChargedOn(u)
  BY <1>2, <1>3 DEF ChargedOn, IsCharged, unit
<1>9. QED
  BY <1>4, <1>5, <1>6, <1>7, <1>8 DEF unit

\* A compensated row is no longer charged, and was not held.
LEMMA AfterCompensate ==
    ASSUME RowsInv, NEW kind \in Sources, NEW k \in SourceKeys,
           reservation[k].kind = kind, IsCharged(k), WriteCompensated(k)
    PROVE  LET unit == reservation[k].unit IN
           /\ Held(kind)' = Held(kind)
           /\ k \in Charged(kind) /\ Charged(kind)' = Charged(kind) \ {k}
           /\ \A u : HeldOn(u)' = HeldOn(u)
           /\ k \in ChargedOn(unit)
           /\ \A u : ChargedOn(u)' = IF u = unit THEN ChargedOn(u) \ {k} ELSE ChargedOn(u)
<1> DEFINE unit == reservation[k].unit
<1>0. \A j \in SourceKeys : reservation[j] \in Row
  BY DEF RowsInv, ReservationsTypeOK
<1>1. \A j \in SourceKeys :
        reservation'[j] = IF j = k THEN [reservation[k] EXCEPT !.compensated = TRUE]
                          ELSE reservation[j]
  BY DEF WriteCompensated, RowsInv, ReservationsTypeOK
<1>2. \A j \in SourceKeys :
        /\ reservation'[j].kind = reservation[j].kind
        /\ reservation'[j].unit = reservation[j].unit
        /\ reservation'[j].status = reservation[j].status
        /\ reservation'[j].compensated = IF j = k THEN TRUE ELSE reservation[j].compensated
  <2>1. ASSUME NEW e \in Row
        PROVE  LET r == [e EXCEPT !.compensated = TRUE]
               IN  r.kind = e.kind /\ r.unit = e.unit /\ r.status = e.status /\ r.compensated
    BY DEF Row
  <2>2. ASSUME NEW j \in SourceKeys, j = k
        PROVE  /\ reservation'[j].kind = reservation[j].kind
               /\ reservation'[j].unit = reservation[j].unit
               /\ reservation'[j].status = reservation[j].status
               /\ reservation'[j].compensated = TRUE
    BY <1>0, <1>1, <2>1, <2>2
  <2>3. QED
    BY <1>1, <2>2
<1>3. k \in Charged(kind) /\ k \in ChargedOn(unit)
  BY DEF Charged, ChargedOn
<1> HIDE DEF unit
<1>4. Held(kind)' = Held(kind) /\ \A u : HeldOn(u)' = HeldOn(u)
  BY <1>2 DEF Held, HeldOn
<1>5. Charged(kind)' = Charged(kind) \ {k}
  BY <1>2 DEF Charged, IsCharged
<1>6. \A u : ChargedOn(u)' = IF u = unit THEN ChargedOn(u) \ {k} ELSE ChargedOn(u)
  BY <1>2 DEF ChargedOn, IsCharged, unit
<1>7. QED
  BY <1>3, <1>4, <1>5, <1>6 DEF unit

-----------------------------------------------------------------------------
\* What a single step keeps of the committed rows.
ChargesKept ==
    \A k \in SourceKeys :
        reservation[k].status = "COMMITTED" =>
            /\ reservation'[k].status = "COMMITTED"
            /\ reservation'[k].unit = reservation[k].unit
            /\ reservation[k].compensated => reservation'[k] = reservation[k]

LEMMA ChargesKeptStep == ASSUME RowsInv, [Next]_vars PROVE ChargesKept
<1>1. ASSUME NEW kind \in Sources, RowStep(kind) PROVE ChargesKept
  BY <1>1 DEF RowStep, RowsInv, ReservationsTypeOK, ChargesKept
<1>2. ASSUME Rollover PROVE ChargesKept
  BY <1>2 DEF Rollover, HeldIn, Held, HeldStatuses, ChargesKept
<1>3. ASSUME UNCHANGED reservation PROVE ChargesKept
  BY <1>3 DEF ChargesKept
<1>4. QED
  BY <1>1, <1>2, <1>3, LedgerWrites DEF Sources

(***************************************************************************)
(* No operation of any source, and no close of a period, undoes or moves a *)
(* charge, and none compensates it twice.                                  *)
(***************************************************************************)
THEOREM ChargesAreFinal == Spec => ChargedForGood
<1>1. RowsInv /\ [Next]_vars => [ChargesKept]_vars
  BY ChargesKeptStep
<1>2. QED
  BY <1>1, RowsInvariant, PTL DEF Spec, ChargedForGood, ChargesKept

(***************************************************************************)
(* A row whose message may have been sent keeps its credit: no retry and   *)
(* no other source takes it back, only the close of its period.            *)
(***************************************************************************)
THEOREM AmbiguousRowsKept == Spec => AmbiguousKeepsCredit
<1> DEFINE Kept(k) ==
              \/ reservation'[k] = reservation[k]
              \/ k[2] # 0 /\ k[2] < current' /\ reservation'[k].status = "RELEASED"
           Step == \A k \in SourceKeys : reservation[k].status = "AMBIGUOUS" => Kept(k)
<1>1. ASSUME RowsInv, [Next]_vars PROVE Step
  <2>1. ASSUME NEW kind \in Sources, RowStep(kind) PROVE Step
    BY <1>1, <2>1 DEF RowStep, RowsInv, ReservationsTypeOK
  <2>2. ASSUME Rollover PROVE Step
    <3> SUFFICES ASSUME NEW k \in SourceKeys, k \in HeldIn(current)
                 PROVE  k[2] # 0 /\ k[2] < current' /\ reservation'[k].status = "RELEASED"
      BY <2>2 DEF Rollover
    <3>1. k[2] = current /\ current \in Nat /\ current >= 1 /\ current' = current + 1
      BY <2>2, TableAssumption DEF Rollover, HeldIn
    <3>2. /\ reservation[k] \in Row
          /\ reservation'[k] = [reservation[k] EXCEPT !.status = "RELEASED"]
      BY <1>1, <2>2 DEF Rollover, RowsInv, ReservationsTypeOK
    <3>3. reservation'[k].status = "RELEASED"
      BY <3>2 DEF Row
    <3>4. QED
      BY <3>1, <3>3
  <2>3. ASSUME UNCHANGED reservation PROVE Step
    BY <2>3
  <2> HIDE DEF Step
  <2>4. QED
    BY <1>1, <2>1, <2>2, <2>3, LedgerWrites DEF Sources
<1>2. RowsInv /\ [Next]_vars => [Step]_vars
  BY <1>1
<1>3. QED
  BY <1>2, RowsInvariant, PTL DEF Spec, AmbiguousKeepsCredit

-----------------------------------------------------------------------------
(***************************************************************************)
(* The lifetime free credits: for any number of attempts, workers and      *)
(* other credits, the counter equals its rows and is never overdrawn.      *)
(***************************************************************************)

FreeInv == FreeTypeOK /\ FreeReconciled /\ FreeNeverOverdrawn

\* A step that leaves the counter and the free rows alone.
LEMMA FreeInvStutter ==
    ASSUME FreeInv, UNCHANGED freeCounter,
           Held("free")' = Held("free"), Charged("free")' = Charged("free")
    PROVE  FreeInv'
BY DEF FreeInv, FreeTypeOK, FreeReconciled, FreeNeverOverdrawn

\* The invariant after a step, from the counter's new fields and the new sets.
LEMMA FreeInvFrom ==
    ASSUME freeCounter' \in [reserved : Nat, committed : Nat],
           freeCounter'.reserved + freeCounter'.committed <= FreeGranted,
           Cardinality(Held("free")') = freeCounter'.reserved,
           Cardinality(Charged("free")') = freeCounter'.committed
    PROVE  FreeInv'
BY DEF FreeInv, FreeTypeOK, FreeReconciled, FreeNeverOverdrawn

\* A step of an attempt moves at most one row and its unit.
LEMMA FreeInvStep ==
    ASSUME RowsInv, FreeInv, NEW a \in Attempts, FreeNext(a)
    PROVE  FreeInv'
<1> DEFINE k == PlainKey(a)
           H == Held("free")
           C == Charged("free")
<1>0. k \in SourceKeys /\ H \in SUBSET SourceKeys /\ C \in SUBSET SourceKeys
  BY KeysInTable, CountedKeys
<1>1. /\ Cardinality(H) \in Nat /\ Cardinality(C) \in Nat
      /\ k \notin H => Cardinality(H \cup {k}) = Cardinality(H) + 1
      /\ k \in H => Cardinality(H \ {k}) = Cardinality(H) - 1
      /\ k \notin C => Cardinality(C \cup {k}) = Cardinality(C) + 1
      /\ k \in C => Cardinality(C \ {k}) = Cardinality(C) - 1
  BY <1>0, KeyCounts
<1>2. /\ freeCounter \in [reserved : Nat, committed : Nat]
      /\ freeCounter.reserved = Cardinality(H)
      /\ freeCounter.committed = Cardinality(C)
      /\ freeCounter.reserved + freeCounter.committed <= FreeGranted
  BY DEF FreeInv, FreeTypeOK, FreeReconciled, FreeNeverOverdrawn
<1>g. "free" \in Sources /\ FreeGranted \in Nat
  BY FreeAssumption DEF Sources
<1> HIDE DEF k, H, C
<1>3. ASSUME NEW paused \in BOOLEAN, ReserveFree(a, paused) PROVE FreeInv'
  <2>1. Absent(k) \/ Reactivable(k, "free")
    BY <1>0, <1>3, RowFields DEF ReserveFree, FreeReserveOutcome, k
  <2>2. FreeRemaining >= 1
    BY <1>0, <1>3, RowFields DEF ReserveFree, FreeReserveOutcome, k
  <2>3. k \notin H /\ Held("free")' = H \cup {k} /\ Charged("free")' = C
    BY <1>0, <1>3, <1>g, <2>1, AfterReserve DEF ReserveFree, k, H, C
  <2>c. /\ Cardinality(Held("free")') = Cardinality(H) + 1
        /\ Cardinality(Charged("free")') = Cardinality(C)
    BY <1>1, <2>3
  <2>4. freeCounter' = [freeCounter EXCEPT !.reserved = @ + 1]
    BY <1>3 DEF ReserveFree
  <2>5. QED
    <3>1. /\ freeCounter' \in [reserved : Nat, committed : Nat]
          /\ freeCounter'.reserved = freeCounter.reserved + 1
          /\ freeCounter'.committed = freeCounter.committed
      BY <1>2, <2>4
    <3>2. freeCounter.reserved + 1 + freeCounter.committed <= FreeGranted
      BY <1>1, <1>2, <1>g, <2>2 DEF FreeRemaining
    <3>3. QED
      BY <1>2, <2>c, <3>1, <3>2, FreeInvFrom
<1>4. ASSUME CommitFree(a) PROVE FreeInv'
  <2>1. /\ k \in H /\ k \notin C
        /\ Held("free")' = H \ {k} /\ Charged("free")' = C \cup {k}
    BY <1>0, <1>4, <1>g, AfterStatus DEF CommitFree, k, H, C
  <2>c. /\ Cardinality(Held("free")') = Cardinality(H) - 1
        /\ Cardinality(Charged("free")') = Cardinality(C) + 1
    BY <1>1, <2>1
  <2>2. /\ freeCounter' = [freeCounter EXCEPT !.reserved = @ - 1, !.committed = @ + 1]
        /\ freeCounter.reserved >= 1
    BY <1>4 DEF CommitFree
  <2>3. QED
    <3>1. /\ freeCounter' \in [reserved : Nat, committed : Nat]
          /\ freeCounter'.reserved = freeCounter.reserved - 1
          /\ freeCounter'.committed = freeCounter.committed + 1
      <4>1. freeCounter.reserved \in Nat /\ freeCounter.committed \in Nat
        BY <1>2
      <4>2. freeCounter' = [reserved |-> freeCounter.reserved - 1,
                            committed |-> freeCounter.committed + 1]
        BY <1>2, <2>2
      <4>3. QED
        BY <2>2, <4>1, <4>2
    <3>2. QED
      BY <1>1, <1>2, <1>g, <2>c, <2>2, <3>1, FreeInvFrom
<1>5. ASSUME ReleaseFree(a) PROVE FreeInv'
  <2>1. k \in H /\ Held("free")' = H \ {k} /\ Charged("free")' = C
    BY <1>0, <1>5, <1>g, AfterStatus DEF ReleaseFree, k, H, C
  <2>c. /\ Cardinality(Held("free")') = Cardinality(H) - 1
        /\ Cardinality(Charged("free")') = Cardinality(C)
    BY <1>1, <2>1
  <2>2. /\ freeCounter' = [freeCounter EXCEPT !.reserved = @ - 1]
        /\ freeCounter.reserved >= 1
    BY <1>5 DEF ReleaseFree
  <2>3. QED
    <3>1. /\ freeCounter' \in [reserved : Nat, committed : Nat]
          /\ freeCounter'.reserved = freeCounter.reserved - 1
          /\ freeCounter'.committed = freeCounter.committed
      BY <1>1, <1>2, <2>2
    <3>2. QED
      BY <1>1, <1>2, <1>g, <2>c, <2>2, <3>1, FreeInvFrom
<1>6. ASSUME MarkFreeAmbiguous(a) PROVE FreeInv'
  <2>1. Held("free")' = H /\ Charged("free")' = C
    BY <1>0, <1>6, <1>g, AfterStatus DEF MarkFreeAmbiguous, k, H, C
  <2>2. QED
    BY <1>6, <2>1, FreeInvStutter DEF MarkFreeAmbiguous, H, C
<1>7. ASSUME CompensateFree(a) PROVE FreeInv'
  <2>1. k \in C /\ Held("free")' = H /\ Charged("free")' = C \ {k}
    BY <1>0, <1>7, <1>g, AfterCompensate DEF CompensateFree, k, H, C
  <2>c. /\ Cardinality(Held("free")') = Cardinality(H)
        /\ Cardinality(Charged("free")') = Cardinality(C) - 1
    BY <1>1, <2>1
  <2>2. /\ freeCounter' = [freeCounter EXCEPT !.committed = @ - 1]
        /\ freeCounter.committed >= 1
    BY <1>7 DEF CompensateFree
  <2>3. QED
    <3>1. /\ freeCounter' \in [reserved : Nat, committed : Nat]
          /\ freeCounter'.reserved = freeCounter.reserved
          /\ freeCounter'.committed = freeCounter.committed - 1
      BY <1>1, <1>2, <2>2
    <3>2. QED
      BY <1>1, <1>2, <1>g, <2>c, <2>2, <3>1, FreeInvFrom
<1>8. QED
  BY <1>3, <1>4, <1>5, <1>6, <1>7 DEF FreeNext

LEMMA FreeInvInductive ==
    ASSUME RowsInv, FreeInv, [Next]_vars
    PROVE  FreeInv'
<1>1. CASE Free
  BY <1>1, FreeInvStep DEF Free
<1>2. CASE UNCHANGED reservation /\ UNCHANGED freeCounter
  <2>1. Held("free")' = Held("free") /\ Charged("free")' = Charged("free")
    BY <1>2 DEF Held, Charged, IsCharged
  <2>2. QED
    BY <1>2, <2>1, FreeInvStutter
<1>3. ASSUME NEW other \in Sources \ {"free"}, RowStep(other), UNCHANGED freeCounter
      PROVE  FreeInv'
  BY <1>3, OtherSourcesUntouched, FreeInvStutter DEF Sources
<1>4. CASE Rollover /\ UNCHANGED freeCounter
  BY <1>4, RolloverTouchesPaidOnly, FreeInvStutter DEF Sources
<1>5. Free \/ UNCHANGED freeCounter
  BY DEF Next, vars, Paid, Purchased, Refunds, Promotional
<1>6. QED
  BY <1>1, <1>2, <1>3, <1>4, <1>5, LedgerWrites DEF Sources

LEMMA FreeInvInit == Init => FreeInv
<1> SUFFICES ASSUME Init PROVE FreeInv
  OBVIOUS
<1>1. freeCounter = [reserved |-> 0, committed |-> 0]
  BY DEF Init, FreeInit
<1>2. Held("free") = {} /\ Charged("free") = {}
  BY DEF Init, ReservationsInit, NoRow, Held, Charged, IsCharged, HeldStatuses
<1>3. QED
  BY <1>1, <1>2, FS_EmptySet, FreeAssumption
  DEF FreeInv, FreeTypeOK, FreeReconciled, FreeNeverOverdrawn

LEMMA FreeInvariant == Spec => []FreeInv
BY FreeInvInit, FreeInvInductive, RowsInvariant, PTL DEF Spec

(***************************************************************************)
(* No replay, retry, compensation or step of another source ever makes the *)
(* free counter disagree with the rows (the compare-and-set updates of     *)
(* free-recovery-reservation.service.ts and the free branch of             *)
(* correctCommittedCounter).                                               *)
(***************************************************************************)
THEOREM FreeCounterExact == Spec => []FreeReconciled
BY FreeInvariant, PTL DEF FreeInv

(***************************************************************************)
(* Concurrent admissions never hand out more than the granted lifetime     *)
(* credits, whatever their number.                                         *)
(***************************************************************************)
THEOREM FreeCreditsBounded == Spec => []FreeNeverOverdrawn
BY FreeInvariant, PTL DEF FreeInv

-----------------------------------------------------------------------------
(***************************************************************************)
(* The included credits of paid billing periods: for any number of         *)
(* attempts and periods, every counter equals its rows, so that the close  *)
(* of a period is never refused, and a closed period stays settled.        *)
(***************************************************************************)

PeriodCounters == [reserved : Nat, committed : Nat, forfeited : Nat]

\* What a period has given out, kept and forfeited is within its grant.
PeriodNeverOverdrawn ==
    \A p \in Periods :
        periodCounter[p].reserved + periodCounter[p].committed
            + periodCounter[p].forfeited <= Included

(***************************************************************************)
(* The bound is what makes the remainder that the close forfeits a natural *)
(* number, and ClosedPeriodSettled what keeps rows of a closed period from *)
(* being released a second time.                                           *)
(***************************************************************************)
PaidInv ==
    /\ current \in 0 .. MaxPeriod
    /\ periodCounter \in [Periods -> PeriodCounters]
    /\ PaidReconciled
    /\ PeriodNeverOverdrawn
    /\ ClosedPeriodSettled

SameRowsIn(p) == HeldIn(p)' = HeldIn(p) /\ ChargedIn(p)' = ChargedIn(p)

\* A step of a row of period p.
MovesPeriod(p) ==
    /\ periodCounter' \in [Periods -> PeriodCounters]
    /\ \A q \in Periods \ {p} : periodCounter'[q] = periodCounter[q] /\ SameRowsIn(q)

\* A step that leaves the periods and their rows alone.
LEMMA PaidInvStutter ==
    ASSUME PaidInv, UNCHANGED <<current, periodCounter>>,
           \A p \in Periods : SameRowsIn(p)
    PROVE  PaidInv'
BY DEF PaidInv, PaidReconciled, PeriodNeverOverdrawn, ClosedPeriodSettled, Closed,
       SameRowsIn

\* The invariant after a step that moves one period's counter.
LEMMA PaidInvFrom ==
    ASSUME PaidInv, NEW p \in Periods, MovesPeriod(p), UNCHANGED current,
           NEW e, periodCounter'[p] = e,
           Cardinality(HeldIn(p)') = e.reserved,
           Cardinality(ChargedIn(p)') = e.committed,
           e.reserved + e.committed + e.forfeited <= Included,
           Closed(p) => e.reserved = 0 /\ e.committed + e.forfeited = Included
    PROVE  PaidInv'
<1>1. PaidReconciled'
  BY DEF PaidInv, PaidReconciled, MovesPeriod, SameRowsIn
<1>2. PeriodNeverOverdrawn'
  BY DEF PaidInv, PeriodNeverOverdrawn, MovesPeriod
<1>3. ClosedPeriodSettled'
  BY DEF PaidInv, ClosedPeriodSettled, Closed, MovesPeriod
<1>4. QED
  BY <1>1, <1>2, <1>3 DEF PaidInv, MovesPeriod

LEMMA PeriodUpdate ==
    ASSUME PaidInv, NEW p \in Periods, NEW e \in PeriodCounters,
           periodCounter' = [periodCounter EXCEPT ![p] = e],
           \A q \in Periods \ {p} : SameRowsIn(q)
    PROVE  MovesPeriod(p) /\ periodCounter'[p] = e
BY DEF PaidInv, MovesPeriod

\* What the invariant says of one period, and how one row changes its counts.
CountsIn(p, k) ==
    /\ periodCounter[p] \in PeriodCounters
    /\ Cardinality(HeldIn(p)) = periodCounter[p].reserved
    /\ Cardinality(ChargedIn(p)) = periodCounter[p].committed
    /\ periodCounter[p].reserved + periodCounter[p].committed
          + periodCounter[p].forfeited <= Included
    /\ Closed(p) => /\ periodCounter[p].reserved = 0
                    /\ periodCounter[p].committed + periodCounter[p].forfeited = Included
    /\ k \notin HeldIn(p) => Cardinality(HeldIn(p) \cup {k}) = periodCounter[p].reserved + 1
    /\ k \in HeldIn(p) => Cardinality(HeldIn(p) \ {k}) = periodCounter[p].reserved - 1
    /\ k \notin ChargedIn(p)
          => Cardinality(ChargedIn(p) \cup {k}) = periodCounter[p].committed + 1
    /\ k \in ChargedIn(p)
          => Cardinality(ChargedIn(p) \ {k}) = periodCounter[p].committed - 1

LEMMA PeriodCounts ==
    ASSUME PaidInv, NEW p \in Periods, NEW k \in SourceKeys
    PROVE  CountsIn(p, k)
<1>1. HeldIn(p) \in SUBSET SourceKeys /\ ChargedIn(p) \in SUBSET SourceKeys
  BY CountedKeys
<1>2. /\ periodCounter[p] \in PeriodCounters
      /\ periodCounter[p].reserved = Cardinality(HeldIn(p))
      /\ periodCounter[p].committed = Cardinality(ChargedIn(p))
      /\ periodCounter[p].reserved + periodCounter[p].committed
            + periodCounter[p].forfeited <= Included
      /\ Closed(p) => /\ periodCounter[p].reserved = 0
                      /\ periodCounter[p].committed + periodCounter[p].forfeited = Included
  BY DEF PaidInv, PaidReconciled, PeriodNeverOverdrawn, ClosedPeriodSettled
<1>3. /\ k \notin HeldIn(p) => Cardinality(HeldIn(p) \cup {k}) = Cardinality(HeldIn(p)) + 1
      /\ k \in HeldIn(p) => Cardinality(HeldIn(p) \ {k}) = Cardinality(HeldIn(p)) - 1
      /\ k \notin ChargedIn(p)
            => Cardinality(ChargedIn(p) \cup {k}) = Cardinality(ChargedIn(p)) + 1
      /\ k \in ChargedIn(p)
            => Cardinality(ChargedIn(p) \ {k}) = Cardinality(ChargedIn(p)) - 1
  BY <1>1, KeyCounts
<1>4. QED
  BY <1>2, <1>3 DEF CountsIn

-----------------------------------------------------------------------------
(* The rows of the periods after each write, from those of the source.     *)

LEMMA OtherSourcesKeepPeriods ==
    ASSUME Held("paid")' = Held("paid"), Charged("paid")' = Charged("paid")
    PROVE  \A p \in Periods : SameRowsIn(p)
BY DEF SameRowsIn, HeldIn, ChargedIn

LEMMA PeriodAfterReserve ==
    ASSUME RowsInv, NEW a \in Attempts, NEW p \in Periods,
           Absent(PaidKey(a, p)) \/ Reactivable(PaidKey(a, p), "paid"),
           WriteReserved(PaidKey(a, p), "paid", None)
    PROVE  LET k == PaidKey(a, p) IN
           /\ k \notin HeldIn(p) /\ HeldIn(p)' = HeldIn(p) \cup {k}
           /\ ChargedIn(p)' = ChargedIn(p)
           /\ \A q \in Periods \ {p} : SameRowsIn(q)
<1> DEFINE k == PaidKey(a, p)
<1>0. k \in SourceKeys /\ k[2] = p /\ "paid" \in Sources
  BY KeysInTable DEF Sources
<1>1. /\ k \notin Held("paid") /\ Held("paid")' = Held("paid") \cup {k}
      /\ Charged("paid")' = Charged("paid")
  BY <1>0, AfterReserve
<1> HIDE DEF k
<1>2. /\ k \notin HeldIn(p) /\ HeldIn(p)' = HeldIn(p) \cup {k}
      /\ ChargedIn(p)' = ChargedIn(p)
      /\ \A q \in Periods \ {p} : SameRowsIn(q)
  BY <1>0, <1>1 DEF HeldIn, ChargedIn, SameRowsIn
<1>3. QED
  BY <1>2 DEF k

LEMMA PeriodAfterStatus ==
    ASSUME RowsInv, NEW a \in Attempts, NEW p \in Periods,
           NEW status \in {"RELEASED", "COMMITTED", "AMBIGUOUS"},
           Transitions(PaidKey(a, p), "paid"), WriteStatus(PaidKey(a, p), status)
    PROVE  LET k == PaidKey(a, p) IN
           /\ k \in HeldIn(p) /\ k \notin ChargedIn(p)
           /\ HeldIn(p)' = IF status = "AMBIGUOUS" THEN HeldIn(p) ELSE HeldIn(p) \ {k}
           /\ ChargedIn(p)' = IF status = "COMMITTED" THEN ChargedIn(p) \cup {k}
                                                      ELSE ChargedIn(p)
           /\ \A q \in Periods \ {p} : SameRowsIn(q)
<1> DEFINE k == PaidKey(a, p)
<1>0. k \in SourceKeys /\ k[2] = p /\ "paid" \in Sources
  BY KeysInTable DEF Sources
<1>1. /\ k \in Held("paid") /\ k \notin Charged("paid")
      /\ Held("paid")' = IF status = "AMBIGUOUS" THEN Held("paid") ELSE Held("paid") \ {k}
      /\ Charged("paid")' = IF status = "COMMITTED" THEN Charged("paid") \cup {k}
                                                    ELSE Charged("paid")
  BY <1>0, AfterStatus
<1> HIDE DEF k
<1>2. /\ k \in HeldIn(p) /\ k \notin ChargedIn(p)
      /\ HeldIn(p)' = IF status = "AMBIGUOUS" THEN HeldIn(p) ELSE HeldIn(p) \ {k}
      /\ ChargedIn(p)' = IF status = "COMMITTED" THEN ChargedIn(p) \cup {k}
                                                 ELSE ChargedIn(p)
      /\ \A q \in Periods \ {p} : SameRowsIn(q)
  BY <1>0, <1>1 DEF HeldIn, ChargedIn, SameRowsIn
<1>3. QED
  BY <1>2 DEF k

LEMMA PeriodAfterCompensate ==
    ASSUME RowsInv, NEW a \in Attempts, NEW p \in Periods,
           reservation[PaidKey(a, p)].kind = "paid", IsCharged(PaidKey(a, p)),
           WriteCompensated(PaidKey(a, p))
    PROVE  LET k == PaidKey(a, p) IN
           /\ HeldIn(p)' = HeldIn(p)
           /\ k \in ChargedIn(p) /\ ChargedIn(p)' = ChargedIn(p) \ {k}
           /\ \A q \in Periods \ {p} : SameRowsIn(q)
<1> DEFINE k == PaidKey(a, p)
<1>0. k \in SourceKeys /\ k[2] = p /\ "paid" \in Sources
  BY KeysInTable DEF Sources
<1>1. /\ Held("paid")' = Held("paid")
      /\ k \in Charged("paid") /\ Charged("paid")' = Charged("paid") \ {k}
  BY <1>0, AfterCompensate
<1> HIDE DEF k
<1>2. /\ HeldIn(p)' = HeldIn(p)
      /\ k \in ChargedIn(p) /\ ChargedIn(p)' = ChargedIn(p) \ {k}
      /\ \A q \in Periods \ {p} : SameRowsIn(q)
  BY <1>0, <1>1 DEF HeldIn, ChargedIn, SameRowsIn
<1>3. QED
  BY <1>2 DEF k

\* The close empties its period and touches no other.
LEMMA PeriodAfterRollover ==
    ASSUME RowsInv, Rollover, NEW p \in Periods, p = current
    PROVE  /\ HeldIn(p)' = {} /\ ChargedIn(p)' = ChargedIn(p)
           /\ \A q \in Periods \ {p} : SameRowsIn(q)
<1>1. \A k \in SourceKeys :
        reservation'[k] = IF k \in HeldIn(p)
                          THEN [reservation[k] EXCEPT !.status = "RELEASED"]
                          ELSE reservation[k]
  BY DEF Rollover
<1>2. \A k \in SourceKeys : reservation[k] \in Row
  BY DEF RowsInv, ReservationsTypeOK
<1>3. \A k \in SourceKeys :
        /\ reservation'[k].kind = reservation[k].kind
        /\ reservation'[k].compensated = reservation[k].compensated
        /\ k \notin HeldIn(p) => reservation'[k].status = reservation[k].status
        /\ k \in HeldIn(p) => reservation'[k].status = "RELEASED"
  BY <1>1, <1>2 DEF Row
<1>4. \A k \in HeldIn(p) : /\ reservation[k].status \in {"RESERVED", "AMBIGUOUS"}
                           /\ k[2] = p
  BY DEF HeldIn, Held, HeldStatuses
<1>5. Held("paid")' = Held("paid") \ HeldIn(p)
  BY <1>3 DEF Held, HeldStatuses
<1>6. Charged("paid")' = Charged("paid")
  BY <1>3, <1>4 DEF Charged, IsCharged
<1>7. QED
  BY <1>4, <1>5, <1>6 DEF HeldIn, ChargedIn, SameRowsIn

-----------------------------------------------------------------------------
\* A step of an attempt moves at most one row, in one period.
LEMMA PaidInvAttempt ==
    ASSUME RowsInv, PaidInv, NEW a \in Attempts, NEW p \in Periods,
           \/ ReservePaid(a, p)
           \/ CommitPaid(a, p)
           \/ ReleasePaid(a, p)
           \/ MarkPaidAmbiguous(a, p)
           \/ CompensatePaid(a, p)
    PROVE  PaidInv'
<1> DEFINE k == PaidKey(a, p)
           c == periodCounter[p]
<1>0. k \in SourceKeys
  BY KeysInTable
<1>c. CountsIn(p, k)
  BY <1>0, PeriodCounts
<1>n. /\ c.reserved \in Nat /\ c.committed \in Nat /\ c.forfeited \in Nat
      /\ c \in PeriodCounters /\ Included \in Nat /\ p \in Nat /\ current \in Nat
  BY <1>c, PaidAssumption, TableAssumption DEF CountsIn, PeriodCounters, Periods, PaidInv
<1>1. ASSUME ReservePaid(a, p) PROVE PaidInv'
  <2>1. /\ Absent(k) \/ Reactivable(k, "paid")
        /\ Available(p) >= 1 /\ CurrentOpen(p)
    BY <1>0, <1>1, RowFields DEF ReservePaid, PaidReserveOutcome
  <2>2. /\ k \notin HeldIn(p) /\ HeldIn(p)' = HeldIn(p) \cup {k}
        /\ ChargedIn(p)' = ChargedIn(p)
        /\ \A q \in Periods \ {p} : SameRowsIn(q)
    BY <1>1, <2>1, PeriodAfterReserve DEF ReservePaid
  <2> DEFINE e == [c EXCEPT !.reserved = @ + 1]
  <2>3. periodCounter' = [periodCounter EXCEPT ![p] = e] /\ UNCHANGED current
    BY <1>1 DEF ReservePaid
  <2>4. e = [reserved |-> c.reserved + 1, committed |-> c.committed, forfeited |-> c.forfeited]
    <3>1. e = [c EXCEPT !.reserved = @ + 1]
      OBVIOUS
    <3> HIDE DEF e
    <3>2. QED
      BY <1>n, <3>1 DEF PeriodCounters
  <2> HIDE DEF e
  <2>5. /\ e \in PeriodCounters /\ e.reserved = c.reserved + 1
        /\ e.committed = c.committed /\ e.forfeited = c.forfeited
    BY <1>n, <2>4 DEF PeriodCounters
  <2>6. MovesPeriod(p) /\ periodCounter'[p] = e
    BY <2>2, <2>3, <2>5, PeriodUpdate
  <2>7. /\ Cardinality(HeldIn(p)') = e.reserved
        /\ Cardinality(ChargedIn(p)') = e.committed
    BY <1>c, <2>2, <2>5 DEF CountsIn
  <2>8. e.reserved + e.committed + e.forfeited <= Included /\ ~Closed(p)
    BY <1>n, <2>1, <2>5 DEF Available, CurrentOpen, Closed
  <2>9. QED
    BY <2>3, <2>6, <2>7, <2>8, PaidInvFrom
<1>2. ASSUME CommitPaid(a, p) PROVE PaidInv'
  <2>2. /\ k \in HeldIn(p) /\ HeldIn(p)' = HeldIn(p) \ {k}
        /\ k \notin ChargedIn(p) /\ ChargedIn(p)' = ChargedIn(p) \cup {k}
        /\ \A q \in Periods \ {p} : SameRowsIn(q)
    BY <1>2, PeriodAfterStatus DEF CommitPaid
  <2> DEFINE e == [c EXCEPT !.reserved = @ - 1, !.committed = @ + 1]
  <2>3. /\ periodCounter' = [periodCounter EXCEPT ![p] = e] /\ UNCHANGED current
        /\ c.reserved >= 1 /\ CurrentOpen(p)
    BY <1>2 DEF CommitPaid
  <2>n. c.reserved - 1 \in Nat /\ c.committed + 1 \in Nat
    BY <1>n, <2>3
  <2>4. e = [reserved |-> c.reserved - 1, committed |-> c.committed + 1,
             forfeited |-> c.forfeited]
    <3>1. e = [c EXCEPT !.reserved = @ - 1, !.committed = @ + 1]
      OBVIOUS
    <3> HIDE DEF e
    <3>2. QED
      BY <1>n, <2>n, <3>1 DEF PeriodCounters
  <2> HIDE DEF e
  <2>5. /\ e \in PeriodCounters /\ e.reserved = c.reserved - 1
        /\ e.committed = c.committed + 1 /\ e.forfeited = c.forfeited
    BY <1>n, <2>n, <2>4 DEF PeriodCounters
  <2>6. MovesPeriod(p) /\ periodCounter'[p] = e
    BY <2>2, <2>3, <2>5, PeriodUpdate
  <2>7. /\ Cardinality(HeldIn(p)') = e.reserved
        /\ Cardinality(ChargedIn(p)') = e.committed
    BY <1>c, <2>2, <2>5 DEF CountsIn
  <2>8. e.reserved + e.committed + e.forfeited <= Included /\ ~Closed(p)
    BY <1>c, <1>n, <2>3, <2>5 DEF CountsIn, CurrentOpen, Closed
  <2>9. QED
    BY <2>3, <2>6, <2>7, <2>8, PaidInvFrom
<1>3. ASSUME ReleasePaid(a, p) PROVE PaidInv'
  <2>2. /\ k \in HeldIn(p) /\ HeldIn(p)' = HeldIn(p) \ {k}
        /\ ChargedIn(p)' = ChargedIn(p)
        /\ \A q \in Periods \ {p} : SameRowsIn(q)
    BY <1>3, PeriodAfterStatus DEF ReleasePaid
  <2> DEFINE e == [c EXCEPT !.reserved = @ - 1]
  <2>3. /\ periodCounter' = [periodCounter EXCEPT ![p] = e] /\ UNCHANGED current
        /\ c.reserved >= 1
    BY <1>3 DEF ReleasePaid
  <2>n. c.reserved - 1 \in Nat
    BY <1>n, <2>3
  <2>4. e = [reserved |-> c.reserved - 1, committed |-> c.committed, forfeited |-> c.forfeited]
    <3>1. e = [c EXCEPT !.reserved = @ - 1]
      OBVIOUS
    <3> HIDE DEF e
    <3>2. QED
      BY <1>n, <2>n, <3>1 DEF PeriodCounters
  <2> HIDE DEF e
  <2>5. /\ e \in PeriodCounters /\ e.reserved = c.reserved - 1
        /\ e.committed = c.committed /\ e.forfeited = c.forfeited
    BY <1>n, <2>n, <2>4 DEF PeriodCounters
  <2>6. MovesPeriod(p) /\ periodCounter'[p] = e
    BY <2>2, <2>3, <2>5, PeriodUpdate
  <2>7. /\ Cardinality(HeldIn(p)') = e.reserved
        /\ Cardinality(ChargedIn(p)') = e.committed
    BY <1>c, <2>2, <2>5 DEF CountsIn
  <2>8. e.reserved + e.committed + e.forfeited <= Included /\ ~Closed(p)
    BY <1>c, <1>n, <2>3, <2>5 DEF CountsIn
  <2>9. QED
    BY <2>3, <2>6, <2>7, <2>8, PaidInvFrom
<1>4. ASSUME MarkPaidAmbiguous(a, p) PROVE PaidInv'
  <2>1. \A q \in Periods : SameRowsIn(q)
    BY <1>4, PeriodAfterStatus DEF MarkPaidAmbiguous, SameRowsIn
  <2>2. QED
    BY <1>4, <2>1, PaidInvStutter DEF MarkPaidAmbiguous, paidVars
<1>5. ASSUME CompensatePaid(a, p) PROVE PaidInv'
  <2> DEFINE forfeit == IF CurrentOpen(p) THEN 0 ELSE 1
             e == [c EXCEPT !.committed = @ - 1, !.forfeited = @ + forfeit]
  <2>2. /\ HeldIn(p)' = HeldIn(p)
        /\ k \in ChargedIn(p) /\ ChargedIn(p)' = ChargedIn(p) \ {k}
        /\ \A q \in Periods \ {p} : SameRowsIn(q)
    BY <1>5, PeriodAfterCompensate DEF CompensatePaid
  <2>3. /\ periodCounter' = [periodCounter EXCEPT ![p] = e] /\ UNCHANGED current
        /\ c.committed >= 1
    BY <1>5 DEF CompensatePaid
  <2>f. forfeit \in {0, 1} /\ (Closed(p) => forfeit = 1)
    BY <1>n DEF CurrentOpen, Closed
  <2> HIDE DEF forfeit
  <2>n. c.committed - 1 \in Nat /\ c.forfeited + forfeit \in Nat
    BY <1>n, <2>3, <2>f
  <2>4. e = [reserved |-> c.reserved, committed |-> c.committed - 1,
             forfeited |-> c.forfeited + forfeit]
    <3>1. e = [c EXCEPT !.committed = @ - 1, !.forfeited = @ + forfeit]
      OBVIOUS
    <3> HIDE DEF e
    <3>2. QED
      BY <1>n, <2>n, <3>1 DEF PeriodCounters
  <2> HIDE DEF e
  <2>5. /\ e \in PeriodCounters /\ e.reserved = c.reserved
        /\ e.committed = c.committed - 1 /\ e.forfeited = c.forfeited + forfeit
    BY <1>n, <2>n, <2>4 DEF PeriodCounters
  <2>6. MovesPeriod(p) /\ periodCounter'[p] = e
    BY <2>2, <2>3, <2>5, PeriodUpdate
  <2>7. /\ Cardinality(HeldIn(p)') = e.reserved
        /\ Cardinality(ChargedIn(p)') = e.committed
    BY <1>c, <2>2, <2>5 DEF CountsIn
  <2>8. /\ e.reserved + e.committed + e.forfeited <= Included
        /\ Closed(p) => e.reserved = 0 /\ e.committed + e.forfeited = Included
    BY <1>c, <1>n, <2>f, <2>5 DEF CountsIn
  <2>9. QED
    BY <2>3, <2>6, <2>7, <2>8, PaidInvFrom
<1>6. QED
  BY <1>1, <1>2, <1>3, <1>4, <1>5

\* The close releases what is held, forfeits the rest and moves on.
LEMMA PaidInvRollover ==
    ASSUME RowsInv, PaidInv, Rollover
    PROVE  PaidInv'
<1>1. PICK p \in Periods : p = current
  BY TableAssumption DEF Rollover, Periods
<1> DEFINE c == periodCounter[p]
           held == Cardinality(HeldIn(p))
           e == [c EXCEPT !.reserved = @ - held, !.forfeited = @ + ForfeitableAfterRelease(p)]
<1>2. /\ HeldIn(p)' = {} /\ ChargedIn(p)' = ChargedIn(p)
      /\ \A q \in Periods \ {p} : SameRowsIn(q)
  BY <1>1, PeriodAfterRollover
<1>3. /\ periodCounter' = [periodCounter EXCEPT ![p] = e]
      /\ current' = p + 1 /\ p \in 1 .. MaxPeriod - 1
  BY <1>1 DEF Rollover
<1>4. /\ c \in PeriodCounters /\ c.reserved = held /\ c.committed = Cardinality(ChargedIn(p))
      /\ c.reserved + c.committed + c.forfeited <= Included
  BY DEF PaidInv, PaidReconciled, PeriodNeverOverdrawn
<1>n. /\ c.reserved \in Nat /\ c.committed \in Nat /\ c.forfeited \in Nat
      /\ Included \in Nat /\ MaxPeriod \in Nat
  BY <1>4, PaidAssumption, TableAssumption DEF PeriodCounters
<1>5. /\ c.reserved - held = 0
      /\ c.forfeited + ForfeitableAfterRelease(p) = Included - c.committed
      /\ Included - c.committed \in Nat
  BY <1>4, <1>n DEF ForfeitableAfterRelease
<1>6. e = [reserved |-> 0, committed |-> c.committed, forfeited |-> Included - c.committed]
  <2>1. e = [c EXCEPT !.reserved = @ - held, !.forfeited = @ + ForfeitableAfterRelease(p)]
    OBVIOUS
  <2> HIDE DEF e
  <2>2. QED
    BY <1>4, <1>5, <2>1 DEF PeriodCounters
<1> HIDE DEF e
<1>7. /\ e \in PeriodCounters /\ e.reserved = 0
      /\ e.committed = c.committed /\ e.forfeited = Included - c.committed
  BY <1>n, <1>5, <1>6 DEF PeriodCounters
<1>8. MovesPeriod(p) /\ periodCounter'[p] = e
  BY <1>2, <1>3, <1>7, PeriodUpdate
<1>9. PaidReconciled'
  <2>1. /\ Cardinality(HeldIn(p)') = 0
        /\ Cardinality(ChargedIn(p)') = c.committed
    BY <1>2, <1>4, FS_EmptySet
  <2>2. QED
    BY <1>7, <1>8, <2>1 DEF PaidInv, PaidReconciled, MovesPeriod, SameRowsIn
<1>10. PeriodNeverOverdrawn'
  <2>1. e.reserved + e.committed + e.forfeited <= Included
    BY <1>n, <1>7
  <2>2. QED
    BY <1>8, <2>1 DEF PaidInv, PeriodNeverOverdrawn, MovesPeriod
<1>11. ClosedPeriodSettled'
  <2>1. e.reserved = 0 /\ e.committed + e.forfeited = Included
    BY <1>n, <1>7
  <2>2. \A q \in Periods \ {p} : q < p + 1 => q < current
    BY <1>1, <1>n, <1>3 DEF Periods
  <2>3. QED
    BY <1>3, <1>8, <2>1, <2>2 DEF PaidInv, ClosedPeriodSettled, Closed, MovesPeriod
<1>12. QED
  BY <1>3, <1>n, <1>8, <1>9, <1>10, <1>11 DEF PaidInv, MovesPeriod

LEMMA PaidInvInductive ==
    ASSUME RowsInv, PaidInv, [Next]_vars
    PROVE  PaidInv'
<1>0. ASSUME UNCHANGED reservation PROVE \A p \in Periods : SameRowsIn(p)
  BY <1>0 DEF SameRowsIn, HeldIn, Held, ChargedIn, Charged, IsCharged
<1>1. ASSUME \/ UNCHANGED reservation
             \/ \E other \in Sources \ {"paid"} : RowStep(other),
             UNCHANGED <<current, periodCounter>>
      PROVE  PaidInv'
  <2>1. \A p \in Periods : SameRowsIn(p)
    BY <1>0, <1>1, OtherSourcesUntouched, OtherSourcesKeepPeriods DEF Sources
  <2>2. QED
    BY <1>1, <2>1, PaidInvStutter
<1>2. ASSUME OpenFirstPeriod PROVE PaidInv'
  <2>1. /\ current = 0 /\ current' = 1 /\ MaxPeriod >= 1 /\ MaxPeriod \in Nat
        /\ UNCHANGED periodCounter /\ \A p \in Periods : SameRowsIn(p)
    BY <1>0, <1>2, TableAssumption DEF OpenFirstPeriod
  <2>2. \A p \in Periods : ~(p < 1)
    BY DEF Periods
  <2>3. ClosedPeriodSettled'
    BY <2>1, <2>2 DEF ClosedPeriodSettled, Closed
  <2>4. PaidReconciled' /\ PeriodNeverOverdrawn'
    BY <2>1 DEF PaidInv, PaidReconciled, PeriodNeverOverdrawn, SameRowsIn
  <2>5. QED
    BY <2>1, <2>3, <2>4 DEF PaidInv
<1>3. CASE Paid
  <2>1. CASE PeriodEnds
    BY <1>1, <2>1 DEF PeriodEnds
  <2>2. QED
    BY <1>2, <1>3, <2>1, PaidInvAttempt, PaidInvRollover DEF Paid, PaidNext
<1>4. Paid \/ UNCHANGED <<current, periodCounter>>
  BY DEF Next, vars, paidVars, Free, Purchased, Promotional, Refunds
<1>5. QED
  BY <1>1, <1>3, <1>4, LedgerWrites DEF Sources

LEMMA PaidInvInit == Init => PaidInv
<1> SUFFICES ASSUME Init PROVE PaidInv
  OBVIOUS
<1>1. /\ current = 0
      /\ periodCounter = [p \in Periods |-> [reserved |-> 0, committed |-> 0, forfeited |-> 0]]
  BY DEF Init, PaidInit
<1>2. \A p \in Periods : HeldIn(p) = {} /\ ChargedIn(p) = {}
  BY DEF Init, ReservationsInit, NoRow, HeldIn, Held, ChargedIn, Charged, IsCharged,
         HeldStatuses
<1>3. PaidReconciled /\ PeriodNeverOverdrawn
  BY <1>1, <1>2, FS_EmptySet, PaidAssumption DEF PaidReconciled, PeriodNeverOverdrawn
<1>4. ClosedPeriodSettled
  BY <1>1 DEF ClosedPeriodSettled, Closed, Periods
<1>5. current \in 0 .. MaxPeriod /\ periodCounter \in [Periods -> PeriodCounters]
  BY <1>1, TableAssumption DEF PeriodCounters
<1>6. QED
  BY <1>3, <1>4, <1>5 DEF PaidInv

LEMMA PaidInvariant == Spec => []PaidInv
BY PaidInvInit, PaidInvInductive, RowsInvariant, PTL DEF Spec

(***************************************************************************)
(* For every period, open or long closed, the counter says what the rows   *)
(* say (paid-included-recovery-reservation.service.ts, the close of a      *)
(* period, and the paid branch of the delivery compensation).              *)
(***************************************************************************)
THEOREM PaidCountersExact == Spec => []PaidReconciled
BY PaidInvariant, PTL DEF PaidInv

(***************************************************************************)
(* closePaidIncludedCreditCounter never throws for an overdrawn counter or *)
(* for one that disagrees with its rows, so no shop is stuck in an ended   *)
(* period.                                                                 *)
(***************************************************************************)
THEOREM CloseNeverRefused == Spec => []RolloverNeverRefused
<1>1. PaidInv => RolloverNeverRefused
  <2> SUFFICES ASSUME PaidInv, current \in Periods PROVE CloseAccepted(current)
    BY DEF RolloverNeverRefused
  <2>1. PICK p \in Periods : p = current
    OBVIOUS
  <2>2. /\ periodCounter[p] \in PeriodCounters
        /\ periodCounter[p].reserved = Cardinality(HeldIn(p))
        /\ periodCounter[p].reserved + periodCounter[p].committed
              + periodCounter[p].forfeited <= Included
    BY DEF PaidInv, PaidReconciled, PeriodNeverOverdrawn
  <2>3. ForfeitableAfterRelease(p) >= 0
    BY <2>2, PaidAssumption DEF ForfeitableAfterRelease, PeriodCounters
  <2>4. QED
    BY <2>1, <2>2, <2>3 DEF CloseAccepted
<1>2. QED
  BY <1>1, PaidInvariant, PTL

(***************************************************************************)
(* After the close every included credit of the period is charged or       *)
(* forfeited and none is held, and a late compensation keeps it so.        *)
(***************************************************************************)
THEOREM ClosedPeriodsStaySettled == Spec => []ClosedPeriodSettled
BY PaidInvariant, PTL DEF PaidInv

-----------------------------------------------------------------------------
(***************************************************************************)
(* The promotional grants: for any number of attempts, grants and          *)
(* campaigns, a grant's counters equal its rows and are never overdrawn.   *)
(***************************************************************************)

\* Every row of a grant is a promotional row (RowShape), so that the counters
\* of a grant can be compared with the rows that name it.
PromotionalInv ==
    /\ grant \in [Grants -> [reserved : Nat, committed : Nat]]
    /\ PromotionalReconciled
    /\ GrantNeverOverdrawn

\* A step of a row of grant g.
MovesGrant(g) ==
    /\ grant' \in [Grants -> [reserved : Nat, committed : Nat]]
    /\ \A h \in Grants \ {g} : grant'[h] = grant[h] /\ SameRowsOn(h)

\* A step that leaves the grants and their rows alone.
LEMMA PromotionalInvStutter ==
    ASSUME PromotionalInv, UNCHANGED grant, \A g \in Grants : SameRowsOn(g)
    PROVE  PromotionalInv'
BY DEF PromotionalInv, PromotionalReconciled, GrantNeverOverdrawn, SameRowsOn

\* The invariant after a step that moves one grant.
LEMMA PromotionalInvFrom ==
    ASSUME PromotionalInv, NEW g \in Grants,
           MovesGrant(g),
           Cardinality(HeldOn(g)') = grant'[g].reserved,
           Cardinality(ChargedOn(g)') <= grant'[g].committed,
           grant'[g].reserved + grant'[g].committed <= GrantSize
    PROVE  PromotionalInv'
BY DEF PromotionalInv, PromotionalReconciled, GrantNeverOverdrawn, MovesGrant, SameRowsOn

LEMMA GrantUpdate ==
    ASSUME PromotionalInv, NEW g \in Grants,
           NEW e \in [reserved : Nat, committed : Nat],
           grant' = [grant EXCEPT ![g] = e],
           \A h \in Grants \ {g} : SameRowsOn(h)
    PROVE  MovesGrant(g) /\ grant'[g] = e
BY DEF PromotionalInv, MovesGrant

LEMMA MoveToCommitted ==
    ASSUME NEW r \in [reserved : Nat, committed : Nat], r.reserved >= 1,
           NEW e, e = [r EXCEPT !.reserved = @ - 1, !.committed = @ + 1]
    PROVE  /\ e \in [reserved : Nat, committed : Nat]
           /\ e.reserved = r.reserved - 1 /\ e.committed = r.committed + 1
<1> DEFINE x == r.reserved - 1
           y == r.committed + 1
<1>1. x \in Nat /\ y \in Nat
  OBVIOUS
<1>2. e = [r EXCEPT !.reserved = x, !.committed = y]
  OBVIOUS
<1> HIDE DEF x, y
<1>3. e = [reserved |-> x, committed |-> y]
  BY <1>2
<1>4. QED
  BY <1>1, <1>3 DEF x, y

\* What the invariant says of one grant, and how one row changes its counts.
CountsOf(g, k) ==
    /\ grant[g] \in [reserved : Nat, committed : Nat]
    /\ Cardinality(ChargedOn(g)) \in Nat
    /\ Cardinality(HeldOn(g)) = grant[g].reserved
    /\ Cardinality(ChargedOn(g)) <= grant[g].committed
    /\ grant[g].reserved + grant[g].committed <= GrantSize
    /\ k \notin HeldOn(g) => Cardinality(HeldOn(g) \cup {k}) = grant[g].reserved + 1
    /\ k \in HeldOn(g) => Cardinality(HeldOn(g) \ {k}) = grant[g].reserved - 1
    /\ k \notin ChargedOn(g)
          => Cardinality(ChargedOn(g) \cup {k}) = Cardinality(ChargedOn(g)) + 1
    /\ k \in ChargedOn(g)
          => Cardinality(ChargedOn(g) \ {k}) = Cardinality(ChargedOn(g)) - 1

LEMMA GrantCounts ==
    ASSUME PromotionalInv, NEW g \in Grants, NEW k \in SourceKeys
    PROVE  CountsOf(g, k)
<1>1. HeldOn(g) \in SUBSET SourceKeys /\ ChargedOn(g) \in SUBSET SourceKeys
  BY CountedKeys
<1>2. /\ grant[g] \in [reserved : Nat, committed : Nat]
      /\ grant[g].reserved = Cardinality(HeldOn(g))
      /\ grant[g].committed >= Cardinality(ChargedOn(g))
      /\ grant[g].reserved + grant[g].committed <= GrantSize
  BY DEF PromotionalInv, PromotionalReconciled, GrantNeverOverdrawn
<1>3. /\ Cardinality(ChargedOn(g)) \in Nat
      /\ k \notin HeldOn(g) => Cardinality(HeldOn(g) \cup {k}) = Cardinality(HeldOn(g)) + 1
      /\ k \in HeldOn(g) => Cardinality(HeldOn(g) \ {k}) = Cardinality(HeldOn(g)) - 1
      /\ k \notin ChargedOn(g)
            => Cardinality(ChargedOn(g) \cup {k}) = Cardinality(ChargedOn(g)) + 1
      /\ k \in ChargedOn(g)
            => Cardinality(ChargedOn(g) \ {k}) = Cardinality(ChargedOn(g)) - 1
  BY <1>1, KeyCounts
<1>4. QED
  BY <1>2, <1>3 DEF CountsOf

\* A step of an attempt moves at most one row, on one grant.
LEMMA PromotionalInvAttempt ==
    ASSUME RowsInv, PromotionalInv, NEW a \in Attempts,
           \/ \E g \in Grants, paused \in BOOLEAN : ReservePromotional(a, g, paused)
           \/ CommitPromotional(a)
           \/ ReleasePromotional(a)
           \/ MarkPromotionalAmbiguous(a)
           \/ CompensatePromotional(a)
    PROVE  PromotionalInv'
<1> DEFINE k == PlainKey(a)
<1>0. k \in SourceKeys
  BY KeysInTable
<1>g. "promotional" \in Sources /\ GrantSize \in Nat
  BY PromotionalAssumption DEF Sources
<1>u. reservation[k].kind = "promotional" => reservation[k].unit \in Grants
  BY <1>0 DEF RowsInv, RowShape
<1> HIDE DEF k
<1>3. ASSUME NEW g \in Grants, NEW paused \in BOOLEAN, ReservePromotional(a, g, paused)
      PROVE  PromotionalInv'
  <2> DEFINE e == [grant[g] EXCEPT !.reserved = @ + 1]
  <2>1. Absent(k) \/ Reactivable(k, "promotional")
    BY <1>0, <1>3, RowFields DEF ReservePromotional, PromotionalReserveOutcome, k
  <2>c. CountsOf(g, k)
    BY <1>0, GrantCounts
  <2>2. /\ k \notin HeldOn(g) /\ HeldOn(g)' = HeldOn(g) \cup {k}
        /\ ChargedOn(g)' = ChargedOn(g)
        /\ \A h \in Grants \ {g} : SameRowsOn(h)
    BY <1>0, <1>3, <1>g, <2>1, AfterReserve DEF ReservePromotional, SameRowsOn, k
  <2>3. /\ grant' = [grant EXCEPT ![g] = e]
        /\ GrantSize - grant[g].committed - grant[g].reserved >= 1
    BY <1>3 DEF ReservePromotional, GrantAvailable
  <2>4. /\ e \in [reserved : Nat, committed : Nat]
        /\ e.reserved = grant[g].reserved + 1 /\ e.committed = grant[g].committed
    BY <2>c DEF CountsOf
  <2> HIDE DEF e
  <2>5. MovesGrant(g) /\ grant'[g] = e
    BY <2>2, <2>3, <2>4, GrantUpdate
  <2>6. /\ Cardinality(HeldOn(g)') = e.reserved
        /\ Cardinality(ChargedOn(g)') <= e.committed
        /\ e.reserved + e.committed <= GrantSize
    BY <1>g, <2>c, <2>2, <2>3, <2>4 DEF CountsOf
  <2>7. QED
    BY <2>5, <2>6, PromotionalInvFrom
<1>4. ASSUME CommitPromotional(a) PROVE PromotionalInv'
  <2>1. PICK g \in Grants : reservation[k].unit = g
    BY <1>4, <1>u DEF CommitPromotional, Transitions, k
  <2> DEFINE e == [grant[g] EXCEPT !.reserved = @ - 1, !.committed = @ + 1]
  <2>c. CountsOf(g, k)
    BY <1>0, GrantCounts
  <2>2. /\ k \in HeldOn(g) /\ HeldOn(g)' = HeldOn(g) \ {k}
        /\ k \notin ChargedOn(g) /\ ChargedOn(g)' = ChargedOn(g) \cup {k}
        /\ \A h \in Grants \ {g} : SameRowsOn(h)
    BY <1>0, <1>4, <1>g, <2>1, AfterStatus DEF CommitPromotional, SameRowsOn, k
  <2>3. grant' = [grant EXCEPT ![g] = e] /\ grant[g].reserved >= 1
    BY <1>4, <2>1 DEF CommitPromotional, k
  <2>4. /\ e \in [reserved : Nat, committed : Nat]
        /\ e.reserved = grant[g].reserved - 1 /\ e.committed = grant[g].committed + 1
    <3>1. e = [grant[g] EXCEPT !.reserved = @ - 1, !.committed = @ + 1]
      OBVIOUS
    <3> HIDE DEF e
    <3>2. QED
      BY <2>c, <2>3, <3>1, MoveToCommitted DEF CountsOf
  <2> HIDE DEF e
  <2>5. MovesGrant(g) /\ grant'[g] = e
    BY <2>2, <2>3, <2>4, GrantUpdate
  <2>6. /\ Cardinality(HeldOn(g)') = e.reserved
        /\ Cardinality(ChargedOn(g)') <= e.committed
        /\ e.reserved + e.committed <= GrantSize
    BY <1>g, <2>c, <2>2, <2>4 DEF CountsOf
  <2>7. QED
    BY <2>5, <2>6, PromotionalInvFrom
<1>5. ASSUME ReleasePromotional(a) PROVE PromotionalInv'
  <2>1. PICK g \in Grants : reservation[k].unit = g
    BY <1>5, <1>u DEF ReleasePromotional, Transitions, k
  <2> DEFINE e == [grant[g] EXCEPT !.reserved = @ - 1]
  <2>c. CountsOf(g, k)
    BY <1>0, GrantCounts
  <2>2. /\ k \in HeldOn(g) /\ HeldOn(g)' = HeldOn(g) \ {k}
        /\ ChargedOn(g)' = ChargedOn(g)
        /\ \A h \in Grants \ {g} : SameRowsOn(h)
    BY <1>0, <1>5, <1>g, <2>1, AfterStatus DEF ReleasePromotional, SameRowsOn, k
  <2>3. grant' = [grant EXCEPT ![g] = e] /\ grant[g].reserved >= 1
    BY <1>5, <2>1 DEF ReleasePromotional, k
  <2>4. /\ e \in [reserved : Nat, committed : Nat]
        /\ e.reserved = grant[g].reserved - 1 /\ e.committed = grant[g].committed
    BY <2>c, <2>3 DEF CountsOf
  <2> HIDE DEF e
  <2>5. MovesGrant(g) /\ grant'[g] = e
    BY <2>2, <2>3, <2>4, GrantUpdate
  <2>6. /\ Cardinality(HeldOn(g)') = e.reserved
        /\ Cardinality(ChargedOn(g)') <= e.committed
        /\ e.reserved + e.committed <= GrantSize
    BY <1>g, <2>c, <2>2, <2>4 DEF CountsOf
  <2>7. QED
    BY <2>5, <2>6, PromotionalInvFrom
<1>6. ASSUME MarkPromotionalAmbiguous(a) PROVE PromotionalInv'
  <2>1. \A h \in Grants : SameRowsOn(h)
    BY <1>0, <1>6, <1>g, AfterStatus DEF MarkPromotionalAmbiguous, SameRowsOn, k
  <2>2. QED
    BY <1>6, <2>1, PromotionalInvStutter DEF MarkPromotionalAmbiguous, promotionalVars
<1>7. ASSUME CompensatePromotional(a) PROVE PromotionalInv'
  <2>1. PICK g \in Grants : reservation[k].unit = g
    BY <1>7, <1>u DEF CompensatePromotional, k
  <2> DEFINE e == IF campaign[g] = "RUNNING"
                  THEN [grant[g] EXCEPT !.committed = @ - 1] ELSE grant[g]
  <2>c. CountsOf(g, k)
    BY <1>0, GrantCounts
  <2>2. /\ HeldOn(g)' = HeldOn(g)
        /\ k \in ChargedOn(g) /\ ChargedOn(g)' = ChargedOn(g) \ {k}
        /\ \A h \in Grants \ {g} : SameRowsOn(h)
    BY <1>0, <1>7, <1>g, <2>1, AfterCompensate DEF CompensatePromotional, SameRowsOn, k
  <2>3. /\ grant' = [grant EXCEPT ![g] = e]
        /\ campaign[g] = "RUNNING" => grant[g].committed >= 1
    BY <1>7, <2>1 DEF CompensatePromotional, PromotionalInv, k
  <2>4. /\ e \in [reserved : Nat, committed : Nat]
        /\ e.reserved = grant[g].reserved
        /\ e.committed \in {grant[g].committed, grant[g].committed - 1}
    BY <2>c, <2>3 DEF CountsOf
  <2> HIDE DEF e
  <2>5. MovesGrant(g) /\ grant'[g] = e
    BY <2>2, <2>3, <2>4, GrantUpdate
  <2>6. /\ Cardinality(HeldOn(g)') = e.reserved
        /\ Cardinality(ChargedOn(g)') <= e.committed
        /\ e.reserved + e.committed <= GrantSize
    BY <1>g, <2>c, <2>2, <2>4 DEF CountsOf
  <2>7. QED
    BY <2>5, <2>6, PromotionalInvFrom
<1>8. QED
  BY <1>3, <1>4, <1>5, <1>6, <1>7

LEMMA PromotionalInvInductive ==
    ASSUME RowsInv, PromotionalInv, [Next]_vars
    PROVE  PromotionalInv'
<1>1. CASE Promotional
  <2>1. CASE UNCHANGED <<reservation, grant>>
    <3>1. \A g \in Grants : SameRowsOn(g)
      BY <2>1 DEF SameRowsOn, HeldOn, ChargedOn, IsCharged
    <3>2. QED
      BY <2>1, <3>1, PromotionalInvStutter
  <2>2. QED
    BY <1>1, <2>1, PromotionalInvAttempt
    DEF Promotional, PromotionalNext, SelectGrant, CampaignChanges, ReleaseExpiredSelection
<1>2. CASE UNCHANGED reservation /\ UNCHANGED grant
  <2>1. \A g \in Grants : SameRowsOn(g)
    BY <1>2 DEF SameRowsOn, HeldOn, ChargedOn, IsCharged
  <2>2. QED
    BY <1>2, <2>1, PromotionalInvStutter
<1>3. ASSUME NEW other \in Sources \ {"promotional"}, RowStep(other), UNCHANGED grant
      PROVE  PromotionalInv'
  BY <1>3, OtherUnitsUntouched, PromotionalInvStutter DEF Sources
<1>4. CASE Rollover /\ UNCHANGED grant
  BY <1>4, RolloverKeepsUnits, PromotionalInvStutter
<1>5. Promotional \/ UNCHANGED grant
  BY DEF Next, vars, promotionalVars, Free, Paid, Purchased, Refunds
<1>6. QED
  BY <1>1, <1>2, <1>3, <1>4, <1>5, LedgerWrites DEF Sources

LEMMA PromotionalInvInit == Init => PromotionalInv
<1> SUFFICES ASSUME Init PROVE PromotionalInv
  OBVIOUS
<1>1. grant = [g \in Grants |-> [reserved |-> 0, committed |-> 0]]
  BY DEF Init, PromotionalInit
<1>2. \A g \in Grants : HeldOn(g) = {} /\ ChargedOn(g) = {}
  BY DEF Init, ReservationsInit, NoRow, HeldOn, ChargedOn, IsCharged, HeldStatuses
<1>3. QED
  BY <1>1, <1>2, FS_EmptySet, PromotionalAssumption
  DEF PromotionalInv, PromotionalReconciled, GrantNeverOverdrawn

LEMMA PromotionalInvariant == Spec => []PromotionalInv
BY PromotionalInvInit, PromotionalInvInductive, RowsInvariant, PTL DEF Spec

(***************************************************************************)
(* However a grant's campaign is suspended, resumed or ended between a     *)
(* charge and its compensation, the grant counts the rows that hold it and *)
(* at least the rows that are charged to it                                *)
(* (promotional-recovery-reservation.service.ts and the promotional branch *)
(* of the delivery compensation).                                          *)
(***************************************************************************)
THEOREM PromotionalGrantsReconciled == Spec => []PromotionalReconciled
BY PromotionalInvariant, PTL DEF PromotionalInv

(***************************************************************************)
(* No order of reservations, compensations and campaign changes hands out  *)
(* more of a grant than its quantity.                                      *)
(***************************************************************************)
THEOREM PromotionalGrantsBounded == Spec => []GrantNeverOverdrawn
BY PromotionalInvariant, PTL DEF PromotionalInv

=============================================================================
