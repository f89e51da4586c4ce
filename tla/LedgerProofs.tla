---------------------------- MODULE LedgerProofs ----------------------------
(***************************************************************************)
(* Purchased credits and their refunds: for any number of attempts and     *)
(* lots, the lots, the counter that sums them, the rows and the refunds    *)
(* agree, and every charge can be reversed.  Then the whole ledger, from   *)
(* the invariants of its sources: its types, where it is the content that  *)
(* the counters stay natural numbers (every decrement of the code is of a  *)
(* counter that is at least one), and the promises that callers of the     *)
(* four services rely on together.                                         *)
(***************************************************************************)
EXTENDS LedgerSourcesProofs

LotRow == [status : LotStatuses, current : Nat, reserved : Nat, reported : BOOLEAN]
RefundRow == [status : RefundStatuses, seq : Nat, final : Nat, snapshot : Nat,
              correction : CorrectionStates]
SeenRow == [stage : {"idle", "selected", "clear"}, current : Nat, reserved : Nat]

LiveStatuses == {"REQUESTED", "PROVIDER_ACTION_REQUIRED", "NEEDS_ATTENTION"}

(***************************************************************************)
(* What is invariant of one lot t with refund r, as a preparing worker saw *)
(* it (z), with held rows and charged rows.  The last five conjuncts are   *)
(* about the refund: once it is linked, or a worker has read the lot       *)
(* without reservations, the withdrawn lot has none for good; so the       *)
(* commit of a last credit never meets a refund that it may not cancel.    *)
(***************************************************************************)
LotFine(t, r, z, held, charged) ==
    /\ t.reserved = held
    /\ t.reserved <= t.current
    /\ t.current + charged <= PackSize
    /\ t.status \notin {"ACTIVE", "WITHDRAWN"} => t.current = 0
    /\ t.status = "ACTIVE" => t.current >= 1
    /\ t.status \in {"NONE", "REQUESTED"} => charged = 0
    /\ r.status \in LiveStatuses <=> t.status = "WITHDRAWN"
    /\ r.status = "COMPLETED" <=> t.status = "REFUNDED"
    /\ r.status = "NEEDS_ATTENTION" => t.reserved = 0 \/ t.reserved < t.current
    /\ r.correction # "NONE" => t.reserved = 0 /\ t.status \in {"WITHDRAWN", "REFUNDED"}
    /\ z.stage # "idle" /\ z.reserved = 0
          => t.reserved = 0 /\ t.status \in {"WITHDRAWN", "REFUNDED"}
    /\ Woo => z.stage = "idle"
    /\ Woo /\ r.status = "PROVIDER_ACTION_REQUIRED" => t.reserved = 0

LotOK(l) ==
    LotFine(lot[l], refund[l], seen[l], Cardinality(HeldOn(l)), Cardinality(ChargedOn(l)))

\* The unreserved credits of the lots in one status.
Pool(s) == Unreserved({l \in Lots : lot[l].status = s})

\* The counter against the rows and against the lots.
CounterOK ==
    /\ purchased.reserved = Cardinality(Held("purchased"))
    /\ purchased.committed = Cardinality(Charged("purchased"))
    /\ PurchasedAvailable = Pool("ACTIVE")
    /\ purchased.refunding = Pool("WITHDRAWN")

LotsTyped ==
    /\ lot \in [Lots -> LotRow]
    /\ refund \in [Lots -> RefundRow]
    /\ seen \in [Lots -> SeenRow]
LotsFine == LotsTyped /\ \A l \in Lots : LotOK(l)
CounterTyped ==
    purchased \in [granted : Int, reserved : Int, committed : Int, refunding : Int]

LotsInv == LotsFine /\ CounterTyped /\ CounterOK

-----------------------------------------------------------------------------
(* The number of unreserved credits, lot by lot.                           *)

\* What a lot t contributes to the pool of status s.
Give(t, s) == IF t.status = s THEN t.current - t.reserved ELSE 0

LEMMA RowTypes ==
    /\ \A t \in LotRow : /\ t.status \in LotStatuses /\ t.current \in Nat
                         /\ t.reserved \in Nat
    /\ \A r \in RefundRow : /\ r.status \in RefundStatuses /\ r.final \in Nat
                            /\ r.correction \in CorrectionStates
    /\ \A z \in SeenRow : z.current \in Nat /\ z.reserved \in Nat
BY DEF LotRow, RefundRow, SeenRow

LEMMA CountsNatural ==
    /\ \A u : Cardinality(HeldOn(u)) \in Nat /\ Cardinality(ChargedOn(u)) \in Nat
    /\ \A kind : Cardinality(Held(kind)) \in Nat /\ Cardinality(Charged(kind)) \in Nat
BY CountedKeys, KeysFinite, FS_Subset, FS_CardinalityType

(***************************************************************************)
(* Pools as a function of the lots' sizes, so that a state and its         *)
(* successor can be compared: taking a lot out of a set takes out what it  *)
(* gives.                                                                  *)
(***************************************************************************)
Sizes == [Lots -> 0 .. PackSize]
CreditsOf(S, f) == UNION {{l} \X (1 .. f[l]) : l \in S}

LEMMA CreditsFinite ==
    ASSUME NEW S \in SUBSET Lots, NEW f \in Sizes
    PROVE  IsFiniteSet(CreditsOf(S, f)) /\ Cardinality(CreditsOf(S, f)) \in Nat
<1>1. IsFiniteSet(Lots \X (1 .. PackSize))
  <2>1. PackSize \in Int /\ 1 \in Int
    BY PurchasedAssumption
  <2>2. IsFiniteSet(1 .. PackSize)
    BY <2>1, FS_Interval
  <2>3. QED
    BY <2>2, PurchasedAssumption, FS_Product
<1>2. CreditsOf(S, f) \subseteq Lots \X (1 .. PackSize)
  BY PurchasedAssumption DEF CreditsOf, Sizes
<1>3. QED
  BY <1>1, <1>2, FS_Subset, FS_CardinalityType

LEMMA CreditsSplit ==
    ASSUME NEW S \in SUBSET Lots, NEW f \in Sizes, NEW l \in S
    PROVE  Cardinality(CreditsOf(S, f)) = Cardinality(CreditsOf(S \ {l}, f)) + f[l]
<1> DEFINE own == {l} \X (1 .. f[l])
           rest == CreditsOf(S \ {l}, f)
<1>1. f[l] \in Nat
  BY PurchasedAssumption DEF Sizes
<1>2. IsFiniteSet(own) /\ Cardinality(own) = f[l]
  <2>1. IsFiniteSet(1 .. f[l]) /\ Cardinality(1 .. f[l]) = f[l]
    BY <1>1, FS_Interval
  <2>2. IsFiniteSet({l}) /\ Cardinality({l}) = 1
    BY FS_Singleton
  <2>3. QED
    BY <1>1, <2>1, <2>2, FS_Product
<1>3. IsFiniteSet(rest) /\ Cardinality(rest) \in Nat
  BY CreditsFinite
<1>4. CreditsOf(S, f) = rest \cup own
  BY DEF CreditsOf
<1>5. rest \cap own = {}
  BY DEF CreditsOf
<1> HIDE DEF own, rest
<1>6. Cardinality(rest \cup own) = Cardinality(rest) + Cardinality(own)
  <2>1. Cardinality(rest \cup own)
          = Cardinality(rest) + Cardinality(own) - Cardinality(rest \cap own)
    BY <1>2, <1>3, FS_Union
  <2>2. Cardinality(rest \cap own) = 0
    BY <1>5, FS_EmptySet
  <2>3. QED
    BY <1>1, <1>2, <1>3, <2>1, <2>2
<1>7. QED
  BY <1>2, <1>4, <1>6 DEF rest

LEMMA CreditsMove ==
    ASSUME NEW S \in SUBSET Lots, NEW T \in SUBSET Lots,
           NEW f \in Sizes, NEW g \in Sizes, NEW l \in Lots,
           S \ {l} = T \ {l}, \A m \in Lots \ {l} : f[m] = g[m]
    PROVE  Cardinality(CreditsOf(T, g)) =
             Cardinality(CreditsOf(S, f)) - (IF l \in S THEN f[l] ELSE 0)
                                          + (IF l \in T THEN g[l] ELSE 0)
<1> DEFINE R == S \ {l}
           n == Cardinality(CreditsOf(R, f))
<1>1. CreditsOf(R, g) = CreditsOf(R, f)
  BY DEF CreditsOf
<1>2. n \in Nat /\ f[l] \in Nat /\ g[l] \in Nat
  BY CreditsFinite, PurchasedAssumption DEF Sizes
<1>3. Cardinality(CreditsOf(S, f)) = n + (IF l \in S THEN f[l] ELSE 0)
  <2>1. CASE l \in S
    BY <2>1, CreditsSplit
  <2>2. CASE l \notin S
    <3>1. S = R
      BY <2>2
    <3>2. QED
      BY <1>2, <2>2, <3>1
  <2>3. QED
    BY <2>1, <2>2
<1>4. Cardinality(CreditsOf(T, g)) = n + (IF l \in T THEN g[l] ELSE 0)
  <2>0. T \ {l} = R
    OBVIOUS
  <2>1. CASE l \in T
    <3>1. Cardinality(CreditsOf(T, g)) = Cardinality(CreditsOf(T \ {l}, g)) + g[l]
      BY <2>1, CreditsSplit
    <3>2. QED
      BY <1>1, <2>0, <2>1, <3>1
  <2>2. CASE l \notin T
    <3>1. T = R
      BY <2>0, <2>2
    <3>2. QED
      BY <1>1, <1>2, <2>2, <3>1
  <2>3. QED
    BY <2>1, <2>2
<1> HIDE DEF n
<1>5. QED
  BY <1>2, <1>3, <1>4

SizeOf == [l \in Lots |-> Spendable(l)]
InStatus(s) == {l \in Lots : lot[l].status = s}

LEMMA PoolAsCredits == \A s : Pool(s) = Cardinality(CreditsOf(InStatus(s), SizeOf))
BY DEF Pool, Unreserved, Credits, CreditsOf, InStatus, SizeOf

LEMMA SizesFine == LotsFine => SizeOf \in Sizes
<1> SUFFICES ASSUME LotsFine, NEW l \in Lots PROVE Spendable(l) \in 0 .. PackSize
  BY DEF SizeOf, Sizes
<1>1. lot[l] \in LotRow /\ LotOK(l)
  BY DEF LotsFine, LotsTyped
<1>2. /\ lot[l].current \in Nat /\ lot[l].reserved \in Nat
      /\ Cardinality(ChargedOn(l)) \in Nat /\ PackSize \in Nat
  BY <1>1, RowTypes, CountsNatural, PurchasedAssumption
<1>3. /\ lot[l].reserved <= lot[l].current
      /\ lot[l].current + Cardinality(ChargedOn(l)) <= PackSize
  BY <1>1 DEF LotOK, LotFine
<1>4. QED
  BY <1>2, <1>3 DEF Spendable

\* A step that changes one lot moves each pool by what that lot gives.
LEMMA PoolMoves ==
    ASSUME SizeOf \in Sizes, SizeOf' \in Sizes, NEW l \in Lots, NEW s,
           \A m \in Lots \ {l} : lot'[m] = lot[m]
    PROVE  /\ Pool(s) \in Nat /\ Pool(s)' \in Nat
           /\ Pool(s)' = Pool(s) - Give(lot[l], s) + Give(lot'[l], s)
<1> DEFINE S == InStatus(s)
           T == InStatus(s)'
<1>1. S \in SUBSET Lots /\ T \in SUBSET Lots /\ S \ {l} = T \ {l}
  BY DEF InStatus
<1>2. \A m \in Lots \ {l} : SizeOf[m] = SizeOf'[m]
  BY DEF SizeOf, Spendable
<1>3. Pool(s) = Cardinality(CreditsOf(S, SizeOf))
  BY PoolAsCredits
<1>4. Pool(s)' = Cardinality(CreditsOf(T, SizeOf'))
  BY DEF Pool, Unreserved, Credits, CreditsOf, InStatus, SizeOf
<1>5. /\ Give(lot[l], s) = IF l \in S THEN SizeOf[l] ELSE 0
      /\ Give(lot'[l], s) = IF l \in T THEN SizeOf'[l] ELSE 0
  BY DEF Give, InStatus, SizeOf, Spendable
<1> HIDE DEF S, T
<1>6. /\ Cardinality(CreditsOf(S, SizeOf)) \in Nat
      /\ Cardinality(CreditsOf(T, SizeOf')) \in Nat
  BY <1>1, CreditsFinite
<1>7. Cardinality(CreditsOf(T, SizeOf')) =
        Cardinality(CreditsOf(S, SizeOf)) - (IF l \in S THEN SizeOf[l] ELSE 0)
                                          + (IF l \in T THEN SizeOf'[l] ELSE 0)
  BY <1>1, <1>2, CreditsMove
<1>8. QED
  BY <1>3, <1>4, <1>5, <1>6, <1>7

-----------------------------------------------------------------------------
\* A step that makes lot l, its refund and what was seen of it e, r and z.
StepOf(l, e, r, z) ==
    /\ e \in LotRow /\ r \in RefundRow /\ z \in SeenRow
    /\ lot' = [lot EXCEPT ![l] = e]
    /\ refund' = [refund EXCEPT ![l] = r]
    /\ seen' = [seen EXCEPT ![l] = z]
    /\ \A m \in Lots \ {l} : SameRowsOn(m)

LEMMA LotStep ==
    ASSUME LotsInv, NEW l \in Lots, NEW e, NEW r, NEW z, StepOf(l, e, r, z),
           LotFine(e, r, z, Cardinality(HeldOn(l)'), Cardinality(ChargedOn(l)')),
           CounterTyped',
           purchased'.reserved = Cardinality(Held("purchased")'),
           purchased'.committed = Cardinality(Charged("purchased")'),
           PurchasedAvailable' =
               PurchasedAvailable - Give(lot[l], "ACTIVE") + Give(e, "ACTIVE"),
           purchased'.refunding =
               purchased.refunding - Give(lot[l], "WITHDRAWN") + Give(e, "WITHDRAWN")
    PROVE  LotsInv'
<1>1. LotsTyped'
  BY DEF LotsInv, LotsFine, LotsTyped, StepOf
<1>2. /\ lot'[l] = e /\ refund'[l] = r /\ seen'[l] = z
      /\ \A m \in Lots \ {l} : lot'[m] = lot[m] /\ refund'[m] = refund[m] /\ seen'[m] = seen[m]
  BY DEF LotsInv, LotsFine, LotsTyped, StepOf
<1>3. LotOK(l)'
  BY <1>2 DEF LotOK
<1>4. ASSUME NEW m \in Lots \ {l} PROVE LotOK(m)'
  <2>1. LotOK(m) /\ SameRowsOn(m)
    BY DEF LotsInv, LotsFine, StepOf
  <2>2. QED
    BY <1>2, <2>1 DEF LotOK, SameRowsOn
<1>5. LotsFine'
  BY <1>1, <1>3, <1>4 DEF LotsFine
<1>6. SizeOf \in Sizes /\ SizeOf' \in Sizes
  <2>1. (LotsFine => SizeOf \in Sizes)'
    BY SizesFine, PTL
  <2>2. LotsFine
    BY DEF LotsInv
  <2>3. SizeOf \in Sizes
    BY <2>2, SizesFine
  <2>4. QED
    BY <1>5, <2>1, <2>3 DEF Sizes
<1>7. /\ Pool("ACTIVE")' = Pool("ACTIVE") - Give(lot[l], "ACTIVE") + Give(e, "ACTIVE")
      /\ Pool("WITHDRAWN")'
           = Pool("WITHDRAWN") - Give(lot[l], "WITHDRAWN") + Give(e, "WITHDRAWN")
  BY <1>2, <1>6, PoolMoves
<1>8. CounterOK'
  BY <1>7 DEF LotsInv, CounterOK
<1>9. QED
  BY <1>5, <1>8 DEF LotsInv

\* What the invariant says of one lot.
LEMMA LotFacts ==
    ASSUME LotsInv, NEW l \in Lots
    PROVE  /\ lot[l] \in LotRow /\ refund[l] \in RefundRow /\ seen[l] \in SeenRow
           /\ LotFine(lot[l], refund[l], seen[l],
                      Cardinality(HeldOn(l)), Cardinality(ChargedOn(l)))
           /\ Cardinality(HeldOn(l)) \in Nat /\ Cardinality(ChargedOn(l)) \in Nat
           /\ lot[l].status \in LotStatuses
           /\ lot[l].current \in Nat /\ lot[l].reserved \in Nat
           /\ refund[l].status \in RefundStatuses
           /\ PackSize \in Nat \ {0}
           /\ refund = [refund EXCEPT ![l] = refund[l]]
           /\ seen = [seen EXCEPT ![l] = seen[l]]
           /\ lot = [lot EXCEPT ![l] = lot[l]]
<1>1. /\ lot[l] \in LotRow /\ refund[l] \in RefundRow /\ seen[l] \in SeenRow
      /\ LotOK(l)
      /\ refund = [refund EXCEPT ![l] = refund[l]]
      /\ seen = [seen EXCEPT ![l] = seen[l]]
      /\ lot = [lot EXCEPT ![l] = lot[l]]
  BY DEF LotsInv, LotsFine, LotsTyped
<1>2. QED
  BY <1>1, RowTypes, CountsNatural, PurchasedAssumption DEF LotOK

LEMMA CounterFacts ==
    ASSUME LotsInv
    PROVE  /\ purchased.granted \in Int /\ purchased.reserved \in Int
           /\ purchased.committed \in Int /\ purchased.refunding \in Int
           /\ purchased.reserved = Cardinality(Held("purchased"))
           /\ purchased.committed = Cardinality(Charged("purchased"))
BY DEF LotsInv, CounterTyped, CounterOK

\* The counter after an update of several of its fields.
CounterIs(granted, reserved, committed, refunding) ==
    /\ CounterTyped'
    /\ purchased'.granted = granted /\ purchased'.reserved = reserved
    /\ purchased'.committed = committed /\ purchased'.refunding = refunding

LEMMA CounterUpdates ==
    ASSUME LotsInv, NEW g \in Int, NEW v \in Int, NEW c \in Int, NEW h \in Int
    PROVE  /\ purchased' = [purchased EXCEPT !.refunding = h, !.granted = g]
                => CounterIs(g, purchased.reserved, purchased.committed, h)
           /\ purchased' = [purchased EXCEPT !.reserved = v, !.committed = c]
                => CounterIs(purchased.granted, v, c, purchased.refunding)
           /\ purchased' = [purchased EXCEPT !.reserved = v, !.refunding = h]
                => CounterIs(purchased.granted, v, purchased.committed, h)
           /\ purchased' = [purchased EXCEPT !.committed = c, !.granted = g, !.refunding = h]
                => CounterIs(g, purchased.reserved, c, h)
BY DEF LotsInv, CounterTyped, CounterIs

LEMMA SameRows ==
    ASSUME UNCHANGED reservation
    PROVE  /\ \A u : SameRowsOn(u)
           /\ \A kind : Held(kind)' = Held(kind) /\ Charged(kind)' = Charged(kind)
BY DEF SameRowsOn, HeldOn, ChargedOn, Held, Charged, IsCharged

\* A step that leaves the lots, the counter and their rows alone.
LEMMA LotsInvStutter ==
    ASSUME LotsInv, UNCHANGED <<lot, purchased, refund, seen>>,
           Held("purchased")' = Held("purchased"),
           Charged("purchased")' = Charged("purchased"),
           \A l \in Lots : SameRowsOn(l)
    PROVE  LotsInv'
<1>1. LotsTyped' /\ CounterTyped'
  BY DEF LotsInv, LotsFine, LotsTyped, CounterTyped
<1>2. ASSUME NEW l \in Lots PROVE LotOK(l)'
  BY DEF LotsInv, LotsFine, LotOK, SameRowsOn
<1>3. \A s : Pool(s)' = Pool(s)
  BY DEF Pool, Unreserved, Credits, Spendable
<1>4. CounterOK'
  BY <1>3 DEF LotsInv, CounterOK, PurchasedAvailable
<1>5. QED
  BY <1>1, <1>2, <1>4 DEF LotsInv, LotsFine

-----------------------------------------------------------------------------
(* Steps that write no row.                                                *)

LEMMA NoRowStep ==
    ASSUME LotsInv, UNCHANGED reservation,
           NEW l \in Lots, NEW e \in LotRow, NEW r \in RefundRow, NEW z \in SeenRow,
           lot' = [lot EXCEPT ![l] = e],
           refund' = [refund EXCEPT ![l] = r],
           seen' = [seen EXCEPT ![l] = z],
           LotFine(e, r, z, Cardinality(HeldOn(l)), Cardinality(ChargedOn(l))),
           CounterTyped',
           purchased'.reserved = purchased.reserved,
           purchased'.committed = purchased.committed,
           purchased'.granted - purchased'.refunding
               = purchased.granted - purchased.refunding
                     - Give(lot[l], "ACTIVE") + Give(e, "ACTIVE"),
           purchased'.refunding =
               purchased.refunding - Give(lot[l], "WITHDRAWN") + Give(e, "WITHDRAWN")
    PROVE  LotsInv'
<1>1. StepOf(l, e, r, z)
  BY SameRows DEF StepOf
<1>2. LotFine(e, r, z, Cardinality(HeldOn(l)'), Cardinality(ChargedOn(l)'))
  BY SameRows DEF SameRowsOn
<1>3. /\ purchased'.reserved = Cardinality(Held("purchased")')
      /\ purchased'.committed = Cardinality(Charged("purchased")')
  BY SameRows, CounterFacts
<1>4. /\ purchased'.granted \in Int /\ purchased'.refunding \in Int
      /\ Give(lot[l], "ACTIVE") \in Int /\ Give(e, "ACTIVE") \in Int
  BY LotFacts, RowTypes DEF CounterTyped, Give
<1>5. PurchasedAvailable' = PurchasedAvailable - Give(lot[l], "ACTIVE") + Give(e, "ACTIVE")
  BY <1>4, CounterFacts DEF PurchasedAvailable
<1>6. QED
  BY <1>1, <1>2, <1>3, <1>5, LotStep

\* Steps that change the refund and the worker's view of the lot only.
LEMMA RefundOnlyStep ==
    ASSUME LotsInv, UNCHANGED <<reservation, lot, purchased>>,
           NEW l \in Lots, NEW r \in RefundRow, NEW z \in SeenRow,
           refund' = [refund EXCEPT ![l] = r],
           seen' = [seen EXCEPT ![l] = z],
           LotFine(lot[l], r, z, Cardinality(HeldOn(l)), Cardinality(ChargedOn(l)))
    PROVE  LotsInv'
<1>1. lot[l] \in LotRow /\ lot' = [lot EXCEPT ![l] = lot[l]]
  BY LotFacts
<1>2. /\ Give(lot[l], "ACTIVE") \in Int /\ Give(lot[l], "WITHDRAWN") \in Int
  BY LotFacts DEF Give
<1>3. CounterTyped'
  BY DEF LotsInv, CounterTyped
<1>4. /\ purchased'.reserved = purchased.reserved
      /\ purchased'.committed = purchased.committed
      /\ purchased'.granted - purchased'.refunding
           = purchased.granted - purchased.refunding
                 - Give(lot[l], "ACTIVE") + Give(lot[l], "ACTIVE")
      /\ purchased'.refunding
           = purchased.refunding - Give(lot[l], "WITHDRAWN") + Give(lot[l], "WITHDRAWN")
  BY <1>2, CounterFacts
<1>5. QED
  BY <1>1, <1>3, <1>4, NoRowStep

-----------------------------------------------------------------------------
(* The refund's own operations.                                            *)

LEMMA LotsAfterRefundStep ==
    ASSUME LotsInv, NEW l \in Lots,
           \/ SelectRefund(l)
           \/ CheckMeter(l)
           \/ LinkCorrection(l)
           \/ RequireProviderAction(l)
           \/ CorrectionReported(l)
           \/ ReconcileNeedsAttention(l)
    PROVE  LotsInv'
<1> DEFINE t == lot[l]
           q == refund[l]
           w == seen[l]
           Fine(r, z) == LotFine(t, r, z, Cardinality(HeldOn(l)), Cardinality(ChargedOn(l)))
<1>0. /\ t \in LotRow /\ q \in RefundRow /\ w \in SeenRow /\ Fine(q, w)
      /\ refund = [refund EXCEPT ![l] = q] /\ seen = [seen EXCEPT ![l] = w]
      /\ t.current \in Nat /\ t.reserved \in Nat
      /\ w.current \in Nat /\ w.reserved \in Nat
      /\ q.status \in RefundStatuses
  BY LotFacts, RowTypes
<1>z. /\ NotSeen \in SeenRow /\ NotSeen.stage = "idle"
  BY DEF NotSeen, SeenRow
<1>1. ASSUME SelectRefund(l) PROVE LotsInv'
  <2> DEFINE z == [stage |-> "selected", current |-> t.current, reserved |-> t.reserved]
  <2>1. /\ UNCHANGED <<reservation, lot, purchased>> /\ refund' = [refund EXCEPT ![l] = q]
        /\ seen' = [seen EXCEPT ![l] = z]
        /\ q.status = "REQUESTED" /\ ~Woo
    BY <1>0, <1>1 DEF SelectRefund, Unlinked, purchasedVars
  <2>2. z \in SeenRow /\ z.stage = "selected" /\ z.reserved = t.reserved
    BY <1>0 DEF SeenRow
  <2> HIDE DEF z
  <2>3. Fine(q, z)
    BY <1>0, <2>1, <2>2 DEF LotFine, LiveStatuses
  <2>4. QED
    BY <1>0, <2>1, <2>2, <2>3, RefundOnlyStep
<1>2. ASSUME CheckMeter(l) PROVE LotsInv'
  <2> DEFINE z == IF MeterBusy(l) THEN NotSeen ELSE [w EXCEPT !.stage = "clear"]
  <2>1. /\ UNCHANGED <<reservation, lot, purchased>> /\ refund' = [refund EXCEPT ![l] = q]
        /\ seen' = [seen EXCEPT ![l] = z] /\ w.stage = "selected"
    BY <1>0, <1>2 DEF CheckMeter, purchasedVars
  <2>2. z \in SeenRow /\ (z.stage = "idle" \/ z.reserved = w.reserved)
    BY <1>0, <1>z DEF SeenRow
  <2> HIDE DEF z
  <2>3. Fine(q, z)
    BY <1>0, <2>1, <2>2 DEF LotFine
  <2>4. QED
    BY <1>0, <2>1, <2>2, <2>3, RefundOnlyStep
<1>3. ASSUME LinkCorrection(l) PROVE LotsInv'
  <2> DEFINE r == IF Unlinked(l)
                  THEN [q EXCEPT !.final = w.current, !.correction = "PENDING"] ELSE q
  <2>1. /\ UNCHANGED <<reservation, lot, purchased>> /\ refund' = [refund EXCEPT ![l] = r]
        /\ seen' = [seen EXCEPT ![l] = NotSeen]
        /\ w.stage # "idle" /\ w.reserved = 0
    BY <1>0, <1>3 DEF LinkCorrection
  <2>2. r \in RefundRow /\ r.status = q.status
    BY <1>0 DEF RefundRow, CorrectionStates
  <2> HIDE DEF r
  <2>3. Fine(r, NotSeen)
    BY <1>0, <1>z, <2>1, <2>2 DEF LotFine
  <2>4. QED
    BY <1>z, <2>1, <2>2, <2>3, RefundOnlyStep
<1>4. ASSUME RequireProviderAction(l) PROVE LotsInv'
  <2> DEFINE r == IF Unlinked(l)
                  THEN [q EXCEPT !.final = w.current, !.status = "PROVIDER_ACTION_REQUIRED"]
                  ELSE q
  <2>1. /\ UNCHANGED <<reservation, lot, purchased>> /\ refund' = [refund EXCEPT ![l] = r]
        /\ seen' = [seen EXCEPT ![l] = NotSeen]
        /\ w.stage # "idle"
    BY <1>0, <1>4 DEF RequireProviderAction
  <2>2. /\ r \in RefundRow /\ r.correction = q.correction
        /\ \/ r.status = q.status
           \/ q.status = "REQUESTED" /\ r.status = "PROVIDER_ACTION_REQUIRED"
    BY <1>0 DEF RefundRow, RefundStatuses, Unlinked
  <2> HIDE DEF r
  <2>3. Fine(r, NotSeen)
    BY <1>0, <1>z, <2>1, <2>2 DEF LotFine, LiveStatuses
  <2>4. QED
    BY <1>z, <2>1, <2>2, <2>3, RefundOnlyStep
<1>5. ASSUME CorrectionReported(l) PROVE LotsInv'
  <2>1. PICK c \in {"REPORTED", "NEEDS_ATTENTION"} :
          refund' = [refund EXCEPT ![l].correction = c]
    BY <1>5 DEF CorrectionReported
  <2> DEFINE r == [q EXCEPT !.correction = c]
  <2>2. /\ UNCHANGED <<reservation, lot, purchased>> /\ refund' = [refund EXCEPT ![l] = r]
        /\ seen' = [seen EXCEPT ![l] = w] /\ q.correction # "NONE"
    BY <1>0, <1>5, <2>1 DEF CorrectionReported
  <2>3. r \in RefundRow /\ r.status = q.status
    BY <1>0, <2>1 DEF RefundRow, CorrectionStates
  <2> HIDE DEF r
  <2>4. Fine(r, w)
    BY <1>0, <2>2, <2>3 DEF LotFine
  <2>5. QED
    BY <1>0, <2>2, <2>3, <2>4, RefundOnlyStep
<1>6. ASSUME ReconcileNeedsAttention(l) PROVE LotsInv'
  <2> DEFINE r == [q EXCEPT !.status = "NEEDS_ATTENTION"]
  <2>1. /\ UNCHANGED <<reservation, lot, purchased>> /\ refund' = [refund EXCEPT ![l] = r]
        /\ seen' = [seen EXCEPT ![l] = w]
        /\ q.correction # "NONE" /\ q.status = "REQUESTED"
    BY <1>0, <1>6 DEF ReconcileNeedsAttention
  <2>2. r \in RefundRow /\ r.status = "NEEDS_ATTENTION" /\ r.correction = q.correction
    BY <1>0 DEF RefundRow, RefundStatuses
  <2> HIDE DEF r
  <2>3. Fine(r, w)
    BY <1>0, <2>1, <2>2 DEF LotFine, LiveStatuses
  <2>4. QED
    BY <1>0, <2>1, <2>2, <2>3, RefundOnlyStep
<1>7. QED
  BY <1>1, <1>2, <1>3, <1>4, <1>5, <1>6

\* The WooCommerce preparation sets aside what is set aside already.
LEMMA WooHoldIsRefunding == LotsInv => WooHolds = purchased.refunding
<1> SUFFICES ASSUME LotsInv PROVE WooHolds = purchased.refunding
  OBVIOUS
<1>1. \A l \in Lots : LiveRefund(l) <=> lot[l].status = "WITHDRAWN"
  BY DEF LotsInv, LotsFine, LotOK, LotFine, LiveRefund, LiveStatuses
<1>2. {l \in Lots : LiveRefund(l) /\ lot[l].status = "WITHDRAWN"}
        = {l \in Lots : lot[l].status = "WITHDRAWN"}
  BY <1>1
<1>3. QED
  BY <1>2 DEF WooHolds, LotsInv, CounterOK, Pool

LEMMA LotsAfterWooHold ==
    ASSUME LotsInv, NEW l \in Lots, PrepareWooHold(l)
    PROVE  LotsInv'
<1> DEFINE q == refund[l]
           ok == lot[l].current >= q.snapshot /\ WooHolds >= purchased.refunding
           r == IF ok THEN [q EXCEPT !.status = "PROVIDER_ACTION_REQUIRED",
                                     !.final = lot[l].current]
                ELSE [q EXCEPT !.status = "NEEDS_ATTENTION"]
<1>0. /\ lot[l] \in LotRow /\ q \in RefundRow /\ seen[l] \in SeenRow
      /\ LotFine(lot[l], q, seen[l], Cardinality(HeldOn(l)), Cardinality(ChargedOn(l)))
      /\ lot[l].current \in Nat /\ lot[l].reserved \in Nat
      /\ seen = [seen EXCEPT ![l] = seen[l]]
  BY LotFacts
<1>1. /\ UNCHANGED <<reservation, lot>> /\ refund' = [refund EXCEPT ![l] = r]
      /\ seen' = [seen EXCEPT ![l] = seen[l]]
      /\ q.status = "REQUESTED" /\ lot[l].reserved = 0
  BY <1>0 DEF PrepareWooHold, Unlinked
<1>2. purchased' = purchased
  <2>1. purchased = [purchased EXCEPT !.refunding = WooHolds]
    BY WooHoldIsRefunding DEF LotsInv, CounterTyped
  <2>2. QED
    BY <2>1 DEF PrepareWooHold
<1>3. /\ r \in RefundRow /\ r.correction = q.correction
      /\ r.status \in {"PROVIDER_ACTION_REQUIRED", "NEEDS_ATTENTION"}
  BY <1>0 DEF RefundRow, RefundStatuses
<1> HIDE DEF r
<1>4. LotFine(lot[l], r, seen[l], Cardinality(HeldOn(l)), Cardinality(ChargedOn(l)))
  BY <1>0, <1>1, <1>3 DEF LotFine, LiveStatuses
<1>5. QED
  BY <1>0, <1>1, <1>2, <1>3, <1>4, RefundOnlyStep

\* The lot leaves the refund hold together with the grant.
LEMMA LotsAfterRefunded ==
    ASSUME LotsInv, NEW l \in Lots, Completable(l), Refunded(l)
    PROVE  LotsInv'
<1> DEFINE t == lot[l]
           e == [t EXCEPT !.status = "REFUNDED", !.current = 0]
           r == [refund[l] EXCEPT !.status = "COMPLETED"]
           f == refund[l].final
<1>0. /\ t \in LotRow /\ refund[l] \in RefundRow /\ seen[l] \in SeenRow
      /\ LotFine(t, refund[l], seen[l], Cardinality(HeldOn(l)), Cardinality(ChargedOn(l)))
      /\ t.current \in Nat /\ t.reserved \in Nat /\ f \in Nat
      /\ Cardinality(ChargedOn(l)) \in Nat /\ PackSize \in Nat
      /\ seen = [seen EXCEPT ![l] = seen[l]]
  BY LotFacts, RowTypes
<1>1. /\ UNCHANGED reservation
      /\ lot' = [lot EXCEPT ![l] = e] /\ refund' = [refund EXCEPT ![l] = r]
      /\ seen' = [seen EXCEPT ![l] = seen[l]]
      /\ purchased' = [purchased EXCEPT !.refunding = @ - f, !.granted = @ - f]
      /\ t.status = "WITHDRAWN" /\ t.reserved = 0 /\ t.current = f
  BY <1>0 DEF Refunded, Completable
<1>2. /\ e \in LotRow /\ e.status = "REFUNDED" /\ e.current = 0 /\ e.reserved = t.reserved
  BY <1>0 DEF LotRow, LotStatuses
<1>3. r \in RefundRow /\ r.status = "COMPLETED" /\ r.correction = refund[l].correction
  BY <1>0 DEF RefundRow, RefundStatuses
<1>4. /\ CounterTyped'
      /\ purchased'.reserved = purchased.reserved
      /\ purchased'.committed = purchased.committed
      /\ purchased'.granted = purchased.granted - f
      /\ purchased'.refunding = purchased.refunding - f
  <2> DEFINE h == purchased.refunding - f
             g == purchased.granted - f
  <2>1. h \in Int /\ g \in Int
    BY <1>0, CounterFacts
  <2>2. purchased' = [purchased EXCEPT !.refunding = h, !.granted = g]
    BY <1>1
  <2> HIDE DEF h, g
  <2>3. CounterIs(g, purchased.reserved, purchased.committed, h)
    BY <2>1, <2>2, CounterUpdates
  <2>4. QED
    BY <2>3 DEF CounterIs, h, g
<1> HIDE DEF e, r
<1>5. LotFine(e, r, seen[l], Cardinality(HeldOn(l)), Cardinality(ChargedOn(l)))
  BY <1>0, <1>1, <1>2, <1>3 DEF LotFine, LiveStatuses
<1>6. /\ purchased'.granted - purchased'.refunding
           = purchased.granted - purchased.refunding - Give(t, "ACTIVE") + Give(e, "ACTIVE")
      /\ purchased'.refunding
           = purchased.refunding - Give(t, "WITHDRAWN") + Give(e, "WITHDRAWN")
  BY <1>0, <1>1, <1>2, <1>4, CounterFacts DEF Give
<1>7. QED
  BY <1>0, <1>1, <1>2, <1>3, <1>4, <1>5, <1>6, NoRowStep

LEMMA LotsAfterSettlement ==
    ASSUME LotsInv, NEW l \in Lots, SettleWooReceipt(l)
    PROVE  LotsInv'
<1> DEFINE q == refund[l]
           r == [q EXCEPT !.status = "NEEDS_ATTENTION"]
<1>0. /\ lot[l] \in LotRow /\ q \in RefundRow /\ seen[l] \in SeenRow
      /\ LotFine(lot[l], q, seen[l], Cardinality(HeldOn(l)), Cardinality(ChargedOn(l)))
      /\ lot[l].reserved \in Nat
      /\ seen = [seen EXCEPT ![l] = seen[l]]
  BY LotFacts
<1>1. CASE Completable(l) /\ q.final > 0
  BY <1>1, LotsAfterRefunded DEF SettleWooReceipt
<1>2. CASE ~(Completable(l) /\ q.final > 0)
  <2>1. /\ UNCHANGED <<reservation, lot, purchased>> /\ refund' = [refund EXCEPT ![l] = r]
        /\ seen' = [seen EXCEPT ![l] = seen[l]]
        /\ q.status = "PROVIDER_ACTION_REQUIRED" /\ Woo
    BY <1>0, <1>2 DEF SettleWooReceipt
  <2>2. r \in RefundRow /\ r.correction = q.correction /\ r.status = "NEEDS_ATTENTION"
    BY <1>0 DEF RefundRow, RefundStatuses
  <2> HIDE DEF r
  <2>3. LotFine(lot[l], r, seen[l], Cardinality(HeldOn(l)), Cardinality(ChargedOn(l)))
    BY <1>0, <2>1, <2>2 DEF LotFine, LiveStatuses
  <2>4. QED
    BY <1>0, <2>1, <2>2, <2>3, RefundOnlyStep
<1>3. QED
  BY <1>1, <1>2

LEMMA LotsAfterRefunds ==
    ASSUME LotsInv, RefundsNext
    PROVE  LotsInv'
BY LotsAfterRefundStep, LotsAfterWooHold, LotsAfterRefunded, LotsAfterSettlement
DEF RefundsNext, CompleteRefund

-----------------------------------------------------------------------------
(* Purchases and withdrawals.                                              *)

LEMMA LotsAfterPurchase ==
    ASSUME LotsInv, UNCHANGED seen, NEW l \in Lots,
           RequestPurchase(l) \/ PurchaseReported(l) \/ ActivatePurchase(l)
    PROVE  LotsInv'
<1> DEFINE t == lot[l]
<1>0. /\ t \in LotRow /\ refund[l] \in RefundRow /\ seen[l] \in SeenRow
      /\ LotFine(t, refund[l], seen[l], Cardinality(HeldOn(l)), Cardinality(ChargedOn(l)))
      /\ t.current \in Nat /\ t.reserved \in Nat /\ PackSize \in Nat \ {0}
      /\ Cardinality(ChargedOn(l)) \in Nat
      /\ seen = [seen EXCEPT ![l] = seen[l]] /\ refund = [refund EXCEPT ![l] = refund[l]]
  BY LotFacts
<1>1. CASE RequestPurchase(l) \/ PurchaseReported(l)
  <2> DEFINE e == IF RequestPurchase(l) THEN [t EXCEPT !.status = "REQUESTED"]
                  ELSE [t EXCEPT !.reported = TRUE]
  <2>1. /\ lot' = [lot EXCEPT ![l] = e] /\ UNCHANGED <<reservation, purchased, refund>>
        /\ t.status \in {"NONE", "REQUESTED"}
    BY <1>1 DEF RequestPurchase, PurchaseReported
  <2>2. /\ e \in LotRow /\ e.status \in {"NONE", "REQUESTED"}
        /\ e.current = t.current /\ e.reserved = t.reserved
    BY <1>0, <2>1 DEF LotRow, LotStatuses
  <2> HIDE DEF e
  <2>3. LotFine(e, refund[l], seen[l], Cardinality(HeldOn(l)), Cardinality(ChargedOn(l)))
    BY <1>0, <2>1, <2>2 DEF LotFine, LiveStatuses
  <2>4. /\ Give(t, "ACTIVE") = 0 /\ Give(e, "ACTIVE") = 0
        /\ Give(t, "WITHDRAWN") = 0 /\ Give(e, "WITHDRAWN") = 0
    BY <2>1, <2>2 DEF Give
  <2>5. /\ CounterTyped'
        /\ purchased'.reserved = purchased.reserved
        /\ purchased'.committed = purchased.committed
        /\ purchased'.granted - purchased'.refunding
             = purchased.granted - purchased.refunding - Give(t, "ACTIVE") + Give(e, "ACTIVE")
        /\ purchased'.refunding
             = purchased.refunding - Give(t, "WITHDRAWN") + Give(e, "WITHDRAWN")
    BY <2>1, <2>4, CounterFacts DEF LotsInv, CounterTyped
  <2>6. /\ lot' = [lot EXCEPT ![l] = e] /\ UNCHANGED reservation
        /\ refund' = [refund EXCEPT ![l] = refund[l]] /\ seen' = [seen EXCEPT ![l] = seen[l]]
        /\ e \in LotRow /\ refund[l] \in RefundRow /\ seen[l] \in SeenRow
    BY <1>0, <2>1, <2>2
  <2>7. QED
    BY <2>3, <2>5, <2>6, NoRowStep
<1>2. CASE ActivatePurchase(l)
  <2> DEFINE e == [t EXCEPT !.status = "ACTIVE", !.current = PackSize]
  <2>1. /\ lot' = [lot EXCEPT ![l] = e] /\ UNCHANGED <<reservation, refund>>
        /\ purchased' = [purchased EXCEPT !.granted = @ + PackSize]
        /\ t.status = "REQUESTED"
    BY <1>2 DEF ActivatePurchase, Candidates
  <2>2. /\ e \in LotRow /\ e.status = "ACTIVE"
        /\ e.current = PackSize /\ e.reserved = t.reserved
    BY <1>0 DEF LotRow, LotStatuses
  <2> HIDE DEF e
  <2>3. /\ LotFine(e, refund[l], seen[l], Cardinality(HeldOn(l)), Cardinality(ChargedOn(l)))
        /\ e.reserved = 0
    BY <1>0, <2>1, <2>2 DEF LotFine, LiveStatuses
  <2>4. /\ Give(t, "ACTIVE") = 0 /\ Give(e, "ACTIVE") = PackSize
        /\ Give(t, "WITHDRAWN") = 0 /\ Give(e, "WITHDRAWN") = 0
    BY <1>0, <2>1, <2>2, <2>3 DEF Give
  <2>5. /\ CounterTyped'
        /\ purchased'.reserved = purchased.reserved
        /\ purchased'.committed = purchased.committed
        /\ purchased'.refunding = purchased.refunding
        /\ purchased'.granted = purchased.granted + PackSize
    BY <1>0, <2>1 DEF LotsInv, CounterTyped
  <2>6. /\ purchased'.granted - purchased'.refunding
             = purchased.granted - purchased.refunding - Give(t, "ACTIVE") + Give(e, "ACTIVE")
        /\ purchased'.refunding
             = purchased.refunding - Give(t, "WITHDRAWN") + Give(e, "WITHDRAWN")
    BY <1>0, <2>4, <2>5, CounterFacts
  <2>7. /\ lot' = [lot EXCEPT ![l] = e] /\ UNCHANGED reservation
        /\ refund' = [refund EXCEPT ![l] = refund[l]] /\ seen' = [seen EXCEPT ![l] = seen[l]]
        /\ e \in LotRow /\ refund[l] \in RefundRow /\ seen[l] \in SeenRow
    BY <1>0, <2>1, <2>2
  <2>8. QED
    BY <2>3, <2>5, <2>6, <2>7, NoRowStep
<1>3. QED
  BY <1>1, <1>2

LEMMA LotsAfterWithdrawal ==
    ASSUME LotsInv, UNCHANGED seen, NEW l \in Lots, WithdrawLot(l)
    PROVE  LotsInv'
<1> DEFINE t == lot[l]
           n == Cardinality({m \in Lots : refund[m].status # "NONE"})
           e == [t EXCEPT !.status = "WITHDRAWN"]
           r == [NoRefund EXCEPT !.status = "REQUESTED", !.snapshot = Spendable(l), !.seq = n]
<1>0. /\ t \in LotRow /\ refund[l] \in RefundRow /\ seen[l] \in SeenRow
      /\ LotFine(t, refund[l], seen[l], Cardinality(HeldOn(l)), Cardinality(ChargedOn(l)))
      /\ t.current \in Nat /\ t.reserved \in Nat /\ PackSize \in Nat
      /\ seen = [seen EXCEPT ![l] = seen[l]]
  BY LotFacts
<1>1. /\ UNCHANGED reservation
      /\ lot' = [lot EXCEPT ![l] = e] /\ refund' = [refund EXCEPT ![l] = r]
      /\ purchased' = [purchased EXCEPT !.refunding = @ + Spendable(l)]
      /\ t.status = "ACTIVE"
  BY DEF WithdrawLot
<1>2. n \in Nat /\ Spendable(l) \in Nat /\ Spendable(l) = t.current - t.reserved
  <2>1. n \in Nat
    BY PurchasedAssumption, FS_Subset, FS_CardinalityType
  <2>2. QED
    BY <1>0, <2>1 DEF Spendable, LotFine
<1>3. e \in LotRow /\ e.status = "WITHDRAWN" /\ e.current = t.current /\ e.reserved = t.reserved
  BY <1>0 DEF LotRow, LotStatuses
<1> HIDE DEF n, e
<1>4. r \in RefundRow /\ r.status = "REQUESTED" /\ r.correction = "NONE"
  BY <1>2 DEF NoRefund, RefundRow, RefundStatuses, CorrectionStates
<1> HIDE DEF r
<1>5. LotFine(e, r, seen[l], Cardinality(HeldOn(l)), Cardinality(ChargedOn(l)))
  BY <1>0, <1>1, <1>3, <1>4 DEF LotFine, LiveStatuses
<1>6. /\ CounterTyped'
      /\ purchased'.reserved = purchased.reserved
      /\ purchased'.committed = purchased.committed
      /\ purchased'.granted = purchased.granted
      /\ purchased'.refunding = purchased.refunding + (t.current - t.reserved)
  BY <1>1, <1>2 DEF LotsInv, CounterTyped
<1>7. /\ purchased'.granted - purchased'.refunding
           = purchased.granted - purchased.refunding - Give(t, "ACTIVE") + Give(e, "ACTIVE")
      /\ purchased'.refunding
           = purchased.refunding - Give(t, "WITHDRAWN") + Give(e, "WITHDRAWN")
  BY <1>0, <1>1, <1>3, <1>6, CounterFacts DEF Give
<1>8. QED
  BY <1>0, <1>1, <1>3, <1>4, <1>5, <1>6, <1>7, NoRowStep

-----------------------------------------------------------------------------
(* Reservations and compensation.                                          *)

\* One row more or less in a counted set.
Counts(S, k) ==
    /\ Cardinality(S) \in Nat
    /\ k \notin S => Cardinality(S \cup {k}) = Cardinality(S) + 1
    /\ k \in S => Cardinality(S \ {k}) = Cardinality(S) - 1

LEMMA LotCounts ==
    ASSUME NEW k \in SourceKeys, NEW l \in Lots
    PROVE  /\ Counts(HeldOn(l), k) /\ Counts(ChargedOn(l), k)
           /\ Counts(Held("purchased"), k) /\ Counts(Charged("purchased"), k)
BY CountedKeys, KeyCounts DEF Counts

LEMMA LotsAfterReserve ==
    ASSUME RowsInv, LotsInv, UNCHANGED seen,
           NEW a \in Attempts, NEW l \in Lots, ReservePurchased(a, l)
    PROVE  LotsInv'
<1> DEFINE k == PlainKey(a)
           t == lot[l]
           e == [t EXCEPT !.reserved = @ + 1]
<1>0. k \in SourceKeys /\ "purchased" \in Sources
  BY KeysInTable DEF Sources
<1>f. /\ t \in LotRow /\ refund[l] \in RefundRow /\ seen[l] \in SeenRow
      /\ LotFine(t, refund[l], seen[l], Cardinality(HeldOn(l)), Cardinality(ChargedOn(l)))
      /\ t.current \in Nat /\ t.reserved \in Nat /\ PackSize \in Nat
      /\ seen = [seen EXCEPT ![l] = seen[l]] /\ refund = [refund EXCEPT ![l] = refund[l]]
  BY LotFacts
<1>1. Absent(k) \/ Reactivable(k, "purchased")
  BY <1>0, RowFields DEF ReservePurchased, PurchasedReserveOutcome
<1>2. t.status = "ACTIVE" /\ t.reserved + 1 <= t.current
  <2>1. l \in SpendableLots
    BY DEF ReservePurchased, LotChoices
  <2>2. QED
    BY <1>f, <2>1 DEF SpendableLots, Spendable
<1>3. /\ lot' = [lot EXCEPT ![l] = e] /\ UNCHANGED refund
      /\ purchased' = [purchased EXCEPT !.reserved = @ + 1]
      /\ WriteReserved(k, "purchased", l)
  BY DEF ReservePurchased
<1> HIDE DEF k
<1>4. /\ k \notin Held("purchased") /\ Held("purchased")' = Held("purchased") \cup {k}
      /\ Charged("purchased")' = Charged("purchased")
      /\ k \notin HeldOn(l) /\ HeldOn(l)' = HeldOn(l) \cup {k}
      /\ ChargedOn(l)' = ChargedOn(l)
      /\ \A m \in Lots \ {l} : SameRowsOn(m)
  BY <1>0, <1>1, <1>3, AfterReserve DEF SameRowsOn
<1>5. /\ Cardinality(Held("purchased")') = Cardinality(Held("purchased")) + 1
      /\ Cardinality(HeldOn(l)') = Cardinality(HeldOn(l)) + 1
  <2>1. Counts(HeldOn(l), k) /\ Counts(Held("purchased"), k)
    BY <1>0, LotCounts
  <2>2. QED
    BY <1>4, <2>1 DEF Counts
<1>6. /\ e \in LotRow /\ e.status = t.status
      /\ e.current = t.current /\ e.reserved = t.reserved + 1
  BY <1>f DEF LotRow
<1> HIDE DEF e
<1>7. StepOf(l, e, refund[l], seen[l])
  BY <1>f, <1>3, <1>4, <1>6 DEF StepOf
<1>8. LotFine(e, refund[l], seen[l], Cardinality(HeldOn(l)'), Cardinality(ChargedOn(l)'))
  <2>1. LotFine(e, refund[l], seen[l], Cardinality(HeldOn(l)) + 1, Cardinality(ChargedOn(l)))
    BY <1>f, <1>2, <1>6 DEF LotFine, LiveStatuses
  <2>2. QED
    BY <1>4, <1>5, <2>1
<1>9. /\ CounterTyped'
      /\ purchased'.granted = purchased.granted /\ purchased'.refunding = purchased.refunding
      /\ purchased'.committed = purchased.committed
      /\ purchased'.reserved = purchased.reserved + 1
  BY <1>3 DEF LotsInv, CounterTyped
<1>10. /\ purchased'.reserved = Cardinality(Held("purchased")')
       /\ purchased'.committed = Cardinality(Charged("purchased")')
  BY <1>4, <1>5, <1>9, CounterFacts
<1>11. /\ PurchasedAvailable' = PurchasedAvailable - Give(t, "ACTIVE") + Give(e, "ACTIVE")
       /\ purchased'.refunding
            = purchased.refunding - Give(t, "WITHDRAWN") + Give(e, "WITHDRAWN")
  <2>1. /\ Give(t, "ACTIVE") = t.current - t.reserved
        /\ Give(e, "ACTIVE") = t.current - t.reserved - 1
        /\ Give(t, "WITHDRAWN") = 0 /\ Give(e, "WITHDRAWN") = 0
    BY <1>f, <1>2, <1>6 DEF Give
  <2>2. PurchasedAvailable \in Int /\ PurchasedAvailable' = PurchasedAvailable - 1
    BY <1>9, CounterFacts DEF PurchasedAvailable
  <2>3. t.current \in Nat /\ t.reserved \in Nat /\ purchased.refunding \in Int
    BY <1>f, CounterFacts
  <2> HIDE DEF t
  <2>4. QED
    BY <1>9, <2>1, <2>2, <2>3
<1>12. QED
  BY <1>7, <1>8, <1>9, <1>10, <1>11, LotStep

LEMMA LotsAfterCommit ==
    ASSUME RowsInv, LotsInv, UNCHANGED seen, NEW a \in Attempts, CommitPurchased(a)
    PROVE  LotsInv'
<1> DEFINE k == PlainKey(a)
<1>0. k \in SourceKeys /\ "purchased" \in Sources
  BY KeysInTable DEF Sources
<1>l. PICK l \in Lots : l = reservation[k].unit
  BY <1>0 DEF CommitPurchased, Transitions, RowsInv, RowShape
<1> DEFINE t == lot[l]
           completes == t.current = 1 /\ t.reserved = 1
           cancels == /\ completes /\ t.status = "WITHDRAWN"
                      /\ refund[l].status \in {"REQUESTED", "PROVIDER_ACTION_REQUIRED"}
           e == [t EXCEPT !.current = @ - 1, !.reserved = @ - 1,
                          !.status = IF completes THEN "COMPLETED" ELSE @]
           r == IF cancels THEN [refund[l] EXCEPT !.status = "CANCELLED"] ELSE refund[l]
<1>f. /\ t \in LotRow /\ refund[l] \in RefundRow /\ seen[l] \in SeenRow
      /\ LotFine(t, refund[l], seen[l], Cardinality(HeldOn(l)), Cardinality(ChargedOn(l)))
      /\ t.current \in Nat /\ t.reserved \in Nat /\ PackSize \in Nat
      /\ t.status \in LotStatuses /\ Cardinality(ChargedOn(l)) \in Nat
      /\ seen = [seen EXCEPT ![l] = seen[l]] /\ refund = [refund EXCEPT ![l] = refund[l]]
  BY LotFacts
<1>3. /\ lot' = [lot EXCEPT ![l] = e] /\ refund' = [refund EXCEPT ![l] = r]
      /\ purchased' = [purchased EXCEPT !.reserved = @ - 1, !.committed = @ + 1]
      /\ Transitions(k, "purchased") /\ WriteStatus(k, "COMMITTED")
      /\ t.status \in {"ACTIVE", "WITHDRAWN"} /\ t.reserved >= 1
  BY <1>l, <1>f DEF CommitPurchased
<1> HIDE DEF k
<1>4. /\ k \in Held("purchased") /\ Held("purchased")' = Held("purchased") \ {k}
      /\ k \notin Charged("purchased")
      /\ Charged("purchased")' = Charged("purchased") \cup {k}
      /\ k \in HeldOn(l) /\ HeldOn(l)' = HeldOn(l) \ {k}
      /\ k \notin ChargedOn(l) /\ ChargedOn(l)' = ChargedOn(l) \cup {k}
      /\ \A m \in Lots \ {l} : SameRowsOn(m)
  BY <1>0, <1>l, <1>3, AfterStatus DEF SameRowsOn
<1>5. /\ Cardinality(Held("purchased")') = Cardinality(Held("purchased")) - 1
      /\ Cardinality(Charged("purchased")') = Cardinality(Charged("purchased")) + 1
      /\ Cardinality(HeldOn(l)') = Cardinality(HeldOn(l)) - 1
      /\ Cardinality(ChargedOn(l)') = Cardinality(ChargedOn(l)) + 1
  <2>1. /\ Counts(HeldOn(l), k) /\ Counts(Held("purchased"), k)
        /\ Counts(ChargedOn(l), k) /\ Counts(Charged("purchased"), k)
    BY <1>0, LotCounts
  <2>2. QED
    BY <1>4, <2>1 DEF Counts
<1>6. /\ e \in LotRow /\ e.status = IF completes THEN "COMPLETED" ELSE t.status
      /\ e.current = t.current - 1 /\ e.reserved = t.reserved - 1
  <2> DEFINE x == t.current - 1
             y == t.reserved - 1
             st == IF completes THEN "COMPLETED" ELSE t.status
  <2>1. x \in Nat /\ y \in Nat /\ st \in LotStatuses
    BY <1>f, <1>3 DEF LotFine, LotStatuses
  <2>2. e = [t EXCEPT !.current = x, !.reserved = y, !.status = st]
    OBVIOUS
  <2> HIDE DEF x, y, st, e
  <2>3. e \in LotRow /\ e.current = x /\ e.reserved = y /\ e.status = st
    BY <1>f, <2>1, <2>2 DEF LotRow
  <2>4. QED
    BY <2>3 DEF x, y, st
<1>r. /\ r \in RefundRow /\ r.correction = refund[l].correction
      /\ r.status = IF cancels THEN "CANCELLED" ELSE refund[l].status
  BY <1>f DEF RefundRow, RefundStatuses
<1> HIDE DEF e, r
<1>7. StepOf(l, e, r, seen[l])
  BY <1>f, <1>r, <1>3, <1>4, <1>6 DEF StepOf
<1>8. LotFine(e, r, seen[l], Cardinality(HeldOn(l)'), Cardinality(ChargedOn(l)'))
  <2>1. LotFine(e, r, seen[l], Cardinality(HeldOn(l)) - 1, Cardinality(ChargedOn(l)) + 1)
    BY <1>f, <1>r, <1>3, <1>6 DEF LotFine, LiveStatuses
  <2>2. QED
    BY <1>5, <2>1
<1>9. /\ CounterTyped'
      /\ purchased'.granted = purchased.granted /\ purchased'.refunding = purchased.refunding
      /\ purchased'.committed = purchased.committed + 1
      /\ purchased'.reserved = purchased.reserved - 1
  <2> DEFINE v == purchased.reserved - 1
             c == purchased.committed + 1
  <2>1. v \in Int /\ c \in Int
    BY CounterFacts
  <2>2. purchased' = [purchased EXCEPT !.reserved = v, !.committed = c]
    BY <1>3
  <2> HIDE DEF v, c
  <2>3. CounterIs(purchased.granted, v, c, purchased.refunding)
    BY <2>1, <2>2, CounterUpdates
  <2>4. QED
    BY <2>3 DEF CounterIs, v, c
<1>10. /\ purchased'.reserved = Cardinality(Held("purchased")')
       /\ purchased'.committed = Cardinality(Charged("purchased")')
  BY <1>5, <1>9, CounterFacts
<1>11. /\ PurchasedAvailable' = PurchasedAvailable - Give(t, "ACTIVE") + Give(e, "ACTIVE")
       /\ purchased'.refunding
            = purchased.refunding - Give(t, "WITHDRAWN") + Give(e, "WITHDRAWN")
  <2>1. /\ Give(e, "ACTIVE") = Give(t, "ACTIVE") /\ Give(e, "ACTIVE") \in Int
        /\ Give(e, "WITHDRAWN") = Give(t, "WITHDRAWN") /\ Give(e, "WITHDRAWN") \in Int
    BY <1>f, <1>3, <1>6 DEF Give
  <2>2. QED
    BY <1>9, <2>1, CounterFacts DEF PurchasedAvailable
<1>12. QED
  BY <1>7, <1>8, <1>9, <1>10, <1>11, LotStep

LEMMA LotsAfterRelease ==
    ASSUME RowsInv, LotsInv, UNCHANGED seen, NEW a \in Attempts, ReleasePurchased(a)
    PROVE  LotsInv'
<1> DEFINE k == PlainKey(a)
<1>0. k \in SourceKeys /\ "purchased" \in Sources
  BY KeysInTable DEF Sources
<1>l. PICK l \in Lots : l = reservation[k].unit
  BY <1>0 DEF ReleasePurchased, Transitions, RowsInv, RowShape
<1> DEFINE t == lot[l]
           hold == IF t.status = "WITHDRAWN" THEN 1 ELSE 0
           e == [t EXCEPT !.reserved = @ - 1]
<1>f. /\ t \in LotRow /\ refund[l] \in RefundRow /\ seen[l] \in SeenRow
      /\ LotFine(t, refund[l], seen[l], Cardinality(HeldOn(l)), Cardinality(ChargedOn(l)))
      /\ t.current \in Nat /\ t.reserved \in Nat /\ PackSize \in Nat
      /\ seen = [seen EXCEPT ![l] = seen[l]] /\ refund = [refund EXCEPT ![l] = refund[l]]
  BY LotFacts
<1>3. /\ lot' = [lot EXCEPT ![l] = e] /\ UNCHANGED refund
      /\ purchased' = [purchased EXCEPT !.reserved = @ - 1, !.refunding = @ + hold]
      /\ Transitions(k, "purchased") /\ WriteStatus(k, "RELEASED")
      /\ t.status \in {"ACTIVE", "WITHDRAWN"} /\ t.reserved >= 1
  BY <1>l, <1>f DEF ReleasePurchased
<1> HIDE DEF k
<1>4. /\ k \in Held("purchased") /\ Held("purchased")' = Held("purchased") \ {k}
      /\ Charged("purchased")' = Charged("purchased")
      /\ k \in HeldOn(l) /\ HeldOn(l)' = HeldOn(l) \ {k}
      /\ ChargedOn(l)' = ChargedOn(l)
      /\ \A m \in Lots \ {l} : SameRowsOn(m)
  BY <1>0, <1>l, <1>3, AfterStatus DEF SameRowsOn
<1>5. /\ Cardinality(Held("purchased")') = Cardinality(Held("purchased")) - 1
      /\ Cardinality(HeldOn(l)') = Cardinality(HeldOn(l)) - 1
  BY <1>0, <1>4, LotCounts DEF Counts
<1>6. /\ e \in LotRow /\ e.status = t.status
      /\ e.current = t.current /\ e.reserved = t.reserved - 1
  BY <1>f, <1>3 DEF LotRow
<1> HIDE DEF e
<1>7. StepOf(l, e, refund[l], seen[l])
  BY <1>f, <1>3, <1>4, <1>6 DEF StepOf
<1>8. LotFine(e, refund[l], seen[l], Cardinality(HeldOn(l)'), Cardinality(ChargedOn(l)'))
  <2>1. LotFine(e, refund[l], seen[l], Cardinality(HeldOn(l)) - 1, Cardinality(ChargedOn(l)))
    BY <1>f, <1>3, <1>6 DEF LotFine, LiveStatuses
  <2>2. QED
    BY <1>4, <1>5, <2>1
<1>9. /\ CounterTyped' /\ hold \in {0, 1}
      /\ purchased'.granted = purchased.granted
      /\ purchased'.refunding = purchased.refunding + hold
      /\ purchased'.committed = purchased.committed
      /\ purchased'.reserved = purchased.reserved - 1
  <2> DEFINE v == purchased.reserved - 1
             h == purchased.refunding + hold
  <2>1. v \in Int /\ h \in Int /\ hold \in {0, 1}
    BY CounterFacts
  <2>2. purchased' = [purchased EXCEPT !.reserved = v, !.refunding = h]
    BY <1>3
  <2> HIDE DEF v, h, hold
  <2>3. CounterIs(purchased.granted, v, purchased.committed, h)
    BY <2>1, <2>2, CounterUpdates
  <2>4. QED
    BY <2>1, <2>3 DEF CounterIs, v, h
<1>10. /\ purchased'.reserved = Cardinality(Held("purchased")')
       /\ purchased'.committed = Cardinality(Charged("purchased")')
  BY <1>4, <1>5, <1>9, CounterFacts
<1>11. /\ PurchasedAvailable' = PurchasedAvailable - Give(t, "ACTIVE") + Give(e, "ACTIVE")
       /\ purchased'.refunding
            = purchased.refunding - Give(t, "WITHDRAWN") + Give(e, "WITHDRAWN")
  BY <1>f, <1>3, <1>6, <1>9, CounterFacts DEF PurchasedAvailable, Give
<1>12. QED
  BY <1>7, <1>8, <1>9, <1>10, <1>11, LotStep

LEMMA LotsAfterAmbiguous ==
    ASSUME RowsInv, LotsInv, UNCHANGED seen, NEW a \in Attempts, MarkPurchasedAmbiguous(a)
    PROVE  LotsInv'
<1> DEFINE k == PlainKey(a)
<1>0. k \in SourceKeys /\ "purchased" \in Sources
  BY KeysInTable DEF Sources
<1>1. /\ Held("purchased")' = Held("purchased") /\ Charged("purchased")' = Charged("purchased")
      /\ \A l \in Lots : SameRowsOn(l)
  BY <1>0, AfterStatus DEF MarkPurchasedAmbiguous, SameRowsOn
<1>2. QED
  BY <1>1, LotsInvStutter DEF MarkPurchasedAmbiguous, purchasedVars

(***************************************************************************)
(* The three outcomes of a compensation: the credit is spendable again,    *)
(* joins the refund hold, or leaves the books with its refunded lot.       *)
(***************************************************************************)
LEMMA LotsAfterCompensation ==
    ASSUME RowsInv, LotsInv, UNCHANGED seen, NEW a \in Attempts, CompensatePurchased(a)
    PROVE  LotsInv'
<1> DEFINE k == PlainKey(a)
<1>0. k \in SourceKeys /\ "purchased" \in Sources
  BY KeysInTable DEF Sources
<1>l. PICK l \in Lots : l = reservation[k].unit
  BY <1>0 DEF CompensatePurchased, RowsInv, RowShape
<1> DEFINE t == lot[l]
           d == Disposition(l)
           freezes == d = "held-for-refund" /\ FrozenRefund(l)
           e == IF d = "historical-only" THEN t
                ELSE [t EXCEPT !.current = @ + 1,
                               !.status = IF d = "restored-spendable" THEN "ACTIVE" ELSE @]
           r == IF freezes THEN [refund[l] EXCEPT !.status = "NEEDS_ATTENTION"] ELSE refund[l]
           x == IF d = "historical-only" THEN purchased.granted - 1 ELSE purchased.granted
           h == IF d = "held-for-refund" THEN purchased.refunding + 1 ELSE purchased.refunding
           c == purchased.committed - 1
<1>f. /\ t \in LotRow /\ refund[l] \in RefundRow /\ seen[l] \in SeenRow
      /\ LotFine(t, refund[l], seen[l], Cardinality(HeldOn(l)), Cardinality(ChargedOn(l)))
      /\ t.current \in Nat /\ t.reserved \in Nat /\ PackSize \in Nat
      /\ t.status \in LotStatuses /\ Cardinality(ChargedOn(l)) \in Nat
      /\ seen = [seen EXCEPT ![l] = seen[l]] /\ refund = [refund EXCEPT ![l] = refund[l]]
      /\ lot = [lot EXCEPT ![l] = lot[l]]
  BY LotFacts
<1>3. /\ lot' = [lot EXCEPT ![l] = e] /\ refund' = [refund EXCEPT ![l] = r]
      /\ purchased' = [purchased EXCEPT !.committed = c, !.granted = x, !.refunding = h]
      /\ reservation[k].kind = "purchased" /\ IsCharged(k) /\ WriteCompensated(k)
      /\ d # "conflict"
  <2>1. lot' = [lot EXCEPT ![l] = e]
    BY <1>l, <1>f DEF CompensatePurchased
  <2>2. refund' = [refund EXCEPT ![l] = r]
    BY <1>l, <1>f DEF CompensatePurchased
  <2>3. purchased' = [purchased EXCEPT !.committed = c, !.granted = x, !.refunding = h]
    BY <1>l DEF CompensatePurchased
  <2>4. /\ reservation[k].kind = "purchased" /\ IsCharged(k) /\ WriteCompensated(k)
        /\ d # "conflict"
    BY <1>l DEF CompensatePurchased
  <2>5. QED
    BY <2>1, <2>2, <2>3, <2>4
<1>d. /\ d \in {"historical-only", "held-for-refund", "restored-spendable"}
      /\ d = "historical-only" => t.status = "REFUNDED"
      /\ d = "held-for-refund" => t.status = "WITHDRAWN"
      /\ d = "restored-spendable" =>
            /\ t.status \in {"ACTIVE", "COMPLETED"}
            /\ refund[l].status \in {"NONE", "CANCELLED"}
  BY <1>3 DEF Disposition
<1> HIDE DEF k, d
<1>4. /\ Held("purchased")' = Held("purchased")
      /\ k \in Charged("purchased") /\ Charged("purchased")' = Charged("purchased") \ {k}
      /\ HeldOn(l)' = HeldOn(l)
      /\ k \in ChargedOn(l) /\ ChargedOn(l)' = ChargedOn(l) \ {k}
      /\ \A m \in Lots \ {l} : SameRowsOn(m)
  BY <1>0, <1>l, <1>3, AfterCompensate DEF SameRowsOn
<1>5. /\ Cardinality(Charged("purchased")') = Cardinality(Charged("purchased")) - 1
      /\ Cardinality(ChargedOn(l)') = Cardinality(ChargedOn(l)) - 1
  BY <1>0, <1>4, LotCounts DEF Counts
<1>6. /\ e \in LotRow /\ e.reserved = t.reserved
      /\ e.status = IF d = "restored-spendable" THEN "ACTIVE" ELSE t.status
      /\ e.current = IF d = "historical-only" THEN t.current ELSE t.current + 1
  <2>1. CASE d = "historical-only"
    BY <1>f, <2>1
  <2>2. CASE d # "historical-only"
    <3> DEFINE y == t.current + 1
               st == IF d = "restored-spendable" THEN "ACTIVE" ELSE t.status
    <3>1. y \in Nat /\ st \in LotStatuses
      BY <1>f DEF LotStatuses
    <3>2. e = [t EXCEPT !.current = y, !.status = st]
      BY <2>2
    <3> HIDE DEF y, st, e
    <3>3. e \in LotRow /\ e.current = y /\ e.reserved = t.reserved /\ e.status = st
      BY <1>f, <3>1, <3>2 DEF LotRow
    <3>4. QED
      BY <2>2, <3>3 DEF y, st
  <2>3. QED
    BY <2>1, <2>2
<1>r. /\ r \in RefundRow /\ r.correction = refund[l].correction
      /\ \/ r.status = refund[l].status
         \/ r.status = "NEEDS_ATTENTION" /\ d = "held-for-refund"
  BY <1>f DEF RefundRow, RefundStatuses
<1> HIDE DEF e, r
<1>7. StepOf(l, e, r, seen[l])
  BY <1>f, <1>r, <1>3, <1>4, <1>6 DEF StepOf
<1>8. LotFine(e, r, seen[l], Cardinality(HeldOn(l)'), Cardinality(ChargedOn(l)'))
  <2>1. LotFine(e, r, seen[l], Cardinality(HeldOn(l)), Cardinality(ChargedOn(l)) - 1)
    BY <1>f, <1>r, <1>d, <1>6 DEF LotFine, LiveStatuses
  <2>2. QED
    BY <1>4, <1>5, <2>1
<1>9. CounterIs(x, purchased.reserved, c, h) /\ x \in Int /\ h \in Int /\ c \in Int
  <2>1. x \in Int /\ h \in Int /\ c \in Int
    BY CounterFacts
  <2> HIDE DEF x, h, c
  <2>2. QED
    BY <1>3, <2>1, CounterUpdates
<1>10. /\ purchased'.reserved = Cardinality(Held("purchased")')
       /\ purchased'.committed = Cardinality(Charged("purchased")')
  BY <1>4, <1>5, <1>9, CounterFacts DEF CounterIs
<1>g. /\ Give(t, "ACTIVE") = IF t.status = "ACTIVE" THEN t.current - t.reserved ELSE 0
      /\ Give(e, "ACTIVE") = IF d = "restored-spendable" THEN Give(t, "ACTIVE") + 1
                             ELSE Give(t, "ACTIVE")
      /\ Give(e, "WITHDRAWN") = IF d = "held-for-refund" THEN Give(t, "WITHDRAWN") + 1
                                ELSE Give(t, "WITHDRAWN")
      /\ Give(t, "ACTIVE") \in Int /\ Give(t, "WITHDRAWN") \in Int
  BY <1>f, <1>d, <1>6 DEF Give, LotFine
<1>11. /\ PurchasedAvailable' = PurchasedAvailable - Give(t, "ACTIVE") + Give(e, "ACTIVE")
       /\ purchased'.refunding
            = purchased.refunding - Give(t, "WITHDRAWN") + Give(e, "WITHDRAWN")
  BY <1>d, <1>9, <1>g, CounterFacts DEF CounterIs, PurchasedAvailable
<1>12. QED
  BY <1>7, <1>8, <1>9, <1>10, <1>11, LotStep DEF CounterIs

LEMMA LotsAfterPurchased ==
    ASSUME RowsInv, LotsInv, UNCHANGED seen, PurchasedNext
    PROVE  LotsInv'
BY LotsAfterPurchase, LotsAfterWithdrawal, LotsAfterReserve, LotsAfterCommit,
   LotsAfterRelease, LotsAfterAmbiguous, LotsAfterCompensation
DEF PurchasedNext

-----------------------------------------------------------------------------
(* The invariant.                                                          *)

LotVars == <<lot, purchased, refund, seen>>

LEMMA LotsInvInductive ==
    ASSUME RowsInv, LotsInv, [Next]_vars
    PROVE  LotsInv'
<1>1. CASE Purchased
  BY <1>1, LotsAfterPurchased DEF Purchased
<1>2. CASE Refunds
  BY <1>2, LotsAfterRefunds DEF Refunds
<1>3. CASE UNCHANGED reservation /\ UNCHANGED LotVars
  BY <1>3, SameRows, LotsInvStutter DEF LotVars
<1>4. ASSUME NEW other \in Sources \ {"purchased"}, RowStep(other), UNCHANGED LotVars
      PROVE  LotsInv'
  <2>1. \A l \in Lots : SameRowsOn(l)
    BY <1>4, OtherUnitsUntouched
  <2>2. Held("purchased")' = Held("purchased") /\ Charged("purchased")' = Charged("purchased")
    BY <1>4, OtherSourcesUntouched DEF Sources
  <2>3. QED
    BY <1>4, <2>1, <2>2, LotsInvStutter DEF LotVars
<1>5. CASE Rollover /\ UNCHANGED LotVars
  <2>1. \A l \in Lots : SameRowsOn(l)
    BY <1>5, RolloverKeepsUnits
  <2>2. Held("purchased")' = Held("purchased") /\ Charged("purchased")' = Charged("purchased")
    BY <1>5, RolloverTouchesPaidOnly DEF Sources
  <2>3. QED
    BY <1>5, <2>1, <2>2, LotsInvStutter DEF LotVars
<1>6. Purchased \/ Refunds \/ UNCHANGED LotVars
  BY DEF Next, vars, LotVars, purchasedVars, Free, Paid, Promotional
<1>7. QED
  BY <1>1, <1>2, <1>3, <1>4, <1>5, <1>6, LedgerWrites DEF Sources

LEMMA LotsInvInit == Init => LotsInv
<1> SUFFICES ASSUME Init PROVE LotsInv
  OBVIOUS
<1>1. /\ lot = [l \in Lots |-> [status |-> "NONE", current |-> 0, reserved |-> 0,
                                reported |-> FALSE]]
      /\ purchased = [granted |-> 0, reserved |-> 0, committed |-> 0, refunding |-> 0]
      /\ refund = [l \in Lots |-> NoRefund]
      /\ seen = [l \in Lots |-> NotSeen]
  BY DEF Init, PurchasedInit, RefundsInit
<1>2. /\ \A l \in Lots : HeldOn(l) = {} /\ ChargedOn(l) = {}
      /\ Held("purchased") = {} /\ Charged("purchased") = {}
  BY DEF Init, ReservationsInit, NoRow, HeldOn, ChargedOn, Held, Charged, IsCharged,
         HeldStatuses
<1>3. Cardinality({}) = 0
  BY FS_EmptySet
<1>4. LotsTyped /\ CounterTyped
  BY <1>1 DEF LotsTyped, CounterTyped, LotRow, RefundRow, SeenRow, LotStatuses,
              RefundStatuses, CorrectionStates, NoRefund, NotSeen
<1>5. ASSUME NEW l \in Lots PROVE LotOK(l)
  <2>1. /\ lot[l].status = "NONE" /\ lot[l].current = 0 /\ lot[l].reserved = 0
        /\ refund[l].status = "NONE" /\ refund[l].correction = "NONE"
        /\ seen[l].stage = "idle"
    BY <1>1 DEF NoRefund, NotSeen
  <2>2. Cardinality(HeldOn(l)) = 0 /\ Cardinality(ChargedOn(l)) = 0
    BY <1>2, <1>3
  <2>3. QED
    BY <2>1, <2>2, PurchasedAssumption DEF LotOK, LotFine, LiveStatuses
<1>6. Pool("ACTIVE") = 0 /\ Pool("WITHDRAWN") = 0
  <2>1. {l \in Lots : lot[l].status = "ACTIVE"} = {}
        /\ {l \in Lots : lot[l].status = "WITHDRAWN"} = {}
    BY <1>1
  <2>2. Credits({}) = {}
    BY DEF Credits
  <2>3. QED
    BY <1>3, <2>1, <2>2 DEF Pool, Unreserved
<1>7. CounterOK
  <2>1. /\ purchased.granted = 0 /\ purchased.reserved = 0
        /\ purchased.committed = 0 /\ purchased.refunding = 0
    BY <1>1
  <2>2. Cardinality(Held("purchased")) = 0 /\ Cardinality(Charged("purchased")) = 0
    BY <1>2, <1>3
  <2>3. PurchasedAvailable = 0
    BY <2>1 DEF PurchasedAvailable
  <2>4. QED
    BY <1>6, <2>1, <2>2, <2>3 DEF CounterOK
<1>8. QED
  BY <1>4, <1>5, <1>7 DEF LotsInv, LotsFine

LEMMA LotsInvariant == Spec => []LotsInv
BY LotsInvInit, LotsInvInductive, RowsInvariant, PTL DEF Spec

-----------------------------------------------------------------------------
(* What it gives.                                                          *)

(***************************************************************************)
(* Whatever the interleaving of reservations, purchases and refunds, each  *)
(* purchase's reservedAmount and the shop counter's reserved and committed *)
(* amounts are numbers of rows (purchased-recovery-reservation.service.ts).*)
(***************************************************************************)
THEOREM PurchasedRowsCounted == Spec => []PurchasedReconciled
<1>1. LotsInv => PurchasedReconciled
  BY DEF LotsInv, LotsFine, LotOK, LotFine, CounterOK, PurchasedReconciled
<1>2. QED
  BY <1>1, LotsInvariant, PTL

(***************************************************************************)
(* The one counter that all purchases share never drifts from them: what   *)
(* it offers is what the active ones can give, what it holds for refunds   *)
(* is what the withdrawn ones contain, through the commit, release and     *)
(* compensation of credits whose purchase was withdrawn or refunded in     *)
(* between.                                                                *)
(***************************************************************************)
THEOREM CounterFollowsLots == Spec => []LotsReconciled
<1>1. LotsInv => LotsReconciled
  BY DEF LotsInv, CounterOK, Pool, LotsReconciled
<1>2. QED
  BY <1>1, LotsInvariant, PTL

(***************************************************************************)
(* A purchase that is completed or refunded backs no open reservation: the *)
(* commit or release of a purchased credit never fails on it.              *)
(***************************************************************************)
THEOREM NothingHeldOnFinishedLots == Spec => []HeldOnLiveLots
<1>1. ASSUME LotsInv PROVE HeldOnLiveLots
  <2> SUFFICES ASSUME NEW l \in Lots, lot[l].status \notin {"ACTIVE", "WITHDRAWN"}
               PROVE  HeldOn(l) = {} /\ lot[l].current = 0
    BY DEF HeldOnLiveLots
  <2>1. lot[l].current = 0 /\ Cardinality(HeldOn(l)) = 0
    BY <1>1, LotFacts DEF LotFine
  <2>2. IsFiniteSet(HeldOn(l))
    BY CountedKeys, KeysFinite, FS_Subset
  <2>3. QED
    BY <2>1, <2>2, FS_EmptySet
<1>2. QED
  BY <1>1, LotsInvariant, PTL

(***************************************************************************)
(* A refund is live exactly while its purchase is withdrawn, and completed *)
(* exactly when it is refunded, although commits and compensations of that *)
(* purchase's credits move both from other workers.                        *)
(***************************************************************************)
THEOREM RefundsFollowLots == Spec => []RefundFollowsLot
<1>1. LotsInv => RefundFollowsLot
  BY DEF LotsInv, LotsFine, LotOK, LotFine, LiveRefund, LiveStatuses, RefundFollowsLot
<1>2. QED
  BY <1>1, LotsInvariant, PTL

(***************************************************************************)
(* The hold that the WooCommerce preparation computes from the live        *)
(* refunds is the one the counter already has: its coherence check never   *)
(* sends a refund to review for that.                                      *)
(***************************************************************************)
THEOREM WooHoldIsSetAside == Spec => []WooHoldAlreadySetAside
<1>1. LotsInv => WooHoldAlreadySetAside
  BY WooHoldIsRefunding DEF WooHoldAlreadySetAside
<1>2. QED
  BY <1>1, LotsInvariant, PTL

\* The refund hold covers each withdrawn lot.
LEMMA HoldCoversLot ==
    ASSUME LotsInv, NEW l \in Lots, lot[l].status = "WITHDRAWN"
    PROVE  purchased.refunding >= Spendable(l)
<1> DEFINE S == InStatus("WITHDRAWN")
           rest == Cardinality(CreditsOf(S \ {l}, SizeOf))
<1>1. SizeOf \in Sizes /\ S \in SUBSET Lots /\ l \in S
  BY SizesFine DEF LotsInv, InStatus
<1>2. SizeOf[l] = Spendable(l) /\ SizeOf[l] \in Int
  BY <1>1, PurchasedAssumption DEF SizeOf, Sizes
<1>3. rest \in Nat
  BY <1>1, CreditsFinite
<1>4. Cardinality(CreditsOf(S, SizeOf)) = rest + SizeOf[l]
  BY <1>1, CreditsSplit
<1>5. purchased.refunding = Cardinality(CreditsOf(S, SizeOf))
  BY PoolAsCredits DEF LotsInv, CounterOK
<1> HIDE DEF rest, S
<1>6. QED
  BY <1>2, <1>3, <1>4, <1>5

(***************************************************************************)
(* The delivery compensation never finds the purchase of a charged credit  *)
(* in a state it refuses: every charge can be reversed, whatever happened  *)
(* to the purchase and to its refund since                                 *)
(* (recovery-delivery-compensation/purchased.ts).                          *)
(***************************************************************************)
THEOREM EveryChargeReversible == Spec => []ChargesReversible
<1>1. ASSUME RowsInv, LotsInv PROVE ChargesReversible
  <2> SUFFICES ASSUME NEW k \in Charged("purchased"), NEW l \in Lots,
                      l = reservation[k].unit
               PROVE  /\ Disposition(l) # "conflict"
                      /\ lot[l].current + 1 <= PackSize
                      /\ Disposition(l) = "held-for-refund"
                            => purchased.refunding >= Spendable(l)
    BY <1>1 DEF ChargesReversible, Charged, RowsInv, RowShape
  <2>1. k \in SourceKeys /\ k \in ChargedOn(l)
    BY DEF Charged, ChargedOn
  <2>2. Cardinality(ChargedOn(l)) >= 1
    <3>1. IsFiniteSet(ChargedOn(l)) /\ Cardinality(ChargedOn(l)) \in Nat
      BY CountedKeys, KeysFinite, FS_Subset, FS_CardinalityType
    <3>2. Cardinality(ChargedOn(l)) # 0
      BY <2>1, <3>1, FS_EmptySet
    <3>3. QED
      BY <3>1, <3>2
  <2>3. /\ LotFine(lot[l], refund[l], seen[l],
                   Cardinality(HeldOn(l)), Cardinality(ChargedOn(l)))
        /\ Cardinality(ChargedOn(l)) \in Nat /\ PackSize \in Nat
        /\ lot[l].status \in LotStatuses /\ lot[l].current \in Nat
        /\ refund[l].status \in RefundStatuses
    BY <1>1, LotFacts
  <2>4. lot[l].current + 1 <= PackSize
    BY <2>2, <2>3 DEF LotFine
  <2>5. /\ lot[l].status \in {"ACTIVE", "WITHDRAWN", "COMPLETED", "REFUNDED"}
        /\ lot[l].status = "ACTIVE" => lot[l].current > 0
        /\ lot[l].status = "COMPLETED" => lot[l].current = 0
        /\ lot[l].status \in {"ACTIVE", "COMPLETED"} => refund[l].status \in {"NONE", "CANCELLED"}
        /\ lot[l].status = "WITHDRAWN" => LiveRefund(l)
        /\ lot[l].status = "REFUNDED" => refund[l].status = "COMPLETED"
    BY <2>2, <2>3 DEF LotFine, LotStatuses, RefundStatuses, LiveStatuses, LiveRefund
  <2>6. Disposition(l) # "conflict"
    BY <2>5 DEF Disposition
  <2>7. ASSUME Disposition(l) = "held-for-refund" PROVE lot[l].status = "WITHDRAWN"
    BY <2>7 DEF Disposition
  <2>8. QED
    BY <1>1, <2>4, <2>6, <2>7, HoldCoversLot
<1>2. QED
  BY <1>1, LotsInvariant, RowsInvariant, PTL

-----------------------------------------------------------------------------
(* Refunds take their turns on the provider's meter.                       *)

(***************************************************************************)
(* The meter is looked at before the correction is linked, so the link is  *)
(* written on old knowledge.  It stays true because refunds are numbered   *)
(* in the order of their requests and never come to life again: nothing    *)
(* can arrive ahead of one that had its turn.                              *)
(***************************************************************************)
RefundsMade == {l \in Lots : refund[l].status # "NONE"}
NoneAhead(l) ==
    \A m \in Lots \ {l} : LiveRefund(m) => ~(refund[m].seq < refund[l].seq)
HasItsTurn(l) ==
    LiveRefund(l) /\ (refund[l].correction # "NONE" \/ seen[l].stage = "clear")

TurnsInv ==
    /\ \A l \in RefundsMade : refund[l].seq < Cardinality(RefundsMade)
    /\ \A l, m \in RefundsMade : refund[l].seq = refund[m].seq => l = m
    /\ \A l \in Lots : HasItsTurn(l) => NoneAhead(l)
    /\ \A l \in Lots : seen[l].stage # "idle" => l \in RefundsMade

\* What every step but a withdrawal does to the refunds: it makes none, and
\* gives the turn only to one that has none ahead of it.
TurnsKept ==
    \A l \in Lots :
        /\ refund'[l].seq = refund[l].seq
        /\ refund'[l].status = "NONE" <=> refund[l].status = "NONE"
        /\ LiveRefund(l)' => LiveRefund(l)
        /\ HasItsTurn(l)' => HasItsTurn(l) \/ NoneAhead(l)
        /\ seen'[l].stage # "idle" => seen[l].stage # "idle" \/ LiveRefund(l)

LEMMA TurnsFromKept ==
    ASSUME TurnsInv, TurnsKept
    PROVE  TurnsInv'
<1>1. RefundsMade' = RefundsMade
  BY DEF TurnsKept, RefundsMade
<1>2. \A l \in RefundsMade : l \in Lots /\ refund'[l].seq = refund[l].seq
  BY DEF TurnsKept, RefundsMade
<1>3. ASSUME NEW l \in Lots, HasItsTurn(l)' PROVE NoneAhead(l)'
  <2>1. NoneAhead(l)
    BY <1>3 DEF TurnsKept, TurnsInv
  <2>2. QED
    BY <2>1 DEF TurnsKept, NoneAhead
<1>4. ASSUME NEW l \in Lots, seen'[l].stage # "idle" PROVE l \in RefundsMade'
  BY <1>1, <1>4 DEF TurnsKept, TurnsInv, RefundsMade, LiveRefund
<1>5. QED
  BY <1>1, <1>2, <1>3, <1>4 DEF TurnsInv

\* A refund written by its own operations.
LEMMA RefundStepKeepsTurns ==
    ASSUME LotsInv, NEW l \in Lots, NEW r \in RefundRow, NEW z \in SeenRow,
           refund' = [refund EXCEPT ![l] = r], seen' = [seen EXCEPT ![l] = z],
           r.seq = refund[l].seq,
           r.status = "NONE" <=> refund[l].status = "NONE",
           r.status \in LiveStatuses => refund[l].status \in LiveStatuses,
           r.status \in LiveStatuses /\ (r.correction # "NONE" \/ z.stage = "clear")
               => refund[l].correction # "NONE" \/ seen[l].stage = "clear" \/ NoneAhead(l),
           z.stage # "idle" => seen[l].stage # "idle" \/ refund[l].status \in LiveStatuses
    PROVE  TurnsKept
<1>1. /\ refund'[l] = r /\ seen'[l] = z
      /\ \A m \in Lots \ {l} : refund'[m] = refund[m] /\ seen'[m] = seen[m]
  BY DEF LotsInv, LotsFine, LotsTyped
<1>2. QED
  BY <1>1 DEF TurnsKept, HasItsTurn, LiveRefund, LiveStatuses

LEMMA RefundsKeepTurns ==
    ASSUME LotsInv, RefundsNext
    PROVE  TurnsKept
<1> PICK l \in Lots : \/ SelectRefund(l) \/ CheckMeter(l) \/ LinkCorrection(l)
                      \/ RequireProviderAction(l) \/ CorrectionReported(l)
                      \/ ReconcileNeedsAttention(l) \/ CompleteRefund(l)
                      \/ PrepareWooHold(l) \/ SettleWooReceipt(l)
  BY DEF RefundsNext
<1> DEFINE q == refund[l]
           w == seen[l]
<1>0. /\ q \in RefundRow /\ w \in SeenRow
      /\ refund = [refund EXCEPT ![l] = q] /\ seen = [seen EXCEPT ![l] = w]
      /\ lot[l].current \in Nat /\ lot[l].reserved \in Nat
  BY LotFacts
<1>z. NotSeen \in SeenRow /\ NotSeen.stage = "idle"
  BY DEF NotSeen, SeenRow
<1>1. CASE SelectRefund(l)
  <2> DEFINE z == [stage |-> "selected", current |-> lot[l].current,
                   reserved |-> lot[l].reserved]
  <2>1. z \in SeenRow /\ z.stage = "selected"
    BY <1>0 DEF SeenRow
  <2>2. /\ refund' = [refund EXCEPT ![l] = q] /\ seen' = [seen EXCEPT ![l] = z]
        /\ q.status \in LiveStatuses
    BY <1>0, <1>1 DEF SelectRefund, purchasedVars, Unlinked, LiveStatuses
  <2> HIDE DEF z
  <2>3. QED
    BY <1>0, <2>1, <2>2, RefundStepKeepsTurns
<1>2. CASE CheckMeter(l)
  <2> DEFINE z == IF MeterBusy(l) THEN NotSeen ELSE [w EXCEPT !.stage = "clear"]
  <2>1. /\ z \in SeenRow
        /\ z.stage = "clear" => ~MeterBusy(l)
    BY <1>0, <1>z DEF SeenRow
  <2>2. /\ refund' = [refund EXCEPT ![l] = q] /\ seen' = [seen EXCEPT ![l] = z]
        /\ w.stage # "idle"
    BY <1>0, <1>2 DEF CheckMeter, purchasedVars
  <2>3. ~MeterBusy(l) => NoneAhead(l)
    BY DEF MeterBusy, NoneAhead
  <2> HIDE DEF z
  <2>4. QED
    BY <1>0, <2>1, <2>2, <2>3, RefundStepKeepsTurns
<1>3. CASE LinkCorrection(l)
  <2> DEFINE r == IF Unlinked(l) THEN [q EXCEPT !.final = w.current, !.correction = "PENDING"]
                                 ELSE q
  <2>1. r \in RefundRow /\ r.seq = q.seq /\ r.status = q.status
    BY <1>0 DEF RefundRow, SeenRow, CorrectionStates
  <2>2. refund' = [refund EXCEPT ![l] = r] /\ seen' = [seen EXCEPT ![l] = NotSeen]
        /\ w.stage = "clear"
    BY <1>0, <1>3 DEF LinkCorrection
  <2> HIDE DEF r
  <2>3. QED
    BY <1>z, <2>1, <2>2, RefundStepKeepsTurns
<1>4. CASE RequireProviderAction(l)
  <2> DEFINE r == IF Unlinked(l)
                  THEN [q EXCEPT !.final = w.current, !.status = "PROVIDER_ACTION_REQUIRED"]
                  ELSE q
  <2>1. /\ r \in RefundRow /\ r.seq = q.seq /\ r.correction = q.correction
        /\ r.status = q.status \/ (r.status # "NONE" /\ q.status = "REQUESTED")
    BY <1>0 DEF RefundRow, SeenRow, RefundStatuses, Unlinked
  <2>2. refund' = [refund EXCEPT ![l] = r] /\ seen' = [seen EXCEPT ![l] = NotSeen]
    BY <1>0, <1>4 DEF RequireProviderAction
  <2> HIDE DEF r
  <2>3. QED
    BY <1>z, <2>1, <2>2, RefundStepKeepsTurns DEF LiveStatuses
<1>5. CASE CorrectionReported(l) \/ ReconcileNeedsAttention(l)
  <2>1. \E r \in RefundRow :
           /\ refund' = [refund EXCEPT ![l] = r] /\ r.seq = q.seq
           /\ r.status = q.status \/ (r.status # "NONE" /\ q.status = "REQUESTED")
           /\ r.correction # "NONE" => q.correction # "NONE"
    <3>1. ASSUME NEW outcome \in {"REPORTED", "NEEDS_ATTENTION"}, q.correction = "PENDING",
                 refund' = [refund EXCEPT ![l].correction = outcome]
          PROVE  refund' = [refund EXCEPT ![l] = [q EXCEPT !.correction = outcome]]
                   /\ [q EXCEPT !.correction = outcome] \in RefundRow
      BY <1>0, <3>1 DEF RefundRow, CorrectionStates, LotsInv, LotsFine, LotsTyped
    <3>2. [q EXCEPT !.status = "NEEDS_ATTENTION"] \in RefundRow
      BY <1>0 DEF RefundRow, RefundStatuses
    <3>3. ASSUME ReconcileNeedsAttention(l)
          PROVE  refund' = [refund EXCEPT ![l] = [q EXCEPT !.status = "NEEDS_ATTENTION"]]
                   /\ q.status = "REQUESTED"
      BY <3>3 DEF ReconcileNeedsAttention, LotsInv, LotsFine, LotsTyped
    <3>4. CASE CorrectionReported(l)
      BY <1>0, <3>1, <3>4 DEF CorrectionReported, RefundRow
    <3>5. CASE ReconcileNeedsAttention(l)
      BY <1>0, <3>2, <3>3, <3>5 DEF RefundRow
    <3>6. QED
      BY <1>5, <3>4, <3>5
  <2>2. seen' = [seen EXCEPT ![l] = w]
    BY <1>0, <1>5 DEF CorrectionReported, ReconcileNeedsAttention
  <2>3. PICK r \in RefundRow :
           /\ refund' = [refund EXCEPT ![l] = r] /\ r.seq = q.seq
           /\ r.status = q.status \/ (r.status # "NONE" /\ q.status = "REQUESTED")
           /\ r.correction # "NONE" => q.correction # "NONE"
    BY <2>1
  <2>4. /\ r.status = "NONE" <=> q.status = "NONE"
        /\ r.status \in LiveStatuses => q.status \in LiveStatuses
    BY <2>3 DEF LiveStatuses
  <2>5. QED
    BY <1>0, <2>2, <2>3, <2>4, RefundStepKeepsTurns
<1>6. CASE CompleteRefund(l) \/ PrepareWooHold(l) \/ SettleWooReceipt(l)
  <2>1. \E r \in RefundRow :
           /\ refund' = [refund EXCEPT ![l] = r] /\ r.seq = q.seq
           /\ r.status = q.status
              \/ (r.status # "NONE" /\ q.status \in {"REQUESTED", "PROVIDER_ACTION_REQUIRED"})
           /\ r.correction = q.correction
    <3>1. \E s \in {"COMPLETED", "NEEDS_ATTENTION", "PROVIDER_ACTION_REQUIRED"}, f \in Nat :
             /\ refund' = [refund EXCEPT ![l] = [q EXCEPT !.status = s, !.final = f]]
             /\ q.status \in {"REQUESTED", "PROVIDER_ACTION_REQUIRED"}
      <4>0. /\ q.final \in Nat /\ q = [q EXCEPT !.final = q.final]
            /\ refund \in [Lots -> RefundRow]
        BY <1>0 DEF RefundRow, LotsInv, LotsFine, LotsTyped
      <4>1. ASSUME NEW s, refund' = [refund EXCEPT ![l].status = s]
            PROVE  refund' = [refund EXCEPT ![l] = [q EXCEPT !.status = s, !.final = q.final]]
        BY <1>0, <4>0, <4>1 DEF RefundRow
      <4>2. CASE CompleteRefund(l)
        BY <4>0, <4>1, <4>2 DEF CompleteRefund, Refunded
      <4>3. CASE SettleWooReceipt(l)
        BY <4>0, <4>1, <4>3 DEF SettleWooReceipt, Refunded
      <4>4. ASSUME PrepareWooHold(l)
            PROVE  /\ q.status = "REQUESTED"
                   /\ \/ refund' = [refund EXCEPT ![l].status = "NEEDS_ATTENTION"]
                      \/ refund' = [refund EXCEPT ![l].status = "PROVIDER_ACTION_REQUIRED",
                                                  ![l].final = lot[l].current]
        BY <4>4 DEF PrepareWooHold, Unlinked
      <4>5. ASSUME refund' = [refund EXCEPT ![l].status = "PROVIDER_ACTION_REQUIRED",
                                            ![l].final = lot[l].current]
            PROVE  refund' = [refund EXCEPT ![l] =
                       [q EXCEPT !.status = "PROVIDER_ACTION_REQUIRED",
                                 !.final = lot[l].current]]
        BY <1>0, <4>0, <4>5
      <4>6. CASE PrepareWooHold(l)
        BY <1>0, <4>0, <4>1, <4>4, <4>5, <4>6
      <4>7. QED
        BY <1>6, <4>2, <4>3, <4>6
    <3>2. PICK s \in {"COMPLETED", "NEEDS_ATTENTION", "PROVIDER_ACTION_REQUIRED"}, f \in Nat :
             /\ refund' = [refund EXCEPT ![l] = [q EXCEPT !.status = s, !.final = f]]
             /\ q.status \in {"REQUESTED", "PROVIDER_ACTION_REQUIRED"}
      BY <3>1
    <3> DEFINE r == [q EXCEPT !.status = s, !.final = f]
    <3>3. r \in RefundRow /\ r.seq = q.seq /\ r.status = s /\ r.correction = q.correction
      BY <1>0 DEF RefundRow, RefundStatuses
    <3> HIDE DEF r
    <3>4. r.status # "NONE"
      BY <3>3
    <3>5. refund' = [refund EXCEPT ![l] = r]
      BY <3>2 DEF r
    <3>6. QED
      BY <3>2, <3>3, <3>4, <3>5
  <2>2. seen' = [seen EXCEPT ![l] = w]
    BY <1>0, <1>6 DEF CompleteRefund, PrepareWooHold, SettleWooReceipt, Refunded
  <2>3. PICK r \in RefundRow :
           /\ refund' = [refund EXCEPT ![l] = r] /\ r.seq = q.seq
           /\ r.status = q.status
              \/ (r.status # "NONE" /\ q.status \in {"REQUESTED", "PROVIDER_ACTION_REQUIRED"})
           /\ r.correction = q.correction
    BY <2>1
  <2>4. /\ r.status = "NONE" <=> q.status = "NONE"
        /\ r.status \in LiveStatuses => q.status \in LiveStatuses
    BY <2>3 DEF LiveStatuses
  <2>5. QED
    BY <1>0, <2>2, <2>3, <2>4, RefundStepKeepsTurns
<1>7. QED
  BY <1>1, <1>2, <1>3, <1>4, <1>5, <1>6

\* A purchased operation on a row moves a refund's status only, towards its end.
LEMMA RowsKeepTurns ==
    ASSUME LotsInv, PurchasedNext, UNCHANGED seen, ~\E l \in Lots : WithdrawLot(l)
    PROVE  TurnsKept
<1>0. LotsTyped /\ refund \in [Lots -> RefundRow]
  BY DEF LotsInv, LotsFine, LotsTyped
<1>1. CASE UNCHANGED refund
  BY <1>1 DEF TurnsKept, HasItsTurn, LiveRefund
<1>2. ASSUME NEW l, NEW s \in {"CANCELLED", "NEEDS_ATTENTION"},
             refund' = [refund EXCEPT ![l].status = s],
             LiveRefund(l)
      PROVE  TurnsKept
  <2>1. \A m \in Lots : /\ refund'[m].seq = refund[m].seq
                        /\ refund'[m].correction = refund[m].correction
                        /\ refund'[m].status = IF m = l THEN s ELSE refund[m].status
    BY <1>0, <1>2 DEF RefundRow
  <2>2. QED
    BY <1>2, <2>1 DEF TurnsKept, HasItsTurn, LiveRefund
<1>3. ASSUME NEW a \in Attempts, CommitPurchased(a) PROVE TurnsKept
  <2> DEFINE l == reservation[PlainKey(a)].unit
  <2>1. \/ UNCHANGED refund
        \/ /\ refund' = [refund EXCEPT ![l].status = "CANCELLED"]
           /\ refund[l].status \in {"REQUESTED", "PROVIDER_ACTION_REQUIRED"}
    BY <1>3 DEF CommitPurchased
  <2>2. QED
    BY <1>1, <1>2, <2>1 DEF LiveRefund
<1>4. ASSUME NEW a \in Attempts, CompensatePurchased(a) PROVE TurnsKept
  <2> DEFINE l == reservation[PlainKey(a)].unit
  <2>1. \/ UNCHANGED refund
        \/ /\ refund' = [refund EXCEPT ![l].status = "NEEDS_ATTENTION"]
           /\ FrozenRefund(l)
    BY <1>4 DEF CompensatePurchased
  <2>2. FrozenRefund(l) => LiveRefund(l)
    BY DEF FrozenRefund, LiveRefund
  <2>3. QED
    BY <1>1, <1>2, <2>1, <2>2
<1>5. QED
  BY <1>1, <1>3, <1>4
  DEF PurchasedNext, RequestPurchase, PurchaseReported, ActivatePurchase, ReservePurchased,
      ReleasePurchased, MarkPurchasedAmbiguous, purchasedVars

\* A new refund queues behind the others.
LEMMA WithdrawalQueues ==
    ASSUME LotsInv, TurnsInv, NEW l \in Lots, WithdrawLot(l), UNCHANGED seen
    PROVE  TurnsInv'
<1> DEFINE n == Cardinality(RefundsMade)
<1>1. IsFiniteSet(RefundsMade) /\ n \in Nat /\ l \notin RefundsMade
  <2>1. RefundsMade \subseteq Lots
    BY DEF RefundsMade
  <2>2. IsFiniteSet(RefundsMade)
    BY <2>1, PurchasedAssumption, FS_Subset
  <2>3. QED
    BY <2>2, FS_CardinalityType DEF WithdrawLot, RefundsMade
<1>2. /\ refund'[l].status = "REQUESTED" /\ refund'[l].seq = n
      /\ refund'[l].correction = "NONE"
      /\ \A m \in Lots \ {l} : refund'[m] = refund[m]
  BY DEF WithdrawLot, RefundsMade, NoRefund, LotsInv, LotsFine, LotsTyped
<1>3. RefundsMade' = RefundsMade \cup {l}
  BY <1>2 DEF RefundsMade
<1>4. Cardinality(RefundsMade)' = n + 1
  BY <1>1, <1>3, FS_AddElement
<1>5. \A m \in RefundsMade : m \in Lots \ {l} /\ refund[m].seq \in Nat /\ refund[m].seq < n
  BY <1>1 DEF TurnsInv, RefundsMade, LotsInv, LotsFine, LotsTyped, RefundRow
<1>6. ASSUME NEW m \in Lots, HasItsTurn(m)' PROVE NoneAhead(m)'
  <2>1. m # l
    <3>1. seen[l].stage = "idle"
      BY <1>1 DEF TurnsInv
    <3>2. QED
      BY <1>2, <1>6, <3>1 DEF HasItsTurn
  <2>2. HasItsTurn(m) /\ NoneAhead(m)
    BY <1>2, <1>6, <2>1 DEF HasItsTurn, LiveRefund, TurnsInv
  <2>3. m \in RefundsMade
    BY <2>2 DEF HasItsTurn, LiveRefund, RefundsMade
  <2>4. QED
    BY <1>1, <1>2, <1>5, <2>1, <2>2, <2>3 DEF NoneAhead, LiveRefund
<1>7. QED
  BY <1>1, <1>2, <1>3, <1>4, <1>5, <1>6 DEF TurnsInv

LEMMA TurnsStep ==
    ASSUME LotsInv, TurnsInv, [Next]_vars
    PROVE  TurnsInv'
<1>1. CASE UNCHANGED <<refund, seen>>
  BY <1>1 DEF TurnsInv, RefundsMade, HasItsTurn, LiveRefund, NoneAhead
<1>2. CASE Refunds
  BY <1>2, RefundsKeepTurns, TurnsFromKept DEF Refunds
<1>3. CASE Purchased
  BY <1>3, RowsKeepTurns, WithdrawalQueues, TurnsFromKept DEF Purchased
<1>4. QED
  BY <1>1, <1>2, <1>3 DEF Next, vars, purchasedVars, Free, Paid, Promotional

LEMMA TurnsInvariant == Spec => []TurnsInv
<1>1. Init => TurnsInv
  BY DEF Init, PurchasedInit, RefundsInit, NoRefund, NotSeen, TurnsInv, RefundsMade, HasItsTurn,
     LiveRefund
<1>2. LotsInv /\ TurnsInv /\ [Next]_vars => TurnsInv'
  BY TurnsStep
<1>3. QED
  BY <1>1, <1>2, LotsInvariant, PTL DEF Spec

(***************************************************************************)
(* Two corrections are never under way on the provider's meter, although   *)
(* the worker links the second one on what it read before, whatever other  *)
(* refunds were requested, cancelled or sent to review in between.         *)
(***************************************************************************)
THEOREM CorrectionsTakeTurns == Spec => []OneCorrectionOnMeter
<1>1. ASSUME LotsInv, TurnsInv PROVE OneCorrectionOnMeter
  <2>1. ASSUME NEW l \in Lots, NEW m \in Lots, LiveRefund(l), LiveRefund(m),
               refund[l].correction # "NONE", refund[m].correction # "NONE", l # m
        PROVE  FALSE
    <3>1. NoneAhead(l) /\ NoneAhead(m)
      BY <1>1, <2>1 DEF TurnsInv, HasItsTurn
    <3>2. ~(refund[l].seq < refund[m].seq) /\ ~(refund[m].seq < refund[l].seq)
      BY <2>1, <3>1 DEF NoneAhead
    <3>3. refund[l].seq \in Nat /\ refund[m].seq \in Nat
      BY <1>1 DEF LotsInv, LotsFine, LotsTyped, RefundRow
    <3>4. refund[l].seq # refund[m].seq
      BY <1>1, <2>1 DEF TurnsInv, RefundsMade, LiveRefund
    <3>5. QED
      BY <3>2, <3>3, <3>4
  <2>2. QED
    BY <2>1 DEF OneCorrectionOnMeter
<1>2. QED
  BY <1>1, LotsInvariant, TurnsInvariant, PTL

-----------------------------------------------------------------------------
(* The whole ledger.                                                       *)

\* The variables that no count depends on.
SwitchesTyped ==
    /\ ended \in BOOLEAN
    /\ campaign \in [Grants -> CampaignStates]
    /\ selected \in Grants \cup {None}

LEMMA SwitchesInvariant == Spec => []SwitchesTyped
<1>1. Init => SwitchesTyped
  BY DEF Init, PaidInit, PromotionalInit, SwitchesTyped, CampaignStates
<1>2. ASSUME SwitchesTyped, [Next]_vars PROVE SwitchesTyped'
  <2>1. CASE Paid
    <3>1. ended' \in BOOLEAN
      BY <1>2, <2>1 DEF Paid, PaidNext, ReservePaid, CommitPaid, ReleasePaid,
         MarkPaidAmbiguous, CompensatePaid, PeriodEnds, OpenFirstPeriod, Rollover,
         paidVars, SwitchesTyped
    <3>2. QED
      BY <1>2, <2>1, <3>1 DEF Paid, promotionalVars, SwitchesTyped
  <2>2. CASE Promotional
    <3>1. UNCHANGED <<campaign, selected>>
          \/ (\E g \in Grants : SelectGrant(g) \/ CampaignChanges(g))
          \/ ReleaseExpiredSelection
      BY <2>2 DEF Promotional, PromotionalNext, ReservePromotional, CommitPromotional,
         ReleasePromotional, MarkPromotionalAmbiguous, CompensatePromotional, promotionalVars
    <3>2. campaign' \in [Grants -> CampaignStates] /\ selected' \in Grants \cup {None}
      BY <1>2, <3>1 DEF SwitchesTyped, SelectGrant, CampaignChanges, ReleaseExpiredSelection
    <3>3. QED
      BY <1>2, <2>2, <3>2 DEF Promotional, paidVars, SwitchesTyped
  <2>3. CASE UNCHANGED <<paidVars, promotionalVars>>
    BY <1>2, <2>3 DEF paidVars, promotionalVars, SwitchesTyped
  <2>4. QED
    BY <1>2, <2>1, <2>2, <2>3 DEF Next, vars, Free, Purchased, Refunds
<1>3. QED
  BY <1>1, <1>2, PTL DEF Spec

\* The counter of the purchases splits into four natural numbers.
LEMMA PurchasedTyped == ASSUME LotsInv PROVE PurchasedTypeOK
<1>1. SizeOf \in Sizes
  BY SizesFine DEF LotsInv
<1>2. Pool("ACTIVE") \in Nat /\ Pool("WITHDRAWN") \in Nat
  BY <1>1, PoolAsCredits, CreditsFinite DEF InStatus
<1>3. /\ purchased.reserved \in Nat /\ purchased.committed \in Nat
      /\ purchased.refunding \in Nat /\ PurchasedAvailable \in Nat
  BY <1>2, CountsNatural DEF LotsInv, CounterOK
<1>4. purchased.granted \in Int
  BY CounterFacts
<1>5. purchased.granted \in Nat
  BY <1>3, <1>4 DEF PurchasedAvailable
<1>6. purchased \in [granted : Nat, reserved : Nat, committed : Nat, refunding : Nat]
  BY <1>3, <1>5 DEF LotsInv, CounterTyped
<1>7. QED
  BY <1>6 DEF LotsInv, LotsFine, LotsTyped, LotRow, RefundRow, PurchasedTypeOK

(***************************************************************************)
(* Type correctness of the ledger for every number of attempts, periods,   *)
(* purchases and grants.  In particular no counter of any source becomes   *)
(* negative, although the code moves them by increments and decrements.    *)
(***************************************************************************)
THEOREM LedgerTyped == Spec => []TypeOK
<1>1. ASSUME RowsInv, FreeInv, PaidInv, PromotionalInv, LotsInv, SwitchesTyped
      PROVE  TypeOK
  <2>1. ReservationsTypeOK /\ FreeTypeOK
    BY <1>1 DEF RowsInv, FreeInv
  <2>2. PaidTypeOK
    BY <1>1 DEF PaidInv, PeriodCounters, SwitchesTyped, PaidTypeOK
  <2>3. PurchasedTypeOK
    BY <1>1, PurchasedTyped
  <2>4. RefundsTypeOK
    BY <1>1 DEF LotsInv, LotsFine, LotsTyped, SeenRow, RefundsTypeOK
  <2>5. PromotionalTypeOK
    BY <1>1 DEF PromotionalInv, SwitchesTyped, PromotionalTypeOK
  <2>6. QED
    BY <2>1, <2>2, <2>3, <2>4, <2>5 DEF TypeOK
<1>2. QED
  BY <1>1, RowsInvariant, FreeInvariant, PaidInvariant, PromotionalInvariant,
     LotsInvariant, SwitchesInvariant, PTL

\* The counters of all four sources together, as the reserve, commit, release
\* and compensation transactions leave them: exact, and never beyond a grant.
THEOREM EveryCreditAccounted == Spec => []CreditsAccounted
<1>1. /\ FreeReconciled /\ FreeNeverOverdrawn
      /\ PaidReconciled
      /\ PurchasedReconciled /\ LotsReconciled
      /\ PromotionalReconciled /\ GrantNeverOverdrawn
      => CreditsAccounted
  BY DEF CreditsAccounted
<1>2. QED
  BY <1>1, FreeCounterExact, FreeCreditsBounded, PaidCountersExact, PurchasedRowsCounted,
     CounterFollowsLots, PromotionalGrantsReconciled, PromotionalGrantsBounded, PTL

\* What compensation and refund rely on: the lot of a row can answer for it.
THEOREM LotsAlwaysBackRows == Spec => []LotsBackRows
<1>1. HeldOnLiveLots /\ ChargesReversible /\ RefundFollowsLot => LotsBackRows
  BY DEF LotsBackRows
<1>2. QED
  BY <1>1, NothingHeldOnFinishedLots, EveryChargeReversible, RefundsFollowLots, PTL

\* The close of a period (closeBillingPeriod) is always accepted, and final.
THEOREM PeriodsAlwaysClose == Spec => []PeriodsClose
<1>1. RolloverNeverRefused /\ ClosedPeriodSettled => PeriodsClose
  BY DEF PeriodsClose
<1>2. QED
  BY <1>1, CloseNeverRefused, ClosedPeriodsStaySettled, PTL

\* No step of any source reopens a charged row or gives up an uncertain one
\* (reservation-lifecycle).
THEOREM RowsAreFinal == Spec => RowsSettleForGood
<1>1. ChargedForGood /\ AmbiguousKeepsCredit => RowsSettleForGood
  BY DEF RowsSettleForGood
<1>2. QED
  BY <1>1, ChargesAreFinal, AmbiguousRowsKept
=============================================================================
