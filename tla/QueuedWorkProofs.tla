-------------------------- MODULE QueuedWorkProofs --------------------------
(***************************************************************************)
(* Work that waits in a queue: proofs about the resumption of blocked      *)
(* recoveries, the pending candidates of a checkout, the batches of        *)
(* translations, and the four components of the queue beside each other.   *)
(***************************************************************************)
EXTENDS MCQueuedWork, FollowUpProofs, FiniteSetTheorems, TLAPS

-----------------------------------------------------------------------------
(* Finite sets of numbers.                                                 *)

Smallest(F) == \E T \in F : \A U \in F : U \subseteq T => U = T

\* A family of subsets of a finite set has a smallest one.
LEMMA SmallestSubset ==
  ASSUME NEW S, IsFiniteSet(S), NEW F, \A U \in F : U \subseteq S, NEW T0 \in F
  PROVE  Smallest(F)
<1>1. IsWellFoundedOn(StrictSubsetOrdering(S), SUBSET S)
  BY FS_StrictSubsetOrderingWellFounded, FS_FiniteSubsetsOfFinite
<1>0. F \subseteq SUBSET S /\ F # {}
  OBVIOUS
<1>2. PICK T \in F : \A U \in F : <<U, T>> \notin StrictSubsetOrdering(S)
  BY <1>0, <1>1, WFMin
<1>3. ASSUME NEW U \in F, U \subseteq T PROVE U = T
  BY <1>2, <1>3 DEF StrictSubsetOrdering
<1> QED  BY <1>3 DEF Smallest

\* A finite set of numbers has a greatest element.
LEMMA GreatestElement ==
  ASSUME NEW S, IsFiniteSet(S), S \subseteq Nat, S # {}
  PROVE  \E m \in S : \A k \in S : k <= m
<1> DEFINE Above(m) == {k \in S : m <= k}
           F == {Above(m) : m \in S}
<1>0. (\A U \in F : U \subseteq S) /\ \E T0 : T0 \in F
  OBVIOUS
<1>1. Smallest(F)
  <2> HIDE DEF F
  <2> QED  BY <1>0, SmallestSubset
<1>2a. PICK T \in F : \A U \in F : U \subseteq T => U = T
  BY <1>1 DEF Smallest
<1>2. PICK m \in S : T = Above(m)
  OBVIOUS
<1>3. ASSUME NEW k \in S PROVE k <= m
  <2> SUFFICES ASSUME m < k PROVE FALSE
    OBVIOUS
  <2>0. m \in Nat /\ k \in Nat
    OBVIOUS
  <2>1. Above(k) \subseteq T
    <3> SUFFICES ASSUME NEW y \in S, k <= y PROVE m <= y
      BY <1>2
    <3> QED  BY <2>0
  <2>2. Above(k) = T
    BY <1>2, <1>2a, <2>1
  <2>3. m \in Above(k)
    BY <1>2, <2>0, <2>2
  <2> QED  BY <2>0, <2>3
<1> QED  BY <1>3

\* The elements of a finite set of numbers can be enumerated in their order.
LEMMA Enumeration ==
  ASSUME NEW S, IsFiniteSet(S), S \subseteq Nat
  PROVE  \E q \in [1 .. Cardinality(S) -> S] :
           \A i, j \in 1 .. Cardinality(S) : i < j => q[i] < q[j]
<1> DEFINE In(q, T) == q \in [1 .. Cardinality(T) -> T]
           Ordered_(q, T) == \A i, j \in 1 .. Cardinality(T) : i < j => q[i] < q[j]
           Listed(T) == \E q : In(q, T) /\ Ordered_(q, T)
           F == {T \in SUBSET S : ~Listed(T)}
<1>1. CASE F = {}
  BY <1>1
<1>2. ASSUME F # {} PROVE FALSE
  <2>0. Smallest(F)
    <3> HIDE DEF Listed
    <3>1. \A U \in F : U \subseteq S
      OBVIOUS
    <3> HIDE DEF F
    <3> QED  BY <1>2, <3>1, SmallestSubset
  <2>1. PICK T \in F : \A U \in F : U \subseteq T => U = T
    BY <2>0 DEF Smallest
  <2> HIDE DEF F
  <2>2. T \in SUBSET S /\ ~Listed(T)
    BY DEF F
  <2>3. IsFiniteSet(T) /\ Cardinality(T) \in Nat /\ T \subseteq Nat
    BY <2>2, FS_Subset, FS_CardinalityType
  <2>4. CASE T = {}
    <3>1. Cardinality(T) = 0
      BY <2>4, FS_EmptySet
    <3>2. In([i \in 1 .. 0 |-> 0], T) /\ Ordered_([i \in 1 .. 0 |-> 0], T)
      BY <3>1
    <3> QED  BY <2>2, <3>2
  <2>5. CASE T # {}
    <3>1. PICK m \in T : \A k \in T : k <= m
      BY <2>3, <2>5, GreatestElement
    <3> DEFINE n == Cardinality(T)  U == T \ {m}
    <3>2. Cardinality(U) = n - 1 /\ U # T /\ U \subseteq T /\ U \subseteq S
      BY <2>2, <2>3, FS_RemoveElement
    <3>3. Listed(U)
      BY <2>1, <3>2 DEF F
    <3>4. PICK q : In(q, U) /\ Ordered_(q, U)
      BY <3>3
    <3> DEFINE p == [i \in 1 .. n |-> IF i = n THEN m ELSE q[i]]
    <3>5. n \in Nat /\ n # 0 /\ n - 1 \in Nat
      BY <2>3, <2>5, FS_EmptySet
    <3>6. \A i \in 1 .. n : i # n => i \in 1 .. (n - 1) /\ q[i] \in U
      <4>1. q \in [1 .. (n - 1) -> U]
        BY <3>2, <3>4
      <4> HIDE DEF n, U
      <4> QED  BY <3>5, <4>1
    <3>7. In(p, T)
      BY <3>1, <3>6
    <3>8. ASSUME NEW i \in 1 .. n, NEW j \in 1 .. n, i < j PROVE p[i] < p[j]
      <4>0. i # n
        BY <3>5, <3>8
      <4>1. q[i] \in U /\ q[i] \in Nat /\ q[i] <= m /\ q[i] # m /\ m \in Nat
        BY <2>3, <3>1, <3>6, <4>0
      <4>2. CASE j = n
        BY <4>0, <4>1, <4>2
      <4>3. CASE j # n
        BY <3>2, <3>4, <3>6, <3>8, <4>0, <4>3
      <4> QED  BY <4>2, <4>3
    <3> HIDE DEF p
    <3>9. Ordered_(p, T)
      BY <3>8
    <3> QED  BY <2>2, <3>7, <3>9
  <2> QED  BY <2>4, <2>5
<1> QED  BY <1>1, <1>2

-----------------------------------------------------------------------------
(* The resumption of blocked recoveries: rows, jobs and workers.           *)

DueTimes == 0 .. ResumeHorizon + 1
ResumePhases == {"idle", "next", "lookup", "consent", "suppression", "mark", "gate", "admit", "after", "done"}
WithRecovery == {"lookup", "consent", "suppression", "mark", "gate", "admit", "after"}
ResumeRow == [status : ResumeStatuses, block : Blocks, activity : RTimes]
ResumeJob == [shop : Shops \cup {0}, recovery : Resumable \cup {0}, trigger : Triggers,
              due : DueTimes, failed : BOOLEAN]
ResumerRow == [phase : ResumePhases, job : ResumeJob, batch : Seq(Resumable),
               attempted : Nat, last : Resumable \cup {0}, fresh : BOOLEAN]

\* A job names its recovery in its trigger, belongs to the shop of that recovery, and waits for the time that its
\* trigger tells.
ResumeJobFine(j) ==
    /\ j \in ResumeJob /\ j.shop \in Shops
    /\ Target(j) => j.shop = ShopOf[j.recovery]
    /\ j.trigger[1] \in {"until", "update", "maturity"} => j.recovery = j.trigger[2]
    /\ j.trigger[1] = "until" => j.due = j.trigger[3]
    /\ j.trigger[1] = "maturity" => j.due = j.trigger[3] + 1

\* A worker runs a job that was due, and one recovery when the job names one.
ResumerFine(x, time) ==
    /\ x.phase # "idle" => ResumeJobFine(x.job) /\ x.job.due <= time
    /\ x.phase \in WithRecovery => x.batch # <<>>
    /\ x.phase # "idle" /\ Target(x.job) => x.batch = <<>> \/ x.batch = <<x.job.recovery>>

ResumeRows ==
    /\ rclock \in RTimes /\ moves \in 0 .. MaxMoves /\ rfaults \subseteq ResumeFaults
    /\ row \in [Resumable -> ResumeRow] /\ suppress \in [Resumable -> RTimes]
    /\ refusal \in [Resumable -> Refusals]
    /\ credit \in [Shops -> 0 .. MaxCredit] /\ eligible \in [Shops -> BOOLEAN]

ResumeJobs == \A j \in queue : ResumeJobFine(j)

ResumeWorkers ==
    /\ resumer \in [Resumers -> ResumerRow]
    /\ \A w \in Resumers : ResumerFine(resumer[w], rclock)

\* The worker is still to look at r for a job that names it, or is about to
\* mark a row it has read.
OwesRow(x, r) ==
    /\ x.phase \notin {"idle", "after", "done"} /\ x.job.recovery = r /\ x.batch # <<>>
    /\ x.phase = "mark" => x.fresh

Settled(r) == ~eligible[ShopOf[r]] \/ row[r].status # "DETECTED" \/ refusal[r] # "none"
Queued(r) == \E j \in queue : j.recovery = r
WillWake(r) == Settled(r) \/ Queued(r) \/ \E v \in Resumers : OwesRow(resumer[v], r)

\* Whoever is about to mark r, and may, leaves somebody who will wake it.
Woken ==
    \A w \in Resumers :
      resumer[w].phase = "mark" /\ resumer[w].fresh => WillWake(Head(resumer[w].batch))

\* What has been refused is no longer as if it never had been.
RefusalsStay == \A r \in Resumable : refusal[r] # "none" => refusal'[r] # "none"

ResumeInv == ResumeRows /\ ResumeJobs /\ ResumeWorkers /\ BlockedIsDetected /\ Woken

LEMMA ResumeTimes ==
    /\ RTimes \subseteq Nat /\ RTimes \subseteq DueTimes /\ DueTimes \subseteq Nat /\ 0 \in RTimes
    /\ \A t \in RTimes : t + 1 \in DueTimes
    /\ \A t \in RTimes : t < ResumeHorizon => t + 1 \in RTimes
    /\ Resumable \subseteq Nat /\ 0 \notin Resumable /\ ShopOf \in [Resumable -> Shops]
    /\ IsFiniteSet(Resumable)
BY ResumeAssumption DEF RTimes, DueTimes

\* What a trigger may be.
LEMMA TriggerTyped ==
    ASSUME NEW k \in TriggerKinds, NEW r \in Resumable \cup {0}, NEW t \in RTimes
    PROVE  /\ <<k, r, t>> \in Triggers
           /\ <<k, r, t>>[1] = k /\ <<k, r, t>>[2] = r /\ <<k, r, t>>[3] = t
BY DEF Triggers

LEMMA TriggerParts ==
    ASSUME NEW t \in Triggers
    PROVE  t[1] \in TriggerKinds /\ t[2] \in Resumable \cup {0} /\ t[3] \in RTimes
BY DEF Triggers

LEMMA ResumeJobTyped ==
    ASSUME NEW s \in Shops \cup {0}, NEW r \in Resumable \cup {0}, NEW t \in Triggers, NEW d \in DueTimes
    PROVE  /\ JobOf(s, r, t, d) \in ResumeJob
           /\ JobOf(s, r, t, d).shop = s /\ JobOf(s, r, t, d).recovery = r
           /\ JobOf(s, r, t, d).trigger = t /\ JobOf(s, r, t, d).due = d
BY DEF JobOf, ResumeJob

\* The jobs of a shop.
LEMMA ShopJobFine ==
    ASSUME NEW s \in Shops, NEW k \in {"repair", "purchase", "continuation"}, NEW r \in Resumable \cup {0}
    PROVE  ResumeJobFine(JobOf(s, 0, <<k, r, 0>>, 0)) /\ ~Target(JobOf(s, 0, <<k, r, 0>>, 0))
<1>1. k \in TriggerKinds /\ 0 \in RTimes /\ 0 \in DueTimes
  BY ResumeTimes DEF TriggerKinds
<1>2. <<k, r, 0>> \in Triggers /\ <<k, r, 0>>[1] = k
  BY <1>1, TriggerTyped
<1>3. k \notin {"until", "update", "maturity"}
  OBVIOUS
<1> QED  BY <1>1, <1>2, <1>3, ResumeJobTyped DEF ResumeJobFine, Target

\* The jobs of a recovery.
LEMMA WakeJobFine ==
    ASSUME NEW r \in Resumable, NEW k \in {"until", "update", "maturity"}, NEW t \in RTimes,
           NEW d \in DueTimes, k = "until" => d = t, k = "maturity" => d = t + 1
    PROVE  ResumeJobFine(JobOf(ShopOf[r], r, <<k, r, t>>, d)) /\ JobOf(ShopOf[r], r, <<k, r, t>>, d).recovery = r
<1>1. k \in TriggerKinds /\ ShopOf[r] \in Shops
  BY ResumeTimes DEF TriggerKinds
<1>2. <<k, r, t>> \in Triggers /\ <<k, r, t>>[1] = k /\ <<k, r, t>>[2] = r /\ <<k, r, t>>[3] = t
  BY <1>1, TriggerTyped
<1> DEFINE j == JobOf(ShopOf[r], r, <<k, r, t>>, d)
<1>3. /\ j \in ResumeJob /\ j.shop = ShopOf[r] /\ j.recovery = r
      /\ j.trigger = <<k, r, t>> /\ j.due = d
  BY <1>1, <1>2, ResumeJobTyped
<1> HIDE DEF j
<1>4. ResumeJobFine(j)
  BY <1>1, <1>2, <1>3 DEF ResumeJobFine
<1> QED  BY <1>3, <1>4 DEF j

-----------------------------------------------------------------------------
(* What a step does to a worker.                                           *)

LEMMA ResumerFields ==
    ASSUME NEW x \in ResumerRow
    PROVE  /\ x.phase \in ResumePhases /\ x.job \in ResumeJob /\ x.batch \in Seq(Resumable)
           /\ x.attempted \in Nat /\ x.last \in Resumable \cup {0} /\ x.fresh \in BOOLEAN
BY DEF ResumerRow

LEMMA JobFields ==
    ASSUME NEW j \in ResumeJob
    PROVE  /\ j.shop \in Shops \cup {0} /\ j.recovery \in Resumable \cup {0} /\ j.trigger \in Triggers
           /\ j.due \in DueTimes /\ j.failed \in BOOLEAN
BY DEF ResumeJob

LEMMA NobodyFine ==
    /\ Nobody \in ResumerRow /\ Nobody.phase = "idle"
    /\ \A time : ResumerFine(Nobody, time)
    /\ \A r : ~OwesRow(Nobody, r)
<1>1. Trigger("repair") \in Triggers
  BY TriggerTyped, ResumeTimes DEF Trigger, TriggerKinds
<1>2. JobOf(0, 0, Trigger("repair"), 0) \in ResumeJob
  BY <1>1, ResumeJobTyped, ResumeTimes
<1>3. <<>> \in Seq(Resumable)
  OBVIOUS
<1>4. Nobody \in ResumerRow /\ Nobody.phase = "idle"
  BY <1>2, <1>3 DEF Nobody, ResumerRow, ResumePhases
<1> QED  BY <1>4 DEF ResumerFine, OwesRow, WithRecovery

LEMMA FreshTyped ==
    ASSUME NEW x \in ResumerRow, NEW b \in BOOLEAN
    PROVE  LET y == [x EXCEPT !.fresh = b] IN
           /\ y \in ResumerRow /\ y.phase = x.phase /\ y.job = x.job /\ y.batch = x.batch /\ y.fresh = b
BY DEF ResumerRow

LEMMA PhaseTyped ==
    ASSUME NEW x \in ResumerRow, NEW p \in ResumePhases
    PROVE  LET y == [x EXCEPT !.phase = p] IN
           /\ y \in ResumerRow /\ y.phase = p /\ y.job = x.job /\ y.batch = x.batch /\ y.fresh = x.fresh
BY DEF ResumerRow

\* A worker goes on with the recovery it has.
LEMMA PhaseFine ==
    ASSUME NEW x \in ResumerRow, NEW time, ResumerFine(x, time), x.phase # "idle",
           NEW y, y.phase \in ResumePhases \ {"idle"}, y.job = x.job, y.batch = x.batch,
           y.phase \in WithRecovery => x.batch # <<>>
    PROVE  ResumerFine(y, time)
BY DEF ResumerFine

\* The recovery at the head of the batch is dealt with.
Next_(x) == [x EXCEPT !.phase = "next", !.batch = Tail(x.batch), !.attempted = @ + 1,
                      !.last = Head(x.batch), !.fresh = TRUE]

LEMMA HeadIsRecovery ==
    ASSUME NEW b \in Seq(Resumable), b # <<>>
    PROVE  Head(b) \in Resumable /\ Tail(b) \in Seq(Resumable)
OBVIOUS

LEMMA NextFine ==
    ASSUME NEW x \in ResumerRow, NEW time, ResumerFine(x, time), x.phase # "idle", x.batch # <<>>
    PROVE  /\ Next_(x) \in ResumerRow /\ ResumerFine(Next_(x), time)
           /\ Next_(x).phase = "next" /\ Next_(x).job = x.job
<1>1. Head(x.batch) \in Resumable /\ Tail(x.batch) \in Seq(Resumable) /\ x.attempted + 1 \in Nat
  BY HeadIsRecovery, ResumerFields
<1> DEFINE y == Next_(x)
<1>2. /\ y \in ResumerRow /\ y.phase = "next" /\ y.job = x.job /\ y.batch = Tail(x.batch)
  BY <1>1 DEF Next_, ResumerRow, ResumePhases
<1>3. ASSUME NEW r, x.batch = <<r>> PROVE Tail(x.batch) = <<>>
  BY <1>3
<1> HIDE DEF y
<1>4. ResumerFine(y, time)
  BY <1>2, <1>3 DEF ResumerFine, WithRecovery
<1> QED  BY <1>2, <1>4 DEF y

\* A worker that owes a recovery holds it alone, for its shop.
LEMMA OwedAlone ==
    ASSUME NEW x \in ResumerRow, NEW time, ResumerFine(x, time), NEW r \in Resumable, OwesRow(x, r)
    PROVE  /\ x.batch = <<r>> /\ Head(x.batch) = r /\ Target(x.job) /\ x.job.shop = ShopOf[r]
           /\ x.phase # "idle" /\ x.phase # "done" /\ x.phase # "after"
<1>1. r # 0
  BY ResumeTimes
<1>2. Target(x.job) /\ x.phase \notin {"idle", "after", "done"} /\ x.job.recovery = r /\ x.batch # <<>>
  BY <1>1 DEF OwesRow, Target
<1>3. x.batch = <<r>> /\ ResumeJobFine(x.job)
  BY <1>2 DEF ResumerFine
<1> QED  BY <1>2, <1>3 DEF ResumeJobFine

\* What a write of r0 makes of the workers that have read its row.
LEMMA TouchedWorkers ==
    ASSUME NEW new \in [Resumers -> ResumerRow], NEW r0, NEW u \in Resumers
    PROVE  LET x == new[u]  y == Touched(new, r0)[u] IN
           /\ y \in ResumerRow /\ y.phase = x.phase /\ y.job = x.job /\ y.batch = x.batch
           /\ y.fresh => x.fresh
           /\ x.phase = "mark" /\ Head(x.batch) = r0 => ~y.fresh
           /\ x.phase # "mark" \/ Head(x.batch) # r0 => y = x
           /\ \A time : ResumerFine(x, time) => ResumerFine(y, time)
<1> DEFINE x == new[u]  y == Touched(new, r0)[u]
<1>0. x \in ResumerRow
  OBVIOUS
<1>1. y = IF x.phase = "mark" /\ Head(x.batch) = r0 THEN [x EXCEPT !.fresh = FALSE] ELSE x
  BY DEF Touched
<1> HIDE DEF x, y
<1>2. CASE x.phase = "mark" /\ Head(x.batch) = r0
  <2>1. y = [x EXCEPT !.fresh = FALSE]
    BY <1>1, <1>2
  <2>2. y \in ResumerRow /\ y.phase = x.phase /\ y.job = x.job /\ y.batch = x.batch /\ y.fresh = FALSE
    BY <1>0, <2>1, FreshTyped
  <2>3. \A time : ResumerFine(x, time) => ResumerFine(y, time)
    BY <2>2 DEF ResumerFine
  <2> QED  BY <1>2, <2>2, <2>3 DEF x, y
<1>3. CASE ~(x.phase = "mark" /\ Head(x.batch) = r0)
  <2>1. y = x
    BY <1>1, <1>3
  <2> QED  BY <1>0, <1>3, <2>1 DEF x, y
<1> QED  BY <1>2, <1>3

\* A step that writes no row touches nobody.
LEMMA NobodyTouched ==
    ASSUME NEW new \in [Resumers -> ResumerRow], NEW time, \A u \in Resumers : ResumerFine(new[u], time)
    PROVE  Touched(new, 0) = new
<1>1. ASSUME NEW u \in Resumers, new[u].phase = "mark" PROVE Head(new[u].batch) # 0
  <2>1. new[u].batch # <<>> /\ new[u].batch \in Seq(Resumable)
    BY <1>1, ResumerFields DEF ResumerFine, WithRecovery
  <2> QED  BY <2>1, HeadIsRecovery, ResumeTimes
<1>2. Touched(new, 0) = [u \in Resumers |-> new[u]]
  BY <1>1 DEF Touched
<1> QED  BY <1>2

-----------------------------------------------------------------------------
(* What a step does to the rows and to the queue.                          *)

\* The rows stay rows; a recovery that is over is not detected again; only a detected one is blocked.
RowsMove ==
    /\ row' \in [Resumable -> ResumeRow] /\ BlockedIsDetected'
    /\ \A r \in Resumable : row[r].status # "DETECTED" => row'[r].status # "DETECTED"

LEMMA RowFields ==
    ASSUME NEW q \in ResumeRow
    PROVE  q.status \in ResumeStatuses /\ q.block \in Blocks /\ q.activity \in RTimes
BY DEF ResumeRow

LEMMA RowsRest ==
    ASSUME row \in [Resumable -> ResumeRow], BlockedIsDetected, row' = row
    PROVE  RowsMove
BY DEF RowsMove, BlockedIsDetected

LEMMA RowWritten ==
    ASSUME row \in [Resumable -> ResumeRow], BlockedIsDetected,
           NEW r0 \in Resumable, NEW q \in ResumeRow, row' = [row EXCEPT ![r0] = q],
           q.block # "none" => q.status = "DETECTED",
           row[r0].status # "DETECTED" => q.status # "DETECTED"
    PROVE  RowsMove
<1>1. row' \in [Resumable -> ResumeRow]
  OBVIOUS
<1>2. ASSUME NEW r \in Resumable PROVE row'[r] = IF r = r0 THEN q ELSE row[r]
  OBVIOUS
<1>3. BlockedIsDetected'
  BY <1>2 DEF BlockedIsDetected
<1> QED  BY <1>1, <1>2, <1>3 DEF RowsMove

LEMMA RunningDue ==
    ASSUME ResumeWorkers, NEW i \in Running
    PROVE  ResumeJobFine(i) /\ i.due <= rclock
BY DEF ResumeWorkers, Running, ResumerFine

\* schedule loses no job, and makes none that is not fine.
LEMMA ScheduleAdds ==
    ASSUME ResumeJobs, NEW j, ResumeJobFine(j), Schedule(j)
    PROVE  /\ queue \subseteq queue' /\ ResumeJobs'
           /\ (\E i \in queue' : SameId(i, j)) \/ (\E i \in Running : SameId(i, j))
BY DEF Schedule, ResumeJobs, SameId

\* A wake-up whose time is to come is in the queue after it has been scheduled: a job of its name cannot be running.
LEMMA WakeScheduled ==
    ASSUME ResumeJobs, ResumeWorkers, NEW r \in Resumable, NEW k \in {"until", "maturity"}, NEW t \in RTimes,
           NEW d \in DueTimes, k = "until" => d = t, k = "maturity" => d = t + 1, rclock \in Nat, rclock < d,
           Schedule(JobOf(ShopOf[r], r, <<k, r, t>>, d))
    PROVE  queue \subseteq queue' /\ ResumeJobs' /\ Queued(r)'
<1> DEFINE j == JobOf(ShopOf[r], r, <<k, r, t>>, d)
<1>1. ResumeJobFine(j) /\ j.recovery = r
  BY WakeJobFine
<1>2. j.trigger = <<k, r, t>> /\ <<k, r, t>>[1] = k /\ <<k, r, t>>[2] = r /\ <<k, r, t>>[3] = t
  BY DEF JobOf
<1>3. Schedule(j)
  OBVIOUS
<1> HIDE DEF j
<1>4. queue \subseteq queue' /\ ResumeJobs'
  BY <1>1, <1>3, ScheduleAdds
<1>5. ASSUME NEW i, ResumeJobFine(i), SameId(i, j) PROVE i.recovery = r /\ i.due = d
  <2>1. i.trigger[1] = k /\ i.trigger[2] = r /\ i.trigger[3] = t
    BY <1>2, <1>5 DEF SameId
  <2> QED  BY <1>5, <2>1 DEF ResumeJobFine
<1>6. ASSUME NEW i \in Running PROVE ~SameId(i, j)
  <2>1. ResumeJobFine(i) /\ i.due <= rclock /\ i.due \in Nat
    BY RunningDue, JobFields, ResumeTimes DEF ResumeJobFine
  <2>2. d \in Nat
    BY ResumeTimes
  <2> QED  BY <1>5, <2>1, <2>2
<1>7. PICK i \in queue' : SameId(i, j)
  BY <1>1, <1>3, <1>6, ScheduleAdds
<1>8. ResumeJobFine(i)
  BY <1>4 DEF ResumeJobs
<1> QED  BY <1>4, <1>5, <1>7, <1>8 DEF Queued

-----------------------------------------------------------------------------
(* Woken is kept.                                                          *)

\* A step makes new of the workers and writes r0 (0: no row). No job of a recovery is lost from the queue or from a worker
\* but to a worker that goes on with it, or because it is settled; and a worker gets ready to mark a row only with a
\* wake-up in the queue.
LEMMA WokenKept ==
    ASSUME ResumeInv, NEW new \in [Resumers -> ResumerRow], NEW r0 \in Resumable \cup {0},
           NEW time, \A u \in Resumers : ResumerFine(new[u], time),
           resumer' = Touched(new, r0), RowsMove,
           \A s \in Shops : eligible'[s] => eligible[s], RefusalsStay,
           \A u \in Resumers : \A r \in Resumable : r # r0 /\ OwesRow(resumer[u], r) =>
             Settled(r)' \/ Queued(r)' \/ OwesRow(new[u], r),
           \A j \in queue : j \in queue'
             \/ (\A r \in Resumable : j.recovery = r => Settled(r)' \/ \E u \in Resumers : OwesRow(new[u], r)),
           \A u \in Resumers : new[u].phase = "mark" /\ new[u].fresh =>
             \/ resumer[u].phase = "mark" /\ resumer[u].fresh /\ resumer[u].batch = new[u].batch
             \/ Queued(Head(new[u].batch))'
    PROVE  Woken'
<1> SUFFICES ASSUME NEW w \in Resumers, resumer'[w].phase = "mark", resumer'[w].fresh
             PROVE  WillWake(Head(resumer[w].batch))'
  BY DEF Woken
<1> DEFINE r == Head(new[w].batch)
<1>1. /\ new[w].phase = "mark" /\ new[w].fresh /\ r # r0 /\ resumer'[w].batch = new[w].batch
  BY TouchedWorkers
<1>2. r \in Resumable
  <2>1. new[w].batch # <<>> /\ new[w].batch \in Seq(Resumable)
    BY <1>1, ResumerFields DEF ResumerFine, WithRecovery
  <2> QED  BY <2>1, HeadIsRecovery
<1>3. Head(resumer[w].batch)' = r
  BY <1>1
<1> HIDE DEF r
<1>4. Queued(r)' => WillWake(r)'
  BY DEF WillWake
<1>5. Settled(r)' => WillWake(r)'
  BY DEF WillWake
<1>6. ASSUME NEW u \in Resumers, OwesRow(new[u], r) PROVE WillWake(r)'
  <2>1. Head(new[u].batch) = r
    BY <1>2, <1>6, OwedAlone
  <2>2. resumer'[u] = new[u]
    BY <1>1, <2>1, TouchedWorkers
  <2> QED  BY <1>6, <2>2 DEF WillWake
<1>7. CASE Queued(r)'
  BY <1>3, <1>4, <1>7
<1>8. CASE resumer[w].phase = "mark" /\ resumer[w].fresh /\ resumer[w].batch = new[w].batch
  <2>1. WillWake(r)
    BY <1>8 DEF ResumeInv, Woken, r
  <2>2. CASE Settled(r)
    <3>1. Settled(r)'
      BY <1>2, <2>2, ResumeTimes DEF Settled, RowsMove, RefusalsStay
    <3> QED  BY <1>3, <1>5, <3>1
  <2>3. CASE Queued(r)
    <3>1. PICK j \in queue : j.recovery = r
      BY <2>3 DEF Queued
    <3>2. j \in queue' => Queued(r)'
      BY <3>1 DEF Queued
    <3> QED  BY <1>2, <1>3, <1>4, <1>5, <1>6, <3>1, <3>2
  <2>4. ASSUME NEW u \in Resumers, OwesRow(resumer[u], r) PROVE WillWake(r)'
    BY <1>1, <1>2, <1>4, <1>5, <1>6, <2>4
  <2> QED  BY <1>3, <2>1, <2>2, <2>3, <2>4 DEF WillWake
<1> QED  BY <1>1, <1>3, <1>7, <1>8 DEF r

\* The step of a worker that loses no job.
LEMMA WorkerMoves ==
    ASSUME ResumeInv, NEW v \in Resumers, NEW y \in ResumerRow, ResumerFine(y, rclock),
           NEW r0 \in Resumable \cup {0}, resumer' = Touched([resumer EXCEPT ![v] = y], r0),
           RowsMove, ResumeRows', rclock' = rclock, eligible' = eligible /\ refusal' = refusal,
           queue \subseteq queue', ResumeJobs',
           \A r \in Resumable : r # r0 /\ OwesRow(resumer[v], r) =>
             Settled(r)' \/ Queued(r)' \/ OwesRow(y, r),
           y.phase = "mark" /\ y.fresh =>
             \/ resumer[v].phase = "mark" /\ resumer[v].fresh /\ resumer[v].batch = y.batch
             \/ Queued(Head(y.batch))'
    PROVE  ResumeInv'
<1>0. PICK new : new = [resumer EXCEPT ![v] = y]
  OBVIOUS
<1>1. /\ new \in [Resumers -> ResumerRow]
      /\ \A u \in Resumers : new[u] = IF u = v THEN y ELSE resumer[u]
  BY <1>0 DEF ResumeInv, ResumeWorkers
<1>2. resumer' = Touched(new, r0)
  BY <1>0
<1>3. \A u \in Resumers : ResumerFine(new[u], rclock)
  BY <1>1 DEF ResumeInv, ResumeWorkers
<1>4. ResumeWorkers'
  <2>1. resumer' = [u \in Resumers |-> resumer'[u]]
    BY <1>2 DEF Touched
  <2>2. ASSUME NEW u \in Resumers PROVE resumer'[u] \in ResumerRow /\ ResumerFine(resumer'[u], rclock)
    <3>1. Touched(new, r0)[u] \in ResumerRow /\ (ResumerFine(new[u], rclock) => ResumerFine(Touched(new, r0)[u], rclock))
      BY <1>1, TouchedWorkers
    <3>2. resumer'[u] = Touched(new, r0)[u] /\ ResumerFine(new[u], rclock)
      BY <1>2, <1>3
    <3> QED  BY <3>1, <3>2
  <2>3. resumer' \in [Resumers -> ResumerRow]
    BY <2>1, <2>2
  <2> QED  BY <2>2, <2>3 DEF ResumeWorkers
<1>5. \A u \in Resumers : \A r \in Resumable : r # r0 /\ OwesRow(resumer[u], r) =>
        Settled(r)' \/ Queued(r)' \/ OwesRow(new[u], r)
  BY <1>1
<1>6. \A u \in Resumers : new[u].phase = "mark" /\ new[u].fresh =>
        \/ resumer[u].phase = "mark" /\ resumer[u].fresh /\ resumer[u].batch = new[u].batch
        \/ Queued(Head(new[u].batch))'
  BY <1>1
<1>7. (\A s \in Shops : eligible'[s] => eligible[s]) /\ RefusalsStay
  BY DEF RefusalsStay
<1>8. \A j \in queue : j \in queue'
        \/ (\A r \in Resumable : j.recovery = r => Settled(r)' \/ \E u \in Resumers : OwesRow(new[u], r))
  OBVIOUS
<1>9. Woken'
  BY <1>1, <1>2, <1>3, <1>5, <1>6, <1>7, <1>8, WokenKept
<1> QED  BY <1>4, <1>9 DEF ResumeInv, RowsMove

\* The same, when no row is written.
LEMMA WorkerGoesOn ==
    ASSUME ResumeInv, NEW v \in Resumers, NEW y \in ResumerRow, ResumerFine(y, rclock),
           resumer' = [resumer EXCEPT ![v] = y], row' = row,
           ResumeRows', rclock' = rclock, eligible' = eligible /\ refusal' = refusal, queue \subseteq queue', ResumeJobs',
           \A r \in Resumable : OwesRow(resumer[v], r) =>
             Settled(r)' \/ Queued(r)' \/ OwesRow(y, r),
           y.phase = "mark" /\ y.fresh =>
             \/ resumer[v].phase = "mark" /\ resumer[v].fresh /\ resumer[v].batch = y.batch
             \/ Queued(Head(y.batch))'
    PROVE  ResumeInv'
<1> DEFINE new == [resumer EXCEPT ![v] = y]
<1>1. new \in [Resumers -> ResumerRow] /\ \A u \in Resumers : ResumerFine(new[u], rclock)
  BY DEF ResumeInv, ResumeWorkers
<1>2. resumer' = Touched(new, 0)
  <2> HIDE DEF new
  <2>1. Touched(new, 0) = new
    BY <1>1, NobodyTouched
  <2> QED  BY <2>1 DEF new
<1>3. RowsMove
  BY RowsRest DEF ResumeInv, ResumeRows
<1>4. 0 \in Resumable \cup {0}
  OBVIOUS
<1>5. resumer' = Touched([resumer EXCEPT ![v] = y], 0)
  BY <1>2
<1>6. \A r \in Resumable : r # 0 /\ OwesRow(resumer[v], r) => Settled(r)' \/ Queued(r)' \/ OwesRow(y, r)
  OBVIOUS
<1> HIDE DEF new
<1> QED  BY ONLY <1>3, <1>4, <1>5, <1>6, WorkerMoves, ResumeInv, v \in Resumers, y \in ResumerRow, ResumerFine(y, rclock),
           ResumeRows', rclock' = rclock, eligible' = eligible /\ refusal' = refusal, queue \subseteq queue', ResumeJobs',
           (y.phase = "mark" /\ y.fresh =>
             \/ resumer[v].phase = "mark" /\ resumer[v].fresh /\ resumer[v].batch = y.batch
             \/ Queued(Head(y.batch))')

\* A step of the surroundings writes r0 (0: no row) and loses no job.
LEMMA SurroundingsMove ==
    ASSUME ResumeInv, NEW r0 \in Resumable \cup {0}, resumer' = Touched(resumer, r0),
           RowsMove, ResumeRows', rclock' >= rclock, \A s \in Shops : eligible'[s] => eligible[s], RefusalsStay,
           queue \subseteq queue', ResumeJobs'
    PROVE  ResumeInv'
<1>1. resumer \in [Resumers -> ResumerRow] /\ \A u \in Resumers : ResumerFine(resumer[u], rclock)
  BY DEF ResumeInv, ResumeWorkers
<1>2. \A u \in Resumers : ResumerFine(resumer[u], rclock')
  <2> SUFFICES ASSUME NEW u \in Resumers PROVE ResumerFine(resumer[u], rclock')
    OBVIOUS
  <2>1. resumer[u].job.due \in Nat /\ rclock \in Nat /\ rclock' \in Nat
    BY <1>1, ResumerFields, JobFields, ResumeTimes DEF ResumeInv, ResumeRows
  <2> QED  BY <1>1, <2>1 DEF ResumerFine
<1>3. ResumeWorkers'
  <2>1. resumer' = [u \in Resumers |-> resumer'[u]]
    BY DEF Touched
  <2>2. \A u \in Resumers : resumer'[u] \in ResumerRow /\ ResumerFine(resumer'[u], rclock')
    BY <1>1, <1>2, TouchedWorkers
  <2>3. resumer' \in [Resumers -> ResumerRow]
    BY <2>1, <2>2
  <2> QED  BY <2>2, <2>3 DEF ResumeWorkers
<1>4. \A j \in queue : j \in queue'
        \/ (\A r \in Resumable : j.recovery = r => Settled(r)' \/ \E u \in Resumers : OwesRow(resumer[u], r))
  OBVIOUS
<1>5. Woken'
  BY <1>1, <1>4, WokenKept
<1> QED  BY <1>3, <1>5 DEF ResumeInv, RowsMove

\* The same, when no row is written.
LEMMA SurroundingsGoOn ==
    ASSUME ResumeInv, resumer' = resumer, row' = row, ResumeRows', rclock' >= rclock,
           \A s \in Shops : eligible'[s] => eligible[s], RefusalsStay, queue \subseteq queue', ResumeJobs'
    PROVE  ResumeInv'
<1>1. resumer' = Touched(resumer, 0)
  BY NobodyTouched DEF ResumeInv, ResumeWorkers
<1>2. RowsMove
  BY RowsRest DEF ResumeInv, ResumeRows
<1> QED  BY <1>1, <1>2, SurroundingsMove

-----------------------------------------------------------------------------
(* What the steps of a worker are made of.                                 *)

ClockRests == UNCHANGED <<rclock, moves, rfaults, suppress, refusal, eligible>> /\ credit' \in [Shops -> 0 .. MaxCredit]

LEMMA RowsKept ==
    ASSUME ResumeInv, ClockRests, RowsMove
    PROVE  ResumeRows' /\ rclock' = rclock /\ eligible' = eligible /\ refusal' = refusal
BY DEF ResumeInv, ResumeRows, ClockRests, RowsMove

LEMMA RowsUnwritten ==
    ASSUME ResumeInv, ClockRests, row' = row
    PROVE  ResumeRows' /\ rclock' = rclock /\ eligible' = eligible /\ refusal' = refusal /\ RowsMove
<1>1. RowsMove
  BY RowsRest DEF ResumeInv, ResumeRows
<1> QED  BY <1>1, RowsKept

\* A worker that has a recovery at hand.
AtHand(w) == resumer[w].phase \notin {"idle", "done"} /\ resumer[w].batch # <<>>

LEMMA WorkerAtHand ==
    ASSUME ResumeInv, NEW w \in Resumers, AtHand(w)
    PROVE  /\ resumer[w] \in ResumerRow /\ ResumerFine(resumer[w], rclock) /\ resumer[w].phase # "idle"
           /\ Head(resumer[w].batch) \in Resumable /\ ResumeJobFine(resumer[w].job)
           /\ \A r \in Resumable : OwesRow(resumer[w], r) =>
                /\ Head(resumer[w].batch) = r /\ Target(resumer[w].job) /\ resumer[w].job.shop = ShopOf[r]
<1>1. resumer[w] \in ResumerRow /\ ResumerFine(resumer[w], rclock) /\ resumer[w].phase # "idle"
  BY DEF ResumeInv, ResumeWorkers, AtHand
<1>2. Head(resumer[w].batch) \in Resumable
  BY <1>1, ResumerFields, HeadIsRecovery DEF AtHand
<1>3. ResumeJobFine(resumer[w].job)
  BY <1>1 DEF ResumerFine
<1> QED  BY <1>1, <1>2, <1>3, OwedAlone

LEMMA WorkersAtHand ==
    ASSUME ResumeInv, NEW w \in Resumers, resumer[w].phase \in WithRecovery
    PROVE  AtHand(w)
BY DEF ResumeInv, ResumeWorkers, ResumerFine, WithRecovery, AtHand

\* The shop is paused: the worker stops.
LEMMA StopsForShop ==
    ASSUME ResumeInv, NEW w \in Resumers, AtHand(w), ~eligible[resumer[w].job.shop], Step(w, "done"),
           ClockRests, row' = row, queue' = queue
    PROVE  ResumeInv'
<1>1. PICK x : x = resumer[w]
  OBVIOUS
<1>2. PICK y : y = [x EXCEPT !.phase = "done"]
  OBVIOUS
<1>3. x \in ResumerRow /\ ResumerFine(x, rclock) /\ x.phase # "idle"
  BY <1>1, WorkerAtHand
<1>4. y \in ResumerRow /\ y.phase = "done" /\ y.job = x.job /\ y.batch = x.batch /\ y.fresh = x.fresh
  BY <1>2, <1>3, PhaseTyped DEF ResumePhases
<1>5. ResumerFine(y, rclock)
  BY <1>3, <1>4 DEF ResumerFine, WithRecovery
<1>6. resumer' = [resumer EXCEPT ![w] = y]
  BY <1>1, <1>2 DEF Step
<1>7. ResumeRows' /\ rclock' = rclock /\ eligible' = eligible /\ refusal' = refusal
  BY RowsUnwritten
<1>8. \A r \in Resumable : OwesRow(resumer[w], r) => Settled(r)'
  BY <1>7, WorkerAtHand DEF Settled
<1>9. ResumeJobs' /\ queue \subseteq queue'
  BY DEF ResumeInv, ResumeJobs
<1> QED  BY <1>4, <1>5, <1>6, <1>7, <1>8, <1>9, WorkerGoesOn

\* The worker goes on to the next step of the recovery it has.
LEMMA GoesOn ==
    ASSUME ResumeInv, NEW w \in Resumers, AtHand(w), NEW p \in WithRecovery \ {"mark", "after"}, Step(w, p),
           ClockRests, row' = row, queue' = queue
    PROVE  ResumeInv'
<1>1. PICK x : x = resumer[w]
  OBVIOUS
<1>2. PICK y : y = [x EXCEPT !.phase = p]
  OBVIOUS
<1>3. x \in ResumerRow /\ ResumerFine(x, rclock) /\ x.phase # "idle" /\ x.batch # <<>>
  BY <1>1, WorkerAtHand DEF AtHand
<1>4. p \in ResumePhases /\ p \notin {"idle", "after", "done", "mark"}
  BY DEF ResumePhases, WithRecovery
<1>5. y \in ResumerRow /\ y.phase = p /\ y.job = x.job /\ y.batch = x.batch /\ y.fresh = x.fresh
  BY <1>2, <1>3, <1>4, PhaseTyped
<1>6. ResumerFine(y, rclock)
  BY <1>3, <1>4, <1>5, PhaseFine
<1>7. resumer' = [resumer EXCEPT ![w] = y]
  BY <1>1, <1>2 DEF Step
<1>8. ResumeRows' /\ rclock' = rclock /\ eligible' = eligible /\ refusal' = refusal
  BY RowsUnwritten
<1>9. \A r \in Resumable : OwesRow(resumer[w], r) => OwesRow(y, r)
  BY <1>1, <1>4, <1>5 DEF OwesRow
<1>10. ResumeJobs' /\ queue \subseteq queue'
  BY DEF ResumeInv, ResumeJobs
<1> QED  BY <1>4, <1>5, <1>6, <1>7, <1>8, <1>9, <1>10, WorkerGoesOn

LEMMA DroppedIsNext ==
    ASSUME NEW w \in Resumers
    PROVE  Dropped(w) = [resumer EXCEPT ![w] = Next_(resumer[w])]
BY DEF Dropped, Next_

\* The worker is done with a recovery that is over, or will be woken.
LEMMA DropsUnwritten ==
    ASSUME ResumeInv, NEW w \in Resumers, AtHand(w), DropWakeup(w), ClockRests, row' = row,
           queue \subseteq queue', ResumeJobs',
           \A r \in Resumable : OwesRow(resumer[w], r) => Settled(r)' \/ Queued(r)'
    PROVE  ResumeInv'
<1>1. PICK x : x = resumer[w]
  OBVIOUS
<1>2. PICK y : y = Next_(x)
  OBVIOUS
<1>3. x \in ResumerRow /\ ResumerFine(x, rclock) /\ x.phase # "idle" /\ x.batch # <<>>
  BY <1>1, WorkerAtHand DEF AtHand
<1>4. y \in ResumerRow /\ ResumerFine(y, rclock) /\ y.phase = "next"
  BY <1>2, <1>3, NextFine
<1>5. resumer' = [resumer EXCEPT ![w] = y]
  BY <1>1, <1>2, DroppedIsNext DEF DropWakeup
<1>6. ResumeRows' /\ rclock' = rclock /\ eligible' = eligible /\ refusal' = refusal
  BY RowsUnwritten
<1> QED  BY <1>4, <1>5, <1>6, WorkerGoesOn

\* The worker writes the row of its recovery and is done with it.
LEMMA DropsWritten ==
    ASSUME ResumeInv, NEW w \in Resumers, AtHand(w), NEW q \in ResumeRow,
           q.block # "none" => q.status = "DETECTED",
           row[Head(resumer[w].batch)].status # "DETECTED" => q.status # "DETECTED",
           DropWritten(w, Head(resumer[w].batch), q), ClockRests, queue' = queue
    PROVE  ResumeInv'
<1>1. PICK x : x = resumer[w]
  OBVIOUS
<1>2. PICK y : y = Next_(x)
  OBVIOUS
<1>3. x \in ResumerRow /\ ResumerFine(x, rclock) /\ x.phase # "idle" /\ x.batch # <<>>
  BY <1>1, WorkerAtHand DEF AtHand
<1>4. y \in ResumerRow /\ ResumerFine(y, rclock) /\ y.phase = "next"
  BY <1>2, <1>3, NextFine
<1>5. PICK r0 \in Resumable : r0 = Head(resumer[w].batch)
  BY WorkerAtHand
<1>6. resumer' = Touched([resumer EXCEPT ![w] = y], r0)
  BY <1>1, <1>2, <1>5, DroppedIsNext DEF DropWritten
<1>7. RowsMove
  BY <1>5, RowWritten DEF DropWritten, ResumeInv, ResumeRows
<1>8. ResumeRows' /\ rclock' = rclock /\ eligible' = eligible /\ refusal' = refusal
  BY <1>7, RowsKept
<1>9. \A r \in Resumable : ~(r # r0 /\ OwesRow(resumer[w], r))
  BY <1>5, WorkerAtHand
<1>10. ResumeJobs' /\ queue \subseteq queue'
  BY DEF ResumeInv, ResumeJobs
<1> QED  BY <1>4, <1>6, <1>7, <1>8, <1>9, <1>10, WorkerMoves

\* The worker has its answer and will read the row again.
LEMMA ReportsNext ==
    ASSUME ResumeInv, NEW w \in Resumers, AtHand(w), NEW p \in {"after", "done"}, NEW r0 \in Resumable \cup {0},
           resumer' = Touched([resumer EXCEPT ![w].phase = p], r0), RowsMove, ClockRests, queue' = queue,
           \A r \in Resumable : r # r0 /\ OwesRow(resumer[w], r) => Settled(r)'
    PROVE  ResumeInv'
<1>1. PICK x : x = resumer[w]
  OBVIOUS
<1>2. PICK y : y = [x EXCEPT !.phase = p]
  OBVIOUS
<1>3. x \in ResumerRow /\ ResumerFine(x, rclock) /\ x.phase # "idle" /\ x.batch # <<>>
  BY <1>1, WorkerAtHand DEF AtHand
<1>0. p \in ResumePhases /\ p \notin {"idle", "mark"}
  BY DEF ResumePhases
<1>4. y \in ResumerRow /\ y.phase = p /\ y.job = x.job /\ y.batch = x.batch
  BY <1>0, <1>2, <1>3, PhaseTyped
<1>5. ResumerFine(y, rclock)
  BY <1>0, <1>3, <1>4, PhaseFine
<1>6. resumer' = Touched([resumer EXCEPT ![w] = y], r0)
  BY <1>1, <1>2
<1>7. ResumeRows' /\ rclock' = rclock /\ eligible' = eligible /\ refusal' = refusal
  BY RowsKept
<1>8. ResumeJobs' /\ queue \subseteq queue'
  BY DEF ResumeInv, ResumeJobs
<1>9. y.phase = "mark" /\ y.fresh =>
        \/ resumer[w].phase = "mark" /\ resumer[w].fresh /\ resumer[w].batch = y.batch
        \/ Queued(Head(y.batch))'
  BY <1>0, <1>4
<1>10. \A r \in Resumable : r # r0 /\ OwesRow(resumer[w], r) => Settled(r)' \/ Queued(r)' \/ OwesRow(y, r)
  OBVIOUS
<1>11. y \in ResumerRow
  BY <1>4
<1> QED  BY ONLY <1>5, <1>6, <1>7, <1>8, <1>9, <1>10, <1>11, ResumeInv, RowsMove, w \in Resumers,
           r0 \in Resumable \cup {0}, WorkerMoves

\* The same, when no row is written.
LEMMA ReportsUnwritten ==
    ASSUME ResumeInv, NEW w \in Resumers, AtHand(w), NEW p \in {"after", "done"}, Step(w, p),
           row' = row, ClockRests, queue' = queue,
           \A r \in Resumable : OwesRow(resumer[w], r) => Settled(r)'
    PROVE  ResumeInv'
<1> DEFINE new == [resumer EXCEPT ![w].phase = p]
<1>0. p \in ResumePhases /\ p # "idle"
  BY DEF ResumePhases
<1>1. \A u \in Resumers : resumer[u] \in ResumerRow /\ ResumerFine(resumer[u], rclock)
  BY DEF ResumeInv, ResumeWorkers
<1>2. PICK y : y = [resumer[w] EXCEPT !.phase = p]
  OBVIOUS
<1>3. y \in ResumerRow /\ ResumerFine(y, rclock)
  <2>1. resumer[w].phase # "idle" /\ resumer[w].batch # <<>>
    BY DEF AtHand
  <2>2. y \in ResumerRow /\ y.phase = p /\ y.job = resumer[w].job /\ y.batch = resumer[w].batch
    BY <1>0, <1>1, <1>2, PhaseTyped
  <2> QED  BY <1>0, <1>1, <2>1, <2>2, PhaseFine
<1>4. new \in [Resumers -> ResumerRow] /\ \A u \in Resumers : ResumerFine(new[u], rclock)
  BY <1>1, <1>2, <1>3 DEF ResumeInv, ResumeWorkers
<1>5. resumer' = new
  BY DEF Step
<1> HIDE DEF new
<1>6. resumer' = Touched(new, 0)
  BY <1>4, <1>5, NobodyTouched
<1>7. RowsMove
  BY RowsRest DEF ResumeInv, ResumeRows
<1> QED  BY <1>6, <1>7, ReportsNext DEF new

\* The three looks of a worker before the admission: the shop, the row, the time.
Looks(w, ok) ==
    LET r == Head(resumer[w].batch)  j == resumer[w].job IN
    IF ~eligible[j.shop] THEN Step(w, "done") /\ UNCHANGED <<queue, row>>
    ELSE IF ~EligibleRow(r, j) THEN DropWakeup(w) /\ UNCHANGED <<queue, row>>
    ELSE IF Immature(r, j) THEN DeferMature(w, r) /\ UNCHANGED row
    ELSE ok

LEMMA LooksKeep ==
    ASSUME ResumeInv, NEW w \in Resumers, AtHand(w), ClockRests, Looks(w, FALSE)
    PROVE  ResumeInv'
<1> DEFINE r == Head(resumer[w].batch)  j == resumer[w].job
<1>1. CASE ~eligible[j.shop]
  BY <1>1, StopsForShop DEF Looks
<1>2. CASE eligible[j.shop] /\ ~EligibleRow(r, j)
  <2>1. DropWakeup(w) /\ UNCHANGED <<queue, row>>
    BY <1>2 DEF Looks
  <2>2. \A q \in Resumable : OwesRow(resumer[w], q) => Settled(q)'
    BY <1>2, <2>1, WorkerAtHand DEF EligibleRow, Settled
  <2>3. ResumeJobs' /\ queue \subseteq queue'
    BY <2>1 DEF ResumeInv, ResumeJobs
  <2> QED  BY <2>1, <2>2, <2>3, DropsUnwritten
<1>3. CASE eligible[j.shop] /\ EligibleRow(r, j) /\ Immature(r, j)
  <2>1. DeferMature(w, r) /\ UNCHANGED row
    BY <1>3 DEF Looks
  <2>2. PICK r1 \in Resumable : r1 = r
    BY WorkerAtHand
  <2>3. PICK t \in RTimes : t = row[r1].activity
    BY RowFields DEF ResumeInv, ResumeRows
  <2>4. t + 1 \in DueTimes /\ rclock \in Nat /\ rclock < t + 1
    BY <1>3, <2>2, <2>3, ResumeTimes DEF Immature, ResumeInv, ResumeRows
  <2>5. Schedule(JobOf(ShopOf[r1], r1, <<"maturity", r1, t>>, t + 1)) /\ DropWakeup(w)
    BY <2>1, <2>2, <2>3 DEF DeferMature
  <2>6. queue \subseteq queue' /\ ResumeJobs' /\ Queued(r1)'
    BY <2>4, <2>5, WakeScheduled DEF ResumeInv
  <2>7. \A q \in Resumable : OwesRow(resumer[w], q) => Queued(q)'
    BY <2>2, <2>6, WorkerAtHand
  <2> QED  BY <2>1, <2>5, <2>6, <2>7, DropsUnwritten
<1> QED  BY <1>1, <1>2, <1>3 DEF Looks

-----------------------------------------------------------------------------
(* The steps of a worker.                                                  *)

LEMMA PrepareKeeps ==
    ASSUME ResumeInv, NEW w \in Resumers, Prepare(w)
    PROVE  ResumeInv'
<1>1. AtHand(w)
  BY DEF Prepare, AtHand
<1>2. ClockRests /\ row' = row
  BY DEF Prepare, ClockRests, ResumeInv, ResumeRows
<1>3. CASE Looks(w, FALSE)
  BY <1>1, <1>2, <1>3, LooksKeep
<1>4. CASE Step(w, "lookup") /\ UNCHANGED queue
  <2>1. "lookup" \in WithRecovery \ {"mark", "after"}
    BY DEF WithRecovery
  <2> QED  BY <1>1, <1>2, <1>4, <2>1, GoesOn
<1> QED  BY <1>2, <1>3, <1>4 DEF Prepare, Looks

LEMMA GateKeeps ==
    ASSUME ResumeInv, NEW w \in Resumers, Gate(w)
    PROVE  ResumeInv'
<1>1. AtHand(w)
  BY WorkersAtHand DEF Gate, WithRecovery
<1>2. ClockRests /\ row' = row
  BY DEF Gate, ClockRests, ResumeInv, ResumeRows
<1>3. CASE Looks(w, FALSE)
  BY <1>1, <1>2, <1>3, LooksKeep
<1>4. CASE Step(w, "admit") /\ UNCHANGED queue
  <2>1. "admit" \in WithRecovery \ {"mark", "after"}
    BY DEF WithRecovery
  <2> QED  BY <1>1, <1>2, <1>4, <2>1, GoesOn
<1> QED  BY <1>2, <1>3, <1>4 DEF Gate, Looks

\* The rows that Recheck, Mark and AdmitResumed write.
LEMMA WrittenRows ==
    ASSUME row \in [Resumable -> ResumeRow], BlockedIsDetected, NEW r \in Resumable
    PROVE  /\ Cancelled(r) \in ResumeRow /\ Cancelled(r).block = "none" /\ Cancelled(r).status = "CANCELLED"
           /\ Unsuppressed(r) \in ResumeRow /\ Unsuppressed(r).status = row[r].status
           /\ Unsuppressed(r).block # "none" => row[r].status = "DETECTED"
<1>1. row[r] \in ResumeRow
  OBVIOUS
<1>2. "CANCELLED" \in ResumeStatuses /\ "none" \in Blocks
  BY DEF ResumeStatuses, Blocks
<1>3. Cancelled(r) \in ResumeRow /\ Cancelled(r).block = "none" /\ Cancelled(r).status = "CANCELLED"
  BY <1>1, <1>2 DEF Cancelled, ResumeRow
<1> DEFINE b == IF row[r].block = "suppressed" THEN "none" ELSE row[r].block
<1>4. b \in Blocks /\ (b # "none" => row[r].block # "none")
  BY <1>1, <1>2, RowFields
<1>5. Unsuppressed(r) = [row[r] EXCEPT !.block = b]
  BY DEF Unsuppressed
<1> HIDE DEF b
<1>6. Unsuppressed(r) \in ResumeRow /\ Unsuppressed(r).status = row[r].status /\ Unsuppressed(r).block = b
  BY <1>1, <1>4, <1>5 DEF ResumeRow
<1> QED  BY <1>3, <1>4, <1>6 DEF BlockedIsDetected

LEMMA RecheckKeeps ==
    ASSUME ResumeInv, NEW w \in Resumers, NEW gone \in BOOLEAN, Recheck(w, gone)
    PROVE  ResumeInv'
<1>1. AtHand(w)
  BY WorkersAtHand DEF Recheck, WithRecovery
<1>2. ClockRests
  BY DEF Recheck, ClockRests, ResumeInv, ResumeRows
<1> DEFINE r == Head(resumer[w].batch)
<1>3. r \in Resumable /\ row \in [Resumable -> ResumeRow] /\ BlockedIsDetected
  BY <1>1, WorkerAtHand DEF ResumeInv, ResumeRows
<1>4. CASE Looks(w, FALSE)
  BY <1>1, <1>2, <1>4, LooksKeep
<1>5. CASE DropWritten(w, r, Cancelled(r)) /\ UNCHANGED queue /\ EligibleRow(r, resumer[w].job)
  BY <1>1, <1>2, <1>3, <1>5, WrittenRows, DropsWritten DEF EligibleRow
<1>6. CASE DropWritten(w, r, Unsuppressed(r)) /\ UNCHANGED queue
  BY <1>1, <1>2, <1>3, <1>6, WrittenRows, DropsWritten
<1>7. CASE Step(w, "consent") /\ UNCHANGED <<queue, row>>
  <2>1. "consent" \in WithRecovery \ {"mark", "after"}
    BY DEF WithRecovery
  <2> QED  BY <1>1, <1>2, <1>7, <2>1, GoesOn
<1> QED  BY <1>4, <1>5, <1>6, <1>7 DEF Recheck, Looks

LEMMA ConsentLookKeeps ==
    ASSUME ResumeInv, NEW w \in Resumers, ConsentLook(w)
    PROVE  ResumeInv'
<1>1. AtHand(w)
  BY WorkersAtHand DEF ConsentLook, WithRecovery
<1>2. ClockRests /\ row' = row /\ queue' = queue /\ refusal' = refusal
  BY DEF ConsentLook, ClockRests, ResumeInv, ResumeRows
<1>3. PICK r : r = Head(resumer[w].batch)
  OBVIOUS
<1>4. ASSUME refusal[r] # "none" PROVE \A q \in Resumable : OwesRow(resumer[w], q) => Settled(q)'
  BY <1>1, <1>2, <1>3, <1>4, WorkerAtHand DEF Settled
<1>5. CASE refusal[r] = "consent" /\ DropWakeup(w)
  <2>1. ResumeJobs' /\ queue \subseteq queue'
    BY <1>2 DEF ResumeInv, ResumeJobs
  <2> QED  BY <1>1, <1>2, <1>4, <1>5, <2>1, DropsUnwritten
<1>6. CASE refusal[r] = "other" /\ Step(w, "after")
  BY <1>1, <1>2, <1>4, <1>6, ReportsUnwritten
<1>7. CASE Step(w, "suppression")
  <2>1. "suppression" \in WithRecovery \ {"mark", "after"}
    BY DEF WithRecovery
  <2> QED  BY <1>1, <1>2, <1>7, <2>1, GoesOn
<1> QED  BY <1>3, <1>5, <1>6, <1>7 DEF ConsentLook

\* A worker that reads the row again owes it nothing more.
LEMMA ReportKeeps ==
    ASSUME ResumeInv, NEW w \in Resumers, Report(w)
    PROVE  ResumeInv'
<1>1. AtHand(w)
  BY WorkersAtHand DEF Report, WithRecovery
<1>2. ClockRests /\ row' = row /\ queue' = queue
  BY DEF Report, ClockRests, ResumeInv, ResumeRows
<1>3. \A q \in Resumable : ~OwesRow(resumer[w], q)
  BY DEF Report, OwesRow
<1>4. CASE Step(w, "done")
  BY <1>1, <1>2, <1>3, <1>4, ReportsUnwritten
<1>5. CASE DropWakeup(w)
  <2>1. ResumeJobs' /\ queue \subseteq queue'
    BY <1>2 DEF ResumeInv, ResumeJobs
  <2> QED  BY <1>1, <1>2, <1>3, <1>5, <2>1, DropsUnwritten
<1> QED  BY <1>4, <1>5 DEF Report

LEMMA MarkKeeps ==
    ASSUME ResumeInv, NEW w \in Resumers, Mark(w)
    PROVE  ResumeInv'
<1>1. AtHand(w)
  BY WorkersAtHand DEF Mark, WithRecovery
<1>2. ClockRests /\ queue' = queue
  BY DEF Mark, ClockRests, ResumeInv, ResumeRows
<1> DEFINE r == Head(resumer[w].batch)
<1>3. r \in Resumable /\ row \in [Resumable -> ResumeRow]
  BY <1>1, WorkerAtHand DEF ResumeInv, ResumeRows
<1>4. CASE Marks(w, r)
  <2>1. PICK q \in ResumeRow : q = [row[r] EXCEPT !.block = "suppressed"] /\ q.status = row[r].status
    <3>1. row[r] \in ResumeRow /\ "suppressed" \in Blocks
      BY <1>3 DEF Blocks
    <3> DEFINE p == [row[r] EXCEPT !.block = "suppressed"]
    <3>2. p \in ResumeRow /\ p.status = row[r].status
      BY <3>1 DEF ResumeRow
    <3> QED  BY <3>2
  <2>2. AfterWrite(w, r, q)
    BY <1>4, <2>1 DEF Mark
  <2>3. q.status = "DETECTED" /\ row[r].status = "DETECTED"
    BY <1>4, <2>1 DEF Marks
  <2>4. RowsMove
    BY <1>3, <2>1, <2>2, <2>3, RowWritten DEF AfterWrite, ResumeInv
  <2>5. \A p \in Resumable : ~(p # r /\ OwesRow(resumer[w], p))
    BY <1>1, WorkerAtHand
  <2> QED  BY <1>1, <1>2, <1>3, <2>2, <2>4, <2>5, ReportsNext DEF AfterWrite
<1>5. CASE ~Marks(w, r)
  <2>1. Step(w, "after") /\ UNCHANGED row
    BY <1>5 DEF Mark
  <2>2. resumer[w].phase = "mark"
    BY DEF Mark
  <2>3. \A q \in Resumable : OwesRow(resumer[w], q) => q = r /\ resumer[w].fresh
    BY <1>1, <2>2, WorkerAtHand DEF OwesRow
  <2>4. \A q \in Resumable : OwesRow(resumer[w], q) => Settled(q)'
    BY <1>5, <2>1, <2>3 DEF Marks, Settled
  <2> QED  BY <1>1, <1>2, <2>1, <2>4, ReportsUnwritten
<1> QED  BY <1>4, <1>5

LEMMA SuppressionKeeps ==
    ASSUME ResumeInv, NEW w \in Resumers, Suppression(w)
    PROVE  ResumeInv'
<1>1. AtHand(w) /\ resumer[w].phase = "suppression"
  BY WorkersAtHand DEF Suppression, WithRecovery
<1>2. ClockRests
  BY DEF Suppression, ClockRests, ResumeInv, ResumeRows
<1>3. PICK r \in Resumable : r = Head(resumer[w].batch)
  BY <1>1, WorkerAtHand
<1>4. PICK x : x = resumer[w]
  OBVIOUS
<1>5. /\ x \in ResumerRow /\ ResumerFine(x, rclock) /\ x.phase = "suppression" /\ x.batch # <<>>
      /\ resumer \in [Resumers -> ResumerRow] /\ row \in [Resumable -> ResumeRow] /\ BlockedIsDetected
  BY <1>1, <1>4 DEF ResumeInv, ResumeRows, ResumeWorkers, AtHand
<1>6. CASE /\ Wakeup(r) /\ suppress[r] > rclock /\ row' = row
           /\ resumer' = [resumer EXCEPT ![w].phase = "mark", ![w].fresh = TRUE]
  <2>1. Wakeup(r) /\ resumer' = [resumer EXCEPT ![w].phase = "mark", ![w].fresh = TRUE] /\ row' = row
    BY <1>6
  <2>2. PICK y0 : y0 = [x EXCEPT !.phase = "mark"]
    OBVIOUS
  <2>3. PICK y : y = [y0 EXCEPT !.fresh = TRUE]
    OBVIOUS
  <2>4. y0 \in ResumerRow /\ y0.phase = "mark" /\ y0.job = x.job /\ y0.batch = x.batch
    BY <1>5, <2>2, PhaseTyped DEF ResumePhases
  <2>5. y \in ResumerRow /\ y.phase = "mark" /\ y.job = x.job /\ y.batch = x.batch /\ y.fresh = TRUE
    BY <2>3, <2>4, FreshTyped
  <2>6. ResumerFine(y, rclock)
    BY <1>5, <2>5, PhaseFine DEF ResumePhases
  <2>7. resumer' = [resumer EXCEPT ![w] = y]
    BY <1>4, <1>5, <2>1, <2>2, <2>3
  <2>8. PICK t \in RTimes : t = suppress[r]
    BY DEF ResumeInv, ResumeRows
  <2>9. t \in DueTimes /\ rclock \in Nat /\ rclock < t
    BY <1>6, <2>8, ResumeTimes DEF ResumeInv, ResumeRows
  <2>10. Schedule(JobOf(ShopOf[r], r, <<"until", r, t>>, t))
    BY <2>1, <2>8 DEF Wakeup
  <2>11. queue \subseteq queue' /\ ResumeJobs' /\ Queued(r)'
    BY <2>9, <2>10, WakeScheduled DEF ResumeInv
  <2>12. ResumeRows' /\ rclock' = rclock /\ eligible' = eligible /\ refusal' = refusal
    BY <1>2, <2>1, RowsUnwritten
  <2>13. \A q \in Resumable : OwesRow(resumer[w], q) => Queued(q)'
    BY <1>1, <1>3, <2>11, WorkerAtHand
  <2>14. Head(y.batch) = r
    BY <1>3, <1>4, <2>5
  <2>15. Queued(Head(y.batch))'
    BY <2>11, <2>14
  <2> QED  BY <2>1, <2>5, <2>6, <2>7, <2>11, <2>12, <2>13, <2>15, WorkerGoesOn
<1>7. CASE /\ row' = [row EXCEPT ![r] = Unsuppressed(r)] /\ queue' = queue
           /\ resumer' = Touched([resumer EXCEPT ![w].phase = "gate"], r)
  <2>1. /\ row' = [row EXCEPT ![r] = Unsuppressed(r)] /\ queue' = queue
        /\ resumer' = Touched([resumer EXCEPT ![w].phase = "gate"], r)
    BY <1>7
  <2>2. PICK y : y = [x EXCEPT !.phase = "gate"]
    OBVIOUS
  <2>3. y \in ResumerRow /\ y.phase = "gate" /\ y.job = x.job /\ y.batch = x.batch
    BY <1>5, <2>2, PhaseTyped DEF ResumePhases
  <2>4. ResumerFine(y, rclock)
    BY <1>5, <2>3, PhaseFine DEF ResumePhases
  <2>5. resumer' = Touched([resumer EXCEPT ![w] = y], r)
    BY <1>4, <2>1, <2>2
  <2>6. RowsMove
    BY <1>5, <2>1, WrittenRows, RowWritten
  <2>7. ResumeRows' /\ rclock' = rclock /\ eligible' = eligible /\ refusal' = refusal
    BY <1>2, <2>6, RowsKept
  <2>8. \A q \in Resumable : ~(q # r /\ OwesRow(resumer[w], q))
    BY <1>1, <1>3, WorkerAtHand
  <2>9. ResumeJobs' /\ queue \subseteq queue'
    BY <2>1 DEF ResumeInv, ResumeJobs
  <2> QED  BY <2>3, <2>4, <2>5, <2>6, <2>7, <2>8, <2>9, WorkerMoves
<1>8. CASE Refused(r) /\ Step(w, "after") /\ UNCHANGED <<queue, row>>
  <2>1. refusal[r] # "none" /\ refusal' = refusal
    BY <1>2, <1>8 DEF Refused, Refusing, ClockRests
  <2>2. \A q \in Resumable : OwesRow(resumer[w], q) => Settled(q)'
    BY <1>1, <1>3, <2>1, WorkerAtHand DEF Settled
  <2> QED  BY <1>1, <1>2, <1>8, <2>2, ReportsUnwritten
<1> QED  BY <1>3, <1>6, <1>7, <1>8 DEF Suppression

LEMMA AdmitResumedKeeps ==
    ASSUME ResumeInv, NEW w \in Resumers, AdmitResumed(w)
    PROVE  ResumeInv'
<1>1. AtHand(w) /\ resumer[w].phase = "admit" /\ queue' = queue
  BY WorkersAtHand DEF AdmitResumed, WithRecovery
<1>2. PICK r \in Resumable : r = Head(resumer[w].batch)
  BY <1>1, WorkerAtHand
<1>3. /\ row \in [Resumable -> ResumeRow] /\ BlockedIsDetected /\ row[r] \in ResumeRow
      /\ credit \in [Shops -> 0 .. MaxCredit] /\ ShopOf[r] \in Shops
  BY ResumeTimes DEF ResumeInv, ResumeRows
<1>5. CASE row[r].status # "DETECTED" \/ Refused(r)
  <2>1. Step(w, "after") /\ UNCHANGED <<row, credit>>
    BY <1>2, <1>5 DEF AdmitResumed
  <2>2. ClockRests
    BY <1>3, <2>1 DEF AdmitResumed, ClockRests
  <2>3. (row[r].status # "DETECTED" \/ refusal[r] # "none") /\ refusal' = refusal
    BY <1>5, <2>2 DEF Refused, Refusing, ClockRests
  <2>4. \A q \in Resumable : OwesRow(resumer[w], q) => Settled(q)'
    BY <1>1, <1>2, <2>1, <2>3, WorkerAtHand DEF Settled
  <2> QED  BY <1>1, <2>1, <2>2, <2>4, ReportsUnwritten
<1>6. CASE row[r].status = "DETECTED" /\ ~Refused(r) /\ Exhausted(ShopOf[r])
  <2>1. PICK b \in Blocks : b = IF row[r].block = "none" THEN "capacity" ELSE row[r].block
    BY <1>3, RowFields DEF Blocks
  <2>2. PICK q : q = [row[r] EXCEPT !.block = b]
    OBVIOUS
  <2>3. q \in ResumeRow /\ q.status = "DETECTED"
    BY <1>3, <1>6, <2>1, <2>2 DEF ResumeRow
  <2>4. AfterWrite(w, r, q) /\ credit' = credit
    <3>1. /\ AfterWrite(w, r, [row[r] EXCEPT !.block = IF @ = "none" THEN "capacity" ELSE @])
          /\ UNCHANGED credit
      BY <1>2, <1>6 DEF AdmitResumed
    <3>2. q = [row[r] EXCEPT !.block = IF @ = "none" THEN "capacity" ELSE @]
      BY <2>1, <2>2
    <3> QED  BY <3>1, <3>2
  <2>5. ClockRests
    BY <1>3, <2>4 DEF AdmitResumed, ClockRests
  <2>6. RowsMove
    BY <1>3, <1>6, <2>3, <2>4, RowWritten DEF AfterWrite
  <2>7. \A p \in Resumable : ~(p # r /\ OwesRow(resumer[w], p))
    BY <1>1, <1>2, WorkerAtHand
  <2> QED  BY <1>1, <2>4, <2>5, <2>6, <2>7, ReportsNext DEF AfterWrite
<1>7. CASE row[r].status = "DETECTED" /\ ~Refused(r) /\ ~Exhausted(ShopOf[r])
  <2>1. PICK q : q = [row[r] EXCEPT !.status = "MESSAGE_SENT", !.block = "none"]
    OBVIOUS
  <2>2. AfterWrite(w, r, q) /\ credit' = [credit EXCEPT ![ShopOf[r]] = @ - 1]
    BY <1>2, <1>7, <2>1 DEF AdmitResumed
  <2>3. q \in ResumeRow /\ q.block = "none" /\ q.status = "MESSAGE_SENT"
    <3>1. "MESSAGE_SENT" \in ResumeStatuses /\ "none" \in Blocks
      BY DEF ResumeStatuses, Blocks
    <3> QED  BY <1>3, <2>1, <3>1 DEF ResumeRow
  <2>4. credit' \in [Shops -> 0 .. MaxCredit]
    <3>1. credit[ShopOf[r]] - 1 \in 0 .. MaxCredit
      <4>1. PICK c \in 0 .. MaxCredit : c = credit[ShopOf[r]]
        BY <1>3
      <4>2. c # 0
        BY <1>7, <4>1 DEF Exhausted
      <4> QED  BY <4>1, <4>2, ResumeAssumption
    <3> QED  BY <1>3, <2>2, <3>1
  <2>5. ClockRests
    BY <2>4 DEF AdmitResumed, ClockRests
  <2>6. RowsMove
    BY <1>3, <1>7, <2>2, <2>3, RowWritten DEF AfterWrite
  <2>7. \A p \in Resumable : ~(p # r /\ OwesRow(resumer[w], p))
    BY <1>1, <1>2, WorkerAtHand
  <2> QED  BY <1>1, <2>2, <2>5, <2>6, <2>7, ReportsNext DEF AfterWrite
<1> QED  BY <1>5, <1>6, <1>7

\* A worker that is done has a batch without recoveries, or none of its own.
LEMMA BecomesNobody ==
    ASSUME ResumeInv, NEW w \in Resumers, resumer' = [resumer EXCEPT ![w] = Nobody], row' = row,
           ClockRests, queue \subseteq queue', ResumeJobs',
           \A r \in Resumable : OwesRow(resumer[w], r) => Queued(r)'
    PROVE  ResumeInv'
<1>1. ResumeRows' /\ rclock' = rclock /\ eligible' = eligible /\ refusal' = refusal
  BY RowsUnwritten
<1> QED  BY <1>1, NobodyFine, WorkerGoesOn

LEMMA BatchDoneKeeps ==
    ASSUME ResumeInv, NEW w \in Resumers, BatchDone(w)
    PROVE  ResumeInv'
<1> DEFINE j == resumer[w].job
<1>1. ClockRests /\ row' = row /\ resumer' = [resumer EXCEPT ![w] = Nobody]
  BY DEF BatchDone, ClockRests, ResumeInv, ResumeRows
<1>2. \A r \in Resumable : ~OwesRow(resumer[w], r)
  BY DEF BatchDone, OwesRow
<1>3. ResumeJobs
  BY DEF ResumeInv
<1>4. CASE UNCHANGED queue
  BY <1>1, <1>2, <1>3, <1>4, BecomesNobody DEF ResumeJobs
<1>5. CASE Schedule(JobOf(j.shop, 0, <<"continuation", resumer[w].last, 0>>, 0))
  <2>1. resumer[w].phase # "idle" /\ resumer[w] \in ResumerRow /\ ResumerFine(resumer[w], rclock)
    BY DEF BatchDone, ResumeInv, ResumeWorkers
  <2>2. j.shop \in Shops /\ resumer[w].last \in Resumable \cup {0}
    BY <2>1, ResumerFields DEF ResumerFine, ResumeJobFine
  <2> HIDE DEF j
  <2>3. ResumeJobFine(JobOf(j.shop, 0, <<"continuation", resumer[w].last, 0>>, 0))
    BY <2>2, ShopJobFine
  <2>4. queue \subseteq queue' /\ ResumeJobs'
    BY <1>3, <1>5, <2>3, ScheduleAdds
  <2> QED  BY <1>1, <1>2, <2>4, BecomesNobody
<1> QED  BY <1>4, <1>5 DEF BatchDone

LEMMA JobDoneKeeps ==
    ASSUME ResumeInv, NEW w \in Resumers, JobDone(w)
    PROVE  ResumeInv'
<1>1. ClockRests /\ row' = row /\ resumer' = [resumer EXCEPT ![w] = Nobody] /\ queue' = queue
  BY DEF JobDone, ClockRests, ResumeInv, ResumeRows
<1>2. \A r \in Resumable : ~OwesRow(resumer[w], r)
  BY DEF JobDone, OwesRow
<1>3. queue \subseteq queue' /\ ResumeJobs'
  BY <1>1 DEF ResumeInv, ResumeJobs
<1> QED  BY <1>1, <1>2, <1>3, BecomesNobody

\* A job that fails or is handed to another worker is in the queue again.
LEMMA PutBack ==
    ASSUME ResumeInv, NEW w \in Resumers, resumer[w].phase # "idle", NEW b \in BOOLEAN, NEW j,
           j = resumer[w].job \/ j = [resumer[w].job EXCEPT !.failed = b], queue' = queue \cup {j}
    PROVE  /\ queue \subseteq queue' /\ ResumeJobs'
           /\ \A r \in Resumable : OwesRow(resumer[w], r) => Queued(r)'
<1> DEFINE i == resumer[w].job
<1>1. ResumeJobFine(i)
  BY DEF ResumeInv, ResumeWorkers, ResumerFine
<1>2. /\ j \in ResumeJob /\ j.shop = i.shop /\ j.recovery = i.recovery
      /\ j.trigger = i.trigger /\ j.due = i.due
  <2> HIDE DEF i
  <2>1. i \in ResumeJob
    BY <1>1 DEF ResumeJobFine
  <2>2. j = i \/ j = [i EXCEPT !.failed = b]
    BY DEF i
  <2> QED  BY <2>1, <2>2 DEF ResumeJob
<1>3. ResumeJobFine(j)
  <2> HIDE DEF i
  <2> QED  BY <1>1, <1>2 DEF ResumeJobFine, Target
<1>4. ResumeJobs'
  BY <1>3 DEF ResumeInv, ResumeJobs
<1>5. \A r \in Resumable : OwesRow(resumer[w], r) => Queued(r)'
  BY <1>2 DEF OwesRow, Queued
<1> QED  BY <1>4, <1>5

LEMMA ResumeThrowsKeeps ==
    ASSUME ResumeInv, NEW w \in Resumers, ResumeThrows(w)
    PROVE  ResumeInv'
<1>1. ClockRests /\ row' = row /\ resumer' = [resumer EXCEPT ![w] = Nobody]
  BY DEF ResumeThrows, ClockRests, ResumeInv, ResumeRows
<1>2. /\ queue \subseteq queue' /\ ResumeJobs'
      /\ \A r \in Resumable : OwesRow(resumer[w], r) => Queued(r)'
  BY PutBack DEF ResumeThrows
<1> QED  BY <1>1, <1>2, BecomesNobody

LEMMA StallKeeps ==
    ASSUME ResumeInv, NEW w \in Resumers, Stall(w)
    PROVE  ResumeInv'
<1>1. /\ row' = row /\ resumer' = [resumer EXCEPT ![w] = Nobody] /\ rclock' = rclock /\ eligible' = eligible /\ refusal' = refusal
      /\ ResumeRows'
  BY DEF Stall, ResumeInv, ResumeRows
<1>2. /\ queue \subseteq queue' /\ ResumeJobs'
      /\ \A r \in Resumable : OwesRow(resumer[w], r) => Queued(r)'
  BY PutBack DEF Stall
<1> QED  BY <1>1, <1>2, NobodyFine, WorkerGoesOn

\* The recoveries of a batch are put in their order.
LEMMA SortedTyped ==
    ASSUME NEW S \in SUBSET Resumable
    PROVE  Sorted(S) \in Seq(Resumable)
<1>1. IsFiniteSet(S) /\ S \subseteq Nat
  BY ResumeTimes, FS_Subset
<1> DEFINE InOrder(q) == \A i, j \in 1 .. Cardinality(S) : i < j => q[i] < q[j]
<1>2. \E q \in [1 .. Cardinality(S) -> S] : InOrder(q)
  BY <1>1, Enumeration
<1>3. Sorted(S) = CHOOSE q \in [1 .. Cardinality(S) -> S] : InOrder(q)
  BY DEF Sorted
<1> HIDE DEF InOrder
<1>4. Sorted(S) \in [1 .. Cardinality(S) -> S]
  BY <1>2, <1>3
<1>5. Cardinality(S) \in Nat
  BY <1>1, FS_CardinalityType
<1>6. Sorted(S) \in [1 .. Cardinality(S) -> Resumable]
  BY <1>4
<1> QED  BY <1>5, <1>6

\* The worker that takes a job.
Taken(j, p, b) == [Nobody EXCEPT !.job = j, !.phase = p, !.batch = b]

LEMMA TakenFine ==
    ASSUME NEW j, ResumeJobFine(j), NEW time, j.due <= time, NEW p \in {"next", "done"},
           NEW b \in Seq(Resumable), Target(j) => b = <<j.recovery>>,
           NEW y, y = Taken(j, p, b)
    PROVE  y \in ResumerRow /\ ResumerFine(y, time) /\ y.phase = p /\ y.job = j /\ y.batch = b
<1>1. Nobody \in ResumerRow /\ j \in ResumeJob /\ p \in ResumePhases
  BY NobodyFine DEF ResumeJobFine, ResumePhases
<1>2. y \in ResumerRow /\ y.phase = p /\ y.job = j /\ y.batch = b
  BY <1>1 DEF ResumerRow, Taken
<1>3. ResumerFine(y, time)
  BY <1>2 DEF ResumerFine, WithRecovery
<1> QED  BY <1>2, <1>3

LEMMA TakeJobKeeps ==
    ASSUME ResumeInv, NEW w \in Resumers, NEW j \in queue, TakeJob(w, j)
    PROVE  ResumeInv'
<1>1. PICK p \in {"next", "done"} : p = IF eligible[j.shop] THEN "next" ELSE "done"
  OBVIOUS
<1>2. PICK b : b = IF Target(j) THEN <<j.recovery>> ELSE Sorted(FirstOf(Blocked(j.shop), BatchSize))
  OBVIOUS
<1>3. ResumeJobFine(j) /\ j.due <= rclock /\ j.recovery \in Resumable \cup {0}
  BY JobFields DEF ResumeInv, ResumeJobs, TakeJob, ResumeJobFine
<1>4. b \in Seq(Resumable)
  <2>1. FirstOf(Blocked(j.shop), BatchSize) \in SUBSET Resumable
    BY DEF FirstOf, Blocked
  <2>2. Target(j) => <<j.recovery>> \in Seq(Resumable)
    BY <1>3 DEF Target
  <2> QED  BY <1>2, <2>1, <2>2, SortedTyped
<1>5. PICK y : y = Taken(j, p, b)
  OBVIOUS
<1>6. y \in ResumerRow /\ ResumerFine(y, rclock) /\ y.phase = p /\ y.job = j /\ y.batch = b
  <2>1. Target(j) => b = <<j.recovery>>
    BY <1>2
  <2> QED  BY <1>1, <1>3, <1>4, <1>5, <2>1, TakenFine
<1>7. PICK new : new = [resumer EXCEPT ![w] = y]
  OBVIOUS
<1>8. /\ resumer' = new /\ queue' = queue \ {j} /\ UNCHANGED <<rclock, moves, rfaults, row, suppress, refusal, credit, eligible>>
      /\ resumer[w].phase = "idle"
  BY <1>1, <1>2, <1>5, <1>7 DEF TakeJob, Taken
<1>9. /\ new \in [Resumers -> ResumerRow]
      /\ \A u \in Resumers : new[u] = IF u = w THEN y ELSE resumer[u]
      /\ \A u \in Resumers : ResumerFine(new[u], rclock)
  BY <1>6, <1>7 DEF ResumeInv, ResumeWorkers
<1>10. ResumeWorkers'
  BY <1>8, <1>9 DEF ResumeWorkers
<1>11. ResumeRows' /\ RowsMove /\ eligible' = eligible /\ refusal' = refusal
  BY <1>8, RowsRest DEF ResumeInv, ResumeRows
<1>12. ResumeJobs'
  BY <1>8 DEF ResumeInv, ResumeJobs
<1>13. resumer' = Touched(new, 0)
  BY <1>8, <1>9, NobodyTouched
<1>14. \A u \in Resumers : \A r \in Resumable : OwesRow(resumer[u], r) => OwesRow(new[u], r)
  BY <1>8, <1>9 DEF OwesRow
<1>15. ASSUME NEW r \in Resumable, j.recovery = r PROVE Settled(r)' \/ OwesRow(new[w], r)
  <2>1. Target(j) /\ j.shop = ShopOf[r]
    BY <1>3, <1>15, ResumeTimes DEF Target, ResumeJobFine
  <2>2. CASE eligible[j.shop]
    <3>1. y.phase = "next" /\ y.batch = <<r>> /\ y.job.recovery = r
      BY <1>1, <1>2, <1>6, <1>15, <2>1, <2>2
    <3>2. OwesRow(y, r)
      BY <3>1 DEF OwesRow
    <3> QED  BY <1>9, <3>2
  <2>3. CASE ~eligible[j.shop]
    BY <1>8, <2>1, <2>3 DEF Settled
  <2> QED  BY <2>2, <2>3
<1>16. \A i \in queue : i \in queue'
         \/ (\A r \in Resumable : i.recovery = r => Settled(r)' \/ \E u \in Resumers : OwesRow(new[u], r))
  BY <1>8, <1>15
<1>17. \A u \in Resumers : new[u].phase = "mark" /\ new[u].fresh =>
         resumer[u].phase = "mark" /\ resumer[u].fresh /\ resumer[u].batch = new[u].batch
  BY <1>6, <1>9
<1>18. 0 \in Resumable \cup {0}
  OBVIOUS
<1>19. Woken'
  <2>1. (\A s \in Shops : eligible'[s] => eligible[s]) /\ RefusalsStay
    BY <1>8 DEF RefusalsStay
  <2> QED  BY <1>9, <1>11, <1>13, <1>14, <1>16, <1>17, <1>18, <2>1, WokenKept
<1> QED  BY <1>10, <1>11, <1>12, <1>19 DEF ResumeInv, RowsMove

-----------------------------------------------------------------------------
(* The surroundings.                                                       *)

LEMMA RepairKeeps ==
    ASSUME ResumeInv, NEW s \in Shops, Repair(s)
    PROVE  ResumeInv'
<1>1. ResumeJobFine(JobOf(s, 0, Trigger("repair"), 0))
  BY ShopJobFine DEF Trigger
<1>2. queue \subseteq queue' /\ ResumeJobs'
  BY <1>1, ScheduleAdds DEF Repair, ResumeInv
<1>3. ResumeRows' /\ rclock' >= rclock
  BY ResumeTimes DEF Repair, ResumeInv, ResumeRows
<1> QED  BY <1>2, <1>3, SurroundingsGoOn DEF Repair, RefusalsStay

LEMMA MovesCounted ==
    ASSUME Move, moves \in 0 .. MaxMoves
    PROVE  moves' \in 0 .. MaxMoves
BY ResumeAssumption DEF Move

LEMMA PurchaseKeeps ==
    ASSUME ResumeInv, NEW s \in Shops, Purchase(s)
    PROVE  ResumeInv'
<1>1. ResumeJobFine(JobOf(s, 0, Trigger("purchase"), 0)) /\ ResumeJobs
  BY ShopJobFine DEF Trigger, ResumeInv
<1>2. queue \subseteq queue' /\ ResumeJobs'
  <2>1. CASE queue' = queue
    BY <1>1, <2>1 DEF ResumeJobs
  <2> QED  BY <1>1, <2>1, ScheduleAdds DEF Purchase
<1>3. credit' \in [Shops -> 0 .. MaxCredit]
  <2>1. PICK c \in 0 .. MaxCredit : c = credit[s]
    BY DEF ResumeInv, ResumeRows
  <2>2. c + 1 \in 0 .. MaxCredit
    BY <2>1, ResumeAssumption DEF Purchase
  <2> QED  BY <2>1, <2>2 DEF Purchase, ResumeInv, ResumeRows
<1>4. moves' \in 0 .. MaxMoves
  BY MovesCounted DEF Purchase, ResumeInv, ResumeRows
<1>5. ResumeRows' /\ rclock' >= rclock
  BY <1>3, <1>4, ResumeTimes DEF Purchase, ResumeInv, ResumeRows
<1> QED  BY <1>2, <1>5, SurroundingsGoOn DEF Purchase, RefusalsStay

LEMMA ShopPausesKeeps ==
    ASSUME ResumeInv, NEW s \in Shops, ShopPauses(s)
    PROVE  ResumeInv'
<1>1. eligible' \in [Shops -> BOOLEAN] /\ \A q \in Shops : eligible'[q] => eligible[q]
  BY DEF ShopPauses, ResumeInv, ResumeRows
<1>2. moves' \in 0 .. MaxMoves
  BY MovesCounted DEF ShopPauses, ResumeInv, ResumeRows
<1>3. ResumeRows' /\ rclock' >= rclock
  BY <1>1, <1>2, ResumeTimes DEF ShopPauses, ResumeInv, ResumeRows
<1>4. queue \subseteq queue' /\ ResumeJobs'
  BY DEF ShopPauses, ResumeInv, ResumeJobs
<1> QED  BY <1>1, <1>3, <1>4, SurroundingsGoOn DEF ShopPauses, RefusalsStay

LEMMA UnreachableKeeps ==
    ASSUME ResumeInv, NEW r \in Resumable, Unreachable(r)
    PROVE  ResumeInv'
<1>1. suppress' \in [Resumable -> RTimes]
  BY ResumeTimes DEF Unreachable, ResumeInv, ResumeRows
<1>2. moves' \in 0 .. MaxMoves
  BY MovesCounted DEF Unreachable, ResumeInv, ResumeRows
<1>3. ResumeRows' /\ rclock' >= rclock
  BY <1>1, <1>2, ResumeTimes DEF Unreachable, ResumeInv, ResumeRows
<1>4. queue \subseteq queue' /\ ResumeJobs'
  BY DEF Unreachable, ResumeInv, ResumeJobs
<1> QED  BY <1>3, <1>4, SurroundingsGoOn DEF Unreachable, RefusalsStay

LEMMA RefuseKeeps ==
    ASSUME ResumeInv, NEW r \in Resumable, NEW kind \in Refusals, Refuse(r, kind)
    PROVE  ResumeInv'
<1>0. refusal \in [Resumable -> Refusals] /\ refusal' = [refusal EXCEPT ![r] = kind]
  BY DEF Refuse, ResumeInv, ResumeRows
<1>1. refusal' \in [Resumable -> Refusals] /\ RefusalsStay
  <2>1. kind # "none"
    BY DEF Refuse, Refusing
  <2> QED  BY <1>0, <2>1 DEF RefusalsStay
<1>2. moves' \in 0 .. MaxMoves
  BY MovesCounted DEF Refuse, ResumeInv, ResumeRows
<1>3. ResumeRows' /\ rclock' >= rclock
  BY <1>1, <1>2, ResumeTimes DEF Refuse, ResumeInv, ResumeRows
<1>4. queue \subseteq queue' /\ ResumeJobs'
  BY DEF Refuse, ResumeInv, ResumeJobs
<1> QED  BY <1>1, <1>3, <1>4, SurroundingsGoOn DEF Refuse

LEMMA ResumeTickKeeps ==
    ASSUME ResumeInv, ResumeTick
    PROVE  ResumeInv'
<1>1. rclock' \in RTimes /\ rclock' >= rclock
  BY ResumeTimes DEF ResumeTick, ResumeInv, ResumeRows
<1>2. ResumeRows'
  BY <1>1 DEF ResumeTick, ResumeInv, ResumeRows
<1>3. queue \subseteq queue' /\ ResumeJobs'
  BY DEF ResumeTick, ResumeInv, ResumeJobs
<1> QED  BY <1>1, <1>2, <1>3, SurroundingsGoOn DEF ResumeTick, RefusalsStay

LEMMA CustomerReturnsKeeps ==
    ASSUME ResumeInv, NEW r \in Resumable, CustomerReturns(r)
    PROVE  ResumeInv'
<1>1. /\ row \in [Resumable -> ResumeRow] /\ BlockedIsDetected /\ row[r] \in ResumeRow
      /\ rclock \in RTimes /\ rclock < ResumeHorizon /\ rclock' = rclock /\ eligible' = eligible /\ refusal' = refusal
  BY DEF CustomerReturns, ResumeInv, ResumeRows
<1>2. PICK q : q = [row[r] EXCEPT !.activity = rclock]
  OBVIOUS
<1>3. q \in ResumeRow /\ q.status = row[r].status /\ q.block = row[r].block
  BY <1>1, <1>2 DEF ResumeRow
<1>4. row' = [row EXCEPT ![r] = q] /\ resumer' = Touched(resumer, r)
  BY <1>2 DEF CustomerReturns, WriteRow
<1>5. RowsMove
  BY <1>1, <1>3, <1>4, RowWritten DEF BlockedIsDetected
<1>6. moves' \in 0 .. MaxMoves
  BY MovesCounted DEF CustomerReturns, ResumeInv, ResumeRows
<1>7. ResumeRows' /\ rclock' >= rclock
  BY <1>5, <1>6, ResumeTimes DEF CustomerReturns, ResumeInv, ResumeRows, RowsMove
<1>8. queue \subseteq queue' /\ ResumeJobs'
  <2>1. rclock + 1 \in DueTimes
    BY <1>1, ResumeTimes
  <2>2. ResumeJobFine(JobOf(ShopOf[r], r, <<"update", r, rclock>>, rclock + 1))
    BY <1>1, <2>1, WakeJobFine
  <2>3. CASE queue' = queue
    BY <2>3 DEF ResumeInv, ResumeJobs
  <2>4. CASE Schedule(JobOf(ShopOf[r], r, <<"update", r, rclock>>, rclock + 1))
    BY <2>2, <2>4, ScheduleAdds DEF ResumeInv
  <2> QED  BY <2>3, <2>4 DEF CustomerReturns
<1> QED  BY <1>1, <1>4, <1>5, <1>7, <1>8, SurroundingsMove DEF RefusalsStay

LEMMA OrderedKeeps ==
    ASSUME ResumeInv, NEW r \in Resumable, Ordered(r)
    PROVE  ResumeInv'
<1>1. /\ row \in [Resumable -> ResumeRow] /\ BlockedIsDetected /\ row[r] \in ResumeRow
      /\ rclock \in RTimes /\ rclock' = rclock /\ eligible' = eligible /\ refusal' = refusal
  BY DEF Ordered, ResumeInv, ResumeRows
<1>2. PICK q : q = [row[r] EXCEPT !.status = "COMPLETED", !.block = "none"]
  OBVIOUS
<1>3. q \in ResumeRow /\ q.status = "COMPLETED" /\ q.block = "none"
  <2>1. "COMPLETED" \in ResumeStatuses /\ "none" \in Blocks
    BY DEF ResumeStatuses, Blocks
  <2> QED  BY <1>1, <1>2, <2>1 DEF ResumeRow
<1>4. row' = [row EXCEPT ![r] = q] /\ resumer' = Touched(resumer, r)
  BY <1>2 DEF Ordered, WriteRow
<1>5. RowsMove
  BY <1>1, <1>3, <1>4, RowWritten
<1>6. moves' \in 0 .. MaxMoves
  BY MovesCounted DEF Ordered, ResumeInv, ResumeRows
<1>7. ResumeRows' /\ rclock' >= rclock
  BY <1>5, <1>6, ResumeTimes DEF Ordered, ResumeInv, ResumeRows, RowsMove
<1>8. queue \subseteq queue' /\ ResumeJobs'
  BY DEF Ordered, ResumeInv, ResumeJobs
<1> QED  BY <1>1, <1>4, <1>5, <1>7, <1>8, SurroundingsMove DEF RefusalsStay

-----------------------------------------------------------------------------
(* The theorems about the resumption.                                      *)

LEMMA ResumeInitInv == ResumeInit => ResumeInv
<1> SUFFICES ASSUME ResumeInit PROVE ResumeInv
  OBVIOUS
<1>1. rclock \in RTimes /\ moves \in 0 .. MaxMoves /\ rfaults \subseteq ResumeFaults
  BY ResumeTimes, ResumeAssumption DEF ResumeInit
<1>2. row \in [Resumable -> ResumeRow] /\ BlockedIsDetected
  <2>1. /\ [status |-> "DETECTED", block |-> "capacity", activity |-> 0] \in ResumeRow
        /\ [status |-> "COMPLETED", block |-> "none", activity |-> 0] \in ResumeRow
    BY ResumeTimes DEF ResumeRow, ResumeStatuses, Blocks
  <2> DEFINE Rows == {[status |-> "DETECTED", block |-> "capacity", activity |-> 0],
                      [status |-> "COMPLETED", block |-> "none", activity |-> 0]}
  <2>2. row \in [Resumable -> Rows]
    BY DEF ResumeInit
  <2>3. \A q \in Rows : q \in ResumeRow /\ (q.block # "none" => q.status = "DETECTED")
    BY <2>1
  <2> HIDE DEF Rows
  <2> QED  BY <2>2, <2>3 DEF BlockedIsDetected
<1>3. /\ suppress \in [Resumable -> RTimes] /\ eligible \in [Shops -> BOOLEAN]
      /\ credit \in [Shops -> 0 .. MaxCredit] /\ refusal \in [Resumable -> Refusals]
  BY ResumeTimes, ResumeAssumption DEF ResumeInit, Refusals
<1>4. ResumeJobs
  BY DEF ResumeInit, ResumeJobs
<1>5. resumer \in [Resumers -> ResumerRow] /\ \A w \in Resumers : resumer[w] = Nobody
  BY NobodyFine DEF ResumeInit
<1>6. ResumeWorkers /\ Woken
  BY <1>5, NobodyFine DEF ResumeWorkers, Woken
<1> QED  BY <1>1, <1>2, <1>3, <1>4, <1>6 DEF ResumeInv, ResumeRows

LEMMA ResumeUnchanged ==
    ASSUME ResumeInv, UNCHANGED resumeVars
    PROVE  ResumeInv'
<1>1. UNCHANGED <<rclock, moves, rfaults, row, suppress, refusal, credit, eligible, queue, resumer>>
  BY DEF resumeVars
<1>2. ResumeRows' /\ ResumeJobs' /\ rclock' >= rclock
  BY <1>1, ResumeTimes DEF ResumeInv, ResumeRows, ResumeJobs
<1> QED  BY <1>1, <1>2, SurroundingsGoOn DEF RefusalsStay

LEMMA ResumeStepInv ==
    ASSUME ResumeInv, [ResumeNext]_resumeVars
    PROVE  ResumeInv'
<1>1. ASSUME NEW s \in Shops, Repair(s) \/ Purchase(s) \/ ShopPauses(s) PROVE ResumeInv'
  BY <1>1, RepairKeeps, PurchaseKeeps, ShopPausesKeeps
<1>2. ASSUME NEW r \in Resumable,
             CustomerReturns(r) \/ Ordered(r) \/ Unreachable(r) \/ \E kind \in Refusals : Refuse(r, kind)
      PROVE  ResumeInv'
  BY <1>2, CustomerReturnsKeeps, OrderedKeeps, UnreachableKeeps, RefuseKeeps
<1>3. ASSUME NEW w \in Resumers, ResumeStep(w) PROVE ResumeInv'
  <2>1. CASE \E j \in queue : TakeJob(w, j)
    BY <2>1, TakeJobKeeps
  <2>2. CASE Prepare(w) \/ \E gone \in BOOLEAN : Recheck(w, gone)
    BY <2>2, PrepareKeeps, RecheckKeeps
  <2>3. CASE ResumeThrows(w) \/ ConsentLook(w) \/ Suppression(w) \/ Mark(w)
    BY <2>3, ResumeThrowsKeeps, ConsentLookKeeps, SuppressionKeeps, MarkKeeps
  <2>4. CASE Gate(w) \/ AdmitResumed(w) \/ Report(w)
    BY <2>4, GateKeeps, AdmitResumedKeeps, ReportKeeps
  <2>5. CASE BatchDone(w) \/ JobDone(w)
    BY <2>5, BatchDoneKeeps, JobDoneKeeps
  <2> QED  BY <1>3, <2>1, <2>2, <2>3, <2>4, <2>5 DEF ResumeStep
<1>4. ASSUME NEW w \in Resumers, Stall(w) PROVE ResumeInv'
  BY <1>4, StallKeeps
<1> QED  BY <1>1, <1>2, <1>3, <1>4, ResumeTickKeeps, ResumeUnchanged DEF ResumeNext

LEMMA ResumeInvTypes == ResumeInv => ResumeTypeOK
<1> SUFFICES ASSUME ResumeInv PROVE ResumeTypeOK
  OBVIOUS
<1>1. /\ rclock \in RTimes /\ moves \in 0 .. MaxMoves /\ rfaults \subseteq ResumeFaults
      /\ row \in [Resumable -> [status : ResumeStatuses, block : Blocks, activity : RTimes]]
      /\ suppress \in [Resumable -> RTimes] /\ credit \in [Shops -> 0 .. MaxCredit]
      /\ eligible \in [Shops -> BOOLEAN] /\ refusal \in [Resumable -> Refusals]
  BY DEF ResumeInv, ResumeRows, ResumeRow
<1>2. \A j \in queue : j.shop \in Shops /\ j.trigger \in Triggers
                       /\ j.recovery \in Resumable \cup {0} /\ j.due \in 0 .. ResumeHorizon + 1
  BY JobFields DEF ResumeInv, ResumeJobs, ResumeJobFine, DueTimes
<1> QED  BY <1>1, <1>2 DEF ResumeTypeOK

\* A row becomes suppressed in the mark of a worker only.
LEMMA OnlyMarkSuppresses ==
    ASSUME ResumeInv, [ResumeNext]_resumeVars, NEW r \in Resumable,
           row[r].block # "suppressed", row'[r].block = "suppressed"
    PROVE  \E w \in Resumers : Mark(w) /\ Marks(w, r) /\ r = Head(resumer[w].batch)
<1>1. row \in [Resumable -> ResumeRow] /\ row[r] \in ResumeRow /\ row' # row
  BY DEF ResumeInv, ResumeRows
<1>2. ASSUME NEW q, NEW p, row' = [row EXCEPT ![q] = p], p.block # "suppressed" PROVE FALSE
  BY <1>1, <1>2
<1>3. ASSUME NEW q \in Resumable PROVE Cancelled(q).block # "suppressed" /\ Unsuppressed(q).block # "suppressed"
  <2>1. row[q] \in ResumeRow
    BY <1>1
  <2> QED  BY <2>1 DEF Cancelled, Unsuppressed, ResumeRow
<1>4. ASSUME NEW w \in Resumers, ResumeStep(w) PROVE Mark(w)
  <2>1. CASE \E gone \in BOOLEAN : Recheck(w, gone)
    <3>1. Head(resumer[w].batch) \in Resumable
      BY <2>1, WorkersAtHand, WorkerAtHand DEF Recheck, WithRecovery
    <3>2. CASE row' = [row EXCEPT ![Head(resumer[w].batch)] = Cancelled(Head(resumer[w].batch))]
      BY <1>2, <1>3, <3>1, <3>2
    <3>3. CASE row' = [row EXCEPT ![Head(resumer[w].batch)] = Unsuppressed(Head(resumer[w].batch))]
      BY <1>2, <1>3, <3>1, <3>3
    <3> QED  BY <1>1, <2>1, <3>2, <3>3 DEF Recheck, DropWritten
  <2>2. CASE Suppression(w)
    <3>1. Head(resumer[w].batch) \in Resumable
      BY <2>2, WorkersAtHand, WorkerAtHand DEF Suppression, WithRecovery
    <3>2. \/ row' = [row EXCEPT ![Head(resumer[w].batch)] = Unsuppressed(Head(resumer[w].batch))]
          \/ row' = row
      BY <2>2 DEF Suppression
    <3> QED  BY <1>1, <1>2, <1>3, <3>1, <3>2
  <2>3. CASE AdmitResumed(w)
    <3>1. PICK q \in Resumable : q = Head(resumer[w].batch)
      BY <2>3, WorkersAtHand, WorkerAtHand DEF AdmitResumed, WithRecovery
    <3>2. row[q] \in ResumeRow
      BY <1>1
    <3>3. CASE row' = [row EXCEPT ![q] = [row[q] EXCEPT !.block = IF @ = "none" THEN "capacity" ELSE @]]
      BY <1>1, <3>2, <3>3 DEF ResumeRow
    <3>4. CASE row' = [row EXCEPT ![q] = [row[q] EXCEPT !.status = "MESSAGE_SENT", !.block = "none"]]
      BY <1>1, <3>2, <3>4 DEF ResumeRow
    <3> QED  BY <1>1, <2>3, <3>1, <3>3, <3>4 DEF AdmitResumed, AfterWrite
  <2>4. CASE \E j \in queue : TakeJob(w, j)
    BY <1>1, <2>4 DEF TakeJob
  <2>5. CASE Prepare(w) \/ ResumeThrows(w) \/ ConsentLook(w) \/ Gate(w) \/ Report(w) \/ BatchDone(w) \/ JobDone(w)
    BY <1>1, <2>5 DEF Prepare, ResumeThrows, ConsentLook, Gate, Report, BatchDone, JobDone
  <2> QED  BY <1>4, <2>1, <2>2, <2>3, <2>4, <2>5 DEF ResumeStep
<1>5. ASSUME NEW q \in Resumable, CustomerReturns(q) \/ Ordered(q) \/ Unreachable(q) PROVE FALSE
  <2>1. row[q] \in ResumeRow
    BY <1>1
  <2>2. CASE row' = [row EXCEPT ![q] = [row[q] EXCEPT !.activity = rclock]]
    BY <1>1, <2>1, <2>2 DEF ResumeRow
  <2>3. CASE row' = [row EXCEPT ![q] = [row[q] EXCEPT !.status = "COMPLETED", !.block = "none"]]
    BY <1>1, <2>1, <2>3 DEF ResumeRow
  <2> QED  BY <1>1, <1>5, <2>2, <2>3 DEF CustomerReturns, Ordered, Unreachable, WriteRow
<1>6. ASSUME NEW s \in Shops, Repair(s) \/ Purchase(s) \/ ShopPauses(s) PROVE FALSE
  BY <1>1, <1>6 DEF Repair, Purchase, ShopPauses
<1>7. /\ ~ResumeTick /\ ~UNCHANGED resumeVars /\ \A w \in Resumers : ~Stall(w)
      /\ \A q \in Resumable : \A kind \in Refusals : ~Refuse(q, kind)
  BY <1>1 DEF ResumeTick, resumeVars, Stall, Refuse
<1>8. PICK w \in Resumers : Mark(w)
  BY <1>4, <1>5, <1>6, <1>7 DEF ResumeNext
<1>9. PICK q \in Resumable : q = Head(resumer[w].batch)
  BY <1>8, WorkersAtHand, WorkerAtHand DEF Mark, WithRecovery
<1>10. Marks(w, q) /\ row' = [row EXCEPT ![q] = [row[q] EXCEPT !.block = "suppressed"]]
  BY <1>1, <1>8, <1>9 DEF Mark, AfterWrite
<1>11. r = q
  BY <1>1, <1>10
<1> QED  BY <1>8, <1>9, <1>10, <1>11

\* WakeupBeforeMark, for one step.
LEMMA MarkedIsWoken ==
    ASSUME ResumeInv, [ResumeNext]_resumeVars
    PROVE  \A r \in Resumable :
             row[r].block # "suppressed" /\ row'[r].block = "suppressed"
               => \/ \E j \in queue \cup Running : j.recovery = r /\ Target(j)
                  \/ ~eligible[ShopOf[r]] \/ refusal[r] # "none"
<1> SUFFICES ASSUME NEW r \in Resumable, row[r].block # "suppressed", row'[r].block = "suppressed",
                    eligible[ShopOf[r]], refusal[r] = "none"
             PROVE  \E j \in queue \cup Running : j.recovery = r /\ Target(j)
  OBVIOUS
<1>1. PICK w \in Resumers : Mark(w) /\ Marks(w, r) /\ r = Head(resumer[w].batch)
  BY OnlyMarkSuppresses
<1>2. WillWake(r) /\ ~Settled(r)
  BY <1>1 DEF Mark, Marks, ResumeInv, Woken, Settled
<1>3. CASE Queued(r)
  BY <1>3, ResumeTimes DEF Queued, Target
<1>4. ASSUME NEW v \in Resumers, OwesRow(resumer[v], r)
      PROVE  \E j \in queue \cup Running : j.recovery = r /\ Target(j)
  <2>1. resumer[v].job \in Running /\ resumer[v].job.recovery = r
    BY <1>4 DEF Running, OwesRow
  <2> QED  BY <2>1, ResumeTimes DEF Target
<1> QED  BY <1>2, <1>3, <1>4 DEF WillWake

\* The rows and jobs of the resumption are well formed, and a recovery that is blocked is still one to resume
\* (recovery-capacity-resume).
THEOREM ResumeTyped == ResumeSpec => [](ResumeTypeOK /\ BlockedIsDetected)
<1>1. ResumeInit => ResumeInv
  BY ResumeInitInv
<1>2. ResumeInv /\ [ResumeNext]_resumeVars => ResumeInv'
  BY ResumeStepInv
<1>3. ResumeInv => ResumeTypeOK /\ BlockedIsDetected
  BY ResumeInvTypes DEF ResumeInv
<1> QED  BY <1>1, <1>2, <1>3, PTL DEF ResumeSpec

\* The mark of a suppressed recovery never precedes the job that wakes it, for any number of workers and recoveries
\* (handleCheckoutCreated, recovery-capacity-resume).
THEOREM SuppressedIsWoken == ResumeSpec => WakeupBeforeMark
<1>1. ResumeInit => ResumeInv
  BY ResumeInitInv
<1>2. ResumeInv /\ [ResumeNext]_resumeVars => ResumeInv'
  BY ResumeStepInv
<1>3. ResumeInv /\ [ResumeNext]_resumeVars =>
        [\A r \in Resumable :
           row[r].block # "suppressed" /\ row'[r].block = "suppressed"
             => \/ \E j \in queue \cup Running : j.recovery = r /\ Target(j)
                \/ ~eligible[ShopOf[r]] \/ refusal[r] # "none"]_resumeVars
  BY MarkedIsWoken
<1> QED  BY <1>1, <1>2, <1>3, PTL DEF ResumeSpec, WakeupBeforeMark

-----------------------------------------------------------------------------
(* The pending candidates of a checkout: its jobs, aliases and generations.*)

Tries == 0 .. JobAttempts
Numbers == 0 .. MaxGeneration
CandJob == [state : JobStates, activity : Times, cart : BOOLEAN, url : BOOLEAN, tries : Tries]
CandRun == [phase : Phases, url : BOOLEAN, gen : Numbers]
CandRecovery == [status : Statuses, activity : Times, sent : BOOLEAN]
CandUpdate == [phase : UpdatePhases, t : Times, full : BOOLEAN, gen : Numbers]
Gens == 1 .. MaxGeneration

CandRows ==
    /\ now \in Times /\ events \in Nat /\ events <= MaxEvents /\ faults \subseteq Faults \cup {Emptied}
    /\ job \in [JobIds -> CandJob]
    /\ index \in JobIds \cup {NoJob} /\ cartIndex \in JobIds \cup {NoJob}
    /\ lock \in JobIds \cup {NoJob}
    /\ run \in [JobIds -> CandRun]
    /\ tombstone \in BOOLEAN /\ order \in {"none", "placed", "handled"}
    /\ recovery \in [Gens -> CandRecovery]
    /\ update \in [Updaters -> CandUpdate]
    /\ seen \in Times /\ crossed \in BOOLEAN

\* Every generation before g has expired.
Past(g) == \A h \in Gens : h < g => recovery[h].status = "EXPIRED"
NoneOpen == \A g \in Gens : recovery[g].status \notin Active
Checked(j) == run[j].phase = "checked"
Waiting(j) == job[j].state = "delayed" /\ job[j].tries = 0

GenerationInv ==
    /\ \A g \in Generations : Past(g)
    /\ \A j \in JobIds : Checked(j) => run[j].gen \in Gens /\ Past(run[j].gen)

\* An update that is to be recorded has found its recovery.
UpdateInv == \A u \in Updaters : update[u].phase = "record" => update[u].gen \in Gens

\* A worker has its job.
WorkInv == \A j \in JobIds : run[j].phase # "idle" => job[j].state = "active"

LockInv == faults \cap {"lockLapses", "tombstoneLapses"} = {} =>
    /\ order = "handled" => tombstone
    /\ \A j \in JobIds : Checked(j) => lock = j /\ order # "handled"

\* An alias names a job, the cart's no other than the checkout's; a first wait has the aliases.
Aliased ==
    /\ index # NoJob => Exists(index)
    /\ cartIndex # NoJob => cartIndex = index /\ job[cartIndex].cart
    /\ \A j \in JobIds : Waiting(j) => index = j
Untouched ==
    /\ \A j \in JobIds : job[j].state = "none"
    /\ \A g \in Gens : recovery[g].status = "none"
    /\ \A u \in Updaters : update[u].phase = "none"
    /\ seen = 0
Parted == faults \cap {"createdAgain", "updatedAgain"} # {}
AliasInv == ~Parted => Aliased /\ (events = 0 => Untouched)

\* No recovery is open beside a candidate that an order would cancel, unless an update has put it there.
OpenInv == faults \subseteq {Emptied} =>
    /\ ~crossed /\ order = "handled" => NoneOpen
    /\ ~crossed /\ index # NoJob /\ job[index].state # "active" => NoneOpen
    /\ \A j \in JobIds : Checked(j) => index \in {NoJob, j}

\* No activity has been accepted yet.
Untaken == seen = 0 /\ \A j \in JobIds : job[j].state = "none"
\* The activity seen last is known to the candidate, or to an open recovery, or has aged.
Covered ==
    \/ Untaken
    \/ Exists(index) /\ job[index].activity >= seen
    \/ seen + Delay <= now
    \/ \E g \in Gens : recovery[g].status \in Active /\ recovery[g].activity >= seen
QuietInv == faults = {} /\ Delay <= Lifetime =>
    /\ \A j \in JobIds : job[j].state = "active" => job[j].activity + Delay <= now
    /\ order # "handled" => Covered

CandInv == CandRows /\ GenerationInv /\ UpdateInv /\ WorkInv /\ LockInv /\ AliasInv /\ OpenInv /\ QuietInv

LEMMA CandBounds ==
    /\ Times \subseteq Nat /\ 0 \in Times
    /\ \A s, t \in Times : MaxOf(s, t) \in Times /\ MaxOf(s, t) >= s /\ MaxOf(s, t) >= t
    /\ 0 \in Tries /\ Tries \subseteq Nat /\ 0 \in Numbers /\ Numbers \subseteq Nat
    /\ Gens \subseteq Nat /\ 0 \notin Gens /\ Gens \subseteq Numbers /\ IsFiniteSet(Gens)
    /\ 1 \in Gens /\ \A g \in Nat : g > 0 /\ g <= MaxGeneration => g \in Gens
<1>1. IsFiniteSet(Gens)
  BY CandidateAssumption, FS_Interval DEF Gens
<1> QED  BY <1>1, CandidateAssumption DEF Times, MaxOf, Tries, Numbers, Gens

LEMMA JobIdFacts ==
    /\ Base \in JobIds /\ NoJob \notin JobIds
    /\ \A t \in Times : Successor(t) \in JobIds /\ SuccessorRetry(t) \in JobIds
BY NoJobAssumption DEF JobIds

LEMMA CandRowsTyped == CandRows <=> CandTypeOK
BY CandidateAssumption DEF CandRows, CandTypeOK, CandJob, CandRun, CandRecovery, CandUpdate, Gens, Tries, Numbers

LEMMA CandFields ==
    /\ \A x \in CandJob : /\ x.state \in JobStates /\ x.activity \in Times /\ x.cart \in BOOLEAN
                          /\ x.url \in BOOLEAN /\ x.tries \in Tries
    /\ \A x \in CandRun : x.phase \in Phases /\ x.url \in BOOLEAN /\ x.gen \in Numbers
    /\ \A x \in CandRecovery : x.status \in Statuses /\ x.activity \in Times /\ x.sent \in BOOLEAN
BY DEF CandJob, CandRun, CandRecovery

LEMMA CandWritten ==
    /\ \A x \in CandJob, s \in JobStates : [x EXCEPT !.state = s] \in CandJob
    /\ \A x \in CandJob, t \in Times : [x EXCEPT !.activity = t] \in CandJob
    /\ \A x \in CandJob, t \in Times, c, u \in BOOLEAN :
          /\ [x EXCEPT !.activity = t, !.cart = c, !.url = u] \in CandJob
          /\ [x EXCEPT !.cart = c, !.url = u] \in CandJob
    /\ \A t \in Times, c, u \in BOOLEAN : Fresh(t, c, u) \in CandJob
    /\ NoneJob \in CandJob
    /\ \A x \in CandRun, p \in Phases : [x EXCEPT !.phase = p] \in CandRun
    /\ \A x \in CandRun, p \in Phases, g \in Gens : [x EXCEPT !.phase = p, !.gen = g] \in CandRun
    /\ Idle \in CandRun /\ \A u \in BOOLEAN : [phase |-> "picked", url |-> u, gen |-> 0] \in CandRun
    /\ \A x \in CandRecovery, s \in Statuses : [x EXCEPT !.status = s] \in CandRecovery
    /\ \A x \in CandRecovery, t \in Times : [x EXCEPT !.activity = t] \in CandRecovery
    /\ NoRecovery \in CandRecovery
BY CandBounds DEF CandJob, CandRun, CandRecovery, Fresh, NoneJob, Idle, NoRecovery, JobStates, Phases, Statuses

LEMMA UpdateWritten ==
    /\ NoUpdate \in CandUpdate /\ NoUpdate.phase = "none"
    /\ \A x \in CandUpdate : x.phase \in UpdatePhases /\ x.t \in Times /\ x.full \in BOOLEAN /\ x.gen \in Numbers
    /\ \A x \in CandUpdate, q \in UpdatePhases : /\ [x EXCEPT !.phase = q] \in CandUpdate
                                                 /\ [x EXCEPT !.phase = q, !.full = TRUE] \in CandUpdate
    /\ \A x \in CandUpdate, q \in UpdatePhases, g \in Numbers : [x EXCEPT !.phase = q, !.gen = g] \in CandUpdate
    /\ \A q \in UpdatePhases, t \in Times, f \in BOOLEAN :
          [phase |-> q, t |-> t, full |-> f, gen |-> 0] \in CandUpdate
BY CandBounds DEF CandUpdate, NoUpdate, UpdatePhases

LEMMA ErrorCounted ==
  ASSUME NEW x \in CandJob
  PROVE  /\ AfterError(x) \in CandJob /\ AfterError(x).state \in {"delayed", "failed"}
         /\ AfterError(x).state = "delayed" => AfterError(x).tries # 0
         /\ AfterError(x).cart = x.cart /\ AfterError(x).activity = x.activity
<1> PICK n : n = x.tries
  OBVIOUS
<1>1. n \in Nat
  BY CandBounds, CandFields
<1>2. CASE n + 1 < JobAttempts
  <2>1. n + 1 \in Tries /\ n + 1 # 0
    BY <1>1, <1>2, CandidateAssumption DEF Tries
  <2>2. AfterError(x) = [x EXCEPT !.state = "delayed", !.tries = n + 1]
    BY <1>2 DEF AfterError
  <2> QED  BY <2>1, <2>2 DEF CandJob, JobStates
<1>3. CASE ~(n + 1 < JobAttempts)
  <2>1. AfterError(x) = [x EXCEPT !.state = "failed"]
    BY <1>3 DEF AfterError
  <2> QED  BY <2>1 DEF CandJob, JobStates
<1> QED  BY <1>2, <1>3

-----------------------------------------------------------------------------
(* Generations.                                                            *)

LEMMA LatestFacts ==
  /\ Generations = {} => Latest = 0
  /\ Generations # {} => Latest \in Generations /\ \A h \in Generations : h <= Latest
<1>1. CASE Generations = {}
  BY <1>1 DEF Latest
<1>2. CASE Generations # {}
  <2>1. IsFiniteSet(Generations) /\ Generations \subseteq Nat
    BY CandBounds, FS_Subset DEF Generations, Gens
  <2>2. \E m \in Generations : \A h \in Generations : h <= m
    BY <1>2, <2>1, GreatestElement
  <2> QED  BY <1>2, <2>2 DEF Latest
<1> QED  BY <1>1, <1>2

\* A recovery that is open is the latest one.
LEMMA OpenIsLatest ==
  ASSUME CandRows, GenerationInv
  PROVE  /\ \A g \in Gens : recovery[g].status \in Active => g = Latest
         /\ NoneOpen <=> LatestStatus \notin Active
         /\ Latest = 0 \/ (Latest \in Gens /\ LatestStatus = recovery[Latest].status /\ LatestStatus # "none"
                           /\ Past(Latest))
         /\ Latest = 0 => LatestStatus = "none" /\ Generations = {}
<1>1. Latest = 0 \/ (Latest \in Gens /\ LatestStatus = recovery[Latest].status /\ LatestStatus # "none" /\ Past(Latest))
  BY LatestFacts, CandBounds DEF Generations, GenerationInv, LatestStatus, Gens
<1>2. ASSUME NEW g \in Gens, recovery[g].status \in Active PROVE g = Latest
  <2>1. g \in Generations
    BY <1>2 DEF Generations, Gens, Active
  <2>2. Latest \in Generations /\ g <= Latest /\ Latest \in Nat /\ g \in Nat
    BY <2>1, LatestFacts, CandBounds DEF Generations, Gens
  <2>3. ~(g < Latest)
    BY <1>2, <2>2 DEF GenerationInv, Past, Active
  <2> QED  BY <2>2, <2>3
<1>3. Latest = 0 => LatestStatus = "none" /\ Generations = {}
  BY LatestFacts, CandBounds DEF LatestStatus, Generations, Gens
<1>4. NoneOpen <=> LatestStatus \notin Active
  <2>1. ASSUME NEW g \in Gens, recovery[g].status \in Active PROVE LatestStatus \in Active
    BY <1>1, <1>2, <2>1, CandBounds
  <2>2. ASSUME LatestStatus \in Active PROVE \E g \in Gens : recovery[g].status \in Active
    BY <1>1, <1>3, <2>2 DEF Active
  <2> QED  BY <2>1, <2>2 DEF NoneOpen
<1> QED  BY <1>1, <1>2, <1>3, <1>4

\* What may become of a generation: an open one changes its status, a new one follows expired ones.
Evolves(g) ==
    \/ recovery'[g].status = recovery[g].status
    \/ recovery[g].status \in Active /\ recovery'[g].status # "none"
    \/ recovery[g].status = "none" /\ Past(g)

LEMMA PastKept ==
  ASSUME NEW g, Past(g), \A h \in Gens : Evolves(h)
  PROVE  Past(g)'
BY DEF Past, Evolves, Active

LEMMA GenerationKept ==
  ASSUME GenerationInv, \A g \in Gens : Evolves(g),
         \A j \in JobIds : Checked(j)' => \/ Checked(j) /\ run'[j].gen = run[j].gen
                                          \/ run'[j].gen \in Gens /\ Past(run'[j].gen)
  PROVE  GenerationInv'
<1>1. ASSUME NEW g \in Gens, recovery'[g].status # "none" PROVE Past(g)'
  <2>1. Past(g)
    BY <1>1 DEF Evolves, GenerationInv, Generations, Gens, Active
  <2> QED  BY <2>1, PastKept
<1>2. ASSUME NEW j \in JobIds, Checked(j)' PROVE run'[j].gen \in Gens /\ Past(run[j].gen)'
  <2>1. PICK g : g = run'[j].gen
    OBVIOUS
  <2>2. g \in Gens /\ Past(g)
    BY <1>2, <2>1 DEF GenerationInv
  <2>3. Past(g)'
    BY <2>2, PastKept
  <2> QED  BY <2>1, <2>2, <2>3 DEF Past
<1> QED  BY <1>1, <1>2 DEF GenerationInv, Generations, Gens

-----------------------------------------------------------------------------
(* Jobs and aliases.                                                       *)

\* A candidate is put: its job is new, or it is and stays in its state.
Puts(j, d) ==
    /\ j \in JobIds /\ d \in CandJob /\ job' = [job EXCEPT ![j] = d] /\ index' = j
    /\ cartIndex' = (IF d.cart THEN j ELSE cartIndex) \/ (index = j /\ cartIndex' = cartIndex)
    /\ d.state = IF job[j].state = "none" THEN "delayed" ELSE job[j].state

\* The candidate put is no worker's, takes the place of one that waits, keeps its cart and its activity.
Replaces(j, d, t) ==
    /\ job[j].state \in {"none", "delayed"}
    /\ \A k \in JobIds : Waiting(k) => k = j
    /\ cartIndex # NoJob => d.cart
    /\ d.activity >= t
    /\ Exists(index) => d.activity >= job[index].activity

LEMMA PutsTyped ==
  ASSUME CandRows, NEW j, NEW d, Puts(j, d)
  PROVE  /\ job' \in [JobIds -> CandJob] /\ index' = j
         /\ cartIndex' = (IF d.cart THEN j ELSE cartIndex) \/ (index = j /\ cartIndex' = cartIndex)
         /\ index' \in JobIds /\ cartIndex' \in JobIds \cup {NoJob}
         /\ \A k \in JobIds : job'[k] = IF k = j THEN d ELSE job[k]
BY DEF Puts, CandRows

LEMMA CreatedPuts ==
  ASSUME CandRows, CheckoutCreated
  PROVE  \E d : Puts(Base, d) /\ (events = 0 /\ Untouched => d.activity >= 0 /\ d.cart)
<1>0. PICK x : x = job[Base]
  OBVIOUS
<1>1. x \in CandJob /\ Base \in JobIds /\ Base # NoJob
  BY <1>0, JobIdFacts DEF CandRows
<1>2. CASE Exists(Base)
  <2> PICK d : d = [x EXCEPT !.activity = Merged(Base, 0), !.cart = TRUE, !.url = TRUE]
    OBVIOUS
  <2>1. Put(Base, d)
    BY <1>0, <1>2 DEF CheckoutCreated
  <2>2. Merged(Base, 0) \in Times
    BY <1>0, <1>1, CandBounds, CandFields DEF Merged
  <2>3. d \in CandJob
    BY <1>1, <2>2, CandWritten
  <2>4. d.state = x.state /\ d.cart /\ d.activity \in Times
    BY <1>1, <2>2, <2>3 DEF CandJob
  <2>5. x.state # "none"
    BY <1>0, <1>2 DEF Exists
  <2>6. d.activity >= 0
    <3>1. Times \subseteq Nat
      BY CandBounds
    <3> QED  BY <2>4, <3>1
  <2> QED  BY <1>0, <1>1, <2>1, <2>3, <2>4, <2>5, <2>6 DEF Puts, Put
<1>3. CASE ~Exists(Base)
  <2>d. PICK d : d = Fresh(0, TRUE, TRUE)
    OBVIOUS
  <2>1. Put(Base, d)
    BY <1>3, <2>d DEF CheckoutCreated
  <2>2. d \in CandJob
    BY <2>d, CandWritten, CandBounds
  <2>4. d.state = "delayed" /\ d.cart
    BY <2>d DEF Fresh
  <2>3. Puts(Base, d)
    BY <1>1, <1>3, <2>1, <2>2, <2>4 DEF Puts, Put, Exists
  <2>5. d.activity \in Nat
    <3>1. Times \subseteq Nat
      BY CandBounds
    <3> QED  BY <2>2, <3>1, CandFields
  <2>6. d.activity >= 0
    BY <2>5
  <2> QED  BY <2>3, <2>4, <2>6
<1> QED  BY <1>2, <1>3

LEMMA RefreshPuts ==
  ASSUME CandRows, NEW t \in Times, NEW full \in BOOLEAN, index \in JobIds, RefreshCandidate(index, t, full)
  PROVE  \E d : /\ Puts(index, d) /\ job[index].state = "delayed" /\ d.activity >= t
                /\ d.activity >= job[index].activity /\ (job[index].cart => d.cart)
<1>j. PICK j \in JobIds : j = index
  OBVIOUS
<1>0. PICK x : x = job[j]
  OBVIOUS
<1>1. x \in CandJob /\ x.activity \in Times /\ x.cart \in BOOLEAN /\ x.url \in BOOLEAN
  BY <1>0, CandFields DEF CandRows
<1> DEFINE c == x.cart \/ full  u == x.url \/ full
<1>2. c \in BOOLEAN /\ u \in BOOLEAN
  OBVIOUS
<1>b. PICK data : data = [x EXCEPT !.cart = c, !.url = u]
  OBVIOUS
<1>3. /\ x.state = "delayed"
      /\ \/ t > x.activity /\ Put(j, [data EXCEPT !.activity = t])
         \/ /\ ~(t > x.activity) /\ job' = [job EXCEPT ![j] = data] /\ index' = index
            /\ cartIndex' = (IF full /\ ~x.cart THEN j ELSE cartIndex)
  BY <1>j, <1>0, <1>b DEF RefreshCandidate
<1>4. data \in CandJob /\ data.state = x.state /\ data.cart = c /\ data.activity = x.activity
  <2> HIDE DEF c, u
  <2> QED  BY <1>1, <1>2, <1>b, CandWritten DEF CandJob
<1>5. CASE t > x.activity /\ Put(j, [data EXCEPT !.activity = t])
  <2>d. PICK d : d = [data EXCEPT !.activity = t]
    OBVIOUS
  <2>1. d \in CandJob /\ d.state = x.state /\ d.cart = c /\ d.activity = t
    BY <1>4, <2>d, CandWritten DEF CandJob
  <2>2. Puts(j, d)
    BY <1>0, <1>3, <1>5, <2>d, <2>1 DEF Puts, Put
  <2>3. d.activity >= t /\ d.activity >= x.activity
    BY <1>1, <1>5, <2>1, CandBounds
  <2> QED  BY <1>j, <1>0, <1>3, <2>1, <2>2, <2>3
<1>6. CASE /\ ~(t > x.activity) /\ job' = [job EXCEPT ![j] = data] /\ index' = index
           /\ cartIndex' = (IF full /\ ~x.cart THEN j ELSE cartIndex)
  <2>1. Puts(j, data)
    BY <1>j, <1>0, <1>3, <1>4, <1>6 DEF Puts
  <2>2. t \in Nat /\ x.activity \in Nat /\ data.activity = x.activity /\ ~(t > x.activity)
    BY <1>1, <1>4, <1>6, CandBounds
  <2>3. data.activity >= t /\ data.activity >= x.activity
    BY <2>2
  <2> QED  BY <1>j, <1>0, <1>3, <1>4, <2>1, <2>3
<1> QED  BY <1>3, <1>5, <1>6

\* The candidate that Reschedule starts from, and the one it puts.
LEMMA ReschedulePuts ==
  ASSUME CandRows, NEW t \in Times, NEW full \in BOOLEAN, Reschedule(t, full)
  PROVE  \E j, d : /\ Puts(j, d)
                   /\ Aliased /\ "updatedAgain" \notin faults => Replaces(j, d, t)
<1> DEFINE c0 == IF index # NoJob /\ Exists(index) THEN index
                 ELSE IF Exists(Base) THEN Base ELSE NoJob
           w0 == IF c0 = NoJob THEN Base ELSE Successor(t)
           g0 == IF job[w0].state \in {"none", "delayed"} THEN w0 ELSE SuccessorRetry(t)
<1>c. PICK current : current = c0
  OBVIOUS
<1>t. PICK aimed : aimed = g0
  OBVIOUS
<1>f. PICK from : from = IF Exists(aimed) THEN aimed ELSE current
  OBVIOUS
<1>1. /\ current \in JobIds \cup {NoJob} /\ (current # NoJob => Exists(current))
      /\ Exists(index) => current = index
      /\ ~Exists(index) /\ Exists(Base) => current = Base
  BY <1>c, JobIdFacts DEF Exists, CandRows
<1>2. aimed \in JobIds
  BY <1>t, JobIdFacts
<1>3. from \in JobIds \cup {NoJob} /\ (from # NoJob => Exists(from))
  BY <1>1, <1>2, <1>f
<1> DEFINE kc == from # NoJob /\ job[from].cart
           ku == from # NoJob /\ job[from].url
<1>4. CASE current # NoJob /\ job[current].state = "delayed"
  <2>x. PICK x : x = job[current]
    OBVIOUS
  <2> DEFINE c == x.cart \/ full  u == x.url \/ full
  <2>d. PICK d : d = [x EXCEPT !.activity = Merged(current, t), !.cart = c, !.url = u]
    OBVIOUS
  <2>1. Put(current, d)
    BY <1>4, <1>c, <2>x, <2>d DEF Reschedule
  <2>2. x \in CandJob /\ current \in JobIds /\ x.activity \in Times /\ x.cart \in BOOLEAN /\ x.url \in BOOLEAN
    BY <1>1, <1>4, <2>x, CandFields DEF CandRows
  <2>3. Merged(current, t) = MaxOf(x.activity, t)
    BY <1>1, <1>4, <2>x DEF Merged
  <2>4. Merged(current, t) \in Times /\ Merged(current, t) >= t /\ Merged(current, t) >= x.activity
    BY <2>2, <2>3, CandBounds
  <2>5. c \in BOOLEAN /\ u \in BOOLEAN
    BY <2>2
  <2>6. d \in CandJob /\ d.state = x.state /\ d.activity = Merged(current, t) /\ d.cart = (x.cart \/ full)
    <3>m. PICK m : m = Merged(current, t)
      OBVIOUS
    <3>2. x \in CandJob /\ m \in Times /\ d = [x EXCEPT !.activity = m, !.cart = c, !.url = u]
      BY <2>2, <2>4, <2>d, <3>m
    <3> HIDE DEF c, u
    <3>3. d \in CandJob
      BY <2>5, <3>2, CandWritten
    <3>4. d.state = x.state /\ d.activity = m /\ d.cart = c
      BY <3>2 DEF CandJob
    <3> QED  BY <3>3, <3>4, <3>m DEF c
  <2>7. Puts(current, d)
    BY <1>4, <2>1, <2>2, <2>6, <2>x DEF Puts, Put
  <2>8. ASSUME Aliased PROVE Replaces(current, d, t)
    <3>1. \A k \in JobIds : Waiting(k) => k = current
      BY <1>1, <1>4, <2>8, JobIdFacts DEF Aliased, Exists, Waiting
    <3>2. cartIndex # NoJob => d.cart
      BY <1>1, <1>4, <2>6, <2>8, <2>x DEF Aliased
    <3> QED  BY <1>1, <1>4, <2>4, <2>6, <2>x, <3>1, <3>2 DEF Replaces
  <2> QED  BY <2>7, <2>8
<1>5. CASE ~(current # NoJob /\ job[current].state = "delayed")
  <2>b. PICK b : b = IF Exists(aimed) THEN job[aimed] ELSE Fresh(t, FALSE, FALSE)
    OBVIOUS
  <2> DEFINE c == kc \/ full  u == ku \/ full
  <2>d. PICK d : d = [b EXCEPT !.activity = Merged(from, t), !.cart = c, !.url = u]
    OBVIOUS
  <2>1. Put(aimed, d) /\ (Exists(aimed) => "updatedAgain" \in faults)
    BY <1>5, <1>c, <1>t, <1>f, <2>b, <2>d DEF Reschedule
  <2>2. b \in CandJob /\ b.state = IF job[aimed].state = "none" THEN "delayed" ELSE job[aimed].state
    <3>1. Exists(aimed) <=> job[aimed].state # "none"
      BY <1>2, JobIdFacts DEF Exists
    <3>2. Fresh(t, FALSE, FALSE) \in CandJob /\ Fresh(t, FALSE, FALSE).state = "delayed"
      BY CandWritten DEF Fresh
    <3> QED  BY <1>2, <3>1, <3>2, <2>b DEF CandRows
  <2>3. /\ Merged(from, t) \in Times /\ Merged(from, t) >= t
        /\ from # NoJob => Merged(from, t) >= job[from].activity
    <3>1. from # NoJob => job[from].activity \in Times
      BY <1>3, CandFields DEF CandRows
    <3>2. CASE from = NoJob
      <4>1. Merged(from, t) = t
        BY <3>2 DEF Merged, Exists
      <4> QED  BY <3>2, <4>1, CandBounds
    <3>3. CASE from # NoJob
      <4>1. Merged(from, t) = MaxOf(job[from].activity, t)
        BY <1>3, <3>3 DEF Merged
      <4> QED  BY <3>1, <3>3, <4>1, CandBounds
    <3> QED  BY <3>2, <3>3
  <2>4. d \in CandJob /\ d.state = b.state /\ d.activity = Merged(from, t) /\ (d.cart <=> kc \/ full)
    <3>1. c \in BOOLEAN /\ u \in BOOLEAN
      BY <1>3, CandFields DEF CandRows
    <3>m. PICK m : m = Merged(from, t)
      OBVIOUS
    <3>2. b \in CandJob /\ m \in Times /\ d = [b EXCEPT !.activity = m, !.cart = c, !.url = u]
      BY <2>2, <2>3, <2>d, <3>m
    <3> HIDE DEF c, u
    <3>3. d \in CandJob
      BY <3>1, <3>2, CandWritten
    <3>4. d.state = b.state /\ d.activity = m /\ d.cart = c
      BY <3>2 DEF CandJob
    <3> QED  BY <3>3, <3>4, <3>m DEF c
  <2>5. Puts(aimed, d)
    BY <1>2, <2>1, <2>2, <2>4 DEF Puts, Put
  <2>6. ASSUME Aliased, "updatedAgain" \notin faults PROVE Replaces(aimed, d, t)
    <3>1. ~Exists(aimed) /\ job[aimed].state = "none" /\ from = current
      BY <1>2, <2>1, <2>6, <1>f, JobIdFacts DEF Exists
    <3>2. \A k \in JobIds : ~Waiting(k)
      BY <1>1, <1>5, <2>6, JobIdFacts DEF Aliased, Exists, Waiting
    <3>3. cartIndex # NoJob => d.cart
      BY <1>1, <2>4, <2>6, <3>1 DEF Aliased
    <3> QED  BY <1>1, <2>3, <2>4, <3>1, <3>2, <3>3 DEF Replaces, Exists
  <2> QED  BY <2>5, <2>6
<1> QED  BY <1>4, <1>5

\* What an update of the checkout does: nothing but to be taken in hand, looked at or given up; it puts a candidate for
\* an activity t; or it is recorded with an open recovery.
Updated ==
    \/ \E t \in Times, full \in BOOLEAN : UpdateRefreshes(t, full)
    \/ \E u \in Updaters, t \in Times, full \in BOOLEAN : UpdateMisses(u, t, full)
    \/ \E u \in Updaters : UpdateLookup(u) \/ UpdateSchedule(u) \/ UpdateRecord(u) \/ UpdateStops(u)
Rested ==
    UNCHANGED <<now, faults, job, index, cartIndex, lock, run, tombstone, order, recovery, seen, crossed>>
Rescheduled(t) ==
    /\ lock = NoJob /\ UNCHANGED <<now, faults, lock, run, tombstone, order, recovery>>
    /\ seen' = MaxOf(seen, t) /\ crossed' \in BOOLEAN
    /\ \E j, d : Puts(j, d) /\ (Aliased /\ "updatedAgain" \notin faults => Replaces(j, d, t))
    /\ faults \subseteq {Emptied} /\ ~crossed' => ~crossed /\ NoneOpen
Recorded(t) ==
    /\ UNCHANGED <<now, faults, job, index, cartIndex, lock, run, tombstone, order, crossed>>
    /\ seen' = MaxOf(seen, t)
    /\ \E g \in Gens : /\ recovery[g].status \in Active /\ recovery[g].activity < t
                       /\ recovery' = [recovery EXCEPT ![g].activity = t]

\* The updates in hand after it.
LEMMA UpdatesKept ==
  ASSUME CandRows, GenerationInv, UpdateInv, Updated
  PROVE  update' \in [Updaters -> CandUpdate] /\ UpdateInv'
<1>w. ASSUME NEW u \in Updaters, NEW y \in CandUpdate, update' = [update EXCEPT ![u] = y],
             y.phase = "record" => y.gen \in Gens
      PROVE  update' \in [Updaters -> CandUpdate] /\ UpdateInv'
  BY <1>w DEF CandRows, UpdateInv
<1>e. ASSUME NEW u \in Updaters, EndUpdate(u) PROVE update' \in [Updaters -> CandUpdate] /\ UpdateInv'
  BY <1>e, <1>w, UpdateWritten DEF EndUpdate
<1>1. ASSUME NEW t \in Times, NEW full \in BOOLEAN, UpdateRefreshes(t, full)
      PROVE  update' \in [Updaters -> CandUpdate] /\ UpdateInv'
  BY <1>1 DEF UpdateRefreshes, CandRows, UpdateInv
<1>2. ASSUME NEW u \in Updaters, NEW t \in Times, NEW full \in BOOLEAN, UpdateMisses(u, t, full)
      PROVE  update' \in [Updaters -> CandUpdate] /\ UpdateInv'
  <2>1. "lookup" \in UpdatePhases
    BY DEF UpdatePhases
  <2>y. PICK y : y = [phase |-> "lookup", t |-> t, full |-> full, gen |-> 0]
    OBVIOUS
  <2>2. y \in CandUpdate /\ y.phase = "lookup"
    BY <2>1, <2>y, UpdateWritten
  <2>3. update' = [update EXCEPT ![u] = y]
    BY <1>2, <2>y DEF UpdateMisses
  <2> QED  BY <1>w, <2>2, <2>3
<1>3. ASSUME NEW u \in Updaters, UpdateLookup(u) PROVE update' \in [Updaters -> CandUpdate] /\ UpdateInv'
  <2>x. PICK x : x = update[u]
    OBVIOUS
  <2>l. PICK l : l = Latest
    OBVIOUS
  <2>1. x \in CandUpdate /\ x.gen \in Numbers
    BY <2>x, UpdateWritten DEF CandRows
  <2>2. "schedule" \in UpdatePhases /\ "record" \in UpdatePhases
    BY DEF UpdatePhases
  <2>3. LatestStatus \in Active => l \in Gens /\ l \in Numbers
    BY <2>l, OpenIsLatest, CandBounds DEF Active
  <2>y. PICK y : y = CASE LatestStatus = "none" -> [x EXCEPT !.phase = "schedule"]
                       [] LatestStatus = "EXPIRED" -> [x EXCEPT !.phase = "schedule", !.full = TRUE]
                       [] LatestStatus \in Active -> [x EXCEPT !.phase = "record", !.gen = l]
                       [] OTHER -> NoUpdate
    OBVIOUS
  <2>4. update' = [update EXCEPT ![u] = y]
    BY <1>3, <2>x, <2>l, <2>y DEF UpdateLookup
  <2>5. CASE LatestStatus = "none"
    <3>1. y = [x EXCEPT !.phase = "schedule"]
      BY <2>y, <2>5 DEF Active
    <3>2. y \in CandUpdate /\ y.phase = "schedule"
      BY <2>1, <2>2, <3>1, UpdateWritten DEF CandUpdate
    <3> QED  BY <1>w, <2>4, <3>2
  <2>6. CASE LatestStatus = "EXPIRED"
    <3>1. y = [x EXCEPT !.phase = "schedule", !.full = TRUE]
      BY <2>y, <2>6 DEF Active
    <3>2. y \in CandUpdate /\ y.phase = "schedule"
      BY <2>1, <2>2, <3>1, UpdateWritten DEF CandUpdate
    <3> QED  BY <1>w, <2>4, <3>2
  <2>7. CASE LatestStatus \in Active
    <3>1. y = [x EXCEPT !.phase = "record", !.gen = l]
      BY <2>y, <2>7 DEF Active
    <3>2. y \in CandUpdate /\ y.gen = l
      BY <2>1, <2>2, <2>3, <2>7, <3>1, UpdateWritten DEF CandUpdate
    <3> QED  BY <1>w, <2>3, <2>4, <2>7, <3>2
  <2>8. CASE LatestStatus \notin {"none", "EXPIRED"} \cup Active
    <3>1. y = NoUpdate
      BY <2>y, <2>8
    <3> QED  BY <1>w, <2>4, <3>1, UpdateWritten
  <2> QED  BY <2>5, <2>6, <2>7, <2>8
<1>4. ASSUME NEW u \in Updaters, UpdateSchedule(u) \/ UpdateRecord(u) \/ UpdateStops(u)
      PROVE  update' \in [Updaters -> CandUpdate] /\ UpdateInv'
  BY <1>e, <1>4 DEF UpdateSchedule, UpdateRecord, UpdateStops
<1> QED  BY <1>1, <1>2, <1>3, <1>4 DEF Updated

LEMMA UpdatedEither ==
  ASSUME CandInv, Updated
  PROVE  Rested \/ (\E t \in Times : Rescheduled(t)) \/ (\E t \in Times : Recorded(t))
<1>0. CandRows /\ GenerationInv /\ UpdateInv /\ OpenInv
  BY DEF CandInv
<1>1. ASSUME NEW t \in Times, NEW full \in BOOLEAN, UpdateRefreshes(t, full) PROVE Rescheduled(t)
  <2>1. /\ lock = NoJob /\ UNCHANGED <<now, faults, lock, run, tombstone, order, recovery, crossed>>
        /\ seen' = MaxOf(seen, t) /\ Indexed # NoJob /\ RefreshCandidate(Indexed, t, full)
    BY <1>1 DEF UpdateRefreshes
  <2>2. Indexed = index /\ index \in JobIds /\ Exists(index) /\ index # NoJob
    BY <1>0, <2>1 DEF Indexed, CandRows
  <2>3. PICK d : /\ Puts(index, d) /\ job[index].state = "delayed" /\ d.activity >= t
                 /\ d.activity >= job[index].activity /\ (job[index].cart => d.cart)
    BY <1>0, <2>1, <2>2, RefreshPuts
  <2>4. Aliased => Replaces(index, d, t)
    BY <2>2, <2>3, JobIdFacts DEF Aliased, Replaces
  <2>5. faults \subseteq {Emptied} /\ ~crossed' => ~crossed /\ NoneOpen
    BY <1>0, <2>1, <2>2, <2>3 DEF OpenInv
  <2>6. crossed' \in BOOLEAN
    BY <1>0, <2>1 DEF CandRows
  <2> QED  BY <2>1, <2>3, <2>4, <2>5, <2>6 DEF Rescheduled
<1>2. ASSUME NEW u \in Updaters, UpdateSchedule(u), ~tombstone PROVE \E t \in Times : Rescheduled(t)
  <2>t. PICK t \in Times : t = update[u].t
    BY <1>0, UpdateWritten DEF CandRows
  <2>f. PICK full \in BOOLEAN : full = update[u].full
    BY <1>0, UpdateWritten DEF CandRows
  <2>1. /\ lock = NoJob /\ UNCHANGED <<now, faults, lock, run, tombstone, order, recovery>>
        /\ seen' = MaxOf(seen, t) /\ Reschedule(t, full) /\ crossed' = (crossed \/ LatestStatus \in Active)
    BY <1>2, <2>t, <2>f DEF UpdateSchedule
  <2>2. \E j, d : Puts(j, d) /\ (Aliased /\ "updatedAgain" \notin faults => Replaces(j, d, t))
    BY <1>0, <2>1, ReschedulePuts
  <2>3. ~crossed' => ~crossed /\ NoneOpen
    BY <1>0, <2>1, OpenIsLatest
  <2>4. crossed' \in BOOLEAN
    BY <2>1
  <2> QED  BY <2>1, <2>2, <2>3, <2>4 DEF Rescheduled
<1>3. ASSUME NEW u \in Updaters, UpdateSchedule(u), tombstone PROVE Rested
  BY <1>3 DEF UpdateSchedule, Rested
<1>4. ASSUME NEW u \in Updaters, UpdateRecord(u) PROVE Rested \/ \E t \in Times : Recorded(t)
  <2>t. PICK t \in Times : t = update[u].t
    BY <1>0, UpdateWritten DEF CandRows
  <2>g. PICK g \in Gens : g = update[u].gen
    BY <1>0, <1>4 DEF UpdateRecord, UpdateInv
  <2>1. UNCHANGED <<now, faults, job, index, cartIndex, lock, run, tombstone, order, crossed>>
    BY <1>4 DEF UpdateRecord
  <2>2. CASE recovery[g].status \in Active /\ recovery[g].activity < t
    <3>1. recovery' = [recovery EXCEPT ![g].activity = t] /\ seen' = MaxOf(seen, t)
      BY <1>4, <2>t, <2>g, <2>2 DEF UpdateRecord
    <3> QED  BY <2>1, <2>2, <3>1 DEF Recorded
  <2>3. CASE ~(recovery[g].status \in Active /\ recovery[g].activity < t)
    BY <1>4, <2>t, <2>g, <2>1, <2>3 DEF UpdateRecord, Rested
  <2> QED  BY <2>2, <2>3
<1>5. ASSUME NEW u \in Updaters, NEW t \in Times, NEW full \in BOOLEAN, UpdateMisses(u, t, full) PROVE Rested
  BY <1>5 DEF UpdateMisses, Rested
<1>6. ASSUME NEW u \in Updaters, UpdateLookup(u) \/ UpdateStops(u) PROVE Rested
  BY <1>6 DEF UpdateLookup, UpdateStops, Rested
<1> QED  BY <1>1, <1>2, <1>3, <1>4, <1>5, <1>6 DEF Updated

LEMMA RecordFacts ==
  ASSUME CandRows, GenerationInv, NEW t \in Times, Recorded(t)
  PROVE  \E l \in Gens : /\ recovery[l].status \in Active
                          /\ recovery' \in [Gens -> CandRecovery]
                          /\ \A g \in Gens : /\ recovery'[g].status = recovery[g].status
                                              /\ recovery'[g].sent = recovery[g].sent
                                              /\ recovery'[g].activity >= recovery[g].activity
                          /\ recovery'[l].activity = t
<1>1. PICK l \in Gens : /\ recovery[l].status \in Active /\ recovery[l].activity < t
                        /\ recovery' = [recovery EXCEPT ![l].activity = t]
  BY DEF Recorded
<1>x. PICK x : x = recovery[l]
  OBVIOUS
<1>2. x \in CandRecovery /\ x.activity \in Times
  BY <1>x, CandFields DEF CandRows
<1>y. PICK y : y = [x EXCEPT !.activity = t]
  OBVIOUS
<1>3. recovery \in [Gens -> CandRecovery] /\ recovery' = [recovery EXCEPT ![l] = y]
  BY <1>1, <1>x, <1>y DEF CandRows
<1>4. y \in CandRecovery /\ y.status = x.status /\ y.sent = x.sent /\ y.activity = t
  BY <1>2, <1>y, CandWritten DEF CandRecovery
<1>5. \A g \in Gens : recovery'[g] = IF g = l THEN y ELSE recovery[g]
  BY <1>3
<1>6. \A g \in Gens : recovery[g].activity \in Times
  BY <1>3, CandFields
<1>7. t >= x.activity /\ \A g \in Gens : recovery[g].activity >= recovery[g].activity
  <2>1. \A n \in Times : n >= n
    BY CandBounds
  <2> QED  BY <1>1, <1>2, <1>6, <1>x, <2>1, CandBounds
<1> QED  BY <1>1, <1>3, <1>4, <1>5, <1>7, <1>x

LEMMA ResolveAliased ==
  ASSUME CandRows, Aliased, NEW b \in BOOLEAN, Resolve(b) # NoJob
  PROVE  Resolve(b) = index /\ index \in JobIds /\ Exists(index) /\ index # NoJob
<1>1. Resolve(b) \in {index, cartIndex} /\ Exists(Resolve(b))
  BY DEF Resolve
<1> QED  BY <1>1 DEF CandRows, Aliased, Exists

LEMMA ResolveJob ==
  ASSUME CandRows, NEW b \in BOOLEAN, Resolve(b) # NoJob
  PROVE  Resolve(b) \in JobIds
<1>1. Resolve(b) \in {index, cartIndex}
  BY DEF Resolve
<1> QED  BY <1>1 DEF CandRows

\* A cart event refreshes the candidate it finds, or cancels it.
LEMMA CartEither ==
  ASSUME CandRows, NEW t \in Times, NEW empty \in BOOLEAN, CartActivity(t, empty)
  PROVE  \E j \in JobIds : /\ j = Resolve(FALSE) /\ j # NoJob /\ job[j].state = "delayed"
                           /\ \/ empty /\ Cancel(j) /\ Emptied \in faults
                              \/ \E d : ~empty /\ Puts(j, d) /\ (Aliased => Replaces(j, d, t))
<1>j. PICK j : j = Resolve(FALSE)
  OBVIOUS
<1>1. /\ j # NoJob /\ job[j].cart /\ job[j].state = "delayed" /\ t > job[j].activity
      /\ IF empty THEN Cancel(j) ELSE Put(j, [job[j] EXCEPT !.activity = t])
      /\ empty => Emptied \in faults
  BY <1>j DEF CartActivity
<1>2. j \in JobIds
  BY <1>j, <1>1, ResolveJob
<1>3. CASE ~empty
  <2>x. PICK x : x = job[j]
    OBVIOUS
  <2>d. PICK d : d = [x EXCEPT !.activity = t]
    OBVIOUS
  <2>1. Put(j, d) /\ x \in CandJob /\ x.activity \in Times
    BY <1>1, <1>2, <1>3, <2>x, <2>d, CandFields DEF CandRows
  <2>2. d \in CandJob /\ d.state = x.state /\ d.cart = x.cart /\ d.activity = t
    BY <2>1, <2>d, CandWritten DEF CandJob
  <2>3. Puts(j, d)
    BY <1>1, <1>2, <2>1, <2>2, <2>x DEF Puts, Put
  <2>4. t >= t /\ t >= x.activity
    BY <1>1, <2>1, <2>x, CandBounds
  <2>5. ASSUME Aliased PROVE Replaces(j, d, t)
    <3>1. j = index /\ Exists(index)
      BY <1>j, <1>1, <2>5, ResolveAliased
    <3> QED  BY <1>1, <2>2, <2>4, <2>5, <2>x, <3>1, JobIdFacts DEF Aliased, Replaces
  <2> QED  BY <1>j, <1>1, <1>2, <1>3, <2>3, <2>5
<1> QED  BY <1>j, <1>1, <1>2, <1>3

LEMMA CancelFacts ==
  ASSUME CandRows, NEW j \in JobIds, Cancel(j)
  PROVE  /\ job[j].state # "active" /\ job' \in [JobIds -> CandJob] /\ index' = NoJob
         /\ \A k \in JobIds : job'[k] = IF k = j THEN NoneJob ELSE job[k]
         /\ cartIndex' = (IF job[j].cart THEN NoJob ELSE cartIndex) /\ cartIndex' \in JobIds \cup {NoJob}
BY CandWritten DEF CandRows, Cancel, Removable

LEMMA PickFacts ==
  ASSUME CandRows, NEW j \in JobIds, Pick(j)
  PROVE  /\ job' \in [JobIds -> CandJob] /\ run' \in [JobIds -> CandRun]
         /\ job'[j].state = "active" /\ job'[j].cart = job[j].cart /\ job'[j].activity = job[j].activity
         /\ \A k \in JobIds : k # j => job'[k] = job[k] /\ run'[k] = run[k]
         /\ run'[j].phase = "picked"
<1>x. PICK x : x = job[j]
  OBVIOUS
<1>y. PICK y : y = [x EXCEPT !.state = "active"]
  OBVIOUS
<1>u. PICK u : u = [phase |-> "picked", url |-> job[j].url, gen |-> 0]
  OBVIOUS
<1>1. x \in CandJob /\ job[j].url \in BOOLEAN
  BY <1>x, CandFields DEF CandRows
<1>2. y \in CandJob /\ y.state = "active" /\ y.cart = x.cart /\ y.activity = x.activity
  <2>1. "active" \in JobStates
    BY DEF JobStates
  <2>2. y \in CandJob
    BY <1>1, <1>y, <2>1, CandWritten
  <2>3. y.state = "active" /\ y.cart = x.cart /\ y.activity = x.activity
    BY <1>1, <1>y DEF CandJob
  <2> QED  BY <2>2, <2>3
<1>3. u \in CandRun /\ u.phase = "picked"
  BY <1>1, <1>u, CandWritten
<1>4. job' = [job EXCEPT ![j] = y] /\ run' = [run EXCEPT ![j] = u]
  BY <1>x, <1>y, <1>u DEF Pick
<1> QED  BY <1>2, <1>3, <1>4, <1>x DEF CandRows

LEMMA LeaveFacts ==
  ASSUME CandRows, NEW j \in JobIds, NEW p \in Phases, Leave(j, p)
  PROVE  /\ run' \in [JobIds -> CandRun] /\ run'[j].phase = p
         /\ \A k \in JobIds : k # j => run'[k] = run[k]
<1>x. PICK x : x = run[j]
  OBVIOUS
<1>y. PICK y : y = [x EXCEPT !.phase = p]
  OBVIOUS
<1>1. x \in CandRun
  BY <1>x DEF CandRows
<1>2. y \in CandRun /\ y.phase = p
  BY <1>1, <1>y, CandWritten DEF CandRun
<1>3. run' = [run EXCEPT ![j] = y]
  BY <1>x, <1>y DEF Leave
<1> QED  BY <1>2, <1>3 DEF CandRows

LEMMA FinishFacts ==
  ASSUME CandRows, NEW j \in JobIds, Finish(j)
  PROVE  /\ job' \in [JobIds -> CandJob] /\ run' \in [JobIds -> CandRun] /\ run'[j].phase = "idle"
         /\ index' \in JobIds \cup {NoJob} /\ cartIndex' \in JobIds \cup {NoJob}
         /\ run[j].phase # "idle" /\ lock = NoJob
         /\ \A k \in JobIds : k # j => job'[k] = job[k] /\ run'[k] = run[k]
         /\ job'[j].state \in {"none", "delayed", "failed"} /\ ~Waiting(j)'
         /\ IF index = j THEN index' = NoJob /\ cartIndex' = IF job[j].cart THEN NoJob ELSE cartIndex
            ELSE index' = index /\ cartIndex' = cartIndex
<1>y. PICK y : y = IF run[j].phase = "cleanup" THEN NoneJob ELSE AfterError(job[j])
  OBVIOUS
<1>0. job[j] \in CandJob
  BY DEF CandRows
<1>1. AfterError(job[j]) \in CandJob /\ AfterError(job[j]).state \in {"delayed", "failed"}
      /\ (AfterError(job[j]).state = "delayed" => AfterError(job[j]).tries # 0)
  BY <1>0, ErrorCounted
<1>2. y \in CandJob /\ y.state \in {"none", "delayed", "failed"} /\ (y.state = "delayed" => y.tries # 0)
  BY <1>1, <1>y, CandWritten DEF NoneJob
<1>3. job' = [job EXCEPT ![j] = y] /\ run' = [run EXCEPT ![j] = Idle]
  BY <1>y DEF Finish
<1>4. job'[j] = y /\ job' \in [JobIds -> CandJob] /\ \A k \in JobIds : k # j => job'[k] = job[k]
  BY <1>2, <1>3 DEF CandRows
<1>5. run' \in [JobIds -> CandRun] /\ run'[j].phase = "idle" /\ \A k \in JobIds : k # j => run'[k] = run[k]
  BY <1>3, CandWritten DEF CandRows, Idle
<1>6. /\ index' \in JobIds \cup {NoJob} /\ cartIndex' \in JobIds \cup {NoJob}
      /\ IF index = j THEN index' = NoJob /\ cartIndex' = IF job[j].cart THEN NoJob ELSE cartIndex
         ELSE index' = index /\ cartIndex' = cartIndex
  BY DEF Finish, DropAliases, CandRows
<1>7. run[j].phase # "idle" /\ lock = NoJob
  BY DEF Finish
<1> QED  BY <1>2, <1>4, <1>5, <1>6, <1>7 DEF Waiting

\* The recovery a matured candidate starts, or starts again.
LEMMA InitiateFacts ==
  ASSUME CandRows, GenerationInv, NEW j \in JobIds, NEW s \in {"MESSAGE_SENT", "DETECTED"}, Initiate(j, s)
  PROVE  LET gen == run[j].gen IN
         /\ Checked(j) /\ gen \in Gens /\ Past(gen)
         /\ recovery' \in [Gens -> CandRecovery]
         /\ \A g \in Gens : g # gen => recovery'[g] = recovery[g]
         /\ IF recovery[gen].status \in {"none", "DETECTED"}
            THEN /\ recovery'[gen].status = s
                 /\ recovery[gen].status = "DETECTED" => recovery'[gen].activity = recovery[gen].activity
            ELSE recovery'[gen] = recovery[gen]
         /\ Leave(j, "cleanup") \/ Leave(j, "errored")
         /\ lock' = IF lock = j THEN NoJob ELSE lock
<1>g. PICK gen : gen = run[j].gen
  OBVIOUS
<1>0. Checked(j) /\ gen \in Gens /\ Past(gen)
  BY <1>g DEF Initiate, Checked, GenerationInv
<1>x. PICK x : x = recovery[gen]
  OBVIOUS
<1>m. PICK m : m = IF x.status = "none" THEN job[j].activity ELSE x.activity
  OBVIOUS
<1>y. PICK y : y = [status |-> s, activity |-> m, sent |-> x.sent \/ s = "MESSAGE_SENT"]
  OBVIOUS
<1>1. x \in CandRecovery /\ x.activity \in Times /\ job[j].activity \in Times
  BY <1>0, <1>x, CandFields DEF CandRows
<1>2. m \in Times /\ (x.status = "DETECTED" => m = x.activity)
  BY <1>1, <1>m
<1>3. y \in CandRecovery /\ y.status = s /\ y.activity = m
  BY <1>2, <1>y DEF CandRecovery, Statuses
<1>4. recovery' = [recovery EXCEPT ![gen] = IF x.status \in {"none", "DETECTED"} THEN y ELSE x]
  BY <1>g, <1>x, <1>m, <1>y DEF Initiate, StartRecovery
<1>5. Leave(j, "cleanup") \/ Leave(j, "errored")
  BY DEF Initiate
<1>6. lock' = IF lock = j THEN NoJob ELSE lock
  BY DEF Initiate, Free
<1>7. recovery' \in [Gens -> CandRecovery] /\ \A g \in Gens : g # gen => recovery'[g] = recovery[g]
  BY <1>0, <1>1, <1>3, <1>4 DEF CandRows
<1>8. recovery'[gen] = IF x.status \in {"none", "DETECTED"} THEN y ELSE x
  BY <1>0, <1>4 DEF CandRows
<1> QED  BY <1>g, <1>x, <1>0, <1>2, <1>3, <1>5, <1>6, <1>7, <1>8

LEMMA NextGenerationPast ==
  ASSUME CandRows, GenerationInv, NextGeneration \in Gens
  PROVE  Past(NextGeneration)
<1>l. PICK l : l = Latest
  OBVIOUS
<1>1. l = 0 \/ (l \in Gens /\ LatestStatus # "none" /\ LatestStatus = recovery[l].status /\ Past(l))
  BY <1>l, OpenIsLatest
<1>2. CASE l = 0
  <2>0. Latest = 0 /\ LatestStatus = "none"
    BY <1>l, <1>2 DEF LatestStatus
  <2>1. NextGeneration = 1
    BY <2>0, Zenon DEF NextGeneration
  <2>2. \A h \in Gens : ~(h < 1)
    BY CandidateAssumption DEF Gens
  <2> QED  BY <2>1, <2>2 DEF Past
<1>3. CASE l # 0 /\ LatestStatus = "DETECTED"
  <2>1. NextGeneration = l
    BY <1>l, <1>3 DEF NextGeneration
  <2> QED  BY <1>1, <1>3, <2>1
<1>4. CASE l # 0 /\ LatestStatus = "EXPIRED"
  <2>1. NextGeneration = l + 1
    BY <1>l, <1>4 DEF NextGeneration
  <2>2. ASSUME NEW h \in Gens, h < l + 1 PROVE recovery[h].status = "EXPIRED"
    <3>1. h = l \/ h < l
      BY <1>1, <1>4, <2>2, CandidateAssumption DEF Gens
    <3> QED  BY <1>1, <1>4, <3>1 DEF Past
  <2> QED  BY <2>1, <2>2 DEF Past
<1>5. CASE l # 0 /\ LatestStatus \notin {"DETECTED", "EXPIRED"}
  <2>1. NextGeneration = 0
    BY <1>l, <1>5 DEF NextGeneration
  <2> QED  BY <2>1, CandBounds
<1> QED  BY <1>2, <1>3, <1>4, <1>5

LEMMA StatusWritten ==
  ASSUME CandRows, NEW g \in Gens, NEW s \in Statuses, recovery' = [recovery EXCEPT ![g].status = s]
  PROVE  /\ recovery' \in [Gens -> CandRecovery]
         /\ recovery'[g].status = s
         /\ \A h \in Gens : h # g => recovery'[h] = recovery[h]
         /\ \A h \in Gens : recovery'[h].activity = recovery[h].activity /\ recovery'[h].sent = recovery[h].sent
<1>x. PICK x : x = recovery[g]
  OBVIOUS
<1>y. PICK y : y = [x EXCEPT !.status = s]
  OBVIOUS
<1>1. x \in CandRecovery
  BY <1>x DEF CandRows
<1>2. y \in CandRecovery /\ y.status = s /\ y.activity = x.activity /\ y.sent = x.sent
  BY <1>1, <1>y, CandWritten DEF CandRecovery
<1>3. recovery' = [recovery EXCEPT ![g] = y]
  BY <1>x, <1>y
<1> QED  BY <1>2, <1>3, <1>x DEF CandRows

LEMMA CheckFacts ==
  ASSUME CandRows, GenerationInv, NEW j \in JobIds, MaterializeCheck(j)
  PROVE  /\ lock = NoJob /\ run[j].phase = "picked"
         /\ run' \in [JobIds -> CandRun] /\ \A k \in JobIds : k # j => run'[k] = run[k]
         /\ recovery' \in [Gens -> CandRecovery]
         /\ \A g \in Gens : /\ recovery'[g].activity = recovery[g].activity /\ recovery'[g].sent = recovery[g].sent
                            /\ \/ recovery'[g].status = recovery[g].status
                               \/ recovery[g].status \in Active /\ recovery'[g].status = "MESSAGE_SENT"
         /\ \/ run'[j].phase \in {"cleanup", "errored"} /\ lock' = lock
            \/ /\ Checked(j)' /\ run'[j].gen \in Gens /\ Past(run'[j].gen)
               /\ lock' = j /\ ~tombstone /\ ~Superseded(j)
<1> DEFINE Same == recovery' = recovery
           Left == Leave(j, "cleanup") \/ Leave(j, "errored")
           Sent == recovery' = [recovery EXCEPT ![Latest].status = "MESSAGE_SENT"]
           Gone == /\ NextGeneration \in Gens /\ ~tombstone /\ ~Superseded(j)
                   /\ run' = [run EXCEPT ![j].phase = "checked", ![j].gen = NextGeneration] /\ lock' = j
<1>1. \/ Left /\ lock' = lock /\ Same
      \/ Left /\ lock' = lock /\ Latest > 0 /\ LatestStatus = "DETECTED" /\ Sent
      \/ Gone /\ Same
  BY DEF MaterializeCheck, Gens
<1>2. lock = NoJob /\ run[j].phase = "picked"
  BY DEF MaterializeCheck
<1>3. Left => /\ run' \in [JobIds -> CandRun] /\ run'[j].phase \in {"cleanup", "errored"}
              /\ \A k \in JobIds : k # j => run'[k] = run[k]
  BY LeaveFacts DEF Phases
<1>4. Same => /\ recovery' \in [Gens -> CandRecovery]
              /\ \A g \in Gens : recovery'[g] = recovery[g]
  BY DEF CandRows
<1>5. CASE Left /\ lock' = lock /\ Same
  BY <1>2, <1>3, <1>4, <1>5
<1>6. CASE Left /\ lock' = lock /\ Latest > 0 /\ LatestStatus = "DETECTED" /\ Sent
  <2>l. PICK l : l = Latest
    OBVIOUS
  <2>1. l \in Gens /\ recovery[l].status = "DETECTED"
    BY <1>6, <2>l, OpenIsLatest
  <2>2. recovery' = [recovery EXCEPT ![l].status = "MESSAGE_SENT"] /\ "MESSAGE_SENT" \in Statuses
    BY <1>6, <2>l DEF Statuses
  <2>3. /\ recovery' \in [Gens -> CandRecovery]
        /\ recovery'[l].status = "MESSAGE_SENT"
        /\ \A h \in Gens : h # l => recovery'[h] = recovery[h]
        /\ \A h \in Gens : recovery'[h].activity = recovery[h].activity /\ recovery'[h].sent = recovery[h].sent
    BY <2>1, <2>2, StatusWritten
  <2>4. \A g \in Gens : \/ recovery'[g].status = recovery[g].status
                        \/ recovery[g].status \in Active /\ recovery'[g].status = "MESSAGE_SENT"
    BY <2>1, <2>3 DEF Active
  <2> QED  BY <1>2, <1>3, <1>6, <2>3, <2>4
<1>7. CASE Gone /\ Same
  <2>n. PICK n : n = NextGeneration
    OBVIOUS
  <2>x. PICK x : x = run[j]
    OBVIOUS
  <2>y. PICK y : y = [x EXCEPT !.phase = "checked", !.gen = n]
    OBVIOUS
  <2>1. n \in Gens /\ Past(n) /\ x \in CandRun
    BY <1>7, <2>n, <2>x, NextGenerationPast DEF CandRows
  <2>2. y \in CandRun /\ y.phase = "checked" /\ y.gen = n
    <3>1. "checked" \in Phases
      BY DEF Phases
    <3>2. y \in CandRun
      BY <2>1, <2>y, <3>1, CandWritten
    <3>3. y.phase = "checked" /\ y.gen = n
      BY <2>1, <2>y DEF CandRun
    <3> QED  BY <3>2, <3>3
  <2>3. run' = [run EXCEPT ![j] = y]
    BY <1>7, <2>n, <2>x, <2>y
  <2>4. run' \in [JobIds -> CandRun] /\ run'[j] = y /\ \A k \in JobIds : k # j => run'[k] = run[k]
    BY <2>2, <2>3 DEF CandRows
  <2>5. Checked(j)' /\ run'[j].gen \in Gens /\ Past(run'[j].gen)
    BY <2>1, <2>2, <2>4 DEF Checked
  <2> QED  BY <1>2, <1>4, <1>7, <2>4, <2>5
<1> QED  BY <1>1, <1>5, <1>6, <1>7

\* An order completes the open recovery, if there is one.
LEMMA CompleteFacts ==
  ASSUME CandRows, GenerationInv, CompleteForOrder
  PROVE  /\ recovery' \in [Gens -> CandRecovery] /\ NoneOpen'
         /\ \A g \in Gens : /\ recovery'[g].sent = recovery[g].sent
                            /\ \/ recovery'[g].status = recovery[g].status
                               \/ recovery[g].status \in Active /\ recovery'[g].status = "COMPLETED"
<1>1. CASE LatestStatus \in Active
  <2>l. PICK l : l = Latest
    OBVIOUS
  <2>1. l \in Gens /\ recovery[l].status \in Active /\ \A g \in Gens : recovery[g].status \in Active => g = l
    BY <1>1, <2>l, OpenIsLatest DEF Active
  <2>2. recovery' = [recovery EXCEPT ![l].status = "COMPLETED"] /\ "COMPLETED" \in Statuses
    BY <1>1, <2>l DEF CompleteForOrder, Statuses
  <2>3. /\ recovery' \in [Gens -> CandRecovery]
        /\ recovery'[l].status = "COMPLETED"
        /\ \A h \in Gens : h # l => recovery'[h] = recovery[h]
        /\ \A h \in Gens : recovery'[h].activity = recovery[h].activity /\ recovery'[h].sent = recovery[h].sent
    BY <2>1, <2>2, StatusWritten
  <2> QED  BY <2>1, <2>3 DEF NoneOpen, Active
<1>2. CASE LatestStatus \notin Active
  <2>1. recovery' = recovery /\ NoneOpen
    BY <1>2, OpenIsLatest DEF CompleteForOrder
  <2> QED  BY <2>1 DEF CandRows, NoneOpen
<1> QED  BY <1>1, <1>2

-----------------------------------------------------------------------------
(* Steps.                                                                  *)

\* The steps, one by one.
LEMMA CandSteps ==
  ASSUME CandNext
  PROVE  \/ CheckoutCreated
         \/ Updated
         \/ \E t \in Times, empty \in BOOLEAN : CartActivity(t, empty)
         \/ PlaceOrder
         \/ OrderCompleted
         \/ OrderCrashes
         \/ \E j \in JobIds : Pick(j)
         \/ \E j \in JobIds : MaterializeCheck(j)
         \/ \E j \in JobIds : LookupFails(j) \/ LookupDiscards(j)
         \/ \E j \in JobIds : Finish(j)
         \/ \E j \in JobIds, s \in {"MESSAGE_SENT", "DETECTED"} : Initiate(j, s)
         \/ \E g \in Gens : Expire(g)
         \/ Advance \/ LockLapses \/ TombstoneLapses
BY DEF CandNext, CandWorker, Updated, Gens

\* A lookup that ends the evaluation leaves the job to be finished.
Ends(j) ==
    /\ Checked(j) /\ (Leave(j, "cleanup") \/ Leave(j, "errored")) /\ Free(j)
    /\ UNCHANGED <<now, events, faults, job, index, cartIndex, tombstone, order, recovery, seen, update, crossed>>

LEMMA LookupEnds ==
  ASSUME NEW j \in JobIds, LookupFails(j) \/ LookupDiscards(j)
  PROVE  Ends(j)
BY DEF LookupFails, LookupDiscards, Ends, Checked

LEMMA EndsFacts ==
  ASSUME CandRows, NEW j \in JobIds, Ends(j)
  PROVE  /\ run' \in [JobIds -> CandRun] /\ run'[j].phase \in {"cleanup", "errored"}
         /\ \A k \in JobIds : k # j => run'[k] = run[k]
         /\ lock' = IF lock = j THEN NoJob ELSE lock
<1>1. "cleanup" \in Phases /\ "errored" \in Phases
  BY DEF Phases
<1>2. Leave(j, "cleanup") \/ Leave(j, "errored")
  BY DEF Ends
<1>3. lock' = IF lock = j THEN NoJob ELSE lock
  BY DEF Ends, Free
<1> QED  BY <1>1, <1>2, <1>3, LeaveFacts

LEMMA CandRowsStep ==
  ASSUME CandInv, CandNext
  PROVE  CandRows'
<1>0. CandRows /\ GenerationInv
  BY DEF CandInv
<1>e. Event => events' \in Nat /\ events' <= MaxEvents
  BY <1>0, CandidateAssumption DEF CandRows, Event
<1>p. ASSUME NEW j, NEW d, Puts(j, d)
      PROVE  /\ job' \in [JobIds -> CandJob] /\ index' \in JobIds \cup {NoJob} /\ cartIndex' \in JobIds \cup {NoJob}
  BY <1>0, <1>p, PutsTyped
<1>s. \A t \in Times : MaxOf(seen, t) \in Times
  BY <1>0, CandBounds DEF CandRows
<1>1. CASE CheckoutCreated
  BY <1>0, <1>1, <1>e, <1>p, CreatedPuts DEF CheckoutCreated, CandRows
<1>2. CASE Updated
  <2>1. update' \in [Updaters -> CandUpdate]
    BY <1>2, UpdatesKept DEF CandInv
  <2>2. events' \in Nat /\ events' <= MaxEvents
    <3>1. events' = events \/ Event
      BY <1>2 DEF Updated, UpdateRefreshes, UpdateMisses, UpdateLookup, UpdateSchedule, UpdateRecord, UpdateStops
    <3> QED  BY <1>0, <1>e, <3>1 DEF CandRows
  <2>3. CASE Rested
    BY <1>0, <2>1, <2>2, <2>3 DEF Rested, CandRows
  <2>4. ASSUME NEW t \in Times, Rescheduled(t) PROVE CandRows'
    BY <1>0, <1>s, <1>p, <2>1, <2>2, <2>4 DEF Rescheduled, CandRows
  <2>5. ASSUME NEW t \in Times, Recorded(t) PROVE CandRows'
    <3>1. recovery' \in [Gens -> CandRecovery]
      BY <1>0, <2>5, RecordFacts
    <3> QED  BY <1>0, <1>s, <2>1, <2>2, <2>5, <3>1 DEF Recorded, CandRows
  <2> QED  BY <1>2, <2>3, <2>4, <2>5, UpdatedEither
<1>3. ASSUME NEW t \in Times, NEW empty \in BOOLEAN, CartActivity(t, empty) PROVE CandRows'
  <2>1. /\ job' \in [JobIds -> CandJob] /\ index' \in JobIds \cup {NoJob} /\ cartIndex' \in JobIds \cup {NoJob}
    BY <1>0, <1>3, <1>p, CartEither, CancelFacts
  <2> QED  BY <1>0, <1>3, <1>e, <1>s, <2>1 DEF CartActivity, CandRows
<1>4. CASE PlaceOrder
  BY <1>0, <1>4 DEF PlaceOrder, CandRows
<1>5. CASE OrderCompleted
  <2>1. TRUE \in BOOLEAN /\ tombstone' = TRUE
    BY <1>5 DEF OrderCompleted, MarkOrderProcessed
  <2>2. CASE Resolve(TRUE) # NoJob
    <3>1. CancelForOrder(Resolve(TRUE)) /\ Resolve(TRUE) \in JobIds
      BY <1>0, <1>5, <2>1, <2>2, ResolveJob DEF OrderCompleted
    <3>2. /\ job' \in [JobIds -> CandJob] /\ index' = NoJob /\ cartIndex' \in JobIds \cup {NoJob}
          /\ recovery' = recovery
      BY <1>0, <3>1, CancelFacts DEF CancelForOrder
    <3> QED  BY <1>0, <1>5, <2>1, <3>2 DEF OrderCompleted, CandRows
  <2>3. CASE Resolve(TRUE) = NoJob
    <3>1. CompleteForOrder
      BY <1>5, <2>3 DEF OrderCompleted
    <3>2. recovery' \in [Gens -> CandRecovery] /\ UNCHANGED <<job, index, cartIndex>>
      BY <1>0, <3>1, CompleteFacts DEF CompleteForOrder
    <3> QED  BY <1>0, <1>5, <2>1, <3>2 DEF OrderCompleted, CandRows
  <2> QED  BY <2>2, <2>3
<1>6. CASE OrderCrashes
  <2>1. Resolve(TRUE) \in JobIds /\ CancelForOrder(Resolve(TRUE))
    BY <1>0, <1>6, ResolveJob DEF OrderCrashes
  <2>2. job' \in [JobIds -> CandJob] /\ index' = NoJob /\ cartIndex' \in JobIds \cup {NoJob} /\ recovery' = recovery
    BY <1>0, <2>1, CancelFacts DEF CancelForOrder
  <2> QED  BY <1>0, <1>6, <2>2 DEF OrderCrashes, CandRows
<1>7. ASSUME NEW j \in JobIds, Pick(j) PROVE CandRows'
  <2>1. job' \in [JobIds -> CandJob] /\ run' \in [JobIds -> CandRun]
    BY <1>0, <1>7, PickFacts
  <2> QED  BY <1>0, <1>7, <2>1 DEF Pick, CandRows
<1>8. ASSUME NEW j \in JobIds, MaterializeCheck(j) PROVE CandRows'
  <2>1. run' \in [JobIds -> CandRun] /\ recovery' \in [Gens -> CandRecovery] /\ lock' \in {lock, j}
    BY <1>0, <1>8, CheckFacts
  <2> QED  BY <1>0, <1>8, <2>1 DEF MaterializeCheck, CandRows
<1>9. ASSUME NEW j \in JobIds, Ends(j) PROVE CandRows'
  <2>1. run' \in [JobIds -> CandRun] /\ lock' \in {lock, NoJob}
    BY <1>0, <1>9, EndsFacts
  <2> QED  BY <1>0, <1>9, <2>1 DEF Ends, CandRows
<1>10. ASSUME NEW j \in JobIds, Finish(j) PROVE CandRows'
  <2>1. /\ job' \in [JobIds -> CandJob] /\ run' \in [JobIds -> CandRun]
        /\ index' \in JobIds \cup {NoJob} /\ cartIndex' \in JobIds \cup {NoJob}
    BY <1>0, <1>10, FinishFacts
  <2> QED  BY <1>0, <1>10, <2>1 DEF Finish, CandRows
<1>11. ASSUME NEW j \in JobIds, NEW s \in {"MESSAGE_SENT", "DETECTED"}, Initiate(j, s) PROVE CandRows'
  <2>1. recovery' \in [Gens -> CandRecovery] /\ lock' \in {lock, NoJob} /\ (Leave(j, "cleanup") \/ Leave(j, "errored"))
    BY <1>0, <1>11, InitiateFacts
  <2>2. run' \in [JobIds -> CandRun]
    BY <1>0, <2>1, LeaveFacts DEF Phases
  <2> QED  BY <1>0, <1>11, <2>1, <2>2 DEF Initiate, CandRows
<1>12. ASSUME NEW g \in Gens, Expire(g) PROVE CandRows'
  <2>1. "EXPIRED" \in Statuses /\ recovery' = [recovery EXCEPT ![g].status = "EXPIRED"]
    BY <1>12 DEF Expire, Statuses
  <2>2. recovery' \in [Gens -> CandRecovery]
    BY <1>0, <2>1, StatusWritten
  <2> QED  BY <1>0, <1>12, <2>2 DEF Expire, CandRows
<1>13. CASE Advance
  <2>1. now' \in Times
    BY <1>0, <1>13, CandidateAssumption DEF Advance, CandRows, Times
  <2> QED  BY <1>0, <1>13, <2>1 DEF Advance, CandRows
<1>14. CASE LockLapses
  BY <1>0, <1>14 DEF LockLapses, CandRows
<1>15. CASE TombstoneLapses
  BY <1>0, <1>15 DEF TombstoneLapses, CandRows
<1>16. CASE \E j \in JobIds : LookupFails(j) \/ LookupDiscards(j)
  BY <1>9, <1>16, LookupEnds
<1> QED  BY <1>1, <1>2, <1>3, <1>4, <1>5, <1>6, <1>7, <1>8, <1>10, <1>11, <1>12, <1>13, <1>14, <1>15, <1>16, CandSteps

LEMMA GenerationStep ==
  ASSUME CandInv, CandNext
  PROVE  GenerationInv'
<1>0. CandRows /\ GenerationInv
  BY DEF CandInv
<1> DEFINE Runs == \A j \in JobIds : Checked(j)' => \/ Checked(j) /\ run'[j].gen = run[j].gen
                                                    \/ run'[j].gen \in Gens /\ Past(run'[j].gen)
           Rows == \A g \in Gens : Evolves(g)
<1> SUFFICES Rows /\ Runs
  BY <1>0, GenerationKept
<1>a. recovery' = recovery => Rows
  BY DEF Evolves
<1>b. run' = run => Runs
  BY DEF Checked
<1>c. ASSUME NEW j \in JobIds, run'[j].phase # "checked", \A k \in JobIds : k # j => run'[k] = run[k] PROVE Runs
  BY <1>c DEF Checked
<1>1. CASE CheckoutCreated
  BY <1>a, <1>b, <1>1 DEF CheckoutCreated
<1>2. CASE Updated
  <2>1. ASSUME NEW t \in Times, Recorded(t) PROVE Rows
    BY <1>0, <2>1, RecordFacts DEF Evolves
  <2> QED  BY <1>2, <1>a, <1>b, <2>1, UpdatedEither DEF Rested, Rescheduled, Recorded
<1>3. ASSUME NEW t \in Times, NEW empty \in BOOLEAN, CartActivity(t, empty) PROVE Rows /\ Runs
  BY <1>a, <1>b, <1>3 DEF CartActivity
<1>4. CASE PlaceOrder
  BY <1>a, <1>b, <1>4 DEF PlaceOrder
<1>5. CASE OrderCompleted
  <2>1. CompleteForOrder => Rows
    BY <1>0, CompleteFacts DEF Evolves
  <2>2. recovery' = recovery \/ CompleteForOrder
    BY <1>5 DEF OrderCompleted, CancelForOrder
  <2> QED  BY <1>5, <1>a, <1>b, <2>1, <2>2 DEF OrderCompleted
<1>6. CASE OrderCrashes
  BY <1>a, <1>b, <1>6 DEF OrderCrashes, CancelForOrder
<1>7. ASSUME NEW j \in JobIds, Pick(j) PROVE Rows /\ Runs
  BY <1>0, <1>a, <1>c, <1>7, PickFacts DEF Pick
<1>8. ASSUME NEW j \in JobIds, MaterializeCheck(j) PROVE Rows /\ Runs
  <2>1. Rows
    BY <1>0, <1>8, CheckFacts DEF Evolves
  <2>2. CASE Checked(j)' /\ run'[j].gen \in Gens /\ Past(run'[j].gen)
    BY <1>0, <1>8, <2>1, <2>2, CheckFacts DEF Checked
  <2>3. CASE run'[j].phase \in {"cleanup", "errored"}
    BY <1>0, <1>8, <1>c, <2>1, <2>3, CheckFacts
  <2> QED  BY <1>0, <1>8, <2>1, <2>2, <2>3, CheckFacts
<1>9. ASSUME NEW j \in JobIds, Ends(j) PROVE Rows /\ Runs
  BY <1>0, <1>a, <1>c, <1>9, EndsFacts DEF Ends
<1>10. ASSUME NEW j \in JobIds, Finish(j) PROVE Rows /\ Runs
  BY <1>0, <1>a, <1>c, <1>10, FinishFacts DEF Finish
<1>11. ASSUME NEW j \in JobIds, NEW s \in {"MESSAGE_SENT", "DETECTED"}, Initiate(j, s) PROVE Rows /\ Runs
  <2>g. PICK gen : gen = run[j].gen
    OBVIOUS
  <2>1. /\ Past(gen) /\ \A g \in Gens : g # gen => recovery'[g] = recovery[g]
        /\ IF recovery[gen].status \in {"none", "DETECTED"} THEN recovery'[gen].status = s
           ELSE recovery'[gen] = recovery[gen]
        /\ Leave(j, "cleanup") \/ Leave(j, "errored")
    BY <1>0, <1>11, <2>g, InitiateFacts
  <2>2. Rows
    BY <2>1 DEF Evolves, Active
  <2>3. "cleanup" \in Phases /\ "errored" \in Phases
    BY DEF Phases
  <2>4. run'[j].phase # "checked" /\ \A k \in JobIds : k # j => run'[k] = run[k]
    BY <1>0, <2>1, <2>3, LeaveFacts
  <2>5. Runs
    BY <1>c, <2>4
  <2> QED  BY <2>2, <2>5
<1>12. ASSUME NEW g \in Gens, Expire(g) PROVE Rows /\ Runs
  <2>1. "EXPIRED" \in Statuses /\ recovery' = [recovery EXCEPT ![g].status = "EXPIRED"] /\ recovery[g].status \in Active
    BY <1>12 DEF Expire, Statuses
  <2>2. recovery'[g].status = "EXPIRED" /\ \A h \in Gens : h # g => recovery'[h] = recovery[h]
    BY <1>0, <2>1, StatusWritten
  <2>3. Rows
    BY <2>1, <2>2 DEF Evolves
  <2> QED  BY <1>12, <1>b, <2>3 DEF Expire
<1>13. CASE Advance
  BY <1>a, <1>b, <1>13 DEF Advance
<1>14. CASE LockLapses
  BY <1>a, <1>b, <1>14 DEF LockLapses
<1>15. CASE TombstoneLapses
  BY <1>a, <1>b, <1>15 DEF TombstoneLapses
<1>16. CASE \E j \in JobIds : LookupFails(j) \/ LookupDiscards(j)
  BY <1>9, <1>16, LookupEnds
<1> HIDE DEF Rows, Runs
<1> QED  BY <1>1, <1>2, <1>3, <1>4, <1>5, <1>6, <1>7, <1>8, <1>10, <1>11, <1>12, <1>13, <1>14, <1>15, <1>16, CandSteps

LEMMA UpdateStep ==
  ASSUME CandInv, CandNext
  PROVE  UpdateInv'
<1>1. CASE Updated
  BY <1>1, UpdatesKept DEF CandInv
<1>2. CASE update' = update
  BY <1>2 DEF CandInv, UpdateInv
<1>3. Updated \/ update' = update
  BY CandSteps DEF CheckoutCreated, CartActivity, PlaceOrder, OrderCompleted, OrderCrashes, Pick,
     MaterializeCheck, LookupFails, LookupDiscards, Finish, Initiate, Expire, Advance, LockLapses, TombstoneLapses
<1> QED  BY <1>1, <1>2, <1>3

LEMMA WorkStep ==
  ASSUME CandInv, CandNext
  PROVE  WorkInv'
<1>0. CandRows /\ WorkInv /\ GenerationInv
  BY DEF CandInv
<1>p. ASSUME NEW j, NEW d, Puts(j, d), run' = run PROVE WorkInv'
  BY <1>0, <1>p, PutsTyped DEF WorkInv, Puts
<1>n. ASSUME NEW j \in JobIds, Cancel(j), run' = run PROVE WorkInv'
  BY <1>0, <1>n, CancelFacts DEF WorkInv
<1>u. job' = job /\ run' = run => WorkInv'
  BY <1>0 DEF WorkInv
<1>1. CASE CheckoutCreated
  BY <1>0, <1>p, <1>1, CreatedPuts DEF CheckoutCreated
<1>2. CASE Updated
  BY <1>p, <1>u, <1>2, UpdatedEither DEF Rested, Rescheduled, Recorded
<1>3. ASSUME NEW t \in Times, NEW empty \in BOOLEAN, CartActivity(t, empty) PROVE WorkInv'
  BY <1>0, <1>p, <1>n, <1>3, CartEither DEF CartActivity
<1>4. CASE PlaceOrder \/ Advance \/ LockLapses \/ TombstoneLapses \/ \E g \in Gens : Expire(g)
  BY <1>u, <1>4 DEF PlaceOrder, Advance, LockLapses, TombstoneLapses, Expire
<1>5. CASE OrderCompleted
  <2>1. CASE Resolve(TRUE) # NoJob
    BY <1>0, <1>n, <1>5, <2>1, ResolveJob DEF OrderCompleted, CancelForOrder
  <2>2. CASE Resolve(TRUE) = NoJob
    BY <1>u, <1>5, <2>2 DEF OrderCompleted, CompleteForOrder
  <2> QED  BY <2>1, <2>2
<1>6. CASE OrderCrashes
  BY <1>0, <1>n, <1>6, ResolveJob DEF OrderCrashes, CancelForOrder
<1>7. ASSUME NEW j \in JobIds, Pick(j) PROVE WorkInv'
  BY <1>0, <1>7, PickFacts DEF WorkInv
<1>8. ASSUME NEW j \in JobIds, MaterializeCheck(j) PROVE WorkInv'
  <2>1. job' = job /\ run[j].phase = "picked" /\ \A k \in JobIds : k # j => run'[k] = run[k]
    BY <1>0, <1>8, CheckFacts DEF MaterializeCheck
  <2> QED  BY <1>0, <2>1 DEF WorkInv
<1>9. ASSUME NEW j \in JobIds, Ends(j) PROVE WorkInv'
  <2>1. job' = job /\ run[j].phase = "checked" /\ \A k \in JobIds : k # j => run'[k] = run[k]
    BY <1>0, <1>9, EndsFacts DEF Ends, Checked
  <2> QED  BY <1>0, <2>1 DEF WorkInv
<1>10. ASSUME NEW j \in JobIds, Finish(j) PROVE WorkInv'
  BY <1>0, <1>10, FinishFacts DEF WorkInv
<1>11. ASSUME NEW j \in JobIds, NEW s \in {"MESSAGE_SENT", "DETECTED"}, Initiate(j, s) PROVE WorkInv'
  <2>1. job' = job /\ run[j].phase = "checked" /\ (Leave(j, "cleanup") \/ Leave(j, "errored"))
    BY <1>11 DEF Initiate
  <2>2. \A k \in JobIds : k # j => run'[k] = run[k]
    BY <1>0, <2>1, LeaveFacts DEF Phases
  <2> QED  BY <1>0, <2>1, <2>2 DEF WorkInv
<1>12. CASE \E j \in JobIds : LookupFails(j) \/ LookupDiscards(j)
  BY <1>9, <1>12, LookupEnds
<1> QED  BY <1>1, <1>2, <1>3, <1>4, <1>5, <1>6, <1>7, <1>8, <1>10, <1>11, <1>12, CandSteps

LEMMA LockStep ==
  ASSUME CandInv, CandNext
  PROVE  LockInv'
<1>0. CandRows /\ LockInv /\ GenerationInv
  BY DEF CandInv
<1> DEFINE Lapse == faults \cap {"lockLapses", "tombstoneLapses"} # {}
<1> SUFFICES ASSUME ~Lapse, faults' = faults PROVE LockInv'
  <2>1. faults' = faults
    BY CandSteps DEF CheckoutCreated, Updated, UpdateRefreshes, UpdateMisses,
       UpdateLookup, UpdateSchedule, UpdateRecord, UpdateStops, CartActivity, PlaceOrder, OrderCompleted, OrderCrashes, Pick,
       MaterializeCheck, LookupFails, LookupDiscards, Finish, Initiate, Expire, Advance, LockLapses, TombstoneLapses
  <2> QED  BY <2>1 DEF LockInv
<1>i. /\ order = "handled" => tombstone
      /\ \A j \in JobIds : Checked(j) => lock = j /\ order # "handled"
  BY <1>0 DEF LockInv
<1>u. run' = run /\ lock' = lock /\ order' = order /\ tombstone' = tombstone => LockInv'
  BY <1>i DEF LockInv, Checked
<1>1. CASE CheckoutCreated
  BY <1>u, <1>1 DEF CheckoutCreated
<1>2. CASE Updated
  BY <1>u, <1>2, UpdatedEither DEF Rested, Rescheduled, Recorded
<1>3. ASSUME NEW t \in Times, NEW empty \in BOOLEAN, CartActivity(t, empty) PROVE LockInv'
  BY <1>u, <1>3 DEF CartActivity
<1>4. CASE PlaceOrder
  BY <1>i, <1>4 DEF PlaceOrder, LockInv, Checked
<1>5. CASE OrderCompleted
  <2>1. \A j \in JobIds : ~Checked(j)
    BY <1>i, <1>5, JobIdFacts DEF OrderCompleted
  <2>2. tombstone' = TRUE /\ run' = run
    BY <1>5 DEF OrderCompleted, MarkOrderProcessed
  <2> QED  BY <2>1, <2>2 DEF LockInv, Checked
<1>6. CASE OrderCrashes
  BY <1>u, <1>6 DEF OrderCrashes
<1>7. ASSUME NEW j \in JobIds, Pick(j) PROVE LockInv'
  <2>1. \A k \in JobIds : Checked(k)' => Checked(k)
    BY <1>0, <1>7, PickFacts DEF Checked
  <2> QED  BY <1>i, <1>7, <2>1 DEF Pick, LockInv
<1>8. ASSUME NEW j \in JobIds, MaterializeCheck(j) PROVE LockInv'
  <2>0. lock = NoJob /\ (\A k \in JobIds : ~Checked(k)) /\ UNCHANGED <<order, tombstone>>
    BY <1>0, <1>i, <1>8, CheckFacts, JobIdFacts DEF MaterializeCheck
  <2>1. \A k \in JobIds : Checked(k)' => k = j /\ lock' = j /\ ~tombstone
    BY <1>0, <1>8, <2>0, CheckFacts DEF Checked
  <2> QED  BY <1>i, <2>0, <2>1 DEF LockInv
<1>9. ASSUME NEW j \in JobIds, Checked(j), run'[j].phase # "checked", \A k \in JobIds : k # j => run'[k] = run[k],
             UNCHANGED <<order, tombstone>>
      PROVE  LockInv'
  <2>1. \A k \in JobIds : ~Checked(k)'
    BY <1>i, <1>9 DEF Checked
  <2> QED  BY <1>i, <1>9, <2>1 DEF LockInv
<1>10. ASSUME NEW j \in JobIds, Finish(j) PROVE LockInv'
  <2>1. \A k \in JobIds : Checked(k)' => Checked(k)
    BY <1>0, <1>10, FinishFacts DEF Checked
  <2> QED  BY <1>i, <1>10, <2>1 DEF Finish, LockInv
<1>11. ASSUME NEW j \in JobIds, NEW s \in {"MESSAGE_SENT", "DETECTED"}, Initiate(j, s) PROVE LockInv'
  <2>1. Checked(j) /\ UNCHANGED <<order, tombstone>> /\ (Leave(j, "cleanup") \/ Leave(j, "errored"))
    BY <1>11 DEF Initiate, Checked
  <2>2. "cleanup" \in Phases /\ "errored" \in Phases
    BY DEF Phases
  <2>3. run'[j].phase # "checked" /\ \A k \in JobIds : k # j => run'[k] = run[k]
    BY <1>0, <2>1, <2>2, LeaveFacts
  <2> QED  BY <1>9, <2>1, <2>3
<1>12. ASSUME NEW g \in Gens, Expire(g) PROVE LockInv'
  BY <1>u, <1>12 DEF Expire
<1>13. CASE Advance
  BY <1>u, <1>13 DEF Advance
<1>14. CASE LockLapses \/ TombstoneLapses
  BY <1>14 DEF LockLapses, TombstoneLapses
<1>15. ASSUME NEW j \in JobIds, Ends(j) PROVE LockInv'
  <2>1. Checked(j) /\ UNCHANGED <<order, tombstone>>
    BY <1>15 DEF Ends
  <2>2. run'[j].phase # "checked" /\ \A k \in JobIds : k # j => run'[k] = run[k]
    BY <1>0, <1>15, EndsFacts
  <2> QED  BY <1>9, <2>1, <2>2
<1>16. CASE \E j \in JobIds : LookupFails(j) \/ LookupDiscards(j)
  BY <1>15, <1>16, LookupEnds
<1> QED  BY <1>1, <1>2, <1>3, <1>4, <1>5, <1>6, <1>7, <1>8, <1>10, <1>11, <1>12, <1>13, <1>14, <1>16, CandSteps

LEMMA CandRest ==
  ASSUME CandInv, CandNext
  PROVE  faults' = faults /\ (events' = events \/ events' # 0)
<1>1. faults' = faults
  BY CandSteps DEF CheckoutCreated, Updated, UpdateRefreshes, UpdateMisses,
       UpdateLookup, UpdateSchedule, UpdateRecord, UpdateStops, CartActivity, PlaceOrder, OrderCompleted, OrderCrashes, Pick,
     MaterializeCheck, LookupFails, LookupDiscards, Finish, Initiate, Expire, Advance, LockLapses, TombstoneLapses
<1>2. events' = events \/ Event
  BY CandSteps DEF CheckoutCreated, Updated, UpdateRefreshes, UpdateMisses,
       UpdateLookup, UpdateSchedule, UpdateRecord, UpdateStops, CartActivity, PlaceOrder, OrderCompleted, OrderCrashes, Pick,
     MaterializeCheck, LookupFails, LookupDiscards, Finish, Initiate, Expire, Advance, LockLapses, TombstoneLapses
<1>3. Event => events' # 0
  BY DEF Event, CandInv, CandRows
<1> QED  BY <1>1, <1>2, <1>3

\* A put and a cancellation keep the two aliases together.
LEMMA PutAliases ==
  ASSUME CandRows, Aliased, NEW j, NEW d, NEW t, Puts(j, d), Replaces(j, d, t)
  PROVE  Aliased'
<1>1. /\ index' = j /\ j \in JobIds
      /\ cartIndex' = (IF d.cart THEN j ELSE cartIndex) \/ (index = j /\ cartIndex' = cartIndex)
      /\ \A k \in JobIds : job'[k] = IF k = j THEN d ELSE job[k]
  BY PutsTyped DEF Puts
<1>2. d.state = "delayed" /\ (\A k \in JobIds : Waiting(k) => k = j) /\ (cartIndex # NoJob => d.cart)
  BY DEF Puts, Replaces
<1>3. index' # NoJob /\ Exists(index)'
  BY <1>1, <1>2, JobIdFacts DEF Exists
<1>4. cartIndex' # NoJob => cartIndex' = index' /\ job'[cartIndex'].cart
  BY <1>1, <1>2 DEF Aliased
<1>5. \A k \in JobIds : Waiting(k)' => index' = k
  BY <1>1, <1>2 DEF Waiting
<1> QED  BY <1>3, <1>4, <1>5 DEF Aliased

LEMMA CancelAliases ==
  ASSUME CandRows, Aliased, index \in JobIds, Cancel(index)
  PROVE  Aliased'
<1>1. /\ index' = NoJob /\ cartIndex' = (IF job[index].cart THEN NoJob ELSE cartIndex)
      /\ \A k \in JobIds : job'[k] = IF k = index THEN NoneJob ELSE job[k]
  BY CancelFacts
<1>2. cartIndex' = NoJob
  BY <1>1 DEF Aliased
<1>3. \A k \in JobIds : ~Waiting(k)'
  BY <1>1 DEF Aliased, Waiting, NoneJob
<1> QED  BY <1>1, <1>2, <1>3 DEF Aliased

\* The first webhook creates the first candidate.
LEMMA CreatedFirst ==
  ASSUME CandInv, ~Parted, CheckoutCreated
  PROVE  /\ Untouched /\ NoneOpen /\ seen' = seen /\ seen = 0
         /\ \A j \in JobIds : ~Checked(j)
         /\ \E d : Puts(Base, d) /\ Replaces(Base, d, 0)
<1>0. CandRows /\ AliasInv /\ WorkInv
  BY DEF CandInv
<1>1. events = 0
  BY DEF CheckoutCreated, Parted
<1>2. Untouched /\ Aliased
  BY <1>0, <1>1 DEF AliasInv
<1>3. PICK d : Puts(Base, d) /\ (events = 0 /\ Untouched => d.activity >= 0 /\ d.cart)
  BY <1>0, CreatedPuts
<1>4. Replaces(Base, d, 0)
  BY <1>0, <1>1, <1>2, <1>3, JobIdFacts DEF Replaces, Untouched, Waiting, Exists, CandRows
<1>5. NoneOpen /\ seen' = seen /\ seen = 0
  BY <1>2 DEF Untouched, NoneOpen, Active, CheckoutCreated
<1>6. \A j \in JobIds : ~Checked(j)
  BY <1>0, <1>2 DEF Untouched, WorkInv, Checked
<1> QED  BY <1>2, <1>3, <1>4, <1>5, <1>6

\* Before the first webhook there is nothing to change.
LEMMA UntouchedKept ==
  ASSUME CandInv, CandNext, Untouched, events' = events
  PROVE  Untouched'
<1>0. CandRows /\ WorkInv /\ GenerationInv
  BY DEF CandInv
<1>1. ~Event
  BY <1>0 DEF CandRows, Event
<1>2. \A j \in JobIds : run[j].phase = "idle" /\ job[j].state = "none"
  BY <1>0 DEF WorkInv, Untouched
<1>3. \A j \in JobIds : /\ ~Pick(j) /\ ~MaterializeCheck(j) /\ ~LookupFails(j) /\ ~Finish(j)
                        /\ ~LookupDiscards(j)
                        /\ \A s \in {"MESSAGE_SENT", "DETECTED"} : ~Initiate(j, s)
  BY <1>2 DEF Pick, MaterializeCheck, LookupFails, Finish, LookupDiscards, Initiate
<1>4. \A g \in Gens : ~Expire(g)
  BY DEF Untouched, Expire, Active
<1>5. \A b \in BOOLEAN : Resolve(b) = NoJob
  BY <1>0, <1>2, ResolveJob DEF Resolve, Exists
<1>6. CASE OrderCompleted
  <2>1. CompleteForOrder /\ seen' = seen
    BY <1>5, <1>6 DEF OrderCompleted
  <2>2. \A g \in Gens : recovery'[g].status = "none"
    BY <1>0, <2>1, CompleteFacts DEF Untouched, Active
  <2> QED  BY <1>6, <2>1, <2>2 DEF OrderCompleted, CompleteForOrder, Untouched
<1>9. ~Updated
  BY <1>1 DEF Untouched, Updated, UpdateRefreshes, UpdateMisses, UpdateLookup, UpdateSchedule, UpdateRecord, UpdateStops
<1>7. ~OrderCrashes
  BY <1>5 DEF OrderCrashes
<1>8. CASE PlaceOrder \/ Advance \/ LockLapses \/ TombstoneLapses
  BY <1>8 DEF Untouched, PlaceOrder, Advance, LockLapses, TombstoneLapses
<1> QED  BY <1>1, <1>3, <1>4, <1>6, <1>7, <1>8, <1>9, CandSteps DEF CheckoutCreated, CartActivity

LEMMA AliasStep ==
  ASSUME CandInv, CandNext
  PROVE  AliasInv'
<1>0. CandRows /\ AliasInv /\ GenerationInv
  BY DEF CandInv
<1>r. faults' = faults /\ (events' = events \/ events' # 0)
  BY CandRest
<1> SUFFICES ASSUME ~Parted PROVE Aliased' /\ (events' = 0 => Untouched')
  BY <1>r DEF AliasInv, Parted
<1>i. Aliased /\ (events = 0 => Untouched)
  BY <1>0 DEF AliasInv
<1>z. events' = 0 => Untouched'
  BY <1>i, <1>r, UntouchedKept
<1> SUFFICES Aliased'
  BY <1>z
<1>u. UNCHANGED <<job, index, cartIndex>> => Aliased'
  BY <1>i DEF Aliased, Exists, Waiting
<1>n. "updatedAgain" \notin faults
  BY DEF Parted
<1>p. ASSUME NEW j, NEW d, NEW t, Puts(j, d), Replaces(j, d, t) PROVE Aliased'
  BY <1>0, <1>i, <1>p, PutAliases
<1>c. ASSUME NEW b \in BOOLEAN, Resolve(b) # NoJob, Cancel(Resolve(b)) PROVE Aliased'
  BY <1>0, <1>i, <1>c, ResolveAliased, CancelAliases
<1>1. CASE CheckoutCreated
  BY <1>p, <1>1, CreatedFirst
<1>2. CASE Updated
  BY <1>i, <1>n, <1>p, <1>u, <1>2, UpdatedEither DEF Rested, Rescheduled, Recorded
<1>3. ASSUME NEW t \in Times, NEW empty \in BOOLEAN, CartActivity(t, empty) PROVE Aliased'
  BY <1>0, <1>i, <1>p, <1>c, <1>3, CartEither
<1>4. CASE PlaceOrder \/ Advance \/ LockLapses \/ TombstoneLapses \/ \E g \in Gens : Expire(g)
  BY <1>u, <1>4 DEF PlaceOrder, Advance, LockLapses, TombstoneLapses, Expire
<1>5. CASE OrderCompleted
  BY <1>u, <1>c, <1>5 DEF OrderCompleted, CancelForOrder, CompleteForOrder
<1>6. CASE OrderCrashes
  BY <1>c, <1>6 DEF OrderCrashes, CancelForOrder
<1>7. ASSUME NEW j \in JobIds, Pick(j) PROVE Aliased'
  <2>1. /\ job'[j].state = "active" /\ job'[j].cart = job[j].cart
        /\ \A k \in JobIds : k # j => job'[k] = job[k]
        /\ index' = index /\ cartIndex' = cartIndex
    BY <1>0, <1>7, PickFacts DEF Pick
  <2>2. index # NoJob => Exists(index)'
    BY <1>0, <1>i, <2>1 DEF Aliased, Exists, CandRows
  <2>3. cartIndex # NoJob => cartIndex = index /\ job'[cartIndex].cart
    BY <1>0, <1>i, <2>1 DEF Aliased, CandRows
  <2>4. \A k \in JobIds : Waiting(k)' => index = k
    BY <1>i, <2>1 DEF Aliased, Waiting
  <2> QED  BY <2>1, <2>2, <2>3, <2>4 DEF Aliased
<1>8. ASSUME NEW j \in JobIds, MaterializeCheck(j) PROVE Aliased'
  BY <1>u, <1>8 DEF MaterializeCheck
<1>9. ASSUME NEW j \in JobIds, Ends(j) PROVE Aliased'
  BY <1>u, <1>9 DEF Ends
<1>10. ASSUME NEW j \in JobIds, Finish(j) PROVE Aliased'
  <2>1. /\ \A k \in JobIds : k # j => job'[k] = job[k]
        /\ ~Waiting(j)'
        /\ IF index = j THEN index' = NoJob /\ cartIndex' = IF job[j].cart THEN NoJob ELSE cartIndex
           ELSE index' = index /\ cartIndex' = cartIndex
    BY <1>0, <1>10, FinishFacts
  <2>2. \A k \in JobIds : Waiting(k)' => k # j /\ Waiting(k) /\ index = k
    BY <1>i, <2>1 DEF Aliased, Waiting
  <2>3. CASE index = j
    <3>1. index' = NoJob /\ cartIndex' = NoJob
      BY <1>i, <2>1, <2>3 DEF Aliased
    <3>2. \A k \in JobIds : ~Waiting(k)'
      BY <2>2, <2>3
    <3> QED  BY <3>1, <3>2 DEF Aliased
  <2>4. CASE index # j
    <3>1. index' = index /\ cartIndex' = cartIndex
      BY <2>1, <2>4
    <3>2. index # NoJob => Exists(index)'
      BY <1>0, <1>i, <2>1, <2>4, <3>1 DEF Aliased, Exists, CandRows
    <3>3. cartIndex # NoJob => cartIndex = index /\ job'[cartIndex].cart
      BY <1>0, <1>i, <2>1, <2>4 DEF Aliased, CandRows
    <3> QED  BY <2>2, <3>1, <3>2, <3>3 DEF Aliased
  <2> QED  BY <2>3, <2>4
<1>11. ASSUME NEW j \in JobIds, NEW s \in {"MESSAGE_SENT", "DETECTED"}, Initiate(j, s) PROVE Aliased'
  BY <1>u, <1>11 DEF Initiate
<1>12. CASE \E j \in JobIds : LookupFails(j) \/ LookupDiscards(j)
  BY <1>9, <1>12, LookupEnds
<1> QED  BY <1>1, <1>2, <1>3, <1>4, <1>5, <1>6, <1>7, <1>8, <1>10, <1>11, <1>12, CandSteps

LEMMA OpenStep ==
  ASSUME CandInv, CandNext
  PROVE  OpenInv'
<1>0. CandRows /\ AliasInv /\ GenerationInv /\ WorkInv /\ LockInv /\ OpenInv
  BY DEF CandInv
<1>r. faults' = faults
  BY CandRest
<1> DEFINE OpenGoal == /\ ~crossed' /\ order' = "handled" => NoneOpen'
                       /\ ~crossed' /\ index' # NoJob /\ job'[index'].state # "active" => NoneOpen'
                       /\ \A j \in JobIds : Checked(j)' => index' \in {NoJob, j}
<1> SUFFICES ASSUME faults \subseteq {Emptied} PROVE OpenGoal
  BY <1>r DEF OpenInv
<1>f. /\ ~Parted /\ "lockLapses" \notin faults /\ "orderCrashes" \notin faults
      /\ faults \cap {"lockLapses", "tombstoneLapses"} = {}
  BY DEF Parted, Emptied
<1>a. Aliased
  BY <1>0, <1>f DEF AliasInv
<1>i. /\ ~crossed /\ order = "handled" => NoneOpen
      /\ ~crossed /\ index # NoJob /\ job[index].state # "active" => NoneOpen
      /\ \A j \in JobIds : Checked(j) => index \in {NoJob, j} /\ lock = j /\ order # "handled"
  BY <1>0, <1>f DEF OpenInv, LockInv
<1>l. lock = NoJob => \A j \in JobIds : ~Checked(j)
  BY <1>i, JobIdFacts
<1>u. ASSUME UNCHANGED <<order, job, index, crossed>>, NoneOpen => NoneOpen', \A k \in JobIds : Checked(k)' => Checked(k)
      PROVE  OpenGoal
  BY <1>i, <1>u
<1>s. (\A g \in Gens : recovery'[g].status = recovery[g].status) => (NoneOpen' <=> NoneOpen)
  BY DEF NoneOpen
<1>n. ASSUME ~crossed' => NoneOpen', \A k \in JobIds : ~Checked(k)' PROVE OpenGoal
  BY <1>n
<1> HIDE DEF OpenGoal
<1>k. run' = run => \A k \in JobIds : Checked(k)' <=> Checked(k)
  BY DEF Checked
<1>1. CASE CheckoutCreated
  <2>1. NoneOpen /\ (\A k \in JobIds : ~Checked(k)) /\ recovery' = recovery /\ run' = run
    BY <1>f, <1>1, CreatedFirst DEF CheckoutCreated
  <2> QED  BY <1>k, <1>n, <1>s, <2>1
<1>2. CASE Updated
  <2>1. CASE Rested
    BY <1>k, <1>s, <1>u, <2>1 DEF Rested
  <2>2. ASSUME NEW t \in Times, Recorded(t) PROVE OpenGoal
    <3>1. \A g \in Gens : recovery'[g].status = recovery[g].status
      BY <1>0, <2>2, RecordFacts
    <3>2. run' = run /\ UNCHANGED <<order, job, index, crossed>>
      BY <2>2 DEF Recorded
    <3> QED  BY <1>k, <1>s, <1>u, <3>1, <3>2
  <2>3. ASSUME NEW t \in Times, Rescheduled(t) PROVE OpenGoal
    <3>1. /\ lock = NoJob /\ run' = run /\ recovery' = recovery
          /\ ~crossed' => NoneOpen
      BY <2>3 DEF Rescheduled
    <3> QED  BY <1>k, <1>l, <1>n, <1>s, <3>1
  <2> QED  BY <1>2, <2>1, <2>2, <2>3, UpdatedEither
<1>3. ASSUME NEW t \in Times, NEW empty \in BOOLEAN, CartActivity(t, empty) PROVE OpenGoal
  <2>1. lock = NoJob /\ run' = run /\ order' = order /\ recovery' = recovery /\ crossed' = crossed
    BY <1>3 DEF CartActivity
  <2>2. Resolve(FALSE) # NoJob /\ job[Resolve(FALSE)].state = "delayed"
    BY <1>0, <1>3, CartEither
  <2>3. ~crossed => NoneOpen
    BY <1>0, <1>a, <1>i, <2>2, ResolveAliased
  <2> QED  BY <1>k, <1>l, <1>n, <1>s, <2>1, <2>3
<1>4. CASE PlaceOrder
  <2>1. order' = "placed" /\ UNCHANGED <<job, index, run, recovery, crossed>>
    BY <1>4 DEF PlaceOrder
  <2> QED  BY <1>i, <1>k, <1>s, <2>1 DEF OpenGoal
<1>5. CASE OrderCompleted
  <2>1. lock = NoJob /\ run' = run /\ crossed' = crossed
    BY <1>5 DEF OrderCompleted
  <2>2. CASE Resolve(TRUE) # NoJob
    <3>1. Cancel(Resolve(TRUE)) /\ recovery' = recovery
      BY <1>5, <2>2 DEF OrderCompleted, CancelForOrder
    <3>2. ~crossed => NoneOpen
      BY <1>0, <1>a, <1>i, <2>2, <3>1, ResolveAliased, CancelFacts
    <3> QED  BY <1>k, <1>l, <1>n, <1>s, <2>1, <3>1, <3>2
  <2>3. CASE Resolve(TRUE) = NoJob
    <3>1. NoneOpen'
      BY <1>0, <1>5, <2>3, CompleteFacts DEF OrderCompleted
    <3> QED  BY <1>k, <1>l, <1>n, <2>1, <3>1
  <2> QED  BY <2>2, <2>3
<1>6. ~OrderCrashes /\ ~LockLapses /\ ~TombstoneLapses
  BY <1>f DEF OrderCrashes, LockLapses, TombstoneLapses
<1>7. ASSUME NEW j \in JobIds, Pick(j) PROVE OpenGoal
  <2>1. /\ job'[j].state = "active" /\ \A k \in JobIds : k # j => job'[k] = job[k]
        /\ \A k \in JobIds : Checked(k)' => Checked(k)
    BY <1>0, <1>7, PickFacts DEF Checked
  <2>2. UNCHANGED <<order, index, recovery, crossed>> /\ index \in JobIds \cup {NoJob}
    BY <1>0, <1>7 DEF Pick, CandRows
  <2>3. NoneOpen' <=> NoneOpen
    BY <1>s, <2>2
  <2> QED  BY <1>i, <2>1, <2>2, <2>3 DEF OpenGoal
<1>8. ASSUME NEW j \in JobIds, MaterializeCheck(j) PROVE OpenGoal
  <2>1. UNCHANGED <<order, job, index, crossed>>
    BY <1>8 DEF MaterializeCheck
  <2>2. lock = NoJob /\ \A g \in Gens : \/ recovery'[g].status = recovery[g].status
                                        \/ recovery[g].status \in Active
    BY <1>0, <1>8, CheckFacts
  <2>3. NoneOpen => NoneOpen'
    BY <2>2 DEF NoneOpen
  <2>4. \A k \in JobIds : Checked(k)' => k = j /\ index \in {NoJob, k}
    <3>1. /\ \A k \in JobIds : k # j => run'[k] = run[k]
          /\ run'[j].phase \in {"cleanup", "errored"} \/ ~Superseded(j)
      BY <1>0, <1>8, CheckFacts
    <3> QED  BY <1>l, <2>2, <3>1 DEF Checked, Superseded
  <2> QED  BY <1>i, <2>1, <2>3, <2>4 DEF OpenGoal
<1>9. ASSUME NEW j \in JobIds, Ends(j) PROVE OpenGoal
  <2>1. UNCHANGED <<order, job, index, recovery, crossed>>
    BY <1>9 DEF Ends
  <2>2. \A k \in JobIds : Checked(k)' => Checked(k)
    BY <1>0, <1>9, EndsFacts DEF Checked
  <2> QED  BY <1>s, <1>u, <2>1, <2>2
<1>10. ASSUME NEW j \in JobIds, Finish(j) PROVE OpenGoal
  <2>1. /\ \A k \in JobIds : k # j => job'[k] = job[k] /\ run'[k] = run[k]
        /\ run'[j].phase = "idle" /\ lock = NoJob
        /\ index' = IF index = j THEN NoJob ELSE index
    BY <1>0, <1>10, FinishFacts
  <2>2. UNCHANGED <<order, recovery, crossed>> /\ index \in JobIds \cup {NoJob}
    BY <1>0, <1>10 DEF Finish, CandRows
  <2>3. \A k \in JobIds : ~Checked(k)'
    BY <1>l, <2>1 DEF Checked
  <2>4. NoneOpen' <=> NoneOpen
    BY <1>s, <2>2
  <2> QED  BY <1>i, <2>1, <2>2, <2>3, <2>4 DEF OpenGoal
<1>11. ASSUME NEW j \in JobIds, NEW s \in {"MESSAGE_SENT", "DETECTED"}, Initiate(j, s) PROVE OpenGoal
  <2>1. Checked(j) /\ job[j].state = "active" /\ UNCHANGED <<order, job, index, crossed>>
    BY <1>0, <1>11 DEF Initiate, Checked, WorkInv
  <2>2. \A k \in JobIds : Checked(k)' => Checked(k)
    <3>1. Leave(j, "cleanup") \/ Leave(j, "errored")
      BY <1>11 DEF Initiate
    <3>2. \A k \in JobIds : k # j => run'[k] = run[k]
      BY <1>0, <3>1, LeaveFacts DEF Phases
    <3> QED  BY <2>1, <3>2 DEF Checked
  <2> QED  BY <1>i, <2>1, <2>2 DEF OpenGoal
<1>12. ASSUME NEW g \in Gens, Expire(g) PROVE OpenGoal
  <2>1. "EXPIRED" \in Statuses /\ recovery' = [recovery EXCEPT ![g].status = "EXPIRED"]
    BY <1>12 DEF Expire, Statuses
  <2>2. recovery'[g].status = "EXPIRED" /\ \A h \in Gens : h # g => recovery'[h] = recovery[h]
    BY <1>0, <2>1, StatusWritten
  <2>3. NoneOpen => NoneOpen'
    BY <2>2 DEF NoneOpen, Active
  <2> QED  BY <1>12, <1>k, <1>u, <2>3 DEF Expire
<1>13. CASE Advance
  BY <1>13, <1>k, <1>s, <1>u DEF Advance
<1>14. CASE \E j \in JobIds : LookupFails(j) \/ LookupDiscards(j)
  BY <1>9, <1>14, LookupEnds
<1> QED  BY <1>1, <1>2, <1>3, <1>4, <1>5, <1>6, <1>7, <1>8, <1>10, <1>11, <1>12, <1>13, <1>14, CandSteps

\* What covers the activity seen last, once a candidate with activity d is put for an event of time t.
LEMMA PutCovers ==
  ASSUME CandRows, Covered, UNCHANGED <<now, recovery>>,
         NEW j, NEW d, NEW t \in Times, Puts(j, d), Replaces(j, d, t), seen' \in {seen, MaxOf(seen, t)}
  PROVE  Covered'
<1>1. index' = j /\ j \in JobIds /\ job'[j] = d /\ d \in CandJob
  BY PutsTyped DEF Puts
<1>2. Exists(index)' /\ job'[index'].activity = d.activity
  BY <1>1, JobIdFacts DEF Exists, Puts
<1>3. d.activity \in Nat /\ seen \in Nat /\ t \in Nat /\ now \in Nat /\ Delay \in Nat
  BY <1>1, CandBounds, CandFields, CandidateAssumption DEF CandRows
<1>4. seen' \in {seen, t} /\ seen' >= seen /\ d.activity >= t
  BY <1>3 DEF MaxOf, Replaces
<1>5. CASE d.activity >= seen
  <2>1. d.activity >= seen'
    BY <1>3, <1>4, <1>5
  <2> QED  BY <1>2, <2>1 DEF Covered
<1>6. CASE ~(d.activity >= seen)
  <2>1. seen' = seen
    BY <1>3, <1>4, <1>6
  <2>2. ~Untaken
    BY <1>3, <1>6 DEF Untaken
  <2>3. ~(Exists(index) /\ job[index].activity >= seen)
    <3>1. Exists(index) => d.activity >= job[index].activity /\ job[index].activity \in Nat
      BY CandBounds, CandFields DEF Replaces, CandRows, Exists
    <3> QED  BY <1>3, <1>6, <3>1
  <2> QED  BY <2>1, <2>2, <2>3 DEF Covered
<1> QED  BY <1>5, <1>6

LEMMA QuietStep ==
  ASSUME CandInv, CandNext
  PROVE  QuietInv'
<1>0. CandRows /\ AliasInv /\ GenerationInv /\ WorkInv /\ OpenInv /\ QuietInv
  BY DEF CandInv
<1>r. faults' = faults
  BY CandRest
<1> DEFINE Aged == \A j \in JobIds : job'[j].state = "active" => job'[j].activity + Delay <= now'
           QuietGoal == Aged /\ (order' # "handled" => Covered')
<1> SUFFICES ASSUME faults = {}, Delay <= Lifetime PROVE QuietGoal
  BY <1>r DEF QuietInv
<1>f. ~Parted /\ faults \subseteq {Emptied} /\ "updatedAgain" \notin faults
  BY DEF Parted
<1>a. Aliased
  BY <1>0, <1>f DEF AliasInv
<1>i. /\ \A j \in JobIds : job[j].state = "active" => job[j].activity + Delay <= now
      /\ order # "handled" => Covered
  BY <1>0 DEF QuietInv
<1>t. /\ now \in Nat /\ seen \in Nat /\ Delay \in Nat /\ Lifetime \in Nat
      /\ \A j \in JobIds : job[j].activity \in Nat
      /\ \A g \in Gens : recovery[g].activity \in Nat
      /\ index \in JobIds \cup {NoJob}
  BY <1>0, CandBounds, CandFields, CandidateAssumption DEF CandRows
<1>u. job' = job /\ now' = now => Aged
  BY <1>i
<1>p. ASSUME NEW j, NEW d, NEW t \in Times, Puts(j, d), Replaces(j, d, t),
             UNCHANGED <<now, order, recovery>>, seen' \in {seen, MaxOf(seen, t)}
      PROVE  QuietGoal
  <2>1. \A k \in JobIds : job'[k] = IF k = j THEN d ELSE job[k]
    BY <1>0, <1>p, PutsTyped
  <2>2. d.state = "delayed"
    BY <1>p DEF Puts, Replaces
  <2>3. Aged
    BY <1>i, <1>p, <2>1, <2>2
  <2>4. Covered => Covered'
    BY <1>0, <1>a, <1>p, PutCovers
  <2> QED  BY <1>i, <1>p, <2>3, <2>4
\* Nothing is lost: the candidate and the open recoveries keep their activity.
<1>k. ASSUME UNCHANGED <<now, index, seen>>, Untaken => Untaken',
             Exists(index) => Exists(index)' /\ job'[index].activity = job[index].activity,
             \A g \in Gens : recovery[g].status \in Active =>
                  recovery'[g].status \in Active /\ recovery'[g].activity >= recovery[g].activity
      PROVE  Covered => Covered'
  <2>1. ASSUME NEW g \in Gens, recovery[g].status \in Active, recovery[g].activity >= seen,
               recovery'[g].activity >= recovery[g].activity, recovery'[g].status \in Active
        PROVE  Covered'
    <3>1. recovery'[g].activity \in Nat
      <4>1. recovery' \in [Gens -> CandRecovery]
        BY CandRowsStep DEF CandRows
      <4> QED  BY <4>1, CandBounds, CandFields
    <3>2. recovery'[g].activity >= seen'
      BY <1>k, <1>t, <2>1, <3>1
    <3> QED  BY <2>1, <3>2 DEF Covered
  <2> QED  BY <1>k, <2>1 DEF Covered
<1>1. CASE CheckoutCreated
  <2>1. PICK d : Puts(Base, d) /\ Replaces(Base, d, 0)
    BY <1>1, <1>f, CreatedFirst
  <2>2. UNCHANGED <<now, order, recovery>> /\ seen' = seen /\ 0 \in Times
    BY <1>1, <1>f, CreatedFirst, CandBounds DEF CheckoutCreated
  <2> QED  BY <1>p, <2>1, <2>2
<1>2. CASE Updated
  <2>1. CASE Rested
    <3>1. UNCHANGED <<now, order, job, index, recovery, seen>>
      BY <2>1 DEF Rested
    <3>2. Covered => Covered'
      BY <3>1 DEF Covered, Exists, Untaken
    <3> QED  BY <1>i, <1>u, <3>1, <3>2
  <2>2. ASSUME NEW t \in Times, Recorded(t) PROVE QuietGoal
    <3>0. UNCHANGED <<now, order, job, index>> /\ seen' = MaxOf(seen, t)
      BY <2>2 DEF Recorded
    <3>1. PICK l \in Gens : /\ recovery[l].status \in Active /\ recovery'[l].activity = t
                            /\ \A g \in Gens : /\ recovery'[g].status = recovery[g].status
                                                /\ recovery'[g].activity >= recovery[g].activity
      BY <1>0, <2>2, RecordFacts
    <3>2. Aged
      BY <1>u, <3>0
    <3>3. t \in Nat /\ seen' \in {seen, t} /\ (seen' = t \/ (seen' = seen /\ seen > t))
      BY <1>t, <3>0, CandBounds DEF MaxOf
    <3>4. CASE seen' = t
      <4>1. recovery'[l].status \in Active /\ recovery'[l].activity >= seen'
        BY <3>1, <3>3, <3>4
      <4> QED  BY <3>2, <4>1 DEF Covered
    <3>5. CASE seen' = seen /\ seen > t
      <4>1. ~Untaken
        BY <1>t, <3>3, <3>5 DEF Untaken
      <4>2. \A g \in Gens : recovery'[g].activity \in Nat
        <5>1. recovery' \in [Gens -> CandRecovery]
          BY CandRowsStep DEF CandRows
        <5> QED  BY <5>1, CandBounds, CandFields
      <4>3. \A g \in Gens : recovery[g].activity >= seen => recovery'[g].activity >= seen
        BY <1>t, <3>1, <4>2
      <4>4. Covered => Covered'
        BY <3>0, <3>1, <3>5, <4>1, <4>3 DEF Covered, Exists
      <4> QED  BY <1>i, <3>0, <3>2, <4>4
    <3> QED  BY <3>3, <3>4, <3>5
  <2>3. ASSUME NEW t \in Times, Rescheduled(t) PROVE QuietGoal
    BY <1>a, <1>f, <1>p, <2>3 DEF Rescheduled
  <2> QED  BY <1>2, <2>1, <2>2, <2>3, UpdatedEither
<1>3. ASSUME NEW t \in Times, NEW empty \in BOOLEAN, CartActivity(t, empty) PROVE QuietGoal
  <2>1. UNCHANGED <<now, order, recovery>> /\ (~empty => seen' = MaxOf(seen, t))
    BY <1>3 DEF CartActivity
  <2>2. PICK j \in JobIds : /\ j = Resolve(FALSE) /\ j # NoJob /\ job[j].state = "delayed"
                            /\ \/ empty /\ Cancel(j) /\ Emptied \in faults
                               \/ \E d : ~empty /\ Puts(j, d) /\ (Aliased => Replaces(j, d, t))
    BY <1>0, <1>3, CartEither
  <2> QED  BY <1>a, <1>p, <2>1, <2>2
<1>4. CASE PlaceOrder
  <2>1. UNCHANGED <<now, job, index, recovery, seen>> /\ order # "handled"
    BY <1>4 DEF PlaceOrder
  <2>2. Covered'
    BY <1>i, <2>1 DEF Covered, Exists, Untaken
  <2> QED  BY <1>u, <2>1, <2>2
<1>5. CASE OrderCompleted
  <2>1. order' = "handled" /\ now' = now
    BY <1>5 DEF OrderCompleted
  <2>2. job' = job \/ \E j \in JobIds : Cancel(j)
    BY <1>0, <1>5, ResolveJob DEF OrderCompleted, CancelForOrder, CompleteForOrder
  <2>3. ASSUME NEW j \in JobIds, Cancel(j) PROVE Aged
    <3>1. \A k \in JobIds : job'[k] = IF k = j THEN NoneJob ELSE job[k]
      BY <1>0, <2>3, CancelFacts
    <3> QED  BY <1>i, <2>1, <3>1 DEF NoneJob
  <2> QED  BY <1>u, <2>1, <2>2, <2>3
<1>6. ~OrderCrashes /\ ~LockLapses /\ ~TombstoneLapses
  BY DEF OrderCrashes, LockLapses, TombstoneLapses
<1>7. ASSUME NEW j \in JobIds, Pick(j) PROVE QuietGoal
  <2>1. /\ job'[j].state = "active" /\ job'[j].activity = job[j].activity
        /\ \A k \in JobIds : k # j => job'[k] = job[k]
    BY <1>0, <1>7, PickFacts
  <2>2. UNCHANGED <<now, order, index, recovery, seen>> /\ job[j].activity + Delay <= now
    BY <1>7 DEF Pick
  <2>3. Aged
    BY <1>i, <2>1, <2>2
  <2>4. Exists(index) => Exists(index)' /\ job'[index].activity = job[index].activity
    BY <1>t, <2>1, <2>2 DEF Exists
  <2>5. \A g \in Gens : recovery'[g].activity >= recovery[g].activity
    BY <1>t, <2>2
  <2>6. ~Untaken
    BY <1>7 DEF Pick, Untaken
  <2> QED  BY <1>i, <1>k, <2>2, <2>3, <2>4, <2>5, <2>6
<1>8. ASSUME NEW j \in JobIds, MaterializeCheck(j) PROVE QuietGoal
  <2>1. UNCHANGED <<now, order, job, index, seen>>
    BY <1>8 DEF MaterializeCheck
  <2>2. \A g \in Gens : recovery[g].status \in Active =>
             recovery'[g].status \in Active /\ recovery'[g].activity = recovery[g].activity
    BY <1>0, <1>8, CheckFacts DEF Active
  <2>3. \A g \in Gens : recovery[g].activity >= recovery[g].activity
    BY <1>t
  <2>4. Exists(index) => Exists(index)' /\ job'[index].activity = job[index].activity
    BY <2>1 DEF Exists
  <2>5. Covered => Covered'
    BY <1>k, <2>1, <2>2, <2>3, <2>4 DEF Untaken
  <2> QED  BY <1>i, <1>u, <2>1, <2>5
<1>9. ASSUME UNCHANGED <<now, order, job, index, recovery, seen>> PROVE QuietGoal
  <2>1. Covered => Covered'
    BY <1>9 DEF Covered, Exists, Untaken
  <2> QED  BY <1>i, <1>u, <1>9, <2>1
<1>10. ASSUME NEW j \in JobIds, Finish(j) PROVE QuietGoal
  <2>1. /\ \A k \in JobIds : k # j => job'[k] = job[k]
        /\ job'[j].state # "active" /\ job[j].state = "active"
        /\ index' = IF index = j THEN NoJob ELSE index
    BY <1>0, <1>10, FinishFacts DEF WorkInv
  <2>2. UNCHANGED <<now, order, recovery, seen>>
    BY <1>10 DEF Finish
  <2>3. Aged /\ ~Untaken
    BY <1>i, <2>1, <2>2 DEF Untaken
  <2>4. CASE index = j /\ job[index].activity >= seen
    <3>1. seen + Delay <= now
      BY <1>i, <1>t, <2>1, <2>4
    <3> QED  BY <2>2, <2>3, <3>1 DEF Covered
  <2>5. CASE index # j
    <3>1. index' = index /\ (Exists(index) => Exists(index)' /\ job'[index].activity = job[index].activity)
      BY <1>t, <2>1, <2>5 DEF Exists
    <3>2. Covered => Covered'
      BY <2>2, <2>3, <3>1 DEF Covered
    <3> QED  BY <1>i, <2>2, <2>3, <3>2
  <2>6. CASE index = j /\ ~(job[index].activity >= seen)
    <3>1. Covered => Covered'
      BY <2>2, <2>3, <2>6 DEF Covered
    <3> QED  BY <1>i, <2>2, <2>3, <3>1
  <2> QED  BY <2>4, <2>5, <2>6
<1>11. ASSUME NEW j \in JobIds, NEW s \in {"MESSAGE_SENT", "DETECTED"}, Initiate(j, s) PROVE QuietGoal
  <2>g. PICK gen : gen = run[j].gen
    OBVIOUS
  <2>1. /\ \A g \in Gens : g # gen => recovery'[g] = recovery[g]
        /\ IF recovery[gen].status \in {"none", "DETECTED"}
           THEN /\ recovery'[gen].status = s
                /\ recovery[gen].status = "DETECTED" => recovery'[gen].activity = recovery[gen].activity
           ELSE recovery'[gen] = recovery[gen]
    BY <1>0, <1>11, <2>g, InitiateFacts
  <2>2. UNCHANGED <<now, order, job, index, seen>>
    BY <1>11 DEF Initiate
  <2>3. \A g \in Gens : recovery[g].activity >= recovery[g].activity
    BY <1>t
  <2>4. \A g \in Gens : recovery[g].status \in Active =>
             recovery'[g].status \in Active /\ recovery'[g].activity >= recovery[g].activity
    BY <2>1, <2>3 DEF Active
  <2>5. Exists(index) => Exists(index)' /\ job'[index].activity = job[index].activity
    BY <2>2 DEF Exists
  <2>6. Covered => Covered'
    BY <1>k, <2>2, <2>4, <2>5 DEF Untaken
  <2> QED  BY <1>i, <1>u, <2>2, <2>6
<1>12. ASSUME NEW g \in Gens, Expire(g) PROVE QuietGoal
  <2>1. "EXPIRED" \in Statuses /\ recovery' = [recovery EXCEPT ![g].status = "EXPIRED"]
        /\ recovery[g].activity + Lifetime <= now
    BY <1>12 DEF Expire, Statuses
  <2>2. \A h \in Gens : h # g => recovery'[h] = recovery[h]
    BY <1>0, <2>1, StatusWritten
  <2>3. UNCHANGED <<now, order, job, index, seen>>
    BY <1>12 DEF Expire
  <2>4. CASE recovery[g].activity >= seen
    <3>1. seen + Delay <= now
      BY <1>t, <2>1, <2>4
    <3>2. Covered'
      BY <2>3, <3>1 DEF Covered
    <3> QED  BY <1>u, <2>3, <3>2
  <2>5. CASE ~(recovery[g].activity >= seen)
    <3>1. Covered => Covered'
      BY <2>2, <2>3, <2>5 DEF Covered, Exists, Untaken
    <3> QED  BY <1>i, <1>u, <2>3, <3>1
  <2> QED  BY <2>4, <2>5
<1>13. CASE Advance
  <2>1. now' = now + 1 /\ UNCHANGED <<order, job, index, recovery, seen>>
    BY <1>13 DEF Advance
  <2>2. \A n \in Nat : n + Delay <= now => n + Delay <= now'
    BY <1>t, <2>1
  <2>3. Aged
    BY <1>i, <1>t, <2>1, <2>2
  <2>4. Covered => Covered'
    BY <1>t, <2>1, <2>2 DEF Covered, Exists, Untaken
  <2> QED  BY <1>i, <2>1, <2>3, <2>4
<1>14. ASSUME NEW j \in JobIds, Ends(j) PROVE QuietGoal
  BY <1>9, <1>14 DEF Ends
<1>15. CASE \E j \in JobIds : LookupFails(j) \/ LookupDiscards(j)
  BY <1>14, <1>15, LookupEnds
<1> HIDE DEF QuietGoal
<1> QED  BY <1>1, <1>2, <1>3, <1>4, <1>5, <1>6, <1>7, <1>8, <1>10, <1>11, <1>12, <1>13, <1>15, CandSteps

LEMMA CandInitInv == CandInit => CandInv
<1> SUFFICES ASSUME CandInit PROVE CandInv
  OBVIOUS
<1>1. CandRows
  <2>1. faults \subseteq Faults \cup {Emptied}
    BY DEF CandInit
  <2>2. 0 \in Nat /\ 0 <= MaxEvents
    BY CandidateAssumption
  <2>3. job \in [JobIds -> CandJob] /\ run \in [JobIds -> CandRun] /\ recovery \in [Gens -> CandRecovery]
    BY CandWritten DEF CandInit, Gens
  <2>4. update \in [Updaters -> CandUpdate] /\ crossed \in BOOLEAN
    BY UpdateWritten DEF CandInit
  <2> QED  BY <2>1, <2>2, <2>3, <2>4, CandBounds DEF CandInit, CandRows
<1>2. /\ \A j \in JobIds : job[j].state = "none" /\ run[j].phase = "idle"
      /\ \A g \in Gens : recovery[g].status = "none"
      /\ \A u \in Updaters : update[u] = NoUpdate
      /\ index = NoJob /\ cartIndex = NoJob /\ events = 0 /\ seen = 0 /\ order = "none"
  BY DEF CandInit, NoneJob, Idle, NoRecovery, Gens
<1>3. \A j \in JobIds : ~Checked(j) /\ ~Waiting(j)
  BY <1>2 DEF Checked, Waiting
<1>4. GenerationInv
  BY <1>2, <1>3 DEF GenerationInv, Generations, Gens
<1>5. WorkInv /\ LockInv
  BY <1>2, <1>3 DEF WorkInv, LockInv
<1>10. UpdateInv
  BY <1>2, UpdateWritten DEF UpdateInv
<1>6. Aliased /\ Untouched
  BY <1>2, <1>3, UpdateWritten DEF Aliased, Untouched
<1>7. AliasInv
  BY <1>6 DEF AliasInv
<1>8. OpenInv
  BY <1>2, <1>3 DEF OpenInv
<1>9. QuietInv
  BY <1>2 DEF QuietInv, Covered, Untaken
<1> QED  BY <1>1, <1>4, <1>5, <1>7, <1>8, <1>9, <1>10 DEF CandInv

LEMMA CandStutter ==
  ASSUME CandInv, UNCHANGED candVars
  PROVE  CandInv'
BY DEF CandInv, candVars, CandRows, UpdateInv, GenerationInv, Generations, Past, Checked, WorkInv, LockInv, AliasInv, Parted, Aliased,
   Exists, Waiting, Untouched, OpenInv, NoneOpen, QuietInv, Covered, Untaken

LEMMA CandStep == CandInv /\ [CandNext]_candVars => CandInv'
BY CandRowsStep, GenerationStep, UpdateStep, WorkStep, LockStep, AliasStep, OpenStep, QuietStep, CandStutter DEF CandInv

\* The candidates' inductive invariant (PendingCandidates): every step of webhook, worker, clock and fault keeps it.
THEOREM CandInvariant == CandSpec => []CandInv
BY CandStep, CandInitInv, PTL DEF CandSpec

\* Every job, alias, worker and generation of a checkout keeps its shape.
THEOREM CandidatesTyped == CandSpec => []CandTypeOK
<1>1. CandInv => CandTypeOK
  BY CandRowsTyped DEF CandInv
<1> QED  BY <1>1, CandInvariant, PTL

\* One generation after the other, none open once an order is handled, and a waiting candidate is found by its
\* checkout (materialize, handleOrderCompleted, handleCandidateMatured): whatever the order of the webhooks.
THEOREM GenerationsAlwaysInTurn == CandSpec => []GenerationsInTurn
<1>1. CandInv => GenerationsInTurn
  <2> SUFFICES ASSUME CandInv PROVE GenerationsInTurn
    OBVIOUS
  <2>0. CandRows /\ GenerationInv /\ AliasInv /\ OpenInv
    BY DEF CandInv
  <2>1. OneOpenGeneration
    BY <2>0 DEF OneOpenGeneration, GenerationInv, Past, Generations, Gens
  <2>2. OrderClosesRecovery
    BY <2>0, OpenIsLatest DEF OrderClosesRecovery, OpenInv
  <2>3. WaitingCandidateIndexed
    <3>1. ASSUME ~Parted, NEW j \in JobIds, Waiting(j) PROVE Exists(index)
      BY <2>0, <3>1, JobIdFacts DEF AliasInv, Aliased
    <3> QED  BY <3>1 DEF WaitingCandidateIndexed, Waiting, Parted
  <2> QED  BY <2>1, <2>2, <2>3 DEF GenerationsInTurn
<1> QED  BY <1>1, CandInvariant, PTL

\* A message goes out only in the first outreach of a checked job, while the order is not handled.
LEMMA SentInTime ==
  ASSUME CandInv, CandNext, faults \cap {"lockLapses", "tombstoneLapses"} = {}, order = "handled",
         NEW g \in Gens, recovery'[g].sent
  PROVE  recovery[g].sent
<1>0. CandRows /\ GenerationInv
  BY DEF CandInv
<1>u. recovery' = recovery => recovery[g].sent
  OBVIOUS
<1>1. \A j \in JobIds, s \in {"MESSAGE_SENT", "DETECTED"} : ~Initiate(j, s)
  BY DEF CandInv, LockInv, Initiate, Checked
<1>2. CASE Updated
  BY <1>0, <1>2, <1>u, UpdatedEither, RecordFacts DEF Rested, Rescheduled
<1>3. ASSUME NEW j \in JobIds, MaterializeCheck(j) PROVE recovery[g].sent
  BY <1>0, <1>3, CheckFacts
<1>4. ASSUME NEW h \in Gens, Expire(h) PROVE recovery[g].sent
  <2>1. "EXPIRED" \in Statuses /\ recovery' = [recovery EXCEPT ![h].status = "EXPIRED"]
    BY <1>4 DEF Expire, Statuses
  <2> QED  BY <1>0, <2>1, StatusWritten
<1>5. ~OrderCompleted /\ ~OrderCrashes /\ ~PlaceOrder
  BY DEF OrderCompleted, OrderCrashes, PlaceOrder
<1>6. CASE CheckoutCreated \/ Advance \/ LockLapses \/ TombstoneLapses
  BY <1>6, <1>u DEF CheckoutCreated, Advance, LockLapses, TombstoneLapses
<1>7. ASSUME NEW t \in Times, NEW empty \in BOOLEAN, CartActivity(t, empty) PROVE recovery[g].sent
  BY <1>7, <1>u DEF CartActivity
<1>8. ASSUME NEW j \in JobIds, Pick(j) \/ Finish(j) \/ Ends(j) PROVE recovery[g].sent
  BY <1>8, <1>u DEF Pick, Finish, Ends
<1> QED  BY <1>1, <1>2, <1>3, <1>4, <1>5, <1>6, <1>7, <1>8, LookupEnds, CandSteps

\* A recovery is created by the first outreach of the one candidate, which has aged.
LEMMA CreatedInTime ==
  ASSUME CandInv, CandNext, faults = {}, Delay <= Lifetime, NEW g \in Gens,
         recovery[g].status = "none", recovery'[g].status # "none"
  PROVE  seen + Delay <= now
<1>0. CandRows /\ GenerationInv /\ WorkInv /\ AliasInv /\ OpenInv /\ QuietInv /\ LockInv
  BY DEF CandInv
<1>u. recovery'[g].status # recovery[g].status
  OBVIOUS
<1>2. ~Updated
  BY <1>0, <1>u, UpdatedEither, RecordFacts DEF Rested, Rescheduled
<1>3. ASSUME NEW j \in JobIds PROVE ~MaterializeCheck(j)
  BY <1>0, <1>u, CheckFacts DEF Active
<1>4. ASSUME NEW h \in Gens PROVE ~Expire(h)
  <2>1. Expire(h) => h # g /\ "EXPIRED" \in Statuses /\ recovery' = [recovery EXCEPT ![h].status = "EXPIRED"]
    BY DEF Expire, Statuses, Active
  <2> QED  BY <1>0, <1>u, <2>1, StatusWritten
<1>5. ~OrderCompleted /\ ~OrderCrashes /\ ~PlaceOrder
  <2>1. ~CompleteForOrder
    BY <1>0, <1>u, CompleteFacts DEF Active
  <2> QED  BY <1>u, <2>1 DEF OrderCompleted, OrderCrashes, PlaceOrder, CancelForOrder
<1>6. ~CheckoutCreated /\ ~Advance /\ ~LockLapses /\ ~TombstoneLapses
  BY <1>u DEF CheckoutCreated, Advance, LockLapses, TombstoneLapses
<1>7. ASSUME NEW t \in Times, NEW empty \in BOOLEAN PROVE ~CartActivity(t, empty)
  BY <1>u DEF CartActivity
<1>8. ASSUME NEW j \in JobIds PROVE ~Pick(j) /\ ~Finish(j) /\ ~Ends(j)
  BY <1>u DEF Pick, Finish, Ends
<1>9. PICK j \in JobIds, s \in {"MESSAGE_SENT", "DETECTED"} : Initiate(j, s)
  BY <1>2, <1>3, <1>4, <1>5, <1>6, <1>7, <1>8, LookupEnds, CandSteps
<1>10. Checked(j) /\ Past(run[j].gen) /\ run[j].gen = g
  BY <1>0, <1>9, <1>u, InitiateFacts
<1>11. NoneOpen
  <2>1. ASSUME NEW h \in Gens, recovery[h].status \in Active PROVE FALSE
    <3>1. h \in Generations /\ g \in Nat /\ h \in Nat /\ h # g
      BY <2>1, CandBounds DEF Generations, Gens, Active
    <3>2. ~(h < g)
      BY <1>10, <2>1 DEF Past, Active
    <3>3. ~(g < h)
      BY <1>0, <3>1 DEF GenerationInv, Past
    <3> QED  BY <3>1, <3>2, <3>3
  <2> QED  BY <2>1 DEF NoneOpen
<1>12. order # "handled" /\ index \in {NoJob, j} /\ job[j].state = "active"
  BY <1>0, <1>10 DEF LockInv, OpenInv, WorkInv, Checked
<1>13. ~Untaken
  BY <1>12 DEF Untaken
<1>14. Covered /\ job[j].activity + Delay <= now
  BY <1>0, <1>12 DEF QuietInv
<1>15. CASE index = j /\ job[j].activity >= seen
  <2>1. job[j].activity \in Nat /\ seen \in Nat /\ Delay \in Nat /\ now \in Nat
    BY <1>0, CandBounds, CandFields, CandidateAssumption DEF CandRows
  <2> QED  BY <1>14, <1>15, <2>1
<1> QED  BY <1>11, <1>12, <1>13, <1>14, <1>15, JobIdFacts DEF Covered, NoneOpen, Exists

\* No outreach once the order is handled, and no recovery of a checkout that has not been quiet for the recovery delay
\* (handleOrderCompleted, materialize).
THEOREM OutreachAlwaysInTime == CandSpec => OutreachInTime
<1> DEFINE Stops == faults \cap {"lockLapses", "tombstoneLapses"} = {} /\ order = "handled"
                    => \A g \in 1 .. MaxGeneration : recovery'[g].sent => recovery[g].sent
           Waits == faults = {} /\ Delay <= Lifetime => \A g \in 1 .. MaxGeneration :
                    recovery[g].status = "none" /\ recovery'[g].status # "none" => seen + Delay <= now
<1>1. CandInv /\ [CandNext]_candVars => [Stops]_candVars
  BY SentInTime DEF Gens
<1>2. CandInv /\ [CandNext]_candVars => [Waits]_candVars
  BY CreatedInTime DEF Gens
<1>3. CandSpec => [][Stops]_candVars
  BY <1>1, CandInvariant, PTL DEF CandSpec
<1>4. CandSpec => [][Waits]_candVars
  BY <1>2, CandInvariant, PTL DEF CandSpec
<1> QED  BY <1>3, <1>4 DEF OutreachInTime, OrderStopsOutreach, QuietBeforeRecovery
-----------------------------------------------------------------------------
(* The translation batches.                                                *)

BatchStates == {"NONE", "READY", "SUBMITTING", "SUBMITTED", "SUBMISSION_UNKNOWN", "PROVIDER_COMPLETED"} \cup Closed
BatchNumbers == 0 .. MaxBatches
PollNumbers == 0 .. MaxPolls
Submits == 0 .. MaxSubmits
TrFaultNumbers == 0 .. MaxFaults
ItemStates == {"PENDING", "AVAILABLE", "FAILED"}
RunStates == {"PENDING", "PROCESSING", "READY", "FAILED", "STALE", "APPLIED"}
HandPlaces == {"idle", "create", "record", "answer", "apply"}
Outs == {"ok", "retryable", "terminal", "ambiguous"}
ItemRow == [st : ItemStates, batch : BatchNumbers, tries : Nat]
\* A batch whose members are among I, and what a worker holds of it.
BatchRow(I) == [st : BatchStates, seq : PollNumbers, tries : Submits, members : SUBSET I, made : Nat]
HandRow(I) == [pc : HandPlaces, job : Jobs, todo : SUBSET I, out : Outs]

TrRows ==
    /\ workload \in Workloads
    /\ item \in [Items -> ItemRow]
    /\ batch \in [BatchIds -> BatchRow(Items)]
    /\ trRun \in RunStates
    /\ target \in {"TRANSLATING", "PUBLISHED", "FAILED"}
    /\ source \in {0, 1}
    /\ request \in {"none", "PENDING", "PROCESSING", "COMPLETED"}
    /\ trQueue \subseteq Jobs
    /\ hand \in [Translators -> HandRow(Items)]
    /\ trFaults \in TrFaultNumbers

\* Every job but that of the assembly is of a batch.
Named(j) == j.kind # "dispatch" => j.b \in BatchIds
NamedInv ==
    /\ \A j \in trQueue : Named(j)
    /\ \A w \in Translators : hand[w].pc # "idle" => hand[w].job.b \in BatchIds /\ Named(hand[w].job)

\* Batches are assembled one after the other; one that is ready can be submitted once more.
Unused(x) == x.st = "NONE" /\ x.tries = 0 /\ x.seq = 0 /\ x.members = {} /\ x.made = 0
BatchesInv ==
    /\ \A b, c \in BatchIds : b < c /\ batch[c].st # "NONE" => batch[b].st # "NONE"
    /\ \A b \in BatchIds : /\ batch[b].st = "NONE" => Unused(batch[b])
                           /\ batch[b].st = "READY" => batch[b].tries < MaxSubmits

\* One worker at most submits a batch; nothing was created for one that waits for its submission.
Submitting(w) == hand[w].pc \in {"create", "record"}
SubmitInv ==
    /\ \A w \in Translators : Submitting(w) => batch[hand[w].job.b].st \notin {"NONE", "READY"}
    /\ \A v, w \in Translators : Submitting(v) /\ Submitting(w) /\ hand[v].job.b = hand[w].job.b => v = w
    /\ \A w \in Translators : hand[w].pc = "create" \/ (hand[w].pc = "record" /\ hand[w].out = "retryable")
                                => batch[hand[w].job.b].made = 0
    /\ \A b \in BatchIds : batch[b].made <= 1 /\ (batch[b].st = "READY" => batch[b].made = 0)

\* The batches an item has been in are its tries, and the one it is in or has left for good.
Counted(x) == x.tries + (IF x.st = "PENDING" /\ x.batch = 0 THEN 0 ELSE 1)
Holders(i) == {b \in BatchIds : i \in batch[b].members}
CountInv == \A i \in Items : Cardinality(Holders(i)) = Counted(item[i])

ShownInv == PublishedIsCurrent /\ TranslatedMessageShown

TrInv == TrRows /\ NamedInv /\ BatchesInv /\ SubmitInv /\ CountInv /\ ShownInv

LEMMA TrBounds ==
    /\ BatchIds \subseteq Nat /\ 0 \notin BatchIds /\ BatchIds \subseteq BatchNumbers /\ 0 \in BatchNumbers
    /\ IsFiniteSet(BatchIds)
    /\ 0 \in PollNumbers /\ 1 \in PollNumbers /\ PollNumbers \subseteq Nat
    /\ \A n \in PollNumbers : n < MaxPolls => n + 1 \in PollNumbers
    /\ 0 \in Submits /\ Submits \subseteq Nat /\ 0 < MaxSubmits
    /\ \A n \in Submits : n < MaxSubmits => n + 1 \in Submits
    /\ 0 \in TrFaultNumbers /\ \A n \in TrFaultNumbers : n < MaxFaults => n + 1 \in TrFaultNumbers
<1>1. IsFiniteSet(BatchIds)
  BY TranslationAssumption, FS_Interval DEF BatchIds
<1> QED  BY <1>1, TranslationAssumption DEF BatchIds, BatchNumbers, PollNumbers, Submits, TrFaultNumbers

LEMMA TrRowsTyped == TrRows <=> TrTypeOK
BY DEF TrRows, TrTypeOK, ItemRow, BatchRow, HandRow, ItemStates, BatchStates, BatchNumbers, PollNumbers, Submits,
   RunStates, HandPlaces, Outs, TrFaultNumbers

LEMMA JobsTyped ==
    /\ \A b \in BatchIds, s \in PollNumbers :
          /\ JobFor("poll", b, s) \in Jobs /\ Named(JobFor("poll", b, s))
          /\ JobFor("submit", b, s) \in Jobs /\ Named(JobFor("submit", b, s))
          /\ JobFor("results", b, s) \in Jobs /\ Named(JobFor("results", b, s))
    /\ JobFor("dispatch", 0, 0) \in Jobs /\ Named(JobFor("dispatch", 0, 0))
    /\ \A j \in Jobs : j.seq \in PollNumbers
BY TrBounds DEF JobFor, Jobs, Named, BatchNumbers, PollNumbers

\* The row of batch b becomes y.
Wrote(b, y) == b \in BatchIds /\ y \in BatchRow(Items) /\ batch' = [batch EXCEPT ![b] = y]
SameBatch(x, y) == y.members = x.members /\ y.made = x.made

LEMMA WroteFacts ==
  ASSUME TrRows, NEW b, NEW y, Wrote(b, y)
  PROVE  /\ batch' \in [BatchIds -> BatchRow(Items)]
         /\ batch'[b] = y
         /\ \A c \in BatchIds : c # b => batch'[c] = batch[c]
BY DEF TrRows, Wrote

LEMMA BatchFields ==
  \A I : \A x \in BatchRow(I) : /\ x.st \in BatchStates /\ x.seq \in PollNumbers /\ x.tries \in Submits
                                /\ x.members \in SUBSET I /\ x.made \in Nat
BY DEF BatchRow

LEMMA BatchWritten ==
  ASSUME NEW I, NEW x \in BatchRow(I), NEW s \in BatchStates, NEW q \in PollNumbers, NEW n \in Submits,
         NEW M \in SUBSET I, NEW k \in Nat
  PROVE  /\ [x EXCEPT !.st = s] \in BatchRow(I)
         /\ [x EXCEPT !.seq = q] \in BatchRow(I)
         /\ [x EXCEPT !.made = k] \in BatchRow(I)
         /\ [x EXCEPT !.st = s, !.seq = q] \in BatchRow(I)
         /\ [x EXCEPT !.st = s, !.tries = n] \in BatchRow(I)
         /\ [x EXCEPT !.st = s, !.members = M] \in BatchRow(I)
         /\ [x EXCEPT !.st = s, !.seq = q, !.tries = n] \in BatchRow(I)
BY DEF BatchRow

LEMMA StatusWrites ==
  ASSUME TrRows, NEW b \in BatchIds, NEW s \in BatchStates, batch' = [batch EXCEPT ![b].st = s]
  PROVE  \E y : Wrote(b, y) /\ y.st = s /\ SameBatch(batch[b], y) /\ y.tries = batch[b].tries
<1>x. PICK x : x = batch[b]
  OBVIOUS
<1>y. PICK y : y = [x EXCEPT !.st = s]
  OBVIOUS
<1>1. x \in BatchRow(Items) /\ batch' = [batch EXCEPT ![b] = y]
  BY <1>x, <1>y DEF TrRows
<1>2. y \in BatchRow(Items)
  BY <1>1, <1>y, TrBounds, BatchWritten DEF BatchRow
<1>3. y.st = s /\ y.tries = x.tries /\ y.members = x.members /\ y.made = x.made
  BY <1>1, <1>y DEF BatchRow
<1> QED  BY <1>1, <1>2, <1>3, <1>x DEF Wrote, SameBatch

LEMMA ClosingWrites ==
  ASSUME TrRows, NEW b \in BatchIds, NEW s \in Closed, batch' = Closing(b, s)
  PROVE  \E y : Wrote(b, y) /\ y.st = s /\ SameBatch(batch[b], y)
<1>x. PICK x : x = batch[b]
  OBVIOUS
<1>y. PICK y : y = [x EXCEPT !.st = s, !.seq = 0, !.tries = 0]
  OBVIOUS
<1>1. x \in BatchRow(Items) /\ batch' = [batch EXCEPT ![b] = y]
  BY <1>x, <1>y DEF TrRows, Closing
<1>2. y \in BatchRow(Items)
  BY <1>1, <1>y, TrBounds, BatchWritten DEF BatchRow, BatchStates
<1>3. y.st = s /\ y.members = x.members /\ y.made = x.made
  BY <1>1, <1>y DEF BatchRow
<1> QED  BY <1>1, <1>2, <1>3, <1>x DEF Wrote, SameBatch

LEMMA SequenceWrites ==
  ASSUME TrRows, NEW b \in BatchIds, NEW q \in PollNumbers, NEW s \in BatchStates,
         \/ batch' = [batch EXCEPT ![b].st = s, ![b].seq = q]
         \/ batch' = [batch EXCEPT ![b].seq = q] /\ s = batch[b].st
  PROVE  \E y : Wrote(b, y) /\ y.st = s /\ y.seq = q /\ SameBatch(batch[b], y)
<1>x. PICK x : x = batch[b]
  OBVIOUS
<1>1. x \in BatchRow(Items)
  BY <1>x DEF TrRows
<1>2. CASE batch' = [batch EXCEPT ![b].st = s, ![b].seq = q]
  <2>y. PICK y : y = [x EXCEPT !.st = s, !.seq = q]
    OBVIOUS
  <2>1. batch' = [batch EXCEPT ![b] = y]
    BY <1>2, <1>x, <2>y DEF TrRows
  <2>2. y \in BatchRow(Items)
    BY <1>1, <2>y, TrBounds, BatchWritten DEF BatchRow
  <2>3. y.st = s /\ y.seq = q /\ y.members = x.members /\ y.made = x.made
    BY <1>1, <2>y DEF BatchRow
  <2> QED  BY <2>1, <2>2, <2>3, <1>x DEF Wrote, SameBatch
<1>3. CASE batch' = [batch EXCEPT ![b].seq = q] /\ s = batch[b].st
  <2>y. PICK y : y = [x EXCEPT !.seq = q]
    OBVIOUS
  <2>1. batch' = [batch EXCEPT ![b] = y]
    BY <1>3, <1>x, <2>y DEF TrRows
  <2>2. y \in BatchRow(Items)
    BY <1>1, <2>y, TrBounds, BatchWritten DEF BatchRow
  <2>3. y.st = x.st /\ y.seq = q /\ y.members = x.members /\ y.made = x.made
    BY <1>1, <2>y DEF BatchRow
  <2> QED  BY <1>3, <2>1, <2>2, <2>3, <1>x DEF Wrote, SameBatch
<1> QED  BY <1>2, <1>3

LEMMA TakenWrites ==
  ASSUME TrRows, NEW b \in BatchIds, batch[b].tries < MaxSubmits,
         batch' = [batch EXCEPT ![b].st = "SUBMITTING", ![b].tries = @ + 1]
  PROVE  \E y : Wrote(b, y) /\ y.st = "SUBMITTING" /\ SameBatch(batch[b], y)
<1>x. PICK x : x = batch[b]
  OBVIOUS
<1>n. PICK n : n = x.tries + 1
  OBVIOUS
<1>y. PICK y : y = [x EXCEPT !.st = "SUBMITTING", !.tries = n]
  OBVIOUS
<1>1. x \in BatchRow(Items) /\ batch' = [batch EXCEPT ![b] = y]
  BY <1>x, <1>n, <1>y DEF TrRows
<1>2. n \in Submits
  BY <1>1, <1>x, <1>n, TrBounds, BatchFields
<1>3. "SUBMITTING" \in BatchStates
  BY DEF BatchStates
<1>4. y \in BatchRow(Items)
  BY <1>1, <1>2, <1>3, <1>y, TrBounds, BatchWritten DEF BatchRow
<1>5. y.st = "SUBMITTING" /\ y.members = x.members /\ y.made = x.made
  BY <1>1, <1>y DEF BatchRow
<1> QED  BY <1>1, <1>4, <1>5, <1>x DEF Wrote, SameBatch

LEMMA MadeWrites ==
  ASSUME TrRows, NEW b \in BatchIds, NEW n \in {0, 1}, batch' = [batch EXCEPT ![b].made = @ + n]
  PROVE  \E y : Wrote(b, y) /\ y.st = batch[b].st /\ y.members = batch[b].members /\ y.tries = batch[b].tries
                /\ y.made = batch[b].made + n
<1>x. PICK x : x = batch[b]
  OBVIOUS
<1>m. PICK m : m = x.made + n
  OBVIOUS
<1>y. PICK y : y = [x EXCEPT !.made = m]
  OBVIOUS
<1>1. x \in BatchRow(Items) /\ batch' = [batch EXCEPT ![b] = y]
  BY <1>x, <1>m, <1>y DEF TrRows
<1>2. m \in Nat
  BY <1>1, <1>m, BatchFields
<1>3. y \in BatchRow(Items)
  BY <1>1, <1>2, <1>y, TrBounds, BatchWritten DEF BatchRow, BatchStates
<1>4. y.st = x.st /\ y.members = x.members /\ y.tries = x.tries /\ y.made = m
  BY <1>1, <1>y DEF BatchRow
<1> QED  BY <1>1, <1>3, <1>4, <1>x, <1>m DEF Wrote

LEMMA AssembledWrites ==
  ASSUME TrRows, NEW b \in BatchIds, NEW M \in SUBSET Items,
         batch' = [batch EXCEPT ![b].st = "READY", ![b].members = M]
  PROVE  \E y : Wrote(b, y) /\ y.st = "READY" /\ y.members = M /\ y.made = batch[b].made /\ y.tries = batch[b].tries
<1>x. PICK x : x = batch[b]
  OBVIOUS
<1>y. PICK y : y = [x EXCEPT !.st = "READY", !.members = M]
  OBVIOUS
<1>1. x \in BatchRow(Items) /\ batch' = [batch EXCEPT ![b] = y]
  BY <1>x, <1>y DEF TrRows
<1>2. "READY" \in BatchStates
  BY DEF BatchStates
<1>3. y \in BatchRow(Items)
  BY <1>1, <1>2, <1>y, TrBounds, BatchWritten DEF BatchRow
<1>4. y.st = "READY" /\ y.members = M /\ y.made = x.made /\ y.tries = x.tries
  BY <1>1, <1>y DEF BatchRow
<1> QED  BY <1>1, <1>3, <1>4, <1>x DEF Wrote

\* A step that neither readies a batch nor buys one.
Steady ==
    /\ batch' \in [BatchIds -> BatchRow(Items)]
    /\ \A b \in BatchIds : /\ SameBatch(batch[b], batch'[b])
                           /\ IF batch[b].st \in {"NONE", "READY"} THEN batch'[b] = batch[b]
                              ELSE batch'[b].st \notin {"NONE", "READY"}

LEMMA SteadyBatch ==
  ASSUME TrRows
  PROVE  /\ batch' = batch => Steady
         /\ \A b, y : /\ Wrote(b, y) /\ SameBatch(batch[b], y)
                      /\ batch[b].st \notin {"NONE", "READY"} /\ y.st \notin {"NONE", "READY"}
                      => Steady
<1>1. ASSUME batch' = batch PROVE Steady
  BY <1>1 DEF TrRows, Steady, SameBatch
<1>2. ASSUME NEW b, NEW y, Wrote(b, y), SameBatch(batch[b], y),
             batch[b].st \notin {"NONE", "READY"}, y.st \notin {"NONE", "READY"}
      PROVE  Steady
  BY <1>2, WroteFacts DEF Steady, SameBatch, Wrote
<1> QED  BY <1>1, <1>2

-----------------------------------------------------------------------------
(* Items.                                                                  *)

LEMMA ItemFields == \A x \in ItemRow : x.st \in ItemStates /\ x.batch \in BatchNumbers /\ x.tries \in Nat
BY DEF ItemRow

\* An item that waits in a batch and is given up, or waits again, or has its translation, counts the same batches.
SameItem(x, y) == y \in ItemRow /\ Counted(y) = Counted(x) /\ (x.st = "AVAILABLE" => y.st = "AVAILABLE")
InBatch(x) == x.st = "PENDING" /\ x.batch # 0

LEMMA SameItemRefl == \A x \in ItemRow : SameItem(x, x)
BY DEF SameItem

LEMMA RetriedFacts ==
  ASSUME NEW x \in ItemRow, InBatch(x), NEW passing \in BOOLEAN, NEW limit \in Nat
  PROVE  SameItem(x, Retried(x, passing, limit)) /\ Retried(x, passing, limit).st # "AVAILABLE"
<1>n. PICK n : n = x.tries
  OBVIOUS
<1>1. n \in Nat /\ n + 1 \in Nat /\ 0 \in BatchNumbers
  BY <1>n, ItemFields, TrBounds
<1>2. Counted(x) = n + 1
  BY <1>n DEF Counted, InBatch
<1>3. CASE passing /\ n < limit
  <2>y. PICK y : y = [x EXCEPT !.batch = 0, !.tries = n + 1]
    OBVIOUS
  <2>1. Retried(x, passing, limit) = y
    BY <1>3, <1>n, <2>y DEF Retried
  <2>2. y \in ItemRow /\ y.st = "PENDING" /\ y.batch = 0 /\ y.tries = n + 1
    BY <1>1, <2>y DEF ItemRow, InBatch
  <2>3. Counted(y) = n + 1
    BY <1>1, <2>2 DEF Counted
  <2> QED  BY <1>2, <2>1, <2>2, <2>3 DEF SameItem, InBatch
<1>4. CASE ~(passing /\ n < limit)
  <2>y. PICK y : y = [x EXCEPT !.st = "FAILED", !.batch = 0]
    OBVIOUS
  <2>1. Retried(x, passing, limit) = y
    BY <1>4, <1>n, <2>y DEF Retried
  <2>2. y \in ItemRow /\ y.st = "FAILED" /\ y.tries = n
    BY <1>1, <1>n, <2>y DEF ItemRow, ItemStates
  <2>3. Counted(y) = n + 1
    BY <1>1, <2>2 DEF Counted
  <2> QED  BY <1>2, <2>1, <2>2, <2>3 DEF SameItem, InBatch
<1> QED  BY <1>3, <1>4

\* No item counts otherwise, and none has a translation it did not have.
ItemsSteady == item' \in [Items -> ItemRow] /\ \A i \in Items : SameItem(item[i], item'[i])
NoneNew == \A i \in Items : item'[i].st = "AVAILABLE" => item[i].st = "AVAILABLE"

LEMMA HeldFacts ==
  ASSUME TrRows, NEW b \in BatchIds
  PROVE  Held(b) \subseteq Items /\ \A i \in Held(b) : InBatch(item[i])
BY TrBounds DEF Held, InBatch

LEMMA DisposedFacts ==
  ASSUME TrRows, NEW J \in SUBSET Items, \A i \in J : InBatch(item[i]), NEW passing \in BOOLEAN, NEW limit \in Nat,
         item' = Disposed(J, passing, limit)
  PROVE  ItemsSteady /\ NoneNew
<1>1. \A i \in Items : item[i] \in ItemRow
  BY DEF TrRows
<1>2. \A i \in Items : item'[i] = IF i \in J THEN Retried(item[i], passing, limit) ELSE item[i]
  BY DEF Disposed
<1>3. ASSUME NEW i \in Items PROVE SameItem(item[i], item'[i]) /\ (item'[i].st = "AVAILABLE" => item[i].st = "AVAILABLE")
  BY <1>1, <1>2, <1>3, RetriedFacts, SameItemRefl
<1>4. item' \in [Items -> ItemRow]
  <2>1. item' = [i \in Items |-> item'[i]]
    BY DEF Disposed
  <2> QED  BY <1>3, <2>1 DEF SameItem
<1> QED  BY <1>3, <1>4 DEF ItemsSteady, NoneNew

LEMMA TranslatedFacts ==
  ASSUME TrRows, NEW i \in Items, InBatch(item[i]), item' = Translated(i)
  PROVE  ItemsSteady /\ \A k \in Items : k # i => item'[k] = item[k]
<1>x. PICK x : x = item[i]
  OBVIOUS
<1>n. PICK n : n = x.tries
  OBVIOUS
<1>y. PICK y : y = [x EXCEPT !.st = "AVAILABLE", !.batch = 0]
  OBVIOUS
<1>1. x \in ItemRow /\ n \in Nat /\ 0 \in BatchNumbers /\ item' = [item EXCEPT ![i] = y]
  BY <1>x, <1>n, <1>y, ItemFields, TrBounds DEF TrRows, Translated
<1>2. y \in ItemRow /\ y.st = "AVAILABLE" /\ y.tries = n
  BY <1>1, <1>n, <1>y DEF ItemRow, ItemStates
<1>3. SameItem(x, y)
  BY <1>1, <1>2, <1>x, <1>n DEF SameItem, Counted, InBatch
<1>4. \A k \in Items : item'[k] = IF k = i THEN y ELSE item[k]
  BY <1>1 DEF TrRows
<1>5. item' \in [Items -> ItemRow]
  BY <1>1, <1>2 DEF TrRows
<1>6. ASSUME NEW k \in Items PROVE SameItem(item[k], item'[k])
  <2>1. item[k] \in ItemRow
    BY DEF TrRows
  <2> QED  BY <1>3, <1>4, <1>x, <2>1, SameItemRefl
<1> QED  BY <1>4, <1>5, <1>6 DEF ItemsSteady

LEMMA ItemsRest == TrRows /\ item' = item => ItemsSteady /\ NoneNew
BY SameItemRefl DEF TrRows, ItemsSteady, NoneNew

LEMMA AdvancedTyped == ASSUME TrRows, NEW it PROVE Advanced(it) \in RunStates
BY DEF TrRows, Advanced, RunStates

-----------------------------------------------------------------------------
(* Workers and the queue.                                                  *)

LEMMA HandFields ==
  \A I : \A h \in HandRow(I) : h.pc \in HandPlaces /\ h.job \in Jobs /\ h.todo \in SUBSET I /\ h.out \in Outs
BY DEF HandRow

\* What worker w holds becomes h.
HandPut(w, h) ==
    /\ h \in HandRow(Items) /\ hand' = [hand EXCEPT ![w] = h]
    /\ h.pc # "idle" => h.job.b \in BatchIds /\ Named(h.job)
HandsFine ==
    /\ hand' \in [Translators -> HandRow(Items)]
    /\ \A w \in Translators : hand'[w].pc # "idle" => hand'[w].job.b \in BatchIds /\ Named(hand'[w].job)

LEMMA HandPutFacts ==
  ASSUME TrRows, NamedInv, NEW w \in Translators, NEW h, HandPut(w, h)
  PROVE  /\ HandsFine /\ hand'[w] = h
         /\ \A v \in Translators : v # w => hand'[v] = hand[v]
BY DEF TrRows, NamedInv, HandPut, HandsFine

LEMMA HandsRest == TrRows /\ NamedInv /\ hand' = hand => HandsFine
BY DEF TrRows, NamedInv, HandsFine

LEMMA RestingTyped == ASSUME NEW I PROVE Resting \in HandRow(I)
BY JobsTyped DEF Resting, HandRow, HandPlaces, Outs

LEMMA RestFacts ==
  ASSUME TrRows, NamedInv, NEW w \in Translators, Rest(w)
  PROVE  HandsFine /\ hand'[w].pc = "idle" /\ \A v \in Translators : v # w => hand'[v] = hand[v]
<1>1. HandPut(w, Resting)
  BY RestingTyped DEF Rest, HandPut, Resting
<1> QED  BY <1>1, HandPutFacts DEF Resting

QueueFine == trQueue' \subseteq Jobs /\ (\A j \in trQueue' : Named(j)) /\ trFaults' \in TrFaultNumbers

LEMMA QueueFacts ==
  ASSUME TrRows, NamedInv
  PROVE  /\ \A js : js \subseteq Jobs /\ (\A j \in js : Named(j)) =>
               /\ Add(js) => QueueFine
               /\ trQueue' = trQueue \cup js /\ trFaults' = trFaults => QueueFine
         /\ trQueue' \subseteq trQueue /\ trFaults' = trFaults => QueueFine
<1>1. trFaults \in TrFaultNumbers /\ (trFaults < MaxFaults => trFaults + 1 \in TrFaultNumbers)
  BY TrBounds DEF TrRows
<1>2. trQueue \subseteq Jobs /\ \A j \in trQueue : Named(j)
  BY DEF TrRows, NamedInv
<1>3. ASSUME NEW js, js \subseteq Jobs, \A j \in js : Named(j), trQueue' = trQueue \cup js, trFaults' = trFaults
      PROVE  QueueFine
  BY <1>1, <1>2, <1>3 DEF QueueFine
<1>4. ASSUME NEW js, js \subseteq Jobs, \A j \in js : Named(j), Add(js) PROVE QueueFine
  BY <1>1, <1>2, <1>4 DEF QueueFine, Add
<1>5. ASSUME trQueue' \subseteq trQueue, trFaults' = trFaults PROVE QueueFine
  BY <1>1, <1>2, <1>5 DEF QueueFine
<1> QED  BY <1>3, <1>4, <1>5

-----------------------------------------------------------------------------
(* What a step keeps.                                                      *)

\* No worker begins to submit.
HandsSteady == \A w \in Translators : Submitting(w)' => hand'[w] = hand[w]
RunsFine == trRun' \in RunStates /\ workload' = workload
RequestFine == request' \in {"none", "PENDING", "PROCESSING", "COMPLETED"}
TargetFine == target' \in {"TRANSLATING", "PUBLISHED", "FAILED"} /\ source' \in {0, 1}

LEMMA TrRowsKept ==
  ASSUME TrRows, RunsFine, RequestFine, TargetFine, QueueFine, HandsFine,
         item' \in [Items -> ItemRow], batch' \in [BatchIds -> BatchRow(Items)]
  PROVE  TrRows' /\ NamedInv'
<1>1. Items' = Items
  BY DEF RunsFine, Items
<1>2. TrRows'
  BY <1>1 DEF TrRows, RunsFine, RequestFine, TargetFine, QueueFine, HandsFine
<1>3. NamedInv'
  BY DEF NamedInv, QueueFine, HandsFine
<1> QED  BY <1>2, <1>3

LEMMA BatchesKept ==
  ASSUME BatchesInv, Steady
  PROVE  BatchesInv'
<1>1. ASSUME NEW b \in BatchIds PROVE batch'[b].st = "NONE" <=> batch[b].st = "NONE"
  BY <1>1 DEF Steady
<1>2. ASSUME NEW b \in BatchIds, batch'[b].st \in {"NONE", "READY"} PROVE batch'[b] = batch[b]
  BY <1>2 DEF Steady
<1> QED  BY <1>1, <1>2 DEF BatchesInv, Unused

LEMMA SubmitKept ==
  ASSUME NamedInv, SubmitInv, Steady, HandsSteady
  PROVE  SubmitInv'
<1>1. ASSUME NEW w \in Translators, Submitting(w)'
      PROVE  hand'[w] = hand[w] /\ Submitting(w) /\ hand[w].job.b \in BatchIds
  BY <1>1 DEF HandsSteady, Submitting, NamedInv
<1>2. ASSUME NEW b \in BatchIds
      PROVE  /\ batch'[b].made = batch[b].made
             /\ batch[b].st \notin {"NONE", "READY"} => batch'[b].st \notin {"NONE", "READY"}
             /\ batch'[b].st = "READY" => batch'[b] = batch[b]
  BY <1>2 DEF Steady, SameBatch
<1>3. ASSUME NEW w \in Translators, hand'[w].pc = "create" \/ (hand'[w].pc = "record" /\ hand'[w].out = "retryable")
      PROVE  batch'[hand'[w].job.b].made = 0
  <2>1. Submitting(w)'
    BY <1>3 DEF Submitting
  <2> QED  BY <1>1, <1>2, <1>3, <2>1 DEF SubmitInv
<1>4. ASSUME NEW w \in Translators, Submitting(w)' PROVE batch'[hand'[w].job.b].st \notin {"NONE", "READY"}
  BY <1>1, <1>2, <1>4 DEF SubmitInv
<1>5. ASSUME NEW v \in Translators, NEW w \in Translators, Submitting(v)', Submitting(w)',
             hand'[v].job.b = hand'[w].job.b
      PROVE  v = w
  BY <1>1, <1>5 DEF SubmitInv
<1>6. ASSUME NEW b \in BatchIds PROVE batch'[b].made <= 1 /\ (batch'[b].st = "READY" => batch'[b].made = 0)
  BY <1>2 DEF SubmitInv
<1> QED  BY <1>3, <1>4, <1>5, <1>6 DEF SubmitInv

LEMMA CountKept ==
  ASSUME CountInv, ItemsSteady, workload' = workload, \A b \in BatchIds : batch'[b].members = batch[b].members
  PROVE  CountInv'
<1>1. Items' = Items
  BY DEF Items
<1>2. ASSUME NEW i \in Items PROVE Holders(i)' = Holders(i) /\ Counted(item'[i]) = Counted(item[i])
  BY <1>2 DEF Holders, ItemsSteady, SameItem
<1>3. ASSUME NEW i \in Items PROVE Cardinality(Holders(i)') = Counted(item'[i])
  BY <1>2, <1>3 DEF CountInv
<1> QED  BY <1>1, <1>3 DEF CountInv, Holders, Counted

LEMMA ShownKept ==
  ASSUME TrRows, ShownInv, workload' = workload, ItemsSteady, NoneNew,
         source' = source, target' = target \/ (~RunWorkload /\ (target = "PUBLISHED" => target' = "PUBLISHED"))
  PROVE  ShownInv'
<1>1. Items' = Items
  BY DEF Items
<1>2. \A i \in Items : item'[i].st = "AVAILABLE" <=> item[i].st = "AVAILABLE"
  BY DEF ItemsSteady, NoneNew, SameItem
<1>3. workload = "support" => 1 \in Items
  BY TranslationAssumption DEF Items
<1>4. PublishedIsCurrent'
  BY <1>1, <1>2 DEF ShownInv, PublishedIsCurrent, RunWorkload
<1>5. TranslatedMessageShown'
  BY <1>2, <1>3 DEF ShownInv, TranslatedMessageShown, RunWorkload
<1> QED  BY <1>4, <1>5 DEF ShownInv

\* A step that buys and readies nothing, begins no submission and brings no translation.
LEMMA OrdinaryStep ==
  ASSUME TrInv, RunsFine, RequestFine, source' = source, target' \in {"TRANSLATING", "PUBLISHED", "FAILED"},
         QueueFine, HandsFine, HandsSteady, Steady, ItemsSteady, NoneNew,
         target' = target \/ (~RunWorkload /\ (target = "PUBLISHED" => target' = "PUBLISHED"))
  PROVE  TrInv'
<1>0. TrRows /\ NamedInv /\ BatchesInv /\ SubmitInv /\ CountInv /\ ShownInv
  BY DEF TrInv
<1>1. TrRows' /\ NamedInv'
  BY <1>0, TrRowsKept DEF Steady, ItemsSteady, TargetFine, TrRows
<1>2. BatchesInv' /\ SubmitInv'
  BY <1>0, BatchesKept, SubmitKept
<1>3. workload' = workload /\ \A b \in BatchIds : batch'[b].members = batch[b].members
  BY DEF RunsFine, Steady, SameBatch
<1>4. CountInv' /\ ShownInv'
  BY <1>0, <1>3, CountKept, ShownKept
<1> QED  BY <1>1, <1>2, <1>4 DEF TrInv

-----------------------------------------------------------------------------
(* The handlers.                                                           *)

LEMMA RestSteady ==
  ASSUME TrInv, NEW w \in Translators, Rest(w)
  PROVE  HandsFine /\ HandsSteady
<1>1. HandsFine /\ hand'[w].pc = "idle" /\ \A v \in Translators : v # w => hand'[v] = hand[v]
  BY RestFacts DEF TrInv
<1> QED  BY <1>1 DEF HandsSteady, Submitting

LEMMA RestsOrdinary ==
  ASSUME TrInv
  PROVE  /\ hand' = hand => HandsFine /\ HandsSteady
         /\ item' = item => ItemsSteady /\ NoneNew
         /\ batch' = batch => Steady
         /\ trQueue' = trQueue /\ trFaults' = trFaults => QueueFine
         /\ trRun' = trRun /\ workload' = workload => RunsFine
         /\ request' = request => RequestFine
         /\ target' = target => target' \in {"TRANSLATING", "PUBLISHED", "FAILED"}
<1>1. TrRows /\ NamedInv
  BY DEF TrInv
<1>2. hand' = hand => HandsFine /\ HandsSteady
  BY <1>1, HandsRest DEF HandsSteady
<1>3. trQueue' = trQueue /\ trFaults' = trFaults => QueueFine
  BY <1>1, QueueFacts
<1>4. trRun' = trRun /\ workload' = workload => RunsFine
  BY <1>1 DEF TrRows, RunsFine
<1>5. request' = request => RequestFine
  BY <1>1 DEF TrRows, RequestFine
<1>6. target' = target => target' \in {"TRANSLATING", "PUBLISHED", "FAILED"}
  BY <1>1 DEF TrRows
<1> QED  BY <1>1, <1>2, <1>3, <1>4, <1>5, <1>6, ItemsRest, SteadyBatch

LEMMA StartRunStep == ASSUME TrInv, StartRun PROVE TrInv'
<1>1. RunsFine
  BY DEF StartRun, RunsFine, RunStates
<1> QED  BY <1>1, RestsOrdinary, OrdinaryStep DEF StartRun

LEMMA AdvanceRunStep == ASSUME TrInv, AdvanceRun PROVE TrInv'
<1>1. RunsFine
  BY AdvancedTyped DEF TrInv, AdvanceRun, CategoryAdvanced, TemplateAdvanced, RunsFine
<1> QED  BY <1>1, RestsOrdinary, OrdinaryStep DEF AdvanceRun

LEMMA RequestSteps == ASSUME TrInv, ClaimRequest \/ AskAgain PROVE TrInv'
<1>1. RequestFine
  BY DEF ClaimRequest, AskAgain, RequestFine
<1> QED  BY <1>1, RestsOrdinary, OrdinaryStep DEF ClaimRequest, AskAgain

LEMMA ProcessRequestStep == ASSUME TrInv, ProcessRequest PROVE TrInv'
<1>0. TrRows /\ NamedInv
  BY DEF TrInv
<1>1. RequestFine
  BY DEF ProcessRequest, RequestFine
<1>2. QueueFine
  <2>1. {JobFor("dispatch", 0, 0)} \subseteq Jobs /\ \A j \in {JobFor("dispatch", 0, 0)} : Named(j)
    BY JobsTyped
  <2> QED  BY <1>0, <2>1, QueueFacts DEF ProcessRequest
<1>3. \A i \in Items : item'[i] = IF item[i].st = "FAILED" THEN [st |-> "PENDING", batch |-> 0, tries |-> item[i].tries + 1]
                                  ELSE item[i]
  BY DEF ProcessRequest
<1>4. ASSUME NEW i \in Items PROVE SameItem(item[i], item'[i]) /\ (item'[i].st = "AVAILABLE" => item[i].st = "AVAILABLE")
  <2>1. item[i] \in ItemRow /\ item[i].tries \in Nat
    BY <1>0, ItemFields DEF TrRows
  <2>2. CASE item[i].st = "FAILED"
    <3>n. PICK n : n = item[i].tries
      OBVIOUS
    <3>y. PICK y : y = [st |-> "PENDING", batch |-> 0, tries |-> n + 1]
      OBVIOUS
    <3>1. item'[i] = y /\ n \in Nat
      BY <1>3, <2>1, <2>2, <3>n, <3>y
    <3>2. y \in ItemRow /\ y.st = "PENDING"
      BY <3>1, <3>y, TrBounds DEF ItemRow, ItemStates
    <3>3. Counted(y) = n + 1 /\ Counted(item[i]) = n + 1
      BY <2>2, <3>1, <3>n, <3>y DEF Counted
    <3> QED  BY <2>2, <3>1, <3>2, <3>3 DEF SameItem
  <2>3. CASE item[i].st # "FAILED"
    BY <1>3, <2>1, <2>3, SameItemRefl
  <2> QED  BY <2>2, <2>3
<1>5. ItemsSteady /\ NoneNew
  <2>1. item' = [i \in Items |-> item'[i]]
    BY DEF ProcessRequest
  <2>2. item' \in [Items -> ItemRow]
    BY <1>4, <2>1 DEF SameItem
  <2> QED  BY <1>4, <2>2 DEF ItemsSteady, NoneNew
<1> QED  BY <1>1, <1>2, <1>5, RestsOrdinary, OrdinaryStep DEF ProcessRequest

LEMMA RepairStep == ASSUME TrInv, RepairTranslations PROVE TrInv'
<1>0. TrRows /\ NamedInv
  BY DEF TrInv
<1>1. ASSUME NEW b \in BatchIds PROVE Missing(b) \subseteq Jobs /\ \A j \in Missing(b) : Named(j)
  <2>1. batch[b].seq \in PollNumbers /\ 0 \in PollNumbers
    BY <1>0, BatchFields, TrBounds DEF TrRows
  <2>2. Missing(b) \subseteq BatchJob(b)
    BY DEF Missing
  <2>3. BatchJob(b) \subseteq {JobFor("submit", b, 0), JobFor("poll", b, batch[b].seq), JobFor("results", b, 0)}
    BY DEF BatchJob
  <2> QED  BY <2>1, <2>2, <2>3, JobsTyped
<1>2. {JobFor("dispatch", 0, 0)} \subseteq Jobs /\ \A j \in {JobFor("dispatch", 0, 0)} : Named(j)
  BY JobsTyped
<1>3. trFaults' = trFaults
  BY DEF RepairTranslations
<1>4. (\E b \in BatchIds : trQueue' = trQueue \cup Missing(b)) \/ trQueue' = trQueue \cup {JobFor("dispatch", 0, 0)}
  BY DEF RepairTranslations, SupportRepair, PricingRepair, CategoryRepair, TemplateRepair, EnsureJobs
<1>5. QueueFine
  BY <1>0, <1>1, <1>2, <1>3, <1>4, QueueFacts
<1> QED  BY <1>5, RestsOrdinary, OrdinaryStep DEF RepairTranslations

LEMMA RedeliverStep == ASSUME TrInv, NEW w \in Translators, Redeliver(w) PROVE TrInv'
<1>0. TrRows /\ NamedInv
  BY DEF TrInv
<1>1. hand[w].job \in Jobs /\ Named(hand[w].job)
  BY <1>0, HandFields DEF TrRows, NamedInv, Redeliver
<1>2. QueueFine
  BY <1>0, <1>1, TrBounds DEF TrRows, NamedInv, QueueFine, Redeliver
<1>3. HandsFine /\ HandsSteady
  BY RestsOrdinary, RestSteady DEF Redeliver
<1> QED  BY <1>2, <1>3, RestsOrdinary, OrdinaryStep DEF Redeliver

LEMMA EditSourceStep == ASSUME TrInv, EditSource PROVE TrInv'
<1>0. TrRows /\ NamedInv /\ BatchesInv /\ SubmitInv /\ CountInv /\ ShownInv
  BY DEF TrInv
<1>1. RunsFine /\ RequestFine /\ QueueFine /\ HandsFine /\ HandsSteady /\ Steady /\ ItemsSteady
  BY RestsOrdinary DEF EditSource
<1>2. TargetFine /\ target' = "TRANSLATING" /\ RunWorkload'
  BY DEF EditSource, TargetFine, RunWorkload
<1>3. TrRows' /\ NamedInv' /\ BatchesInv' /\ SubmitInv'
  BY <1>0, <1>1, <1>2, TrRowsKept, BatchesKept, SubmitKept DEF Steady, ItemsSteady
<1>4. CountInv'
  BY <1>0, <1>1, CountKept DEF EditSource
<1>5. ShownInv'
  BY <1>2 DEF ShownInv, PublishedIsCurrent, TranslatedMessageShown, RunWorkload
<1> QED  BY <1>3, <1>4, <1>5 DEF TrInv

LEMMA PublishStep == ASSUME TrInv, Publish PROVE TrInv'
<1>0. TrRows /\ NamedInv /\ BatchesInv /\ SubmitInv /\ CountInv /\ ShownInv
  BY DEF TrInv
<1>1. RequestFine /\ QueueFine /\ HandsFine /\ HandsSteady /\ Steady /\ ItemsSteady /\ workload' = workload
      /\ UNCHANGED <<item, source>>
  BY RestsOrdinary DEF Publish
<1>2. RunsFine /\ RunWorkload /\ RunWorkload'
  BY <1>0 DEF Publish, PublishPricing, PublishCategory, MarkPlanFailed, RunsFine, RunStates, RunWorkload, TrRows
<1>3. \/ target' = target
      \/ target' = "FAILED"
      \/ target' = "PUBLISHED" /\ source = 0 /\ \A i \in Items : item[i].st = "AVAILABLE"
  BY DEF Publish, PublishPricing, PublishCategory, MarkPlanFailed, PricingSourcesMatch, CategorySourceMatches,
     PricingPayload, CategoryPayload
<1>4. TargetFine
  BY <1>0, <1>1, <1>3 DEF TargetFine, TrRows
<1>5. TrRows' /\ NamedInv' /\ BatchesInv' /\ SubmitInv'
  BY <1>0, <1>1, <1>2, <1>4, TrRowsKept, BatchesKept, SubmitKept DEF Steady, ItemsSteady
<1>6. CountInv'
  BY <1>0, <1>1, CountKept DEF Steady, SameBatch
<1>7. Items' = Items
  BY <1>1 DEF Items
<1>8. PublishedIsCurrent'
  BY <1>0, <1>1, <1>2, <1>3, <1>7 DEF ShownInv, PublishedIsCurrent
<1>9. TranslatedMessageShown'
  BY <1>2 DEF TranslatedMessageShown, RunWorkload
<1> QED  BY <1>5, <1>6, <1>8, <1>9 DEF TrInv, ShownInv

LEMMA CloseSteady ==
  ASSUME TrInv, NEW b \in BatchIds, NEW s \in Closed, batch' = Closing(b, s), batch[b].st \notin {"NONE", "READY"}
  PROVE  Steady
<1>0. TrRows
  BY DEF TrInv
<1>1. PICK y : Wrote(b, y) /\ y.st = s /\ SameBatch(batch[b], y)
  BY <1>0, ClosingWrites
<1> QED  BY <1>0, <1>1, SteadyBatch DEF Closed

LEMMA StatusSteady ==
  ASSUME TrInv, NEW b \in BatchIds, NEW s \in BatchStates, batch' = [batch EXCEPT ![b].st = s],
         batch[b].st \notin {"NONE", "READY"}, s \notin {"NONE", "READY"}
  PROVE  Steady
<1>0. TrRows
  BY DEF TrInv
<1>1. PICK y : Wrote(b, y) /\ y.st = s /\ SameBatch(batch[b], y)
  BY <1>0, StatusWrites
<1> QED  BY <1>0, <1>1, SteadyBatch

LEMMA SequenceSteady ==
  ASSUME TrInv, NEW b \in BatchIds, NEW q \in PollNumbers, NEW s \in BatchStates,
         \/ batch' = [batch EXCEPT ![b].st = s, ![b].seq = q]
         \/ batch' = [batch EXCEPT ![b].seq = q] /\ s = batch[b].st,
         batch[b].st \notin {"NONE", "READY"}, s \notin {"NONE", "READY"}
  PROVE  Steady /\ batch'[b].seq = q
<1>0. TrRows
  BY DEF TrInv
<1>1. PICK y : Wrote(b, y) /\ y.st = s /\ y.seq = q /\ SameBatch(batch[b], y)
  BY <1>0, SequenceWrites
<1> QED  BY <1>0, <1>1, SteadyBatch, WroteFacts

LEMMA HeldDisposed ==
  ASSUME TrInv, NEW b \in BatchIds, NEW passing \in BOOLEAN, NEW limit \in Nat,
         item' = Disposed(Held(b), passing, limit)
  PROVE  ItemsSteady /\ NoneNew
BY HeldFacts, DisposedFacts DEF TrInv

LEMMA PollJobs ==
  ASSUME TrInv, NEW b \in BatchIds, NEW q \in PollNumbers
  PROVE  /\ Add({JobFor("poll", b, q)}) \/ Add({JobFor("results", b, 0)}) => QueueFine
         /\ /\ trQueue' = trQueue \cup {JobFor("poll", b, q)} \/ trQueue' = trQueue \cup {JobFor("results", b, 0)}
            /\ trFaults' = trFaults
            => QueueFine
<1>1. /\ {JobFor("poll", b, q)} \subseteq Jobs /\ \A j \in {JobFor("poll", b, q)} : Named(j)
      /\ {JobFor("results", b, 0)} \subseteq Jobs /\ \A j \in {JobFor("results", b, 0)} : Named(j)
  BY JobsTyped, TrBounds
<1> QED  BY <1>1, QueueFacts DEF TrInv

\* A batch is closed: its items wait again or are given up, and what shows them follows.
ClosedWell ==
    /\ Steady /\ ItemsSteady /\ NoneNew /\ trRun' \in RunStates
    /\ target' = target \/ (~RunWorkload /\ target' = "FAILED" /\ target = "TRANSLATING")

LEMMA CloseBatchFacts ==
  ASSUME TrInv, NEW b \in BatchIds, NEW s \in Closed, NEW passing \in BOOLEAN, CloseBatch(b, s, passing),
         batch[b].st \notin {"NONE", "READY"}
  PROVE  ClosedWell /\ UNCHANGED <<trQueue, trFaults>>
<1>0. TrRows
  BY DEF TrInv
<1>1. Steady /\ UNCHANGED <<trQueue, trFaults>>
  BY CloseSteady DEF CloseBatch
<1>2. item' = Disposed(Held(b), passing, MaxRetries)
  BY <1>0 DEF CloseBatch, SupportTerminal, PricingTerminal, CategoryTerminal, TemplateTerminal, TrRows, Workloads
<1>3. ItemsSteady /\ NoneNew
  BY <1>2, HeldDisposed, TranslationAssumption
<1>4. trRun' \in RunStates
  <2>1. trRun' = trRun \/ trRun' = TemplateAdvanced(item')
    BY <1>0 DEF CloseBatch, SupportTerminal, PricingTerminal, CategoryTerminal, TemplateTerminal, TrRows, Workloads
  <2> QED  BY <1>0, <2>1, AdvancedTyped DEF TemplateAdvanced, TrRows
<1>5. target' = target \/ (~RunWorkload /\ target' = "FAILED" /\ target = "TRANSLATING")
  BY <1>0 DEF CloseBatch, SupportTerminal, PricingTerminal, CategoryTerminal, TemplateTerminal, Message, RunWorkload, TrRows, Workloads
<1> QED  BY <1>1, <1>3, <1>4, <1>5 DEF ClosedWell

LEMMA PollStep == ASSUME TrInv, NEW w \in Translators, Poll(w) PROVE TrInv'
<1>0. TrRows /\ NamedInv
  BY DEF TrInv
<1>j. PICK j : j = hand[w].job
  OBVIOUS
<1>b. PICK b : b = j.b
  OBVIOUS
<1>1. hand[w].pc = "answer" /\ Rest(w) /\ UNCHANGED <<workload, source, request>>
  BY DEF Poll
<1>2. j \in Jobs /\ b \in BatchIds /\ j.seq \in PollNumbers
  BY <1>0, <1>1, <1>j, <1>b, HandFields, JobsTyped DEF NamedInv, TrRows
<1>3. HandsFine /\ HandsSteady /\ RequestFine
  BY <1>1, RestSteady, RestsOrdinary
<1> DEFINE Unread == UNCHANGED <<item, batch, trRun, target, trQueue, trFaults>>
           Later == NextSequence(b, j.seq)
           Done == /\ batch' = [batch EXCEPT ![b].st = "PROVIDER_COMPLETED"]
                   /\ Add({JobFor("results", b, 0)}) /\ UNCHANGED <<item, target, trRun>>
           Ended == \E passing \in BOOLEAN : CloseBatch(b, "FAILED", passing)
<1>4. Unread \/ (batch[b].st = "SUBMITTED" /\ (Later \/ Done \/ Ended))
  BY <1>j, <1>b DEF Poll, PollAgain, SupportAgain, PricingAgain, CategoryAgain, TemplateAgain
<1>5. CASE Unread
  BY <1>1, <1>3, <1>5, RestsOrdinary, OrdinaryStep
<1>6. CASE batch[b].st = "SUBMITTED" /\ Later
  <2>q. PICK q : q = j.seq + 1
    OBVIOUS
  <2>1. /\ q \in PollNumbers /\ batch' = [batch EXCEPT ![b].seq = q]
        /\ Add({JobFor("poll", b, q)}) /\ UNCHANGED <<item, target, trRun>>
    BY <1>2, <1>6, <2>q, TrBounds DEF NextSequence
  <2>2. Steady
    BY <1>2, <1>6, <2>1, SequenceSteady DEF BatchStates
  <2>3. QueueFine
    BY <1>2, <2>1, PollJobs
  <2> QED  BY <1>1, <1>3, <2>1, <2>2, <2>3, RestsOrdinary, OrdinaryStep
<1>7. CASE batch[b].st = "SUBMITTED" /\ Done
  <2>1. batch' = [batch EXCEPT ![b].st = "PROVIDER_COMPLETED"] /\ batch[b].st = "SUBMITTED"
    BY <1>7
  <2>2. "PROVIDER_COMPLETED" \in BatchStates /\ 0 \in PollNumbers
    BY TrBounds DEF BatchStates
  <2>3. Steady
    BY <1>2, <2>1, <2>2, StatusSteady
  <2>4. QueueFine
    BY <1>2, <1>7, <2>2, PollJobs
  <2> QED  BY <1>1, <1>3, <1>7, <2>3, <2>4, RestsOrdinary, OrdinaryStep
<1>8. CASE batch[b].st = "SUBMITTED" /\ Ended
  <2>1. "FAILED" \in Closed
    BY DEF Closed
  <2>2. ClosedWell /\ UNCHANGED <<trQueue, trFaults>>
    BY <1>2, <1>8, <2>1, CloseBatchFacts
  <2>3. target' \in {"TRANSLATING", "PUBLISHED", "FAILED"}
        /\ (target' = target \/ (~RunWorkload /\ (target = "PUBLISHED" => target' = "PUBLISHED")))
    BY <1>0, <2>2 DEF ClosedWell, TrRows
  <2> QED  BY <1>1, <1>3, <2>2, <2>3, RestsOrdinary, OrdinaryStep DEF ClosedWell, RunsFine
<1> HIDE DEF Unread, Later, Done, Ended
<1> QED  BY <1>4, <1>5, <1>6, <1>7, <1>8

\* A poll or a results job is taken, or dropped.
LEMMA TakeStep ==
  ASSUME TrInv, NEW w \in Translators, NEW j \in trQueue, j.kind # "dispatch", NEW p \in {"answer", "apply"},
         NEW J \in SUBSET Items, trQueue' = trQueue \ {j},
         \/ hand' = hand
         \/ hand' = [hand EXCEPT ![w] = [Resting EXCEPT !.pc = p, !.job = j, !.todo = J]]
         \/ hand' = [hand EXCEPT ![w] = [Resting EXCEPT !.pc = p, !.job = j]],
         UNCHANGED <<workload, item, batch, trRun, target, source, request, trFaults>>
  PROVE  TrInv'
<1>0. TrRows /\ NamedInv
  BY DEF TrInv
<1>1. j \in Jobs /\ Named(j) /\ p \in HandPlaces
  BY <1>0 DEF TrRows, NamedInv, HandPlaces
<1>2. QueueFine
  BY <1>0, QueueFacts
<1>3. HandsFine /\ HandsSteady
  <2>1. CASE hand' = hand
    BY <2>1, RestsOrdinary
  <2>2. ASSUME NEW h, h \in HandRow(Items), h.pc = p, h.job = j, hand' = [hand EXCEPT ![w] = h]
        PROVE  HandsFine /\ HandsSteady
    <3>1. HandPut(w, h)
      BY <1>1, <2>2 DEF HandPut, Named
    <3>2. HandsFine /\ hand'[w].pc = p /\ \A v \in Translators : v # w => hand'[v] = hand[v]
      BY <1>0, <2>2, <3>1, HandPutFacts
    <3> QED  BY <3>2 DEF HandsSteady, Submitting
  <2>3. CASE hand' = [hand EXCEPT ![w] = [Resting EXCEPT !.pc = p, !.job = j, !.todo = J]]
    <3>h. PICK h : h = [Resting EXCEPT !.pc = p, !.job = j, !.todo = J]
      OBVIOUS
    <3>1. h \in HandRow(Items) /\ h.pc = p /\ h.job = j
      BY <1>1, <3>h, JobsTyped DEF Resting, HandRow, Outs
    <3> QED  BY <2>2, <2>3, <3>h, <3>1
  <2>4. CASE hand' = [hand EXCEPT ![w] = [Resting EXCEPT !.pc = p, !.job = j]]
    <3>h. PICK h : h = [Resting EXCEPT !.pc = p, !.job = j]
      OBVIOUS
    <3>1. h \in HandRow(Items) /\ h.pc = p /\ h.job = j
      BY <1>1, <3>h, JobsTyped DEF Resting, HandRow, Outs
    <3> QED  BY <2>2, <2>4, <3>h, <3>1
  <2> QED  BY <2>1, <2>3, <2>4
<1> QED  BY <1>2, <1>3, RestsOrdinary, OrdinaryStep

LEMMA TakePollStep == ASSUME TrInv, NEW w \in Translators, TakePoll(w) PROVE TrInv'
<1>1. PICK j \in trQueue : /\ j.kind = "poll" /\ trQueue' = trQueue \ {j}
                           /\ \/ hand' = hand
                              \/ hand' = [hand EXCEPT ![w] = [Resting EXCEPT !.pc = "answer", !.job = j]]
  BY DEF TakePoll, SupportPoll, PricingPoll, CategoryPoll, TemplatePoll, ReadBatch
<1>2. UNCHANGED <<workload, item, batch, trRun, target, source, request, trFaults>>
  BY DEF TakePoll
<1> QED  BY <1>1, <1>2, TakeStep

LEMMA TakeResultsStep == ASSUME TrInv, NEW w \in Translators, TakeResults(w) PROVE TrInv'
<1>1. PICK j \in trQueue : /\ j.kind = "results" /\ trQueue' = trQueue \ {j}
                           /\ \/ hand' = hand
                              \/ hand' = [hand EXCEPT ![w] = [Resting EXCEPT !.pc = "apply", !.job = j, !.todo = Expected(j.b)]]
  BY DEF TakeResults, SupportApply, PricingApply, CategoryApply, TemplateIngest, ReadResults
<1>2. UNCHANGED <<workload, item, batch, trRun, target, source, request, trFaults>>
  BY DEF TakeResults
<1>3. j.b \in BatchIds
  BY <1>1 DEF TrInv, NamedInv, Named
<1>4. Expected(j.b) \in SUBSET Items
  BY <1>3, BatchFields DEF TrInv, TrRows, Expected
<1> QED  BY <1>1, <1>2, <1>4, TakeStep
-----------------------------------------------------------------------------
(* Assembly.                                                               *)

\* The number of the next batch is the first one unused.
LEMMA NextBatch ==
  ASSUME TrInv, NEW b \in BatchIds, b = 1 + Cardinality({c \in BatchIds : batch[c].st # "NONE"})
  PROVE  batch[b].st = "NONE" /\ \A c \in BatchIds : c < b => batch[c].st # "NONE"
<1>u. PICK U : U = {c \in BatchIds : batch[c].st # "NONE"}
  OBVIOUS
<1>1. IsFiniteSet(U) /\ U \subseteq BatchIds /\ U \subseteq Nat /\ b = 1 + Cardinality(U)
  BY <1>u, TrBounds, FS_Subset
<1>2. CASE U = {}
  <2>1. b = 1
    BY <1>1, <1>2, FS_EmptySet
  <2>2. \A c \in BatchIds : ~(c < 1)
    BY TrBounds
  <2> QED  BY <1>u, <1>2, <2>1, <2>2
<1>3. CASE U # {}
  <2>1. PICK m \in U : \A k \in U : k <= m
    BY <1>1, <1>3, GreatestElement
  <2>2. m \in Nat /\ 1 <= m /\ m <= MaxBatches
    BY <1>1, <2>1, TranslationAssumption DEF BatchIds
  <2>3. \A c \in BatchIds : c < m => c \in U
    BY <1>u, <2>1 DEF TrInv, BatchesInv
  <2>4. U = 1 .. m
    <3>1. ASSUME NEW k \in U PROVE k \in 1 .. m
      BY <1>1, <2>1, <2>2, <3>1, TranslationAssumption DEF BatchIds
    <3>2. ASSUME NEW k \in 1 .. m PROVE k \in U
      <4>1. k \in BatchIds /\ (k = m \/ k < m)
        BY <2>2, <3>2, TranslationAssumption DEF BatchIds
      <4> QED  BY <2>1, <2>3, <4>1
    <3> QED  BY <3>1, <3>2
  <2>5. Cardinality(1 .. m) = m
    BY <2>2, FS_Interval
  <2>6. b = m + 1
    BY <1>1, <2>2, <2>4, <2>5
  <2>7. \A c \in BatchIds : c \in U <=> c < b
    BY <2>2, <2>4, <2>6 DEF BatchIds
  <2> QED  BY <1>u, <2>6, <2>7, TrBounds
<1> QED  BY <1>2, <1>3

LEMMA AssembleStep ==
  ASSUME TrInv, NEW b \in BatchIds, NEW q \in SUBSET trQueue, Assemble(b, q), trRun' \in RunStates,
         UNCHANGED <<workload, target, source, request, hand>>
  PROVE  TrInv'
<1>0. TrRows /\ NamedInv /\ BatchesInv /\ SubmitInv /\ CountInv /\ ShownInv
  BY DEF TrInv
<1>1. batch[b].st = "NONE" /\ \A c \in BatchIds : c < b => batch[c].st # "NONE"
  BY NextBatch DEF Assemble
<1>2. batch[b].tries = 0 /\ batch[b].members = {} /\ batch[b].made = 0
  BY <1>0, <1>1 DEF BatchesInv, Unused
<1>is. PICK is : is = Held(0)
  OBVIOUS
<1>3. is \in SUBSET Items /\ is # {} /\ \A i \in is : item[i].st = "PENDING" /\ item[i].batch = 0
  BY <1>is DEF Assemble, Held
<1>4. PICK y : Wrote(b, y) /\ y.st = "READY" /\ y.members = is /\ y.made = 0 /\ y.tries = 0
  <2>1. batch' = [batch EXCEPT ![b].st = "READY", ![b].members = is]
    BY <1>is DEF Assemble
  <2>2. \E y : Wrote(b, y) /\ y.st = "READY" /\ y.members = is /\ y.made = batch[b].made /\ y.tries = batch[b].tries
    BY <1>0, <1>3, <2>1, AssembledWrites
  <2> QED  BY <1>2, <2>2
<1>5. /\ batch' \in [BatchIds -> BatchRow(Items)] /\ batch'[b] = y
      /\ \A c \in BatchIds : c # b => batch'[c] = batch[c]
  BY <1>0, <1>4, WroteFacts
<1>6. Items' = Items /\ \A i \in Items : item[i] \in ItemRow
  BY <1>0 DEF Items, TrRows
<1>7. item' = [i \in Items |-> IF i \in is THEN [item[i] EXCEPT !.batch = b] ELSE item[i]]
  BY <1>is DEF Assemble
<1>8. ASSUME NEW i \in is PROVE item'[i] \in ItemRow /\ item'[i].st = "PENDING" /\ item'[i].batch = b /\ item'[i].tries = item[i].tries
  <2>x. PICK x : x = item[i]
    OBVIOUS
  <2>1. x \in ItemRow /\ x.st = "PENDING" /\ b \in BatchNumbers /\ item'[i] = [x EXCEPT !.batch = b]
    BY <1>3, <1>6, <1>7, <2>x, TrBounds
  <2> QED  BY <2>1, <2>x DEF ItemRow
<1>9. \A i \in Items : i \notin is => item'[i] = item[i]
  BY <1>7
<1>10. item' \in [Items -> ItemRow]
  <2>1. \A i \in Items : item'[i] \in ItemRow
    BY <1>6, <1>8, <1>9
  <2>2. item' = [i \in Items |-> item'[i]]
    BY <1>7
  <2> QED  BY <2>1, <2>2
<1>11. QueueFine
  <2>1. JobFor("submit", b, 0) \in Jobs /\ Named(JobFor("submit", b, 0))
    BY JobsTyped, TrBounds
  <2>2. trFaults \in TrFaultNumbers /\ (trFaults < MaxFaults => trFaults + 1 \in TrFaultNumbers)
    BY <1>0, TrBounds DEF TrRows
  <2>3. q \subseteq Jobs /\ \A j \in q : Named(j)
    BY <1>0 DEF TrRows, NamedInv
  <2>4. \/ trQueue' = q \cup {JobFor("submit", b, 0)} /\ trFaults' = trFaults
        \/ trFaults < MaxFaults /\ trFaults' = trFaults + 1 /\ trQueue' = q
    BY DEF Assemble
  <2> QED  BY <2>1, <2>2, <2>3, <2>4 DEF QueueFine
<1>12. HandsFine /\ RunsFine /\ RequestFine /\ TargetFine
  BY <1>0, HandsRest DEF RunsFine, RequestFine, TargetFine, TrRows
<1>13. TrRows' /\ NamedInv'
  BY <1>0, <1>5, <1>10, <1>11, <1>12, TrRowsKept
<1>14. BatchesInv'
  <2>1. ASSUME NEW c \in BatchIds, NEW d \in BatchIds, c < d, batch'[d].st # "NONE" PROVE batch'[c].st # "NONE"
    BY <1>0, <1>1, <1>4, <1>5, <2>1 DEF BatchesInv
  <2>2. ASSUME NEW c \in BatchIds
        PROVE  (batch'[c].st = "NONE" => Unused(batch'[c])) /\ (batch'[c].st = "READY" => batch'[c].tries < MaxSubmits)
    BY <1>0, <1>4, <1>5, TrBounds DEF BatchesInv
  <2> QED  BY <2>1, <2>2 DEF BatchesInv
<1>15. SubmitInv'
  <2>1. ASSUME NEW w \in Translators, Submitting(w) PROVE batch'[hand[w].job.b] = batch[hand[w].job.b]
    BY <1>0, <1>1, <1>5, <2>1 DEF SubmitInv, NamedInv, Submitting
  <2>2. \A c \in BatchIds : batch'[c].made <= 1 /\ (batch'[c].st = "READY" => batch'[c].made = 0)
    BY <1>0, <1>4, <1>5 DEF SubmitInv
  <2>3. hand' = hand
    OBVIOUS
  <2> QED  BY <1>0, <2>1, <2>2, <2>3 DEF SubmitInv, Submitting
<1>16. ASSUME NEW i \in Items PROVE Cardinality(Holders(i)') = Counted(item'[i])
  <2>1. Cardinality(Holders(i)) = Counted(item[i])
    BY <1>0 DEF CountInv
  <2>2. b \notin Holders(i) /\ IsFiniteSet(Holders(i))
    BY <1>2, TrBounds, FS_Subset DEF Holders
  <2>3. CASE i \in is
    <3>1. Holders(i)' = Holders(i) \cup {b}
      BY <1>4, <1>5, <2>3 DEF Holders
    <3>2. Cardinality(Holders(i) \cup {b}) = Cardinality(Holders(i)) + 1
      BY <2>2, FS_AddElement
    <3>3. item[i].tries \in Nat /\ b # 0
      BY <1>6, ItemFields, TrBounds
    <3>4. Counted(item[i]) = item[i].tries /\ Counted(item'[i]) = item[i].tries + 1
      BY <1>3, <1>8, <2>3, <3>3 DEF Counted
    <3> QED  BY <2>1, <3>1, <3>2, <3>4
  <2>4. CASE i \notin is
    <3>1. Holders(i)' = Holders(i)
      BY <1>2, <1>4, <1>5, <2>4 DEF Holders
    <3> QED  BY <1>9, <2>1, <2>4, <3>1
  <2> QED  BY <2>3, <2>4
<1>17. CountInv'
  BY <1>6, <1>16 DEF CountInv, Holders, Counted
<1>18. \A i \in Items : item'[i].st = item[i].st
  BY <1>3, <1>8, <1>9
<1>19. PublishedIsCurrent'
  <2>1. ~(RunWorkload /\ target = "PUBLISHED")
    BY <1>0, <1>3 DEF ShownInv, PublishedIsCurrent
  <2> QED  BY <2>1 DEF PublishedIsCurrent, RunWorkload
<1>20. TranslatedMessageShown'
  <2>1. workload = "support" => 1 \in Items
    BY TranslationAssumption DEF Items
  <2> QED  BY <1>0, <1>18, <2>1 DEF ShownInv, TranslatedMessageShown
<1> QED  BY <1>13, <1>14, <1>15, <1>17, <1>19, <1>20 DEF TrInv, ShownInv

LEMMA SupportAssembleStep == ASSUME TrInv, NEW w \in Translators, SupportAssemble(w) PROVE TrInv'
<1>0. TrRows /\ NamedInv
  BY DEF TrInv
<1>q. PICK q : q = trQueue \ {JobFor("dispatch", 0, 0)}
  OBVIOUS
<1>1. q \in SUBSET trQueue /\ UNCHANGED <<workload, trRun, target, source, request, hand>>
  BY <1>q DEF SupportAssemble
<1>2. CASE Held(0) = {}
  <2>1. trQueue' = q /\ UNCHANGED <<item, batch, trFaults>>
    BY <1>2, <1>q DEF SupportAssemble
  <2>2. QueueFine
    BY <1>0, <1>1, <2>1, QueueFacts
  <2> QED  BY <1>1, <2>1, <2>2, RestsOrdinary, OrdinaryStep
<1>3. CASE Held(0) # {}
  <2>1. PICK b \in BatchIds : Assemble(b, q)
    BY <1>3, <1>q DEF SupportAssemble
  <2>2. trRun' \in RunStates
    BY <1>0, <1>1 DEF TrRows
  <2> QED  BY <1>1, <2>1, <2>2, AssembleStep
<1> QED  BY <1>2, <1>3

LEMMA RunAssembleStep == ASSUME TrInv, RunAssemble PROVE TrInv'
<1>1. PICK b \in BatchIds : Assemble(b, trQueue)
  BY DEF RunAssemble, PricingAssemble, CategoryAssemble
<1>2. UNCHANGED <<workload, trRun, target, source, request, hand>>
  BY DEF RunAssemble
<1>3. trRun' \in RunStates /\ trQueue \in SUBSET trQueue
  BY <1>2 DEF TrInv, TrRows
<1> QED  BY <1>1, <1>2, <1>3, AssembleStep

LEMMA TemplateAssembleStep == ASSUME TrInv, TemplateAssemble PROVE TrInv'
<1>1. UNCHANGED <<workload, target, source, request, hand>>
  BY DEF TemplateAssemble
<1>2. trRun' \in RunStates /\ trQueue \in SUBSET trQueue
  BY DEF TemplateAssemble, RunStates
<1>3. CASE ~SnapshotValid
  <2>1. UNCHANGED <<item, batch, trQueue, trFaults>>
    BY <1>3 DEF TemplateAssemble
  <2>2. RunsFine
    BY <1>1, <1>2 DEF RunsFine
  <2> QED  BY <1>1, <2>1, <2>2, RestsOrdinary, OrdinaryStep
<1>4. CASE SnapshotValid
  <2>1. PICK b \in BatchIds : Assemble(b, trQueue)
    BY <1>4 DEF TemplateAssemble
  <2> QED  BY <1>1, <1>2, <2>1, AssembleStep
<1> QED  BY <1>3, <1>4
-----------------------------------------------------------------------------
(* Submission.                                                             *)

\* One batch that exists is written and keeps its members.
LEMMA OneWriteKept ==
  ASSUME TrInv, NEW b, NEW y, Wrote(b, y), y.members = batch[b].members, batch[b].st # "NONE", y.st # "NONE",
         y.st = "READY" => y.tries < MaxSubmits,
         SubmitInv', RunsFine, RequestFine, QueueFine, HandsFine, UNCHANGED <<item, target, source>>
  PROVE  TrInv'
<1>0. TrRows /\ NamedInv /\ BatchesInv /\ SubmitInv /\ CountInv /\ ShownInv
  BY DEF TrInv
<1>1. /\ batch' \in [BatchIds -> BatchRow(Items)] /\ batch'[b] = y
      /\ \A c \in BatchIds : c # b => batch'[c] = batch[c]
  BY <1>0, WroteFacts
<1>2. TargetFine /\ item' \in [Items -> ItemRow]
  BY <1>0 DEF TargetFine, TrRows
<1>3. TrRows' /\ NamedInv'
  BY <1>0, <1>1, <1>2, TrRowsKept
<1>4. BatchesInv'
  BY <1>0, <1>1 DEF BatchesInv
<1>5. ItemsSteady /\ NoneNew /\ workload' = workload
  BY <1>0, ItemsRest DEF RunsFine
<1>6. \A c \in BatchIds : batch'[c].members = batch[c].members
  BY <1>1
<1>7. CountInv' /\ ShownInv'
  BY <1>0, <1>5, <1>6, CountKept, ShownKept
<1> QED  BY <1>3, <1>4, <1>7 DEF TrInv

\* The batch of the worker that submits it is written, and the worker goes on with it or leaves it.
LEMMA SubmittingWrite ==
  ASSUME TrInv, NEW w \in Translators, NEW b \in BatchIds, NEW y, Wrote(b, y),
         \A v \in Translators : v # w /\ Submitting(v) => hand[v].job.b # b,
         \A v \in Translators : v # w => hand'[v] = hand[v],
         Submitting(w)' => hand'[w].job.b = b /\ y.st \notin {"NONE", "READY"},
         hand'[w].pc = "create" \/ (hand'[w].pc = "record" /\ hand'[w].out = "retryable") => y.made = 0,
         y.made <= 1, y.st = "READY" => y.made = 0
  PROVE  SubmitInv'
<1>0. TrRows /\ NamedInv /\ SubmitInv
  BY DEF TrInv
<1>1. batch'[b] = y /\ \A c \in BatchIds : c # b => batch'[c] = batch[c]
  BY <1>0, WroteFacts
<1>2. ASSUME NEW v \in Translators, v # w, Submitting(v)'
      PROVE  hand'[v] = hand[v] /\ Submitting(v) /\ hand[v].job.b # b /\ hand[v].job.b \in BatchIds
             /\ batch'[hand[v].job.b] = batch[hand[v].job.b]
  BY <1>0, <1>1, <1>2 DEF Submitting, NamedInv
<1>3. ASSUME NEW v \in Translators, Submitting(v)' PROVE batch'[hand'[v].job.b].st \notin {"NONE", "READY"}
  <2>1. CASE v = w
    BY <1>1, <1>3, <2>1
  <2>2. CASE v # w
    BY <1>0, <1>2, <1>3, <2>2 DEF SubmitInv
  <2> QED  BY <2>1, <2>2
<1>4. ASSUME NEW u \in Translators, NEW v \in Translators, Submitting(u)', Submitting(v)', hand'[u].job.b = hand'[v].job.b
      PROVE  u = v
  <2>1. CASE u # w /\ v # w
    BY <1>0, <1>2, <1>4, <2>1 DEF SubmitInv
  <2>2. CASE u = w /\ v # w
    BY <1>2, <1>4, <2>2
  <2>3. CASE u # w /\ v = w
    BY <1>2, <1>4, <2>3
  <2> QED  BY <2>1, <2>2, <2>3
<1>5. ASSUME NEW v \in Translators, hand'[v].pc = "create" \/ (hand'[v].pc = "record" /\ hand'[v].out = "retryable")
      PROVE  batch'[hand'[v].job.b].made = 0
  <2>1. Submitting(v)'
    BY <1>5 DEF Submitting
  <2>2. CASE v = w
    BY <1>1, <1>5, <2>1, <2>2
  <2>3. CASE v # w
    BY <1>0, <1>2, <1>5, <2>1, <2>3 DEF SubmitInv
  <2> QED  BY <2>2, <2>3
<1>6. ASSUME NEW c \in BatchIds PROVE batch'[c].made <= 1 /\ (batch'[c].st = "READY" => batch'[c].made = 0)
  BY <1>0, <1>1, <1>6 DEF SubmitInv
<1> QED  BY <1>3, <1>4, <1>5, <1>6 DEF SubmitInv

LEMMA SubmitStep == ASSUME TrInv, NEW w \in Translators, Submit(w) PROVE TrInv'
<1>0. TrRows /\ NamedInv /\ BatchesInv /\ SubmitInv
  BY DEF TrInv
<1>1. UNCHANGED <<workload, item, trRun, target, source, request, trFaults>>
  BY DEF Submit
<1>2. PICK j \in trQueue :
        /\ j.kind = "submit" /\ trQueue' = trQueue \ {j}
        /\ \/ batch' = batch /\ hand' = hand
           \/ /\ batch[j.b].st = "READY"
              /\ batch' = [batch EXCEPT ![j.b].st = "SUBMITTING", ![j.b].tries = @ + 1]
              /\ hand' = [hand EXCEPT ![w] = [Resting EXCEPT !.pc = "create", !.job = j]]
  BY DEF Submit, SupportSubmit, PricingSubmit, CategorySubmit, TemplateSubmit, TakeSubmit
<1>b. PICK b : b = j.b
  OBVIOUS
<1>3. j \in Jobs /\ Named(j) /\ b \in BatchIds
  BY <1>0, <1>2, <1>b DEF TrRows, NamedInv, Named
<1>4. QueueFine /\ RunsFine /\ RequestFine
  BY <1>0, <1>1, <1>2, QueueFacts, RestsOrdinary
<1>5. CASE batch' = batch /\ hand' = hand
  BY <1>1, <1>4, <1>5, RestsOrdinary, OrdinaryStep
<1>6. CASE /\ batch[j.b].st = "READY"
           /\ batch' = [batch EXCEPT ![j.b].st = "SUBMITTING", ![j.b].tries = @ + 1]
           /\ hand' = [hand EXCEPT ![w] = [Resting EXCEPT !.pc = "create", !.job = j]]
  <2>1. batch[b].st = "READY" /\ batch[b].tries < MaxSubmits /\ batch[b].made = 0
    BY <1>0, <1>3, <1>6, <1>b DEF BatchesInv, SubmitInv
  <2>2. batch' = [batch EXCEPT ![b].st = "SUBMITTING", ![b].tries = @ + 1]
    BY <1>6, <1>b
  <2>3. PICK y : Wrote(b, y) /\ y.st = "SUBMITTING" /\ SameBatch(batch[b], y)
    BY <1>0, <1>3, <2>1, <2>2, TakenWrites
  <2>h. PICK h : h = [Resting EXCEPT !.pc = "create", !.job = j]
    OBVIOUS
  <2>p. "create" \in HandPlaces /\ {} \in SUBSET Items
    BY DEF HandPlaces
  <2>4. h \in HandRow(Items) /\ h.pc = "create" /\ h.job = j
    BY <1>3, <2>h, <2>p, JobsTyped DEF Resting, HandRow, Outs
  <2>5. HandPut(w, h)
    BY <1>3, <1>6, <1>b, <2>h, <2>4 DEF HandPut
  <2>6. HandsFine /\ hand'[w] = h /\ \A v \in Translators : v # w => hand'[v] = hand[v]
    BY <1>0, <2>5, HandPutFacts
  <2>7. \A v \in Translators : v # w /\ Submitting(v) => hand[v].job.b # b
    BY <1>0, <2>1 DEF SubmitInv
  <2>8. y.members = batch[b].members /\ y.made = 0
    BY <2>1, <2>3 DEF SameBatch
  <2>9. SubmitInv'
    BY <1>3, <1>b, <2>3, <2>4, <2>6, <2>7, <2>8, SubmittingWrite
  <2> QED  BY <1>1, <1>4, <2>1, <2>3, <2>6, <2>8, <2>9, OneWriteKept
<1> QED  BY <1>2, <1>5, <1>6

LEMMA CreateStep == ASSUME TrInv, NEW w \in Translators, Create(w) PROVE TrInv'
<1>0. TrRows /\ NamedInv /\ SubmitInv
  BY DEF TrInv
<1>1. hand[w].pc = "create" /\ UNCHANGED <<workload, item, trRun, target, source, request, trQueue, trFaults>>
  BY DEF Create
<1>b. PICK b : b = hand[w].job.b
  OBVIOUS
<1>2. b \in BatchIds /\ Submitting(w) /\ batch[b].st \notin {"NONE", "READY"} /\ batch[b].made = 0
  BY <1>0, <1>1, <1>b DEF NamedInv, SubmitInv, Submitting
<1>3. PICK answer \in {"ok", "unprepared", "unconfigured", "429", "4xx", "lost", "broken"} :
        /\ hand' = [hand EXCEPT ![w].pc = "record", ![w].out = Classify(answer)]
        /\ batch' = [batch EXCEPT ![hand[w].job.b].made = @ + (IF answer \in {"ok", "lost"} THEN 1 ELSE 0)]
  BY DEF Create
<1>n. PICK n : n = IF answer \in {"ok", "lost"} THEN 1 ELSE 0
  OBVIOUS
<1>o. PICK o : o = Classify(answer)
  OBVIOUS
<1>4. n \in {0, 1} /\ o \in Outs /\ (o = "retryable" => n = 0)
  BY <1>n, <1>o DEF Classify, Outs
<1>5. PICK y : Wrote(b, y) /\ y.st = batch[b].st /\ y.members = batch[b].members /\ y.tries = batch[b].tries
               /\ y.made = batch[b].made + n
  <2>1. batch' = [batch EXCEPT ![b].made = @ + n]
    BY <1>3, <1>b, <1>n
  <2> QED  BY <1>0, <1>2, <1>4, <2>1, MadeWrites
<1>6. y.made = n /\ n <= 1
  BY <1>2, <1>4, <1>5
<1>x. PICK x : x = hand[w]
  OBVIOUS
<1>h. PICK h : h = [x EXCEPT !.pc = "record", !.out = o]
  OBVIOUS
<1>7. x \in HandRow(Items) /\ x.pc = "create" /\ x.job.b = b /\ Named(x.job)
  BY <1>0, <1>1, <1>x, <1>b DEF TrRows, NamedInv
<1>8. h \in HandRow(Items) /\ h.pc = "record" /\ h.job = x.job /\ h.out = o
  BY <1>4, <1>7, <1>h DEF HandRow, HandPlaces
<1>9. hand' = [hand EXCEPT ![w] = h]
  BY <1>0, <1>3, <1>o, <1>x, <1>h DEF TrRows
<1>10. HandPut(w, h)
  BY <1>2, <1>7, <1>8, <1>9 DEF HandPut
<1>11. HandsFine /\ hand'[w] = h /\ \A v \in Translators : v # w => hand'[v] = hand[v]
  BY <1>0, <1>10, HandPutFacts
<1>12. \A v \in Translators : v # w /\ Submitting(v) => hand[v].job.b # b
  BY <1>0, <1>2, <1>b DEF SubmitInv
<1>13. SubmitInv'
  BY <1>2, <1>4, <1>5, <1>6, <1>7, <1>8, <1>11, <1>12, SubmittingWrite
<1>14. QueueFine /\ RunsFine /\ RequestFine
  BY <1>1, RestsOrdinary
<1> QED  BY <1>1, <1>2, <1>5, <1>11, <1>13, <1>14, OneWriteKept

LEMMA RecordStep == ASSUME TrInv, NEW w \in Translators, Record(w) PROVE TrInv'
<1>0. TrRows /\ NamedInv /\ SubmitInv
  BY DEF TrInv
<1>b. PICK b : b = hand[w].job.b
  OBVIOUS
<1>o. PICK out : out = hand[w].out
  OBVIOUS
<1>1. hand[w].pc = "record" /\ Rest(w) /\ UNCHANGED <<workload, target, source, request>>
  BY DEF Record
<1>2. b \in BatchIds /\ Submitting(w) /\ out \in Outs
  BY <1>0, <1>1, <1>b, <1>o, HandFields DEF NamedInv, Submitting, TrRows
<1>3. HandsFine /\ HandsSteady /\ RequestFine
  BY <1>1, RestSteady, RestsOrdinary
<1> DEFINE Unread == UNCHANGED <<item, batch, trRun, trQueue, trFaults>>
           Sent == /\ batch' = [batch EXCEPT ![b].st = "SUBMITTED", ![b].seq = 1]
                   /\ Add({JobFor("poll", b, 1)}) /\ UNCHANGED <<item, trRun>>
           Failed == /\ AfterFailure(b, out) = "FAILED" /\ batch' = Closing(b, "FAILED")
                     /\ item' = item \/ item' = Disposed(Held(b), FALSE, 0)
                     /\ trRun' = trRun \/ trRun' = TemplateAdvanced(item')
                     /\ UNCHANGED <<trQueue, trFaults>>
           Left == /\ AfterFailure(b, out) # "FAILED"
                   /\ batch' = [batch EXCEPT ![b].st = AfterFailure(b, out)]
                   /\ UNCHANGED <<item, trRun, trQueue, trFaults>>
<1>4. Unread \/ (batch[b].st = "SUBMITTING" /\ (Sent \/ (out # "ok" /\ (Failed \/ Left))))
  <2>1. workload \in Workloads
    BY <1>0 DEF TrRows
  <2>2. CASE batch[b].st # "SUBMITTING"
    BY <2>2, <1>b DEF Record
  <2>3. CASE batch[b].st = "SUBMITTING" /\ out = "ok"
    BY <2>3, <1>b, <1>o DEF Record, Submitted, SupportSubmitted, PricingSubmitted, CategorySubmitted, TemplateSubmitted
  <2>4. CASE batch[b].st = "SUBMITTING" /\ out # "ok"
    <3>1. /\ batch' = IF AfterFailure(b, out) = "FAILED" THEN Closing(b, "FAILED")
                      ELSE [batch EXCEPT ![b].st = AfterFailure(b, out)]
          /\ SupportFailure(b, out) \/ PricingFailure(b, out) \/ TemplateFailure(b, out)
          /\ UNCHANGED <<trQueue, trFaults>>
      BY <2>1, <2>4, <1>b, <1>o DEF Record, Workloads, CategoryFailure
    <3> QED  BY <2>4, <3>1 DEF SupportFailure, PricingFailure, TemplateFailure
  <2> QED  BY <2>2, <2>3, <2>4
<1>5. CASE Unread
  BY <1>1, <1>3, <1>5, RestsOrdinary, OrdinaryStep
<1>6. CASE batch[b].st = "SUBMITTING" /\ Sent
  <2>1. batch' = [batch EXCEPT ![b].st = "SUBMITTED", ![b].seq = 1] /\ batch[b].st = "SUBMITTING"
    BY <1>6
  <2>2. "SUBMITTED" \in BatchStates /\ 1 \in PollNumbers
    BY TrBounds DEF BatchStates
  <2>3. Steady
    BY <1>2, <2>1, <2>2, SequenceSteady
  <2>4. QueueFine
    BY <1>2, <1>6, <2>2, PollJobs
  <2> QED  BY <1>1, <1>3, <1>6, <2>3, <2>4, RestsOrdinary, OrdinaryStep
<1>7. CASE batch[b].st = "SUBMITTING" /\ Failed
  <2>1. "FAILED" \in Closed /\ batch' = Closing(b, "FAILED") /\ batch[b].st = "SUBMITTING"
    BY <1>7 DEF Closed
  <2>2. Steady
    BY <1>2, <2>1, CloseSteady
  <2>3. ItemsSteady /\ NoneNew
    BY <1>2, <1>7, HeldDisposed, RestsOrdinary
  <2>4. RunsFine
    BY <1>0, <1>1, <1>7, AdvancedTyped DEF RunsFine, TemplateAdvanced, TrRows
  <2> QED  BY <1>1, <1>3, <1>7, <2>2, <2>3, <2>4, RestsOrdinary, OrdinaryStep
<1>8. CASE batch[b].st = "SUBMITTING" /\ out # "ok" /\ Left
  <2>s. PICK s : s = AfterFailure(b, out)
    OBVIOUS
  <2>1. batch' = [batch EXCEPT ![b].st = s] /\ batch[b].st = "SUBMITTING" /\ UNCHANGED <<item, trRun, trQueue, trFaults>>
    BY <1>8, <2>s
  <2>2. s = "SUBMISSION_UNKNOWN" \/ (s = "READY" /\ out = "retryable" /\ ~(batch[b].tries >= MaxSubmits))
    BY <1>2, <1>8, <2>s DEF AfterFailure, Outs
  <2>3. s \in BatchStates
    BY <2>2 DEF BatchStates
  <2>4. CASE s = "SUBMISSION_UNKNOWN"
    <3>1. Steady
      BY <1>2, <2>1, <2>3, <2>4, StatusSteady
    <3> QED  BY <1>1, <1>3, <2>1, <3>1, RestsOrdinary, OrdinaryStep
  <2>5. CASE s = "READY" /\ out = "retryable" /\ ~(batch[b].tries >= MaxSubmits)
    <3>1. PICK y : Wrote(b, y) /\ y.st = s /\ SameBatch(batch[b], y) /\ y.tries = batch[b].tries
      BY <1>0, <1>2, <2>1, <2>3, StatusWrites
    <3>2. y.tries < MaxSubmits
      <4>1. batch[b].tries \in Submits
        BY <1>0, <1>2, BatchFields DEF TrRows
      <4>n. PICK n : n = batch[b].tries
        OBVIOUS
      <4>2. n \in Nat /\ MaxSubmits \in Nat /\ ~(n >= MaxSubmits) /\ y.tries = n
        BY <2>5, <3>1, <4>1, <4>n, TrBounds, TranslationAssumption
      <4> QED  BY <4>2
    <3>3. y.made = 0 /\ y.members = batch[b].members
      BY <1>0, <1>1, <1>b, <1>o, <2>5, <3>1 DEF SubmitInv, SameBatch
    <3>4. hand'[w].pc = "idle" /\ \A v \in Translators : v # w => hand'[v] = hand[v]
      BY <1>0, <1>1, RestFacts
    <3>5. \A v \in Translators : v # w /\ Submitting(v) => hand[v].job.b # b
      BY <1>0, <1>2, <1>b DEF SubmitInv
    <3>6. ~Submitting(w)'
      BY <3>4 DEF Submitting
    <3>7. SubmitInv'
      BY <1>2, <3>1, <3>3, <3>4, <3>5, <3>6, SubmittingWrite
    <3>8. QueueFine /\ RunsFine
      BY <1>1, <2>1, RestsOrdinary
    <3> QED  BY <1>1, <1>3, <2>1, <2>5, <3>1, <3>2, <3>3, <3>7, <3>8, OneWriteKept
  <2> QED  BY <2>2, <2>4, <2>5
<1> HIDE DEF Unread, Sent, Failed, Left
<1> QED  BY <1>4, <1>5, <1>6, <1>7, <1>8
-----------------------------------------------------------------------------
(* Results and reconciliation.                                             *)

LEMMA ApplyResultStep == ASSUME TrInv, NEW w \in Translators, ApplyResult(w) PROVE TrInv'
<1>0. TrRows /\ NamedInv /\ BatchesInv /\ SubmitInv /\ CountInv /\ ShownInv
  BY DEF TrInv
<1>b. PICK b : b = hand[w].job.b
  OBVIOUS
<1>x. PICK x : x = hand[w]
  OBVIOUS
<1>1. hand[w].pc = "apply" /\ UNCHANGED <<workload, batch, trRun, source, request, trQueue, trFaults>>
  BY DEF ApplyResult
<1>2. PICK i \in x.todo, line \in OutputLine :
        /\ hand' = [hand EXCEPT ![w].todo = @ \ {i}]
        /\ IF ~OfBatch(i, b) THEN UNCHANGED <<item, target>>
           ELSE CASE workload = "support"  -> SupportResult(i, b, line)
                  [] workload = "pricing"  -> PricingResult(i, b, line)
                  [] workload = "category" -> CategoryResult(i, b, line)
                  [] workload = "template" -> TemplateResult(i, b, line)
  BY <1>b, <1>x DEF ApplyResult
<1>3. x \in HandRow(Items) /\ x.pc = "apply" /\ x.job.b = b /\ Named(x.job) /\ b \in BatchIds
  BY <1>0, <1>1, <1>x, <1>b DEF TrRows, NamedInv
<1>4. i \in Items /\ x.todo \ {i} \in SUBSET Items
  BY <1>2, <1>3, HandFields
<1>5. HandsFine /\ HandsSteady
  <2>t. PICK T : T = x.todo \ {i}
    OBVIOUS
  <2>h. PICK h : h = [x EXCEPT !.todo = T]
    OBVIOUS
  <2>1. h \in HandRow(Items) /\ h.pc = "apply" /\ h.job = x.job
    BY <1>3, <1>4, <2>t, <2>h DEF HandRow
  <2>2. hand' = [hand EXCEPT ![w] = h]
    BY <1>0, <1>2, <1>x, <2>t, <2>h DEF TrRows
  <2>3. HandPut(w, h)
    BY <1>3, <2>1, <2>2 DEF HandPut
  <2>4. HandsFine /\ hand'[w] = h /\ \A v \in Translators : v # w => hand'[v] = hand[v]
    BY <1>0, <2>3, HandPutFacts
  <2> QED  BY <2>1, <2>4 DEF HandsSteady, Submitting
<1>6. Steady /\ QueueFine /\ RunsFine /\ RequestFine
  BY <1>1, RestsOrdinary
<1>7. CASE ~OfBatch(i, b)
  <2>1. UNCHANGED <<item, target>>
    BY <1>2, <1>7
  <2> QED  BY <1>1, <1>5, <1>6, <2>1, RestsOrdinary, OrdinaryStep
<1>8. CASE OfBatch(i, b)
  <2>1. /\ item' = IF line = "text" THEN Translated(i) ELSE Disposed({i}, line = "passing", MaxRetries)
        /\ IF workload = "support"
           THEN target' = IF line = "text" THEN MarkMessageAvailable(i) ELSE Message(item'[i].st = "FAILED")
           ELSE target' = target
    BY <1>0, <1>2, <1>8 DEF SupportResult, PricingResult, CategoryResult, TemplateResult, TrRows, Workloads
  <2>2. InBatch(item[i]) /\ item[i].st = "PENDING"
    BY <1>3, <1>8, TrBounds DEF OfBatch, InBatch
  <2>3. CASE line # "text"
    <3>p. PICK passing \in BOOLEAN : passing = (line = "passing")
      OBVIOUS
    <3>1. item' = Disposed({i}, passing, MaxRetries)
      BY <2>1, <2>3, <3>p
    <3>2. {i} \in SUBSET Items /\ \A k \in {i} : InBatch(item[k])
      BY <1>4, <2>2
    <3>3. ItemsSteady /\ NoneNew
      BY <1>0, <3>1, <3>2, DisposedFacts, TranslationAssumption
    <3>4. target' \in {"TRANSLATING", "PUBLISHED", "FAILED"}
          /\ (target' = target \/ (~RunWorkload /\ (target = "PUBLISHED" => target' = "PUBLISHED")))
      BY <1>0, <2>1, <2>3 DEF Message, RunWorkload, TrRows
    <3> QED  BY <1>1, <1>5, <1>6, <3>3, <3>4, OrdinaryStep
  <2>4. CASE line = "text"
    <3>1. item' = Translated(i)
      BY <2>1, <2>4
    <3>2. ItemsSteady /\ \A k \in Items : k # i => item'[k] = item[k]
      BY <1>0, <1>4, <2>2, <3>1, TranslatedFacts
    <3>3. target' = IF workload = "support" THEN MarkMessageAvailable(i) ELSE target
      BY <2>1, <2>4
    <3>4. TargetFine
      BY <1>0, <1>1, <3>3 DEF MarkMessageAvailable, TargetFine, TrRows
    <3>5. TrRows' /\ NamedInv' /\ BatchesInv' /\ SubmitInv'
      BY <1>0, <1>5, <1>6, <3>2, <3>4, TrRowsKept, BatchesKept, SubmitKept DEF ItemsSteady, Steady
    <3>6. CountInv'
      BY <1>0, <1>1, <3>2, CountKept
    <3>7. PublishedIsCurrent'
      <4>1. ~(RunWorkload /\ target = "PUBLISHED")
        BY <1>0, <1>4, <2>2 DEF ShownInv, PublishedIsCurrent
      <4> QED  BY <1>1, <3>3, <4>1 DEF PublishedIsCurrent, RunWorkload
    <3>8. TranslatedMessageShown'
      <4>1. ASSUME workload = "support", item'[1].st = "AVAILABLE" PROVE target' = "PUBLISHED"
        <5>1. 1 \in Items
          BY <4>1, TranslationAssumption DEF Items
        <5>2. CASE i = 1
          BY <1>0, <3>3, <4>1, <5>2 DEF MarkMessageAvailable, TrRows
        <5>3. CASE i # 1
          <6>1. item[1].st = "AVAILABLE"
            BY <3>2, <4>1, <5>1, <5>3
          <6> QED  BY <1>0, <3>3, <4>1, <5>3, <6>1 DEF MarkMessageAvailable, ShownInv, TranslatedMessageShown
        <5> QED  BY <5>2, <5>3
      <4> QED  BY <1>1, <4>1 DEF TranslatedMessageShown
    <3> QED  BY <3>5, <3>6, <3>7, <3>8 DEF TrInv, ShownInv
  <2> QED  BY <2>3, <2>4
<1> QED  BY <1>7, <1>8

LEMMA CompleteBatchStep == ASSUME TrInv, NEW w \in Translators, CompleteBatch(w) PROVE TrInv'
<1>0. TrRows /\ NamedInv
  BY DEF TrInv
<1>b. PICK b : b = hand[w].job.b
  OBVIOUS
<1>1. hand[w].pc = "apply" /\ Rest(w) /\ UNCHANGED <<workload, item, target, source, request, trQueue, trFaults>>
  BY DEF CompleteBatch
<1>2. b \in BatchIds
  BY <1>0, <1>1, <1>b DEF NamedInv
<1>3. Completing(b) /\ (trRun' = trRun \/ trRun' = Advanced(item))
  BY <1>b DEF CompleteBatch, SupportComplete, PricingComplete, CategoryComplete, TemplateComplete,
              CategoryAdvanced, TemplateAdvanced
<1>4. RunsFine
  BY <1>0, <1>1, <1>3, AdvancedTyped DEF RunsFine, TrRows
<1>5. Steady
  <2>1. CASE batch[b].st = "PROVIDER_COMPLETED"
    <3>1. batch' = Closing(b, "COMPLETED") /\ "COMPLETED" \in Closed
      BY <1>3, <2>1 DEF Completing, Closed
    <3> QED  BY <1>2, <2>1, <3>1, CloseSteady
  <2>2. CASE batch[b].st # "PROVIDER_COMPLETED"
    BY <1>3, <2>2, RestsOrdinary DEF Completing
  <2> QED  BY <2>1, <2>2
<1> QED  BY <1>1, <1>4, <1>5, RestSteady, RestsOrdinary, OrdinaryStep

LEMMA ResultsUnreadableStep == ASSUME TrInv, NEW w \in Translators, ResultsUnreadable(w) PROVE TrInv'
<1>0. TrRows /\ NamedInv
  BY DEF TrInv
<1>b. PICK b : b = hand[w].job.b
  OBVIOUS
<1>1. /\ hand[w].pc = "apply" /\ Rest(w) /\ UNCHANGED <<workload, target, source, request, trQueue>>
      /\ trFaults < MaxFaults /\ trFaults' = trFaults + 1
  BY DEF ResultsUnreadable
<1>2. b \in BatchIds
  BY <1>0, <1>1, <1>b DEF NamedInv
<1>3. QueueFine
  BY <1>0, <1>1, TrBounds DEF QueueFine, TrRows, NamedInv
<1> DEFINE Lost == UNCHANGED <<item, batch, trRun>>
           Failed == /\ \E passing \in BOOLEAN, limit \in {0, MaxRetries} : item' = Disposed(Held(b), passing, limit)
                     /\ \/ batch[b].st = "PROVIDER_COMPLETED" /\ batch' = Closing(b, "FAILED")
                        \/ batch' = batch
                     /\ trRun' = Advanced(item')
<1>4. Lost \/ Failed
  <2>1. FailBatchItems(b) => Failed
    BY DEF FailBatchItems
  <2>2. /\ batch[b].st = "PROVIDER_COMPLETED" /\ batch' = Closing(b, "FAILED")
        /\ item' = Disposed(Held(b), FALSE, 0) /\ trRun' = TemplateAdvanced(item')
        => Failed
    BY DEF TemplateAdvanced
  <2>3. \/ FailBatchItems(b)
        \/ Lost
        \/ /\ batch[b].st = "PROVIDER_COMPLETED" /\ batch' = Closing(b, "FAILED")
           /\ item' = Disposed(Held(b), FALSE, 0) /\ trRun' = TemplateAdvanced(item')
    BY <1>b DEF ResultsUnreadable
  <2> QED  BY <2>1, <2>2, <2>3
<1>5. CASE Lost
  BY <1>1, <1>3, <1>5, RestSteady, RestsOrdinary, OrdinaryStep
<1>6. CASE Failed
  <2>1. PICK passing \in BOOLEAN, limit \in {0, MaxRetries} : item' = Disposed(Held(b), passing, limit)
    BY <1>6
  <2>2. ItemsSteady /\ NoneNew
    BY <1>2, <2>1, HeldDisposed, TranslationAssumption
  <2>3. RunsFine
    BY <1>0, <1>1, <1>6, AdvancedTyped DEF RunsFine
  <2>4. Steady
    <3>1. CASE batch[b].st = "PROVIDER_COMPLETED" /\ batch' = Closing(b, "FAILED")
      <4>1. "FAILED" \in Closed
        BY DEF Closed
      <4> QED  BY <1>2, <3>1, <4>1, CloseSteady
    <3>2. CASE batch' = batch
      BY <3>2, RestsOrdinary
    <3> QED  BY <1>6, <3>1, <3>2
  <2> QED  BY <1>1, <1>3, <2>2, <2>3, <2>4, RestSteady, RestsOrdinary, OrdinaryStep
<1> HIDE DEF Lost, Failed
<1> QED  BY <1>4, <1>5, <1>6

LEMMA ReconcileUnknownStep == ASSUME TrInv, NEW b \in BatchIds, ReconcileUnknown(b) PROVE TrInv'
<1>0. TrRows /\ NamedInv
  BY DEF TrInv
<1>1. UNCHANGED <<workload, target, source, request, hand, trFaults>>
  BY DEF ReconcileUnknown
<1>2. batch[b].st \notin {"NONE", "READY"}
  BY DEF ReconcileUnknown, SupportUnknown, PricingUnknown, CategoryUnknown, TemplateUnknown
<1>3. \/ \E least \in {0, 1} : Found(b, least)
      \/ GiveUp(b) /\ (trRun' = trRun \/ trRun' = TemplateAdvanced(item'))
  BY DEF ReconcileUnknown, SupportUnknown, PricingUnknown, CategoryUnknown, TemplateUnknown
<1>4. ASSUME NEW least \in {0, 1}, Found(b, least) PROVE TrInv'
  <2>1. UNCHANGED <<item, trRun>>
    BY <1>4 DEF Found
  <2>2. CASE batch' = [batch EXCEPT ![b].st = "PROVIDER_COMPLETED"] /\ trQueue' = trQueue \cup {JobFor("results", b, 0)}
    <3>1. "PROVIDER_COMPLETED" \in BatchStates /\ 0 \in PollNumbers
      BY TrBounds DEF BatchStates
    <3>2. Steady
      BY <1>2, <2>2, <3>1, StatusSteady
    <3>3. QueueFine
      BY <1>1, <2>2, <3>1, PollJobs
    <3> QED  BY <1>1, <2>1, <3>2, <3>3, RestsOrdinary, OrdinaryStep
  <2>3. CASE /\ batch' = [batch EXCEPT ![b].st = "SUBMITTED", ![b].seq = IF @ >= least THEN @ ELSE least]
             /\ trQueue' = trQueue \cup {JobFor("poll", b, batch'[b].seq)}
    <3>q. PICK q : q = IF batch[b].seq >= least THEN batch[b].seq ELSE least
      OBVIOUS
    <3>1. q \in PollNumbers /\ "SUBMITTED" \in BatchStates
      BY <1>0, <3>q, TrBounds, BatchFields DEF TrRows, BatchStates
    <3>2. batch' = [batch EXCEPT ![b].st = "SUBMITTED", ![b].seq = q]
      BY <1>0, <2>3, <3>q DEF TrRows, BatchRow
    <3>s. "SUBMITTED" \notin {"NONE", "READY"}
      OBVIOUS
    <3>3. Steady /\ batch'[b].seq = q
      <4>x. PICK x : x = batch[b]
        OBVIOUS
      <4>y. PICK y : y = [x EXCEPT !.st = "SUBMITTED", !.seq = q]
        OBVIOUS
      <4>1. x \in BatchRow(Items) /\ batch' = [batch EXCEPT ![b] = y]
        BY <1>0, <3>2, <4>x, <4>y DEF TrRows
      <4>2. y \in BatchRow(Items)
        BY <3>1, <4>1, <4>y, TrBounds, BatchWritten DEF BatchRow
      <4>3. y.st = "SUBMITTED" /\ y.seq = q /\ y.members = x.members /\ y.made = x.made
        BY <4>1, <4>y DEF BatchRow
      <4>4. Wrote(b, y) /\ SameBatch(batch[b], y)
        BY <4>1, <4>2, <4>3, <4>x DEF Wrote, SameBatch
      <4> QED  BY <1>0, <1>2, <3>s, <4>3, <4>4, SteadyBatch, WroteFacts
    <3>4. QueueFine
      BY <1>1, <2>3, <3>1, <3>3, PollJobs
    <3> QED  BY <1>1, <2>1, <3>3, <3>4, RestsOrdinary, OrdinaryStep
  <2> QED  BY <1>4, <2>2, <2>3 DEF Found
<1>5. CASE GiveUp(b) /\ (trRun' = trRun \/ trRun' = TemplateAdvanced(item'))
  <2>1. "FAILED" \in Closed /\ batch' = Closing(b, "FAILED") /\ item' = Disposed(Held(b), FALSE, 0) /\ trQueue' = trQueue
    BY <1>5 DEF GiveUp, Closed
  <2>2. Steady
    BY <1>2, <2>1, CloseSteady
  <2>3. ItemsSteady /\ NoneNew
    BY <2>1, HeldDisposed
  <2>4. RunsFine
    BY <1>0, <1>1, <1>5, AdvancedTyped DEF RunsFine, TemplateAdvanced, TrRows
  <2> QED  BY <1>1, <2>1, <2>2, <2>3, <2>4, RestsOrdinary, OrdinaryStep
<1> QED  BY <1>3, <1>4, <1>5

-----------------------------------------------------------------------------
(* The theorems.                                                           *)

LEMMA TrInitial == TrInit => TrInv
<1> SUFFICES ASSUME TrInit PROVE TrInv
  OBVIOUS
<1>1. TrRows
  <2>1. [st |-> "PENDING", batch |-> 0, tries |-> 0] \in ItemRow
    BY TrBounds DEF ItemRow, ItemStates
  <2>2. [st |-> "NONE", seq |-> 0, tries |-> 0, members |-> {}, made |-> 0] \in BatchRow(Items)
    BY TrBounds DEF BatchRow, BatchStates
  <2>3. {JobFor("dispatch", 0, 0)} \subseteq Jobs
    BY JobsTyped
  <2> QED  BY <2>1, <2>2, <2>3, TrBounds, RestingTyped DEF TrInit, TrRows, RunStates
<1>2. NamedInv
  BY JobsTyped DEF TrInit, NamedInv, Resting
<1>3. BatchesInv
  BY DEF TrInit, BatchesInv, Unused
<1>4. SubmitInv
  BY DEF TrInit, SubmitInv, Submitting, Resting
<1>5. ASSUME NEW i \in Items PROVE Cardinality(Holders(i)) = Counted(item[i])
  <2>1. Holders(i) = {}
    BY DEF Holders, TrInit
  <2>2. Counted(item[i]) = 0
    BY DEF Counted, TrInit
  <2> QED  BY <2>1, <2>2, FS_EmptySet
<1>6. CountInv
  BY <1>5 DEF CountInv
<1>7. ShownInv
  <2>1. workload = "support" => item[1].st = "PENDING"
    BY TranslationAssumption DEF TrInit, Items
  <2> QED  BY <2>1 DEF TrInit, ShownInv, PublishedIsCurrent, TranslatedMessageShown
<1> QED  BY <1>1, <1>2, <1>3, <1>4, <1>6, <1>7 DEF TrInv

LEMMA TrStep == TrInv /\ [TrNext]_trVars => TrInv'
<1> SUFFICES ASSUME TrInv, [TrNext]_trVars PROVE TrInv'
  OBVIOUS
<1>1. CASE UNCHANGED trVars
  BY <1>1, RestsOrdinary, OrdinaryStep DEF trVars
<1>2. ASSUME NEW w \in Translators, Translate(w) PROVE TrInv'
  BY <1>2, SupportAssembleStep, SubmitStep, CreateStep, RecordStep, TakePollStep, PollStep, TakeResultsStep,
     ApplyResultStep, CompleteBatchStep DEF Translate
<1>3. ASSUME NEW w \in Translators, ResultsUnreadable(w) \/ Redeliver(w) PROVE TrInv'
  BY <1>3, ResultsUnreadableStep, RedeliverStep
<1>4. CASE Reconcile
  BY <1>4, StartRunStep, RunAssembleStep, TemplateAssembleStep, AdvanceRunStep, RepairStep, PublishStep, RequestSteps,
     ProcessRequestStep, ReconcileUnknownStep DEF Reconcile
<1>5. CASE AskAgain \/ EditSource
  BY <1>5, RequestSteps, EditSourceStep
<1> QED  BY <1>1, <1>2, <1>3, <1>4, <1>5 DEF TrNext

\* Batches, items, workers and queue are what the handlers leave (all the translation handlers).
THEOREM TranslationInvariant == TrSpec => []TrInv
BY TrInitial, TrStep, PTL DEF TrSpec

\* The state of a translation pipeline is typed (all the translation handlers).
THEOREM TranslationsTyped == TrSpec => []TrTypeOK
<1>1. TrInv => TrTypeOK
  BY TrRowsTyped DEF TrInv
<1> QED  BY <1>1, TranslationInvariant, PTL

\* A batch is bought at most once and counted once for each of its items, and what is shown is the translation of the
\* current text, for any number of workers, batches and lost jobs (submitTranslationProviderBatch and its siblings).
THEOREM TranslationsAlwaysSound == TrSpec => []TranslationsSound
<1>1. TrInv => TranslationsSound
  BY DEF TrInv, TranslationsSound, OneProviderBatch, SubmitInv, EachBatchCountsOnce, CountInv, Holders, Counted, ShownInv
<1> QED  BY <1>1, TranslationInvariant, PTL

-----------------------------------------------------------------------------
(* The components beside each other (MCQueuedWork).                        *)

\* A step of queued work is a step of each component, or leaves it alone.
LEMMA QueuedIsTheirs ==
  [QueuedNext]_queuedVars => [CandNext]_candVars /\ [ResumeNext]_resumeVars /\ [FuNext]_fuVars /\ [TrNext]_trVars
BY DEF QueuedNext, queuedVars, Candidates, Resumption, FollowUp, Translations

\* Rows, jobs and workers of all that waits in a queue are well formed, and a recovery that is blocked is still one to
\* resume (recovery-capacity-resume and the queues beside it), whichever component moves.
THEOREM QueuedAlwaysConsistent == QueuedSpec => []QueuedConsistent
<1> DEFINE QueuedInv == CandInv /\ ResumeInv /\ FuInv /\ TrInv
<1>1. QueuedInit => QueuedInv
  BY CandInitInv, ResumeInitInv, FuInvInit, TrInitial DEF QueuedInit
<1>2. QueuedInv /\ [QueuedNext]_queuedVars => QueuedInv'
  BY QueuedIsTheirs, CandStep, ResumeStepInv, FuInvStep, TrStep
<1>3. QueuedInv => QueuedConsistent
  BY CandRowsTyped, ResumeInvTypes, TrRowsTyped DEF CandInv, ResumeInv, FuInv, TrInv, QueuedConsistent
<1> QED  BY <1>1, <1>2, <1>3, PTL DEF QueuedSpec
=============================================================================
