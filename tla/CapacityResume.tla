--------------------------- MODULE CapacityResume ---------------------------
(***************************************************************************)
(* Recoveries that were detected but could not be started: no credit       *)
(* (RECOVERY_CAPACITY_EXHAUSTED) or a recipient WhatsApp cannot reach for  *)
(* now (WHATSAPP_RECIPIENT_SUPPRESSED). They are taken up again by jobs of *)
(* the recovery-capacity-resume queue: for a shop (after a purchase, from  *)
(* the periodic repair) in batches of the oldest ones, or for one recovery *)
(* at a due time. A resume looks at the row under the checkout lock, asks  *)
(* Shopify without it, looks again under it, and starts the outreach       *)
(* outside it behind an admission gate that looks a third time.            *)
(*                                                                         *)
(* Between these looks the outreach may be refused for a reason that is no *)
(* want of credit: the row then stays as it is, and the job, reading it    *)
(* again, takes a row that is still blocked for want of credit to mean     *)
(* that the shop has none.                                                 *)
(***************************************************************************)
EXTENDS Naturals, Sequences, FiniteSets

CONSTANTS
    Shops,          \* shops, numbered as their ids sort
    Resumable,      \* recoveries, numbered as (detectedAt, id) sort
    ShopOf,         \* Resumable -> Shops
    Resumers,       \* workers of the queue
    BatchSize, RepairLimit,
    ResumeHorizon,  \* bound on the clock
    MaxMoves,       \* bound on what customers, merchants and WhatsApp do
    MaxCredit       \* bound on the credits of a shop

ASSUME ResumeAssumption ==
    /\ Shops \subseteq Nat /\ Resumable \subseteq Nat \ {0} /\ IsFiniteSet(Resumable)
    /\ ShopOf \in [Resumable -> Shops]
    /\ BatchSize \in Nat \ {0} /\ RepairLimit \in Nat \ {0}
    /\ ResumeHorizon \in Nat /\ MaxMoves \in Nat /\ MaxCredit \in Nat

VARIABLES
    rclock,     \* the clock
    moves,      \* what customers, merchants and WhatsApp have done
    rfaults,    \* faults this behaviour may show
    row,        \* Resumable -> the CheckoutRecovery row
    suppress,   \* Resumable -> the time its recipient is suppressed until
    refusal,    \* Resumable -> what but credit keeps its message from going out
    credit,     \* Shops -> credits that can be reserved
    eligible,   \* Shops -> the shop may run recoveries
    queue,      \* the jobs of the queue that are not running
    resumer     \* Resumers -> the worker

resumeVars == <<rclock, moves, rfaults, row, suppress, refusal, credit, eligible,
                queue, resumer>>

RTimes == 0 .. ResumeHorizon
Blocks == {"none", "capacity", "suppressed"}
ResumeStatuses == {"DETECTED", "MESSAGE_SENT", "COMPLETED", "CANCELLED"}
\* The customer has not consented, or: no approved template, no recipient, a plan
\* or an outbound limit that does not admit it. "lifted": so it was once.
Refusing == {"consent", "other"}
Refusals == {"none", "lifted"} \cup Refusing
Refused(r) == refusal[r] \in Refusing
ResumeFaults == {"resumeThrows", "noRecipient", "scheduleLost", "workerStops"}
\* A job is known by its id: the shop and the trigger. Target jobs name a
\* recovery (0: the shop's batch) and wait for their due time.
TriggerKinds == {"repair", "purchase", "continuation", "until", "update", "maturity"}
Triggers == TriggerKinds \X (Resumable \cup {0}) \X RTimes
Trigger(kind) == <<kind, 0, 0>>
JobOf(s, r, trigger, due) == [shop |-> s, recovery |-> r, trigger |-> trigger, due |-> due, failed |-> FALSE]
Nobody == [phase |-> "idle", job |-> JobOf(0, 0, Trigger("repair"), 0), batch |-> <<>>,
           attempted |-> 0, last |-> 0, fresh |-> TRUE]

ResumeTypeOK ==
    /\ rclock \in RTimes /\ moves \in 0 .. MaxMoves /\ rfaults \subseteq ResumeFaults
    /\ row \in [Resumable -> [status : ResumeStatuses, block : Blocks, activity : RTimes]]
    /\ suppress \in [Resumable -> RTimes] /\ refusal \in [Resumable -> Refusals]
    /\ credit \in [Shops -> 0 .. MaxCredit]
    /\ eligible \in [Shops -> BOOLEAN]
    /\ \A j \in queue : j.shop \in Shops /\ j.trigger \in Triggers
                        /\ j.recovery \in Resumable \cup {0} /\ j.due \in 0 .. ResumeHorizon + 1

ResumeInit ==
    /\ rclock = 0 /\ moves = 0 /\ queue = {}
    /\ rfaults \in {{}} \cup {{f} : f \in ResumeFaults}
    /\ row \in [Resumable -> {[status |-> "DETECTED", block |-> "capacity", activity |-> 0],
                              [status |-> "COMPLETED", block |-> "none", activity |-> 0]}]
    /\ suppress = [r \in Resumable |-> 0] /\ refusal = [r \in Resumable |-> "none"]
    /\ credit = [s \in Shops |-> 0] /\ eligible = [s \in Shops |-> TRUE]
    /\ resumer = [w \in Resumers |-> Nobody]

Running == {resumer[w].job : w \in {v \in Resumers : resumer[v].phase # "idle"}}
SameId(i, j) == i.shop = j.shop /\ i.trigger = j.trigger
\* schedule: BullMQ ignores a job whose id is waiting, running or kept as failed.
Schedule(j) ==
    queue' = IF \E i \in queue \cup Running : SameId(i, j) THEN queue ELSE queue \cup {j}

\* Any write of a row moves its updatedAt: a worker that read it before loses its
\* compare-and-set.
Touched(workers, r) ==
    [w \in Resumers |-> IF workers[w].phase = "mark" /\ Head(workers[w].batch) = r
                        THEN [workers[w] EXCEPT !.fresh = FALSE] ELSE workers[w]]
WriteRow(r, new) ==
    /\ row' = [row EXCEPT ![r] = new]
    /\ resumer' = Touched(resumer, r)

Blocked(s) == {r \in Resumable : ShopOf[r] = s /\ row[r].status = "DETECTED" /\ row[r].block = "capacity"}
BlockedShops == {s \in Shops : Blocked(s) # {}}
FirstOf(set, n) == {x \in set : Cardinality({y \in set : y < x}) < n}

-----------------------------------------------------------------------------
(* What makes jobs.                                                        *)

Move == moves < MaxMoves /\ moves' = moves + 1

\* The periodic repair: the first shops, by id, that have a blocked recovery.
MutRepairShops == {s \in BlockedShops : credit[s] = 0}
RepairShops == FirstOf(BlockedShops, RepairLimit)

Repair(s) ==
    /\ s \in RepairShops /\ eligible[s]
    /\ Schedule(JobOf(s, 0, Trigger("repair"), 0))
    /\ UNCHANGED <<rclock, moves, rfaults, row, suppress, refusal, credit, eligible, resumer>>

\* A purchase is activated; the job it schedules afterwards may be lost.
Purchase(s) ==
    /\ Move
    /\ credit[s] < MaxCredit
    /\ credit' = [credit EXCEPT ![s] = @ + 1]
    /\ IF "scheduleLost" \in rfaults THEN UNCHANGED queue
       ELSE Schedule(JobOf(s, 0, Trigger("purchase"), 0))
    /\ UNCHANGED <<rclock, rfaults, row, suppress, refusal, eligible, resumer>>

\* checkouts/update: the activity moves, and a recovery that is not waiting for
\* capacity gets a wake-up after the delay.
CustomerReturns(r) ==
    /\ Move
    /\ row[r].status = "DETECTED" /\ row[r].activity < rclock /\ rclock < ResumeHorizon
    /\ WriteRow(r, [row[r] EXCEPT !.activity = rclock])
    /\ IF row[r].block = "capacity" THEN UNCHANGED queue
       ELSE Schedule(JobOf(ShopOf[r], r, <<"update", r, rclock>>, rclock + 1))
    /\ UNCHANGED <<rclock, rfaults, suppress, refusal, credit, eligible>>

Ordered(r) ==
    /\ Move
    /\ row[r].status \in {"DETECTED", "MESSAGE_SENT"}
    /\ WriteRow(r, [row[r] EXCEPT !.status = "COMPLETED", !.block = "none"])
    /\ UNCHANGED <<rclock, rfaults, suppress, refusal, credit, eligible, queue>>

\* (Of a recovery that is over it does not matter what its recipient does.)
Unreachable(r) ==
    /\ Move
    /\ row[r].status = "DETECTED"
    /\ suppress[r] <= rclock /\ rclock < ResumeHorizon
    /\ suppress' = [suppress EXCEPT ![r] = rclock + 1]
    /\ UNCHANGED <<rclock, rfaults, row, refusal, credit, eligible, queue, resumer>>

\* Consent is withdrawn or given, a template or a plan changes.
Refuse(r, kind) ==
    /\ Move
    /\ row[r].status = "DETECTED"
    /\ kind \in (IF Refused(r) THEN {"lifted"} ELSE {}) \cup (Refusing \ {refusal[r]})
    /\ refusal' = [refusal EXCEPT ![r] = kind]
    /\ UNCHANGED <<rclock, rfaults, row, suppress, credit, eligible, queue, resumer>>

ShopPauses(s) ==
    /\ Move
    /\ eligible[s]
    /\ eligible' = [eligible EXCEPT ![s] = FALSE]
    /\ UNCHANGED <<rclock, rfaults, row, suppress, refusal, credit, queue, resumer>>

ResumeTick ==
    /\ rclock < ResumeHorizon
    /\ rclock' = rclock + 1
    /\ UNCHANGED <<moves, rfaults, row, suppress, refusal, credit, eligible, queue, resumer>>

-----------------------------------------------------------------------------
(* The worker.                                                             *)

Target(j) == j.recovery # 0
\* isResumeEligibleBlockReason: a wake-up of its own may start an unblocked one.
EligibleRow(r, j) ==
    /\ row[r].status = "DETECTED"
    /\ row[r].block # "none" \/ Target(j)
\* Only a suppression wake-up waits until the checkout has been quiet.
Immature(r, j) == Target(j) /\ row[r].activity + 1 > rclock

Sorted(set) == CHOOSE q \in [1 .. Cardinality(set) -> set] :
                 \A i, j \in 1 .. Cardinality(set) : i < j => q[i] < q[j]

Step(w, phase) == resumer' = [resumer EXCEPT ![w].phase = phase]

\* A job is taken: the recovery it names, or the shop's oldest blocked ones.
TakeJob(w, j) ==
    /\ resumer[w].phase = "idle"
    /\ j \in queue /\ ~j.failed /\ j.due <= rclock
    /\ queue' = queue \ {j}
    /\ resumer' = [resumer EXCEPT ![w] = [Nobody EXCEPT !.job = j, !.phase =
                     IF eligible[j.shop] THEN "next" ELSE "done", !.batch =
                     IF Target(j) THEN <<j.recovery>> ELSE Sorted(FirstOf(Blocked(j.shop), BatchSize))]]
    /\ UNCHANGED <<rclock, moves, rfaults, row, suppress, refusal, credit, eligible>>

\* The recovery is dealt with, and the next one of the batch comes.
Dropped(w) ==
    LET x == resumer[w] IN
    [resumer EXCEPT ![w] = [x EXCEPT !.phase = "next", !.batch = Tail(@), !.attempted = @ + 1,
                                     !.last = Head(x.batch), !.fresh = TRUE]]
DropWakeup(w) == resumer' = Dropped(w)
DropWritten(w, r, new) == row' = [row EXCEPT ![r] = new] /\ resumer' = Touched(Dropped(w), r)
AfterWrite(w, r, new) ==
    /\ row' = [row EXCEPT ![r] = new]
    /\ resumer' = Touched([resumer EXCEPT ![w].phase = "after"], r)

\* A wake-up that came too early schedules its successor.
DeferMature(w, r) ==
    /\ Schedule(JobOf(ShopOf[r], r, <<"maturity", r, row[r].activity>>, row[r].activity + 1))
    /\ DropWakeup(w)

\* The first look, under the lock.
Prepare(w) ==
    LET r == Head(resumer[w].batch)  j == resumer[w].job IN
    /\ resumer[w].phase = "next" /\ resumer[w].batch # <<>>
    /\ IF ~eligible[j.shop] THEN Step(w, "done") /\ UNCHANGED queue
       ELSE IF ~EligibleRow(r, j) THEN DropWakeup(w) /\ UNCHANGED queue
       ELSE IF Immature(r, j) THEN DeferMature(w, r)
       ELSE Step(w, "lookup") /\ UNCHANGED queue
    /\ UNCHANGED <<rclock, moves, rfaults, row, suppress, refusal, credit, eligible>>

\* The lookup, without the lock, and the second look, under it.
Cancelled(r) == [row[r] EXCEPT !.status = "CANCELLED", !.block = "none"]
Unsuppressed(r) == [row[r] EXCEPT !.block = IF @ = "suppressed" THEN "none" ELSE @]
Recheck(w, gone) ==
    LET r == Head(resumer[w].batch)  j == resumer[w].job IN
    /\ resumer[w].phase = "lookup"
    /\ IF ~eligible[j.shop] THEN Step(w, "done") /\ UNCHANGED <<queue, row>>
       ELSE IF ~EligibleRow(r, j) THEN DropWakeup(w) /\ UNCHANGED <<queue, row>>
       ELSE IF Immature(r, j) THEN DeferMature(w, r) /\ UNCHANGED row
       ELSE IF gone
            THEN DropWritten(w, r, Cancelled(r)) /\ UNCHANGED queue
       ELSE IF "noRecipient" \in rfaults
            THEN DropWritten(w, r, Unsuppressed(r)) /\ UNCHANGED queue
       ELSE Step(w, "consent") /\ UNCHANGED <<queue, row>>
    /\ UNCHANGED <<rclock, moves, rfaults, suppress, refusal, credit, eligible>>

\* Shopify does not answer, or not unambiguously; a first message in progress is
\* held, before a credit is reserved for another: the job throws and, its
\* attempts used up, is kept as failed under its id.
ResumeThrows(w) ==
    /\ "resumeThrows" \in rfaults
    /\ resumer[w].phase \in {"lookup", "consent", "admit"}
    /\ queue' = queue \cup {[resumer[w].job EXCEPT !.failed = TRUE]}
    /\ resumer' = [resumer EXCEPT ![w] = Nobody]
    /\ UNCHANGED <<rclock, moves, rfaults, row, suppress, refusal, credit, eligible>>

\* handleCheckoutCreated, first part: without consent nothing is returned, and
\* the batch goes on; a message that may not be continued returns the row.
ConsentLook(w) ==
    LET r == Head(resumer[w].batch) IN
    /\ resumer[w].phase = "consent"
    /\ \/ refusal[r] = "consent" /\ DropWakeup(w)
       \/ refusal[r] = "other" /\ Step(w, "after")
       \/ refusal[r] # "consent" /\ Step(w, "suppression")
    /\ UNCHANGED <<rclock, moves, rfaults, row, suppress, refusal, credit, eligible, queue>>

\* Second part: without a recipient or consent the row is returned as it is. A
\* suppressed recipient defers the recovery; its wake-up is scheduled first, the
\* row marked afterwards if it has not been written.
\* Mutant: the wake-up is left to the mark.
MutWakeup(r) == UNCHANGED queue
Wakeup(r) == Schedule(JobOf(ShopOf[r], r, <<"until", r, suppress[r]>>, suppress[r]))
Suppression(w) ==
    LET r == Head(resumer[w].batch) IN
    /\ resumer[w].phase = "suppression"
    /\ \/ Refused(r) /\ Step(w, "after") /\ UNCHANGED <<queue, row>>
       \/ /\ refusal[r] # "consent" /\ suppress[r] > rclock
          /\ Wakeup(r)
          /\ resumer' = [resumer EXCEPT ![w].phase = "mark", ![w].fresh = TRUE]
          /\ UNCHANGED row
       \/ /\ refusal[r] # "consent" /\ suppress[r] <= rclock
          /\ row' = [row EXCEPT ![r] = Unsuppressed(r)]
          /\ resumer' = Touched([resumer EXCEPT ![w].phase = "gate"], r)
          /\ UNCHANGED queue
    /\ UNCHANGED <<rclock, moves, rfaults, suppress, refusal, credit, eligible>>

\* Mutant: the mark is written over whatever happened since the read.
MutMarks(w, r) == TRUE
Marks(w, r) == resumer[w].fresh /\ row[r].status = "DETECTED"
Mark(w) ==
    LET r == Head(resumer[w].batch) IN
    /\ resumer[w].phase = "mark"
    /\ IF Marks(w, r) THEN AfterWrite(w, r, [row[r] EXCEPT !.block = "suppressed"])
       ELSE Step(w, "after") /\ UNCHANGED row
    /\ UNCHANGED <<rclock, moves, rfaults, suppress, refusal, credit, eligible, queue>>

\* The admission gate, the third look; then a credit is asked for.
Gate(w) ==
    LET r == Head(resumer[w].batch)  j == resumer[w].job IN
    /\ resumer[w].phase = "gate"
    /\ IF ~eligible[j.shop] THEN Step(w, "done") /\ UNCHANGED queue
       ELSE IF ~EligibleRow(r, j) THEN DropWakeup(w) /\ UNCHANGED queue
       ELSE IF Immature(r, j) THEN DeferMature(w, r)
       ELSE Step(w, "admit") /\ UNCHANGED queue
    /\ UNCHANGED <<rclock, moves, rfaults, row, suppress, refusal, credit, eligible>>

\* The last part, of which InitialOutreach has the steps: the credit is reserved
\* and the message sent, or the recovery is (again) marked as out of capacity;
\* whatever else refuses it gives a reserved credit back and leaves the row.
Exhausted(s) == credit[s] = 0
AdmitResumed(w) ==
    LET r == Head(resumer[w].batch)  s == ShopOf[r] IN
    /\ resumer[w].phase = "admit"
    /\ IF row[r].status # "DETECTED" \/ Refused(r)
       THEN Step(w, "after") /\ UNCHANGED <<row, credit>>
       ELSE IF Exhausted(s)
       THEN /\ AfterWrite(w, r, [row[r] EXCEPT !.block = IF @ = "none" THEN "capacity" ELSE @])
            /\ UNCHANGED credit
       ELSE /\ AfterWrite(w, r, [row[r] EXCEPT !.status = "MESSAGE_SENT", !.block = "none"])
            /\ credit' = [credit EXCEPT ![s] = @ - 1]
    /\ UNCHANGED <<rclock, moves, rfaults, suppress, refusal, eligible, queue>>

\* The row is read again: one that is blocked for want of credit ends the batch,
\* whatever it was refused for, and no continuation is scheduled.
Report(w) ==
    /\ resumer[w].phase = "after"
    /\ IF row[Head(resumer[w].batch)].block = "capacity" THEN Step(w, "done") ELSE DropWakeup(w)
    /\ UNCHANGED <<rclock, moves, rfaults, row, suppress, refusal, credit, eligible, queue>>

\* A batch that was full goes on with a job of its own.
BatchDone(w) ==
    LET j == resumer[w].job IN
    /\ resumer[w].phase = "next" /\ resumer[w].batch = <<>>
    /\ IF ~Target(j) /\ resumer[w].attempted = BatchSize /\ eligible[j.shop]
       THEN Schedule(JobOf(j.shop, 0, <<"continuation", resumer[w].last, 0>>, 0))
       ELSE UNCHANGED queue
    /\ resumer' = [resumer EXCEPT ![w] = Nobody]
    /\ UNCHANGED <<rclock, moves, rfaults, row, suppress, refusal, credit, eligible>>

JobDone(w) ==
    /\ resumer[w].phase = "done"
    /\ resumer' = [resumer EXCEPT ![w] = Nobody]
    /\ UNCHANGED <<rclock, moves, rfaults, row, suppress, refusal, credit, eligible, queue>>

\* The process is killed, once: BullMQ hands the stalled job to another worker.
Stall(w) ==
    /\ "workerStops" \in rfaults /\ rfaults' = rfaults \ {"workerStops"}
    /\ resumer[w].phase # "idle"
    /\ queue' = queue \cup {resumer[w].job}
    /\ resumer' = [resumer EXCEPT ![w] = Nobody]
    /\ UNCHANGED <<rclock, moves, row, suppress, refusal, credit, eligible>>

ResumeStep(w) ==
    \/ \E j \in queue : TakeJob(w, j)
    \/ Prepare(w) \/ \E gone \in BOOLEAN : Recheck(w, gone)
    \/ ResumeThrows(w) \/ ConsentLook(w) \/ Suppression(w) \/ Mark(w) \/ Gate(w)
    \/ AdmitResumed(w) \/ Report(w) \/ BatchDone(w) \/ JobDone(w)

ResumeNext ==
    \/ \E s \in Shops : Repair(s) \/ Purchase(s) \/ ShopPauses(s)
    \/ \E r \in Resumable :
         \/ CustomerReturns(r) \/ Ordered(r) \/ Unreachable(r)
         \/ \E kind \in Refusals : Refuse(r, kind)
    \/ ResumeTick
    \/ \E w \in Resumers : ResumeStep(w) \/ Stall(w)

TakeJobOf(r) == \E w \in Resumers, j \in queue : j.recovery = r /\ TakeJob(w, j)

\* The scheduler of the repair, the worker and the clock go on; BullMQ serves
\* jobs in order, so one that is due is taken though others keep coming.
ResumeSpec ==
    /\ ResumeInit /\ [][ResumeNext]_resumeVars
    /\ \A s \in Shops : WF_resumeVars(Repair(s))
    /\ \A w \in Resumers : WF_resumeVars(ResumeStep(w))
    /\ \A r \in Resumable \cup {0} : SF_resumeVars(TakeJobOf(r))
    /\ WF_resumeVars(ResumeTick)

-----------------------------------------------------------------------------
(* Properties.                                                             *)

\* Only a DETECTED recovery is blocked: neither the mark of a suppression, which
\* is decided on an earlier read, nor a capacity block survives on a recovery
\* the order, the lookup or the outreach has moved on meanwhile.
BlockedIsDetected ==
    \A r \in Resumable : row[r].block # "none" => row[r].status = "DETECTED"

\* A recovery is marked suppressed only once its wake-up is queued (or runs): a
\* worker that stops in between leaves a job too many, never one too few. Only a
\* paused shop, or a refusal, lets another worker be done with the wake-up before
\* the mark.
WakeupBeforeMark ==
    [][\A r \in Resumable :
         row[r].block # "suppressed" /\ row'[r].block = "suppressed"
           => \/ \E j \in queue \cup Running : j.recovery = r /\ Target(j)
              \/ ~eligible[ShopOf[r]] \/ refusal[r] # "none"]_resumeVars

\* A recovery blocked for want of credit has one, unless its shop has none or is
\* paused, something else refuses it, or an older one that is refused holds it up:
\* the oldest are the first the next batch reads, and one that is refused for
\* anything but consent ends it.
HeldUp(r) == \E q \in Blocked(ShopOf[r]) : q < r /\ Refused(q)
CreditServes(r) ==
    row[r].block = "capacity" =>
      credit[ShopOf[r]] = 0 \/ ~eligible[ShopOf[r]] \/ Refused(r) \/ HeldUp(r)

\* None is suppressed any more, unless something has refused it, which may have
\* been when its wake-up came: no repair looks for it then.
WakeupServes(r) ==
    row[r].block = "suppressed" => ~eligible[ShopOf[r]] \/ refusal[r] # "none"

\* Recoveries that wait for a credit or for their recipient are started, or found
\* to be over, in the end, although the job of a purchase is never scheduled (the
\* repair finds them) or a worker is killed.
BlockedResumes ==
    []<>(rfaults \subseteq {"scheduleLost"}
           => \A r \in Resumable : CreditServes(r) /\ WakeupServes(r))

=============================================================================
