-------------------------- MODULE TranslationBatches --------------------------
(***************************************************************************)
(* Translations are bought from a provider in batches.  Four pipelines     *)
(* share one life cycle and differ at its edges: support messages, the     *)
(* merchant pricing plan, a store category and WhatsApp templates.  Items  *)
(* wait PENDING, are assembled into a batch, the batch is submitted once,  *)
(* polled until the provider ends it, and its results are applied item by  *)
(* item; an item that fails for a passing reason waits for another batch.  *)
(* The database is the authority: every job of the queue may be lost or    *)
(* delivered twice, and the reconciliation adds again what the rows call   *)
(* for.                                                                    *)
(*                                                                         *)
(* One behaviour follows one pipeline (the rigid variable workload) with   *)
(* one run and a few items.  Delays (next attempt, next poll, submit       *)
(* retry) only postpone a step, so a step may be taken at any time after   *)
(* its row calls for it.                                                   *)
(***************************************************************************)
EXTENDS Naturals, FiniteSets

CONSTANTS ItemsOf,      \* the items followed in each pipeline; 1 is the language
                        \* a support message shows
          MaxBatches,   \* bound: batches assembled
          MaxPolls,     \* bound: poll sequence (2000 in the template pipeline); the
                        \* provider's answer is chosen when it is read
          MaxSubmits,   \* translationSubmitMaxAttempts
          MaxRetries,   \* translationMaxAutoRetries
          Translators,  \* queue workers
          MaxFaults     \* bound: lost queue writes, deliveries repeated, unreadable files

ASSUME TranslationAssumption ==
  /\ \A p \in {"support", "pricing", "category", "template"} : 1 \in ItemsOf[p] /\ ItemsOf[p] \subseteq Nat
  /\ MaxBatches \in Nat /\ MaxPolls \in Nat \ {0} /\ MaxSubmits \in Nat \ {0}
  /\ MaxRetries \in Nat /\ MaxFaults \in Nat

VARIABLES workload, item, batch, trRun, target, source, request, trQueue, hand, trFaults

trVars == <<workload, item, batch, trRun, target, source, request, trQueue, hand, trFaults>>

Workloads == {"support", "pricing", "category", "template"}
Items     == ItemsOf[workload]
BatchIds  == 1..MaxBatches
Closed    == {"COMPLETED", "FAILED"}   \* FAILED: failed, expired or cancelled
Jobs      == [kind: {"dispatch", "submit", "poll", "results"}, b: 0..MaxBatches, seq: 0..MaxPolls]
JobFor(k, b, s) == [kind |-> k, b |-> b, seq |-> s]
Resting == [pc |-> "idle", job |-> JobFor("dispatch", 0, 0), todo |-> {}, out |-> "ok"]

TrTypeOK ==
  /\ workload \in Workloads
  /\ item \in [Items -> [st: {"PENDING", "AVAILABLE", "FAILED"}, batch: 0..MaxBatches, tries: Nat]]
  /\ batch \in [BatchIds -> [st: {"NONE", "READY", "SUBMITTING", "SUBMITTED", "SUBMISSION_UNKNOWN",
                                  "PROVIDER_COMPLETED"} \cup Closed,
                             seq: 0..MaxPolls, tries: 0..MaxSubmits, members: SUBSET Items,
                             made: Nat]]
  /\ trRun \in {"PENDING", "PROCESSING", "READY", "FAILED", "STALE", "APPLIED"}
  /\ target \in {"TRANSLATING", "PUBLISHED", "FAILED"}
  /\ source \in 0..1
  /\ request \in {"none", "PENDING", "PROCESSING", "COMPLETED"}
  /\ trQueue \subseteq Jobs
  /\ hand \in [Translators -> [pc: {"idle", "create", "record", "answer", "apply"}, job: Jobs,
                               todo: SUBSET Items, out: {"ok", "retryable", "terminal", "ambiguous"}]]
  /\ trFaults \in 0..MaxFaults

TrInit ==
  /\ workload \in Workloads
  /\ item = [i \in Items |-> [st |-> "PENDING", batch |-> 0, tries |-> 0]]
  /\ batch = [b \in BatchIds |-> [st |-> "NONE", seq |-> 0, tries |-> 0, members |-> {}, made |-> 0]]
  /\ trRun = IF workload = "support" THEN "PROCESSING" ELSE "PENDING"
  /\ target = "TRANSLATING" /\ source = 0 /\ request = "none"
  /\ trQueue = IF workload = "support" THEN {JobFor("dispatch", 0, 0)} ELSE {}
  /\ hand = [w \in Translators |-> Resting]
  /\ trFaults = 0

RunWorkload == workload # "support"
Rest(w) == hand' = [hand EXCEPT ![w] = Resting]

\* A closed batch is never counted or polled again: it keeps its members.
Closing(b, st) == [batch EXCEPT ![b].st = st, ![b].seq = 0, ![b].tries = 0]

\* Adding a job may fail: the failure is logged and the row stays as it is.
Add(js) ==
  \/ trQueue' = trQueue \cup js /\ UNCHANGED trFaults
  \/ trFaults < MaxFaults /\ trFaults' = trFaults + 1 /\ UNCHANGED trQueue

(***************************************************************************)
(* Items and runs                                                          *)
(***************************************************************************)
Held(b) == {i \in Items : item[i].st = "PENDING" /\ item[i].batch = b}

\* translationItemRetryDisposition: back to PENDING while the reason passes
\* and tries are left, FAILED otherwise.
Retried(x, passing, limit) ==
  IF passing /\ x.tries < limit THEN [x EXCEPT !.batch = 0, !.tries = x.tries + 1]
  ELSE [x EXCEPT !.st = "FAILED", !.batch = 0]

Disposed(is, passing, limit) ==
  [i \in Items |-> IF i \in is THEN Retried(item[i], passing, limit) ELSE item[i]]

\* MerchantPricingTranslationRunStateService.advance over the items `it`.
Advanced(it) ==
  IF trRun # "PROCESSING" THEN trRun
  ELSE IF \E i \in Items : it[i].st = "FAILED" THEN "FAILED"
  ELSE IF \A i \in Items : it[i].st = "AVAILABLE" THEN "READY"
  ELSE trRun
CategoryAdvanced(it) == Advanced(it)
TemplateAdvanced(it) == Advanced(it)

AdvanceRun ==
  /\ RunWorkload /\ trRun = "PROCESSING"
  /\ trRun' = IF workload = "pricing" THEN Advanced(item)
            ELSE IF workload = "category" THEN CategoryAdvanced(item) ELSE TemplateAdvanced(item)
  /\ trRun' # trRun
  /\ UNCHANGED <<workload, item, batch, target, source, request, trQueue, hand, trFaults>>

\* Assembly: the waiting items are put in a new READY batch in one
\* transaction that locks them (and the run).
Assemble(b, q) ==
  LET is == Held(0) IN
  /\ is # {} /\ b = 1 + Cardinality({c \in BatchIds : batch[c].st # "NONE"}) /\ b \in BatchIds
  /\ batch' = [batch EXCEPT ![b].st = "READY", ![b].members = is]
  /\ item' = [i \in Items |-> IF i \in is THEN [item[i] EXCEPT !.batch = b] ELSE item[i]]
  /\ \/ trQueue' = q \cup {JobFor("submit", b, 0)} /\ UNCHANGED trFaults
     \/ trFaults < MaxFaults /\ trFaults' = trFaults + 1 /\ trQueue' = q

SupportAssemble(w) ==
  /\ workload = "support" /\ hand[w].pc = "idle"
  /\ JobFor("dispatch", 0, 0) \in trQueue
  /\ LET rest == trQueue \ {JobFor("dispatch", 0, 0)} IN
     IF Held(0) = {} THEN trQueue' = rest /\ UNCHANGED <<item, batch, trFaults>>
     ELSE \E b \in BatchIds : Assemble(b, rest)
  /\ UNCHANGED <<workload, trRun, target, source, request, hand>>

PricingAssemble  == workload = "pricing" /\ trRun = "PROCESSING" /\ \E b \in BatchIds : Assemble(b, trQueue)
CategoryAssemble == workload = "category" /\ trRun = "PROCESSING" /\ \E b \in BatchIds : Assemble(b, trQueue)

\* parseTemplateTranslationSnapshot: the run's snapshot is the definition's.
SnapshotValid == source = 0

\* The template pipeline starts its run here and gives it up when the
\* definition was edited since the run was asked for.
TemplateAssemble ==
  /\ workload = "template" /\ trRun \in {"PENDING", "PROCESSING"} /\ (trRun = "PENDING" \/ Held(0) # {})
  /\ IF ~SnapshotValid THEN trRun' = "FAILED" /\ UNCHANGED <<item, batch, trQueue, trFaults>>
     ELSE trRun' = "PROCESSING" /\ \E b \in BatchIds : Assemble(b, trQueue)
  /\ UNCHANGED <<workload, target, source, request, hand>>

RunAssemble ==
  /\ PricingAssemble \/ CategoryAssemble
  /\ UNCHANGED <<workload, trRun, target, source, request, hand>>

StartRun ==
  /\ workload \in {"pricing", "category"} /\ trRun = "PENDING" /\ trRun' = "PROCESSING"
  /\ UNCHANGED <<workload, item, batch, target, source, request, trQueue, hand, trFaults>>

(***************************************************************************)
(* Submitting                                                              *)
(***************************************************************************)
TakeSubmit(w, allowed) ==
  \E j \in trQueue :
    /\ j.kind = "submit" /\ hand[w].pc = "idle" /\ trQueue' = trQueue \ {j}
    /\ IF batch[j.b].st = "READY" /\ allowed
       THEN /\ batch' = [batch EXCEPT ![j.b].st = "SUBMITTING", ![j.b].tries = @ + 1]
            /\ hand' = [hand EXCEPT ![w] = [Resting EXCEPT !.pc = "create", !.job = j]]
       ELSE UNCHANGED <<batch, hand>>

SupportSubmit(w)  == workload = "support" /\ TakeSubmit(w, TRUE)
PricingSubmit(w)  == workload = "pricing" /\ TakeSubmit(w, trRun = "PROCESSING")
CategorySubmit(w) == workload = "category" /\ TakeSubmit(w, trRun = "PROCESSING")
TemplateSubmit(w) == workload = "template" /\ TakeSubmit(w, trRun = "PROCESSING")

Submit(w) ==
  /\ SupportSubmit(w) \/ PricingSubmit(w) \/ CategorySubmit(w) \/ TemplateSubmit(w)
  /\ UNCHANGED <<workload, item, trRun, target, source, request, trFaults>>

\* Mutant: a create call whose answer was lost counts as not created.
MutClassify(answer) ==
  IF answer \in {"unprepared", "429", "lost", "broken"} THEN "retryable"
  ELSE IF answer \in {"unconfigured", "4xx"} THEN "terminal" ELSE "ok"
\* How a failed submission counts: nothing was created for certain
\* (preparation, 429, other 4xx, no credential), or nobody can tell.
Classify(answer) ==
  CASE answer \in {"unprepared", "429"}   -> "retryable"
    [] answer \in {"unconfigured", "4xx"} -> "terminal"
    [] answer \in {"lost", "broken"}      -> "ambiguous"
    [] OTHER                              -> "ok"

\* The provider call: "lost" created a batch and "broken" did not, and the
\* worker sees the same broken connection.
Create(w) ==
  /\ hand[w].pc = "create"
  /\ \E answer \in {"ok", "unprepared", "unconfigured", "429", "4xx", "lost", "broken"} :
       /\ hand' = [hand EXCEPT ![w].pc = "record", ![w].out = Classify(answer)]
       /\ batch' = [batch EXCEPT ![hand[w].job.b].made = @ + (IF answer \in {"ok", "lost"} THEN 1 ELSE 0)]
  /\ UNCHANGED <<workload, item, trRun, target, source, request, trQueue, trFaults>>

\* persistFailure: the status a SUBMITTING batch takes.
AfterFailure(b, out) ==
  IF out = "ambiguous" THEN "SUBMISSION_UNKNOWN"
  ELSE IF out = "terminal" \/ batch[b].tries >= MaxSubmits THEN "FAILED" ELSE "READY"

\* A support batch that cannot be submitted keeps its items; the two run
\* pipelines fail them with it; the template pipeline also ends its run.
SupportFailure(b, out)  == UNCHANGED <<item, trRun>>
PricingFailure(b, out) ==
  /\ item' = IF AfterFailure(b, out) = "FAILED" THEN Disposed(Held(b), FALSE, 0) ELSE item
  /\ UNCHANGED trRun
CategoryFailure(b, out) == PricingFailure(b, out)
TemplateFailure(b, out) ==
  /\ item' = IF AfterFailure(b, out) = "FAILED" THEN Disposed(Held(b), FALSE, 0) ELSE item
  /\ trRun' = IF AfterFailure(b, out) = "FAILED" THEN TemplateAdvanced(item') ELSE trRun

\* persistSubmitted and enqueuePoll.
Submitted(b) ==
  /\ batch' = [batch EXCEPT ![b].st = "SUBMITTED", ![b].seq = 1]
  /\ Add({JobFor("poll", b, 1)}) /\ UNCHANGED <<item, trRun>>
SupportSubmitted(b)  == workload = "support" /\ Submitted(b)
PricingSubmitted(b)  == workload = "pricing" /\ Submitted(b)
CategorySubmitted(b) == workload = "category" /\ Submitted(b)
TemplateSubmitted(b) == workload = "template" /\ Submitted(b)

\* submitTranslationProviderBatch: what the provider's answer leaves behind.
Record(w) ==
  LET b == hand[w].job.b  out == hand[w].out IN
  /\ hand[w].pc = "record" /\ Rest(w)
  /\ IF batch[b].st # "SUBMITTING" THEN UNCHANGED <<item, batch, trRun, trQueue, trFaults>>
     ELSE IF out = "ok"
     THEN SupportSubmitted(b) \/ PricingSubmitted(b) \/ CategorySubmitted(b) \/ TemplateSubmitted(b)
     ELSE /\ batch' = IF AfterFailure(b, out) = "FAILED" THEN Closing(b, "FAILED")
                    ELSE [batch EXCEPT ![b].st = AfterFailure(b, out)]
          /\ CASE workload = "support"  -> SupportFailure(b, out)
               [] workload = "pricing"  -> PricingFailure(b, out)
               [] workload = "category" -> CategoryFailure(b, out)
               [] workload = "template" -> TemplateFailure(b, out)
          /\ UNCHANGED <<trQueue, trFaults>>
  /\ UNCHANGED <<workload, target, source, request>>

(***************************************************************************)
(* Polling                                                                 *)
(***************************************************************************)
\* A job of an old sequence is for nothing.
ReadBatch(w, allowed) ==
  \E j \in trQueue :
    /\ j.kind = "poll" /\ hand[w].pc = "idle" /\ trQueue' = trQueue \ {j}
    /\ hand' = IF batch[j.b].st = "SUBMITTED" /\ batch[j.b].seq = j.seq /\ allowed
               THEN [hand EXCEPT ![w] = [Resting EXCEPT !.pc = "answer", !.job = j]] ELSE hand

SupportPoll(w)  == workload = "support" /\ ReadBatch(w, TRUE)
PricingPoll(w)  == workload = "pricing" /\ ReadBatch(w, trRun = "PROCESSING")
CategoryPoll(w) == workload = "category" /\ ReadBatch(w, trRun = "PROCESSING")
TemplatePoll(w) == workload = "template" /\ ReadBatch(w, trRun = "PROCESSING")

TakePoll(w) ==
  /\ SupportPoll(w) \/ PricingPoll(w) \/ CategoryPoll(w) \/ TemplatePoll(w)
  /\ UNCHANGED <<workload, item, batch, trRun, target, source, request, trFaults>>

\* The message of a support item: it fails with a translation that is given
\* up, unless it is already shown.
Message(gaveUp) == IF gaveUp /\ target = "TRANSLATING" THEN "FAILED" ELSE target

\* persistTerminalBatch: the batch is closed and its items waited for again
\* or given up, by the provider's reason.
SupportTerminal(b, passing) ==
  /\ item' = Disposed(Held(b), passing, MaxRetries)
  /\ target' = Message(\E i \in Held(b) : item'[i].st = "FAILED") /\ UNCHANGED trRun
PricingTerminal(b, passing)  == item' = Disposed(Held(b), passing, MaxRetries) /\ UNCHANGED <<target, trRun>>
CategoryTerminal(b, passing) == item' = Disposed(Held(b), passing, MaxRetries) /\ UNCHANGED <<target, trRun>>
TemplateTerminal(b, passing, limit) ==
  /\ item' = Disposed(Held(b), passing, limit)
  /\ trRun' = TemplateAdvanced(item') /\ UNCHANGED target

CloseBatch(b, st, passing) ==
  /\ batch' = Closing(b, st)
  /\ CASE workload = "support"  -> SupportTerminal(b, passing)
       [] workload = "pricing"  -> PricingTerminal(b, passing)
       [] workload = "category" -> CategoryTerminal(b, passing)
       [] workload = "template" -> TemplateTerminal(b, passing, MaxRetries)
  /\ UNCHANGED <<trQueue, trFaults>>

\* The provider is still working, or could not be read: next sequence.  The
\* template pipeline gives the batch up at its last sequence.
NextSequence(b, seq) ==
  /\ seq < MaxPolls /\ batch' = [batch EXCEPT ![b].seq = seq + 1]
  /\ Add({JobFor("poll", b, seq + 1)}) /\ UNCHANGED <<item, target, trRun>>
SupportAgain(b, seq)  == workload = "support" /\ NextSequence(b, seq)
PricingAgain(b, seq)  == workload = "pricing" /\ NextSequence(b, seq)
CategoryAgain(b, seq) == workload = "category" /\ NextSequence(b, seq)
TemplateAgain(b, seq) ==
  /\ workload = "template"
  /\ NextSequence(b, seq) \/ (seq = MaxPolls /\ CloseBatch(b, "FAILED", TRUE))
PollAgain(b, seq) == SupportAgain(b, seq) \/ PricingAgain(b, seq) \/ CategoryAgain(b, seq) \/ TemplateAgain(b, seq)

\* normalizeStatus: what a read of the provider's batch can say.
ProviderSays == {"running", "completed", "failed", "expired"}

\* The answer is stored only while the batch is still at the sequence that
\* was read.
Poll(w) ==
  LET j == hand[w].job  b == j.b IN
  /\ hand[w].pc = "answer" /\ Rest(w)
  /\ IF batch[b].st # "SUBMITTED" \/ batch[b].seq # j.seq
     THEN UNCHANGED <<item, batch, trRun, target, trQueue, trFaults>>
     ELSE \E answer \in ProviderSays :
            \/ answer = "running" /\ PollAgain(b, j.seq)
            \/ /\ answer = "completed" /\ batch' = [batch EXCEPT ![b].st = "PROVIDER_COMPLETED"]
               /\ Add({JobFor("results", b, 0)}) /\ UNCHANGED <<item, target, trRun>>
            \/ answer \in {"failed", "expired"} /\ CloseBatch(b, "FAILED", answer = "expired")
  /\ UNCHANGED <<workload, source, request>>

(***************************************************************************)
(* Results                                                                 *)
(***************************************************************************)
\* The file must answer exactly the items put in the batch.
Expected(b) == batch[b].members

ReadResults(w, allowed) ==
  \E j \in trQueue :
    /\ j.kind = "results" /\ hand[w].pc = "idle" /\ trQueue' = trQueue \ {j}
    /\ hand' = IF batch[j.b].st = "PROVIDER_COMPLETED" /\ allowed
               THEN [hand EXCEPT ![w] = [Resting EXCEPT !.pc = "apply", !.job = j, !.todo = Expected(j.b)]]
               ELSE hand

SupportApply(w)   == workload = "support" /\ ReadResults(w, TRUE)
PricingApply(w)   == workload = "pricing" /\ ReadResults(w, trRun = "PROCESSING")
CategoryApply(w)  == workload = "category" /\ ReadResults(w, trRun = "PROCESSING")
TemplateIngest(w) == workload = "template" /\ ReadResults(w, trRun = "PROCESSING")

TakeResults(w) ==
  /\ SupportApply(w) \/ PricingApply(w) \/ CategoryApply(w) \/ TemplateIngest(w)
  /\ UNCHANGED <<workload, item, batch, trRun, target, source, request, trFaults>>

Translated(i) == [item EXCEPT ![i].st = "AVAILABLE", ![i].batch = 0]

\* Mutant: a message that failed first is not shown when its translation comes.
MutMarkMessageAvailable(i) == IF i = 1 /\ target = "TRANSLATING" THEN "PUBLISHED" ELSE target
\* The message is shown when the translation into its display language comes,
\* even after another language made it fail.
MarkMessageAvailable(i) == IF i = 1 /\ target \in {"TRANSLATING", "FAILED"} THEN "PUBLISHED" ELSE target

\* Mutant: a result is applied to an item that has left the batch.
MutOfBatch(i, b) == item[i].st # "AVAILABLE"
\* A result is applied only to an item still waiting for this batch.
OfBatch(i, b) == item[i].st = "PENDING" /\ item[i].batch = b

\* parseOutputFile: a line is a translation or a failure, passing or lasting.
OutputLine == {"text", "passing", "lasting"}

SupportResult(i, b, line) ==
  /\ item' = IF line = "text" THEN Translated(i) ELSE Disposed({i}, line = "passing", MaxRetries)
  /\ target' = IF line = "text" THEN MarkMessageAvailable(i) ELSE Message(item'[i].st = "FAILED")
PricingResult(i, b, line) ==
  item' = (IF line = "text" THEN Translated(i) ELSE Disposed({i}, line = "passing", MaxRetries)) /\ UNCHANGED target
CategoryResult(i, b, line) ==
  item' = (IF line = "text" THEN Translated(i) ELSE Disposed({i}, line = "passing", MaxRetries)) /\ UNCHANGED target
TemplateResult(i, b, line) ==
  item' = (IF line = "text" THEN Translated(i) ELSE Disposed({i}, line = "passing", MaxRetries)) /\ UNCHANGED target

\* One result, one transaction.
ApplyResult(w) ==
  LET b == hand[w].job.b IN
  /\ hand[w].pc = "apply"
  /\ \E i \in hand[w].todo, line \in OutputLine :
       /\ hand' = [hand EXCEPT ![w].todo = @ \ {i}]
       /\ IF ~OfBatch(i, b) THEN UNCHANGED <<item, target>>
          ELSE CASE workload = "support"  -> SupportResult(i, b, line)
                 [] workload = "pricing"  -> PricingResult(i, b, line)
                 [] workload = "category" -> CategoryResult(i, b, line)
                 [] workload = "template" -> TemplateResult(i, b, line)
  /\ UNCHANGED <<workload, batch, trRun, source, request, trQueue, trFaults>>

\* completeBatch, and the run it may complete.
Completing(b) == batch' = IF batch[b].st = "PROVIDER_COMPLETED" THEN Closing(b, "COMPLETED") ELSE batch
SupportComplete(b)  == workload = "support" /\ Completing(b) /\ UNCHANGED trRun
PricingComplete(b)  == workload = "pricing" /\ Completing(b) /\ trRun' = Advanced(item)
CategoryComplete(b) == workload = "category" /\ Completing(b) /\ trRun' = CategoryAdvanced(item)
TemplateComplete(b) ==
  /\ workload = "template" /\ Completing(b)
  /\ trRun' = IF batch[b].st = "PROVIDER_COMPLETED" THEN TemplateAdvanced(item) ELSE trRun

CompleteBatch(w) ==
  LET b == hand[w].job.b IN
  /\ hand[w].pc = "apply" /\ hand[w].todo = {} /\ Held(b) = {} /\ Rest(w)
  /\ SupportComplete(b) \/ PricingComplete(b) \/ CategoryComplete(b) \/ TemplateComplete(b)
  /\ UNCHANGED <<workload, item, target, source, request, trQueue, trFaults>>

\* failBatchItems: merchant pricing closes a batch whose results cannot be
\* read; passing is FALSE when the provider cannot be set up.
FailBatchItems(b) ==
  \E passing \in BOOLEAN :
    /\ item' = Disposed(Held(b), passing, MaxRetries)
    /\ batch' = IF batch[b].st = "PROVIDER_COMPLETED" THEN Closing(b, "FAILED") ELSE batch
    /\ trRun' = Advanced(item')

\* Results that cannot be read.  Support and category let the job fail;
\* templates close the batch when it is two days old.
ResultsUnreadable(w) ==
  LET b == hand[w].job.b IN
  /\ hand[w].pc = "apply" /\ trFaults < MaxFaults /\ trFaults' = trFaults + 1 /\ Rest(w)
  /\ \/ workload = "pricing" /\ FailBatchItems(b)
     \/ workload # "pricing" /\ UNCHANGED <<item, batch, trRun>>
     \/ /\ workload = "template" /\ batch[b].st = "PROVIDER_COMPLETED"
        /\ batch' = Closing(b, "FAILED")
        /\ item' = Disposed(Held(b), FALSE, 0) /\ trRun' = TemplateAdvanced(item')
  /\ UNCHANGED <<workload, target, source, request, trQueue>>

(***************************************************************************)
(* Reconciliation                                                          *)
(***************************************************************************)
\* The job a row calls for.
BatchJob(b) ==
  CASE batch[b].st = "READY"              -> {JobFor("submit", b, 0)}
    [] batch[b].st = "SUBMITTED"          -> {JobFor("poll", b, batch[b].seq)}
    [] batch[b].st = "PROVIDER_COMPLETED" -> {JobFor("results", b, 0)}
    [] OTHER                              -> {}

\* Mutant: only batches that wait for submission are looked at.
MutMissing(b) == {j \in BatchJob(b) : j.kind = "submit"} \ trQueue
\* A job that is waiting, delayed or active is left alone; a finished or
\* failed one is removed and added again.
Missing(b) == {j \in BatchJob(b) : \A w \in Translators : hand[w].pc = "idle" \/ hand[w].job # j} \ trQueue

EnsureJobs(b) == Missing(b) # {} /\ trQueue' = trQueue \cup Missing(b)
SupportRepair ==
  /\ workload = "support"
  /\ \/ \E b \in BatchIds : EnsureJobs(b)
     \/ Held(0) # {} /\ JobFor("dispatch", 0, 0) \notin trQueue /\ trQueue' = trQueue \cup {JobFor("dispatch", 0, 0)}
PricingRepair  == workload = "pricing" /\ trRun = "PROCESSING" /\ \E b \in BatchIds : EnsureJobs(b)
CategoryRepair == workload = "category" /\ trRun = "PROCESSING" /\ \E b \in BatchIds : EnsureJobs(b)
TemplateRepair == workload = "template" /\ trRun = "PROCESSING" /\ \E b \in BatchIds : EnsureJobs(b)

RepairTranslations ==
  /\ SupportRepair \/ PricingRepair \/ CategoryRepair \/ TemplateRepair
  /\ UNCHANGED <<workload, item, batch, trRun, target, source, request, hand, trFaults>>

\* findBatchByCorrelation: the provider's batches that carry this batch's id.
Correlation(b) == IF batch[b].made = 0 THEN "none" ELSE IF batch[b].made = 1 THEN "match" ELSE "conflict"

\* A batch found at the provider takes its place; least is the sequence it
\* is polled with.
Found(b, least) ==
  /\ \/ /\ batch' = [batch EXCEPT ![b].st = "PROVIDER_COMPLETED"]
        /\ trQueue' = trQueue \cup {JobFor("results", b, 0)}
     \/ /\ batch' = [batch EXCEPT ![b].st = "SUBMITTED", ![b].seq = IF @ >= least THEN @ ELSE least]
        /\ trQueue' = trQueue \cup {JobFor("poll", b, batch'[b].seq)}
  /\ UNCHANGED <<item, trRun>>

GiveUp(b) ==
  /\ batch' = Closing(b, "FAILED") /\ item' = Disposed(Held(b), FALSE, 0) /\ UNCHANGED trQueue

SupportUnknown(b) ==
  workload = "support" /\ batch[b].st = "SUBMISSION_UNKNOWN" /\ Correlation(b) = "match" /\ Found(b, 0)
PricingUnknown(b) ==
  /\ workload = "pricing" /\ batch[b].st = "SUBMISSION_UNKNOWN" /\ trRun = "PROCESSING"
  /\ Correlation(b) # "none"
  /\ IF Correlation(b) = "match" THEN Found(b, 1) ELSE GiveUp(b) /\ UNCHANGED trRun
CategoryUnknown(b) ==
  /\ workload = "category" /\ batch[b].st = "SUBMISSION_UNKNOWN" /\ trRun = "PROCESSING"
  /\ Correlation(b) = "match" /\ Found(b, 0)
\* The template pipeline also looks for batches that stayed in submission,
\* and gives an untraceable one up after a day.
TemplateUnknown(b) ==
  /\ workload = "template" /\ batch[b].st \in {"SUBMISSION_UNKNOWN", "SUBMITTING"} /\ trRun = "PROCESSING"
  /\ IF Correlation(b) = "match" THEN Found(b, 1) ELSE GiveUp(b) /\ trRun' = TemplateAdvanced(item')

ReconcileUnknown(b) ==
  /\ SupportUnknown(b) \/ PricingUnknown(b) \/ CategoryUnknown(b) \/ TemplateUnknown(b)
  /\ UNCHANGED <<workload, target, source, request, hand, trFaults>>

\* An administrator asks for the failed support translations again.  A
\* request whose processing stopped is claimed once more.
AskAgain ==
  /\ workload = "support" /\ request = "none" /\ request' = "PENDING" /\ \E i \in Items : item[i].st = "FAILED"
  /\ UNCHANGED <<workload, item, batch, trRun, target, source, trQueue, hand, trFaults>>
ClaimRequest ==
  /\ request = "PENDING" /\ request' = "PROCESSING"
  /\ UNCHANGED <<workload, item, batch, trRun, target, source, trQueue, hand, trFaults>>
ProcessRequest ==
  LET failed == {i \in Items : item[i].st = "FAILED"} IN
  /\ request = "PROCESSING" /\ request' = "COMPLETED"
  /\ Cardinality(failed) <= Cardinality({b \in BatchIds : batch[b].st = "NONE"})  \* bound
  /\ \A i \in Items : item[i].st # "PENDING"                                       \* bound
  /\ item' = [i \in Items |-> IF i \in failed THEN [st |-> "PENDING", batch |-> 0, tries |-> item[i].tries + 1]
                              ELSE item[i]]
  /\ trQueue' = IF failed = {} THEN trQueue ELSE trQueue \cup {JobFor("dispatch", 0, 0)}
  /\ UNCHANGED <<workload, batch, trRun, target, source, hand, trFaults>>

(***************************************************************************)
(* Publication                                                             *)
(***************************************************************************)
\* The administrator edits what is being translated.
EditSource ==
  /\ RunWorkload /\ source = 0 /\ target = "TRANSLATING" /\ source' = 1
  /\ UNCHANGED <<workload, item, batch, trRun, target, request, trQueue, hand, trFaults>>

\* Mutant: the stored snapshot is compared with itself.
MutPricingSourcesMatch == source \in 0..1
\* The source the run was started for is the one the plan or category has.
PricingSourcesMatch  == source = 0
CategorySourceMatches == source = 0

\* The payload is built from the complete set of translations or not at all.
PricingPayload  == \A i \in Items : item[i].st = "AVAILABLE"
CategoryPayload == \A i \in Items : item[i].st = "AVAILABLE"
MarkPlanFailed == target' = "FAILED"

\* finalizeMerchantPricingTranslationRun, one serializable transaction.
PublishPricing ==
  /\ workload = "pricing" /\ target = "TRANSLATING" /\ trRun \in {"READY", "FAILED", "STALE"}
  /\ IF trRun # "READY" THEN MarkPlanFailed /\ UNCHANGED trRun
     ELSE IF ~PricingSourcesMatch THEN MarkPlanFailed /\ trRun' = "STALE"
     ELSE IF PricingPayload THEN target' = "PUBLISHED" /\ trRun' = "APPLIED"
     ELSE MarkPlanFailed /\ trRun' = "FAILED"

PublishCategory ==
  /\ workload = "category" /\ trRun = "READY"
  /\ IF target # "TRANSLATING" \/ ~CategorySourceMatches THEN trRun' = "STALE" /\ UNCHANGED target
     ELSE IF CategoryPayload THEN target' = "PUBLISHED" /\ trRun' = "APPLIED"
     ELSE trRun' = "FAILED" /\ UNCHANGED target

Publish ==
  /\ PublishPricing \/ PublishCategory
  /\ UNCHANGED <<workload, item, batch, source, request, trQueue, hand, trFaults>>

(***************************************************************************)
(* The queue delivers a job again when it takes its worker for stalled:    *)
(* the worker goes on, or really has stopped.                              *)
(***************************************************************************)
Redeliver(w) ==
  /\ hand[w].pc # "idle" /\ trFaults < MaxFaults /\ trFaults' = trFaults + 1
  /\ trQueue' = trQueue \cup {hand[w].job}
  /\ UNCHANGED hand \/ Rest(w)
  /\ UNCHANGED <<workload, item, batch, trRun, target, source, request>>

Translate(w) ==
  SupportAssemble(w) \/ Submit(w) \/ Create(w) \/ Record(w) \/ TakePoll(w) \/ Poll(w)
    \/ TakeResults(w) \/ ApplyResult(w) \/ CompleteBatch(w)
Reconcile ==
  StartRun \/ RunAssemble \/ TemplateAssemble \/ AdvanceRun \/ RepairTranslations \/ Publish \/ ClaimRequest \/ ProcessRequest
    \/ \E b \in BatchIds : ReconcileUnknown(b)

TrNext ==
  \/ \E w \in Translators : Translate(w) \/ ResultsUnreadable(w) \/ Redeliver(w)
  \/ Reconcile \/ AskAgain \/ EditSource

\* The workers run, the periodic reconciliation comes round to everything a
\* row calls for.  The provider ends every batch within its window: the last
\* poll of the bound finds it ended.
TrFairness ==
  /\ \A w \in Translators : WF_trVars(Translate(w))
  /\ \A b \in BatchIds : WF_trVars(ReconcileUnknown(b))
  /\ WF_trVars(StartRun \/ RunAssemble \/ TemplateAssemble \/ AdvanceRun)
  /\ WF_trVars(RepairTranslations) /\ WF_trVars(Publish)

TrSpec == TrInit /\ [][TrNext]_trVars /\ TrFairness

(***************************************************************************)
(* Properties                                                              *)
(***************************************************************************)
\* A batch is created at most once at the provider, whatever is lost between
\* the create call and the row and however often the job is delivered: the
\* provider charges every batch.
OneProviderBatch == \A b \in BatchIds : batch[b].made <= 1

\* Every batch an item was put into counts once: as many batches hold the
\* item as tries were counted, and one more when the item is in a batch or
\* has left its last one for good.  Results delivered twice, or late, would
\* count a batch twice or take the item out of the batch it is in now.
EachBatchCountsOnce ==
  \A i \in Items :
    Cardinality({b \in BatchIds : i \in batch[b].members})
      = item[i].tries + (IF item[i].st = "PENDING" /\ item[i].batch = 0 THEN 0 ELSE 1)

\* What is published is the whole set of translations of the source as it
\* still is: an edit made while the provider was working keeps the old
\* translations from going out under the new text.
PublishedIsCurrent ==
  RunWorkload /\ target = "PUBLISHED" => source = 0 /\ \A i \in Items : item[i].st = "AVAILABLE"

\* A support message whose display translation has come is shown, whichever
\* of its other languages failed before or after.
TranslatedMessageShown == workload = "support" /\ item[1].st = "AVAILABLE" => target = "PUBLISHED"

\* What no repair can move: a batch whose worker stopped inside the
\* submission, one of unknown fate that the provider does not have, and a
\* support batch that could not be submitted and keeps its items.
Stranded(b) ==
  /\ workload # "template"
  /\ \/ batch[b].st = "SUBMITTING" /\ \A w \in Translators : hand[w].pc = "idle" \/ hand[w].job.b # b
     \/ batch[b].st = "SUBMISSION_UNKNOWN" /\ batch[b].made = 0
     \/ workload = "support" /\ batch[b].st = "FAILED" /\ Held(b) # {}

\* Every translation is delivered or given up, however many jobs the queue
\* loses: nothing waits for good except behind a stranded batch, and behind
\* none at all in the template pipeline, which looks for them.
TranslationsSettle ==
  []<>(\/ \A i \in Items : item[i].st # "PENDING"
       \/ trRun \notin {"PENDING", "PROCESSING"}
       \/ \E b \in BatchIds : Stranded(b))

\* A batch is bought and counted once, and what is shown is the translation of the current text (submission, results,
\* publication).
TranslationsSound == OneProviderBatch /\ EachBatchCountsOnce /\ PublishedIsCurrent /\ TranslatedMessageShown
=============================================================================
