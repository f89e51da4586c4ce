---------------------------- MODULE MCQueuedWork ----------------------------
(***************************************************************************)
(* Work that waits in a queue, for TLC: the pending candidates of a        *)
(* checkout, the resumption of recoveries that waited for credits, the     *)
(* follow-ups, and the translation batches.  A behaviour follows one of    *)
(* the four components; the others rest in a fixed initial state.          *)
(***************************************************************************)
EXTENDS PendingCandidates, CapacityResume, FollowUps, TranslationBatches

CONSTANTS c1, c2            \* the commands
VARIABLE which              \* the component of the behaviour, chosen once

queuedVars == <<which, candVars, resumeVars, fuVars, trVars>>

OneShop == <<1, 1>>     \* both recoveries are of shop 1
TheItems == [support |-> {1, 2}, pricing |-> {1}, category |-> {1}, template |-> {1}]

\* The faults that go together in a behaviour of the candidates. With two events
\* an update that comes again leads to no state of its own.
CandidateFaults == {{}, {"lockLapses", Emptied}, {"createdAgain", "orderCrashes", Emptied},
                    {"tombstoneLapses", "orderCrashes", Emptied}}

\* A behaviour with a fault of the resumption follows one recovery; the two
\* commands are interchangeable.
QueuedInit ==
    /\ which \in {"candidates", "resume", "followUps", "translations"}
    /\ CandInit /\ (IF which = "candidates" THEN faults \in CandidateFaults ELSE faults = {})
    /\ ResumeInit /\ (which # "resume" => rfaults = {})
    /\ \A r \in Resumable : row[r].status = "DETECTED" <=> r = 1 \/ rfaults = {}
    /\ FuInit /\ (kindOf[c1] = "template" => kindOf[c2] = "template")
    /\ which # "followUps" => capacity /\ \A c \in Commands : kindOf[c] = "text"
    /\ TrInit /\ (which # "translations" => workload = "support")

Candidates(A)   == which = "candidates" /\ A /\ UNCHANGED <<which, resumeVars, fuVars, trVars>>
Resumption(A)   == which = "resume" /\ A /\ UNCHANGED <<which, candVars, fuVars, trVars>>
FollowUp(A)     == which = "followUps" /\ A /\ UNCHANGED <<which, candVars, resumeVars, trVars>>
Translations(A) == which = "translations" /\ A /\ UNCHANGED <<which, candVars, resumeVars, fuVars>>

QueuedNext == Candidates(CandNext) \/ Resumption(ResumeNext) \/ FollowUp(FuNext) \/ Translations(TrNext)

(***************************************************************************)
(* The fairness of CandSpec, ResumeSpec, FuSpec and TrSpec.  Conditions of *)
(* one kind are stated together, as only those of the chosen component can *)
(* be enabled, and for all jobs, workers and commands at once: that is     *)
(* weaker than the fairness of the four specifications.                    *)
(***************************************************************************)
Works ==
    \/ Candidates(\E j \in {i \in JobIds : job[i].state # "none"} : CandWorker(j))
    \/ Resumption(\E w \in Resumers : ResumeStep(w))
    \/ FollowUp(\E d \in Dispatchers : Dispatch(d))
    \/ Translations(\E w \in Translators : Translate(w))

Repairs ==
    \/ Resumption(\E s \in Shops : Repair(s))
    \/ Translations(RepairTranslations)

Passes ==
    \/ Candidates(Advance)
    \/ Resumption(ResumeTick)
    \/ Translations(StartRun \/ RunAssemble \/ TemplateAssemble \/ AdvanceRun)

\* The wake-ups of single recoveries are finitely many: one condition serves them
\* all, and the jobs of the shop, which may go on for ever, come between.
Again ==
    \/ Resumption(\E r \in Resumable : TakeJobOf(r))
    \/ FollowUp(\E d \in Dispatchers, c \in Commands :
                   ReconcileConfirmedFollowUps(d, c) \/ RepairCancelledClaims(d, c))

QueuedFairness ==
    /\ WF_queuedVars(Works)
    /\ WF_queuedVars(Repairs)
    /\ WF_queuedVars(Passes)
    /\ WF_queuedVars(Translations(Publish))
    /\ WF_queuedVars(Translations(\E b \in BatchIds : ReconcileUnknown(b)))
    /\ SF_queuedVars(Again)

QueuedSpec == QueuedInit /\ [][QueuedNext]_queuedVars /\ QueuedFairness

\* The rows and jobs are well formed, and a recovery that is blocked is still one to resume (recovery-capacity-resume).
QueuedConsistent == CandTypeOK /\ ResumeTypeOK /\ FuTypeOK /\ TrTypeOK /\ BlockedIsDetected

(***************************************************************************)
(* The liveness of each component, in the behaviours that follow it.       *)
(***************************************************************************)
\* A candidate whose job may fail and be retried is handled in the end (pending-recovery-candidate worker).
CandidatesSettle == which = "candidates" => CandidateSettles
\* A recovery that is blocked for credits, or whose recipient cannot be reached for a while, is taken up again once that
\* ends: its mark never precedes the job that will wake it (recovery-capacity-resume).
BlockedRecoveriesResume == WakeupBeforeMark /\ (which = "resume" => BlockedResumes)
\* A cancelled claim frees the slot of the follow-up, and one WhatsApp accepted is charged, through the repairs of the poll
\* (follow-up-claim-cancellation, human-command-dispatcher).
FollowUpsSettle == which = "followUps" => CancelledClaimFreed /\ AcceptedFollowUpCharged
\* Every item is translated or given up, unless its batch is stranded (translation-batch-submit).
ItemsSettle == which = "translations" => TranslationsSettle
=============================================================================
