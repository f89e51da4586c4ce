-------------------------- MODULE InitialOutreach --------------------------
(***************************************************************************)
(* The first message of a Shopify recovery, from the credit to the         *)
(* provider's last word (recovery-initiation.service.ts and what it        *)
(* calls): look at what earlier workers left, obtain or keep a credit,     *)
(* prepare the message, take the permit in SQL, call the provider, charge  *)
(* the credit, finalize the attempt; and, when WhatsApp reports that the   *)
(* recipient cannot be reached, give the credit back.                      *)
(*                                                                         *)
(* Every step is one transaction, and workers of the same attempt          *)
(* interleave between any two: the checkout lock of the scheduled path     *)
(* lasts ten seconds and is not renewed, and the capacity resume path      *)
(* starts an outreach after it has given the lock back.                    *)
(***************************************************************************)
EXTENDS RecoveryBilling

ASSUME InitialAssumption ==
    /\ None \notin Attempts
    /\ Woo = FALSE          \* the final fence admits Shopify shops only

VARIABLES
    attempt,    \* Attempts -> the outreach attempt and its outbound message
    dispatched, \* Attempts -> number of calls of the provider
    contended   \* history: the attempts that two workers have served at once

outreachVars == <<attempt, dispatched>>
allVars == <<vars, policyVars, worker, outreachVars, contended>>

(***************************************************************************)
(* message is the ConversationMessage: prepared (PENDING), admitted        *)
(* (PENDING with a dispatch permit), sent, delivered, and of the FAILED    *)
(* ones: refused before the permit, rejected by the provider, bounced (an  *)
(* immediate 131026), undeliverable (131026 reported after it was sent),   *)
(* failed (another report); contradicted is delivered after that failure.  *)
(* usage: the OUTBOUND_AUTOMATED_MESSAGE usage event exists; linked:       *)
(* outboundMessageId is set; coded: failureCode is set; job: a delivery    *)
(* failure report waits for its compensation.                              *)
(***************************************************************************)
AttemptStatuses == {"PENDING", "CAPACITY_BLOCKED", "FAILED", "WAITING_FOR_RESPONSE"}
Messages == {"none", "prepared", "admitted", "sent", "delivered", "refused",
             "rejected", "bounced", "undeliverable", "failed", "contradicted"}
FailedMessages == {"refused", "rejected", "bounced", "undeliverable", "failed"}

OutreachTypeOK ==
    /\ attempt \in [Attempts -> [status : AttemptStatuses, message : Messages,
                                 usage : BOOLEAN, linked : BOOLEAN,
                                 coded : BOOLEAN, job : BOOLEAN]]
    /\ dispatched \in [Attempts -> Nat]
    /\ contended \subseteq Attempts
    /\ TypeOK
    /\ BillingTypeOK

OutreachInit ==
    /\ Init
    /\ BillingInit
    /\ attempt = [a \in Attempts |-> [status |-> "PENDING", message |-> "none",
                                      usage |-> FALSE, linked |-> FALSE,
                                      coded |-> FALSE, job |-> FALSE]]
    /\ dispatched = [a \in Attempts |-> 0]
    /\ contended = {}

Of(w) == worker[w].attempt
Message(a) == attempt[a].message
\* Mutant: a permit is taken for a receipt.
MutConfirmed(a) == Message(a) \in {"admitted", "sent", "delivered"}
Confirmed(a) == Message(a) \in {"sent", "delivered"}
Open(a) == attempt[a].status \in {"PENDING", "CAPACITY_BLOCKED"} /\ ~attempt[a].linked
Traceable(a) == attempt[a].usage \/ attempt[a].linked

SetMessage(a, m) == attempt' = [attempt EXCEPT ![a].message = m]
\* The attempt is closed with its message, and the usage event removed or kept.
CloseFailed(a, m, usage) ==
    attempt' = [attempt EXCEPT ![a] = [@ EXCEPT !.status = "FAILED", !.message = m,
                                                !.usage = usage, !.linked = TRUE,
                                                !.coded = TRUE]]

LedgerAlone == UNCHANGED <<vars, policyVars>>
OutreachAlone == UNCHANGED outreachVars

-----------------------------------------------------------------------------
(* What an earlier worker left behind.                                     *)

\* inspectInitialOutreachAdmission; held stands for failed as well: both end
\* the outreach.
Progress(a) ==
    CASE Confirmed(a) /\ Traceable(a) -> "confirmed"
      [] Open(a) /\ attempt[a].usage /\ Message(a) = "prepared" -> "prepared"
      [] Open(a) /\ ~attempt[a].usage /\ Message(a) = "none" -> "absent"
      [] OTHER -> "held"

Inspect(w, a) ==
    /\ At(w, "idle")
    /\ Progress(a) # "held"
    /\ worker' = [worker EXCEPT
          ![w].attempt = a,
          ![w].pc = IF Progress(a) = "confirmed" THEN "settle" ELSE "existing",
          ![w].resumes = Progress(a) = "prepared"]
    /\ LedgerAlone /\ OutreachAlone

\* A held row can be used again by the source it belongs to.
Retainable(k) ==
    /\ reservation[k].status = "RESERVED"
    /\ contract \notin {"required", "frozen"} /\ ~paused
    /\ reservation[k].kind = "paid" => IncludedPeriod = k[2]
    /\ reservation[k].kind = "promotional" => reservation[k].unit \in UsableGrants(FALSE)
    /\ reservation[k].kind = "purchased" =>
          lot[reservation[k].unit].status \in {"ACTIVE", "WITHDRAWN"}

\* revalidateExistingInitialOutreach: none, one to keep, or a hold.
RevalidateExisting(w) ==
    LET a == Of(w)
    IN  /\ At(w, "existing")
        /\ LedgerAlone /\ OutreachAlone
        /\ Open(a) /\ ~attempt[a].coded
        /\ Message(a) = IF worker[w].resumes THEN "prepared" ELSE "none"
        /\ \/ RowsOf(a) = {} /\ ~worker[w].resumes /\ Goto(w, "policy")
           \/ \E k \in RowsOf(a) :
                 /\ RowsOf(a) = {k}
                 /\ Retainable(k)
                 /\ worker' = [worker EXCEPT
                       ![w].pc = "admitted",
                       ![w].kind = reservation[k].kind,
                       ![w].key = k,
                       ![w].period = IncludedPeriod,
                       ![w].post = contract = "ended"]

-----------------------------------------------------------------------------
(* From the credit to the permit.                                          *)

\* The second look at the stored consent.
CheckConsent(w) ==
    /\ At(w, "admitted") /\ ~worker[w].checked
    /\ Goto(w, "revalidate") \/ Goto(w, "releaseFail")
    /\ LedgerAlone /\ OutreachAlone

\* markStatus writes without a condition on the present status.
MarkFailed(w) ==
    /\ At(w, "markFailed")
    /\ attempt' = [attempt EXCEPT ![Of(w)].status = "FAILED", ![Of(w)].coded = TRUE]
    /\ Stop(w)
    /\ LedgerAlone /\ UNCHANGED dispatched

\* No capacity at the first admission leaves no failureCode; a block found by
\* the revalidation does.  Any other block returns before a write (Abandon).
MarkBlocked(w) ==
    /\ \/ At(w, "exhausted")
       \/ At(w, "blocked") /\ worker[w].checked
       \/ At(w, "markBlocked")
    /\ attempt' = [attempt EXCEPT ![Of(w)].status = "CAPACITY_BLOCKED",
                                  ![Of(w)].coded = @ \/ worker[w].checked]
    /\ Stop(w)
    /\ LedgerAlone /\ UNCHANGED dispatched

\* findExistingAdmission: by the usage event, or by the failed attempt's link.
Exists(a) ==
    \/ attempt[a].usage
    \/ attempt[a].linked /\ Message(a) \in FailedMessages \ {"failed"}

\* What a worker does with a message that another one has prepared; on one
\* that is still PENDING it throws (Abandon).
Duplicate(w, a) ==
    /\ Exists(a)
    /\ \/ Confirmed(a) /\ Goto(w, "settle")
       \/ Message(a) \in FailedMessages /\ Goto(w, "releaseStop")

(***************************************************************************)
(* The offer is validated, and reserve creates the message with its usage  *)
(* event, which makes a second one impossible; or it is suppressed.        *)
(***************************************************************************)
Prepare(w) ==
    LET a == Of(w)
    IN  /\ At(w, "admitted") /\ worker[w].checked
        /\ LedgerAlone /\ UNCHANGED dispatched
        /\ \/ Goto(w, "releaseStop") /\ UNCHANGED attempt
           \/ worker[w].resumes /\ Goto(w, "deliver") /\ UNCHANGED attempt
           \/ ~worker[w].resumes /\ Duplicate(w, a) /\ UNCHANGED attempt
           \/ ~worker[w].resumes /\ ~Exists(a) /\ Goto(w, "releaseFail") /\ UNCHANGED attempt
           \/ /\ ~worker[w].resumes /\ ~Exists(a) /\ Open(a)
              /\ attempt' = [attempt EXCEPT ![a].message = "prepared", ![a].usage = TRUE]
              /\ Goto(w, "deliver")

\* resumeInitialTemplate looks at the message again before it is moderated.
Deliver(w) ==
    /\ At(w, "deliver")
    /\ IF Progress(Of(w)) = "prepared" THEN Goto(w, "fence") ELSE Duplicate(w, Of(w))
    /\ LedgerAlone /\ OutreachAlone

(***************************************************************************)
(* hasExactInitialCredit: one row carries the attempt's key, it is the one *)
(* this worker was admitted with, and it can still be spent.               *)
(***************************************************************************)
ExactCredit(a, k) ==
    /\ RowsOf(a) = {k}
    /\ reservation[k].status = "RESERVED"
    /\ reservation[k].kind = "paid" => CurrentOpen(k[2])
    /\ reservation[k].kind = "promotional" => reservation[k].unit \in UsableGrants(FALSE)
    /\ reservation[k].kind = "purchased" => lot[reservation[k].unit].status = "ACTIVE"

\* admitFinalSend: the message is written only if it has no permit yet.
TakePermit(w) ==
    LET a == Of(w)
    IN  /\ At(w, "fence")
        /\ Open(a) /\ Message(a) = "prepared" /\ attempt[a].usage
        /\ ExactCredit(a, worker[w].key)
        /\ SetMessage(a, "admitted")
        /\ Goto(w, "send")
        /\ LedgerAlone /\ UNCHANGED dispatched

(***************************************************************************)
(* Refused by moderation, consent, registration, eligibility or the fence: *)
(* most of these close a message that has no permit (failPrepared).  The   *)
(* others, and all of them on a message that has one, leave it; the caller *)
(* releases its credit in every case.                                      *)
(***************************************************************************)
RefusePermit(w) ==
    LET a == Of(w)
    IN  /\ At(w, "fence")
        /\ \/ /\ Open(a) /\ Message(a) = "prepared" /\ attempt[a].usage
              /\ CloseFailed(a, "refused", FALSE)
           \/ UNCHANGED attempt
        /\ Goto(w, "releaseFail")
        /\ LedgerAlone /\ UNCHANGED dispatched

-----------------------------------------------------------------------------
(* The provider.                                                           *)

\* markSent stores the provider's message id.
ProviderAccepts(w) ==
    /\ SetMessage(Of(w), "sent")
    /\ Goto(w, "settle")

\* A definitive rejection closes the attempt; the credit is left alone.
ProviderRejects(w) ==
    /\ Open(Of(w)) /\ attempt[Of(w)].usage
    /\ CloseFailed(Of(w), "rejected", FALSE)
    /\ Stop(w)

\* 131026 at once: the usage event stays until the compensation used it.
ProviderBounces(w) ==
    /\ Open(Of(w)) /\ attempt[Of(w)].usage
    /\ CloseFailed(Of(w), "bounced", TRUE)
    /\ Goto(w, "compensate")

\* Mutants: a timeout is tried again, or taken for a refusal.
MutRetryUnknown(w) == UNCHANGED <<worker, attempt>>
MutProviderUnknown(w) == Goto(w, "releaseFail") /\ UNCHANGED attempt

\* A timeout, or the answer is lost with the process.
ProviderUnknown(w) == Stop(w) /\ UNCHANGED attempt

CallProvider(w) ==
    /\ At(w, "send")
    /\ dispatched' = [dispatched EXCEPT ![Of(w)] = @ + 1]
    /\ \/ Message(Of(w)) = "admitted" /\ ProviderAccepts(w)
       \/ Message(Of(w)) = "admitted" /\ ProviderRejects(w)
       \/ Message(Of(w)) = "admitted" /\ ProviderBounces(w)
       \/ ProviderUnknown(w)
    /\ LedgerAlone

-----------------------------------------------------------------------------
(* The charge.                                                             *)

\* Mutant: any of several rows will do.
MutSettleable(a, k) == Confirmed(a) /\ Traceable(a)
Settleable(a, k) == Confirmed(a) /\ Traceable(a) /\ RowsOf(a) = {k}

\* Mutant: the attempt is finalized whether or not the credit was charged.
MutSettle(w) ==
    /\ At(w, "settle")
    /\ \/ \E k \in RowsOf(Of(w)) : Settleable(Of(w), k) /\ CommitRow(k)
       \/ UNCHANGED vars
    /\ Goto(w, "finalize")
    /\ UNCHANGED policyVars /\ OutreachAlone

\* settleConfirmedInitialOutreach: commits the attempt's row, or finds it
\* committed; everything else is a hold, and the worker gives up (Abandon).
Settle(w) ==
    LET a == Of(w)
    IN  /\ At(w, "settle")
        /\ \E k \in RowsOf(a) :
              /\ Settleable(a, k)
              /\ CommitRow(k) \/ (IsCharged(k) /\ UNCHANGED vars)
        /\ Goto(w, "finalize")
        /\ UNCHANGED policyVars /\ OutreachAlone

\* finalizeConfirmedInitial, or its replay.
Finalize(w) ==
    LET a == Of(w)
        fresh == Open(a) /\ ~attempt[a].coded
    IN  /\ At(w, "finalize")
        /\ Message(a) \in {"sent", "delivered", "contradicted"}
        /\ fresh \/ (attempt[a].status = "WAITING_FOR_RESPONSE" /\ attempt[a].linked)
        /\ attempt' = [attempt EXCEPT ![a].status = "WAITING_FOR_RESPONSE",
                                      ![a].linked = TRUE]
        /\ Stop(w)
        /\ LedgerAlone /\ UNCHANGED dispatched

-----------------------------------------------------------------------------
(* Reports of the provider, and the compensation.                          *)

\* The status transaction of WhatsappProviderStatusService; the provider may
\* send a report again.
ReportUndeliverable(a) ==
    LET waiting == attempt[a].status = "WAITING_FOR_RESPONSE" /\ attempt[a].linked
    IN  /\ Message(a) \in {"sent", "undeliverable"}
        /\ attempt' = [attempt EXCEPT ![a] = [@ EXCEPT
              !.message = "undeliverable",
              !.status = IF waiting THEN "FAILED" ELSE attempt[a].status,
              !.coded = attempt[a].coded \/ waiting,
              !.job = TRUE]]
        /\ UNCHANGED <<dispatched, worker>> /\ LedgerAlone

ReportFailed(a) ==
    /\ Message(a) = "sent"
    /\ SetMessage(a, "failed")
    /\ UNCHANGED <<dispatched, worker>> /\ LedgerAlone

ReportDelivered(a) ==
    /\ Message(a) \in {"sent", "undeliverable", "failed"}
    /\ SetMessage(a, IF Message(a) = "sent" THEN "delivered" ELSE "contradicted")
    /\ UNCHANGED <<dispatched, worker>> /\ LedgerAlone

\* Mutant: a settled row is skipped.
MutReverse(k) == ReleaseRow(k) \/ (~Transitions(k, reservation[k].kind) /\ UNCHANGED vars)

\* Mutant: a report that comes again finds nothing to reverse, and fails.
MutReverseOnce(k) == ReleaseRow(k) \/ CompensateRow(k)

\* Releases a reserved row, corrects a committed one, leaves a reversed one.
Reverse(k) ==
    \/ ReleaseRow(k)
    \/ CompensateRow(k)
    \/ /\ reservation[k].status = "RELEASED" \/ reservation[k].compensated
       /\ UNCHANGED vars

\* reconcileLocked, in one transaction with the removal of the usage event.
Compensate(a) ==
    IF Message(a) \in {"undeliverable", "bounced"}
    THEN /\ \/ \E k \in RowsOf(a) : /\ Traceable(a)
                                    /\ RowsOf(a) = {k}
                                    /\ Reverse(k)
            \/ ~Traceable(a) /\ UNCHANGED vars
         /\ attempt' = [attempt EXCEPT ![a].usage = FALSE, ![a].job = FALSE]
    ELSE /\ UNCHANGED vars
         /\ attempt' = [attempt EXCEPT ![a].job = FALSE]

\* The report's job, retried until it succeeds, or the worker that was told.
ReconcileReport(a) ==
    /\ attempt[a].job
    /\ Compensate(a)
    /\ UNCHANGED <<policyVars, worker, dispatched>>
ReconcileBounce(w) ==
    /\ At(w, "compensate")
    /\ Compensate(Of(w))
    /\ Stop(w)
    /\ UNCHANGED <<policyVars, dispatched>>

-----------------------------------------------------------------------------
OutreachSteps(w) ==
    \/ \E a \in Attempts : Inspect(w, a)
    \/ RevalidateExisting(w)
    \/ CheckConsent(w)
    \/ MarkFailed(w)
    \/ MarkBlocked(w)
    \/ Prepare(w)
    \/ Deliver(w)
    \/ TakePermit(w)
    \/ RefusePermit(w)
    \/ CallProvider(w)
    \/ Settle(w)
    \/ Finalize(w)
    \/ ReconcileBounce(w)

Reports(a) ==
    \/ ReportUndeliverable(a)
    \/ ReportFailed(a)
    \/ ReportDelivered(a)
    \/ ReconcileReport(a)

OutreachActs ==
    \/ \E w \in Workers : \/ OutreachSteps(w)
                          \/ BillingSteps(w) /\ OutreachAlone
    \/ \E a \in Attempts : Reports(a)
    \/ ShopSteps /\ UNCHANGED worker /\ OutreachAlone

(***************************************************************************)
(* The attempts that two workers serve at this moment: the lock of the     *)
(* first one has run out.  contended only remembers them, it allows and    *)
(* forbids nothing.                                                        *)
(***************************************************************************)
Shared == {a \in Attempts : \E v, w \in Workers : v # w /\ Of(v) = a /\ Of(w) = a}

OutreachNext == OutreachActs /\ contended' = contended \cup Shared'

OutreachSpec == OutreachInit /\ [][OutreachNext]_allVars

\* The queue retries the job of a report until it succeeds.
FairSpec == OutreachSpec /\ \A a \in Attempts : WF_outreachVars(ReconcileReport(a))

-----------------------------------------------------------------------------
(***************************************************************************)
(* The outreach implements the ledger: each of its transactions is one     *)
(* operation of the credit services on one source, or none.  A worker that *)
(* touched a row without its counter, or two sources at once, would not.   *)
(***************************************************************************)
ImplementsLedger == Spec

(***************************************************************************)
(* The customer gets one message, whatever was retried, lost or reported:  *)
(* inspectInitialOutreachAdmission, reserve and fenceProviderSend together *)
(* never let a second call of the provider through.  (It holds of attempts *)
(* that are not contended.)                                                *)
(***************************************************************************)
SentAtMostOnce == \A a \in Attempts : dispatched[a] <= 1

(***************************************************************************)
(* The credit behind a permit is still set aside or charged, or went with  *)
(* its billing period: releaseBeforeProvider is never called for a message *)
(* that Meta may have received.                                            *)
(***************************************************************************)
PermittedSendHasCredit ==
    \A a \in Attempts : Message(a) \in {"admitted", "sent", "delivered", "failed"} =>
        \E k \in RowsOf(a) : \/ reservation[k].status \in HeldStatuses
                             \/ IsCharged(k)
                             \/ k[2] # 0 /\ Closed(k[2])

(***************************************************************************)
(* settleConfirmedInitialOutreach and a replayed admission never charge a  *)
(* message that WhatsApp has not accepted, even when another worker acts   *)
(* on the same attempt.                                                    *)
(***************************************************************************)
ChargedMessageWasSent ==
    \A a \in Attempts, k \in SourceKeys : (k \in RowsOf(a) /\ IsCharged(k)) =>
        Message(a) \in {"sent", "delivered", "undeliverable", "failed", "contradicted"}

(***************************************************************************)
(* settleConfirmedInitialOutreach charges an attempt once, although two    *)
(* workers whose policies differ can set aside two credits for it.         *)
(***************************************************************************)
OneChargePerAttempt ==
    \A a \in Attempts : Cardinality({k \in RowsOf(a) : IsCharged(k)}) <= 1

(***************************************************************************)
(* A follow-up is only planned (finalizeConfirmedInitial) for a first      *)
(* message whose credit was committed.                                     *)
(***************************************************************************)
WaitingWasCharged ==
    \A a \in Attempts : attempt[a].status = "WAITING_FOR_RESPONSE" =>
        \E k \in RowsOf(a) : reservation[k].status = "COMMITTED"

(***************************************************************************)
(* Once reconcile has dealt with its report, an undeliverable message      *)
(* costs nothing, whether the report came before or after the charge.      *)
(***************************************************************************)
UndeliverableCostsNothing ==
    \A a \in Attempts : (Message(a) = "undeliverable" /\ ~attempt[a].job) =>
        \A k \in RowsOf(a) : reservation[k].status \notin HeldStatuses /\ ~IsCharged(k)

(***************************************************************************)
(* reconcile succeeds in the end for every report, in whatever state the   *)
(* lot, the refund and the worker of the message are when it runs, and     *)
(* however often the provider repeats it.                                  *)
(***************************************************************************)
ReportsAreReconciled == \A a \in Attempts : attempt[a].job ~> ~attempt[a].job

\* Two workers on one attempt never charge it twice, nor without a message that WhatsApp accepted, and an attempt waits
\* for the customer only once it is charged (settle, finalize).
ChargedOnceForSent == OneChargePerAttempt /\ ChargedMessageWasSent /\ WaitingWasCharged

(***************************************************************************)
(* "missing or ambiguous reservation": findExactRecoveryReservationSource  *)
(* asserts that at most one row answers for an attempt.                    *)
(***************************************************************************)
OneRowPerAttempt == \A a \in Attempts : Cardinality(RowsOf(a)) <= 1

(***************************************************************************)
(* "routes a definitive provider rejection through recovery billing" (the  *)
(* title of a test): when the worker is done with an outreach that the     *)
(* provider rejected, its credit is no longer set aside.                   *)
(***************************************************************************)
RejectedGivesCreditBack ==
    \A a \in Attempts :
        (Message(a) = "rejected" /\ \A w \in Workers : Of(w) # a) =>
            \A k \in RowsOf(a) : reservation[k].status \notin HeldStatuses
=============================================================================
