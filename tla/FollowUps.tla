----------------------------- MODULE FollowUps -----------------------------
(***************************************************************************)
(* The one follow-up of a recovery (RecoveryOutreachAttempt, sequence 2)   *)
(* and the merchant's send commands.  The scheduled no-response job and    *)
(* the merchant's template commands compete for the same row and for the   *)
(* same credit, whose identity is the row.  Commands are dispatched by     *)
(* leased workers: claim, evaluate, take the row, admit the credit, obtain *)
(* the final permit in SQL, call WhatsApp, record what it said, charge.    *)
(* A denied command is cancelled first, its credit released next and the   *)
(* row freed last, each in a transaction of its own; the poll repairs what *)
(* a stopped worker leaves behind.                                         *)
(***************************************************************************)
EXTENDS Naturals, FiniteSets

CONSTANTS
    Commands,       \* MerchantConversationSendCommand ids
    Dispatchers,    \* in-flight command slots, over all replicas
    MaxClaims,      \* bound on the leases of a command
    MaxUpsets,      \* bound on handovers, replies, expiries and workers that die
    NoKey           \* no claim key, no message

ASSUME FollowUpAssumption ==
    /\ NoKey \notin Commands \cup {"scheduled"} /\ "scheduled" \notin Commands
    /\ MaxClaims \in Nat /\ MaxUpsets \in Nat

VARIABLES
    kindOf,     \* Commands -> text or template (immutable)
    capacity,   \* the shop keeps a credit for this recovery
    control,    \* the conversation: who speaks, at which revision
    closed,     \* the recovery is terminal
    inbound,    \* the customer's last message: none, within the window, older
    consent,    \* the stored consent of the recipient and its revision
    first,      \* the initial attempt (sequence 1, sent and due)
    slot,       \* the follow-up attempt (sequence 2)
    fuCredit,   \* the reservation of the follow-up attempt
    cmd,        \* Commands -> the command row
    wrapper,    \* version of the active wrapper slot
    disp,       \* Dispatchers -> the claimed command being processed
    fuJob,      \* the scheduled follow-up job
    onWire,     \* what WhatsApp accepted: commands and "scheduled"
    upsets

fuVars == <<kindOf, capacity, control, closed, inbound, consent, first, slot, fuCredit, cmd,
            wrapper, disp, fuJob, onWire, upsets>>
\* What the dispatcher and the job only read.
around == <<kindOf, capacity, control, closed, inbound, consent>>

CommandStates == {"ACCEPTED", "CLAIMED", "DISPATCH_ADMITTED", "SENT", "FAILED", "CANCELLED", "UNKNOWN"}
DispSteps == {"idle", "evaluate", "freeze", "claim", "credit", "recheck", "permit", "provider", "accepted",
              "rejected", "unknown", "refund", "charge", "waiting", "reject", "defer", "release", "verify", "recharge"}
JobSteps == {"delayed", "noResponse", "claim", "credit", "send", "finalize", "done"}
Owners == Commands \cup {"scheduled", NoKey}

FuTypeOK ==
    /\ kindOf \in [Commands -> {"text", "template"}] /\ capacity \in BOOLEAN
    /\ control \in [mode : {"AI", "HUMAN"}, revision : 0 .. MaxUpsets]
    /\ closed \in BOOLEAN /\ inbound \in {"none", "open", "old"}
    /\ consent \in [granted : BOOLEAN, revision : 0 .. MaxUpsets]
    /\ first \in {"WAITING", "NO_RESPONSE", "ENGAGED"}
    /\ slot \in [status : {"NONE", "PENDING", "WAITING", "ENGAGED", "FAILED"}, key : Owners, message : Owners]
    /\ fuCredit \in {"NONE", "RESERVED", "RELEASED", "COMMITTED", "AMBIGUOUS"}
    /\ cmd \in [Commands -> [state : CommandStates, lease : 0 .. MaxClaims, fresh : BOOLEAN, claims : 0 .. MaxClaims,
                             revision : 0 .. MaxUpsets, permit : BOOLEAN, prepared : 0 .. 2]]
    /\ wrapper \in 1 .. 2 /\ upsets \in 0 .. MaxUpsets
    /\ disp \in [Dispatchers -> [pc : DispSteps, command : Owners, lease : 0 .. MaxClaims,
                              consent : 0 .. MaxUpsets]]
    /\ fuJob \in [pc : JobSteps, revision : 0 .. MaxUpsets, consent : 0 .. MaxUpsets]
    /\ onWire \in [Owners -> 0 .. 2]

IdleDispatcher == [pc |-> "idle", command |-> NoKey, lease |-> 0, consent |-> 0]
NewCommand(revision) == [state |-> "ACCEPTED", lease |-> 0, fresh |-> FALSE, claims |-> 0, revision |-> revision,
                         permit |-> FALSE, prepared |-> 0]

FuInit ==
    /\ kindOf \in [Commands -> {"text", "template"}] /\ capacity \in BOOLEAN
    /\ control = [mode |-> "HUMAN", revision |-> 0] /\ closed = FALSE /\ inbound = "none"
    /\ consent = [granted |-> TRUE, revision |-> 0]
    /\ first = "WAITING" /\ slot = [status |-> "NONE", key |-> NoKey, message |-> NoKey] /\ fuCredit = "NONE"
    /\ cmd = [c \in Commands |-> NewCommand(0)] /\ wrapper = 1
    /\ disp = [d \in Dispatchers |-> IdleDispatcher] /\ fuJob = [pc |-> "delayed", revision |-> 0, consent |-> 0]
    /\ onWire = [k \in Owners |-> 0] /\ upsets = 0

-----------------------------------------------------------------------------
(* Guards read under the locks Shop, Conversation, command, attempt.       *)

LeaseHeld(c, lease) ==
    cmd[c].state = "CLAIMED" /\ cmd[c].lease = lease /\ cmd[c].fresh /\ ~cmd[c].permit

\* Merchant commands need HUMAN control at exactly their revision.
HumanMay(c) == ~closed /\ control.mode = "HUMAN" /\ control.revision = cmd[c].revision

\* validateHumanFollowUp / checkServiceWindow: free text inside the service
\* window, the template after it.
WindowFits(c) == IF kindOf[c] = "text" THEN inbound = "open" ELSE inbound # "open"

\* The stored consent read before anything is claimed, and again under the
\* locks: granted, and at the revision that was read.
StoredConsent == consent.granted
FinalConsent(revision) == consent.granted /\ consent.revision = revision

SlotFree == slot.key = NoKey /\ slot.status \in {"NONE", "PENDING"} /\ slot.message = NoKey
OwnsSlot(k) == slot.key = k /\ slot.status = "PENDING" /\ slot.message = NoKey

Take(k) == slot' = [slot EXCEPT !.status = "PENDING", !.key = k]
FreeSlot == slot' = [slot EXCEPT !.key = NoKey]

Go(d, pc) == disp' = [disp EXCEPT ![d].pc = pc]
Drop(d) == disp' = [disp EXCEPT ![d] = IdleDispatcher]
At(d, pc) == disp[d].pc = pc
Cmd(d) == disp[d].command

-----------------------------------------------------------------------------
(* The poll of the dispatcher.                                             *)

Due(c) ==
    /\ ~cmd[c].permit /\ cmd[c].claims < MaxClaims
    /\ cmd[c].state \in {"ACCEPTED", "FAILED"} \/ (cmd[c].state = "CLAIMED" /\ ~cmd[c].fresh)

ClaimDueHumanCommands(d, c) ==
    /\ At(d, "idle") /\ Due(c)
    /\ cmd' = [cmd EXCEPT ![c].state = "CLAIMED", ![c].claims = @ + 1, ![c].lease = cmd[c].claims + 1,
                          ![c].fresh = TRUE]
    /\ disp' = [disp EXCEPT ![d] = [pc |-> "evaluate", command |-> c, lease |-> cmd[c].claims + 1, consent |-> 0]]
    /\ UNCHANGED <<around, first, slot, fuCredit, wrapper, fuJob, onWire, upsets>>

\* A permit whose lease ran out: nobody knows what WhatsApp said.
ReconcileExpiredPermits(c) ==
    /\ cmd[c].state = "DISPATCH_ADMITTED" /\ ~cmd[c].fresh
    /\ cmd' = [cmd EXCEPT ![c].state = "UNKNOWN", ![c].lease = 0]
    /\ UNCHANGED <<around, first, slot, fuCredit, wrapper, disp, fuJob, onWire, upsets>>

\* Mutant: the poll never looks for accepted sends that were not charged.
MutReconcileConfirmedFollowUps(d, c) == FALSE /\ UNCHANGED fuVars

\* An accepted send that was not charged: admit the credit again and charge.
ReconcileConfirmedFollowUps(d, c) ==
    /\ At(d, "idle") /\ kindOf[c] = "template"
    /\ cmd[c].state = "SENT" /\ slot.message = c /\ slot.status = "PENDING"
    /\ disp' = [disp EXCEPT ![d] = [pc |-> "recharge", command |-> c, lease |-> 0, consent |-> 0]]
    /\ UNCHANGED <<around, first, slot, fuCredit, cmd, wrapper, fuJob, onWire, upsets>>

\* Mutant: a cancelled command is never looked at again.
MutRepairCancelledClaims(d, c) == FALSE /\ UNCHANGED fuVars

RepairCancelledClaims(d, c) ==
    /\ At(d, "idle") /\ kindOf[c] = "template"
    /\ cmd[c].state = "CANCELLED" /\ ~cmd[c].permit /\ OwnsSlot(c)
    /\ disp' = [disp EXCEPT ![d] = [pc |-> "verify", command |-> c, lease |-> 0, consent |-> 0]]
    /\ UNCHANGED <<around, first, slot, fuCredit, cmd, wrapper, fuJob, onWire, upsets>>

-----------------------------------------------------------------------------
(* processClaim.                                                           *)

\* Load, restriction, window, screening, moderation, sender, consent and
\* template: they read, and may deny for good, deny for now, or pass.
Evaluate(d) ==
    /\ At(d, "evaluate")
    /\ LET c == Cmd(d)
           passes == LeaseHeld(c, disp[d].lease) /\ HumanMay(c) /\ WindowFits(c)
       IN  \/ Go(d, "reject")
           \/ passes /\ Go(d, "defer")
           \/ passes /\ kindOf[c] = "text" /\ Go(d, "freeze")
           \/ /\ passes /\ kindOf[c] = "template" /\ StoredConsent
              /\ disp' = [disp EXCEPT ![d].pc = "claim", ![d].consent = consent.revision]
    /\ UNCHANGED <<around, first, slot, fuCredit, cmd, wrapper, fuJob, onWire, upsets>>

\* The rendered text is frozen once; a later claim reuses it.
Freeze(d) ==
    /\ At(d, "freeze")
    /\ LET c == Cmd(d)
       IN  IF LeaseHeld(c, disp[d].lease)
           THEN cmd' = [cmd EXCEPT ![c].prepared = IF @ = 0 THEN wrapper ELSE @] /\ Go(d, "recheck")
           ELSE UNCHANGED cmd /\ Go(d, "reject")
    /\ UNCHANGED <<around, first, slot, fuCredit, wrapper, fuJob, onWire, upsets>>

\* claimMerchantFollowUp: claimSequenceTwo, or the replay of its own claim.
ClaimMerchantFollowUp(d) ==
    /\ At(d, "claim")
    /\ LET c == Cmd(d)
           wins == HumanMay(c) /\ inbound # "open" /\ SlotFree
       IN  \/ wins /\ Take(c) /\ Go(d, "credit")
           \/ ~wins /\ OwnsSlot(c) /\ HumanMay(c) /\ inbound # "open" /\ Go(d, "credit") /\ UNCHANGED slot
           \/ ~wins /\ ~(OwnsSlot(c) /\ HumanMay(c) /\ inbound # "open") /\ Go(d, "reject") /\ UNCHANGED slot
    /\ UNCHANGED <<around, first, fuCredit, cmd, wrapper, fuJob, onWire, upsets>>

\* The credit of the attempt: kept, reserved again, or refused.
Admitted(after) ==
    \/ fuCredit \in {"RESERVED", "COMMITTED"} /\ after = fuCredit
    \/ fuCredit \in {"NONE", "RELEASED"} /\ after = "RESERVED"

AdmitAndRevalidate(d) ==
    /\ disp[d].pc \in {"credit", "recharge"}
    /\ \/ /\ Admitted(fuCredit')
          /\ Go(d, IF At(d, "credit") THEN "recheck" ELSE "charge")
       \/ /\ ~capacity \/ fuCredit = "AMBIGUOUS"
          /\ IF At(d, "credit") THEN Go(d, "defer") ELSE Drop(d)
          /\ UNCHANGED fuCredit
    /\ UNCHANGED <<around, first, slot, cmd, wrapper, fuJob, onWire, upsets>>

Released == fuCredit' = IF fuCredit = "RESERVED" THEN "RELEASED" ELSE fuCredit

\* The allowance is read again; a stale one gives the credit back and defers.
RequireCurrentAllowance(d) ==
    /\ At(d, "recheck")
    /\ \/ Go(d, "permit") /\ UNCHANGED fuCredit
       \/ Go(d, "defer") /\ (IF kindOf[Cmd(d)] = "template" THEN Released ELSE UNCHANGED fuCredit)
    /\ UNCHANGED <<around, first, slot, cmd, wrapper, fuJob, onWire, upsets>>

FenceAdmits(c, lease, seen) ==
    /\ LeaseHeld(c, lease) /\ HumanMay(c) /\ WindowFits(c)
    /\ IF kindOf[c] = "text" THEN cmd[c].prepared = wrapper /\ consent.granted ELSE OwnsSlot(c) /\ FinalConsent(seen)

\* admitFinalSend for a command: one transaction, before WhatsApp is called.
AdmitFinalSend(d) ==
    /\ At(d, "permit")
    /\ LET c == Cmd(d)
       IN  \/ /\ FenceAdmits(c, disp[d].lease, disp[d].consent)
              /\ cmd' = [cmd EXCEPT ![c].state = "DISPATCH_ADMITTED", ![c].permit = TRUE]
              /\ slot' = IF kindOf[c] = "template" THEN [slot EXCEPT !.message = c] ELSE slot
              /\ Go(d, "provider")
           \/ Go(d, "reject") /\ UNCHANGED <<cmd, slot>>
    /\ UNCHANGED <<around, first, fuCredit, wrapper, fuJob, onWire, upsets>>

\* WhatsApp accepts, refuses, or its answer is lost after it accepted or not.
CallProvider(d) ==
    /\ At(d, "provider")
    /\ \/ Go(d, "accepted") /\ onWire' = [onWire EXCEPT ![Cmd(d)] = @ + 1]
       \/ Go(d, "unknown") /\ onWire' = [onWire EXCEPT ![Cmd(d)] = @ + 1]
       \/ (Go(d, "rejected") \/ Go(d, "unknown")) /\ UNCHANGED onWire
    /\ UNCHANGED <<around, first, slot, fuCredit, cmd, wrapper, fuJob, upsets>>

\* recordProviderAccepted: from DISPATCH_ADMITTED under its lease, or UNKNOWN.
RecordProviderAccepted(d) ==
    /\ At(d, "accepted")
    /\ LET c == Cmd(d)
       IN  /\ cmd' = [cmd EXCEPT ![c].state = "SENT", ![c].lease = 0]
           /\ IF kindOf[c] = "template" THEN Go(d, "charge") ELSE Drop(d)
    /\ UNCHANGED <<around, first, slot, fuCredit, wrapper, fuJob, onWire, upsets>>

RecordDefinitiveFailure(d) ==
    /\ At(d, "rejected")
    /\ cmd' = [cmd EXCEPT ![Cmd(d)].state = "FAILED", ![Cmd(d)].lease = 0]
    /\ IF kindOf[Cmd(d)] = "template" THEN Go(d, "refund") ELSE Drop(d)
    /\ UNCHANGED <<around, first, slot, fuCredit, wrapper, fuJob, onWire, upsets>>

RecordProviderUnknown(d) ==
    /\ At(d, "unknown")
    /\ LET c == Cmd(d)
       IN  cmd' = IF cmd[c].state = "DISPATCH_ADMITTED" /\ cmd[c].lease = disp[d].lease
                  THEN [cmd EXCEPT ![c].state = "UNKNOWN", ![c].lease = 0] ELSE cmd
    /\ Drop(d)
    /\ UNCHANGED <<around, first, slot, fuCredit, wrapper, fuJob, onWire, upsets>>

OnDefinitiveProviderFailure(d) ==
    /\ At(d, "refund") /\ Released /\ Drop(d)
    /\ UNCHANGED <<around, first, slot, cmd, wrapper, fuJob, onWire, upsets>>

\* Charging a reservation that was released meanwhile throws.
OnConfirmedProviderSend(d) ==
    /\ At(d, "charge")
    /\ IF fuCredit \in {"RESERVED", "COMMITTED"}
       THEN fuCredit' = "COMMITTED" /\ Go(d, "waiting")
       ELSE UNCHANGED fuCredit /\ Drop(d)
    /\ UNCHANGED <<around, first, slot, cmd, wrapper, fuJob, onWire, upsets>>

MarkWaitingAfterConfirmedSend(d) ==
    /\ At(d, "waiting") /\ Drop(d)
    /\ slot' = IF slot.status = "PENDING" THEN [slot EXCEPT !.status = "WAITING"] ELSE slot
    /\ UNCHANGED <<around, first, fuCredit, cmd, wrapper, fuJob, onWire, upsets>>

Defer(d) ==
    /\ At(d, "defer") /\ Drop(d)
    /\ cmd' = IF LeaseHeld(Cmd(d), disp[d].lease)
              THEN [cmd EXCEPT ![Cmd(d)].state = "FAILED", ![Cmd(d)].lease = 0] ELSE cmd
    /\ UNCHANGED <<around, first, slot, fuCredit, wrapper, fuJob, onWire, upsets>>

-----------------------------------------------------------------------------
(* Cancellation of a claimed command (rejectTerminal, cancelClaimed).      *)

\* No command of the attempt has ever been permitted.
ProviderSafe == \A c \in Commands : kindOf[c] = "template" => ~cmd[c].permit

\* inspectFollowUpCredit: nothing was taken, or it was given back.
CreditClear == fuCredit \in {"NONE", "RELEASED"}

\* Mutant: the row is freed without a look at its credit or its owner.
MutFreeWhenSafe(d) == FreeSlot /\ Drop(d)

\* The part of `transition` after the command is CANCELLED.
FreeWhenSafe(d) ==
    LET safe == OwnsSlot(Cmd(d)) /\ ProviderSafe
    IN  IF safe /\ CreditClear THEN FreeSlot /\ Drop(d)
        ELSE /\ UNCHANGED slot
             /\ IF safe /\ fuCredit = "RESERVED" THEN Go(d, "release") ELSE Drop(d)

RejectTerminal(d) ==
    /\ At(d, "reject")
    /\ LET c == Cmd(d)
       IN  IF LeaseHeld(c, disp[d].lease)
           THEN /\ cmd' = [cmd EXCEPT ![c].state = "CANCELLED", ![c].lease = 0]
                /\ IF kindOf[c] = "template" THEN FreeWhenSafe(d) ELSE Drop(d) /\ UNCHANGED slot
           ELSE Drop(d) /\ UNCHANGED <<cmd, slot>>
    /\ UNCHANGED <<around, first, fuCredit, wrapper, fuJob, onWire, upsets>>

ReleaseBeforePermit(d) ==
    /\ At(d, "release") /\ Released /\ Go(d, "verify")
    /\ UNCHANGED <<around, first, slot, cmd, wrapper, fuJob, onWire, upsets>>

\* The second transaction: the same owner and the durable credit again.
VerifyRelease(d) ==
    /\ At(d, "verify")
    /\ IF cmd[Cmd(d)].state = "CANCELLED" THEN FreeWhenSafe(d) ELSE Drop(d) /\ UNCHANGED slot
    /\ UNCHANGED <<around, first, fuCredit, cmd, wrapper, fuJob, onWire, upsets>>

-----------------------------------------------------------------------------
(* The scheduled no-response follow-up, one job without retries.           *)

JobTo(pc) == fuJob' = [fuJob EXCEPT !.pc = pc]

\* Checks of process up to the template; a reply ends the job.
ProcessFollowUp ==
    /\ fuJob.pc = "delayed"
    /\ \/ /\ ~closed /\ slot.status # "WAITING" /\ inbound = "none" /\ control.mode = "AI" /\ StoredConsent
          /\ fuJob' = [pc |-> "noResponse", revision |-> control.revision, consent |-> consent.revision] /\ UNCHANGED first
       \/ JobTo("done") /\ first' = IF inbound # "none" /\ first = "WAITING" THEN "ENGAGED" ELSE first
    /\ UNCHANGED <<around, slot, fuCredit, cmd, wrapper, disp, onWire, upsets>>

MarkNoResponseIfWaiting ==
    /\ fuJob.pc = "noResponse"
    /\ IF first = "WAITING" THEN first' = "NO_RESPONSE" /\ JobTo("claim") ELSE JobTo("done") /\ UNCHANGED first
    /\ UNCHANGED <<around, slot, fuCredit, cmd, wrapper, disp, onWire, upsets>>

\* Mutant: the scheduled claim does not look for an earlier claim.
MutClaimSequenceTwo ==
    /\ fuJob.pc = "claim"
    /\ IF ~closed /\ control.mode = "AI" /\ inbound = "none" THEN Take("scheduled") /\ JobTo("credit")
       ELSE JobTo("done") /\ UNCHANGED slot
    /\ UNCHANGED <<around, first, fuCredit, cmd, wrapper, disp, onWire, upsets>>

ClaimSequenceTwo ==
    /\ fuJob.pc = "claim"
    /\ IF ~closed /\ control.mode = "AI" /\ inbound = "none" /\ SlotFree
       THEN Take("scheduled") /\ JobTo("credit")
       ELSE JobTo("done") /\ UNCHANGED slot
    /\ UNCHANGED <<around, first, fuCredit, cmd, wrapper, disp, onWire, upsets>>

\* Blocked credit: releaseScheduledClaim.
AdmitFollowUp ==
    /\ fuJob.pc = "credit"
    /\ \/ Admitted(fuCredit') /\ JobTo("send") /\ UNCHANGED slot
       \/ ~capacity /\ FreeSlot /\ JobTo("done") /\ UNCHANGED fuCredit
    /\ UNCHANGED <<around, first, cmd, wrapper, disp, onWire, upsets>>

\* sendTemplate: a refusal before the permit gives credit and row back; an
\* error keeps the row FAILED and the credit released or ambiguous.
SendFollowUp ==
    /\ fuJob.pc = "send"
    /\ \/ /\ Released /\ FreeSlot /\ JobTo("done") /\ UNCHANGED onWire
       \/ /\ ~closed /\ control.mode = "AI" /\ control.revision = fuJob.revision /\ FinalConsent(fuJob.consent)
          /\ \/ JobTo("finalize") /\ onWire' = [onWire EXCEPT !["scheduled"] = @ + 1] /\ UNCHANGED <<slot, fuCredit>>
             \/ /\ JobTo("done") /\ slot' = [slot EXCEPT !.status = "FAILED"]
                /\ \/ Released /\ UNCHANGED onWire
                   \/ /\ fuCredit' = IF fuCredit = "RESERVED" THEN "AMBIGUOUS" ELSE fuCredit
                      /\ onWire' \in {onWire, [onWire EXCEPT !["scheduled"] = @ + 1]}
    /\ UNCHANGED <<around, first, cmd, wrapper, disp, upsets>>

FinalizeFollowUp ==
    /\ fuJob.pc = "finalize" /\ JobTo("done")
    /\ IF fuCredit \in {"RESERVED", "COMMITTED"}
       THEN /\ fuCredit' = "COMMITTED"
            /\ slot' = [slot EXCEPT !.status = "WAITING", !.message = "scheduled"]
       ELSE UNCHANGED <<fuCredit, slot>>
    /\ UNCHANGED <<around, first, cmd, wrapper, disp, onWire, upsets>>

-----------------------------------------------------------------------------
(* The surroundings.                                                       *)

Upset == upsets < MaxUpsets /\ upsets' = upsets + 1

\* The merchant takes the conversation over or hands it back.
Handover ==
    /\ Upset
    /\ control' = [mode |-> IF control.mode = "AI" THEN "HUMAN" ELSE "AI", revision |-> control.revision + 1]
    /\ UNCHANGED <<consent, kindOf, capacity, closed, inbound, first, slot, fuCredit, cmd, wrapper, disp, fuJob, onWire>>

\* A verified reply: markEngagedFromInbound on the latest waiting attempt.
CustomerReplies ==
    /\ Upset /\ inbound # "open" /\ inbound' = "open"
    /\ IF slot.status = "WAITING" THEN slot' = [slot EXCEPT !.status = "ENGAGED"] /\ UNCHANGED first
       ELSE UNCHANGED slot /\ first' = IF first = "WAITING" THEN "ENGAGED" ELSE first
    /\ UNCHANGED <<consent, kindOf, capacity, control, closed, fuCredit, cmd, wrapper, disp, fuJob, onWire>>

\* The customer sends STOP or grants again; Shopify withdraws or grants.
ConsentChanges ==
    /\ Upset /\ consent' = [granted |-> ~consent.granted, revision |-> consent.revision + 1]
    /\ UNCHANGED <<kindOf, capacity, control, closed, inbound, first, slot, fuCredit, cmd, wrapper, disp, fuJob, onWire>>

WindowCloses ==
    /\ Upset /\ inbound = "open" /\ inbound' = "old"
    /\ UNCHANGED <<consent, kindOf, capacity, control, closed, first, slot, fuCredit, cmd, wrapper, disp, fuJob, onWire>>

RecoveryCloses ==
    /\ Upset /\ ~closed /\ closed' = TRUE
    /\ UNCHANGED <<consent, kindOf, capacity, control, inbound, first, slot, fuCredit, cmd, wrapper, disp, fuJob, onWire>>

WrapperChanges ==
    /\ Upset /\ wrapper = 1 /\ wrapper' = 2
    /\ UNCHANGED <<around, first, slot, fuCredit, cmd, disp, fuJob, onWire>>

LeaseRunsOut(c) ==
    /\ Upset /\ cmd[c].fresh /\ cmd[c].state \in {"CLAIMED", "DISPATCH_ADMITTED"}
    /\ cmd' = [cmd EXCEPT ![c].fresh = FALSE]
    /\ UNCHANGED <<around, first, slot, fuCredit, wrapper, disp, fuJob, onWire>>

DispatcherStops(d) ==
    /\ ~At(d, "idle") /\ Upset /\ Drop(d)
    /\ UNCHANGED <<around, first, slot, fuCredit, cmd, wrapper, fuJob, onWire>>

\* The job of a stopped worker is run once more from its start.
FollowUpWorkerStops ==
    /\ fuJob.pc \notin {"delayed", "done"} /\ Upset /\ JobTo("delayed")
    /\ UNCHANGED <<around, first, slot, fuCredit, cmd, wrapper, disp, onWire>>

Dispatch(d) ==
    \/ Evaluate(d) \/ Freeze(d) \/ ClaimMerchantFollowUp(d) \/ AdmitAndRevalidate(d) \/ RequireCurrentAllowance(d)
    \/ AdmitFinalSend(d) \/ CallProvider(d) \/ RecordProviderAccepted(d) \/ RecordDefinitiveFailure(d)
    \/ RecordProviderUnknown(d) \/ OnDefinitiveProviderFailure(d) \/ OnConfirmedProviderSend(d)
    \/ MarkWaitingAfterConfirmedSend(d) \/ Defer(d) \/ RejectTerminal(d) \/ ReleaseBeforePermit(d) \/ VerifyRelease(d)

FollowUpJob ==
    \/ ProcessFollowUp \/ MarkNoResponseIfWaiting \/ ClaimSequenceTwo \/ AdmitFollowUp \/ SendFollowUp \/ FinalizeFollowUp

FuNext ==
    \/ \E d \in Dispatchers, c \in Commands :
          ClaimDueHumanCommands(d, c) \/ ReconcileConfirmedFollowUps(d, c) \/ RepairCancelledClaims(d, c)
    \/ \E d \in Dispatchers : Dispatch(d) \/ DispatcherStops(d)
    \/ \E c \in Commands : ReconcileExpiredPermits(c) \/ LeaseRunsOut(c)
    \/ FollowUpJob \/ FollowUpWorkerStops
    \/ Handover \/ CustomerReplies \/ ConsentChanges \/ WindowCloses \/ RecoveryCloses \/ WrapperChanges

\* The poll runs every three seconds and a claimed command is processed.
FuFairness ==
    /\ \A d \in Dispatchers : WF_fuVars(Dispatch(d))
    /\ \A c \in Commands : SF_fuVars(\E d \in Dispatchers : ReconcileConfirmedFollowUps(d, c))
    /\ \A c \in Commands : SF_fuVars(\E d \in Dispatchers : RepairCancelledClaims(d, c))

FuSpec == FuInit /\ [][FuNext]_fuVars /\ FuFairness

-----------------------------------------------------------------------------
(* Properties.                                                             *)

\* One follow-up: of the scheduled job and the merchant's template commands
\* at most one reaches WhatsApp, and it once; a command never does twice,
\* whatever leases run out, workers stop or claims are repaired.
OneFollowUp ==
    /\ \A c \in Commands : onWire[c] <= 1
    /\ Cardinality({c \in Commands : kindOf[c] = "template" /\ onWire[c] > 0}) + onWire["scheduled"] <= 1

\* A command that may be on its way to WhatsApp, or was accepted by it, is
\* the one the follow-up row names: no repair gives the row to somebody else.
PermitKeepsSlot ==
    \A c \in Commands : kindOf[c] = "template" /\ cmd[c].permit => slot.key = c /\ slot.message = c

\* A cancelled command does not keep the follow-up row: a stopped worker or a
\* credit not yet released only delays it until the poll repairs the claim.
CancelledClaimFreed ==
    []<>(\A c \in Commands : cmd[c].state = "CANCELLED" => ~OwnsSlot(c))

\* An accepted follow-up is charged and waits for its answer, even when the
\* worker stops before it charges or the credit was released meanwhile.
AcceptedFollowUpCharged ==
    []<>(capacity /\ (\E c \in Commands : cmd[c].state = "SENT" /\ kindOf[c] = "template")
           => fuCredit = "COMMITTED" /\ slot.status \in {"WAITING", "ENGAGED"})

\* The two senders of the follow-up never both send, and a permit keeps its slot (claimSequenceTwo, transition).
FollowUpSentOnce == OneFollowUp /\ PermitKeepsSlot
=============================================================================
