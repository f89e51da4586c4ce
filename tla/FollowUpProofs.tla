--------------------------- MODULE FollowUpProofs ---------------------------
(***************************************************************************)
(* Proofs about the follow-up of a recovery: whatever leases run out,      *)
(* workers stop and claims are repaired, one sender reaches the customer   *)
(* and it reaches him once, because the row it took stays its own.         *)
(***************************************************************************)
EXTENDS FollowUps, FiniteSetTheorems, TLAPS

Claims == 0 .. MaxClaims
Revisions == 0 .. MaxUpsets
Sends == 0 .. 2

Speaker == [mode : {"AI", "HUMAN"}, revision : Revisions]
ConsentRow == [granted : BOOLEAN, revision : Revisions]
SlotRow == [status : {"NONE", "PENDING", "WAITING", "ENGAGED", "FAILED"}, key : Owners, message : Owners]
CmdRow == [state : CommandStates, lease : Claims, fresh : BOOLEAN, claims : Claims,
           revision : Revisions, permit : BOOLEAN, prepared : Sends]
DispRow == [pc : DispSteps, command : Owners, lease : Claims, consent : Revisions]
JobRow == [pc : JobSteps, revision : Revisions, consent : Revisions]

\* The provers treat records over intervals badly; only these facts about
\* the intervals matter.
LEMMA Ranges ==
    /\ Claims \subseteq Nat /\ Revisions \subseteq Nat /\ Sends = {0, 1, 2}
    /\ 0 \in Claims /\ 0 \in Revisions
    /\ \A n \in Nat : n <= MaxClaims => n \in Claims
    /\ \A n \in Nat : n <= MaxUpsets => n \in Revisions
    /\ MaxClaims \in Nat /\ MaxUpsets \in Nat
BY FollowUpAssumption DEF Claims, Revisions, Sends

\* FuTypeOK in these terms.
LEMMA Types ==
    FuTypeOK <=>
        /\ kindOf \in [Commands -> {"text", "template"}] /\ capacity \in BOOLEAN
        /\ control \in Speaker /\ closed \in BOOLEAN /\ inbound \in {"none", "open", "old"}
        /\ consent \in ConsentRow /\ first \in {"WAITING", "NO_RESPONSE", "ENGAGED"}
        /\ slot \in SlotRow /\ fuCredit \in {"NONE", "RESERVED", "RELEASED", "COMMITTED", "AMBIGUOUS"}
        /\ cmd \in [Commands -> CmdRow] /\ wrapper \in {1, 2} /\ upsets \in Revisions
        /\ disp \in [Dispatchers -> DispRow] /\ fuJob \in JobRow /\ onWire \in [Owners -> Sends]
<1>1. 1 .. 2 = {1, 2}
  OBVIOUS
<1>2. QED
  BY <1>1 DEF FuTypeOK, Speaker, ConsentRow, SlotRow, CmdRow, DispRow, JobRow, Claims, Revisions, Sends

-----------------------------------------------------------------------------
(* The inductive invariant.                                                *)

\* Every handover and every change of consent is one of the upsets.
RevisionsFine == control.revision <= upsets /\ consent.revision <= upsets

DispatchersFine == \A d \in Dispatchers : ~At(d, "idle") => Cmd(d) \in Commands

\* WhatsApp is called once for a permit, by the one dispatcher that got it.
WireFine ==
    /\ \A c \in Commands : onWire[c] > 0 => cmd[c].permit
    /\ \A d \in Dispatchers : At(d, "provider") => cmd[Cmd(d)].permit /\ onWire[Cmd(d)] = 0
    /\ \A d, e \in Dispatchers : At(d, "provider") /\ At(e, "provider") /\ Cmd(d) = Cmd(e) => d = e

\* From its claim to its end the scheduled job owns the row, and it keeps the
\* row once its message may be out.
JobFine ==
    /\ fuJob.pc \in {"credit", "send", "finalize"} \/ onWire["scheduled"] > 0 => slot.key = "scheduled"
    /\ fuJob.pc \in {"credit", "send"} => onWire["scheduled"] = 0
    /\ onWire["scheduled"] <= 1

CommandsOnce == \A c \in Commands : onWire[c] <= 1

FuInv ==
    /\ FuTypeOK /\ RevisionsFine
    /\ DispatchersFine /\ WireFine /\ PermitKeepsSlot /\ JobFine /\ CommandsOnce

-----------------------------------------------------------------------------
(* What the assignments of the model do to the rows.                       *)

LEMMA Keys == /\ NoKey \notin Commands /\ "scheduled" \notin Commands /\ NoKey # "scheduled"
              /\ Commands \subseteq Owners /\ NoKey \in Owners /\ "scheduled" \in Owners
BY FollowUpAssumption DEF Owners

LEMMA DispatcherMoves ==
    ASSUME disp \in [Dispatchers -> DispRow], NEW d \in Dispatchers
    PROVE  /\ \A pc \in DispSteps : Go(d, pc) =>
                 /\ disp' \in [Dispatchers -> DispRow]
                 /\ disp'[d].pc = pc /\ disp'[d].command = disp[d].command
           /\ Drop(d) => /\ disp' \in [Dispatchers -> DispRow]
                         /\ disp'[d].pc = "idle"
           /\ (Drop(d) \/ \E pc : Go(d, pc)) => \A e \in Dispatchers \ {d} : disp'[e] = disp[e]
<1>1. ASSUME NEW pc \in DispSteps, Go(d, pc)
      PROVE  /\ disp' \in [Dispatchers -> DispRow]
             /\ disp'[d].pc = pc /\ disp'[d].command = disp[d].command
  BY <1>1 DEF Go, DispRow
<1>2. ASSUME Drop(d)
      PROVE  /\ disp' \in [Dispatchers -> DispRow]
             /\ disp'[d].pc = "idle"
  <2>1. IdleDispatcher \in DispRow /\ IdleDispatcher.pc = "idle"
    BY Ranges, Keys DEF IdleDispatcher, DispRow, DispSteps
  <2>2. QED
    BY <1>2, <2>1 DEF Drop
<1>3. ASSUME Drop(d) \/ \E pc : Go(d, pc), NEW e \in Dispatchers \ {d} PROVE disp'[e] = disp[e]
  BY <1>3 DEF Drop, Go
<1>4. QED
  BY <1>1, <1>2, <1>3

LEMMA SlotMoves ==
    ASSUME slot \in SlotRow
    PROVE  /\ \A k \in Owners : Take(k) => slot' \in SlotRow /\ slot'.key = k /\ slot'.message = slot.message
           /\ FreeSlot => slot' \in SlotRow /\ slot'.key = NoKey /\ slot'.message = slot.message
<1>1. ASSUME NEW k \in Owners, Take(k) PROVE slot' \in SlotRow /\ slot'.key = k /\ slot'.message = slot.message
  BY <1>1 DEF Take, SlotRow
<1>2. ASSUME FreeSlot PROVE slot' \in SlotRow /\ slot'.key = NoKey /\ slot'.message = slot.message
  BY <1>2, Keys DEF FreeSlot, SlotRow
<1>3. QED
  BY <1>1, <1>2

LEMMA JobMoves ==
    ASSUME fuJob \in JobRow, NEW pc \in JobSteps, JobTo(pc)
    PROVE  fuJob' \in JobRow /\ fuJob'.pc = pc
BY DEF JobTo, JobRow
-----------------------------------------------------------------------------
(* The types.                                                              *)

LEMMA CmdTyped ==
    ASSUME FuTypeOK, [FuNext]_fuVars
    PROVE  cmd' \in [Commands -> CmdRow]
<1>0. cmd \in [Commands -> CmdRow] /\ wrapper \in {1, 2} /\ 0 \in Claims
  BY Types, Ranges
<1>1. ASSUME NEW d \in Dispatchers, NEW c \in Commands, ClaimDueHumanCommands(d, c)
      PROVE  cmd' \in [Commands -> CmdRow]
  <2>1. cmd[c].claims + 1 \in Claims
    BY <1>0, <1>1, Ranges DEF ClaimDueHumanCommands, Due, CmdRow
  <2> DEFINE r == [cmd[c] EXCEPT !.state = "CLAIMED", !.claims = @ + 1, !.lease = cmd[c].claims + 1,
                                 !.fresh = TRUE]
  <2> DEFINE n == cmd[c].claims + 1
  <2>2. r \in CmdRow
    <3>1. n \in Claims /\ cmd[c] \in CmdRow
      BY <1>0, <2>1
    <3> HIDE DEF n
    <3>2. [cmd[c] EXCEPT !.state = "CLAIMED", !.claims = n, !.lease = n, !.fresh = TRUE] \in CmdRow
      BY <3>1 DEF CmdRow, CommandStates
    <3>3. QED
      BY <3>2 DEF n
  <2>3. cmd' = [cmd EXCEPT ![c] = r]
    BY <1>1 DEF ClaimDueHumanCommands
  <2> HIDE DEF r
  <2>4. QED
    BY <1>0, <2>2, <2>3
<1>2. ASSUME NEW c \in Commands, ReconcileExpiredPermits(c) PROVE cmd' \in [Commands -> CmdRow]
  <2> DEFINE r == [cmd[c] EXCEPT !.state = "UNKNOWN", !.lease = 0]
  <2>1. r \in CmdRow
    BY <1>0 DEF CmdRow, CommandStates
  <2>2. cmd' = [cmd EXCEPT ![c] = r]
    BY <1>2 DEF ReconcileExpiredPermits
  <2> HIDE DEF r
  <2>3. QED
    BY <1>0, <2>1, <2>2
<1>9. ASSUME NEW c \in Commands, LeaseRunsOut(c) PROVE cmd' \in [Commands -> CmdRow]
  BY <1>0, <1>9 DEF LeaseRunsOut, CmdRow
<1>3. ASSUME NEW d \in Dispatchers, Freeze(d) PROVE cmd' \in [Commands -> CmdRow]
  BY <1>0, <1>3, Ranges DEF Freeze, CmdRow
<1>4. ASSUME NEW d \in Dispatchers, AdmitFinalSend(d) PROVE cmd' \in [Commands -> CmdRow]
  BY <1>0, <1>4 DEF AdmitFinalSend, CmdRow, CommandStates
<1>5. ASSUME NEW d \in Dispatchers,
             RecordProviderAccepted(d) \/ RecordDefinitiveFailure(d) \/ RecordProviderUnknown(d)
      PROVE  cmd' \in [Commands -> CmdRow]
  BY <1>0, <1>5, Ranges DEF RecordProviderAccepted, RecordDefinitiveFailure, RecordProviderUnknown,
     CmdRow, CommandStates
<1>6. ASSUME NEW d \in Dispatchers, Defer(d) \/ RejectTerminal(d) PROVE cmd' \in [Commands -> CmdRow]
  BY <1>0, <1>6, Ranges DEF Defer, RejectTerminal, CmdRow, CommandStates
<1>7. CASE UNCHANGED cmd
  BY <1>0, <1>7
<1>8. ASSUME NEW d \in Dispatchers, Dispatch(d) \/ DispatcherStops(d) PROVE cmd' \in [Commands -> CmdRow]
  BY <1>3, <1>4, <1>5, <1>6, <1>7, <1>8
     DEF Dispatch, Evaluate, ClaimMerchantFollowUp, AdmitAndRevalidate, RequireCurrentAllowance, CallProvider,
         OnDefinitiveProviderFailure, OnConfirmedProviderSend, MarkWaitingAfterConfirmedSend,
         ReleaseBeforePermit, VerifyRelease, DispatcherStops
<1>10. CASE FollowUpJob \/ FollowUpWorkerStops
  BY <1>7, <1>10
     DEF FollowUpJob, ProcessFollowUp, MarkNoResponseIfWaiting, ClaimSequenceTwo, AdmitFollowUp,
         SendFollowUp, FinalizeFollowUp, FollowUpWorkerStops
<1>11. CASE Handover \/ CustomerReplies \/ ConsentChanges \/ WindowCloses \/ RecoveryCloses \/ WrapperChanges
  BY <1>7, <1>11 DEF Handover, CustomerReplies, ConsentChanges, WindowCloses, RecoveryCloses, WrapperChanges
<1>12. QED
  BY <1>1, <1>2, <1>7, <1>8, <1>9, <1>10, <1>11
     DEF FuNext, fuVars, ReconcileConfirmedFollowUps, RepairCancelledClaims

LEMMA SlotTyped ==
    ASSUME FuTypeOK, DispatchersFine, [FuNext]_fuVars
    PROVE  slot' \in SlotRow
<1>0. slot \in SlotRow
  BY Types
<1>1. CASE FreeSlot \/ Take("scheduled")
  BY <1>0, <1>1, SlotMoves, Keys
<1>2. ASSUME NEW d \in Dispatchers, ClaimMerchantFollowUp(d) PROVE slot' \in SlotRow
  <2>1. Cmd(d) \in Owners
    BY <1>2, Keys DEF DispatchersFine, ClaimMerchantFollowUp, At
  <2>2. QED
    BY <1>0, <1>2, <2>1, SlotMoves DEF ClaimMerchantFollowUp
<1>3. ASSUME NEW d \in Dispatchers, AdmitFinalSend(d) PROVE slot' \in SlotRow
  <2>1. Cmd(d) \in Owners
    BY <1>3, Keys DEF DispatchersFine, AdmitFinalSend, At
  <2>2. QED
    BY <1>0, <1>3, <2>1 DEF AdmitFinalSend, SlotRow
<1>4. ASSUME NEW d \in Dispatchers, MarkWaitingAfterConfirmedSend(d) PROVE slot' \in SlotRow
  BY <1>0, <1>4 DEF MarkWaitingAfterConfirmedSend, SlotRow
<1>5. CASE SendFollowUp
  BY <1>0, <1>1, <1>5 DEF SendFollowUp, SlotRow
<1>6. CASE FinalizeFollowUp \/ CustomerReplies
  BY <1>0, <1>6, Keys DEF FinalizeFollowUp, CustomerReplies, SlotRow
<1>7. CASE UNCHANGED slot
  BY <1>0, <1>7
<1>8. ASSUME NEW d \in Dispatchers, Dispatch(d) \/ DispatcherStops(d) PROVE slot' \in SlotRow
  BY <1>1, <1>2, <1>3, <1>4, <1>7, <1>8
     DEF Dispatch, Evaluate, Freeze, AdmitAndRevalidate, RequireCurrentAllowance, CallProvider,
         RecordProviderAccepted, RecordDefinitiveFailure, RecordProviderUnknown,
         OnDefinitiveProviderFailure, OnConfirmedProviderSend, Defer, RejectTerminal, FreeWhenSafe,
         ReleaseBeforePermit, VerifyRelease, DispatcherStops
<1>9. CASE FollowUpJob \/ FollowUpWorkerStops
  BY <1>1, <1>5, <1>6, <1>7, <1>9
     DEF FollowUpJob, ProcessFollowUp, MarkNoResponseIfWaiting, ClaimSequenceTwo, AdmitFollowUp,
         FollowUpWorkerStops
<1>10. CASE Handover \/ ConsentChanges \/ WindowCloses \/ RecoveryCloses \/ WrapperChanges
  BY <1>7, <1>10 DEF Handover, ConsentChanges, WindowCloses, RecoveryCloses, WrapperChanges
<1>11. QED
  BY <1>6, <1>7, <1>8, <1>9, <1>10
     DEF FuNext, fuVars, ClaimDueHumanCommands, ReconcileExpiredPermits, ReconcileConfirmedFollowUps,
         RepairCancelledClaims, LeaseRunsOut

LEMMA DispTyped ==
    ASSUME FuTypeOK, [FuNext]_fuVars
    PROVE  disp' \in [Dispatchers -> DispRow]
<1>0. /\ disp \in [Dispatchers -> DispRow] /\ cmd \in [Commands -> CmdRow] /\ consent \in ConsentRow
      /\ 0 \in Claims /\ 0 \in Revisions
  BY Types, Ranges
<1>1. ASSUME NEW d \in Dispatchers, NEW c \in Commands, ClaimDueHumanCommands(d, c)
      PROVE  disp' \in [Dispatchers -> DispRow]
  <2>1. cmd[c].claims + 1 \in Claims
    BY <1>0, <1>1, Ranges DEF ClaimDueHumanCommands, Due, CmdRow
  <2>2. [pc |-> "evaluate", command |-> c, lease |-> cmd[c].claims + 1, consent |-> 0] \in DispRow
    BY <1>0, <2>1, Keys DEF DispRow, DispSteps
  <2>3. QED
    BY <1>0, <1>1, <2>2 DEF ClaimDueHumanCommands
<1>2. ASSUME NEW d \in Dispatchers, NEW c \in Commands,
             ReconcileConfirmedFollowUps(d, c) \/ RepairCancelledClaims(d, c)
      PROVE  disp' \in [Dispatchers -> DispRow]
  <2>1. \A pc \in {"recharge", "verify"} :
           [pc |-> pc, command |-> c, lease |-> 0, consent |-> 0] \in DispRow
    BY <1>0, Keys DEF DispRow, DispSteps
  <2>2. QED
    BY <1>0, <1>2, <2>1 DEF ReconcileConfirmedFollowUps, RepairCancelledClaims
<1>3. ASSUME NEW d \in Dispatchers, Drop(d) \/ \E pc \in DispSteps : Go(d, pc)
      PROVE  disp' \in [Dispatchers -> DispRow]
  BY <1>0, <1>3, DispatcherMoves
<1>4. ASSUME NEW d \in Dispatchers, disp' = [disp EXCEPT ![d].pc = "claim", ![d].consent = consent.revision]
      PROVE  disp' \in [Dispatchers -> DispRow]
  <2>1. [disp[d] EXCEPT !.pc = "claim", !.consent = consent.revision] \in DispRow
    BY <1>0 DEF DispRow, DispSteps, ConsentRow
  <2>2. disp' = [disp EXCEPT ![d] = [disp[d] EXCEPT !.pc = "claim", !.consent = consent.revision]]
    BY <1>4
  <2>3. QED
    BY <1>0, <2>1, <2>2
<1>5. ASSUME NEW d \in Dispatchers, Dispatch(d) \/ DispatcherStops(d)
      PROVE  \/ Drop(d) \/ \E pc \in DispSteps : Go(d, pc)
             \/ disp' = [disp EXCEPT ![d].pc = "claim", ![d].consent = consent.revision]
  <2>1. CASE Evaluate(d)
    BY <2>1 DEF Evaluate, DispSteps
  <2>2. CASE Freeze(d) \/ ClaimMerchantFollowUp(d) \/ AdmitAndRevalidate(d) \/ RequireCurrentAllowance(d)
    BY <2>2 DEF Freeze, ClaimMerchantFollowUp, AdmitAndRevalidate, RequireCurrentAllowance, DispSteps
  <2>3. CASE AdmitFinalSend(d) \/ CallProvider(d) \/ RecordProviderAccepted(d) \/ RecordDefinitiveFailure(d)
    BY <2>3 DEF AdmitFinalSend, CallProvider, RecordProviderAccepted, RecordDefinitiveFailure, DispSteps
  <2>4. CASE \/ RecordProviderUnknown(d) \/ OnDefinitiveProviderFailure(d) \/ OnConfirmedProviderSend(d)
             \/ MarkWaitingAfterConfirmedSend(d) \/ Defer(d) \/ DispatcherStops(d)
    BY <2>4 DEF RecordProviderUnknown, OnDefinitiveProviderFailure, OnConfirmedProviderSend,
       MarkWaitingAfterConfirmedSend, Defer, DispatcherStops, DispSteps
  <2>5. CASE RejectTerminal(d) \/ ReleaseBeforePermit(d) \/ VerifyRelease(d)
    BY <2>5 DEF RejectTerminal, ReleaseBeforePermit, VerifyRelease, FreeWhenSafe, DispSteps
  <2>6. QED
    BY <1>5, <2>1, <2>2, <2>3, <2>4, <2>5 DEF Dispatch
<1>6. CASE UNCHANGED disp
  BY <1>0, <1>6
<1>7. CASE FollowUpJob \/ FollowUpWorkerStops
  BY <1>6, <1>7
     DEF FollowUpJob, ProcessFollowUp, MarkNoResponseIfWaiting, ClaimSequenceTwo, AdmitFollowUp, SendFollowUp,
         FinalizeFollowUp, FollowUpWorkerStops
<1>8. CASE Handover \/ CustomerReplies \/ ConsentChanges \/ WindowCloses \/ RecoveryCloses \/ WrapperChanges
  BY <1>6, <1>8 DEF Handover, CustomerReplies, ConsentChanges, WindowCloses, RecoveryCloses, WrapperChanges
<1>9. QED
  BY <1>1, <1>2, <1>3, <1>4, <1>5, <1>6, <1>7, <1>8
     DEF FuNext, fuVars, ReconcileExpiredPermits, LeaseRunsOut

LEMMA JobTyped ==
    ASSUME FuTypeOK, [FuNext]_fuVars
    PROVE  fuJob' \in JobRow
<1>0. fuJob \in JobRow /\ consent \in ConsentRow /\ control \in Speaker
  BY Types
<1>1. \A pc \in JobSteps : JobTo(pc) => fuJob' \in JobRow
  BY <1>0, JobMoves
<1>2. CASE ProcessFollowUp
  BY <1>0, <1>1, <1>2 DEF ProcessFollowUp, JobRow, JobSteps, ConsentRow, Speaker
<1>3. CASE MarkNoResponseIfWaiting \/ ClaimSequenceTwo \/ AdmitFollowUp \/ SendFollowUp \/ FinalizeFollowUp
           \/ FollowUpWorkerStops
  BY <1>1, <1>3 DEF MarkNoResponseIfWaiting, ClaimSequenceTwo, AdmitFollowUp, SendFollowUp,
     FinalizeFollowUp, FollowUpWorkerStops, JobSteps
<1>4. CASE UNCHANGED fuJob
  BY <1>0, <1>4
<1>5. ASSUME NEW d \in Dispatchers, Dispatch(d) \/ DispatcherStops(d) PROVE UNCHANGED fuJob
  BY <1>5
     DEF Dispatch, Evaluate, Freeze, ClaimMerchantFollowUp, AdmitAndRevalidate, RequireCurrentAllowance,
         AdmitFinalSend, CallProvider, RecordProviderAccepted, RecordDefinitiveFailure, RecordProviderUnknown,
         OnDefinitiveProviderFailure, OnConfirmedProviderSend, MarkWaitingAfterConfirmedSend, Defer,
         RejectTerminal, ReleaseBeforePermit, VerifyRelease, DispatcherStops
<1>6. ASSUME Handover \/ CustomerReplies \/ ConsentChanges \/ WindowCloses \/ RecoveryCloses \/ WrapperChanges
      PROVE  UNCHANGED fuJob
  BY <1>6 DEF Handover, CustomerReplies, ConsentChanges, WindowCloses, RecoveryCloses, WrapperChanges
<1>7. QED
  BY <1>2, <1>3, <1>4, <1>5, <1>6
     DEF FuNext, fuVars, FollowUpJob, ClaimDueHumanCommands, ReconcileExpiredPermits,
         ReconcileConfirmedFollowUps, RepairCancelledClaims, LeaseRunsOut

\* What only the surroundings and the replies change.
LEMMA SurroundingsTyped ==
    ASSUME FuTypeOK, RevisionsFine, [FuNext]_fuVars
    PROVE  /\ kindOf' = kindOf /\ capacity' = capacity
           /\ control' \in Speaker /\ closed' \in BOOLEAN /\ inbound' \in {"none", "open", "old"}
           /\ consent' \in ConsentRow /\ first' \in {"WAITING", "NO_RESPONSE", "ENGAGED"}
           /\ wrapper' \in {1, 2} /\ upsets' \in Revisions
           /\ RevisionsFine'
<1>0. /\ control \in Speaker /\ consent \in ConsentRow /\ upsets \in Revisions /\ upsets \in Nat
      /\ control.revision \in Nat /\ consent.revision \in Nat
      /\ closed \in BOOLEAN /\ inbound \in {"none", "open", "old"} /\ wrapper \in {1, 2}
      /\ first \in {"WAITING", "NO_RESPONSE", "ENGAGED"}
  BY Types, Ranges DEF Speaker, ConsentRow
<1>1. CASE Handover
  <2>1. control.revision + 1 \in Revisions /\ upsets' \in Revisions /\ upsets' = upsets + 1
    BY <1>0, <1>1, Ranges DEF Handover, Upset, RevisionsFine
  <2>2. control' \in Speaker /\ control'.revision = control.revision + 1
    BY <1>1, <2>1 DEF Handover, Speaker
  <2>3. QED
    BY <1>0, <1>1, <2>1, <2>2 DEF Handover, RevisionsFine
<1>2. CASE ConsentChanges
  <2>1. consent.revision + 1 \in Revisions /\ upsets' \in Revisions /\ upsets' = upsets + 1
    BY <1>0, <1>2, Ranges DEF ConsentChanges, Upset, RevisionsFine
  <2>2. consent' \in ConsentRow /\ consent'.revision = consent.revision + 1
    BY <1>2, <2>1 DEF ConsentChanges, ConsentRow
  <2>3. QED
    BY <1>0, <1>2, <2>1, <2>2 DEF ConsentChanges, RevisionsFine
<1>3. CASE \/ CustomerReplies \/ WindowCloses \/ RecoveryCloses \/ WrapperChanges \/ FollowUpWorkerStops
           \/ (\E c \in Commands : LeaseRunsOut(c)) \/ (\E d \in Dispatchers : DispatcherStops(d))
  <2>1. upsets' \in Revisions /\ upsets' = upsets + 1
    BY <1>0, <1>3, Ranges DEF CustomerReplies, WindowCloses, RecoveryCloses, WrapperChanges,
       FollowUpWorkerStops, LeaseRunsOut, DispatcherStops, Upset
  <2>2. UNCHANGED <<kindOf, capacity, control, consent>>
    BY <1>3 DEF CustomerReplies, WindowCloses, RecoveryCloses, WrapperChanges, FollowUpWorkerStops,
       LeaseRunsOut, DispatcherStops, around
  <2>3. /\ closed' \in BOOLEAN /\ inbound' \in {"none", "open", "old"} /\ wrapper' \in {1, 2}
        /\ first' \in {"WAITING", "NO_RESPONSE", "ENGAGED"}
    BY <1>0, <1>3 DEF CustomerReplies, WindowCloses, RecoveryCloses, WrapperChanges,
       FollowUpWorkerStops, LeaseRunsOut, DispatcherStops, around
  <2>4. QED
    BY <1>0, <2>1, <2>2, <2>3 DEF RevisionsFine
<1>4. CASE FollowUpJob
  BY <1>0, <1>4 DEF FollowUpJob, ProcessFollowUp, MarkNoResponseIfWaiting, ClaimSequenceTwo,
     AdmitFollowUp, SendFollowUp, FinalizeFollowUp, around, RevisionsFine
<1>5. CASE UNCHANGED <<around, first, wrapper, upsets>>
  BY <1>0, <1>5 DEF around, RevisionsFine
<1>6. ASSUME NEW d \in Dispatchers, Dispatch(d) PROVE UNCHANGED <<around, first, wrapper, upsets>>
  BY <1>6
     DEF Dispatch, Evaluate, Freeze, ClaimMerchantFollowUp, AdmitAndRevalidate, RequireCurrentAllowance,
         AdmitFinalSend, CallProvider, RecordProviderAccepted, RecordDefinitiveFailure, RecordProviderUnknown,
         OnDefinitiveProviderFailure, OnConfirmedProviderSend, MarkWaitingAfterConfirmedSend, Defer,
         RejectTerminal, ReleaseBeforePermit, VerifyRelease, around
<1>7. QED
  BY <1>1, <1>2, <1>3, <1>4, <1>5, <1>6
     DEF FuNext, fuVars, around, ClaimDueHumanCommands, ReconcileExpiredPermits, ReconcileConfirmedFollowUps,
         RepairCancelledClaims

LEMMA CreditTyped ==
    ASSUME FuTypeOK, [FuNext]_fuVars
    PROVE  fuCredit' \in {"NONE", "RESERVED", "RELEASED", "COMMITTED", "AMBIGUOUS"}
<1>0. fuCredit \in {"NONE", "RESERVED", "RELEASED", "COMMITTED", "AMBIGUOUS"}
  BY Types
<1>1. CASE \E d \in Dispatchers : \/ AdmitAndRevalidate(d) \/ RequireCurrentAllowance(d)
                                  \/ OnDefinitiveProviderFailure(d) \/ OnConfirmedProviderSend(d)
                                  \/ ReleaseBeforePermit(d)
  BY <1>0, <1>1 DEF AdmitAndRevalidate, RequireCurrentAllowance, OnDefinitiveProviderFailure,
     OnConfirmedProviderSend, ReleaseBeforePermit, Admitted, Released
<1>2. CASE AdmitFollowUp \/ SendFollowUp \/ FinalizeFollowUp
  BY <1>0, <1>2 DEF AdmitFollowUp, SendFollowUp, FinalizeFollowUp, Admitted, Released
<1>3. CASE UNCHANGED fuCredit
  BY <1>0, <1>3
<1>4. ASSUME NEW d \in Dispatchers, Dispatch(d) \/ DispatcherStops(d)
      PROVE  fuCredit' \in {"NONE", "RESERVED", "RELEASED", "COMMITTED", "AMBIGUOUS"}
  BY <1>1, <1>3, <1>4
     DEF Dispatch, Evaluate, Freeze, ClaimMerchantFollowUp, AdmitFinalSend, CallProvider,
         RecordProviderAccepted, RecordDefinitiveFailure, RecordProviderUnknown,
         MarkWaitingAfterConfirmedSend, Defer, RejectTerminal, VerifyRelease, DispatcherStops
<1>5. CASE FollowUpJob \/ FollowUpWorkerStops
  BY <1>2, <1>3, <1>5
     DEF FollowUpJob, ProcessFollowUp, MarkNoResponseIfWaiting, ClaimSequenceTwo, FollowUpWorkerStops
<1>6. CASE Handover \/ CustomerReplies \/ ConsentChanges \/ WindowCloses \/ RecoveryCloses \/ WrapperChanges
  BY <1>3, <1>6 DEF Handover, CustomerReplies, ConsentChanges, WindowCloses, RecoveryCloses, WrapperChanges
<1>7. QED
  BY <1>3, <1>4, <1>5, <1>6
     DEF FuNext, fuVars, ClaimDueHumanCommands, ReconcileExpiredPermits, ReconcileConfirmedFollowUps,
         RepairCancelledClaims, LeaseRunsOut

-----------------------------------------------------------------------------
(* What a step does to the permits, the calls and the row.                 *)

PermitsKept == \A c \in Commands : cmd'[c].permit = cmd[c].permit
NoNewCall ==
    \A d \in Dispatchers :
        disp'[d].pc = "provider" => disp[d].pc = "provider" /\ disp'[d].command = disp[d].command

RowKept == slot'.key = slot.key /\ slot'.message = slot.message
RowTakenBy(k) == slot.key = NoKey /\ slot'.key = k /\ slot'.message = slot.message
RowFreed == slot.key \in Commands /\ slot.message = NoKey /\ slot'.key = NoKey /\ slot'.message = slot.message

\* Every step but the permit, the call and the steps of the scheduled job.
Quiet ==
    /\ PermitsKept /\ NoNewCall
    /\ UNCHANGED <<onWire, kindOf, fuJob>>
    /\ RowKept \/ RowFreed \/ \E k \in Commands : RowTakenBy(k)

LEMMA QuietKeeps ==
    ASSUME FuInv, Quiet
    PROVE  WireFine' /\ PermitKeepsSlot' /\ JobFine' /\ CommandsOnce'
<1>0. /\ WireFine /\ PermitKeepsSlot /\ JobFine /\ CommandsOnce /\ DispatchersFine
      /\ onWire' = onWire /\ kindOf' = kindOf /\ fuJob' = fuJob
  BY DEF FuInv, Quiet
<1>1. WireFine'
  <2>1. \A c \in Commands : onWire'[c] > 0 => cmd'[c].permit
    BY <1>0 DEF Quiet, PermitsKept, WireFine
  <2>2. ASSUME NEW d \in Dispatchers, disp'[d].pc = "provider"
        PROVE  cmd'[disp'[d].command].permit /\ onWire'[disp'[d].command] = 0
    <3>1. disp[d].pc = "provider" /\ disp'[d].command = disp[d].command
      BY <2>2 DEF Quiet, NoNewCall
    <3>2. disp[d].command \in Commands
      BY <1>0, <3>1 DEF DispatchersFine, At, Cmd
    <3>3. QED
      BY <1>0, <3>1, <3>2 DEF Quiet, PermitsKept, WireFine, At, Cmd
  <2>3. QED
    BY <1>0, <2>1, <2>2 DEF Quiet, NoNewCall, WireFine, At, Cmd
<1>2. PermitKeepsSlot'
  <2> SUFFICES ASSUME NEW c \in Commands, kindOf[c] = "template", cmd[c].permit
               PROVE  slot'.key = c /\ slot'.message = c
    BY <1>0 DEF Quiet, PermitsKept, PermitKeepsSlot
  <2>1. slot.key = c /\ slot.message = c
    BY <1>0 DEF PermitKeepsSlot
  <2>2. QED
    BY <2>1, Keys DEF Quiet, RowKept, RowFreed, RowTakenBy
<1>3. JobFine'
  BY <1>0, Keys DEF Quiet, RowKept, RowFreed, RowTakenBy, JobFine
<1>4. QED
  BY <1>0, <1>1, <1>2, <1>3 DEF CommandsOnce

\* A cancelled command gives back only a row that is its own and that no
\* permit names.
LEMMA FreedIsOwn ==
    ASSUME FuTypeOK, DispatchersFine, NEW d \in Dispatchers, ~At(d, "idle"), FreeWhenSafe(d)
    PROVE  /\ RowKept \/ RowFreed
           /\ NoNewCall
<1>0. slot \in SlotRow /\ disp \in [Dispatchers -> DispRow] /\ Cmd(d) \in Commands
  BY Types DEF DispatchersFine
<1>1. Drop(d) \/ Go(d, "release")
  BY DEF FreeWhenSafe
<1>2. NoNewCall
  BY <1>0, <1>1, DispatcherMoves DEF NoNewCall, DispSteps
<1>3. CASE FreeSlot /\ OwnsSlot(Cmd(d))
  BY <1>0, <1>2, <1>3, SlotMoves DEF OwnsSlot, RowFreed
<1>4. CASE UNCHANGED slot
  BY <1>2, <1>4 DEF RowKept
<1>5. QED
  BY <1>2, <1>3, <1>4 DEF FreeWhenSafe

LEMMA QuietDispatch ==
    ASSUME FuInv, NEW d \in Dispatchers, Dispatch(d), ~AdmitFinalSend(d), ~CallProvider(d)
    PROVE  Quiet
<1>0. /\ slot \in SlotRow /\ disp \in [Dispatchers -> DispRow] /\ cmd \in [Commands -> CmdRow]
      /\ FuTypeOK /\ DispatchersFine
  BY Types DEF FuInv
<1> DEFINE c == Cmd(d)
<1>1. ~At(d, "idle") /\ c \in Commands
  <2>1. ~At(d, "idle")
    BY DEF Dispatch, At, Evaluate, Freeze, ClaimMerchantFollowUp, AdmitAndRevalidate,
       RequireCurrentAllowance, RecordProviderAccepted, RecordDefinitiveFailure, RecordProviderUnknown,
       OnDefinitiveProviderFailure, OnConfirmedProviderSend, MarkWaitingAfterConfirmedSend, Defer,
       RejectTerminal, ReleaseBeforePermit, VerifyRelease
  <2>2. QED
    BY <1>0, <2>1 DEF DispatchersFine
<1>2. UNCHANGED <<onWire, kindOf, fuJob>>
  BY DEF Dispatch, around, Evaluate, Freeze, ClaimMerchantFollowUp, AdmitAndRevalidate,
     RequireCurrentAllowance, RecordProviderAccepted, RecordDefinitiveFailure, RecordProviderUnknown,
     OnDefinitiveProviderFailure, OnConfirmedProviderSend, MarkWaitingAfterConfirmedSend, Defer,
     RejectTerminal, ReleaseBeforePermit, VerifyRelease
<1>3. \A pc \in DispSteps \ {"provider"} : Drop(d) \/ Go(d, pc) => NoNewCall
  BY <1>0, DispatcherMoves DEF NoNewCall
<1>4. UNCHANGED cmd => PermitsKept
  BY DEF PermitsKept
<1>5. UNCHANGED slot => RowKept
  BY DEF RowKept
<1>6. CASE Evaluate(d)
  <2>1. CASE Go(d, "reject") \/ Go(d, "defer") \/ Go(d, "freeze")
    BY <1>2, <1>3, <1>4, <1>5, <1>6, <2>1 DEF Evaluate, Quiet, DispSteps
  <2>2. CASE disp' = [disp EXCEPT ![d].pc = "claim", ![d].consent = consent.revision]
    <3>1. NoNewCall
      BY <1>0, <2>2 DEF NoNewCall, DispRow
    <3>2. QED
      BY <1>2, <1>4, <1>5, <1>6, <3>1 DEF Evaluate, Quiet
  <2>3. QED
    BY <1>6, <2>1, <2>2 DEF Evaluate
<1>7. CASE Freeze(d)
  <2>1. PermitsKept
    BY <1>0, <1>7 DEF Freeze, PermitsKept, CmdRow
  <2>2. QED
    BY <1>2, <1>3, <1>5, <1>7, <2>1 DEF Freeze, Quiet, DispSteps
<1>8. CASE ClaimMerchantFollowUp(d)
  <2>1. NoNewCall /\ UNCHANGED cmd
    BY <1>3, <1>8 DEF ClaimMerchantFollowUp, DispSteps
  <2>2. UNCHANGED slot \/ (SlotFree /\ Take(c))
    BY <1>8 DEF ClaimMerchantFollowUp
  <2>3. SlotFree /\ Take(c) => RowTakenBy(c)
    BY <1>0, <1>1, SlotMoves, Keys DEF SlotFree, RowTakenBy
  <2>4. QED
    BY <1>1, <1>2, <1>4, <1>5, <2>1, <2>2, <2>3 DEF Quiet
<1>9. CASE AdmitAndRevalidate(d) \/ RequireCurrentAllowance(d)
  BY <1>2, <1>3, <1>4, <1>5, <1>9 DEF AdmitAndRevalidate, RequireCurrentAllowance, Quiet, DispSteps
<1>10. CASE RecordProviderAccepted(d) \/ RecordDefinitiveFailure(d) \/ RecordProviderUnknown(d) \/ Defer(d)
  <2>1. PermitsKept
    BY <1>0, <1>10 DEF RecordProviderAccepted, RecordDefinitiveFailure, RecordProviderUnknown, Defer,
       PermitsKept, CmdRow
  <2>2. NoNewCall /\ UNCHANGED slot
    BY <1>3, <1>10 DEF RecordProviderAccepted, RecordDefinitiveFailure, RecordProviderUnknown, Defer,
       DispSteps
  <2>3. QED
    BY <1>2, <1>5, <2>1, <2>2 DEF Quiet
<1>11. CASE OnDefinitiveProviderFailure(d) \/ OnConfirmedProviderSend(d) \/ ReleaseBeforePermit(d)
  BY <1>2, <1>3, <1>4, <1>5, <1>11 DEF OnDefinitiveProviderFailure, OnConfirmedProviderSend,
     ReleaseBeforePermit, Quiet, DispSteps
<1>12. CASE MarkWaitingAfterConfirmedSend(d)
  <2>1. RowKept
    BY <1>0, <1>12 DEF MarkWaitingAfterConfirmedSend, RowKept, SlotRow
  <2>2. QED
    BY <1>2, <1>3, <1>4, <1>12, <2>1 DEF MarkWaitingAfterConfirmedSend, Quiet, DispSteps
<1>13. CASE RejectTerminal(d)
  <2>1. PermitsKept
    BY <1>0, <1>13 DEF RejectTerminal, PermitsKept, CmdRow
  <2>2. NoNewCall /\ (RowKept \/ RowFreed)
    BY <1>0, <1>1, <1>3, <1>5, <1>13, FreedIsOwn DEF RejectTerminal, DispSteps
  <2>3. QED
    BY <1>2, <2>1, <2>2 DEF Quiet
<1>14. CASE VerifyRelease(d)
  <2>1. NoNewCall /\ (RowKept \/ RowFreed)
    BY <1>0, <1>1, <1>3, <1>5, <1>14, FreedIsOwn DEF VerifyRelease, DispSteps
  <2>2. QED
    BY <1>2, <1>4, <1>14, <2>1 DEF VerifyRelease, Quiet
<1>15. QED
  BY <1>6, <1>7, <1>8, <1>9, <1>10, <1>11, <1>12, <1>13, <1>14 DEF Dispatch

LEMMA QuietSurroundings ==
    ASSUME FuInv,
           \/ \E d \in Dispatchers, c \in Commands :
                 ClaimDueHumanCommands(d, c) \/ ReconcileConfirmedFollowUps(d, c) \/ RepairCancelledClaims(d, c)
           \/ \E d \in Dispatchers : DispatcherStops(d)
           \/ \E c \in Commands : ReconcileExpiredPermits(c) \/ LeaseRunsOut(c)
           \/ Handover \/ CustomerReplies \/ ConsentChanges \/ WindowCloses \/ RecoveryCloses \/ WrapperChanges
           \/ UNCHANGED fuVars
    PROVE  Quiet
<1>0. /\ slot \in SlotRow /\ disp \in [Dispatchers -> DispRow] /\ cmd \in [Commands -> CmdRow]
  BY Types DEF FuInv
<1>1. UNCHANGED <<onWire, kindOf, fuJob>>
  BY DEF fuVars, around, ClaimDueHumanCommands, ReconcileConfirmedFollowUps, RepairCancelledClaims,
     DispatcherStops, ReconcileExpiredPermits, LeaseRunsOut, Handover, CustomerReplies, ConsentChanges,
     WindowCloses, RecoveryCloses, WrapperChanges
<1>2. PermitsKept
  <2>1. CASE UNCHANGED cmd
    BY <2>1 DEF PermitsKept
  <2>2. ASSUME NEW d \in Dispatchers, NEW c \in Commands, ClaimDueHumanCommands(d, c)
        PROVE  PermitsKept
    <3> DEFINE r == [cmd[c] EXCEPT !.state = "CLAIMED", !.claims = @ + 1, !.lease = cmd[c].claims + 1,
                                   !.fresh = TRUE]
    <3>1. cmd' = [cmd EXCEPT ![c] = r]
      BY <2>2 DEF ClaimDueHumanCommands
    <3>2. cmd[c] \in CmdRow
      BY <1>0
    <3>3. r.permit = cmd[c].permit
      BY <3>2 DEF CmdRow
    <3> HIDE DEF r
    <3>4. QED
      BY <1>0, <3>1, <3>3 DEF PermitsKept
  <2>3. CASE \E c \in Commands : ReconcileExpiredPermits(c) \/ LeaseRunsOut(c)
    BY <1>0, <2>3 DEF ReconcileExpiredPermits, LeaseRunsOut, PermitsKept, CmdRow
  <2>4. QED
    BY <2>1, <2>2, <2>3 DEF fuVars, ReconcileConfirmedFollowUps, RepairCancelledClaims,
       DispatcherStops, Handover, CustomerReplies, ConsentChanges, WindowCloses, RecoveryCloses,
       WrapperChanges
<1>3. NoNewCall
  <2>1. CASE UNCHANGED disp
    BY <2>1 DEF NoNewCall
  <2>3. ASSUME NEW d \in Dispatchers, NEW c \in Commands,
               ClaimDueHumanCommands(d, c) \/ ReconcileConfirmedFollowUps(d, c) \/ RepairCancelledClaims(d, c)
        PROVE  NoNewCall
    <3>1. PICK pc \in {"evaluate", "recharge", "verify"}, lease \in {0, cmd[c].claims + 1} :
            disp' = [disp EXCEPT ![d] = [pc |-> pc, command |-> c, lease |-> lease, consent |-> 0]]
      BY <2>3 DEF ClaimDueHumanCommands, ReconcileConfirmedFollowUps, RepairCancelledClaims
    <3>2. disp'[d].pc # "provider" /\ \A e \in Dispatchers \ {d} : disp'[e] = disp[e]
      BY <1>0, <3>1
    <3>3. QED
      BY <3>2 DEF NoNewCall
  <2>4. CASE \E d \in Dispatchers : DispatcherStops(d)
    BY <1>0, <2>4, DispatcherMoves DEF DispatcherStops, NoNewCall
  <2>5. QED
    BY <2>1, <2>3, <2>4 DEF fuVars, ReconcileExpiredPermits, LeaseRunsOut, Handover, CustomerReplies,
       ConsentChanges, WindowCloses, RecoveryCloses, WrapperChanges
<1>4. RowKept
  <2>1. CASE UNCHANGED slot
    BY <2>1 DEF RowKept
  <2>2. CASE CustomerReplies
    BY <1>0, <2>2 DEF CustomerReplies, RowKept, SlotRow
  <2>3. QED
    BY <2>1, <2>2 DEF fuVars, ClaimDueHumanCommands, ReconcileConfirmedFollowUps, RepairCancelledClaims,
       DispatcherStops, ReconcileExpiredPermits, LeaseRunsOut, Handover, ConsentChanges, WindowCloses,
       RecoveryCloses, WrapperChanges
<1>5. QED
  BY <1>1, <1>2, <1>3, <1>4 DEF Quiet

-----------------------------------------------------------------------------
(* The permit, the call and the scheduled job.                             *)

Kept == WireFine' /\ PermitKeepsSlot' /\ JobFine' /\ CommandsOnce'

\* The fence lets a template command through only with the row: whoever was
\* permitted before would still own it.
LEMMA PermitKeeps ==
    ASSUME FuInv, NEW d \in Dispatchers, AdmitFinalSend(d)
    PROVE  Kept
<1>0. /\ slot \in SlotRow /\ disp \in [Dispatchers -> DispRow] /\ cmd \in [Commands -> CmdRow]
      /\ onWire \in [Owners -> Sends]
      /\ WireFine /\ PermitKeepsSlot /\ JobFine /\ CommandsOnce /\ DispatchersFine
      /\ onWire' = onWire /\ kindOf' = kindOf /\ fuJob' = fuJob /\ At(d, "permit")
  BY Types DEF FuInv, AdmitFinalSend, around
<1> DEFINE c == Cmd(d)
<1>1. c \in Commands
  BY <1>0 DEF DispatchersFine, At
<1>2. CASE Go(d, "reject") /\ UNCHANGED <<cmd, slot>>
  <2>1. NoNewCall
    BY <1>0, <1>2, DispatcherMoves DEF NoNewCall, DispSteps
  <2>2. Quiet
    BY <1>0, <1>2, <2>1 DEF Quiet, PermitsKept, RowKept
  <2>3. QED
    BY <2>2, QuietKeeps DEF Kept
<1>3. CASE ~(Go(d, "reject") /\ UNCHANGED <<cmd, slot>>)
  <2>1. /\ FenceAdmits(c, disp[d].lease, disp[d].consent)
        /\ cmd' = [cmd EXCEPT ![c].state = "DISPATCH_ADMITTED", ![c].permit = TRUE]
        /\ slot' = IF kindOf[c] = "template" THEN [slot EXCEPT !.message = c] ELSE slot
        /\ Go(d, "provider")
    BY <1>3 DEF AdmitFinalSend
  <2>2. ~cmd[c].permit
    BY <2>1 DEF FenceAdmits, LeaseHeld
  <2>3. cmd'[c].permit /\ \A b \in Commands \ {c} : cmd'[b] = cmd[b]
    BY <1>0, <1>1, <2>1 DEF CmdRow
  <2>4. /\ disp'[d].pc = "provider" /\ disp'[d].command = c
        /\ \A e \in Dispatchers \ {d} : disp'[e] = disp[e]
    BY <1>0, <2>1, DispatcherMoves DEF DispSteps, Cmd
  <2>5. onWire[c] = 0
    BY <1>0, <1>1, <2>2, Keys, Ranges DEF WireFine
  <2>6. \A e \in Dispatchers \ {d} : disp[e].pc = "provider" => disp[e].command # c
    BY <1>0, <2>2 DEF WireFine, At, Cmd
  <2>7. WireFine'
    <3>1. \A b \in Commands : onWire'[b] > 0 => cmd'[b].permit
      BY <1>0, <2>3 DEF WireFine
    <3>2. ASSUME NEW e \in Dispatchers, disp'[e].pc = "provider"
          PROVE  cmd'[disp'[e].command].permit /\ onWire'[disp'[e].command] = 0
      <4>1. CASE e = d
        BY <1>0, <2>3, <2>4, <2>5, <4>1
      <4>2. CASE e # d
        <5>1. disp'[e] = disp[e] /\ disp[e].pc = "provider" /\ disp[e].command \in Commands
          BY <1>0, <2>4, <3>2, <4>2 DEF DispatchersFine, At, Cmd
        <5>2. cmd[disp[e].command].permit /\ onWire[disp[e].command] = 0 /\ disp[e].command # c
          BY <1>0, <2>6, <4>2, <5>1 DEF WireFine, At, Cmd
        <5>3. QED
          BY <1>0, <2>3, <5>1, <5>2
      <4>3. QED
        BY <4>1, <4>2
    <3>3. \A e, f \in Dispatchers : disp'[e].pc = "provider" /\ disp'[f].pc = "provider"
                                      /\ disp'[e].command = disp'[f].command => e = f
      BY <1>0, <2>4, <2>6 DEF WireFine, At, Cmd
    <3>4. QED
      BY <3>1, <3>2, <3>3 DEF WireFine, At, Cmd
  <2>8. PermitKeepsSlot' /\ slot'.key = slot.key
    <3>1. CASE kindOf[c] = "template"
      <4>1. slot.key = c /\ slot.message = NoKey
        BY <2>1, <3>1 DEF FenceAdmits, OwnsSlot
      <4>2. slot'.key = c /\ slot'.message = c
        BY <1>0, <1>1, <2>1, <3>1, <4>1 DEF SlotRow
      <4>3. \A b \in Commands : kindOf[b] = "template" /\ cmd[b].permit => b = c
        BY <1>0, <4>1 DEF PermitKeepsSlot
      <4>4. QED
        BY <1>0, <2>3, <4>1, <4>2, <4>3 DEF PermitKeepsSlot
    <3>2. CASE kindOf[c] # "template"
      BY <1>0, <2>1, <2>3, <3>2 DEF PermitKeepsSlot
    <3>3. QED
      BY <3>1, <3>2
  <2>9. QED
    BY <1>0, <2>7, <2>8 DEF Kept, JobFine, CommandsOnce
<1>4. QED
  BY <1>2, <1>3

LEMMA CallKeeps ==
    ASSUME FuInv, NEW d \in Dispatchers, CallProvider(d)
    PROVE  Kept /\ onWire' \in [Owners -> Sends]
<1>0. /\ disp \in [Dispatchers -> DispRow] /\ onWire \in [Owners -> Sends]
      /\ WireFine /\ PermitKeepsSlot /\ JobFine /\ CommandsOnce /\ DispatchersFine
      /\ UNCHANGED <<cmd, slot, kindOf, fuJob>> /\ At(d, "provider")
  BY Types DEF FuInv, CallProvider, around
<1> DEFINE c == Cmd(d)
<1>1. c \in Commands /\ c \in Owners /\ c # "scheduled" /\ cmd[c].permit /\ onWire[c] = 0
  BY <1>0, Keys DEF DispatchersFine, At, WireFine
<1>2. /\ disp'[d].pc # "provider"
      /\ \A e \in Dispatchers \ {d} : disp'[e] = disp[e]
  BY <1>0, DispatcherMoves DEF CallProvider, DispSteps
<1>3. /\ onWire' \in [Owners -> Sends]
      /\ onWire'[c] \in {0, 1}
      /\ \A k \in Owners \ {c} : onWire'[k] = onWire[k]
  <2>1. onWire' = onWire \/ onWire' = [onWire EXCEPT ![c] = onWire[c] + 1]
    BY DEF CallProvider
  <2>2. QED
    BY <1>0, <1>1, <2>1, Ranges
<1>4. WireFine'
  <2>1. \A b \in Commands : onWire'[b] > 0 => cmd'[b].permit
    BY <1>0, <1>1, <1>3, Keys DEF WireFine
  <2>2. ASSUME NEW e \in Dispatchers, disp'[e].pc = "provider"
        PROVE  disp'[e] = disp[e] /\ cmd'[disp'[e].command].permit /\ onWire'[disp'[e].command] = 0
    <3>1. e # d /\ disp'[e] = disp[e] /\ disp[e].command \in Owners
      BY <1>0, <1>2, <2>2, Keys DEF DispatchersFine, At, Cmd
    <3>2. disp[e].command # c
      BY <1>0, <2>2, <3>1 DEF WireFine, At, Cmd
    <3>3. QED
      BY <1>0, <1>3, <2>2, <3>1, <3>2 DEF WireFine, At, Cmd
  <2>3. QED
    BY <1>0, <2>1, <2>2 DEF WireFine, At, Cmd
<1>5. JobFine' /\ CommandsOnce'
  BY <1>0, <1>1, <1>3, Keys DEF JobFine, CommandsOnce
<1>6. QED
  BY <1>0, <1>3, <1>4, <1>5 DEF Kept, PermitKeepsSlot

\* Only the job that owns the row gives it back or sends for it.
LEMMA JobKeeps ==
    ASSUME FuInv, FollowUpJob \/ FollowUpWorkerStops
    PROVE  Kept /\ onWire' \in [Owners -> Sends]
<1>0. /\ slot \in SlotRow /\ fuJob \in JobRow /\ onWire \in [Owners -> Sends]
      /\ WireFine /\ PermitKeepsSlot /\ JobFine /\ CommandsOnce /\ DispatchersFine
      /\ UNCHANGED <<cmd, disp, kindOf>>
  BY Types DEF FuInv, FollowUpJob, FollowUpWorkerStops, ProcessFollowUp, MarkNoResponseIfWaiting,
     ClaimSequenceTwo, AdmitFollowUp, SendFollowUp, FinalizeFollowUp, around
<1>1. /\ onWire' \in [Owners -> Sends]
      /\ \A k \in Owners \ {"scheduled"} : onWire'[k] = onWire[k]
      /\ onWire'["scheduled"] \in {onWire["scheduled"], onWire["scheduled"] + 1}
      /\ onWire'["scheduled"] # onWire["scheduled"] => fuJob.pc = "send"
  <2>1. \/ onWire' = onWire
        \/ fuJob.pc = "send" /\ onWire' = [onWire EXCEPT !["scheduled"] = onWire["scheduled"] + 1]
    BY DEF FollowUpJob, FollowUpWorkerStops, ProcessFollowUp, MarkNoResponseIfWaiting,
       ClaimSequenceTwo, AdmitFollowUp, SendFollowUp, FinalizeFollowUp
  <2>2. fuJob.pc = "send" => onWire["scheduled"] = 0
    BY <1>0 DEF JobFine
  <2>3. QED
    BY <1>0, <2>1, <2>2, Keys, Ranges
<1>2. WireFine' /\ CommandsOnce'
  <2>1. \A c \in Commands : onWire'[c] = onWire[c]
    BY <1>1, Keys
  <2>2. QED
    BY <1>0, <2>1 DEF WireFine, CommandsOnce, DispatchersFine, At, Cmd
<1>3. (slot'.key = slot.key /\ slot'.message = slot.message) \/ slot.key \in {NoKey, "scheduled"}
  <2>1. CASE SendFollowUp
    BY <1>0, <2>1 DEF SendFollowUp, JobFine
  <2>2. CASE AdmitFollowUp \/ FinalizeFollowUp
    BY <1>0, <2>2 DEF AdmitFollowUp, FinalizeFollowUp, JobFine
  <2>3. CASE ClaimSequenceTwo
    BY <1>0, <2>3 DEF ClaimSequenceTwo, SlotFree
  <2>4. QED
    BY <2>1, <2>2, <2>3 DEF FollowUpJob, FollowUpWorkerStops, ProcessFollowUp, MarkNoResponseIfWaiting
<1>4. PermitKeepsSlot'
  BY <1>0, <1>3, Keys DEF PermitKeepsSlot
<1>5. JobFine'
  <2>1. CASE ProcessFollowUp \/ MarkNoResponseIfWaiting \/ FollowUpWorkerStops
    <3>1. fuJob'.pc \in {"noResponse", "done", "claim", "delayed"}
      BY <1>0, <2>1 DEF ProcessFollowUp, MarkNoResponseIfWaiting, FollowUpWorkerStops, JobTo, JobRow
    <3>2. UNCHANGED <<slot, onWire>>
      BY <2>1 DEF ProcessFollowUp, MarkNoResponseIfWaiting, FollowUpWorkerStops
    <3>3. QED
      BY <1>0, <3>1, <3>2 DEF JobFine
  <2>2. CASE ClaimSequenceTwo
    <3>1. CASE SlotFree /\ Take("scheduled")
      <4>1. slot.key = NoKey /\ slot'.key = "scheduled" /\ onWire' = onWire
        BY <1>0, <2>2, <3>1, SlotMoves, Keys DEF SlotFree, ClaimSequenceTwo
      <4>2. onWire["scheduled"] = 0
        BY <1>0, <4>1, Keys, Ranges DEF JobFine
      <4>3. QED
        BY <4>1, <4>2 DEF JobFine
    <3>2. CASE JobTo("done") /\ UNCHANGED slot
      <4>1. fuJob'.pc = "done" /\ onWire' = onWire
        BY <1>0, <2>2, <3>2 DEF ClaimSequenceTwo, JobTo, JobRow
      <4>2. QED
        BY <1>0, <3>2, <4>1 DEF JobFine
    <3>3. QED
      BY <2>2, <3>1, <3>2 DEF ClaimSequenceTwo
  <2>3. CASE AdmitFollowUp
    <3>1. onWire' = onWire /\ onWire["scheduled"] = 0 /\ slot.key = "scheduled"
      BY <1>0, <2>3 DEF AdmitFollowUp, JobFine
    <3>2. (fuJob'.pc = "send" /\ slot' = slot) \/ fuJob'.pc = "done"
      BY <1>0, <2>3 DEF AdmitFollowUp, JobTo, JobRow
    <3>3. QED
      BY <3>1, <3>2 DEF JobFine
  <2>4. CASE SendFollowUp
    <3>1. onWire["scheduled"] = 0 /\ slot.key = "scheduled"
      BY <1>0, <2>4 DEF SendFollowUp, JobFine
    <3>2. fuJob'.pc \in {"done", "finalize"}
      BY <1>0, <2>4 DEF SendFollowUp, JobTo, JobRow
    <3>3. slot'.key = slot.key \/ (fuJob'.pc = "done" /\ onWire' = onWire)
      BY <1>0, <2>4 DEF SendFollowUp, JobTo, JobRow, SlotRow
    <3>4. onWire'["scheduled"] \in {0, 1}
      BY <1>1, <3>1
    <3>5. QED
      BY <3>1, <3>2, <3>3, <3>4 DEF JobFine
  <2>5. CASE FinalizeFollowUp
    <3>1. slot.key = "scheduled" /\ onWire' = onWire
      BY <1>0, <2>5 DEF FinalizeFollowUp, JobFine
    <3>2. fuJob'.pc = "done" /\ slot'.key = slot.key
      BY <1>0, <2>5 DEF FinalizeFollowUp, JobTo, JobRow, SlotRow
    <3>3. QED
      BY <1>0, <3>1, <3>2 DEF JobFine
  <2>6. QED
    BY <2>1, <2>2, <2>3, <2>4, <2>5 DEF FollowUpJob
<1>6. QED
  BY <1>1, <1>2, <1>4, <1>5 DEF Kept

-----------------------------------------------------------------------------
(* The invariant.                                                          *)

LEMMA DispatchersFineStep ==
    ASSUME FuInv, [FuNext]_fuVars
    PROVE  DispatchersFine'
<1>0. disp \in [Dispatchers -> DispRow] /\ DispatchersFine
  BY Types DEF FuInv
<1>1. ASSUME NEW d \in Dispatchers, NEW c \in Commands,
             ClaimDueHumanCommands(d, c) \/ ReconcileConfirmedFollowUps(d, c) \/ RepairCancelledClaims(d, c)
      PROVE  DispatchersFine'
  BY <1>0, <1>1 DEF ClaimDueHumanCommands, ReconcileConfirmedFollowUps, RepairCancelledClaims,
     DispatchersFine, At, Cmd
<1>2. ASSUME NEW d \in Dispatchers, Dispatch(d) \/ DispatcherStops(d)
      PROVE  DispatchersFine'
  <2>1. /\ disp'[d].pc = "idle" \/ (~At(d, "idle") /\ disp'[d].command = disp[d].command)
        /\ \A e \in Dispatchers \ {d} : disp'[e] = disp[e]
    <3>1. ASSUME ~At(d, "idle"), Drop(d) \/ \E pc \in DispSteps : Go(d, pc)
          PROVE  /\ disp'[d].pc = "idle" \/ (~At(d, "idle") /\ disp'[d].command = disp[d].command)
                 /\ \A e \in Dispatchers \ {d} : disp'[e] = disp[e]
      BY <1>0, <3>1, DispatcherMoves
    <3>2. CASE Evaluate(d)
      <4>1. CASE disp' = [disp EXCEPT ![d].pc = "claim", ![d].consent = consent.revision]
        BY <1>0, <3>2, <4>1 DEF Evaluate, At, DispRow
      <4>2. QED
        BY <3>1, <3>2, <4>1 DEF Evaluate, At, DispSteps
    <3>3. CASE Freeze(d) \/ ClaimMerchantFollowUp(d) \/ AdmitAndRevalidate(d) \/ RequireCurrentAllowance(d)
      BY <3>1, <3>3 DEF Freeze, ClaimMerchantFollowUp, AdmitAndRevalidate, RequireCurrentAllowance, At, DispSteps
    <3>4. CASE AdmitFinalSend(d) \/ CallProvider(d) \/ RecordProviderAccepted(d) \/ RecordDefinitiveFailure(d)
      BY <3>1, <3>4 DEF AdmitFinalSend, CallProvider, RecordProviderAccepted, RecordDefinitiveFailure, At, DispSteps
    <3>5. CASE \/ RecordProviderUnknown(d) \/ OnDefinitiveProviderFailure(d) \/ OnConfirmedProviderSend(d)
               \/ MarkWaitingAfterConfirmedSend(d) \/ Defer(d) \/ DispatcherStops(d)
      BY <3>1, <3>5 DEF RecordProviderUnknown, OnDefinitiveProviderFailure, OnConfirmedProviderSend,
         MarkWaitingAfterConfirmedSend, Defer, DispatcherStops, At, DispSteps
    <3>6. CASE RejectTerminal(d) \/ ReleaseBeforePermit(d) \/ VerifyRelease(d)
      BY <3>1, <3>6 DEF RejectTerminal, ReleaseBeforePermit, VerifyRelease, FreeWhenSafe, At, DispSteps
    <3>7. QED
      BY <1>2, <3>2, <3>3, <3>4, <3>5, <3>6 DEF Dispatch
  <2>2. QED
    BY <1>0, <2>1 DEF DispatchersFine, At, Cmd
<1>3. CASE UNCHANGED disp
  BY <1>0, <1>3 DEF DispatchersFine, At, Cmd
<1>4. QED
  BY <1>1, <1>2, <1>3
     DEF FuNext, fuVars, FollowUpJob, ReconcileExpiredPermits, LeaseRunsOut, ProcessFollowUp,
         MarkNoResponseIfWaiting, ClaimSequenceTwo, AdmitFollowUp, SendFollowUp, FinalizeFollowUp,
         FollowUpWorkerStops, Handover, CustomerReplies, ConsentChanges, WindowCloses,
         RecoveryCloses, WrapperChanges

LEMMA FuInvInit == FuInit => FuInv
<1> SUFFICES ASSUME FuInit PROVE FuInv
  OBVIOUS
<1>1. FuTypeOK
  <2>1. NewCommand(0) \in CmdRow
    BY Ranges DEF NewCommand, CmdRow, CommandStates
  <2>2. IdleDispatcher \in DispRow
    BY Ranges, Keys DEF IdleDispatcher, DispRow, DispSteps
  <2>3. slot \in SlotRow /\ fuJob \in JobRow /\ control \in Speaker /\ consent \in ConsentRow
    BY Ranges, Keys DEF FuInit, SlotRow, JobRow, JobSteps, Speaker, ConsentRow
  <2>4. QED
    BY <2>1, <2>2, <2>3, Ranges, Types DEF FuInit
<1>2. RevisionsFine /\ DispatchersFine
  BY DEF FuInit, RevisionsFine, DispatchersFine, IdleDispatcher, At
<1>3. WireFine /\ PermitKeepsSlot /\ CommandsOnce
  BY Keys DEF FuInit, WireFine, PermitKeepsSlot, CommandsOnce, NewCommand, IdleDispatcher, At
<1>4. JobFine
  BY Keys DEF FuInit, JobFine
<1>5. QED
  BY <1>1, <1>2, <1>3, <1>4 DEF FuInv

LEMMA FuInvStep == FuInv /\ [FuNext]_fuVars => FuInv'
<1> SUFFICES ASSUME FuInv, [FuNext]_fuVars PROVE FuInv'
  OBVIOUS
<1>0. FuTypeOK /\ RevisionsFine /\ DispatchersFine
  BY DEF FuInv
<1>1. Kept /\ onWire' \in [Owners -> Sends]
  <2>1. Quiet => Kept /\ onWire' \in [Owners -> Sends]
    BY <1>0, QuietKeeps, Types DEF Quiet, Kept
  <2>2. ASSUME NEW d \in Dispatchers, Dispatch(d) PROVE Kept /\ onWire' \in [Owners -> Sends]
    <3>1. CASE AdmitFinalSend(d)
      BY <1>0, <3>1, PermitKeeps, Types DEF AdmitFinalSend
    <3>2. CASE CallProvider(d)
      BY <3>2, CallKeeps
    <3>3. QED
      BY <2>1, <2>2, <3>1, <3>2, QuietDispatch
  <2>3. CASE FollowUpJob \/ FollowUpWorkerStops
    BY <2>3, JobKeeps
  <2>4. QED
    BY <2>1, <2>2, <2>3, QuietSurroundings DEF FuNext
<1>2. FuTypeOK' /\ RevisionsFine'
  <2>1. kindOf' \in [Commands -> {"text", "template"}] /\ capacity' \in BOOLEAN
    BY <1>0, SurroundingsTyped, Types
  <2>2. /\ control' \in Speaker /\ closed' \in BOOLEAN /\ inbound' \in {"none", "open", "old"}
        /\ consent' \in ConsentRow /\ first' \in {"WAITING", "NO_RESPONSE", "ENGAGED"}
        /\ wrapper' \in {1, 2} /\ upsets' \in Revisions /\ RevisionsFine'
    BY <1>0, SurroundingsTyped
  <2>3. /\ slot' \in SlotRow /\ cmd' \in [Commands -> CmdRow] /\ disp' \in [Dispatchers -> DispRow]
        /\ fuJob' \in JobRow /\ fuCredit' \in {"NONE", "RESERVED", "RELEASED", "COMMITTED", "AMBIGUOUS"}
    BY <1>0, SlotTyped, CmdTyped, DispTyped, JobTyped, CreditTyped
  <2>4. FuTypeOK' <=>
          /\ kindOf' \in [Commands -> {"text", "template"}] /\ capacity' \in BOOLEAN
          /\ control' \in Speaker /\ closed' \in BOOLEAN /\ inbound' \in {"none", "open", "old"}
          /\ consent' \in ConsentRow /\ first' \in {"WAITING", "NO_RESPONSE", "ENGAGED"}
          /\ slot' \in SlotRow /\ fuCredit' \in {"NONE", "RESERVED", "RELEASED", "COMMITTED", "AMBIGUOUS"}
          /\ cmd' \in [Commands -> CmdRow] /\ wrapper' \in {1, 2} /\ upsets' \in Revisions
          /\ disp' \in [Dispatchers -> DispRow] /\ fuJob' \in JobRow /\ onWire' \in [Owners -> Sends]
    <3>1. 1 .. 2 = {1, 2}
      OBVIOUS
    <3>2. QED
      BY <3>1 DEF FuTypeOK, Speaker, ConsentRow, SlotRow, CmdRow, DispRow, JobRow, Claims, Revisions, Sends
  <2>5. QED
    BY <1>1, <2>1, <2>2, <2>3, <2>4
<1>3. DispatchersFine'
  BY DispatchersFineStep
<1>4. QED
  BY <1>1, <1>2, <1>3 DEF FuInv, Kept

LEMMA FuInvAlways == FuSpec => []FuInv
BY FuInvInit, FuInvStep, PTL DEF FuSpec

-----------------------------------------------------------------------------
(* The theorems.                                                           *)

\* The rows of the follow-up are well formed (RecoveryOutreachAttempt,
\* MerchantConversationSendCommand).
THEOREM FollowUpsTyped == FuSpec => []FuTypeOK
<1>1. FuInv => FuTypeOK
  BY DEF FuInv
<1>2. QED
  BY <1>1, FuInvAlways, PTL

\* At most one template command, or the scheduled job, reached WhatsApp:
\* whoever did still owns the one row (claimSequenceTwo).
LEMMA OneSender == FuInv => OneFollowUp
<1> SUFFICES ASSUME FuInv PROVE OneFollowUp
  OBVIOUS
<1>0. /\ WireFine /\ PermitKeepsSlot /\ JobFine /\ CommandsOnce /\ onWire \in [Owners -> Sends]
  BY Types DEF FuInv
<1> DEFINE sent == {c \in Commands : kindOf[c] = "template" /\ onWire[c] > 0}
<1>1. \A c \in sent : slot.key = c
  BY <1>0 DEF WireFine, PermitKeepsSlot
<1>2. onWire["scheduled"] \in {0, 1}
  BY <1>0, Keys, Ranges DEF JobFine
<1>3. CASE sent = {}
  <2>1. Cardinality(sent) = 0
    BY <1>3, FS_EmptySet
  <2>2. Cardinality(sent) + onWire["scheduled"] <= 1
    BY <1>2, <2>1
  <2>3. QED
    BY <1>0, <2>2 DEF OneFollowUp, CommandsOnce
<1>4. CASE sent # {}
  <2>1. PICK c \in sent : sent = {c}
    BY <1>1, <1>4
  <2>2. Cardinality(sent) = 1
    BY <2>1, FS_Singleton
  <2>3. onWire["scheduled"] = 0
    BY <1>0, <1>1, <1>2, <2>1, Keys DEF JobFine
  <2>4. Cardinality(sent) + onWire["scheduled"] <= 1
    BY <2>2, <2>3
  <2>5. QED
    BY <1>0, <2>4 DEF OneFollowUp, CommandsOnce
<1>5. QED
  BY <1>3, <1>4

\* One follow-up reaches the customer, and it does once, for any number of
\* commands, dispatchers, leases and stopped workers (claimSequenceTwo,
\* admitFinalSend, transition).
THEOREM FollowUpOnce == FuSpec => []FollowUpSentOnce
<1>1. FuInv => FollowUpSentOnce
  BY OneSender DEF FuInv, FollowUpSentOnce
<1>2. QED
  BY <1>1, FuInvAlways, PTL
=============================================================================
