-------------------------- MODULE LeasedWorkProofs --------------------------
(***************************************************************************)
(* Proofs about work under a lease that can be lost.  The turns of a       *)
(* conversation: a version is answered at most once and within one owner,  *)
(* the pending turn is the unprocessed rest of the versions, and the       *)
(* versions keep the order of the messages.  The recoveries of             *)
(* WooCommerce: an order ends them, a closed one is not permitted, and a   *)
(* delivered message keeps its credit.  Then both together.                *)
(***************************************************************************)
EXTENDS MCLeasedWork, FiniteSetTheorems, TLAPS


Versions == 0 .. MaxMessages
Revisions == 0 .. MaxControl
Quiet == 0 .. 2

ConvoRow == [inV : Versions, done : Versions, pend : BOOLEAN, from : Versions, rev : Revisions,
             mode : {"AI", "HUMAN"}, cr : Revisions, proc : Versions, stale : BOOLEAN, ripe : Quiet]
MsgRow == [kind : {"none", "text", "audio", "unsupported", "stop"},
           st : {"none", "pending", "stored", "stale", "failed", "history", "guided"},
           ver : Versions, rev : Revisions, verdict : Verdicts]
InboxStates == {"new", "again", "transcribe", "enqueue", "repair", "done"}
JobStates == {"none", "waiting", "failed"} \cup Turners
TurnRow == [pc : TurnSteps, v : Versions, rev : Revisions]
ReplyRow == [st : {"none", "PENDING", "FAILED", "PERMITTED", "SENT"}, usage : BOOLEAN,
             rev : Revisions, from : Versions, wire : Quiet]

\* The provers treat records over intervals badly; only these facts about
\* the intervals matter.
LEMMA Ranges ==
    /\ Versions \subseteq Nat /\ Revisions \subseteq Nat /\ Quiet \subseteq Nat
    /\ 0 \in Versions /\ 0 \in Revisions /\ Quiet = {0, 1, 2}
    /\ Messages \subseteq Versions /\ \A v \in Versions : v # 0 => v \in Messages
    /\ \A v \in Nat : v <= MaxMessages => v \in Versions
    /\ \A v \in Nat : v <= MaxControl => v \in Revisions
    /\ MaxMessages \in Nat /\ MaxControl \in Nat
BY TurnAssumption DEF Versions, Revisions, Quiet, Messages

\* TurnTypeOK in these terms.
LEMMA Types ==
    TurnTypeOK <=>
        /\ convo \in ConvoRow /\ msg \in [Messages -> MsgRow] /\ inbox \in [Messages -> InboxStates]
        /\ turnJob \in [Messages -> JobStates] /\ turn \in [Turners -> TurnRow]
        /\ reply \in [Messages -> ReplyRow]
        /\ stopped \in BOOLEAN /\ open \in BOOLEAN /\ mishaps \in 0 .. MaxMishaps
BY DEF TurnTypeOK, ConvoRow, MsgRow, InboxStates, JobStates, TurnRow, ReplyRow, Versions,
   Revisions, Quiet

-----------------------------------------------------------------------------
(* The inductive invariant.                                                *)

\* The jobs of the inbox are handled in the order of their messages.
InboxFine ==
    /\ \A m, n \in Messages : m < n /\ inbox[m] = "new" => inbox[n] = "new"
    /\ \A m \in Messages :
          /\ inbox[m] = "new" => msg[m].st = "none"
          /\ inbox[m] \in {"again", "transcribe", "enqueue", "repair"} => msg[m].st # "none"
          /\ inbox[m] = "transcribe" => msg[m].st = "pending"
          /\ inbox[m] = "enqueue" => msg[m].st = "stored"
          /\ msg[m].ver # 0 => msg[m].st = "stored"

\* There are no more versions than messages up to the last one stored.
VersionsFine ==
    /\ convo.done <= convo.inV
    /\ \A m \in Messages : msg[m].ver <= convo.inV
    /\ \A m \in Messages : (\A n \in Messages : n >= m => msg[n].ver = 0) => convo.inV < m
    /\ TranscriptsInOrder

PendingFine ==
    /\ PendingIffUnprocessed
    /\ convo.pend => convo.from \in (convo.done + 1) .. convo.inV
    /\ convo.proc # 0 => convo.pend

\* No message of the pending turn is older than the control under which it
\* was opened; it may be younger, when control was handed back and forth.
RevisionsFine ==
    /\ convo.rev <= convo.cr
    /\ \A m \in Messages : msg[m].rev <= convo.cr
    /\ convo.pend => \A m \in Messages : msg[m].ver >= convo.from => msg[m].rev >= convo.rev

RepliesFine ==
    \A v \in Messages :
        /\ reply[v].st \in {"PENDING", "PERMITTED", "SENT"} => reply[v].usage
        /\ reply[v].st # "none" => v <= convo.inV /\ reply[v].from >= 1
        /\ reply[v].st \notin {"PERMITTED", "SENT"} => reply[v].wire = 0
        /\ reply[v].wire <= 1

Answers(rev, v) ==
    \A m \in Messages : msg[m].ver \in reply[v].from .. v => msg[m].rev = rev

\* A worker's turn is over, or it is the one that is pending.
Answering == {"agent", "compose", "send", "provider"}
TurnFine(w) ==
    turn[w].pc # "idle" =>
        /\ turn[w].v \in 1 .. convo.inV
        /\ turn[w].v = convo.inV /\ convo.pend => turn[w].rev = convo.rev

\* Whoever answers holds the usage: nobody else answers the same version,
\* and every message that is answered came under the worker's revision.
AnswerFine(w) ==
    turn[w].pc \in Answering =>
        /\ \A u \in Turners : turn[u].pc \in Answering /\ turn[u].v = turn[w].v => u = w
        /\ reply[turn[w].v].st = (IF turn[w].pc = "provider" THEN "PERMITTED" ELSE "PENDING")
        /\ reply[turn[w].v].wire = 0
        /\ Answers(turn[w].rev, turn[w].v)
WorkersFine == \A w \in Turners : TurnFine(w) /\ AnswerFine(w)

\* There are jobs for existing versions only.
JobsFine == \A v \in Messages : turnJob[v] # "none" => v <= convo.inV

ConvoInv == VersionsFine /\ PendingFine /\ RevisionsFine
AnswerInv == RepliesFine /\ WorkersFine /\ ReplyWithinOneOwner
TurnInv == TurnTypeOK /\ InboxFine /\ ConvoInv /\ JobsFine /\ AnswerInv

-----------------------------------------------------------------------------
(* What a step does to the inbox.                                          *)

\* A message gets the next version.
Stores(m) ==
    /\ \E kind \in {"text", "audio", "unsupported"} : Store(m, kind)
    /\ \/ inbox[m] \in {"new", "again"} /\ (m > 1 => inbox[m - 1] # "new") /\ msg[m].st = "none"
       \/ inbox[m] = "transcribe" /\ ~Newer(m)
    /\ \E step \in {"enqueue", "repair", "done"} : To(m, step)
    /\ UNCHANGED <<turnJob, turn, reply, stopped, open, mishaps>>

\* Every other step of the inbox and of the workers.
MessagesKept ==
    \A m \in Messages : msg'[m].ver = msg[m].ver /\ msg'[m].rev = msg[m].rev

\* A version follows all others, and its message all stored messages.
LEMMA StoredLast ==
    ASSUME TurnTypeOK, InboxFine, VersionsFine, NEW m \in Messages, Stores(m)
    PROVE  /\ \A n \in Messages : n >= m => msg[n].ver = 0
           /\ convo.inV < m
<1>1. \A n \in Messages : n >= m => msg[n].ver = 0
  <2>1. CASE inbox[m] \in {"new", "again"} /\ (m > 1 => inbox[m - 1] # "new") /\ msg[m].st = "none"
    BY <2>1 DEF InboxFine, Messages
  <2>2. CASE inbox[m] = "transcribe" /\ ~Newer(m)
    BY <2>2 DEF InboxFine, Newer, Messages
  <2>3. QED
    BY <2>1, <2>2 DEF Stores
<1>2. QED
  BY <1>1 DEF VersionsFine

LEMMA ReceiveStores ==
    ASSUME TurnTypeOK, InboxFine, NEW m \in Messages, Receive(m) \/ InboundFails(m)
    PROVE  \/ Stores(m)
           \/ /\ MessagesKept
              /\ UNCHANGED <<convo, turn, reply>>
<1>1. msg \in [Messages -> MsgRow]
  BY Types
<1>2. CASE WriteLocalStop(m) \/ DenyRaw(m) \/ SendGuidance(m) \/ EnqueueReceived(m) \/ InboundFails(m)
  BY <1>1, <1>2 DEF WriteLocalStop, DenyRaw, SendGuidance, EnqueueReceived, InboundFails,
     MessagesKept, MsgRow
<1>3. CASE PersistHistorical(m) \/ ReserveAudio(m) \/ RejectTranscript(m)
  BY <1>1, <1>3 DEF PersistHistorical, ReserveAudio, RejectTranscript, MessagesKept, MsgRow
<1>4. CASE ReceiveText(m)
  BY <1>1, <1>4 DEF ReceiveText, Incoming, Stores, MessagesKept
<1>5. CASE ReceiveUnsupported(m)
  BY <1>1, <1>5 DEF ReceiveUnsupported, Incoming, Stores, MessagesKept
<1>6. CASE CompleteTranscript(m)
  BY <1>1, <1>6 DEF CompleteTranscript, Stores, MessagesKept, MsgRow
<1>7. QED
  BY <1>2, <1>3, <1>4, <1>5, <1>6 DEF Receive

\* Only the inbox and moderation write messages; moderation only a verdict.
LEMMA ModerationKeeps ==
    ASSUME TurnTypeOK, NEW w \in Turners, ModeratePending(w)
    PROVE  /\ MessagesKept
           /\ \A m \in Messages : msg'[m].st = msg[m].st
           /\ msg' \in [Messages -> MsgRow]
           /\ UNCHANGED inbox
<1>1. msg \in [Messages -> MsgRow]
  BY Types
<1>2. PICK verdicts \in [Messages -> Verdicts] :
        msg' = [m \in Messages |-> [msg[m] EXCEPT !.verdict = verdicts[m]]]
  BY DEF ModeratePending
<1>3. UNCHANGED inbox
  BY DEF ModeratePending
<1>4. \A m \in Messages : msg'[m] = [msg[m] EXCEPT !.verdict = verdicts[m]]
  BY <1>2
<1>5. msg' \in [Messages -> MsgRow]
  BY <1>1, <1>2 DEF MsgRow
<1>6. QED
  BY <1>1, <1>3, <1>4, <1>5 DEF MsgRow, MessagesKept

LEMMA WorkersKeepInbox ==
    ASSUME TurnTypeOK,
           \/ \E w \in Turners : \/ \E v \in Messages : TakeTurnJob(w, v)
                                 \/ TurnStep(w) \/ TurnError(w) \/ AnswerLost(w) \/ JobStalls(w)
           \/ LeaseLapses \/ RepairPendingTurn \/ WindowPasses \/ FlipControl \/ CloseRecovery
    PROVE  /\ UNCHANGED inbox
           /\ MessagesKept
           /\ \A m \in Messages : msg'[m].st = msg[m].st
<1>1. CASE \E w \in Turners : ModeratePending(w)
  BY <1>1, ModerationKeeps
<1>2. CASE ~\E w \in Turners : ModeratePending(w)
  <2>1. UNCHANGED <<inbox, msg>>
    BY <1>2 DEF TakeTurnJob, TurnStep, Claim, LoadTurn, AdmitTurn, RunAgent, ComposeAiOutbound,
       Permit, CallWhatsApp, FinishTurn, TurnError, AnswerLost, JobStalls, LeaseLapses,
       RepairPendingTurn, WindowPasses, FlipControl, CloseRecovery, Holding
  <2>2. QED
    BY <2>1 DEF MessagesKept
<1>3. QED
  BY <1>1, <1>2

LEMMA InboxFineStep == TurnInv /\ [TurnNext]_turnVars => InboxFine'
<1> SUFFICES ASSUME TurnInv, [TurnNext]_turnVars PROVE InboxFine'
  OBVIOUS
<1>0. /\ TurnTypeOK /\ InboxFine
      /\ msg \in [Messages -> MsgRow] /\ inbox \in [Messages -> InboxStates]
  BY Types DEF TurnInv
<1> USE <1>0 DEF MsgRow, InboxStates
<1>1. ASSUME NEW m \in Messages, Receive(m) \/ InboundFails(m) PROVE InboxFine'
  <2> DEFINE Own == /\ inbox'[m] # "new"
                    /\ inbox'[m] \in {"again", "transcribe", "enqueue", "repair"} => msg'[m].st # "none"
                    /\ inbox'[m] = "transcribe" => msg'[m].st = "pending"
                    /\ inbox'[m] = "enqueue" => msg'[m].st = "stored"
                    /\ msg'[m].ver # 0 => msg'[m].st = "stored"
             Rest == \A n \in Messages \ {m} : inbox'[n] = inbox[n] /\ msg'[n] = msg[n]
  <2>1. (WriteLocalStop(m) \/ DenyRaw(m) \/ SendGuidance(m)) => Own /\ Rest
    BY DEF WriteLocalStop, DenyRaw, SendGuidance, Incoming, To, InboxFine
  <2>2. PersistHistorical(m) => Own /\ Rest
    BY DEF PersistHistorical, Incoming, To, InboxFine
  <2>3. (ReceiveText(m) \/ ReceiveUnsupported(m)) => Own /\ Rest
    BY DEF ReceiveText, ReceiveUnsupported, Store, Incoming, To, InboxFine
  <2>4. ReserveAudio(m) => Own /\ Rest
    BY DEF ReserveAudio, Incoming, To, InboxFine
  <2>5. (CompleteTranscript(m) \/ RejectTranscript(m)) => Own /\ Rest
    BY DEF CompleteTranscript, RejectTranscript, Store, To, InboxFine
  <2>6. (EnqueueReceived(m) \/ InboundFails(m)) => Own /\ Rest
    BY DEF EnqueueReceived, InboundFails, To, InboxFine
  <2>7. Own /\ Rest
    BY <1>1, <2>1, <2>2, <2>3, <2>4, <2>5, <2>6 DEF Receive
  <2>8. inbox[m] # "new" \/ (m > 1 => inbox[m - 1] # "new")
    BY <1>1 DEF Receive, WriteLocalStop, DenyRaw, SendGuidance, PersistHistorical, ReceiveText,
       ReceiveUnsupported, ReserveAudio, CompleteTranscript, RejectTranscript, EnqueueReceived,
       InboundFails, Incoming
  <2>9. \A n \in Messages : n < m => inbox[n] # "new"
    BY <2>8, TurnAssumption DEF InboxFine, Messages
  <2>10. QED
    BY <2>7, <2>9 DEF InboxFine, Messages
<1>2. CASE UNCHANGED turnVars
  BY <1>2 DEF turnVars, InboxFine
<1>3. CASE \/ \E w \in Turners : \/ \E v \in Messages : TakeTurnJob(w, v)
                                 \/ TurnStep(w) \/ TurnError(w) \/ AnswerLost(w) \/ JobStalls(w)
           \/ LeaseLapses \/ RepairPendingTurn \/ WindowPasses \/ FlipControl \/ CloseRecovery
  BY <1>3, WorkersKeepInbox DEF InboxFine, MessagesKept
<1>4. QED
  BY <1>1, <1>2, <1>3 DEF TurnNext

-----------------------------------------------------------------------------
(* What a step does to the conversation row.                               *)

\* No version is added: the turn stays as it is, or is closed with nothing
\* left of it; only a pending turn is leased.
ConvoKept ==
    /\ convo' \in ConvoRow
    /\ convo'.inV = convo.inV
    /\ convo'.cr >= convo.cr
    /\ \/ /\ convo'.done = convo.done /\ convo'.pend = convo.pend
          /\ convo'.from = convo.from /\ convo'.rev = convo.rev
          /\ convo'.proc # 0 => convo.proc # 0 \/ convo.pend
       \/ /\ convo'.done = convo.inV /\ convo'.pend = FALSE
          /\ convo'.rev = 0 /\ convo'.proc = 0

LEMMA Numbers ==
    ASSUME convo \in ConvoRow
    PROVE  /\ convo.inV \in Nat /\ convo.done \in Nat /\ convo.from \in Nat /\ convo.rev \in Nat
           /\ convo.cr \in Nat /\ convo.proc \in Nat /\ convo.pend \in BOOLEAN
BY Ranges DEF ConvoRow

LEMMA ClosedKeeps ==
    ASSUME convo \in ConvoRow, convo' = Closed(convo)
    PROVE  ConvoKept
<1>1. convo' \in ConvoRow
  BY Ranges DEF ConvoRow, Closed
<1>2. /\ convo'.inV = convo.inV /\ convo'.cr = convo.cr /\ convo'.done = convo.inV
      /\ convo'.pend = FALSE /\ convo'.rev = 0 /\ convo'.proc = 0
  BY DEF ConvoRow, Closed
<1>3. QED
  BY <1>1, <1>2, Numbers DEF ConvoKept

LEMMA SameKeeps ==
    ASSUME convo \in ConvoRow, UNCHANGED convo
    PROVE  ConvoKept
BY Numbers DEF ConvoKept

LEMMA ReleasedKeeps ==
    ASSUME convo \in ConvoRow, NEW v, convo' = TurnReleased(v)
    PROVE  ConvoKept
<1>1. convo' \in ConvoRow
  BY Ranges DEF ConvoRow, TurnReleased
<1>2. /\ convo'.inV = convo.inV /\ convo'.cr = convo.cr /\ convo'.done = convo.done
      /\ convo'.pend = convo.pend /\ convo'.from = convo.from /\ convo'.rev = convo.rev
      /\ convo'.proc # 0 => convo.proc # 0
  BY DEF ConvoRow, TurnReleased
<1>3. QED
  BY <1>1, <1>2, Numbers DEF ConvoKept

\* A worker claims its turn, completes or closes it, or releases its lease.
LEMMA WorkerKeepsConvo ==
    ASSUME TurnTypeOK, NEW w \in Turners, TurnStep(w) \/ TurnError(w) \/ AnswerLost(w)
    PROVE  ConvoKept
<1>0. convo \in ConvoRow
  BY Types
<1> DEFINE v == turn[w].v
<1>1. CASE Claim(w)
  <2>1. CASE ClaimTurn(v, turn[w].rev)
    <3>1. convo' = [convo EXCEPT !.proc = v, !.stale = FALSE] /\ v \in Versions /\ convo.pend
      BY <1>1, <2>1, Types DEF Claim, ClaimTurn, TurnRow
    <3>2. convo' \in ConvoRow
      BY <1>0, <3>1 DEF ConvoRow
    <3>3. /\ convo'.inV = convo.inV /\ convo'.cr = convo.cr /\ convo'.done = convo.done
          /\ convo'.pend = convo.pend /\ convo'.from = convo.from /\ convo'.rev = convo.rev
          /\ convo.pend
      BY <1>0, <3>1 DEF ConvoRow
    <3>4. QED
      BY <1>0, <3>2, <3>3, Numbers DEF ConvoKept
  <2>2. CASE ~ClaimTurn(v, turn[w].rev)
    <3>1. convo' = Closed(convo) \/ UNCHANGED convo
      BY <1>1, <2>2 DEF Claim
    <3>2. QED
      BY <1>0, <3>1, ClosedKeeps, SameKeeps
  <2>3. QED
    BY <2>1, <2>2
<1>2. CASE ModeratePending(w) \/ AdmitTurn(w)
  <2>1. convo' = TurnReleased(v) \/ UNCHANGED convo
    BY <1>2 DEF ModeratePending, AdmitTurn, ReleaseTo, ReleaseAndEnqueue
  <2>2. QED
    BY <1>0, <2>1, ReleasedKeeps, SameKeeps
<1>3. CASE LoadTurn(w)
  <2>1. convo' = Closed(convo) \/ convo' = TurnReleased(v) \/ UNCHANGED convo
    BY <1>3 DEF LoadTurn
  <2>2. QED
    BY <1>0, <2>1, ClosedKeeps, ReleasedKeeps, SameKeeps
<1>4. CASE RunAgent(w) \/ ComposeAiOutbound(w)
  <2>1. convo' = TurnReleased(v) \/ UNCHANGED convo
    BY <1>4 DEF RunAgent, ComposeAiOutbound, AfterAwait, ReleaseAndEnqueue
  <2>2. QED
    BY <1>0, <2>1, ReleasedKeeps, SameKeeps
<1>5. CASE Permit(w) \/ CallWhatsApp(w)
  BY <1>0, <1>5, SameKeeps DEF Permit, CallWhatsApp
<1>6. CASE FinishTurn(w)
  <2>1. CASE MayComplete(v, turn[w].rev, turn[w].pc # "suppressAny")
    <3>1. convo' = [Closed(convo) EXCEPT !.done = v] /\ convo.inV = v
      BY <1>6, <2>1 DEF FinishTurn, MayComplete
    <3>2. convo' = Closed(convo)
      BY <1>0, <3>1 DEF Closed, ConvoRow
    <3>3. QED
      BY <1>0, <3>2, ClosedKeeps
  <2>2. CASE ~MayComplete(v, turn[w].rev, turn[w].pc # "suppressAny")
    <3>1. convo' = Closed(convo) \/ convo' = TurnReleased(v)
      BY <1>6, <2>2 DEF FinishTurn
    <3>2. QED
      BY <1>0, <3>1, ClosedKeeps, ReleasedKeeps
  <2>3. QED
    BY <2>1, <2>2
<1>7. CASE TurnError(w) \/ AnswerLost(w)
  BY <1>0, <1>7, ReleasedKeeps DEF TurnError, AnswerLost, ReleaseTo
<1>8. QED
  BY <1>1, <1>2, <1>3, <1>4, <1>5, <1>6, <1>7 DEF TurnStep

LEMMA OthersKeepConvo ==
    ASSUME TurnTypeOK,
           \/ \E w \in Turners : (\E v \in Messages : TakeTurnJob(w, v)) \/ JobStalls(w)
           \/ LeaseLapses \/ RepairPendingTurn \/ WindowPasses \/ FlipControl \/ CloseRecovery
    PROVE  ConvoKept
<1>0. convo \in ConvoRow
  BY Types
<1>1. CASE LeaseLapses
  <2>1. convo' \in ConvoRow
    BY <1>0, <1>1, Ranges DEF LeaseLapses, ConvoRow
  <2>2. QED
    BY <1>0, <1>1, <2>1, Numbers DEF LeaseLapses, ConvoRow, ConvoKept
<1>2. CASE WindowPasses
  <2>1. convo' \in ConvoRow
    BY <1>0, <1>2, Ranges DEF WindowPasses, ConvoRow
  <2>2. /\ convo'.inV = convo.inV /\ convo'.cr = convo.cr /\ convo'.done = convo.done
        /\ convo'.pend = convo.pend /\ convo'.from = convo.from /\ convo'.rev = convo.rev
        /\ convo'.proc = convo.proc
    BY <1>0, <1>2 DEF WindowPasses, ConvoRow
  <2>3. QED
    BY <1>0, <2>1, <2>2, Numbers DEF ConvoKept
<1>3. CASE FlipControl
  <2>1. convo.cr \in Nat /\ convo.cr + 1 \in Revisions
    BY <1>0, <1>3, Ranges DEF FlipControl, ConvoRow
  <2>2. PICK mode \in {"AI", "HUMAN"} :
          convo' = [convo EXCEPT !.cr = convo.cr + 1, !.mode = mode]
    BY <1>3 DEF FlipControl
  <2>3. convo' \in ConvoRow
    BY <1>0, <2>1, <2>2 DEF ConvoRow
  <2>4. QED
    BY <1>0, <2>1, <2>2, <2>3 DEF ConvoRow, ConvoKept
<1>4. CASE \/ \E w \in Turners : (\E v \in Messages : TakeTurnJob(w, v)) \/ JobStalls(w)
           \/ RepairPendingTurn \/ CloseRecovery
  <2>1. UNCHANGED convo
    BY <1>4 DEF TakeTurnJob, JobStalls, RepairPendingTurn, CloseRecovery
  <2>2. QED
    BY <1>0, <2>1, SameKeeps
<1>5. QED
  BY <1>1, <1>2, <1>3, <1>4

\* Every step stores one message under the next version, or adds none.
LEMMA StepStores ==
    ASSUME TurnInv, [TurnNext]_turnVars
    PROVE  \/ \E m \in Messages : Stores(m)
           \/ ConvoKept /\ MessagesKept
<1>0. TurnTypeOK /\ InboxFine /\ convo \in ConvoRow
  BY Types DEF TurnInv
<1>1. CASE \E m \in Messages : Receive(m) \/ InboundFails(m)
  BY <1>0, <1>1, ReceiveStores, SameKeeps
<1>2. CASE \/ \E w \in Turners : \/ \E v \in Messages : TakeTurnJob(w, v)
                                 \/ TurnStep(w) \/ TurnError(w) \/ AnswerLost(w) \/ JobStalls(w)
           \/ LeaseLapses \/ RepairPendingTurn \/ WindowPasses \/ FlipControl \/ CloseRecovery
  BY <1>0, <1>2, WorkersKeepInbox, WorkerKeepsConvo, OthersKeepConvo
<1>3. CASE UNCHANGED turnVars
  BY <1>0, <1>3, SameKeeps DEF turnVars, MessagesKept
<1>4. QED
  BY <1>1, <1>2, <1>3 DEF TurnNext

-----------------------------------------------------------------------------
(* The versions, the pending turn and the revisions.                       *)

\* The conversation row when a message is stored.
StoredAs(m) ==
    /\ convo' \in ConvoRow /\ msg' \in [Messages -> MsgRow]
    /\ convo'.inV = convo.inV + 1 /\ convo'.cr = convo.cr
    /\ \/ convo'.done = convo.inV + 1 /\ convo'.pend = FALSE /\ convo'.proc = 0 /\ convo'.rev = 0
       \/ /\ convo'.done = convo.done /\ convo'.pend = TRUE
          /\ \/ convo.pend /\ convo'.from = convo.from /\ convo'.rev = convo.rev
             \/ ~convo.pend /\ convo'.from = convo.inV + 1 /\ convo'.rev = convo.cr
    /\ \A n \in Messages \ {m} : msg'[n] = msg[n]
    /\ msg'[m].ver = convo.inV + 1 /\ msg'[m].rev = convo.cr

LEMMA AfterStore ==
    ASSUME TurnTypeOK, InboxFine, ConvoInv, NEW m \in Messages, Stores(m)
    PROVE  StoredAs(m)
<1>0. convo \in ConvoRow /\ msg \in [Messages -> MsgRow]
  BY Types
<1>1. convo.inV < m /\ convo.inV + 1 \in Versions
  <2>1. convo.inV < m
    BY StoredLast DEF ConvoInv
  <2>2. m \in Nat /\ m <= MaxMessages /\ MaxMessages \in Nat
    BY TurnAssumption DEF Messages
  <2>3. QED
    BY <1>0, <2>1, <2>2, Numbers, Ranges
<1>2. PICK kind \in {"text", "audio", "unsupported"} : Store(m, kind)
  BY DEF Stores
<1>3. /\ msg' \in [Messages -> MsgRow]
      /\ \A n \in Messages \ {m} : msg'[n] = msg[n]
      /\ msg'[m].ver = convo.inV + 1 /\ msg'[m].rev = convo.cr
  <2>1. Unassessed \in Verdicts
    BY TurnAssumption DEF Unassessed, Verdicts
  <2>2. convo.cr \in Revisions
    BY <1>0 DEF ConvoRow
  <2>3. QED
    BY <1>0, <1>1, <1>2, <2>1, <2>2 DEF Store, MsgRow
<1> DEFINE c == [convo EXCEPT !.inV = @ + 1]
<1>4. /\ c \in ConvoRow /\ c.inV = convo.inV + 1 /\ c.cr = convo.cr /\ c.done = convo.done
      /\ c.pend = convo.pend /\ c.from = convo.from /\ c.rev = convo.rev /\ c.mode = convo.mode
  BY <1>0, <1>1 DEF ConvoRow
<1>5. convo' \in (IF c.mode = "HUMAN" THEN {Closed(c)} ELSE IF c.pend THEN Joined(c) ELSE {Opened(c)})
  BY <1>2 DEF Store, Recorded
<1> HIDE DEF c
<1>6. CASE c.mode = "HUMAN"
  <2>1. convo' = Closed(c)
    BY <1>5, <1>6
  <2>2. convo' \in ConvoRow
    BY <1>4, <2>1, Ranges DEF ConvoRow, Closed
  <2>3. /\ convo'.inV = c.inV /\ convo'.cr = c.cr /\ convo'.done = c.inV
        /\ convo'.pend = FALSE /\ convo'.proc = 0 /\ convo'.rev = 0
    BY <1>4, <2>1 DEF ConvoRow, Closed
  <2>4. QED
    BY <1>3, <1>4, <2>2, <2>3 DEF StoredAs
<1>7. CASE c.mode # "HUMAN" /\ c.pend
  <2>1. PICK r \in {0, c.ripe} : convo' = [c EXCEPT !.ripe = r]
    BY <1>5, <1>7 DEF Joined
  <2>2. r \in Quiet
    BY <1>4, Ranges DEF ConvoRow
  <2>3. convo' \in ConvoRow
    BY <1>4, <2>1, <2>2 DEF ConvoRow
  <2>4. /\ convo'.inV = c.inV /\ convo'.cr = c.cr /\ convo'.done = c.done
        /\ convo'.pend = c.pend /\ convo'.from = c.from /\ convo'.rev = c.rev
    BY <1>4, <2>1 DEF ConvoRow
  <2>5. QED
    BY <1>3, <1>4, <1>7, <2>3, <2>4 DEF StoredAs
<1>8. CASE c.mode # "HUMAN" /\ ~c.pend
  <2>1. convo' = [c EXCEPT !.pend = TRUE, !.from = c.inV, !.rev = c.cr]
    BY <1>5, <1>8 DEF Opened
  <2>2. convo' \in ConvoRow
    BY <1>4, <2>1 DEF ConvoRow
  <2>3. /\ convo'.inV = c.inV /\ convo'.cr = c.cr /\ convo'.done = c.done
        /\ convo'.pend = TRUE /\ convo'.from = c.inV /\ convo'.rev = c.cr
    BY <1>4, <2>1 DEF ConvoRow
  <2>4. QED
    BY <1>3, <1>4, <1>8, <2>2, <2>3 DEF StoredAs
<1>9. QED
  BY <1>6, <1>7, <1>8

LEMMA StoreKeepsConvoInv ==
    ASSUME TurnTypeOK, InboxFine, ConvoInv, NEW m \in Messages, Stores(m)
    PROVE  ConvoInv'
<1>0. StoredAs(m) /\ convo \in ConvoRow /\ msg \in [Messages -> MsgRow]
  BY Types, AfterStore
<1>1. \A n \in Messages : n \in Nat /\ msg[n].ver \in Nat /\ msg[n].rev \in Nat
  BY <1>0, Ranges DEF MsgRow
<1>2. /\ convo.inV \in Nat /\ convo.done \in Nat /\ convo.from \in Nat
      /\ convo.rev \in Nat /\ convo.cr \in Nat
  BY <1>0, Numbers
<1>3. convo.inV < m /\ \A n \in Messages : n >= m => msg[n].ver = 0
  BY StoredLast DEF ConvoInv
<1>4. VersionsFine'
  BY <1>0, <1>1, <1>2, <1>3 DEF ConvoInv, VersionsFine, TranscriptsInOrder, StoredAs
<1>5. PendingFine'
  BY <1>0, <1>2 DEF ConvoInv, VersionsFine, PendingFine, PendingIffUnprocessed, StoredAs
<1>6. RevisionsFine'
  BY <1>0, <1>1, <1>2 DEF ConvoInv, VersionsFine, RevisionsFine, StoredAs
<1>7. QED
  BY <1>4, <1>5, <1>6 DEF ConvoInv

LEMMA KeptKeepsConvoInv ==
    ASSUME TurnTypeOK, ConvoInv, ConvoKept, MessagesKept
    PROVE  ConvoInv'
<1>0. convo \in ConvoRow /\ msg \in [Messages -> MsgRow]
  BY Types
<1>1. \A n \in Messages : msg[n].ver \in Nat /\ msg[n].rev \in Nat
  BY <1>0, Ranges DEF MsgRow
<1>2. convo'.cr \in Nat /\ convo'.pend \in BOOLEAN
  BY Ranges DEF ConvoKept, ConvoRow
<1>3. VersionsFine'
  BY <1>0, <1>1, Numbers DEF ConvoInv, VersionsFine, TranscriptsInOrder, ConvoKept, MessagesKept
<1>4. PendingFine'
  BY <1>0, <1>2, Numbers DEF ConvoInv, VersionsFine, PendingFine, PendingIffUnprocessed, ConvoKept
<1>5. RevisionsFine'
  BY <1>0, <1>1, <1>2, Numbers DEF ConvoInv, RevisionsFine, ConvoKept, MessagesKept
<1>6. QED
  BY <1>3, <1>4, <1>5 DEF ConvoInv

LEMMA ConvoInvStep == TurnInv /\ [TurnNext]_turnVars => ConvoInv'
BY StepStores, StoreKeepsConvoInv, KeptKeepsConvoInv DEF TurnInv

-----------------------------------------------------------------------------
(* What a step does to the turns and the replies.                          *)

Pausing == TurnSteps \ (Answering \cup {"idle"})
Preparing == {"agent", "compose", "send"}

\* The worker leaves its turn, or goes on without answering.
PausesOrLeaves(w) ==
    turn[w].pc # "idle" /\ (LeaveTurn(w) \/ \E pc \in Pausing : GoTo(w, pc))

Takes(w) ==
    /\ UNCHANGED <<convo, reply>>
    /\ \E v \in Messages :
          /\ v = convo.inV /\ convo.pend
          /\ turn' = [turn EXCEPT ![w] = [pc |-> "claim", v |-> v, rev |-> convo.rev]]

Fails(w) ==
    turn[w].pc \in Preparing /\ reply' = Failed(turn[w].v) /\ PausesOrLeaves(w)

Reserves(w) ==
    /\ turn[w].pc = "admit" /\ ~HasChanged(turn[w].v) /\ CheckControl(w) /\ Unreserved(turn[w].v)
    /\ reply' = [reply EXCEPT ![turn[w].v] = [@ EXCEPT !.st = "PENDING", !.usage = TRUE, !.from = convo.from]]
    /\ \E pc \in Preparing : GoTo(w, pc)

Prepares(w) ==
    turn[w].pc \in Preparing /\ UNCHANGED reply /\ \E pc \in Preparing : GoTo(w, pc)

Permits(w) ==
    /\ turn[w].pc = "send" /\ MayPermit(w) /\ GoTo(w, "provider")
    /\ reply' = [reply EXCEPT ![turn[w].v].st = "PERMITTED", ![turn[w].v].rev = turn[w].rev]

\* WhatsApp has it, whether or not the answer comes back.
Sends(w) ==
    /\ turn[w].pc = "provider" /\ PausesOrLeaves(w)
    /\ \/ reply' = [reply EXCEPT ![turn[w].v].st = "SENT", ![turn[w].v].wire = @ + 1]
       \/ reply' = [reply EXCEPT ![turn[w].v].wire = @ + 1]

WorkerEffect(w) ==
    \/ UNCHANGED <<turn, reply>>
    \/ UNCHANGED reply /\ PausesOrLeaves(w)
    \/ Takes(w) \/ Fails(w) \/ Reserves(w) \/ Prepares(w) \/ Permits(w) \/ Sends(w)

LEMMA WorkerEffects ==
    ASSUME TurnTypeOK, JobsFine, NEW w \in Turners,
           \/ \E v \in Messages : TakeTurnJob(w, v)
           \/ TurnStep(w) \/ TurnError(w) \/ AnswerLost(w) \/ JobStalls(w)
    PROVE  WorkerEffect(w)
<1>0. turn \in [Turners -> TurnRow] /\ convo \in ConvoRow
  BY Types
<1> USE DEF WorkerEffect
<1>1. CASE \E v \in Messages : TakeTurnJob(w, v)
  <2>1. PICK v \in Messages : TakeTurnJob(w, v)
    BY <1>1
  <2>2. CASE v < convo.inV \/ v <= convo.done \/ ~convo.pend
    BY <2>1, <2>2 DEF TakeTurnJob
  <2>3. CASE ~(v < convo.inV \/ v <= convo.done \/ ~convo.pend)
    <3>1. v = convo.inV /\ convo.pend
      BY <1>0, <2>1, <2>3, Numbers, Ranges DEF TakeTurnJob, JobsFine
    <3>2. QED
      BY <2>1, <2>3, <3>1 DEF TakeTurnJob, Takes
  <2>4. QED
    BY <2>2, <2>3
<1>2. CASE Claim(w)
  BY <1>2 DEF Claim, PausesOrLeaves, Pausing, Answering, TurnSteps
<1>3. CASE ModeratePending(w)
  BY <1>3 DEF ModeratePending, ReleaseTo, PausesOrLeaves, Pausing, Answering, TurnSteps
<1>4. CASE LoadTurn(w)
  BY <1>4 DEF LoadTurn, DenySettled, PausesOrLeaves, Pausing, Answering, TurnSteps
<1>5. CASE AdmitTurn(w)
  BY <1>5 DEF AdmitTurn, ReleaseAndEnqueue, ReleaseTo, Reserve, Reserves, Preparing, PausesOrLeaves,
     Pausing, Answering, TurnSteps
<1>6. CASE RunAgent(w) \/ ComposeAiOutbound(w)
  BY <1>6 DEF RunAgent, ComposeAiOutbound, AfterAwait, WrapperRefuses, ReleaseAndEnqueue, Fails,
     Prepares, Preparing, PausesOrLeaves, Pausing, Answering, TurnSteps
<1>7. CASE Permit(w)
  BY <1>7 DEF Permit, Permits, Fails, Preparing, PausesOrLeaves, Pausing, Answering, TurnSteps
<1>8. CASE CallWhatsApp(w) \/ AnswerLost(w)
  BY <1>8 DEF CallWhatsApp, AnswerLost, ReleaseTo, Sends, PausesOrLeaves, Pausing, Answering, TurnSteps
<1>9. CASE FinishTurn(w)
  BY <1>9 DEF FinishTurn, PausesOrLeaves
<1>10. CASE TurnError(w)
  BY <1>10 DEF TurnError, ReleaseTo, Fails, Preparing, PausesOrLeaves
<1>11. CASE JobStalls(w)
  BY <1>11 DEF JobStalls, PausesOrLeaves
<1>12. QED
  BY <1>1, <1>2, <1>3, <1>4, <1>5, <1>6, <1>7, <1>8, <1>9, <1>10, <1>11 DEF TurnStep

\* Everybody else leaves them alone.
LEMMA StepEffects ==
    ASSUME TurnInv, [TurnNext]_turnVars
    PROVE  \/ UNCHANGED <<turn, reply>>
           \/ MessagesKept /\ ConvoKept /\ \E w \in Turners : WorkerEffect(w)
<1>0. TurnTypeOK /\ InboxFine /\ JobsFine
  BY DEF TurnInv
<1>1. CASE \E m \in Messages : Receive(m) \/ InboundFails(m)
  BY <1>0, <1>1, ReceiveStores DEF Stores
<1>2. CASE LeaseLapses \/ RepairPendingTurn \/ WindowPasses \/ FlipControl \/ CloseRecovery
           \/ UNCHANGED turnVars
  BY <1>2 DEF LeaseLapses, RepairPendingTurn, WindowPasses, FlipControl, CloseRecovery, turnVars
<1>3. ASSUME NEW w \in Turners,
             \/ \E v \in Messages : TakeTurnJob(w, v)
             \/ TurnStep(w) \/ TurnError(w) \/ AnswerLost(w) \/ JobStalls(w)
      PROVE  MessagesKept /\ ConvoKept /\ WorkerEffect(w)
  BY <1>0, <1>3, WorkersKeepInbox, WorkerKeepsConvo, OthersKeepConvo, WorkerEffects
<1>4. QED
  BY <1>1, <1>2, <1>3 DEF TurnNext

-----------------------------------------------------------------------------
(* The queue.                                                              *)

JobsKept ==
    /\ turnJob' \in [Messages -> JobStates]
    /\ \A v \in Messages : turnJob'[v] # "none" => turnJob[v] # "none" \/ v <= convo.inV

\* What one call leaves of the jobs.
NoMoreJobs(jobs) ==
    /\ jobs \in [Messages -> JobStates]
    /\ \A v \in Messages : jobs[v] # "none" => turnJob[v] # "none" \/ v <= convo.inV

LEMMA SettledJobs ==
    ASSUME TurnTypeOK, NEW w \in Turners, turn[w].v <= convo.inV,
           NEW to \in {"none", "waiting", "failed"}
    PROVE  NoMoreJobs(Settled(w, to)) /\ NoMoreJobs(turnJob)
BY Types DEF NoMoreJobs, Settled, JobStates

LEMMA AddedJobs ==
    ASSUME TurnTypeOK, NEW jobs, NoMoreJobs(jobs), NEW v \in Nat, v <= convo.inV
    PROVE  NoMoreJobs(Added(jobs, v)) /\ \A c : NoMoreJobs(Enqueued(jobs, v, c))
BY DEF NoMoreJobs, Added, Enqueued, JobStates

\* The newest version, whatever happens to the rest of the row.
LEMMA SameNewest ==
    ASSUME convo \in ConvoRow
    PROVE  /\ Closed(convo).inV = convo.inV
           /\ \A v : TurnReleased(v).inV = convo.inV
BY DEF ConvoRow, Closed, TurnReleased

LEMMA JobsStep ==
    ASSUME TurnInv, [TurnNext]_turnVars
    PROVE  JobsKept
<1>0. /\ TurnTypeOK /\ JobsFine /\ turnJob \in [Messages -> JobStates]
      /\ convo \in ConvoRow /\ convo.inV \in Nat
      /\ \A m \in Messages : msg[m].ver \in Nat /\ msg[m].ver <= convo.inV
      /\ NoMoreJobs(turnJob)
  <2>1. TurnTypeOK /\ JobsFine /\ VersionsFine
    BY DEF TurnInv, ConvoInv
  <2>2. /\ turnJob \in [Messages -> JobStates] /\ convo \in ConvoRow
        /\ msg \in [Messages -> MsgRow]
    BY <2>1, Types
  <2>3. \A m \in Messages : msg[m].ver \in Nat
    BY <2>2, Ranges DEF MsgRow
  <2>4. convo.inV \in Nat
    BY <2>2, Numbers
  <2>5. QED
    BY <2>1, <2>2, <2>3, <2>4 DEF VersionsFine, NoMoreJobs
<1>1. ASSUME NEW m \in Messages, Receive(m) \/ InboundFails(m) PROVE JobsKept
  <2>1. CASE EnqueueReceived(m)
    <3>1. \/ UNCHANGED turnJob
          \/ \E v \in {msg[m].ver, convo.inV} : turnJob' = Enqueued(turnJob, v, convo)
      BY <2>1 DEF EnqueueReceived
    <3>2. QED
      BY <1>0, <3>1, AddedJobs DEF NoMoreJobs, JobsKept
  <2>2. CASE ~EnqueueReceived(m)
    <3>1. UNCHANGED turnJob
      BY <1>1, <2>2 DEF Receive, WriteLocalStop, DenyRaw, SendGuidance, PersistHistorical, ReceiveText,
         ReceiveUnsupported, ReserveAudio, CompleteTranscript, RejectTranscript, InboundFails
    <3>2. QED
      BY <1>0, <3>1 DEF NoMoreJobs, JobsKept
  <2>3. QED
    BY <2>1, <2>2
<1>2. ASSUME NEW w \in Turners, turn[w].pc # "idle",
             TurnStep(w) \/ TurnError(w) \/ AnswerLost(w) \/ JobStalls(w)
      PROVE  NoMoreJobs(turnJob')
  <2>1. turn[w].v <= convo.inV
    BY <1>0, <1>2 DEF TurnInv, AnswerInv, WorkersFine, TurnFine
  <2>2. \A to \in {"none", "waiting", "failed"} : NoMoreJobs(Settled(w, to))
    BY <1>0, <2>1, SettledJobs
  <2>3. /\ NoMoreJobs(Added(Settled(w, "none"), convo.inV))
        /\ \A c : NoMoreJobs(Enqueued(Settled(w, "none"), convo.inV, c))
    BY <1>0, <2>2, AddedJobs
  <2>4. CASE Claim(w)
    BY <1>0, <2>2, <2>3, <2>4 DEF Claim
  <2>5. CASE ModeratePending(w) \/ LoadTurn(w) \/ TurnError(w) \/ AnswerLost(w)
    BY <1>0, <2>2, <2>5 DEF ModeratePending, LoadTurn, DenySettled, TurnError, AnswerLost, ReleaseTo
  <2>6. CASE AdmitTurn(w) \/ RunAgent(w) \/ ComposeAiOutbound(w)
    BY <1>0, <2>2, <2>3, <2>6, SameNewest
    DEF AdmitTurn, RunAgent, ComposeAiOutbound, AfterAwait, ReleaseAndEnqueue, ReleaseTo
  <2>7. CASE Permit(w) \/ CallWhatsApp(w)
    BY <1>0, <2>7 DEF Permit, CallWhatsApp
  <2>8. CASE FinishTurn(w)
    BY <1>0, <2>2, <2>3, <2>8, SameNewest DEF FinishTurn
  <2>9. CASE JobStalls(w)
    BY <1>0, <2>1, <2>9 DEF JobStalls, NoMoreJobs, JobStates
  <2>10. QED
    BY <1>2, <2>4, <2>5, <2>6, <2>7, <2>8, <2>9 DEF TurnStep
<1>3. ASSUME NEW w \in Turners, NEW v \in Messages, TakeTurnJob(w, v) PROVE JobsKept
  BY <1>0, <1>3 DEF TakeTurnJob, JobsKept, JobStates
<1>4. CASE LeaseLapses \/ RepairPendingTurn \/ WindowPasses \/ FlipControl \/ CloseRecovery
           \/ UNCHANGED turnVars
  BY <1>0, <1>4 DEF LeaseLapses, RepairPendingTurn, WindowPasses, FlipControl, CloseRecovery, turnVars,
     JobsKept, JobStates
<1>5. ASSUME NEW w \in Turners, TurnStep(w) \/ TurnError(w) \/ AnswerLost(w) \/ JobStalls(w)
      PROVE  turn[w].pc # "idle"
  BY <1>5 DEF TurnStep, Claim, ModeratePending, LoadTurn, AdmitTurn, RunAgent, ComposeAiOutbound,
     Permit, CallWhatsApp, FinishTurn, TurnError, AnswerLost, JobStalls
<1>6. QED
  BY <1>1, <1>2, <1>3, <1>4, <1>5 DEF TurnNext, NoMoreJobs, JobsKept

-----------------------------------------------------------------------------
(* Answers.                                                                *)

\* What the lemmas below start from.
Context ==
    /\ convo \in ConvoRow /\ msg \in [Messages -> MsgRow]
    /\ turn \in [Turners -> TurnRow] /\ reply \in [Messages -> ReplyRow]
    /\ convo.inV \in Nat /\ convo.rev \in Nat /\ convo.cr \in Nat
    /\ \A m \in Messages : msg[m].ver \in Nat /\ msg[m].rev \in Nat /\ msg[m].ver <= convo.inV
    /\ \A v \in Messages : v \in Nat /\ v # 0 /\ reply[v].from \in Nat /\ reply[v].wire \in {0, 1, 2}
    /\ \A w \in Turners : turn[w].pc # "idle" => turn[w].v \in Messages /\ turn[w].v <= convo.inV
    /\ \A w \in Turners : turn[w].pc \in TurnSteps /\ turn[w].v \in Versions /\ turn[w].rev \in Revisions
    /\ ConvoInv /\ AnswerInv

LEMMA InContext == TurnInv => Context
<1> SUFFICES ASSUME TurnInv PROVE Context
  OBVIOUS
<1>1. /\ TurnTypeOK /\ ConvoInv /\ AnswerInv /\ VersionsFine /\ WorkersFine
      /\ convo \in ConvoRow /\ msg \in [Messages -> MsgRow]
      /\ turn \in [Turners -> TurnRow] /\ reply \in [Messages -> ReplyRow]
  BY Types DEF TurnInv, ConvoInv, AnswerInv
<1>2. convo.inV \in Nat /\ convo.rev \in Nat /\ convo.cr \in Nat /\ convo.inV \in Versions
  BY <1>1, Numbers DEF ConvoRow
<1>3. \A m \in Messages : msg[m].ver \in Nat /\ msg[m].rev \in Nat /\ msg[m].ver <= convo.inV
  BY <1>1, Ranges DEF MsgRow, VersionsFine
<1>4. \A v \in Messages : v \in Nat /\ v # 0 /\ reply[v].from \in Nat /\ reply[v].wire \in {0, 1, 2}
  <2>1. \A v \in Messages : v \in Nat /\ v # 0
    BY TurnAssumption DEF Messages
  <2>2. \A v \in Messages : reply[v].from \in Versions /\ reply[v].wire \in Quiet
    BY <1>1 DEF ReplyRow
  <2>3. QED
    BY <2>1, <2>2, Ranges
<1>5. \A w \in Turners : turn[w].pc \in TurnSteps /\ turn[w].v \in Versions /\ turn[w].rev \in Revisions
  BY <1>1 DEF TurnRow
<1>6. ASSUME NEW w \in Turners, turn[w].pc # "idle"
      PROVE  turn[w].v \in Messages /\ turn[w].v <= convo.inV
  <2>1. turn[w].v \in 1 .. convo.inV
    BY <1>1, <1>6 DEF WorkersFine, TurnFine
  <2>2. QED
    BY <1>2, <1>5, <2>1, Ranges
<1>7. QED
  BY <1>1, <1>2, <1>3, <1>4, <1>5, <1>6 DEF Context

\* The messages of a version are settled once it exists.
LEMMA AnswersKept ==
    ASSUME Context,
           \/ MessagesKept
           \/ \E m \in Messages : StoredAs(m),
           NEW v \in Messages, v <= convo.inV, NEW rev, Answers(rev, v),
           reply[v].from >= 1, reply'[v].from = reply[v].from
    PROVE  Answers(rev, v)'
<1>1. CASE MessagesKept
  BY <1>1 DEF MessagesKept, Answers, Context
<1>2. ASSUME NEW m \in Messages, StoredAs(m) PROVE Answers(rev, v)'
  BY <1>2 DEF StoredAs, Answers, Context
<1>3. QED
  BY <1>1, <1>2

\* Nobody's turn is touched, nor any reply.
LEMMA QuietKeepsAnswers ==
    ASSUME Context, UNCHANGED <<turn, reply>>,
           \/ MessagesKept /\ ConvoKept
           \/ \E m \in Messages : StoredAs(m)
    PROVE  AnswerInv'
<1>1. convo'.inV \in Nat /\ convo'.inV >= convo.inV
  BY DEF Context, ConvoKept, StoredAs
<1>2. RepliesFine'
  BY <1>1 DEF Context, AnswerInv, RepliesFine
<1>3. ASSUME NEW w \in Turners PROVE TurnFine(w)'
  BY <1>1, <1>3 DEF Context, AnswerInv, WorkersFine, TurnFine, ConvoKept, StoredAs
<1>4. ASSUME NEW v \in Messages, NEW rev, reply[v].st # "none", Answers(rev, v)
      PROVE  Answers(rev, v)'
  BY <1>4, AnswersKept DEF AnswerInv, RepliesFine, Context
<1>5. ASSUME NEW w \in Turners PROVE AnswerFine(w)'
  <2>1. CASE turn[w].pc \notin Answering
    BY <2>1 DEF AnswerFine
  <2>2. CASE turn[w].pc \in Answering
    <3>1. AnswerFine(w) /\ turn[w].v \in Messages
      BY <2>2 DEF Context, AnswerInv, WorkersFine, Answering
    <3>2. Answers(turn[w].rev, turn[w].v)'
      BY <1>4, <2>2, <3>1 DEF AnswerFine
    <3>3. QED
      BY <2>2, <3>1, <3>2 DEF AnswerFine
  <2>3. QED
    BY <2>1, <2>2
<1>6. ReplyWithinOneOwner'
  BY <1>4 DEF Context, AnswerInv, ReplyWithinOneOwner, Answers
<1>7. QED
  BY <1>2, <1>3, <1>5, <1>6 DEF AnswerInv, WorkersFine

\* One worker's turn changes, and at most the reply of its version.  It
\* pauses and leaves the reply, or nobody else answers that version.
LEMMA OneTurnKeepsAnswers ==
    ASSUME Context, MessagesKept, ConvoKept, NEW w \in Turners,
           \A u \in Turners \ {w} : turn'[u] = turn[u],
           TurnFine(w)', AnswerFine(w)',
           \/ turn'[w].pc \notin Answering /\ UNCHANGED reply
           \/ \E v \in Messages :
                 /\ v <= convo.inV
                 /\ \A x \in Messages \ {v} : reply'[x] = reply[x]
                 /\ \A u \in Turners \ {w} : turn[u].pc \in Answering => turn[u].v # v
                 /\ turn'[w].pc \in Answering => turn'[w].v = v
                 /\ reply'[v].st \in {"PENDING", "PERMITTED", "SENT"} => reply'[v].usage
                 /\ reply'[v].st # "none" => reply'[v].from >= 1
                 /\ reply'[v].st \notin {"PERMITTED", "SENT"} => reply'[v].wire = 0
                 /\ reply'[v].wire <= 1
                 /\ reply'[v].st \in {"PERMITTED", "SENT"} =>
                       \A m \in Messages : msg'[m].ver \in reply'[v].from .. v => msg'[m].rev = reply'[v].rev
    PROVE  AnswerInv'
<1>1. convo'.inV = convo.inV
  BY DEF ConvoKept
<1>2. ASSUME NEW u \in Turners, u # w PROVE TurnFine(u)'
  BY <1>1, <1>2 DEF Context, AnswerInv, WorkersFine, TurnFine, ConvoKept
<1>3. ASSUME NEW x \in Messages, NEW rev, reply[x].st # "none", Answers(rev, x), reply'[x] = reply[x]
      PROVE  Answers(rev, x)'
  BY <1>3, AnswersKept DEF AnswerInv, RepliesFine, Context
<1>4. ASSUME NEW u \in Turners, u # w, turn[u].pc \in Answering
      PROVE  turn[u].v \in Messages /\ reply[turn[u].v].st # "none" /\ AnswerFine(u)
  BY <1>4 DEF Context, AnswerInv, WorkersFine, AnswerFine, Answering
<1>5. CASE turn'[w].pc \notin Answering /\ UNCHANGED reply
  <2>1. RepliesFine'
    BY <1>1, <1>5 DEF Context, AnswerInv, RepliesFine
  <2>2. ReplyWithinOneOwner'
    <3>1. ASSUME NEW x \in Messages, reply'[x].st \in {"PERMITTED", "SENT"}
          PROVE  \A m \in Messages : msg'[m].ver \in reply'[x].from .. x => msg'[m].rev = reply'[x].rev
      <4>1. reply'[x] = reply[x] /\ reply[x].st # "none"
        BY <1>5, <3>1
      <4>2. PICK rev : rev = reply[x].rev
        OBVIOUS
      <4>3. Answers(rev, x)
        BY <3>1, <4>1, <4>2 DEF Context, AnswerInv, ReplyWithinOneOwner, Answers
      <4>4. Answers(rev, x)'
        BY <1>3, <4>1, <4>3
      <4>5. QED
        BY <4>1, <4>2, <4>4 DEF Answers
    <3>2. QED
      BY <3>1 DEF ReplyWithinOneOwner
  <2>3. ASSUME NEW u \in Turners, u # w PROVE AnswerFine(u)'
    <3>1. CASE turn[u].pc \in Answering
      <4>1. Answers(turn[u].rev, turn[u].v)'
        BY <1>3, <1>4, <1>5, <2>3, <3>1 DEF AnswerFine
      <4>2. QED
        BY <1>4, <1>5, <2>3, <3>1, <4>1 DEF AnswerFine
    <3>2. QED
      BY <2>3, <3>1 DEF AnswerFine
  <2>4. QED
    BY <1>2, <2>1, <2>2, <2>3 DEF AnswerInv, WorkersFine
<1>6. ASSUME NEW v \in Messages,
             /\ v <= convo.inV
             /\ \A x \in Messages \ {v} : reply'[x] = reply[x]
             /\ \A u \in Turners \ {w} : turn[u].pc \in Answering => turn[u].v # v
             /\ turn'[w].pc \in Answering => turn'[w].v = v
             /\ reply'[v].st \in {"PENDING", "PERMITTED", "SENT"} => reply'[v].usage
             /\ reply'[v].st # "none" => reply'[v].from >= 1
             /\ reply'[v].st \notin {"PERMITTED", "SENT"} => reply'[v].wire = 0
             /\ reply'[v].wire <= 1
             /\ reply'[v].st \in {"PERMITTED", "SENT"} =>
                   \A m \in Messages : msg'[m].ver \in reply'[v].from .. v => msg'[m].rev = reply'[v].rev
      PROVE  AnswerInv'
  <2>1. RepliesFine'
    BY <1>1, <1>6 DEF Context, AnswerInv, RepliesFine
  <2>2. ReplyWithinOneOwner'
    <3>1. ASSUME NEW x \in Messages, x # v, reply'[x].st \in {"PERMITTED", "SENT"}
          PROVE  \A m \in Messages : msg'[m].ver \in reply'[x].from .. x => msg'[m].rev = reply'[x].rev
      <4>1. reply'[x] = reply[x] /\ reply[x].st # "none" /\ Answers(reply[x].rev, x)
        BY <1>6, <3>1 DEF Context, AnswerInv, ReplyWithinOneOwner, Answers
      <4>2. Answers(reply[x].rev, x)'
        BY <1>3, <4>1
      <4>3. QED
        BY <4>1, <4>2 DEF Answers
    <3>2. QED
      BY <1>6, <3>1 DEF ReplyWithinOneOwner
  <2>3. ASSUME NEW u \in Turners, u # w PROVE AnswerFine(u)'
    <3>1. CASE turn[u].pc \in Answering
      <4>1. turn[u].v # v /\ reply'[turn[u].v] = reply[turn[u].v]
        BY <1>4, <1>6, <2>3, <3>1
      <4>2. Answers(turn[u].rev, turn[u].v)'
        BY <1>3, <1>4, <2>3, <3>1, <4>1 DEF AnswerFine
      <4>3. QED
        BY <1>4, <1>6, <2>3, <3>1, <4>1, <4>2 DEF AnswerFine
    <3>2. QED
      BY <2>3, <3>1 DEF AnswerFine
  <2>4. QED
    BY <1>2, <2>1, <2>2, <2>3 DEF AnswerInv, WorkersFine
<1>7. QED
  BY <1>5, <1>6

LEMMA PauseKeepsAnswers ==
    ASSUME Context, MessagesKept, ConvoKept, NEW w \in Turners, PausesOrLeaves(w), UNCHANGED reply
    PROVE  /\ AnswerInv'
           /\ turn' \in [Turners -> TurnRow]
<1>1. CASE LeaveTurn(w)
  <2>1. /\ turn' \in [Turners -> TurnRow] /\ turn'[w].pc = "idle"
        /\ \A u \in Turners \ {w} : turn'[u] = turn[u]
    BY <1>1, Ranges DEF Context, LeaveTurn, IdleTurn, TurnRow, TurnSteps
  <2>2. TurnFine(w)' /\ AnswerFine(w)' /\ turn'[w].pc \notin Answering
    BY <2>1 DEF TurnFine, AnswerFine, Answering
  <2>3. QED
    BY <2>1, <2>2, OneTurnKeepsAnswers
<1>2. ASSUME NEW pc \in Pausing, GoTo(w, pc) PROVE AnswerInv' /\ turn' \in [Turners -> TurnRow]
  <2>1. /\ turn' \in [Turners -> TurnRow] /\ turn'[w].pc = pc
        /\ turn'[w].v = turn[w].v /\ turn'[w].rev = turn[w].rev
        /\ \A u \in Turners \ {w} : turn'[u] = turn[u]
    BY <1>2 DEF Context, GoTo, TurnRow, Pausing
  <2>2. TurnFine(w)'
    BY <2>1 DEF PausesOrLeaves, Context, AnswerInv, WorkersFine, TurnFine, ConvoKept
  <2>3. AnswerFine(w)' /\ turn'[w].pc \notin Answering
    BY <2>1 DEF AnswerFine, Pausing
  <2>4. QED
    BY <2>1, <2>2, <2>3, OneTurnKeepsAnswers
<1>3. QED
  BY <1>1, <1>2 DEF PausesOrLeaves

LEMMA TakeKeepsAnswers ==
    ASSUME Context, MessagesKept, ConvoKept, NEW w \in Turners, Takes(w)
    PROVE  AnswerInv' /\ turn' \in [Turners -> TurnRow] /\ UNCHANGED reply
<1>1. PICK v \in Messages :
        /\ v = convo.inV /\ convo.pend
        /\ turn' = [turn EXCEPT ![w] = [pc |-> "claim", v |-> v, rev |-> convo.rev]]
  BY DEF Takes
<1>2. v \in Versions /\ convo.rev \in Revisions
  BY Ranges DEF Context, ConvoRow
<1>3. /\ turn' \in [Turners -> TurnRow] /\ turn'[w] = [pc |-> "claim", v |-> v, rev |-> convo.rev]
      /\ \A u \in Turners \ {w} : turn'[u] = turn[u]
  BY <1>1, <1>2 DEF Context, TurnRow, TurnSteps
<1>4. TurnFine(w)'
  BY <1>1, <1>3 DEF Takes, TurnFine, Context
<1>5. AnswerFine(w)' /\ turn'[w].pc \notin Answering
  BY <1>3 DEF AnswerFine, Answering
<1>6. QED
  BY <1>3, <1>4, <1>5, OneTurnKeepsAnswers DEF Takes

\* Where an answering worker stands.
LEMMA Answerer ==
    ASSUME Context, NEW w \in Turners, turn[w].pc \in Answering
    PROVE  /\ turn[w].v \in Messages /\ turn[w].v <= convo.inV /\ TurnFine(w) /\ AnswerFine(w)
           /\ reply[turn[w].v] \in ReplyRow /\ reply[turn[w].v].from >= 1
           /\ reply[turn[w].v].usage /\ reply[turn[w].v].wire = 0
           /\ \A u \in Turners \ {w} : turn[u].pc \in Answering => turn[u].v # turn[w].v
<1>1. turn[w].v \in Messages /\ turn[w].v <= convo.inV /\ TurnFine(w) /\ AnswerFine(w)
  BY DEF Context, AnswerInv, WorkersFine, Answering
<1>2. reply[turn[w].v] \in ReplyRow
  BY <1>1 DEF Context
<1>3. QED
  BY <1>1, <1>2 DEF Context, AnswerInv, RepliesFine, AnswerFine

LEMMA FailKeepsAnswers ==
    ASSUME Context, MessagesKept, ConvoKept, NEW w \in Turners, Fails(w)
    PROVE  /\ AnswerInv'
           /\ turn' \in [Turners -> TurnRow] /\ reply' \in [Messages -> ReplyRow]
<1> DEFINE v == turn[w].v
<1>1. turn[w].pc \in Answering
  BY DEF Fails, Preparing, Answering
<1>2. reply' = [reply EXCEPT ![v].st = "FAILED", ![v].usage = FALSE]
  BY <1>1, Answerer DEF Fails, Failed, AnswerFine, Preparing
<1>3. /\ reply' \in [Messages -> ReplyRow]
      /\ \A x \in Messages \ {v} : reply'[x] = reply[x]
      /\ reply'[v].st = "FAILED" /\ reply'[v].from = reply[v].from /\ reply'[v].wire = reply[v].wire
  <2>1. v \in Messages /\ reply[v] \in ReplyRow /\ reply \in [Messages -> ReplyRow]
    BY <1>1, Answerer DEF Context
  <2> HIDE DEF v
  <2>2. reply' = [reply EXCEPT ![v] = [reply[v] EXCEPT !.st = "FAILED", !.usage = FALSE]]
    BY <1>2, <2>1
  <2>3. [reply[v] EXCEPT !.st = "FAILED", !.usage = FALSE] \in ReplyRow
    BY <2>1 DEF ReplyRow
  <2> QED  BY <2>1, <2>2, <2>3 DEF ReplyRow
<1>4. /\ turn' \in [Turners -> TurnRow] /\ turn'[w].pc \notin Answering
      /\ turn'[w].pc # "idle" => turn'[w].v = v /\ turn'[w].rev = turn[w].rev
      /\ \A u \in Turners \ {w} : turn'[u] = turn[u]
  <2>1. CASE LeaveTurn(w)
    BY <2>1, Ranges DEF Context, LeaveTurn, IdleTurn, TurnRow, TurnSteps, Answering
  <2>2. ASSUME NEW pc \in Pausing, GoTo(w, pc)
        PROVE  /\ turn' \in [Turners -> TurnRow] /\ turn'[w].pc \notin Answering
               /\ turn'[w].v = v /\ turn'[w].rev = turn[w].rev
               /\ \A u \in Turners \ {w} : turn'[u] = turn[u]
    BY <2>2 DEF Context, GoTo, TurnRow, Pausing
  <2>3. QED
    BY <2>1, <2>2 DEF Fails, PausesOrLeaves
<1>5. TurnFine(w)' /\ AnswerFine(w)'
  BY <1>1, <1>4, Answerer DEF TurnFine, AnswerFine, ConvoKept, Answering
<1>6. v \in Messages /\ v <= convo.inV /\ reply[v].from >= 1 /\ reply[v].wire = 0
      /\ \A u \in Turners \ {w} : turn[u].pc \in Answering => turn[u].v # v
  BY <1>1, Answerer
<1>7. QED
  BY <1>3, <1>4, <1>5, <1>6, OneTurnKeepsAnswers

\* The step that begins an answer: nobody else has the usage, and what the
\* turn holds now came under one control.
LEMMA ReserveKeepsAnswers ==
    ASSUME Context, MessagesKept, ConvoKept, NEW w \in Turners, Reserves(w)
    PROVE  /\ AnswerInv'
           /\ turn' \in [Turners -> TurnRow] /\ reply' \in [Messages -> ReplyRow]
<1> DEFINE v == turn[w].v
<1>1. /\ v \in Messages /\ v <= convo.inV /\ TurnFine(w) /\ turn[w].pc = "admit"
      /\ reply[v] \in ReplyRow /\ ~reply[v].usage
  BY DEF Reserves, Unreserved, Context, AnswerInv, WorkersFine
<1>2. v = convo.inV /\ convo.proc = v /\ convo.cr = turn[w].rev
  BY DEF Reserves, HasChanged, CheckControl, OwnedBy
<1>3. convo.pend /\ convo.from >= 1 /\ convo.from \in Versions /\ convo.rev = convo.cr
  <2>1. convo.pend
    BY <1>1, <1>2 DEF Context, ConvoInv, PendingFine
  <2>2. convo.from \in Versions /\ convo.done \in Nat
    BY Numbers DEF Context, ConvoRow
  <2>3. convo.from >= 1
    BY <2>1, <2>2 DEF Context, ConvoInv, PendingFine
  <2>4. QED
    BY <1>1, <1>2, <2>1, <2>2, <2>3 DEF TurnFine
<1>4. /\ reply' \in [Messages -> ReplyRow]
      /\ \A x \in Messages \ {v} : reply'[x] = reply[x]
      /\ reply'[v].st = "PENDING" /\ reply'[v].usage = TRUE /\ reply'[v].from = convo.from
      /\ reply'[v].wire = reply[v].wire
  <2>1. reply' = [reply EXCEPT ![v] = [reply[v] EXCEPT !.st = "PENDING", !.usage = TRUE, !.from = convo.from]]
    BY <1>1 DEF Reserves, Context
  <2> DEFINE r == [reply[v] EXCEPT !.st = "PENDING", !.usage = TRUE, !.from = convo.from]
  <2>2. /\ r \in ReplyRow /\ r.st = "PENDING" /\ r.usage = TRUE /\ r.from = convo.from
        /\ r.wire = reply[v].wire
    BY <1>1, <1>3 DEF ReplyRow
  <2> HIDE DEF r
  <2>3. reply' = [reply EXCEPT ![v] = r]
    BY <2>1 DEF r
  <2>4. QED
    BY <1>1, <2>2, <2>3 DEF Context
<1>5. reply[v].wire = 0
  BY <1>1 DEF Context, AnswerInv, RepliesFine
<1>6. PICK pc \in Preparing : GoTo(w, pc)
  BY DEF Reserves
<1>7. /\ turn' \in [Turners -> TurnRow] /\ turn'[w].pc = pc
      /\ turn'[w].v = v /\ turn'[w].rev = turn[w].rev
      /\ \A u \in Turners \ {w} : turn'[u] = turn[u]
  BY <1>6 DEF Context, GoTo, TurnRow, Preparing, TurnSteps
<1>8. ASSUME NEW u \in Turners \ {w}, turn[u].pc \in Answering PROVE turn[u].v # v
  BY <1>1, <1>8, Answerer
<1>9. \A m \in Messages : msg'[m].ver \in convo.from .. v => msg'[m].rev = turn[w].rev
  <2>1. ASSUME NEW m \in Messages, msg[m].ver \in convo.from .. v PROVE msg[m].rev = turn[w].rev
    <3>1. /\ msg[m].ver >= convo.from /\ msg[m].rev \in Nat /\ convo.cr \in Nat
          /\ RevisionsFine
      BY <1>3, <2>1, Ranges DEF Context, ConvoInv
    <3>2. msg[m].rev >= convo.rev /\ msg[m].rev <= convo.cr
      BY <1>3, <3>1 DEF RevisionsFine
    <3>3. QED
      BY <1>2, <1>3, <3>1, <3>2
  <2>2. QED
    BY <2>1 DEF MessagesKept
<1>10. TurnFine(w)'
  BY <1>1, <1>7 DEF TurnFine, ConvoKept
<1>11. AnswerFine(w)'
  <2>1. Answers(turn[w].rev, turn[w].v)'
    BY <1>4, <1>7, <1>9 DEF Answers
  <2>2. \A u \in Turners : turn'[u].pc \in Answering /\ turn'[u].v = v => u = w
    BY <1>7, <1>8
  <2>3. QED
    BY <1>4, <1>5, <1>7, <2>1, <2>2 DEF AnswerFine, Preparing
<1>12. QED
  BY <1>1, <1>3, <1>4, <1>5, <1>7, <1>8, <1>10, <1>11, OneTurnKeepsAnswers

LEMMA PrepareKeepsAnswers ==
    ASSUME Context, MessagesKept, ConvoKept, NEW w \in Turners, Prepares(w)
    PROVE  AnswerInv' /\ turn' \in [Turners -> TurnRow] /\ UNCHANGED reply
<1> DEFINE v == turn[w].v
<1>0. turn[w].pc \in Answering /\ turn[w].pc # "provider" /\ UNCHANGED reply
  BY DEF Prepares, Preparing, Answering
<1>1. /\ v \in Messages /\ v <= convo.inV /\ TurnFine(w) /\ AnswerFine(w)
      /\ reply[v].from >= 1 /\ reply[v].usage /\ reply[v].wire = 0
      /\ \A u \in Turners \ {w} : turn[u].pc \in Answering => turn[u].v # v
  BY <1>0, Answerer
<1>2. PICK pc \in Preparing : GoTo(w, pc)
  BY DEF Prepares
<1>3. /\ turn' \in [Turners -> TurnRow] /\ turn'[w].pc = pc
      /\ turn'[w].v = v /\ turn'[w].rev = turn[w].rev
      /\ \A u \in Turners \ {w} : turn'[u] = turn[u]
  BY <1>2 DEF Context, GoTo, TurnRow, Preparing, TurnSteps
<1>4. TurnFine(w)'
  BY <1>0, <1>1, <1>3 DEF TurnFine, ConvoKept, Answering
<1>5. reply[v].st = "PENDING" /\ Answers(turn[w].rev, v)
  BY <1>0, <1>1 DEF AnswerFine
<1>6. AnswerFine(w)'
  <2>1. Answers(turn[w].rev, turn[w].v)'
    BY <1>0, <1>1, <1>3, <1>5 DEF Answers, MessagesKept
  <2>2. \A u \in Turners : turn'[u].pc \in Answering /\ turn'[u].v = v => u = w
    BY <1>1, <1>3
  <2>3. QED
    BY <1>0, <1>1, <1>3, <1>5, <2>1, <2>2 DEF AnswerFine, Preparing
<1>7. QED
  BY <1>0, <1>1, <1>3, <1>4, <1>5, <1>6, OneTurnKeepsAnswers

LEMMA PermitKeepsAnswers ==
    ASSUME Context, MessagesKept, ConvoKept, NEW w \in Turners, Permits(w)
    PROVE  /\ AnswerInv'
           /\ turn' \in [Turners -> TurnRow] /\ reply' \in [Messages -> ReplyRow]
<1> DEFINE v == turn[w].v
<1>0. turn[w].pc \in Answering /\ turn[w].pc # "provider" /\ turn[w].rev \in Revisions
  BY DEF Permits, Answering, Context
<1>1. /\ v \in Messages /\ v <= convo.inV /\ TurnFine(w) /\ AnswerFine(w)
      /\ reply[v] \in ReplyRow
      /\ reply[v].from >= 1 /\ reply[v].usage /\ reply[v].wire = 0
      /\ \A u \in Turners \ {w} : turn[u].pc \in Answering => turn[u].v # v
  BY <1>0, Answerer
<1>2. /\ turn' \in [Turners -> TurnRow] /\ turn'[w].pc = "provider"
      /\ turn'[w].v = v /\ turn'[w].rev = turn[w].rev
      /\ \A u \in Turners \ {w} : turn'[u] = turn[u]
  BY DEF Permits, Context, GoTo, TurnRow, TurnSteps
<1>3. /\ reply' \in [Messages -> ReplyRow]
      /\ \A x \in Messages \ {v} : reply'[x] = reply[x]
      /\ reply'[v].st = "PERMITTED" /\ reply'[v].rev = turn[w].rev
      /\ reply'[v].usage = reply[v].usage /\ reply'[v].from = reply[v].from /\ reply'[v].wire = reply[v].wire
  BY <1>0, <1>1 DEF Permits, Context, ReplyRow
<1>4. TurnFine(w)'
  BY <1>0, <1>1, <1>2 DEF TurnFine, ConvoKept, Answering
<1>5. \A m \in Messages : msg'[m].ver \in reply'[v].from .. v => msg'[m].rev = reply'[v].rev
  BY <1>0, <1>1, <1>3 DEF AnswerFine, Answers, MessagesKept
<1>6. AnswerFine(w)'
  <2>1. Answers(turn[w].rev, turn[w].v)'
    BY <1>2, <1>3, <1>5 DEF Answers
  <2>2. \A u \in Turners : turn'[u].pc \in Answering /\ turn'[u].v = v => u = w
    BY <1>1, <1>2
  <2>3. QED
    BY <1>1, <1>2, <1>3, <2>1, <2>2 DEF AnswerFine
<1>7. reply'[v].usage /\ reply'[v].from >= 1 /\ reply'[v].wire <= 1
  BY <1>1, <1>3
<1>8. QED
  BY <1>1, <1>2, <1>3, <1>4, <1>5, <1>6, <1>7, OneTurnKeepsAnswers

\* The only step that reaches WhatsApp, by the one who has the permit.
LEMMA SendKeepsAnswers ==
    ASSUME Context, MessagesKept, ConvoKept, NEW w \in Turners, Sends(w)
    PROVE  /\ AnswerInv'
           /\ turn' \in [Turners -> TurnRow] /\ reply' \in [Messages -> ReplyRow]
<1> DEFINE v == turn[w].v
<1>0. turn[w].pc \in Answering /\ turn[w].pc = "provider"
  BY DEF Sends, Answering
<1>1. /\ v \in Messages /\ v <= convo.inV /\ TurnFine(w) /\ AnswerFine(w)
      /\ reply[v] \in ReplyRow
      /\ reply[v].from >= 1 /\ reply[v].usage /\ reply[v].wire = 0
      /\ \A u \in Turners \ {w} : turn[u].pc \in Answering => turn[u].v # v
  BY <1>0, Answerer
<1>2. reply[v].st = "PERMITTED" /\ Answers(turn[w].rev, v)
  BY <1>0, <1>1 DEF AnswerFine
<1>3. \A m \in Messages : msg[m].ver \in reply[v].from .. v => msg[m].rev = reply[v].rev
  BY <1>1, <1>2 DEF Context, AnswerInv, ReplyWithinOneOwner
<1>4. /\ reply' \in [Messages -> ReplyRow]
      /\ \A x \in Messages \ {v} : reply'[x] = reply[x]
      /\ reply'[v].st \in {"PERMITTED", "SENT"} /\ reply'[v].rev = reply[v].rev
      /\ reply'[v].usage = reply[v].usage /\ reply'[v].from = reply[v].from /\ reply'[v].wire = 1
  <2>1. 1 \in Quiet
    BY Ranges
  <2>a. v \in Messages /\ reply[v] \in ReplyRow /\ reply \in [Messages -> ReplyRow]
        /\ reply[v].wire = 0 /\ reply[v].st = "PERMITTED"
    BY <1>1, <1>2 DEF Context
  <2> HIDE DEF v
  <2>2. CASE reply' = [reply EXCEPT ![v].st = "SENT", ![v].wire = @ + 1]
    <3> DEFINE sent == [reply EXCEPT ![v] = [reply[v] EXCEPT !.st = "SENT"]]
    <3>0. sent[v].wire = 0 /\ reply' = [sent EXCEPT ![v].wire = sent[v].wire + 1]
      BY <2>a, <2>2 DEF ReplyRow
    <3>1. /\ sent \in [Messages -> ReplyRow] /\ \A x \in Messages \ {v} : sent[x] = reply[x]
          /\ sent[v] = [reply[v] EXCEPT !.st = "SENT"]
      BY <2>a, <2>1 DEF ReplyRow
    <3>2. /\ sent[v].st = "SENT" /\ sent[v].rev = reply[v].rev /\ sent[v].usage = reply[v].usage
          /\ sent[v].from = reply[v].from
      BY <2>a, <3>1 DEF ReplyRow
    <3> HIDE DEF sent
    <3>3. reply' = [sent EXCEPT ![v] = [sent[v] EXCEPT !.wire = 1]]
      BY <3>0
    <3>4. sent[v] \in ReplyRow /\ [sent[v] EXCEPT !.wire = 1] \in ReplyRow
      BY <2>a, <2>1, <3>1 DEF ReplyRow
    <3>5. reply' \in [Messages -> ReplyRow] /\ \A x \in Messages \ {v} : reply'[x] = reply[x]
      BY <2>a, <3>1, <3>3, <3>4
    <3>6. reply'[v] = [sent[v] EXCEPT !.wire = 1]
      BY <2>a, <3>1, <3>3
    <3> QED  BY <3>2, <3>4, <3>5, <3>6 DEF ReplyRow
  <2>3. CASE reply' = [reply EXCEPT ![v].wire = @ + 1]
    <3>1. reply' = [reply EXCEPT ![v] = [reply[v] EXCEPT !.wire = 1]]
      BY <2>a, <2>3
    <3>2. [reply[v] EXCEPT !.wire = 1] \in ReplyRow
      BY <2>a, <2>1 DEF ReplyRow
    <3> QED  BY <2>a, <3>1, <3>2 DEF ReplyRow
  <2>4. QED
    BY <2>2, <2>3 DEF Sends, v
<1>5. /\ turn' \in [Turners -> TurnRow] /\ turn'[w].pc \notin Answering
      /\ turn'[w].pc # "idle" => turn'[w].v = v /\ turn'[w].rev = turn[w].rev
      /\ \A u \in Turners \ {w} : turn'[u] = turn[u]
  <2>1. CASE LeaveTurn(w)
    BY <2>1, Ranges DEF Context, LeaveTurn, IdleTurn, TurnRow, TurnSteps, Answering
  <2>2. ASSUME NEW pc \in Pausing, GoTo(w, pc)
        PROVE  /\ turn' \in [Turners -> TurnRow] /\ turn'[w].pc \notin Answering
               /\ turn'[w].v = v /\ turn'[w].rev = turn[w].rev
               /\ \A u \in Turners \ {w} : turn'[u] = turn[u]
    BY <2>2 DEF Context, GoTo, TurnRow, Pausing
  <2>3. QED
    BY <2>1, <2>2 DEF Sends, PausesOrLeaves
<1>6. TurnFine(w)' /\ AnswerFine(w)'
  BY <1>0, <1>1, <1>5 DEF TurnFine, AnswerFine, ConvoKept, Answering
<1>7. \A m \in Messages : msg'[m].ver \in reply'[v].from .. v => msg'[m].rev = reply'[v].rev
  BY <1>3, <1>4 DEF MessagesKept
<1>8. reply'[v].usage /\ reply'[v].from >= 1 /\ reply'[v].wire <= 1
  BY <1>1, <1>4
<1>9. QED
  BY <1>1, <1>4, <1>5, <1>6, <1>7, <1>8, OneTurnKeepsAnswers

LEMMA AnswersStep ==
    ASSUME TurnInv, [TurnNext]_turnVars
    PROVE  /\ AnswerInv'
           /\ turn' \in [Turners -> TurnRow] /\ reply' \in [Messages -> ReplyRow]
<1>0. Context /\ TurnTypeOK /\ InboxFine /\ ConvoInv
  BY InContext DEF TurnInv
<1>1. CASE UNCHANGED <<turn, reply>>
  <2>1. (MessagesKept /\ ConvoKept) \/ \E m \in Messages : StoredAs(m)
    BY <1>0, StepStores, AfterStore
  <2>2. QED
    BY <1>0, <1>1, <2>1, QuietKeepsAnswers DEF Context
<1>2. ASSUME MessagesKept, ConvoKept, NEW w \in Turners, WorkerEffect(w), ~UNCHANGED <<turn, reply>>
      PROVE  /\ AnswerInv'
             /\ turn' \in [Turners -> TurnRow] /\ reply' \in [Messages -> ReplyRow]
  <2>1. reply \in [Messages -> ReplyRow]
    BY <1>0 DEF Context
  <2>2. QED
    BY <1>0, <1>2, <2>1, PauseKeepsAnswers, TakeKeepsAnswers, FailKeepsAnswers, ReserveKeepsAnswers,
       PrepareKeepsAnswers, PermitKeepsAnswers, SendKeepsAnswers DEF WorkerEffect
<1>3. QED
  BY <1>1, <1>2, StepEffects

-----------------------------------------------------------------------------
(* Types, and the theorems.                                                *)

LEMMA InboxTypes ==
    ASSUME TurnInv, [TurnNext]_turnVars
    PROVE  /\ msg' \in [Messages -> MsgRow] /\ inbox' \in [Messages -> InboxStates]
           /\ stopped' \in BOOLEAN /\ open' \in BOOLEAN /\ mishaps' \in 0 .. MaxMishaps
<1>0. /\ TurnTypeOK /\ InboxFine /\ ConvoInv /\ msg \in [Messages -> MsgRow]
      /\ inbox \in [Messages -> InboxStates]
      /\ stopped \in BOOLEAN /\ open \in BOOLEAN /\ mishaps \in 0 .. MaxMishaps
  BY Types DEF TurnInv
<1>1. Mishap => mishaps' \in 0 .. MaxMishaps
  BY <1>0, TurnAssumption DEF Mishap
<1>2. ASSUME NEW m \in Messages, Receive(m) \/ InboundFails(m)
      PROVE  /\ msg' \in [Messages -> MsgRow] /\ inbox' \in [Messages -> InboxStates]
             /\ stopped' \in BOOLEAN /\ open' \in BOOLEAN /\ mishaps' \in 0 .. MaxMishaps
  <2>1. inbox' \in [Messages -> InboxStates]
    <3>1. \E step \in InboxStates : To(m, step)
      BY <1>2 DEF Receive, WriteLocalStop, DenyRaw, SendGuidance, PersistHistorical, ReceiveText,
         ReceiveUnsupported, ReserveAudio, CompleteTranscript, RejectTranscript, EnqueueReceived,
         InboundFails, InboxStates
    <3>2. QED
      BY <1>0, <3>1 DEF To
  <2>2. stopped' \in BOOLEAN /\ open' \in BOOLEAN /\ mishaps' \in 0 .. MaxMishaps
    BY <1>0, <1>1, <1>2 DEF Receive, WriteLocalStop, DenyRaw, SendGuidance, PersistHistorical, ReceiveText,
       ReceiveUnsupported, ReserveAudio, CompleteTranscript, RejectTranscript, EnqueueReceived, InboundFails
  <2>3. msg' \in [Messages -> MsgRow]
    <3>1. CASE Stores(m)
      BY <1>0, <3>1, AfterStore DEF StoredAs
    <3>2. CASE ~Stores(m)
      <4>1. CASE WriteLocalStop(m) \/ DenyRaw(m) \/ SendGuidance(m) \/ EnqueueReceived(m) \/ InboundFails(m)
        BY <1>0, <4>1 DEF WriteLocalStop, DenyRaw, SendGuidance, EnqueueReceived, InboundFails, MsgRow
      <4>2. CASE PersistHistorical(m) \/ ReserveAudio(m) \/ RejectTranscript(m)
        BY <1>0, <4>2 DEF PersistHistorical, ReserveAudio, RejectTranscript, MsgRow
      <4>3. CASE ReceiveText(m) \/ ReceiveUnsupported(m)
        BY <1>0, <3>2, <4>3 DEF ReceiveText, ReceiveUnsupported, Incoming, Stores
      <4>4. CASE CompleteTranscript(m)
        BY <1>0, <3>2, <4>4 DEF CompleteTranscript, Stores, MsgRow
      <4>5. QED
        BY <1>2, <4>1, <4>2, <4>3, <4>4 DEF Receive
    <3>3. QED
      BY <3>1, <3>2
  <2>4. QED
    BY <2>1, <2>2, <2>3
<1>3. CASE \/ \E w \in Turners : \/ \E v \in Messages : TakeTurnJob(w, v)
                                 \/ TurnStep(w) \/ TurnError(w) \/ AnswerLost(w) \/ JobStalls(w)
           \/ LeaseLapses \/ RepairPendingTurn \/ WindowPasses \/ FlipControl \/ CloseRecovery
           \/ UNCHANGED turnVars
  <2>1. CASE \E w \in Turners : ModeratePending(w)
    BY <1>0, <2>1, ModerationKeeps DEF ModeratePending
  <2>2. CASE UNCHANGED Holding /\ (Mishap \/ UNCHANGED mishaps)
    BY <1>0, <1>1, <2>2 DEF Holding
  <2>3. ASSUME NEW w \in Turners, NEW v \in Messages, TakeTurnJob(w, v)
        PROVE  UNCHANGED Holding /\ UNCHANGED mishaps
    BY <2>3 DEF TakeTurnJob, Holding
  <2>4. ASSUME NEW w \in Turners, TurnStep(w), ~ModeratePending(w)
        PROVE  UNCHANGED Holding /\ UNCHANGED mishaps
    <3>1. CASE Claim(w) \/ LoadTurn(w) \/ AdmitTurn(w)
      BY <3>1 DEF Claim, LoadTurn, AdmitTurn, Holding
    <3>2. CASE RunAgent(w) \/ ComposeAiOutbound(w) \/ Permit(w)
      BY <3>2 DEF RunAgent, ComposeAiOutbound, Permit, Holding
    <3>3. CASE CallWhatsApp(w) \/ FinishTurn(w)
      BY <3>3 DEF CallWhatsApp, FinishTurn, Holding
    <3>4. QED
      BY <2>4, <3>1, <3>2, <3>3 DEF TurnStep
  <2>5. ASSUME NEW w \in Turners, TurnError(w) \/ AnswerLost(w) \/ JobStalls(w)
        PROVE  UNCHANGED Holding /\ Mishap
    BY <2>5 DEF TurnError, AnswerLost, JobStalls, Holding
  <2>6. ASSUME LeaseLapses \/ RepairPendingTurn \/ WindowPasses \/ FlipControl
        PROVE  UNCHANGED Holding /\ (Mishap \/ UNCHANGED mishaps)
    BY <2>6 DEF LeaseLapses, RepairPendingTurn, WindowPasses, FlipControl, Holding
  <2>7. CASE CloseRecovery
    BY <1>0, <1>1, <2>7 DEF CloseRecovery
  <2>8. CASE UNCHANGED turnVars
    BY <1>0, <2>8 DEF turnVars
  <2>9. QED
    BY <1>3, <2>1, <2>2, <2>3, <2>4, <2>5, <2>6, <2>7, <2>8
<1>4. QED
  BY <1>2, <1>3 DEF TurnNext

LEMMA TurnInvStep == TurnInv /\ [TurnNext]_turnVars => TurnInv'
<1> SUFFICES ASSUME TurnInv, [TurnNext]_turnVars PROVE TurnInv'
  OBVIOUS
<1>0. TurnTypeOK /\ InboxFine /\ ConvoInv /\ JobsFine /\ convo \in ConvoRow
  BY Types DEF TurnInv
<1>1. /\ convo' \in ConvoRow
      /\ convo'.inV >= convo.inV /\ convo'.inV \in Nat /\ convo.inV \in Nat
  <2>1. \/ convo' \in ConvoRow /\ convo'.inV = convo.inV + 1
        \/ convo' \in ConvoRow /\ convo'.inV = convo.inV
    BY <1>0, StepStores, AfterStore DEF StoredAs, ConvoKept
  <2>2. QED
    BY <1>0, <2>1, Numbers
<1>2. turnJob' \in [Messages -> JobStates] /\ JobsFine'
  BY <1>0, <1>1, JobsStep, Ranges DEF JobsKept, JobsFine
<1>3. TurnTypeOK'
  BY <1>1, <1>2, InboxTypes, AnswersStep
  DEF TurnTypeOK, ConvoRow, MsgRow, InboxStates, JobStates, TurnRow, ReplyRow, Versions, Revisions, Quiet
<1>4. QED
  BY <1>2, <1>3, InboxFineStep, ConvoInvStep, AnswersStep DEF TurnInv

LEMMA TurnInvInit == TurnInit => TurnInv
<1> SUFFICES ASSUME TurnInit PROVE TurnInv
  OBVIOUS
<1>1. TurnTypeOK
  <2>1. Unassessed \in Verdicts
    BY TurnAssumption DEF Unassessed, Verdicts
  <2>2. convo \in ConvoRow
    BY Ranges DEF TurnInit, ConvoRow
  <2>3. /\ msg \in [Messages -> MsgRow] /\ inbox \in [Messages -> InboxStates]
        /\ turnJob \in [Messages -> JobStates]
    BY <2>1, Ranges DEF TurnInit, MsgRow, InboxStates, JobStates
  <2>4. turn \in [Turners -> TurnRow] /\ reply \in [Messages -> ReplyRow]
    BY Ranges DEF TurnInit, IdleTurn, TurnRow, TurnSteps, ReplyRow
  <2>5. QED
    <3>1. stopped \in BOOLEAN /\ open \in BOOLEAN /\ mishaps \in 0 .. MaxMishaps
      <4>1. 0 \in 0 .. MaxMishaps
        BY TurnAssumption
      <4>2. QED
        BY <4>1 DEF TurnInit
    <3>2. QED
      BY <2>2, <2>3, <2>4, <3>1, Types
<1>2. InboxFine /\ JobsFine
  BY DEF TurnInit, InboxFine, JobsFine
<1>3. VersionsFine
  BY TurnAssumption DEF TurnInit, VersionsFine, TranscriptsInOrder, Messages
<1>4. PendingFine /\ RevisionsFine
  BY DEF TurnInit, PendingFine, PendingIffUnprocessed, RevisionsFine
<1>5. AnswerInv
  BY DEF TurnInit, AnswerInv, RepliesFine, WorkersFine, TurnFine, AnswerFine, Answering, IdleTurn,
     ReplyWithinOneOwner
<1>6. QED
  BY <1>1, <1>2, <1>3, <1>4, <1>5 DEF TurnInv, ConvoInv

LEMMA TurnInvariant == TurnSpec => []TurnInv
BY TurnInvInit, TurnInvStep, PTL DEF TurnSpec

\* The conversation, its messages, jobs, turns and replies are well formed;
\* in particular there is room for the version of every message
\* (recordProcessableInbound).
THEOREM TurnsTyped == TurnSpec => []TurnTypeOK
<1>1. TurnInv => TurnTypeOK
  BY DEF TurnInv
<1>2. QED
  BY <1>1, TurnInvariant, PTL

\* A customer version is answered on WhatsApp at most once, for any number of
\* workers, however often their leases lapse and their jobs stall (reserve,
\* the send fence, the provider's lost answer).
THEOREM AnsweredAtMostOnce == TurnSpec => []AnsweredOnce
<1>1. TurnInv => AnsweredOnce
  BY DEF TurnInv, AnswerInv, RepliesFine, AnsweredOnce
<1>2. QED
  BY <1>1, TurnInvariant, PTL

\* No permitted reply spans a takeover, whatever control changes lie between
\* the messages and the permit (checkAutomatedTurn, the send fence).
THEOREM RepliesStayWithOwner == TurnSpec => []ReplyWithinOneOwner
<1>1. TurnInv => ReplyWithinOneOwner
  BY DEF TurnInv, AnswerInv
<1>2. QED
  BY <1>1, TurnInvariant, PTL

\* The pending turn is exactly the unprocessed rest of the versions, and the
\* versions keep the order of the messages (completeTurn,
\* suppressStaleTurn, InboundWhatsAppAudioService.complete).
THEOREM PendingTurnIsExact == TurnSpec => [](PendingIffUnprocessed /\ TranscriptsInOrder)
<1>1. TurnInv => PendingIffUnprocessed /\ TranscriptsInOrder
  BY DEF TurnInv, ConvoInv, PendingFine, VersionsFine
<1>2. QED
  BY <1>1, TurnInvariant, PTL

(***************************************************************************)
(* The recoveries of WooCommerce.                                          *)
(***************************************************************************)
(***************************************************************************)
(* The recovery of a WooCommerce checkout.                                 *)
(***************************************************************************)
GenNumbers == 0 .. MaxGen
EventNumbers == 0 .. MaxWooEvents
Times == 0 .. MaxSecond
WooFaultNumbers == 0 .. WooFaults

OrderKinds == {"placed", "paid"}
EvtRow == [kind : {"none", "full", "empty", "placed", "paid"}, at : Times,
           st : {"none", "queued", "busy", "done", "refused", "failed"}]
RecRow == [st : {"none", "CANCELLED", "COMPLETED", "EXPIRED"} \cup Live, at : Times,
           origin : EventNumbers, by : EventNumbers, order : BOOLEAN]
CandRow == [st : {"none", "delayed", "active", "failed"}, e : EventNumbers]
MarkRow == [gen : GenNumbers, e : EventNumbers, at : Times, state : {"none", "nonempty", "empty", "conflicting"}]
OrdRow == [kind : {"none", "placed", "paid"}, at : Times, ambiguous : BOOLEAN]
AttStates == {"none", "PENDING", "CANCELLED", "FAILED", "WAITING"}
WooMsgRow == [st : {"none", "PREPARED", "PERMITTED", "SENT", "FAILED"}, wire : BOOLEAN]
ResStates == {"none", "RESERVED", "RELEASED", "COMMITTED"}
InitStates == {"none", "waiting", "active", "failed"}
WkRow == [pc : WooSteps, job : {"none", "event", "cand", "init"}, e : EventNumbers,
          g : GenNumbers, prev : GenNumbers, paid : BOOLEAN, mk : MarkRow]

WooRows ==
    /\ evt \in [Events -> EvtRow] /\ rec \in [Gens -> RecRow] /\ cand \in [Gens -> CandRow]
    /\ idx \in GenNumbers /\ mark \in MarkRow /\ ord \in OrdRow
    /\ att \in [Gens -> AttStates] /\ wooMsg \in [Gens -> WooMsgRow] /\ res \in [Gens -> ResStates]
    /\ init \in [Gens -> InitStates]
    /\ lease \in WooWorkers \cup {NoLease} /\ wk \in [WooWorkers -> WkRow]
    /\ agreed \in BOOLEAN /\ lapses \in WooFaultNumbers /\ wooFaults \in WooFaultNumbers /\ lapses <= wooFaults

\* The generations are admitted one after the other, and only the newest can be live.
GensInv ==
    /\ \A g \in Gens : rec[g].st # "none" <=> g <= LatestGen
    /\ \A g \in Gens : rec[g].st \in Live => g = LatestGen

\* What a worker's step says of its job.
CheckoutSteps == {"checkout", "close", "place", "mark", "settle", "release"}
OrderSteps == {"order", "drop", "transition"}
MaturitySteps == {"mature", "insert", "clear"}
FirstSteps == {"first", "reserve", "again", "prepare", "permit", "call", "finalize", "sent", "failed"}
JobOf(w) ==
    /\ wk[w].pc = "idle" => wk[w].job = "none"
    /\ wk[w].pc \in CheckoutSteps \cup OrderSteps => wk[w].job = "event"
    /\ wk[w].pc \in MaturitySteps => wk[w].job = "cand"
    /\ wk[w].pc \in {"enqueue", "queue"} => wk[w].job \in {"event", "cand"} /\ wk[w].g \in Gens
    /\ wk[w].pc \in FirstSteps => wk[w].job = "init"
    /\ wk[w].pc \in {"close", "place", "mark"} => wk[w].g \in Gens
    /\ wk[w].pc \in {"close", "settle", "release"} => wk[w].prev \in Gens
    /\ wk[w].job \in {"cand", "init"} => wk[w].g \in Gens
    /\ wk[w].job = "cand" => wk[w].e \in Events
    /\ wk[w].job = "event" => /\ wk[w].e \in Events /\ evt[wk[w].e].st # "none"
                              /\ evt[wk[w].e].kind \in OrderKinds <=> wk[w].pc \in OrderSteps
JobsInv ==
    /\ \A w \in WooWorkers : JobOf(w)
    /\ \A w \in WooWorkers : wk[w].job = "init" => init[wk[w].g] = "active"
    /\ \A w \in WooWorkers : wk[w].job = "cand" => cand[wk[w].g].st = "active"
    /\ \A v, w \in WooWorkers : wk[v].job = wk[w].job /\ wk[v].job \in {"init", "cand"} /\ wk[v].g = wk[w].g => v = w
    /\ \A g \in Gens : cand[g].st # "none" => cand[g].e \in Events
    /\ \A e \in Events : evt[e].st # "none" => evt[e].kind # "none"

\* Who prepares, sends or releases knows the message's state: there is one dispatch of a generation, and a
\* cancelled recovery is never permitted.
MsgOf(w) ==
    /\ wk[w].pc \in {"reserve", "again", "prepare"} => wooMsg[wk[w].g].st = "none"
    /\ wk[w].pc = "permit" => wooMsg[wk[w].g].st = "PREPARED"
    /\ wk[w].pc = "call" => wooMsg[wk[w].g].st = "PERMITTED" /\ ~wooMsg[wk[w].g].wire
    /\ wk[w].pc = "failed" => wooMsg[wk[w].g].st = "FAILED"
    /\ wk[w].pc = "release" => rec[wk[w].prev].st = "CANCELLED" /\ PrePermit(wk[w].prev)
MsgInv ==
    /\ \A g \in Gens : /\ wooMsg[g].wire => wooMsg[g].st \in {"PERMITTED", "SENT"}
                       /\ wooMsg[g].st \in {"PERMITTED", "SENT"} => res[g] \in {"RESERVED", "COMMITTED"}
    /\ \A w \in WooWorkers : MsgOf(w)

\* The lease is held within a section; who is in one without it has lost it, and at most one has while one lease was lost.
HeldSteps == {"close", "place", "mark", "release", "drop", "transition", "insert", "queue"} \cup (FirstSteps \ {"first"})
Stray(w) == wk[w].pc \in HeldSteps /\ lease # w
LeaseInv ==
    /\ \A w \in WooWorkers : lease = w => wk[w].pc \in HeldSteps
    /\ lapses = 0 => \A w \in WooWorkers : ~Stray(w)
    /\ lapses <= 1 => \A v, w \in WooWorkers : Stray(v) /\ Stray(w) => v = w

\* While no lease was lost, the index names the candidate that is still to come.
NextGen(g) == g = LatestGen + 1
QueueInv ==
    lapses = 0 =>
    /\ \A g \in Gens : cand[g].st # "none" => g <= LatestGen + 1 /\ (NextGen(g) => idx = g)
    /\ \A w \in WooWorkers : wk[w].pc \in {"close", "place"} => NextGen(wk[w].g)

\* No worker inserts beyond the next generation.
InsertInv == \A w \in WooWorkers : wk[w].pc = "insert" => wk[w].g <= LatestGen + 1

\* A worker that lost the lease while it was to insert the next generation keeps the index.
Inserts(v) == wk[v].pc = "insert" /\ NextGen(wk[v].g)
Held(v) ==
    /\ idx = wk[v].g
    /\ \A p \in WooWorkers : wk[p].pc \in {"close", "place"} => NextGen(wk[p].g)
StrayInv == lapses <= 1 => \A v \in WooWorkers : Inserts(v) /\ Stray(v) => Held(v)

\* The order's evidence comes first, then the candidate goes, then the recovery.
OrderDone == \E e \in Events : evt[e].kind \in OrderKinds /\ evt[e].st = "done"
OrderInv ==
    /\ OrderDone \/ (\E w \in WooWorkers : wk[w].pc \in {"drop", "transition"}) => ord.kind # "none"
    /\ \A v, w \in WooWorkers : wk[v].pc = "insert" /\ wk[w].pc = "drop" => lease # v
    /\ lapses <= 1 /\ (OrderDone \/ \E w \in WooWorkers : wk[w].pc = "transition") => \A v \in WooWorkers : ~Inserts(v)
    /\ lapses <= 1 /\ OrderDone => \A g \in Gens : rec[g].st \notin Live

WooInv == WooRows /\ GensInv /\ JobsInv /\ MsgInv /\ LeaseInv /\ QueueInv /\ InsertInv /\ StrayInv /\ OrderInv

LEMMA WooBounds ==
    /\ Gens \subseteq GenNumbers /\ GenNumbers \subseteq Nat /\ 0 \in GenNumbers /\ 0 \notin Gens /\ 1 \in Gens
    /\ \A g \in GenNumbers : g # 0 => g \in Gens
    /\ \A n \in Nat : n <= MaxGen => n \in GenNumbers
    /\ \A g \in GenNumbers : g <= MaxGen
    /\ IsFiniteSet(Gens) /\ Cardinality(Gens) = MaxGen /\ MaxGen \in Nat
    /\ Events \subseteq EventNumbers /\ EventNumbers \subseteq Nat /\ 0 \in EventNumbers /\ 0 \notin Events
    /\ \A e \in EventNumbers : e # 0 => e \in Events
    /\ Times \subseteq Nat /\ 0 \in Times /\ Seconds \subseteq Times
    /\ WooFaultNumbers \subseteq Nat /\ 0 \in WooFaultNumbers
    /\ WooFaults \in Nat /\ \A n \in WooFaultNumbers : n < WooFaults => n + 1 \in WooFaultNumbers
    /\ NoLease \notin WooWorkers
<1>1. IsFiniteSet(Gens) /\ Cardinality(Gens) = MaxGen
  BY WooAssumption, FS_Interval DEF Gens
<1>2. /\ Gens \subseteq GenNumbers /\ GenNumbers \subseteq Nat /\ 0 \in GenNumbers /\ 0 \notin Gens /\ 1 \in Gens
      /\ \A g \in GenNumbers : g # 0 => g \in Gens
      /\ \A n \in Nat : n <= MaxGen => n \in GenNumbers
      /\ \A g \in GenNumbers : g <= MaxGen
  BY WooAssumption DEF Gens, GenNumbers
<1>3. /\ Events \subseteq EventNumbers /\ EventNumbers \subseteq Nat /\ 0 \in EventNumbers /\ 0 \notin Events
      /\ \A e \in EventNumbers : e # 0 => e \in Events
      /\ Times \subseteq Nat /\ 0 \in Times /\ Seconds \subseteq Times
  BY WooAssumption DEF Events, EventNumbers, Times, Seconds
<1> QED  BY <1>1, <1>2, <1>3, WooAssumption DEF WooFaultNumbers

LEMMA WooBlanks ==
    /\ NoMark \in MarkRow /\ NoCand \in CandRow /\ NoRec \in RecRow /\ IdleWorker \in WkRow
    /\ NoCand.st = "none" /\ NoRec.st = "none"
    /\ IdleWorker.pc = "idle" /\ IdleWorker.job = "none"
<1>1. NoMark \in MarkRow
  BY WooBounds DEF NoMark, MarkRow
<1> QED
  BY <1>1, WooBounds DEF NoCand, CandRow, NoRec, RecRow, IdleWorker, WkRow, WooSteps

LEMMA WooRowsTyped == WooRows => WooTypeOK
BY DEF WooRows, WooTypeOK, EvtRow, RecRow, CandRow, MarkRow, OrdRow, AttStates, WooMsgRow, ResStates, InitStates, WkRow,
       GenNumbers, EventNumbers, Times, WooFaultNumbers, Watermarks

\* The fields of the rows.
LEMMA EvtFields == ASSUME NEW x \in EvtRow PROVE
    /\ x.kind \in {"none", "full", "empty", "placed", "paid"} /\ x.at \in Times
    /\ x.st \in {"none", "queued", "busy", "done", "refused", "failed"}
BY DEF EvtRow
LEMMA RecFields == ASSUME NEW x \in RecRow PROVE
    /\ x.st \in {"none", "CANCELLED", "COMPLETED", "EXPIRED"} \cup Live /\ x.at \in Times
    /\ x.origin \in EventNumbers /\ x.by \in EventNumbers /\ x.order \in BOOLEAN
BY DEF RecRow
LEMMA RecClosed ==
  ASSUME NEW x \in RecRow, NEW at \in Times, NEW by \in EventNumbers
  PROVE  /\ [x EXCEPT !.st = "CANCELLED", !.at = at, !.by = by] \in RecRow
         /\ [x EXCEPT !.st = "MESSAGE_SENT"] \in RecRow
BY DEF RecRow, Live
LEMMA WkFields == ASSUME NEW x \in WkRow PROVE
    /\ x.pc \in WooSteps /\ x.job \in {"none", "event", "cand", "init"} /\ x.e \in EventNumbers
    /\ x.g \in GenNumbers /\ x.prev \in GenNumbers /\ x.paid \in BOOLEAN /\ x.mk \in MarkRow
BY DEF WkRow

\* The newest generation.
Admitted == {g \in Gens : rec[g].st # "none"}
LEMMA LatestIsNumber == LatestGen \in GenNumbers
<1>1. IsFiniteSet(Admitted) /\ Cardinality(Admitted) \in Nat /\ Cardinality(Admitted) <= MaxGen
  BY WooBounds, FS_Subset, FS_CardinalityType DEF Admitted
<1> QED  BY <1>1, WooBounds DEF LatestGen, Admitted
LEMMA LatestKept ==
  ASSUME \A g \in Gens : rec'[g].st # "none" <=> rec[g].st # "none"
  PROVE  LatestGen' = LatestGen
BY DEF LatestGen
LEMMA LatestGrows ==
  ASSUME NEW g \in Gens, rec[g].st = "none", rec'[g].st # "none",
         \A h \in Gens : h # g => rec'[h] = rec[h]
  PROVE  LatestGen' = LatestGen + 1
<1>1. Admitted' = Admitted \cup {g} /\ g \notin Admitted /\ IsFiniteSet(Admitted)
  BY WooBounds, FS_Subset DEF Admitted
<1>2. Cardinality(Admitted \cup {g}) = Cardinality(Admitted) + 1
  BY <1>1, FS_AddElement
<1> QED  BY <1>1, <1>2 DEF LatestGen, Admitted

\* What the end of a job leaves: the worker is idle, the lease free, and of the queues only its own job has changed.
Leaves(w) ==
    /\ wk' = [wk EXCEPT ![w] = IdleWorker] /\ lease' = Freed(w)
    /\ evt' \in [Events -> EvtRow]
    /\ \A e \in Events : /\ evt'[e].kind = evt[e].kind /\ (evt'[e].st # "none" <=> evt[e].st # "none")
                         /\ evt'[e].st = "done" => evt[e].st = "done" \/ (wk[w].job = "event" /\ e = wk[w].e)
    /\ cand' \in [Gens -> CandRow]
    /\ \A g \in Gens : cand'[g] = cand[g] \/ (wk[w].job = "cand" /\ g = wk[w].g)
    /\ \A g \in Gens : cand'[g].st # "none" => cand[g].st # "none" /\ cand'[g].e = cand[g].e
    /\ init' \in [Gens -> InitStates]
    /\ \A g \in Gens : init'[g] = init[g] \/ (wk[w].job = "init" /\ g = wk[w].g)

LEMMA EndLeaves ==
  ASSUME WooRows, JobsInv, NEW w \in WooWorkers, NEW how \in {"retry", "failed", "done"}, JobEnds(w, how)
  PROVE  /\ Leaves(w)
         /\ how # "done" => \A e \in Events : evt'[e].st = "done" => evt[e].st = "done"
         /\ how = "done" /\ wk[w].job = "cand" => cand' = [cand EXCEPT ![wk[w].g] = NoCand]
<1> DEFINE j == wk[w]
<1>0. /\ evt \in [Events -> EvtRow] /\ cand \in [Gens -> CandRow] /\ init \in [Gens -> InitStates] /\ j \in WkRow
      /\ JobOf(w) /\ (j.job = "cand" => cand[j.g].st = "active")
  BY DEF WooRows, JobsInv
<1>1. j.job \in {"none", "event", "cand", "init"}
  BY <1>0, WkFields
<1>2. wk' = [wk EXCEPT ![w] = IdleWorker] /\ lease' = Freed(w)
  BY DEF JobEnds
<1>3. /\ evt' \in [Events -> EvtRow]
      /\ \A e \in Events : /\ evt'[e].kind = evt[e].kind /\ (evt'[e].st # "none" <=> evt[e].st # "none")
                           /\ evt'[e].st = "done" => evt[e].st = "done" \/ (j.job = "event" /\ e = j.e)
                           /\ evt'[e].st = "done" /\ how # "done" => evt[e].st = "done"
  <2>1. CASE j.job = "event"
    <3>1. j.e \in Events /\ evt[j.e].st # "none"
      BY <1>0, <2>1 DEF JobOf
    <3>2. evt' = [evt EXCEPT ![j.e].st = IF how = "retry" THEN "queued" ELSE how]
      BY <2>1 DEF JobEnds
    <3> QED  BY <1>0, <2>1, <3>1, <3>2 DEF EvtRow
  <2>2. CASE j.job # "event"
    BY <1>0, <2>2 DEF JobEnds
  <2> QED  BY <2>1, <2>2
<1>4. /\ cand' \in [Gens -> CandRow]
      /\ \A g \in Gens : cand'[g] = cand[g] \/ (j.job = "cand" /\ g = j.g)
      /\ how = "done" /\ j.job = "cand" => cand' = [cand EXCEPT ![j.g] = NoCand]
      /\ \A g \in Gens : cand'[g].st # "none" => cand[g].st # "none" /\ cand'[g].e = cand[g].e
  <2>1. CASE j.job = "cand"
    <3>1. j.g \in Gens
      BY <1>0, <2>1 DEF JobOf
    <3>2. cand' = [cand EXCEPT ![j.g] = NoCand] \/ cand' = [cand EXCEPT ![j.g].st = IF how = "retry" THEN "delayed" ELSE how]
      BY <2>1 DEF JobEnds
    <3>3. CASE how = "done"
      BY <1>0, <2>1, <3>1, <3>3, WooBlanks DEF JobEnds
    <3>4. CASE how # "done"
      <4>1. cand' = [cand EXCEPT ![j.g].st = IF how = "retry" THEN "delayed" ELSE how]
        BY <2>1, <3>4 DEF JobEnds
      <4> QED  BY <1>0, <2>1, <3>1, <3>4, <4>1 DEF CandRow
    <3> QED  BY <3>3, <3>4
  <2>2. CASE j.job # "cand"
    BY <1>0, <2>2 DEF JobEnds
  <2> QED  BY <2>1, <2>2
<1>5. /\ init' \in [Gens -> InitStates]
      /\ \A g \in Gens : init'[g] = init[g] \/ (j.job = "init" /\ g = j.g)
  <2>1. CASE j.job = "init"
    <3>1. j.g \in Gens
      BY <1>0, <2>1 DEF JobOf
    <3>2. init' = [init EXCEPT ![j.g] = CASE how = "retry" -> "waiting" [] how = "done" -> "none" [] OTHER -> how]
      BY <2>1 DEF JobEnds
    <3>3. (CASE how = "retry" -> "waiting" [] how = "done" -> "none" [] OTHER -> how) \in InitStates
      BY DEF InitStates
    <3> QED  BY <1>0, <2>1, <3>1, <3>2, <3>3
  <2>2. CASE j.job # "init"
    BY <1>0, <2>2 DEF JobEnds
  <2> QED  BY <2>1, <2>2
<1> QED  BY <1>2, <1>3, <1>4, <1>5 DEF Leaves

LEMMA ThrowLeaves ==
  ASSUME WooRows, JobsInv, NEW w \in WooWorkers, Throw(w)
  PROVE  Leaves(w) /\ \A e \in Events : evt'[e].st = "done" => evt[e].st = "done"
BY EndLeaves DEF Throw
LEMMA DoneLeaves ==
  ASSUME WooRows, JobsInv, NEW w \in WooWorkers, Done(w)
  PROVE  Leaves(w)
BY EndLeaves, ThrowLeaves DEF Done

\* What a checkout event's boundary may say.
LEMMA BoundaryFacts ==
  ASSUME NEW e
  PROVE  LET b == Boundary(e) IN
         /\ b.prev \in {0, LatestGen}
         /\ b.do \in {"place", "close"} => b.g = LatestGen + 1
         /\ b.do = "close" => b.prev = LatestGen /\ LatestGen # 0
         /\ b.do = "settle" => b.prev = LatestGen /\ LatestGen # 0
         /\ b.do = "cancel" => b.g \in {LatestGen, LatestGen + 1}
<1> DEFINE x == LatestGen
           r == rec[x]
           m == IF mark = NoMark THEN "clear" ELSE ClassifyWatermark(mark, e)
           to(k, g, p) == [do |-> k, g |-> g, prev |-> p]
<1>0. x \in Nat
  BY LatestIsNumber, WooBounds
<1>1. CASE x = 0
  <2>1. Boundary(e) = to("place", 1, 0)
    BY <1>1 DEF Boundary
  <2> QED  BY <1>1, <2>1
<1>2. CASE x # 0
  <2>1. Boundary(e) \in {to("enqueue", x, 0), to("settle", x, x), to("place", x + 1, x), to("cancel", x + 1, 0),
                         to("ack", x, 0), to("close", x + 1, x), to("place", x + 1, 0), to("cancel", x, 0)}
    <3> DEFINE B == CASE r.st = "DETECTED" /\ r.origin = e -> to("enqueue", x, 0)
                      [] r.by = e -> IF m \in {"stale", "conflict"} THEN to("settle", x, x) ELSE to("place", x + 1, x)
                      [] r.by # e /\ r.st \in Live /\ m = "conflict" -> to("cancel", x + 1, 0)
                      [] r.by # e /\ r.st \in Live /\ (m # "clear" \/ (mark # NoMark /\ mark.gen # x)) -> to("ack", x, 0)
                      [] evt[e].at < r.at -> to("ack", x, 0)
                      [] evt[e].at = r.at -> to("cancel", x + 1, 0)
                      [] r.st \in Live -> to("close", x + 1, x)
                      [] (r.st = "CANCELLED" /\ r.by # 0) \/ r.st = "EXPIRED" -> to("place", x + 1, 0)
                      [] OTHER -> to("cancel", x, 0)
    <3>1. Boundary(e) = B
      BY <1>2 DEF Boundary
    <3> HIDE DEF to, m, r, x
    <3> QED  BY <3>1
  <2> QED  BY <1>0, <1>2, <2>1
<1> QED  BY <1>1, <1>2

\* The rows of the queue are typed after a candidate was placed or cancelled.
LEMMA CancelPendingTyped ==
  ASSUME WooRows, NEW g, CancelPending(g)
  PROVE  /\ cand' \in [Gens -> CandRow] /\ idx' \in GenNumbers
         /\ \A h \in Gens : cand'[h] = cand[h] \/ (h = g /\ cand[g].st # "active" /\ cand'[h] = NoCand)
         /\ idx' = idx \/ (idx = g /\ idx' = 0)
<1>1. cand \in [Gens -> CandRow] /\ idx \in GenNumbers /\ NoCand \in CandRow /\ 0 \in GenNumbers
  BY WooBounds, WooBlanks DEF WooRows
<1>2. \/ cand' = cand
      \/ cand[g].st # "active" /\ cand' = [cand EXCEPT ![g] = NoCand]
  BY DEF CancelPending
<1> QED  BY <1>1, <1>2 DEF CancelPending

LEMMA WorkerGoes ==
  ASSUME WooRows, NEW w \in WooWorkers, NEW pc \in WooSteps, WooGo(w, pc)
  PROVE  wk' \in [WooWorkers -> WkRow] /\ wk'[w].pc = pc /\ wk'[w].job = wk[w].job /\ wk'[w].e = wk[w].e
         /\ wk'[w].g = wk[w].g /\ wk'[w].prev = wk[w].prev /\ wk'[w].mk = wk[w].mk /\ wk'[w].paid = wk[w].paid
         /\ \A v \in WooWorkers : v # w => wk'[v] = wk[v]
BY DEF WooRows, WooGo, WkRow

LEMMA LeavesTyped ==
  ASSUME WooRows, NEW w \in WooWorkers, Leaves(w)
  PROVE  /\ evt' \in [Events -> EvtRow] /\ cand' \in [Gens -> CandRow] /\ init' \in [Gens -> InitStates]
         /\ wk' \in [WooWorkers -> WkRow] /\ lease' \in WooWorkers \cup {NoLease}
         /\ wk'[w] = IdleWorker /\ \A v \in WooWorkers : v # w => wk'[v] = wk[v]
BY WooBlanks DEF WooRows, Leaves, Freed

\* What the acceptance of a checkout event does.
Starts(w, p, g, q, m) == wk' = [wk EXCEPT ![w].pc = p, ![w].g = g, ![w].prev = q, ![w].mk = m]
LEMMA WorkerStarts ==
  ASSUME WooRows, NEW w \in WooWorkers, NEW p \in WooSteps, NEW g \in GenNumbers, NEW q \in GenNumbers, NEW m \in MarkRow,
         Starts(w, p, g, q, m)
  PROVE  /\ wk' \in [WooWorkers -> WkRow] /\ wk'[w].pc = p /\ wk'[w].g = g /\ wk'[w].prev = q
         /\ wk'[w].job = wk[w].job /\ wk'[w].e = wk[w].e
         /\ \A v \in WooWorkers : v # w => wk'[v] = wk[v]
<1>1. wk \in [WooWorkers -> WkRow] /\ wk[w] \in WkRow
  BY DEF WooRows
<1>2. wk' = [wk EXCEPT ![w] = [wk[w] EXCEPT !.pc = p, !.g = g, !.prev = q, !.mk = m]]
  BY <1>1 DEF Starts
<1>3. [wk[w] EXCEPT !.pc = p, !.g = g, !.prev = q, !.mk = m] \in WkRow
  BY <1>1 DEF WkRow
<1>4. wk'[w] = [wk[w] EXCEPT !.pc = p, !.g = g, !.prev = q, !.mk = m] /\ \A v \in WooWorkers : v # w => wk'[v] = wk[v]
  BY <1>1, <1>2
<1> QED  BY <1>1, <1>2, <1>3, <1>4 DEF WkRow

LEMMA AcceptIs ==
  ASSUME WooRows, NEW w \in WooWorkers, AcceptCheckout(w)
  PROVE  LET b == Boundary(wk[w].e) IN
         /\ b.do \in {"place", "close", "enqueue", "settle"} /\ b.g \in Gens /\ b.prev \in GenNumbers
         /\ b.do \in {"close", "settle"} => b.prev \in Gens
         /\ b.do \in {"place", "close"} => b.g = LatestGen + 1
         /\ wk' \in [WooWorkers -> WkRow] /\ wk'[w].pc = b.do /\ wk'[w].g = b.g /\ wk'[w].prev = b.prev
         /\ wk'[w].job = wk[w].job /\ wk'[w].e = wk[w].e
         /\ \A v \in WooWorkers : v # w => wk'[v] = wk[v]
         /\ wk[w].pc = "checkout" /\ lease = NoLease
         /\ lease' = IF b.do \in {"place", "close"} THEN w ELSE lease
         /\ UNCHANGED <<evt, rec, cand, idx, mark, ord, att, wooMsg, res, init, agreed, wooFaults, lapses>>
<1> DEFINE d == Boundary(wk[w].e).do
           h == Boundary(wk[w].e).g
           q == Boundary(wk[w].e).prev
           m == IF d \in {"place", "close"} THEN mark ELSE NoMark
<1>1. /\ d \in {"place", "close", "enqueue", "settle"} /\ h \in Gens /\ wk[w].pc = "checkout" /\ lease = NoLease
      /\ lease' = (IF d \in {"place", "close"} THEN w ELSE lease)
      /\ UNCHANGED <<evt, rec, cand, idx, mark, ord, att, wooMsg, res, init, agreed, wooFaults, lapses>>
  BY DEF AcceptCheckout, Begin, redisVars, outreachVars
<1>2. Starts(w, d, h, q, m)
  BY DEF AcceptCheckout, Starts
<1>3. /\ q \in {0, LatestGen} /\ (d \in {"place", "close"} => h = LatestGen + 1)
      /\ (d \in {"close", "settle"} => q = LatestGen /\ LatestGen # 0)
  BY <1>1, BoundaryFacts
<1> HIDE DEF d, h, q
<1>4. d \in WooSteps /\ h \in GenNumbers /\ q \in GenNumbers /\ m \in MarkRow
  BY <1>1, <1>3, LatestIsNumber, WooBounds, WooBlanks DEF WooSteps, WooRows
<1>5. d \in {"close", "settle"} => q \in Gens
  BY <1>3, LatestIsNumber, WooBounds
<1> HIDE DEF m
<1>6. /\ wk' \in [WooWorkers -> WkRow] /\ wk'[w].pc = d /\ wk'[w].g = h /\ wk'[w].prev = q
      /\ wk'[w].job = wk[w].job /\ wk'[w].e = wk[w].e /\ \A v \in WooWorkers : v # w => wk'[v] = wk[v]
  BY <1>2, <1>4, WorkerStarts
<1> QED  BY <1>1, <1>3, <1>4, <1>5, <1>6 DEF d, h, q

\* Worker w moves to p holding the watermark row m, or having read whether the order is paid.
Marks(w, p, m) == wk' = [wk EXCEPT ![w].pc = p, ![w].mk = m]
Reads(w, p, b) == wk' = [wk EXCEPT ![w].pc = p, ![w].paid = b]

LEMMA WorkerMarks ==
  ASSUME WooRows, NEW w \in WooWorkers, NEW p \in WooSteps, NEW m \in MarkRow,
         Marks(w, p, m)
  PROVE  /\ wk' \in [WooWorkers -> WkRow] /\ wk'[w].pc = p /\ wk'[w].mk = m /\ wk'[w].paid = wk[w].paid
         /\ wk'[w].job = wk[w].job /\ wk'[w].e = wk[w].e /\ wk'[w].g = wk[w].g /\ wk'[w].prev = wk[w].prev
         /\ \A v \in WooWorkers : v # w => wk'[v] = wk[v]
<1>1. wk \in [WooWorkers -> WkRow] /\ wk[w] \in WkRow
  BY DEF WooRows
<1>2. wk' = [wk EXCEPT ![w] = [wk[w] EXCEPT !.pc = p, !.mk = m]]
  BY <1>1 DEF Marks
<1>3. [wk[w] EXCEPT !.pc = p, !.mk = m] \in WkRow
  BY <1>1 DEF WkRow
<1>4. wk'[w] = [wk[w] EXCEPT !.pc = p, !.mk = m] /\ \A v \in WooWorkers : v # w => wk'[v] = wk[v]
  BY <1>1, <1>2
<1> QED  BY <1>1, <1>2, <1>3, <1>4 DEF WkRow

LEMMA WorkerReads ==
  ASSUME WooRows, NEW w \in WooWorkers, NEW p \in WooSteps, NEW b \in BOOLEAN,
         Reads(w, p, b)
  PROVE  /\ wk' \in [WooWorkers -> WkRow] /\ wk'[w].pc = p /\ wk'[w].mk = wk[w].mk
         /\ wk'[w].job = wk[w].job /\ wk'[w].e = wk[w].e /\ wk'[w].g = wk[w].g /\ wk'[w].prev = wk[w].prev
         /\ \A v \in WooWorkers : v # w => wk'[v] = wk[v]
<1>1. wk \in [WooWorkers -> WkRow] /\ wk[w] \in WkRow
  BY DEF WooRows
<1>2. wk' = [wk EXCEPT ![w] = [wk[w] EXCEPT !.pc = p, !.paid = b]]
  BY <1>1 DEF Reads
<1>3. [wk[w] EXCEPT !.pc = p, !.paid = b] \in WkRow
  BY <1>1 DEF WkRow
<1>4. wk'[w] = [wk[w] EXCEPT !.pc = p, !.paid = b] /\ \A v \in WooWorkers : v # w => wk'[v] = wk[v]
  BY <1>1, <1>2
<1> QED  BY <1>1, <1>2, <1>3, <1>4 DEF WkRow

(***************************************************************************)
(* The rows of the recovery stay typed, one operation after the other.     *)
(***************************************************************************)
LEMMA CaptureEventRows ==
  ASSUME WooRows, NEW kind \in {"full", "empty", "placed", "paid"}, NEW at \in Seconds, CaptureEvent(kind, at)
  PROVE  WooRows'
<1>1. PICK e \in Events : evt' = [evt EXCEPT ![e] = [kind |-> kind, at |-> at, st |-> "queued"]]
  BY DEF CaptureEvent
<1>2. evt' \in [Events -> EvtRow]
  BY <1>1, WooBounds DEF WooRows, EvtRow
<1> QED  BY <1>2 DEF CaptureEvent, WooRows, redisVars, outreachVars

LEMMA TakeEventRows ==
  ASSUME WooRows, NEW w \in WooWorkers, NEW e \in Events, TakeEvent(w, e)
  PROVE  WooRows'
<1>1. evt' \in [Events -> EvtRow]
  BY DEF TakeEvent, WooRows, EvtRow
<1>2. wk' \in [WooWorkers -> WkRow]
  BY WooBounds, WooBlanks DEF TakeEvent, WooRows, WkRow, WooSteps
<1> QED  BY <1>1, <1>2 DEF TakeEvent, WooRows, redisVars, outreachVars

LEMMA RefuseCheckoutRows ==
  ASSUME WooRows, GensInv, JobsInv, NEW w \in WooWorkers, RefuseCheckout(w)
  PROVE  WooRows'
<1>0. /\ wk[w].e \in Events
  BY DEF RefuseCheckout, Begin, JobsInv, JobOf, CheckoutSteps
<1>1. UNCHANGED <<rec, mark, ord, att, wooMsg, res, agreed, wooFaults, lapses>>
  BY DEF RefuseCheckout, outreachVars
<1>2. CASE Leaves(w) /\ UNCHANGED idx
  BY <1>1, <1>2, LeavesTyped DEF WooRows
<1>3. CASE /\ CancelPending(Boundary(wk[w].e).g) /\ evt' = [evt EXCEPT ![wk[w].e].st = "done"]
           /\ wk' = [wk EXCEPT ![w] = IdleWorker] /\ UNCHANGED <<lease, init>>
  <2>1. evt' \in [Events -> EvtRow]
    BY <1>0, <1>3 DEF WooRows, EvtRow
  <2>2. wk' \in [WooWorkers -> WkRow]
    BY <1>3, WooBlanks DEF WooRows
  <2>3. cand' \in [Gens -> CandRow] /\ idx' \in GenNumbers
    BY <1>3, CancelPendingTyped
  <2> QED  BY <1>1, <1>3, <2>1, <2>2, <2>3 DEF WooRows
<1> QED  BY <1>2, <1>3, EndLeaves, ThrowLeaves DEF RefuseCheckout

LEMMA AcceptCheckoutRows ==
  ASSUME WooRows, GensInv, JobsInv, NEW w \in WooWorkers, AcceptCheckout(w)
  PROVE  WooRows'
<1>1. lease' \in WooWorkers \cup {NoLease}
  BY AcceptIs DEF WooRows
<1> QED  BY <1>1, AcceptIs DEF WooRows

LEMMA CloseForResumptionRows ==
  ASSUME WooRows, GensInv, JobsInv, NEW w \in WooWorkers, CloseForResumption(w)
  PROVE  WooRows'
<1>0. wk[w].prev \in Gens /\ wk[w].e \in Events /\ wk[w].e \in EventNumbers
  BY WooBounds DEF CloseForResumption, JobsInv, JobOf, CheckoutSteps
<1>1. UNCHANGED <<idx, mark, ord, att, wooMsg, res, agreed, wooFaults, lapses>>
  BY DEF CloseForResumption, outreachVars
<1>2. CASE Leaves(w) /\ UNCHANGED rec
  BY <1>1, <1>2, LeavesTyped DEF WooRows
<1>3. CASE /\ rec' = [rec EXCEPT ![wk[w].prev].st = "CANCELLED", ![wk[w].prev].at = evt[wk[w].e].at, ![wk[w].prev].by = wk[w].e]
           /\ WooGo(w, "place") /\ UNCHANGED <<jobVars, lease>>
  <2>1. rec' \in [Gens -> RecRow]
    <3>1. PICK x \in Gens : x = wk[w].prev
      BY <1>0
    <3>2. PICK at \in Times : at = evt[wk[w].e].at
      BY <1>0, EvtFields DEF WooRows
    <3>3. [rec[x] EXCEPT !.st = "CANCELLED", !.at = at, !.by = wk[w].e] \in RecRow
      BY <1>0, RecClosed DEF WooRows
    <3>4. rec' = [rec EXCEPT ![x] = [rec[x] EXCEPT !.st = "CANCELLED", !.at = at, !.by = wk[w].e]]
      BY <1>3, <3>1, <3>2 DEF WooRows
    <3> QED  BY <3>3, <3>4 DEF WooRows
  <2>2. wk' \in [WooWorkers -> WkRow]
    BY <1>3, WorkerGoes DEF WooSteps
  <2> QED  BY <1>1, <1>3, <2>1, <2>2 DEF WooRows, jobVars
<1> QED  BY <1>2, <1>3, ThrowLeaves DEF CloseForResumption

LEMMA RefusePlacementRows ==
  ASSUME WooRows, GensInv, JobsInv, NEW w \in WooWorkers, RefusePlacement(w)
  PROVE  WooRows'
<1>0. wk[w].e \in Events
  BY DEF RefusePlacement, JobsInv, JobOf, CheckoutSteps
<1>1. /\ UNCHANGED <<rec, mark, ord, att, wooMsg, res, agreed, lapses>>
      /\ wooFaults' \in WooFaultNumbers /\ lapses' <= wooFaults'
  BY WooBounds DEF RefusePlacement, outreachVars, WooRows
<1>2. CASE Leaves(w) /\ UNCHANGED idx
  BY <1>1, <1>2, LeavesTyped DEF WooRows
<1>3. CASE /\ CancelPending(wk[w].g) /\ UNCHANGED init
           /\ evt' = [evt EXCEPT ![wk[w].e].st = IF lease = w THEN "refused" ELSE "queued"]
           /\ wk' = [wk EXCEPT ![w] = IdleWorker] /\ lease' = Freed(w)
  <2>1. evt' \in [Events -> EvtRow]
    <3>1. PICK e \in Events : e = wk[w].e
      BY <1>0
    <3>2. PICK s \in {"refused", "queued"} : s = IF lease = w THEN "refused" ELSE "queued"
      OBVIOUS
    <3>3. evt' = [evt EXCEPT ![e] = [evt[e] EXCEPT !.st = s]] /\ evt \in [Events -> EvtRow]
      BY <1>3, <3>1, <3>2 DEF WooRows
    <3>4. [evt[e] EXCEPT !.st = s] \in EvtRow
      BY <3>3 DEF EvtRow
    <3> QED  BY <3>3, <3>4
  <2>2. wk' \in [WooWorkers -> WkRow] /\ lease' \in WooWorkers \cup {NoLease}
    BY <1>3, WooBlanks DEF WooRows, Freed
  <2>3. cand' \in [Gens -> CandRow] /\ idx' \in GenNumbers
    BY <1>3, CancelPendingTyped
  <2> QED  BY <1>1, <1>3, <2>1, <2>2, <2>3 DEF WooRows
<1> QED  BY <1>2, <1>3, ThrowLeaves DEF RefusePlacement

LEMMA AcceptedTyped ==
  ASSUME WooRows, JobsInv, NEW w \in WooWorkers, wk[w].g \in Gens
  PROVE  Accepted(w) \in MarkRow
<1> DEFINE g == wk[w].g
           m == IF wk[w].mk.gen = g THEN wk[w].mk ELSE NoMark
           p == cand[g].e
<1>1. m \in MarkRow
  BY WkFields, WooBlanks DEF WooRows
<1>2. CASE ResolveWoo(g)
  <2>1. p \in Events /\ p \in EventNumbers /\ g \in GenNumbers
    BY <1>2, WooBounds DEF ResolveWoo, JobsInv
  <2>2. evt[p].at \in Times
    BY <2>1, EvtFields DEF WooRows
  <2>3. [gen |-> g, e |-> p, at |-> evt[p].at, state |-> "nonempty"] \in MarkRow
    BY <2>1, <2>2 DEF MarkRow
  <2> QED  BY <1>1, <2>3 DEF Accepted
<1>3. CASE ~ResolveWoo(g)
  BY <1>1, <1>3 DEF Accepted
<1> QED  BY <1>2, <1>3

LEMMA PlacementIs == ASSUME NEW w PROVE Placement(w) \in {"keep", "nonempty", "empty", "conflicting"}
BY DEF Placement

LEMMA PlaceCandidateRows ==
  ASSUME WooRows, GensInv, JobsInv, NEW w \in WooWorkers, PlaceCandidate(w)
  PROVE  WooRows'
<1> DEFINE g == wk[w].g
           how == Placement(w)
<1>0. g \in Gens /\ wk[w].e \in Events /\ wk[w].e \in EventNumbers /\ g \in GenNumbers /\ Accepted(w) \in MarkRow
  BY WooBounds, AcceptedTyped DEF PlaceCandidate, JobsInv, JobOf, CheckoutSteps
<1>1. UNCHANGED <<rec, ord, att, wooMsg, res, agreed, wooFaults, lapses>>
  BY DEF PlaceCandidate, outreachVars
<1>2. CASE Throw(w) /\ UNCHANGED <<idx, mark>>
  BY <1>1, <1>2, LeavesTyped, ThrowLeaves DEF WooRows
<1>3. CASE /\ mark' \in {Accepted(w), mark}
           /\ \/ UNCHANGED <<cand, idx>>
              \/ SchedulePending(g, wk[w].e)
              \/ CancelPending(g)
           /\ Marks(w, "mark", IF how = "keep" THEN NoMark ELSE MarkOf(w, how))
           /\ UNCHANGED <<evt, init, lease>>
  <2>1. (IF how = "keep" THEN NoMark ELSE MarkOf(w, how)) \in MarkRow
    BY <1>0, WooBlanks, PlacementIs, EvtFields DEF MarkOf, MarkRow, WooRows
  <2> HIDE DEF how
  <2>2. wk' \in [WooWorkers -> WkRow]
    BY <1>3, <2>1, WorkerMarks DEF WooSteps
  <2>3. CASE SchedulePending(g, wk[w].e)
    <3>1. [st |-> "delayed", e |-> wk[w].e] \in CandRow
      BY <1>0 DEF CandRow
    <3> QED  BY <1>0, <1>1, <1>3, <2>2, <2>3, <3>1 DEF SchedulePending, WooRows
  <2>4. CASE CancelPending(g)
    BY <1>0, <1>1, <1>3, <2>2, <2>4, CancelPendingTyped DEF WooRows
  <2>5. CASE UNCHANGED <<cand, idx>>
    BY <1>0, <1>1, <1>3, <2>2, <2>5 DEF WooRows
  <2> QED  BY <1>3, <2>3, <2>4, <2>5
<1> QED  BY <1>2, <1>3, PlacementIs DEF PlaceCandidate, Marks

LEMMA WriteWatermarkRows ==
  ASSUME WooRows, GensInv, JobsInv, NEW w \in WooWorkers, WriteWatermark(w)
  PROVE  WooRows'
<1>1. UNCHANGED <<rec, idx, ord, att, wooMsg, res, agreed, wooFaults, lapses>> /\ mark' \in MarkRow
  BY WkFields DEF WriteWatermark, outreachVars, WooRows
<1>2. CASE Done(w)
  BY <1>1, <1>2, LeavesTyped, DoneLeaves DEF WooRows
<1>3. CASE lease' = NoLease /\ Marks(w, "settle", NoMark) /\ UNCHANGED jobVars
  <2>1. wk' \in [WooWorkers -> WkRow]
    BY <1>3, WooBlanks, WorkerMarks DEF WooSteps
  <2> QED  BY <1>1, <1>3, <2>1 DEF WooRows, jobVars
<1> QED  BY <1>2, <1>3 DEF WriteWatermark, Marks

LEMMA SettleResumedRows ==
  ASSUME WooRows, GensInv, JobsInv, NEW w \in WooWorkers, SettleResumed(w)
  PROVE  WooRows'
<1> DEFINE g == wk[w].prev
<1>1. UNCHANGED <<rec, idx, mark, ord, wooMsg, agreed, wooFaults, lapses>>
  BY DEF SettleResumed, outreachVars
<1>2. \/ att' = att
      \/ \E s \in {"CANCELLED", "WAITING", "FAILED"} : att' = [att EXCEPT ![g] = s]
  BY DEF SettleResumed, outreachVars
<1>3. \/ res' = res
      \/ \E s \in {"COMMITTED", "RELEASED"} : res' = [res EXCEPT ![g] = s]
  BY DEF SettleResumed, outreachVars
<1>4. att' \in [Gens -> AttStates] /\ res' \in [Gens -> ResStates]
  BY <1>2, <1>3 DEF WooRows, AttStates, ResStates
<1>5. CASE WooGo(w, "release") /\ lease' = w /\ UNCHANGED jobVars
  <2>1. wk' \in [WooWorkers -> WkRow]
    BY <1>5, WorkerGoes DEF WooSteps
  <2> QED  BY <1>1, <1>4, <1>5, <2>1 DEF WooRows, jobVars
<1>6. CASE Leaves(w)
  BY <1>1, <1>4, <1>6, LeavesTyped DEF WooRows
<1> QED  BY <1>5, <1>6, EndLeaves, ThrowLeaves DEF SettleResumed

LEMMA ReleaseReservedCreditRows ==
  ASSUME WooRows, GensInv, JobsInv, NEW w \in WooWorkers, ReleaseReservedCredit(w)
  PROVE  WooRows'
<1>1. UNCHANGED <<rec, idx, mark, ord, att, wooMsg, agreed, wooFaults, lapses>> /\ res' \in [Gens -> ResStates]
  BY DEF ReleaseReservedCredit, WooRows, ResStates
<1>2. Leaves(w)
  BY ThrowLeaves, DoneLeaves DEF ReleaseReservedCredit
<1> QED  BY <1>1, <1>2, LeavesTyped DEF WooRows

LEMMA DecideTyped ==
  ASSUME WooRows, NEW e \in Events, evt[e].kind \in OrderKinds
  PROVE  Decide(e) \in OrdRow /\ Decide(e).kind # "none"
<1> DEFINE new == [kind |-> evt[e].kind, at |-> evt[e].at, ambiguous |-> FALSE]
<1>1. ord \in OrdRow /\ evt[e].at \in Times /\ evt[e].kind \in {"placed", "paid"}
  BY EvtFields DEF WooRows, OrderKinds
<1>2. new \in OrdRow /\ new.kind # "none"
  BY <1>1 DEF OrdRow
<1>3. [ord EXCEPT !.ambiguous = TRUE] \in OrdRow /\ [ord EXCEPT !.at = new.at] \in OrdRow
      /\ [ord EXCEPT !.ambiguous = TRUE].kind = ord.kind /\ [ord EXCEPT !.at = new.at].kind = ord.kind
  BY <1>1 DEF OrdRow
<1> DEFINE oA == [ord EXCEPT !.ambiguous = TRUE]
           oT == [ord EXCEPT !.at = new.at]
<1>4. Decide(e) = CASE ord.kind = "none" -> new
                    [] ord.kind # "none" /\ new.at < ord.at -> ord
                    [] ord.kind # "none" /\ new.at = ord.at /\ new.kind # ord.kind -> oA
                    [] new.kind = "placed" /\ ord.kind = "paid" -> ord
                    [] new.kind = ord.kind -> oT
                    [] OTHER -> new
  BY DEF Decide
<1> HIDE DEF oA, oT, new
<1>5. CASE ord.kind = "none"
  <2>1. Decide(e) = new
    BY <1>4, <1>5, <1>2
  <2> QED  BY <2>1, <1>2
<1>6. CASE ord.kind # "none"
  <2>1. Decide(e) \in {ord, oA, oT, new}
    BY <1>4, <1>6
  <2> QED  BY <2>1, <1>1, <1>2, <1>3, <1>6 DEF oA, oT
<1> QED  BY <1>5, <1>6

LEMMA ObserveOrderRows ==
  ASSUME WooRows, GensInv, JobsInv, NEW w \in WooWorkers, ObserveOrder(w)
  PROVE  WooRows'
<1>0. wk[w].e \in Events /\ evt[wk[w].e].kind \in OrderKinds
  BY DEF ObserveOrder, Begin, JobsInv, JobOf, OrderSteps
<1>1. ord' \in OrdRow
  BY <1>0, DecideTyped DEF ObserveOrder
<1>2. Reads(w, "drop", Decide(wk[w].e).kind = "paid")
  BY DEF ObserveOrder, Reads
<1>3. wk' \in [WooWorkers -> WkRow]
  BY <1>2, WorkerReads DEF WooSteps
<1> QED  BY <1>1, <1>3 DEF ObserveOrder, WooRows, jobVars, outreachVars

LEMMA DropCandidateRows ==
  ASSUME WooRows, GensInv, JobsInv, NEW w \in WooWorkers, DropCandidate(w)
  PROVE  WooRows'
<1>1. UNCHANGED <<rec, mark, ord, att, wooMsg, res, agreed, wooFaults, lapses>>
  BY DEF DropCandidate, outreachVars
<1>2. CASE Throw(w) /\ UNCHANGED idx
  BY <1>1, <1>2, LeavesTyped, ThrowLeaves DEF WooRows
<1>3. CASE (\E g : CancelPending(g)) /\ WooGo(w, "transition") /\ UNCHANGED <<evt, init, lease>>
  <2>1. wk' \in [WooWorkers -> WkRow] /\ cand' \in [Gens -> CandRow] /\ idx' \in GenNumbers
    BY <1>3, WorkerGoes, CancelPendingTyped DEF WooSteps
  <2> QED  BY <1>1, <1>3, <2>1 DEF WooRows
<1> QED  BY <1>2, <1>3 DEF DropCandidate

LEMMA TransitionRecoveryRows ==
  ASSUME WooRows, GensInv, JobsInv, NEW w \in WooWorkers, TransitionRecovery(w)
  PROVE  WooRows'
<1>1. UNCHANGED <<idx, mark, ord, wooMsg, res, agreed, wooFaults, lapses>> /\ Leaves(w)
  BY DoneLeaves DEF TransitionRecovery
<1>2. rec' \in [Gens -> RecRow]
  <2>1. \/ rec' = rec
        \/ \E s \in {"COMPLETED", "CANCELLED"} : rec' = [rec EXCEPT ![LatestGen].st = s, ![LatestGen].order = TRUE]
    BY DEF TransitionRecovery
  <2> QED  BY <2>1 DEF WooRows, RecRow
<1>3. att' \in [Gens -> AttStates]
  <2>1. att' \in {att, [att EXCEPT ![LatestGen] = "CANCELLED"]}
    BY DEF TransitionRecovery
  <2> QED  BY <2>1 DEF WooRows, AttStates
<1> QED  BY <1>1, <1>2, <1>3, LeavesTyped DEF WooRows

LEMMA TakeCandidateRows ==
  ASSUME WooRows, NEW w \in WooWorkers, NEW g \in Gens, TakeCandidate(w, g)
  PROVE  WooRows'
<1>1. cand' \in [Gens -> CandRow] /\ cand[g].e \in EventNumbers
  BY DEF TakeCandidate, WooRows, CandRow
<1>2. wk' \in [WooWorkers -> WkRow]
  BY <1>1, WooBounds, WooBlanks DEF TakeCandidate, WooRows, WkRow, WooSteps
<1> QED  BY <1>1, <1>2 DEF TakeCandidate, WooRows, outreachVars

LEMMA EvaluateMaturedRows ==
  ASSUME WooRows, GensInv, JobsInv, NEW w \in WooWorkers, EvaluateMatured(w)
  PROVE  WooRows'
<1>1. UNCHANGED <<rec, idx, mark, ord, att, wooMsg, res, agreed, wooFaults, lapses>>
  BY DEF EvaluateMatured, outreachVars
<1>2. CASE (\E pc \in {"enqueue", "insert", "clear"} : WooGo(w, pc)) /\ lease' \in {lease, w} /\ UNCHANGED jobVars
  <2>1. wk' \in [WooWorkers -> WkRow]
    BY <1>2, WorkerGoes DEF WooSteps
  <2> QED  BY <1>1, <1>2, <2>1 DEF WooRows, jobVars
<1>3. CASE Throw(w)
  BY <1>1, <1>3, LeavesTyped, ThrowLeaves DEF WooRows
<1> QED  BY <1>2, <1>3 DEF EvaluateMatured

\* What the insertion does to the rows.
LEMMA InsertIs ==
  ASSUME WooRows, GensInv, JobsInv, NEW w \in WooWorkers, InsertRecovery(w)
  PROVE  /\ wk[w].g \in Gens /\ wk[w].pc = "insert" /\ wk[w].job = "cand"
         /\ \/ rec' = rec
            \/ /\ NextGen(wk[w].g) /\ rec[wk[w].g].st = "none" /\ (LatestGen # 0 => rec[LatestGen].st \notin Live)
               /\ rec' = [rec EXCEPT ![wk[w].g] = [NoRec EXCEPT !.st = "DETECTED", !.at = evt[wk[w].e].at, !.origin = wk[w].e]]
         /\ \/ Leaves(w) /\ \A e \in Events : evt'[e].st = "done" => evt[e].st = "done"
            \/ (\E pc \in {"enqueue", "clear"} : WooGo(w, pc)) /\ lease = w /\ lease' = NoLease /\ UNCHANGED jobVars
<1> DEFINE g == wk[w].g
           c == ClassifyPrior(g, wk[w].e)
<1>0. g \in Gens /\ g \in Nat /\ LatestGen \in Nat /\ wk[w].pc = "insert" /\ wk[w].job = "cand"
  BY WooBounds, LatestIsNumber DEF InsertRecovery, JobsInv, JobOf, MaturitySteps
<1>1. c = "go" => NextGen(g) /\ (LatestGen # 0 => rec[LatestGen].st \notin Live)
  BY <1>0 DEF ClassifyPrior, NextGen, Live
<1>2. NextGen(g) => rec[g].st = "none"
  BY <1>0 DEF NextGen, GensInv
<1>3. CASE Throw(w)
  BY <1>0, <1>1, <1>2, <1>3, ThrowLeaves DEF InsertRecovery
<1>4. CASE \E pc \in {"enqueue", "clear"} : EndSection(w, pc)
  BY <1>0, <1>1, <1>2, <1>4, ThrowLeaves DEF InsertRecovery, EndSection
<1> QED  BY <1>3, <1>4 DEF InsertRecovery

LEMMA InsertRecoveryRows ==
  ASSUME WooRows, GensInv, JobsInv, NEW w \in WooWorkers, InsertRecovery(w)
  PROVE  WooRows'
<1> DEFINE e == wk[w].e
           r == [NoRec EXCEPT !.st = "DETECTED", !.at = evt[e].at, !.origin = e]
<1>0. UNCHANGED <<idx, mark, ord, att, wooMsg, res, agreed, wooFaults, lapses>>
  BY DEF InsertRecovery, outreachVars
<1>1. rec' \in [Gens -> RecRow]
  <2>1. e \in Events /\ e \in EventNumbers
    BY WooBounds, InsertIs DEF JobsInv, JobOf
  <2>2. r \in RecRow
    BY <2>1, EvtFields, WooBounds DEF NoRec, RecRow, Live, WooRows
  <2> QED  BY <2>2, InsertIs DEF WooRows
<1>2. CASE Leaves(w)
  BY <1>0, <1>1, <1>2, LeavesTyped DEF WooRows
<1>3. CASE (\E pc \in {"enqueue", "clear"} : WooGo(w, pc)) /\ lease' = NoLease /\ UNCHANGED jobVars
  <2>1. wk' \in [WooWorkers -> WkRow]
    BY <1>3, WorkerGoes DEF WooSteps
  <2> QED  BY <1>0, <1>1, <1>3, <2>1 DEF WooRows, jobVars
<1> QED  BY <1>2, <1>3, InsertIs

LEMMA ClearMaturedRows ==
  ASSUME WooRows, GensInv, JobsInv, NEW w \in WooWorkers, ClearMatured(w)
  PROVE  WooRows'
<1>1. UNCHANGED <<rec, mark, ord, att, wooMsg, res, agreed, wooFaults, lapses>> /\ idx' \in GenNumbers /\ Leaves(w)
  BY WooBounds, EndLeaves DEF ClearMatured, WooRows, outreachVars
<1> QED  BY <1>1, LeavesTyped DEF WooRows

LEMMA EnqueueInitialRows ==
  ASSUME WooRows, GensInv, JobsInv, NEW w \in WooWorkers, EnqueueInitial(w)
  PROVE  WooRows'
<1>1. UNCHANGED <<rec, idx, mark, ord, wooMsg, res, agreed, wooFaults, lapses>>
  BY DEF EnqueueInitial
<1>2. att' = att \/ att' = [att EXCEPT ![wk[w].g] = "PENDING"]
  BY DEF EnqueueInitial
<1>3. att' \in [Gens -> AttStates]
  BY <1>2 DEF WooRows, AttStates
<1>4. CASE (\E pc \in {"queue", "clear"} : WooGo(w, pc)) /\ lease' \in {lease, w} /\ UNCHANGED jobVars
  <2>1. wk' \in [WooWorkers -> WkRow]
    BY <1>4, WorkerGoes DEF WooSteps
  <2> QED  BY <1>1, <1>3, <1>4, <2>1 DEF WooRows, jobVars
<1>5. CASE Leaves(w)
  BY <1>1, <1>3, <1>5, LeavesTyped DEF WooRows
<1> QED  BY <1>4, <1>5, EndLeaves, ThrowLeaves DEF EnqueueInitial, AfterEnqueue

LEMMA QueueInitialRows ==
  ASSUME WooRows, GensInv, JobsInv, NEW w \in WooWorkers, QueueInitial(w)
  PROVE  WooRows'
<1>0. wk[w].g \in Gens /\ (wk[w].job = "event" => wk[w].e \in Events)
  BY DEF QueueInitial, JobsInv, JobOf
<1>1. UNCHANGED <<rec, idx, mark, ord, att, wooMsg, res, agreed, wooFaults, lapses>>
      /\ lease' \in WooWorkers \cup {NoLease}
  BY DEF QueueInitial, outreachVars, WooRows, Freed
<1>2. init' \in [Gens -> InitStates]
  BY <1>0 DEF QueueInitial, WooRows, InitStates
<1>3. CASE WooGo(w, "clear") /\ UNCHANGED <<evt, cand>>
  BY <1>1, <1>2, <1>3, WorkerGoes DEF WooSteps, WooRows
<1>4. CASE /\ wk' = [wk EXCEPT ![w] = IdleWorker]
           /\ evt' = IF wk[w].job # "event" THEN evt
                     ELSE [evt EXCEPT ![wk[w].e].st = IF lease = w THEN "done" ELSE "queued"]
           /\ cand' = IF wk[w].job = "cand" THEN [cand EXCEPT ![wk[w].g].st = "delayed"] ELSE cand
  <2>1. evt' \in [Events -> EvtRow]
    BY <1>0, <1>4 DEF WooRows, EvtRow
  <2>2. cand' \in [Gens -> CandRow]
    BY <1>0, <1>4 DEF WooRows, CandRow
  <2>3. wk' \in [WooWorkers -> WkRow]
    BY <1>4, WooBlanks DEF WooRows
  <2> QED  BY <1>1, <1>2, <2>1, <2>2, <2>3 DEF WooRows
<1> QED  BY <1>3, <1>4 DEF QueueInitial

LEMMA TakeInitialRows ==
  ASSUME WooRows, NEW w \in WooWorkers, NEW g \in Gens, TakeInitial(w, g)
  PROVE  WooRows'
<1>1. init' \in [Gens -> InitStates]
  BY DEF TakeInitial, WooRows, InitStates
<1>2. wk' \in [WooWorkers -> WkRow]
  BY WooBounds, WooBlanks DEF TakeInitial, WooRows, WkRow, WooSteps
<1> QED  BY <1>1, <1>2 DEF TakeInitial, WooRows, redisVars, outreachVars

LEMMA ProcessInitialRows ==
  ASSUME WooRows, GensInv, JobsInv, NEW w \in WooWorkers, ProcessInitial(w)
  PROVE  WooRows'
<1>1. UNCHANGED <<rec, idx, mark, ord, att, wooMsg, res, agreed, wooFaults, lapses>>
  BY DEF ProcessInitial, outreachVars
<1>2. CASE (\E pc \in {"finalize", "reserve"} : WooGo(w, pc)) /\ lease' = w /\ UNCHANGED jobVars
  <2>1. wk' \in [WooWorkers -> WkRow]
    BY <1>2, WorkerGoes DEF WooSteps
  <2> QED  BY <1>1, <1>2, <2>1 DEF WooRows, jobVars
<1>3. CASE Leaves(w)
  BY <1>1, <1>3, LeavesTyped DEF WooRows
<1> QED  BY <1>2, <1>3, EndLeaves, ThrowLeaves DEF ProcessInitial

LEMMA ReserveCreditRows ==
  ASSUME WooRows, GensInv, JobsInv, NEW w \in WooWorkers, ReserveCredit(w)
  PROVE  WooRows'
<1>1. res' \in [Gens -> ResStates]
  BY DEF ReserveCredit, WooRows, ResStates
<1>2. wk' \in [WooWorkers -> WkRow]
  BY WorkerGoes DEF ReserveCredit, WooSteps
<1> QED  BY <1>1, <1>2 DEF ReserveCredit, Within, WooRows, jobVars

\* A step of a dispatch ends its job, or goes on under the lease as it is.
GoesOn(w) == /\ \E pc \in WooSteps : WooGo(w, pc)
             /\ UNCHANGED <<evt, cand, init, lease>>
LEMMA GoesOnTyped ==
  ASSUME WooRows, NEW w \in WooWorkers, GoesOn(w) \/ Leaves(w)
  PROVE  /\ evt' \in [Events -> EvtRow] /\ cand' \in [Gens -> CandRow] /\ init' \in [Gens -> InitStates]
         /\ wk' \in [WooWorkers -> WkRow] /\ lease' \in WooWorkers \cup {NoLease}
BY WorkerGoes, LeavesTyped DEF GoesOn, WooRows

LEMMA RefuseTyped ==
  ASSUME WooRows, JobsInv, NEW w \in WooWorkers, Refuse(w, wk[w].g)
  PROVE  Leaves(w) /\ res' \in [Gens -> ResStates]
BY DoneLeaves DEF Refuse, WooRows, ResStates

LEMMA GuardAgainRows ==
  ASSUME WooRows, GensInv, JobsInv, NEW w \in WooWorkers, GuardAgain(w)
  PROVE  WooRows'
<1>1. (GoesOn(w) \/ Leaves(w)) /\ res' \in [Gens -> ResStates]
  BY RefuseTyped DEF GuardAgain, GoesOn, WooRows, WooSteps, jobVars
<1> QED  BY <1>1, GoesOnTyped DEF GuardAgain, WooRows

LEMMA PrepareInitialRows ==
  ASSUME WooRows, GensInv, JobsInv, NEW w \in WooWorkers, PrepareInitial(w)
  PROVE  WooRows'
<1>1. (GoesOn(w) \/ Leaves(w)) /\ res' \in [Gens -> ResStates]
  BY RefuseTyped, ThrowLeaves DEF PrepareInitial, GoesOn, WooRows, WooSteps, jobVars
<1>2. wooMsg' \in [Gens -> WooMsgRow]
  BY DEF PrepareInitial, WooRows, WooMsgRow
<1> QED  BY <1>1, <1>2, GoesOnTyped DEF PrepareInitial, WooRows

LEMMA AdmitWooSendRows ==
  ASSUME WooRows, GensInv, JobsInv, NEW w \in WooWorkers, AdmitWooSend(w)
  PROVE  WooRows'
<1>1. (GoesOn(w) \/ Leaves(w)) /\ res' \in [Gens -> ResStates]
  BY RefuseTyped DEF AdmitWooSend, GoesOn, WooRows, WooSteps, jobVars
<1>2. wooMsg' \in [Gens -> WooMsgRow]
  <2>1. \/ wooMsg' = [wooMsg EXCEPT ![wk[w].g].st = "PERMITTED"]
        \/ wooMsg' = [wooMsg EXCEPT ![wk[w].g].st = IF @ = "PREPARED" THEN "none" ELSE @]
    BY DEF AdmitWooSend
  <2>2. wooMsg \in [Gens -> WooMsgRow]
    BY DEF WooRows
  <2> QED  BY <2>1, <2>2 DEF WooMsgRow
<1> QED  BY <1>1, <1>2, GoesOnTyped DEF AdmitWooSend, WooRows

LEMMA CallWooProviderRows ==
  ASSUME WooRows, GensInv, JobsInv, NEW w \in WooWorkers, CallWooProvider(w)
  PROVE  WooRows'
<1>1. GoesOn(w) \/ Leaves(w)
  BY ThrowLeaves DEF CallWooProvider, GoesOn, WooSteps, jobVars
<1>2. wooMsg' \in [Gens -> WooMsgRow]
  <2>1. \/ wooMsg' = [wooMsg EXCEPT ![wk[w].g] = [st |-> "SENT", wire |-> TRUE]]
        \/ wooMsg' = [wooMsg EXCEPT ![wk[w].g].st = "FAILED"]
        \/ \E sent \in BOOLEAN : wooMsg' = [wooMsg EXCEPT ![wk[w].g].wire = sent]
    BY DEF CallWooProvider
  <2>2. wooMsg \in [Gens -> WooMsgRow]
    BY DEF WooRows
  <2>3. \A g \in Gens : wooMsg[g] \in WooMsgRow
    BY <2>2
  <2>4. [st |-> "SENT", wire |-> TRUE] \in WooMsgRow
    BY DEF WooMsgRow
  <2>5. \A g \in Gens, sent \in BOOLEAN : [wooMsg[g] EXCEPT !.wire = sent] \in WooMsgRow
    BY <2>3 DEF WooMsgRow
  <2>6. \A g \in Gens : [wooMsg[g] EXCEPT !.st = "FAILED"] \in WooMsgRow
    BY <2>3 DEF WooMsgRow
  <2>7. CASE wooMsg' = [wooMsg EXCEPT ![wk[w].g] = [st |-> "SENT", wire |-> TRUE]]
    BY <2>2, <2>4, <2>7
  <2>8. CASE wooMsg' = [wooMsg EXCEPT ![wk[w].g].st = "FAILED"]
    BY <2>2, <2>6, <2>8
  <2>9. ASSUME NEW sent \in BOOLEAN, wooMsg' = [wooMsg EXCEPT ![wk[w].g].wire = sent] PROVE wooMsg' \in [Gens -> WooMsgRow]
    BY <2>2, <2>5, <2>9
  <2> QED  BY <2>1, <2>7, <2>8, <2>9
<1>3. wooFaults' \in WooFaultNumbers /\ lapses <= wooFaults'
  BY WooBounds DEF CallWooProvider, WooRows
<1> QED  BY <1>1, <1>2, <1>3, GoesOnTyped DEF CallWooProvider, WooRows

LEMMA FinalizeConfirmedRows ==
  ASSUME WooRows, GensInv, JobsInv, NEW w \in WooWorkers, FinalizeConfirmed(w)
  PROVE  WooRows'
<1>1. GoesOn(w) \/ Leaves(w)
  BY ThrowLeaves DEF FinalizeConfirmed, GoesOn, WooSteps, jobVars
<1>2. res' \in [Gens -> ResStates] /\ att' \in [Gens -> AttStates]
  BY DEF FinalizeConfirmed, WooRows, ResStates, AttStates
<1> QED  BY <1>1, <1>2, GoesOnTyped DEF FinalizeConfirmed, WooRows

LEMMA MarkMessageSentRows ==
  ASSUME WooRows, GensInv, JobsInv, NEW w \in WooWorkers, MarkMessageSent(w)
  PROVE  WooRows'
<1>1. Leaves(w)
  BY DoneLeaves DEF MarkMessageSent
<1>2. rec' \in [Gens -> RecRow]
  <2>1. CASE rec' = rec
    BY <2>1 DEF WooRows
  <2>2. CASE rec' = [rec EXCEPT ![wk[w].g].st = "MESSAGE_SENT"]
    <3>1. PICK g \in Gens : g = wk[w].g
      BY DEF MarkMessageSent, JobsInv, JobOf, FirstSteps
    <3>2. rec' = [rec EXCEPT ![g] = [rec[g] EXCEPT !.st = "MESSAGE_SENT"]] /\ [rec[g] EXCEPT !.st = "MESSAGE_SENT"] \in RecRow
      BY <2>2, <3>1, RecClosed, WooBounds DEF WooRows
    <3> QED  BY <3>2 DEF WooRows
  <2> QED  BY <2>1, <2>2 DEF MarkMessageSent
<1> QED  BY <1>1, <1>2, LeavesTyped DEF MarkMessageSent, WooRows, outreachVars

LEMMA CompensateProviderErrorRows ==
  ASSUME WooRows, GensInv, JobsInv, NEW w \in WooWorkers, CompensateProviderError(w)
  PROVE  WooRows'
<1>1. Leaves(w)
  BY ThrowLeaves DEF CompensateProviderError
<1>2. res' \in [Gens -> ResStates] /\ att' \in [Gens -> AttStates]
  BY DEF CompensateProviderError, WooRows, ResStates, AttStates
<1> QED  BY <1>1, <1>2, LeavesTyped DEF CompensateProviderError, WooRows

LEMMA WooMishapRows ==
  ASSUME WooRows, GensInv, JobsInv, NEW w \in WooWorkers, WooMishap(w)
  PROVE  WooRows'
<1>1. Leaves(w)
  BY ThrowLeaves DEF WooMishap
<1>2. wooFaults' \in WooFaultNumbers /\ lapses <= wooFaults'
  BY WooBounds DEF WooMishap, WooRows
<1> QED  BY <1>1, <1>2, LeavesTyped DEF WooMishap, WooRows, outreachVars

LEMMA WorldRows ==
  ASSUME WooRows, LeaseLost \/ CustomerStops \/ \E g \in Gens : ExpireRecovery(g)
  PROVE  WooRows'
<1>0. wooFaults' = wooFaults + 1 /\ wooFaults < WooFaults /\ wooFaults' \in WooFaultNumbers
      /\ wooFaults \in Nat /\ lapses \in Nat /\ lapses <= wooFaults
  BY WooBounds DEF LeaseLost, CustomerStops, ExpireRecovery, WooRows
<1>1. CASE LeaseLost
  <2>1. lapses' = lapses + 1 /\ lapses < WooFaults /\ lapses' \in WooFaultNumbers /\ lapses' <= wooFaults'
    BY <1>0, <1>1, WooBounds DEF LeaseLost, WooRows
  <2> QED  BY <1>0, <1>1, <2>1 DEF LeaseLost, WooRows, redisVars, outreachVars
<1>2. CASE CustomerStops
  <2>1. lapses' <= wooFaults'
    BY <1>0, <1>2 DEF CustomerStops
  <2> QED  BY <1>0, <1>2, <2>1 DEF CustomerStops, WooRows, redisVars, outreachVars
<1>3. ASSUME NEW g \in Gens, ExpireRecovery(g) PROVE WooRows'
  <2>1. lapses' <= wooFaults'
    BY <1>0, <1>3 DEF ExpireRecovery
  <2>2. rec' \in [Gens -> RecRow]
    BY <1>3 DEF ExpireRecovery, WooRows, RecRow
  <2>3. att' \in [Gens -> AttStates]
    BY <1>3 DEF ExpireRecovery, WooRows, AttStates
  <2> QED  BY <1>0, <1>3, <2>1, <2>2, <2>3 DEF ExpireRecovery, WooRows, redisVars
<1> QED  BY <1>1, <1>2, <1>3

LEMMA WooRowsStep ==
  ASSUME WooRows, GensInv, JobsInv, [WooNext]_wooVars
  PROVE  WooRows'
<1>1. CASE UNCHANGED wooVars
  BY <1>1 DEF wooVars, WooRows
<1>2. ASSUME NEW w \in WooWorkers, WooStep(w) PROVE WooRows'
  BY <1>2, RefuseCheckoutRows, AcceptCheckoutRows, CloseForResumptionRows, RefusePlacementRows, PlaceCandidateRows,
     WriteWatermarkRows, SettleResumedRows, ReleaseReservedCreditRows, ObserveOrderRows, DropCandidateRows,
     TransitionRecoveryRows, EvaluateMaturedRows, InsertRecoveryRows, ClearMaturedRows, EnqueueInitialRows,
     QueueInitialRows, ProcessInitialRows, ReserveCreditRows, GuardAgainRows, PrepareInitialRows, AdmitWooSendRows,
     CallWooProviderRows, FinalizeConfirmedRows, MarkMessageSentRows, CompensateProviderErrorRows DEF WooStep
<1>3. CASE WooNext
  BY <1>2, <1>3, CaptureEventRows, TakeEventRows, TakeCandidateRows, TakeInitialRows, WooMishapRows, WorldRows DEF WooNext
<1> QED  BY <1>1, <1>3

(***************************************************************************)
(* The generations of a checkout.                                          *)
(***************************************************************************)
\* No generation is admitted, none comes to life, and a cancelled one stays cancelled.
RecQuiet ==
    \A g \in Gens : /\ rec'[g].st # "none" <=> rec[g].st # "none"
                    /\ rec'[g].st \in Live => rec[g].st \in Live
                    /\ rec[g].st = "CANCELLED" => rec'[g].st = "CANCELLED"

LEMMA QuietWorkerStep ==
  ASSUME WooRows, GensInv, JobsInv, NEW w \in WooWorkers, WooStep(w), ~InsertRecovery(w)
  PROVE  RecQuiet
<1>0. rec \in [Gens -> RecRow] /\ Live = {"DETECTED", "MESSAGE_SENT"}
  BY DEF WooRows, Live
<1>1. CASE rec' = rec
  BY <1>1 DEF RecQuiet
<1>2. CASE CloseForResumption(w)
  <2>1. CASE /\ rec[wk[w].prev].st \in Live
             /\ rec' = [rec EXCEPT ![wk[w].prev].st = "CANCELLED", ![wk[w].prev].at = evt[wk[w].e].at, ![wk[w].prev].by = wk[w].e]
    BY <1>0, <2>1 DEF RecQuiet, RecRow
  <2> QED  BY <1>1, <1>2, <2>1 DEF CloseForResumption
<1>3. CASE TransitionRecovery(w)
  <2>1. CASE /\ rec[LatestGen].st \in Live
             /\ \E s \in {"COMPLETED", "CANCELLED"} : rec' = [rec EXCEPT ![LatestGen].st = s, ![LatestGen].order = TRUE]
    BY <1>0, <2>1 DEF RecQuiet, RecRow
  <2> QED  BY <1>1, <1>3, <2>1 DEF TransitionRecovery
<1>4. CASE MarkMessageSent(w)
  <2>1. CASE rec[wk[w].g].st = "DETECTED" /\ rec' = [rec EXCEPT ![wk[w].g].st = "MESSAGE_SENT"]
    BY <1>0, <2>1 DEF RecQuiet, RecRow
  <2> QED  BY <1>1, <1>4, <2>1 DEF MarkMessageSent
<1>5. CASE ~(CloseForResumption(w) \/ TransitionRecovery(w) \/ MarkMessageSent(w) \/ InsertRecovery(w))
  <2>1. rec' = rec
    BY <1>5 DEF WooStep, RefuseCheckout, AcceptCheckout, RefusePlacement, PlaceCandidate, WriteWatermark,
       SettleResumed, ReleaseReservedCredit, ObserveOrder, DropCandidate, EvaluateMatured, ClearMatured, EnqueueInitial,
       QueueInitial, ProcessInitial, ReserveCredit, GuardAgain, PrepareInitial, AdmitWooSend, CallWooProvider,
       FinalizeConfirmed, CompensateProviderError
  <2> QED  BY <1>1, <2>1
<1> QED  BY <1>2, <1>3, <1>4, <1>5

LEMMA QuietStep ==
  ASSUME WooRows, GensInv, JobsInv, [WooNext]_wooVars, \A w \in WooWorkers : ~InsertRecovery(w)
  PROVE  RecQuiet
<1>1. CASE rec' = rec
  BY <1>1 DEF RecQuiet
<1>2. ASSUME NEW g \in Gens, ExpireRecovery(g) PROVE RecQuiet
  <2>1. rec \in [Gens -> RecRow] /\ Live = {"DETECTED", "MESSAGE_SENT"}
    BY DEF WooRows, Live
  <2>2. rec[g].st \in Live /\ rec' = [rec EXCEPT ![g].st = "EXPIRED"]
    BY <1>2 DEF ExpireRecovery
  <2> QED  BY <2>1, <2>2 DEF RecQuiet, RecRow
<1>3. ASSUME NEW w \in WooWorkers, WooStep(w) PROVE RecQuiet
  BY <1>3, QuietWorkerStep
<1>4. CASE WooNext /\ ~(\E g \in Gens : ExpireRecovery(g)) /\ ~(\E w \in WooWorkers : WooStep(w))
  <2>1. rec' = rec
    BY <1>4 DEF WooNext, CaptureEvent, TakeEvent, TakeCandidate, TakeInitial, WooMishap, LeaseLost, CustomerStops
  <2> QED  BY <1>1, <2>1
<1>5. CASE UNCHANGED wooVars
  <2>1. rec' = rec
    BY <1>5 DEF wooVars
  <2> QED  BY <1>1, <2>1
<1> QED  BY <1>2, <1>3, <1>4, <1>5

LEMMA QuietLatest == ASSUME RecQuiet PROVE LatestGen' = LatestGen
BY LatestKept DEF RecQuiet

LEMMA GensStep ==
  ASSUME WooRows, GensInv, JobsInv, [WooNext]_wooVars
  PROVE  GensInv'
<1>1. CASE RecQuiet
  BY <1>1, QuietLatest DEF RecQuiet, GensInv
<1>2. ASSUME NEW w \in WooWorkers, InsertRecovery(w), rec' # rec PROVE GensInv'
  <2> DEFINE g == wk[w].g
  <2>1. /\ g \in Gens /\ NextGen(g) /\ rec[g].st = "none" /\ (LatestGen # 0 => rec[LatestGen].st \notin Live)
        /\ rec' = [rec EXCEPT ![g] = [NoRec EXCEPT !.st = "DETECTED", !.at = evt[wk[w].e].at, !.origin = wk[w].e]]
    BY <1>2, InsertIs
  <2>2. rec'[g].st = "DETECTED" /\ \A h \in Gens : h # g => rec'[h] = rec[h]
    BY <2>1 DEF WooRows, NoRec
  <2>3. LatestGen' = LatestGen + 1
    BY <2>1, <2>2, LatestGrows
  <2>4. LatestGen \in Nat /\ \A h \in Gens : h \in Nat /\ h # 0
    BY LatestIsNumber, WooBounds
  <2> QED  BY <2>1, <2>2, <2>3, <2>4 DEF GensInv, NextGen
<1>3. ASSUME NEW w \in WooWorkers, InsertRecovery(w), rec' = rec PROVE RecQuiet
  BY <1>3 DEF RecQuiet
<1> QED  BY <1>1, <1>2, <1>3, QuietStep

(***************************************************************************)
(* The jobs of the workers.                                                *)
(***************************************************************************)
EventsKept == \A e \in Events : evt'[e].kind = evt[e].kind /\ (evt'[e].st # "none" <=> evt[e].st # "none")
OthersKept(w) == \A v \in WooWorkers : v # w => wk'[v] = wk[v]
CandsFine == \A g \in Gens : cand[g].st # "none" => cand[g].e \in Events

\* A worker goes on with its job or ends it.
LEMMA JobKept ==
  ASSUME WooRows, JobsInv, NEW w \in WooWorkers, OthersKept(w), JobOf(w)', EventsKept, CandsFine',
         wk'[w].job \in {wk[w].job, "none"}, wk'[w].job \in {"init", "cand"} => wk'[w].g = wk[w].g,
         \A g \in Gens : init[g] = "active" => init'[g] = "active" \/ (wk[w].job = "init" /\ wk[w].g = g /\ wk'[w].job = "none"),
         \A g \in Gens : cand[g].st = "active" =>
                         cand'[g].st = "active" \/ (wk[w].job = "cand" /\ wk[w].g = g /\ wk'[w].job = "none")
  PROVE  JobsInv'
<1>1. \A v \in WooWorkers : v # w => JobOf(v)'
  BY DEF JobsInv, JobOf, OthersKept, EventsKept
<1>2. \A v \in WooWorkers : JobOf(v)
  BY DEF JobsInv
<1>3. \A v \in WooWorkers : wk'[v].job = "init" => wk[v].job = "init" /\ wk'[v].g = wk[v].g /\ wk[v].g \in Gens
  BY <1>2 DEF OthersKept, JobOf
<1>4. \A v \in WooWorkers : wk'[v].job = "cand" => wk[v].job = "cand" /\ wk'[v].g = wk[v].g /\ wk[v].g \in Gens
  BY <1>2 DEF OthersKept, JobOf
<1>5. \A v \in WooWorkers : wk'[v].job = "init" => init'[wk'[v].g] = "active"
  BY <1>3 DEF JobsInv, OthersKept
<1>6. \A v \in WooWorkers : wk'[v].job = "cand" => cand'[wk'[v].g].st = "active"
  BY <1>4 DEF JobsInv, OthersKept
<1>7. \A u, v \in WooWorkers : wk'[u].job = wk'[v].job /\ wk'[u].job \in {"init", "cand"} /\ wk'[u].g = wk'[v].g => u = v
  BY <1>3, <1>4 DEF JobsInv
<1> QED  BY <1>1, <1>5, <1>6, <1>7 DEF JobsInv, CandsFine, EventsKept

\* An idle worker takes a job that no other has.
LEMMA JobsTaken ==
  ASSUME WooRows, JobsInv, NEW w \in WooWorkers, OthersKept(w), JobOf(w)', EventsKept, CandsFine', wk[w].job = "none",
         \A g \in Gens : init[g] = "active" => init'[g] = "active",
         \A g \in Gens : cand[g].st = "active" => cand'[g].st = "active",
         wk'[w].job = "init" => init'[wk'[w].g] = "active" /\ init[wk'[w].g] # "active",
         wk'[w].job = "cand" => cand'[wk'[w].g].st = "active" /\ cand[wk'[w].g].st # "active"
  PROVE  JobsInv'
<1>1. \A v \in WooWorkers : v # w => JobOf(v)'
  BY DEF JobsInv, JobOf, OthersKept, EventsKept
<1>2. \A v \in WooWorkers : JobOf(v)
  BY DEF JobsInv
<1>3. \A v \in WooWorkers : v # w => wk'[v] = wk[v]
  BY DEF OthersKept
<1>4. \A v \in WooWorkers : wk'[v].job = "init" => init'[wk'[v].g] = "active"
  BY <1>2, <1>3 DEF JobsInv, JobOf
<1>5. \A v \in WooWorkers : wk'[v].job = "cand" => cand'[wk'[v].g].st = "active"
  BY <1>2, <1>3 DEF JobsInv, JobOf
<1>6. \A u, v \in WooWorkers : wk'[u].job = wk'[v].job /\ wk'[u].job \in {"init", "cand"} /\ wk'[u].g = wk'[v].g => u = v
  BY <1>3 DEF JobsInv
<1> QED  BY <1>1, <1>4, <1>5, <1>6 DEF JobsInv, CandsFine, EventsKept

LEMMA LeavesJobs ==
  ASSUME WooRows, JobsInv, NEW w \in WooWorkers, Leaves(w)
  PROVE  JobsInv'
<1>1. wk'[w] = IdleWorker /\ wk'[w].pc = "idle" /\ wk'[w].job = "none" /\ OthersKept(w)
  BY LeavesTyped, WooBlanks DEF OthersKept
<1>2. JobOf(w)'
  BY <1>1 DEF JobOf, CheckoutSteps, OrderSteps, MaturitySteps, FirstSteps
<1>3. EventsKept /\ CandsFine'
  BY DEF Leaves, EventsKept, CandsFine, JobsInv
<1> QED  BY <1>1, <1>2, <1>3, JobKept DEF Leaves

LEMMA GoesJobs ==
  ASSUME WooRows, JobsInv, NEW w \in WooWorkers, NEW pc \in WooSteps, WooGo(w, pc), UNCHANGED <<evt, cand, init>>,
         JobOf(w)'
  PROVE  JobsInv'
<1>1. wk'[w].job = wk[w].job /\ wk'[w].g = wk[w].g /\ OthersKept(w)
  BY WorkerGoes DEF OthersKept
<1>2. EventsKept /\ CandsFine'
  BY DEF EventsKept, CandsFine, JobsInv
<1> QED  BY <1>1, <1>2, JobKept

\* The steps of a dispatch, and of the sections that end or go on.
LEMMA GoesFine ==
  ASSUME WooRows, JobsInv, NEW w \in WooWorkers, NEW pc \in WooSteps, WooGo(w, pc), UNCHANGED <<evt, cand, init>>,
         \/ wk[w].pc \in FirstSteps /\ pc \in FirstSteps
         \/ wk[w].pc \in MaturitySteps /\ pc \in MaturitySteps \cup {"enqueue"}
         \/ wk[w].pc = "close" /\ pc = "place"
         \/ wk[w].pc = "settle" /\ pc = "release"
         \/ wk[w].pc = "enqueue" /\ pc = "queue"
         \/ wk[w].pc \in {"enqueue", "queue"} /\ wk[w].job = "cand" /\ pc = "clear"
  PROVE  JobsInv'
<1>1. /\ wk'[w].pc = pc /\ wk'[w].job = wk[w].job /\ wk'[w].e = wk[w].e /\ wk'[w].g = wk[w].g /\ wk'[w].prev = wk[w].prev
      /\ JobOf(w)
  BY WorkerGoes DEF JobsInv
<1>2. JobOf(w)'
  BY <1>1 DEF JobOf, CheckoutSteps, OrderSteps, MaturitySteps, FirstSteps
<1> QED  BY <1>2, GoesJobs

LEMMA DispatchJobs ==
  ASSUME WooRows, JobsInv, NEW w \in WooWorkers,
         ProcessInitial(w) \/ ReserveCredit(w) \/ GuardAgain(w) \/ PrepareInitial(w) \/ AdmitWooSend(w)
         \/ CallWooProvider(w) \/ FinalizeConfirmed(w) \/ MarkMessageSent(w) \/ CompensateProviderError(w)
  PROVE  JobsInv'
<1>1. wk[w].pc \in FirstSteps
  BY DEF ProcessInitial, ReserveCredit, GuardAgain, PrepareInitial, AdmitWooSend, CallWooProvider, FinalizeConfirmed,
         MarkMessageSent, CompensateProviderError, Begin, Within, FirstSteps
<1>2. CASE (\E pc \in FirstSteps : WooGo(w, pc)) /\ UNCHANGED jobVars
  <2>1. FirstSteps \subseteq WooSteps
    BY DEF FirstSteps, WooSteps
  <2> QED  BY <1>1, <1>2, <2>1, GoesFine DEF jobVars
<1>3. CASE Leaves(w)
  BY <1>3, LeavesJobs
<1>4. Throw(w) \/ Done(w) \/ JobEnds(w, "done") => Leaves(w)
  BY ThrowLeaves, DoneLeaves, EndLeaves
<1>5. CASE ProcessInitial(w) \/ ReserveCredit(w) \/ GuardAgain(w)
  BY <1>2, <1>3, <1>4, <1>5 DEF ProcessInitial, ReserveCredit, GuardAgain, Refuse, FirstSteps
<1>6. CASE PrepareInitial(w) \/ AdmitWooSend(w)
  BY <1>2, <1>3, <1>4, <1>6 DEF PrepareInitial, AdmitWooSend, Refuse, FirstSteps
<1>7. CASE CallWooProvider(w) \/ FinalizeConfirmed(w)
  BY <1>2, <1>3, <1>4, <1>7 DEF CallWooProvider, FinalizeConfirmed, FirstSteps
<1>8. CASE MarkMessageSent(w) \/ CompensateProviderError(w)
  BY <1>3, <1>4, <1>8 DEF MarkMessageSent, CompensateProviderError
<1> QED  BY <1>5, <1>6, <1>7, <1>8

LEMMA MaturityJobs ==
  ASSUME WooRows, GensInv, JobsInv, NEW w \in WooWorkers,
         EvaluateMatured(w) \/ InsertRecovery(w) \/ ClearMatured(w) \/ EnqueueInitial(w)
  PROVE  JobsInv'
<1>1. CASE Leaves(w)
  BY <1>1, LeavesJobs
<1>2. Throw(w) \/ Done(w) \/ JobEnds(w, "done") => Leaves(w)
  BY ThrowLeaves, DoneLeaves, EndLeaves
<1>3. CASE EvaluateMatured(w)
  <2>1. CASE \E pc \in {"enqueue", "insert", "clear"} : WooGo(w, pc) /\ UNCHANGED jobVars
    <3>1. wk[w].pc \in MaturitySteps
      BY <1>3 DEF EvaluateMatured, Begin, MaturitySteps
    <3> QED  BY <2>1, <3>1, GoesFine DEF MaturitySteps, WooSteps, jobVars
  <2> QED  BY <1>1, <1>2, <1>3, <2>1 DEF EvaluateMatured
<1>4. CASE InsertRecovery(w)
  <2>1. CASE \E pc \in {"enqueue", "clear"} : WooGo(w, pc) /\ UNCHANGED jobVars
    <3>1. wk[w].pc \in MaturitySteps
      BY <1>4 DEF InsertRecovery, MaturitySteps
    <3> QED  BY <2>1, <3>1, GoesFine DEF MaturitySteps, WooSteps, jobVars
  <2> QED  BY <1>1, <1>4, <2>1, InsertIs
<1>5. CASE ClearMatured(w)
  BY <1>1, <1>2, <1>5 DEF ClearMatured
<1>6. CASE EnqueueInitial(w)
  <2>1. CASE WooGo(w, "queue") /\ UNCHANGED jobVars
    BY <1>6, <2>1, GoesFine DEF EnqueueInitial, Begin, WooSteps, jobVars
  <2>2. CASE AfterEnqueue(w)
    <3>1. CASE wk[w].job = "cand" /\ WooGo(w, "clear") /\ UNCHANGED jobVars
      BY <1>6, <3>1, GoesFine DEF EnqueueInitial, Begin, WooSteps, jobVars
    <3> QED  BY <1>1, <1>2, <2>2, <3>1 DEF AfterEnqueue
  <2> QED  BY <1>1, <1>2, <1>6, <2>1, <2>2 DEF EnqueueInitial
<1> QED  BY <1>3, <1>4, <1>5, <1>6

LEMMA QueueInitialJobs ==
  ASSUME WooRows, JobsInv, NEW w \in WooWorkers, QueueInitial(w)
  PROVE  JobsInv'
<1> DEFINE g == wk[w].g
<1>0. /\ wk[w].pc = "queue" /\ g \in Gens /\ wk[w].job \in {"event", "cand"} /\ JobOf(w)
      /\ (wk[w].job = "event" => wk[w].e \in Events /\ evt[wk[w].e].st # "none")
      /\ (wk[w].job = "cand" => cand[g].st = "active")
  BY DEF QueueInitial, JobsInv, JobOf
<1>1. init' = [init EXCEPT ![g] = IF @ = "active" THEN @ ELSE "waiting"]
  BY DEF QueueInitial
<1>2. \A h \in Gens : init[h] = "active" => init'[h] = "active"
  BY <1>1 DEF WooRows
<1>3. CASE wk[w].job = "cand" /\ WooGo(w, "clear") /\ UNCHANGED <<evt, cand>>
  <2>1. /\ wk'[w].pc = "clear" /\ wk'[w].job = wk[w].job /\ wk'[w].e = wk[w].e /\ wk'[w].g = wk[w].g /\ OthersKept(w)
    BY <1>3, WorkerGoes DEF WooSteps, OthersKept
  <2>2. JobOf(w)'
    BY <1>0, <1>3, <2>1 DEF JobOf, CheckoutSteps, OrderSteps, MaturitySteps, FirstSteps
  <2>3. EventsKept /\ CandsFine'
    BY <1>3 DEF EventsKept, CandsFine, JobsInv
  <2> QED  BY <1>2, <1>3, <2>1, <2>2, <2>3, JobKept
<1>4. CASE /\ wk' = [wk EXCEPT ![w] = IdleWorker]
           /\ evt' = IF wk[w].job # "event" THEN evt
                     ELSE [evt EXCEPT ![wk[w].e].st = IF lease = w THEN "done" ELSE "queued"]
           /\ cand' = IF wk[w].job = "cand" THEN [cand EXCEPT ![wk[w].g].st = "delayed"] ELSE cand
  <2>1. wk'[w] = IdleWorker /\ wk'[w].pc = "idle" /\ wk'[w].job = "none" /\ OthersKept(w)
    BY <1>4, WooBlanks DEF OthersKept, WooRows
  <2>2. JobOf(w)'
    BY <2>1 DEF JobOf, CheckoutSteps, OrderSteps, MaturitySteps, FirstSteps
  <2>3. EventsKept
    BY <1>0, <1>4 DEF EventsKept, WooRows, EvtRow
  <2>4. CandsFine' /\ \A h \in Gens : cand[h].st = "active" => cand'[h].st = "active" \/ (wk[w].job = "cand" /\ h = g)
    BY <1>0, <1>4 DEF CandsFine, WooRows, CandRow, JobsInv
  <2> QED  BY <1>2, <2>1, <2>2, <2>3, <2>4, JobKept
<1> QED  BY <1>0, <1>3, <1>4 DEF QueueInitial

LEMMA CheckoutJobs ==
  ASSUME WooRows, GensInv, JobsInv, NEW w \in WooWorkers, RefuseCheckout(w) \/ AcceptCheckout(w) \/ CloseForResumption(w)
  PROVE  JobsInv'
<1>1. CASE Leaves(w)
  BY <1>1, LeavesJobs
<1>2. Throw(w) \/ Done(w) \/ JobEnds(w, "done") => Leaves(w)
  BY ThrowLeaves, DoneLeaves, EndLeaves
<1>3. CASE RefuseCheckout(w)
  <2>1. CASE /\ CancelPending(Boundary(wk[w].e).g) /\ evt' = [evt EXCEPT ![wk[w].e].st = "done"]
             /\ wk' = [wk EXCEPT ![w] = IdleWorker] /\ UNCHANGED <<lease, init>>
    <3>1. wk'[w] = IdleWorker /\ wk'[w].pc = "idle" /\ wk'[w].job = "none" /\ OthersKept(w)
      BY <2>1, WooBlanks DEF OthersKept, WooRows
    <3>2. JobOf(w)'
      BY <3>1 DEF JobOf, CheckoutSteps, OrderSteps, MaturitySteps, FirstSteps
    <3>3. EventsKept
      <4>1. wk[w].e \in Events /\ evt[wk[w].e].st # "none"
        BY <1>3 DEF RefuseCheckout, Begin, JobsInv, JobOf, CheckoutSteps
      <4> QED  BY <2>1, <4>1 DEF EventsKept, WooRows, EvtRow
    <3>4. CandsFine' /\ \A h \in Gens : cand[h].st = "active" => cand'[h].st = "active"
      BY <2>1, CancelPendingTyped, WooBlanks DEF CandsFine, JobsInv
    <3> QED  BY <2>1, <3>1, <3>2, <3>3, <3>4, JobKept
  <2> QED  BY <1>1, <1>2, <1>3, <2>1 DEF RefuseCheckout
<1>4. CASE AcceptCheckout(w)
  <2> DEFINE b == Boundary(wk[w].e)
  <2>1. /\ b.do \in {"place", "close", "enqueue", "settle"} /\ b.g \in Gens
        /\ (b.do \in {"close", "settle"} => b.prev \in Gens)
        /\ wk'[w].pc = b.do /\ wk'[w].g = b.g /\ wk'[w].prev = b.prev /\ wk'[w].job = wk[w].job /\ wk'[w].e = wk[w].e
        /\ OthersKept(w) /\ wk[w].pc = "checkout" /\ UNCHANGED <<evt, cand, init>>
    BY <1>4, AcceptIs DEF OthersKept
  <2> HIDE DEF b
  <2>2. JobOf(w) /\ wk[w].job = "event"
    BY <2>1 DEF JobsInv, JobOf, CheckoutSteps
  <2>3. JobOf(w)'
    BY <2>1, <2>2 DEF JobOf, CheckoutSteps, OrderSteps, MaturitySteps, FirstSteps
  <2>4. EventsKept /\ CandsFine'
    BY <2>1 DEF EventsKept, CandsFine, JobsInv
  <2> QED  BY <2>1, <2>2, <2>3, <2>4, JobKept
<1>5. CASE CloseForResumption(w)
  <2>1. CASE WooGo(w, "place") /\ UNCHANGED jobVars
    BY <1>5, <2>1, GoesFine DEF CloseForResumption, WooSteps, jobVars
  <2> QED  BY <1>1, <1>2, <1>5, <2>1 DEF CloseForResumption
<1> QED  BY <1>3, <1>4, <1>5

LEMMA PlacementJobs ==
  ASSUME WooRows, GensInv, JobsInv, NEW w \in WooWorkers, RefusePlacement(w) \/ PlaceCandidate(w) \/ WriteWatermark(w)
  PROVE  JobsInv'
<1>1. CASE Leaves(w)
  BY <1>1, LeavesJobs
<1>2. Throw(w) \/ Done(w) \/ JobEnds(w, "done") => Leaves(w)
  BY ThrowLeaves, DoneLeaves, EndLeaves
<1>3. CASE RefusePlacement(w)
  <2>1. CASE /\ CancelPending(wk[w].g) /\ UNCHANGED init
             /\ evt' = [evt EXCEPT ![wk[w].e].st = IF lease = w THEN "refused" ELSE "queued"]
             /\ wk' = [wk EXCEPT ![w] = IdleWorker]
    <3>1. wk'[w] = IdleWorker /\ wk'[w].pc = "idle" /\ wk'[w].job = "none" /\ OthersKept(w)
      BY <2>1, WooBlanks DEF OthersKept, WooRows
    <3>2. JobOf(w)'
      BY <3>1 DEF JobOf, CheckoutSteps, OrderSteps, MaturitySteps, FirstSteps
    <3>3. EventsKept
      <4>1. wk[w].e \in Events /\ evt[wk[w].e].st # "none"
        BY <1>3 DEF RefusePlacement, JobsInv, JobOf, CheckoutSteps
      <4> QED  BY <2>1, <4>1 DEF EventsKept, WooRows, EvtRow
    <3>4. CandsFine' /\ \A h \in Gens : cand[h].st = "active" => cand'[h].st = "active"
      BY <2>1, CancelPendingTyped, WooBlanks DEF CandsFine, JobsInv
    <3> QED  BY <2>1, <3>1, <3>2, <3>3, <3>4, JobKept
  <2> QED  BY <1>1, <1>2, <1>3, <2>1 DEF RefusePlacement
<1>4. CASE PlaceCandidate(w)
  <2> DEFINE g == wk[w].g
             how == Placement(w)
             m == IF how = "keep" THEN NoMark ELSE MarkOf(w, how)
  <2>0. JobOf(w) /\ wk[w].pc = "place" /\ g \in Gens /\ wk[w].e \in Events /\ wk[w].e \in EventNumbers
    BY <1>4, WooBounds DEF PlaceCandidate, JobsInv, JobOf, CheckoutSteps
  <2>1. CASE /\ \/ UNCHANGED <<cand, idx>>
                \/ how = "nonempty" /\ ~ScheduleBlocked(g) /\ SchedulePending(g, wk[w].e)
                \/ CancelPending(g)
             /\ Marks(w, "mark", m)
             /\ UNCHANGED <<evt, init, lease>>
    <3>1. m \in MarkRow
      BY <2>0, WooBlanks, WooBounds, PlacementIs, EvtFields DEF MarkOf, MarkRow, WooRows
    <3> HIDE DEF m, how
    <3>2. /\ wk'[w].pc = "mark" /\ wk'[w].g = g /\ wk'[w].prev = wk[w].prev /\ wk'[w].job = wk[w].job /\ wk'[w].e = wk[w].e
          /\ OthersKept(w)
      BY <2>1, <3>1, WorkerMarks DEF OthersKept, WooSteps
    <3>3. JobOf(w)'
      BY <2>0, <2>1, <3>2 DEF JobOf, CheckoutSteps, OrderSteps, MaturitySteps, FirstSteps
    <3>4. EventsKept
      BY <2>1 DEF EventsKept
    <3>5. CandsFine' /\ \A h \in Gens : cand[h].st = "active" => cand'[h].st = "active"
      <4>1. CASE UNCHANGED <<cand, idx>>
        BY <4>1 DEF CandsFine, JobsInv
      <4>2. CASE CancelPending(g)
        BY <4>2, CancelPendingTyped, WooBlanks DEF CandsFine, JobsInv
      <4>3. CASE ~ScheduleBlocked(g) /\ SchedulePending(g, wk[w].e)
        BY <2>0, <4>3 DEF SchedulePending, ScheduleBlocked, CandsFine, JobsInv, WooRows
      <4> QED  BY <2>1, <4>1, <4>2, <4>3
    <3> QED  BY <2>1, <3>2, <3>3, <3>4, <3>5, JobKept
  <2> QED  BY <1>1, <1>2, <1>4, <2>1, PlacementIs DEF PlaceCandidate, Marks
<1>5. CASE WriteWatermark(w)
  <2>1. CASE wk[w].prev # 0 /\ Marks(w, "settle", NoMark) /\ UNCHANGED jobVars
    <3>1. /\ wk'[w].pc = "settle" /\ wk'[w].g = wk[w].g /\ wk'[w].prev = wk[w].prev /\ wk'[w].job = wk[w].job
          /\ wk'[w].e = wk[w].e /\ OthersKept(w)
      BY <2>1, WorkerMarks, WooBlanks DEF OthersKept, WooSteps
    <3>2. JobOf(w) /\ wk[w].pc = "mark" /\ wk[w].prev \in Gens
      BY <1>5, <2>1, WkFields, WooBounds DEF WriteWatermark, JobsInv, WooRows
    <3>3. JobOf(w)'
      BY <2>1, <3>1, <3>2 DEF JobOf, CheckoutSteps, OrderSteps, MaturitySteps, FirstSteps, jobVars
    <3>4. EventsKept /\ CandsFine'
      BY <2>1 DEF EventsKept, CandsFine, JobsInv, jobVars
    <3> QED  BY <2>1, <3>1, <3>3, <3>4, JobKept DEF jobVars
  <2> QED  BY <1>1, <1>2, <1>5, <2>1 DEF WriteWatermark, Marks
<1> QED  BY <1>3, <1>4, <1>5

LEMMA SettleJobs ==
  ASSUME WooRows, JobsInv, NEW w \in WooWorkers, SettleResumed(w) \/ ReleaseReservedCredit(w) \/ TransitionRecovery(w)
  PROVE  JobsInv'
<1>1. CASE Leaves(w)
  BY <1>1, LeavesJobs
<1>2. Throw(w) \/ Done(w) \/ JobEnds(w, "done") => Leaves(w)
  BY ThrowLeaves, DoneLeaves, EndLeaves
<1>3. CASE WooGo(w, "release") /\ UNCHANGED jobVars /\ wk[w].pc = "settle"
  BY <1>3, GoesFine DEF WooSteps, jobVars
<1>4. CASE SettleResumed(w)
  BY <1>1, <1>2, <1>3, <1>4 DEF SettleResumed, Begin
<1>5. CASE ReleaseReservedCredit(w) \/ TransitionRecovery(w)
  BY <1>1, <1>2, <1>5 DEF ReleaseReservedCredit, TransitionRecovery
<1> QED  BY <1>4, <1>5

LEMMA OrderJobs ==
  ASSUME WooRows, JobsInv, NEW w \in WooWorkers, ObserveOrder(w) \/ DropCandidate(w)
  PROVE  JobsInv'
<1>1. CASE ObserveOrder(w)
  <2> DEFINE b == Decide(wk[w].e).kind = "paid"
  <2>1. /\ wk[w].pc = "order" /\ JobOf(w) /\ UNCHANGED <<evt, cand, init>>
        /\ Reads(w, "drop", b)
    BY <1>1 DEF Reads, ObserveOrder, Begin, JobsInv, jobVars
  <2>2. b \in BOOLEAN
    OBVIOUS
  <2> HIDE DEF b
  <2>3. /\ wk'[w].pc = "drop" /\ wk'[w].g = wk[w].g /\ wk'[w].job = wk[w].job /\ wk'[w].e = wk[w].e
        /\ OthersKept(w)
    BY <2>1, <2>2, WorkerReads DEF OthersKept, WooSteps
  <2>4. JobOf(w)'
    BY <2>1, <2>3 DEF JobOf, CheckoutSteps, OrderSteps, MaturitySteps, FirstSteps
  <2>5. EventsKept /\ CandsFine'
    BY <2>1 DEF EventsKept, CandsFine, JobsInv
  <2> QED  BY <2>1, <2>3, <2>4, <2>5, JobKept
<1>2. CASE DropCandidate(w)
  <2>1. CASE Throw(w)
    BY <2>1, ThrowLeaves, LeavesJobs
  <2>2. CASE (\E g : CancelPending(g)) /\ WooGo(w, "transition") /\ UNCHANGED <<evt, init>>
    <3>1. /\ wk'[w].pc = "transition" /\ wk'[w].g = wk[w].g /\ wk'[w].job = wk[w].job /\ wk'[w].e = wk[w].e
          /\ OthersKept(w)
      BY <2>2, WorkerGoes DEF OthersKept, WooSteps
    <3>2. wk[w].pc = "drop" /\ JobOf(w)
      BY <1>2 DEF DropCandidate, JobsInv
    <3>3. JobOf(w)'
      BY <2>2, <3>1, <3>2 DEF JobOf, CheckoutSteps, OrderSteps, MaturitySteps, FirstSteps
    <3>4. EventsKept
      BY <2>2 DEF EventsKept
    <3>5. CandsFine' /\ \A h \in Gens : cand[h].st = "active" => cand'[h].st = "active"
      BY <2>2, CancelPendingTyped, WooBlanks DEF CandsFine, JobsInv
    <3> QED  BY <2>2, <3>1, <3>3, <3>4, <3>5, JobKept
  <2> QED  BY <1>2, <2>1, <2>2 DEF DropCandidate
<1> QED  BY <1>1, <1>2

LEMMA TakeJobs ==
  ASSUME WooRows, JobsInv, NEW w \in WooWorkers,
         (\E e \in Events : TakeEvent(w, e)) \/ (\E g \in Gens : TakeCandidate(w, g) \/ TakeInitial(w, g))
  PROVE  JobsInv'
<1>0. wk[w].job = "none" /\ \A g \in Gens : g \in GenNumbers
  BY WooBlanks, WooBounds DEF TakeEvent, TakeCandidate, TakeInitial
<1>1. ASSUME NEW e \in Events, TakeEvent(w, e) PROVE JobsInv'
  <2> DEFINE p == IF evt[e].kind \in {"full", "empty"} THEN "checkout" ELSE "order"
  <2>1. /\ evt[e].st = "queued" /\ evt' = [evt EXCEPT ![e].st = "busy"] /\ UNCHANGED <<cand, init>>
        /\ wk' = [wk EXCEPT ![w] = [IdleWorker EXCEPT !.job = "event", !.e = e, !.pc = p]]
    BY <1>1 DEF TakeEvent, redisVars
  <2>2. wk'[w].job = "event" /\ wk'[w].e = e /\ wk'[w].pc = p /\ OthersKept(w)
    BY <2>1 DEF IdleWorker, OthersKept, WooRows
  <2>3. EventsKept /\ evt'[e].st = "busy" /\ evt'[e].kind = evt[e].kind
    BY <2>1 DEF EventsKept, WooRows, EvtRow
  <2>4. evt[e].kind \in OrderKinds <=> p = "order"
    BY <2>1, EvtFields DEF OrderKinds, JobsInv, WooRows
  <2>5. JobOf(w)'
    BY <2>2, <2>3, <2>4 DEF JobOf, CheckoutSteps, OrderSteps, MaturitySteps, FirstSteps
  <2>6. CandsFine'
    BY <2>1 DEF CandsFine, JobsInv
  <2> QED  BY <1>0, <2>1, <2>2, <2>3, <2>5, <2>6, JobsTaken
<1>2. ASSUME NEW g \in Gens, TakeCandidate(w, g) PROVE JobsInv'
  <2>1. /\ cand[g].st = "delayed" /\ cand' = [cand EXCEPT ![g].st = "active"] /\ UNCHANGED <<evt, init>>
        /\ wk' = [wk EXCEPT ![w] = [IdleWorker EXCEPT !.job = "cand", !.e = cand[g].e, !.g = g, !.pc = "mature"]]
    BY <1>2 DEF TakeCandidate
  <2>2. wk'[w].job = "cand" /\ wk'[w].e = cand[g].e /\ wk'[w].g = g /\ wk'[w].pc = "mature" /\ OthersKept(w)
    BY <2>1 DEF IdleWorker, OthersKept, WooRows
  <2>3. EventsKept /\ cand[g].e \in Events
    BY <2>1 DEF EventsKept, JobsInv
  <2>4. CandsFine' /\ cand'[g].st = "active" /\ \A h \in Gens : cand[h].st = "active" => cand'[h].st = "active"
    BY <2>1 DEF CandsFine, JobsInv, WooRows, CandRow
  <2>5. JobOf(w)'
    BY <2>2, <2>3 DEF JobOf, CheckoutSteps, OrderSteps, MaturitySteps, FirstSteps
  <2> QED  BY <1>0, <2>1, <2>2, <2>3, <2>4, <2>5, JobsTaken
<1>3. ASSUME NEW g \in Gens, TakeInitial(w, g) PROVE JobsInv'
  <2>1. /\ init[g] = "waiting" /\ init' = [init EXCEPT ![g] = "active"] /\ UNCHANGED <<evt, cand>>
        /\ wk' = [wk EXCEPT ![w] = [IdleWorker EXCEPT !.job = "init", !.g = g, !.pc = "first"]]
    BY <1>3 DEF TakeInitial, redisVars
  <2>2. wk'[w].job = "init" /\ wk'[w].g = g /\ wk'[w].pc = "first" /\ OthersKept(w)
    BY <2>1 DEF IdleWorker, OthersKept, WooRows
  <2>3. EventsKept /\ CandsFine'
    BY <2>1 DEF EventsKept, CandsFine, JobsInv
  <2>4. init'[g] = "active" /\ \A h \in Gens : init[h] = "active" => init'[h] = "active"
    BY <2>1 DEF WooRows
  <2>5. JobOf(w)'
    BY <2>2 DEF JobOf, CheckoutSteps, OrderSteps, MaturitySteps, FirstSteps
  <2> QED  BY <1>0, <2>1, <2>2, <2>3, <2>4, <2>5, JobsTaken
<1> QED  BY <1>1, <1>2, <1>3

LEMMA WooJobsStep ==
  ASSUME WooRows, GensInv, JobsInv, [WooNext]_wooVars
  PROVE  JobsInv'
<1>1. ASSUME UNCHANGED <<evt, cand, init, wk>> PROVE JobsInv'
  BY <1>1 DEF JobsInv, JobOf
<1>2. ASSUME NEW w \in WooWorkers, WooStep(w) PROVE JobsInv'
  BY <1>2, CheckoutJobs, PlacementJobs, SettleJobs, OrderJobs, MaturityJobs, QueueInitialJobs, DispatchJobs DEF WooStep
<1>3. ASSUME NEW kind \in {"full", "empty", "placed", "paid"}, NEW at \in Seconds, CaptureEvent(kind, at) PROVE JobsInv'
  <2>1. PICK e \in Events : evt[e].st = "none" /\ evt' = [evt EXCEPT ![e] = [kind |-> kind, at |-> at, st |-> "queued"]]
    BY <1>3 DEF CaptureEvent
  <2>2. UNCHANGED <<cand, init, wk>>
    BY <1>3 DEF CaptureEvent, redisVars
  <2>3. \A d \in Events : /\ evt[d].st # "none" => evt'[d] = evt[d]
                          /\ evt'[d].st # "none" => evt'[d].kind # "none"
    BY <2>1 DEF JobsInv, WooRows
  <2>4. \A w \in WooWorkers : JobOf(w)'
    BY <2>2, <2>3 DEF JobsInv, JobOf
  <2> QED  BY <2>2, <2>3, <2>4 DEF JobsInv
<1>4. ASSUME NEW w \in WooWorkers, WooMishap(w) PROVE JobsInv'
  BY <1>4, ThrowLeaves, LeavesJobs DEF WooMishap
<1>5. LeaseLost \/ CustomerStops \/ (\E g \in Gens : ExpireRecovery(g)) \/ UNCHANGED wooVars => UNCHANGED <<evt, cand, init, wk>>
  BY DEF LeaseLost, CustomerStops, ExpireRecovery, wooVars, redisVars
<1> QED  BY <1>1, <1>2, <1>3, <1>4, <1>5, TakeJobs DEF WooNext

(***************************************************************************)
(* The message and its credit.                                             *)
(***************************************************************************)
\* A cancelled recovery stays cancelled.
LEMMA CancelledStays ==
  ASSUME WooRows, GensInv, JobsInv, [WooNext]_wooVars
  PROVE  \A g \in Gens : rec[g].st = "CANCELLED" => rec'[g].st = "CANCELLED"
<1>1. ASSUME NEW w \in WooWorkers, InsertRecovery(w) PROVE \A g \in Gens : rec[g].st = "CANCELLED" => rec'[g].st = "CANCELLED"
  BY <1>1, InsertIs DEF WooRows
<1> QED  BY <1>1, QuietStep DEF RecQuiet

\* What holds of the message of generation g.
MsgGen(g) == /\ wooMsg[g].wire => wooMsg[g].st \in {"PERMITTED", "SENT"}
             /\ wooMsg[g].st \in {"PERMITTED", "SENT"} => res[g] \in {"RESERVED", "COMMITTED"}

\* A worker's step leaves the messages and the credits alone.
LEMMA MsgSame ==
  ASSUME WooRows, JobsInv, MsgInv, NEW w \in WooWorkers, OthersKept(w), MsgOf(w)', UNCHANGED <<wooMsg, res>>,
         \A g \in Gens : rec[g].st = "CANCELLED" => rec'[g].st = "CANCELLED"
  PROVE  MsgInv'
<1>1. \A v \in WooWorkers : v # w => MsgOf(v)'
  BY DEF MsgInv, MsgOf, OthersKept, PrePermit, JobsInv, JobOf
<1> QED  BY <1>1 DEF MsgInv

\* A worker's step changes the message or the credit of one generation.
LEMMA MsgOne ==
  ASSUME WooRows, JobsInv, MsgInv, NEW w \in WooWorkers, OthersKept(w), MsgOf(w)', NEW g \in Gens,
         \A h \in Gens : h # g => wooMsg'[h] = wooMsg[h] /\ res'[h] = res[h],
         MsgGen(g)', (wk[w].job = "init" /\ wk[w].g = g) \/ wooMsg'[g] = wooMsg[g],
         rec[g].st = "CANCELLED" /\ PrePermit(g) => PrePermit(g)',
         \A h \in Gens : rec[h].st = "CANCELLED" => rec'[h].st = "CANCELLED"
  PROVE  MsgInv'
<1>1. ASSUME NEW v \in WooWorkers, v # w PROVE MsgOf(v)'
  <2>1. wk'[v] = wk[v] /\ MsgOf(v) /\ JobOf(v)
    BY <1>1 DEF OthersKept, MsgInv, JobsInv
  <2>2. wk[v].pc \in FirstSteps => wk[v].g \in Gens /\ wooMsg'[wk[v].g] = wooMsg[wk[v].g]
    BY <1>1, <2>1 DEF JobsInv, JobOf
  <2>3. wk[v].pc = "release" => wk[v].prev \in Gens /\ rec'[wk[v].prev].st = "CANCELLED" /\ PrePermit(wk[v].prev)'
    BY <2>1 DEF JobOf, MsgOf, PrePermit
  <2> QED  BY <2>1, <2>2, <2>3 DEF MsgOf, FirstSteps
<1>2. \A h \in Gens : MsgGen(h)'
  BY DEF MsgGen, MsgInv
<1> QED  BY <1>1, <1>2 DEF MsgInv, MsgGen

LEMMA LeavesMsg ==
  ASSUME WooRows, NEW w \in WooWorkers, Leaves(w)
  PROVE  OthersKept(w) /\ MsgOf(w)'
BY LeavesTyped, WooBlanks DEF OthersKept, MsgOf

\* Steps of worker w other than those of a dispatch and of a settlement.
LEMMA OrdinaryMsg ==
  ASSUME WooRows, GensInv, JobsInv, MsgInv, NEW w \in WooWorkers, [WooNext]_wooVars,
         WooStep(w) \/ WooMishap(w) \/ (\E e \in Events : TakeEvent(w, e)) \/ (\E g \in Gens : TakeCandidate(w, g) \/ TakeInitial(w, g)),
         UNCHANGED <<wooMsg, res>>, OthersKept(w),
         wk'[w].pc \notin {"reserve", "again", "prepare", "permit", "call", "failed", "release"}
  PROVE  MsgInv'
<1>1. MsgOf(w)'
  BY DEF MsgOf
<1> QED  BY <1>1, CancelledStays, MsgSame

LEMMA SettleResumedMsg ==
  ASSUME WooRows, GensInv, JobsInv, MsgInv, NEW w \in WooWorkers, [WooNext]_wooVars, SettleResumed(w)
  PROVE  MsgInv'
<1>a. PICK g \in Gens : g = wk[w].prev
  BY DEF SettleResumed, Begin, JobsInv, JobOf
<1>0. /\ wk[w].pc = "settle" /\ g = wk[w].prev /\ wooMsg' = wooMsg /\ rec' = rec
      /\ res \in [Gens -> ResStates] /\ wooMsg \in [Gens -> WooMsgRow]
  BY <1>a DEF SettleResumed, Begin, JobsInv, JobOf, outreachVars, WooRows
<1>1. \A h \in Gens : rec[h].st = "CANCELLED" => rec'[h].st = "CANCELLED"
  BY <1>0
<1>2. CASE res' = res /\ Leaves(w)
  BY <1>0, <1>1, <1>2, LeavesMsg, MsgSame
<1>3. CASE rec[g].st = "CANCELLED" /\ PrePermit(g) /\ res' = res /\ WooGo(w, "release")
  <2>1. /\ wk'[w].pc = "release" /\ wk'[w].prev = g /\ OthersKept(w)
    BY <1>0, <1>3, WorkerGoes DEF OthersKept, WooSteps
  <2>2. MsgOf(w)'
    BY <1>0, <1>3, <2>1 DEF MsgOf, PrePermit
  <2> QED  BY <1>0, <1>1, <1>3, <2>1, <2>2, MsgSame
<1>4. CASE Leaves(w) /\ \/ wooMsg[g].st = "SENT" /\ res' = [res EXCEPT ![g] = "COMMITTED"]
                        \/ wooMsg[g].st = "FAILED" /\ res' = [res EXCEPT ![g] = "RELEASED"]
  <2>1. MsgGen(g)' /\ \A h \in Gens : h # g => res'[h] = res[h]
    BY <1>0, <1>4 DEF MsgGen, MsgInv
  <2>2. PrePermit(g)' <=> PrePermit(g)
    BY <1>0 DEF PrePermit
  <2> QED  BY <1>0, <1>1, <1>4, <2>1, <2>2, LeavesMsg, MsgOne
<1>5. Throw(w) \/ JobEnds(w, "done") => Leaves(w)
  BY ThrowLeaves, EndLeaves
<1> QED  BY <1>0, <1>2, <1>3, <1>4, <1>5 DEF SettleResumed, outreachVars

LEMMA ReleaseReservedCreditMsg ==
  ASSUME WooRows, GensInv, JobsInv, MsgInv, NEW w \in WooWorkers, [WooNext]_wooVars, ReleaseReservedCredit(w)
  PROVE  MsgInv'
<1>a. PICK g \in Gens : g = wk[w].prev
  BY DEF ReleaseReservedCredit, JobsInv, JobOf
<1>0. /\ wk[w].pc = "release" /\ g = wk[w].prev /\ wooMsg' = wooMsg /\ rec' = rec /\ Leaves(w)
      /\ res \in [Gens -> ResStates] /\ wooMsg \in [Gens -> WooMsgRow]
      /\ res' = res \/ res' = [res EXCEPT ![g] = "RELEASED"]
  BY <1>a, ThrowLeaves, DoneLeaves DEF ReleaseReservedCredit, WooRows
<1>1. PrePermit(g)
  BY <1>0 DEF MsgInv, MsgOf
<1>2. MsgGen(g)' /\ \A h \in Gens : h # g => res'[h] = res[h]
  BY <1>0, <1>1 DEF MsgGen, MsgInv, PrePermit
<1>3. PrePermit(g)' <=> PrePermit(g)
  BY <1>0 DEF PrePermit
<1> QED  BY <1>0, <1>2, <1>3, LeavesMsg, MsgOne

LEMMA ReserveCreditMsg ==
  ASSUME WooRows, GensInv, JobsInv, MsgInv, NEW w \in WooWorkers, [WooNext]_wooVars, ReserveCredit(w)
  PROVE  MsgInv'
<1>a. PICK g \in Gens : g = wk[w].g
  BY DEF ReserveCredit, Within, JobsInv, JobOf, FirstSteps
<1>0. /\ wk[w].pc = "reserve" /\ wooMsg' = wooMsg /\ rec' = rec /\ wooMsg[g].st = "none" /\ WooGo(w, "again")
      /\ wk[w].job = "init"
  BY <1>a DEF ReserveCredit, Within, MsgInv, MsgOf, JobsInv, JobOf, FirstSteps
<1>1. /\ wk'[w].pc = "again" /\ wk'[w].g = g /\ OthersKept(w)
  BY <1>a, <1>0, WorkerGoes DEF OthersKept, WooSteps
<1>2. MsgOf(w)'
  BY <1>0, <1>1 DEF MsgOf
<1>3. \A h \in Gens : h # g => res'[h] = res[h]
  BY <1>a DEF ReserveCredit, WooRows
<1>4. MsgGen(g)'
  BY <1>0 DEF MsgGen, MsgInv
<1>5. PrePermit(g) => PrePermit(g)'
  BY <1>0 DEF PrePermit
<1> QED  BY <1>0, <1>1, <1>2, <1>3, <1>4, <1>5, MsgOne

\* A refusal gives back a credit whose message was not permitted.
LEMMA RefuseMsg ==
  ASSUME WooRows, GensInv, JobsInv, MsgInv, NEW w \in WooWorkers, [WooNext]_wooVars, Refuse(w, wk[w].g), rec' = rec,
         wk[w].pc \in FirstSteps, PrePermit(wk[w].g),
         \/ wooMsg' = wooMsg
         \/ wooMsg' = [wooMsg EXCEPT ![wk[w].g].st = IF @ = "PREPARED" THEN "none" ELSE @]
  PROVE  MsgInv'
<1>a. PICK g \in Gens : g = wk[w].g
  BY DEF JobsInv, JobOf
<1>0. Leaves(w) /\ wk[w].job = "init"
  BY RefuseTyped DEF JobsInv, JobOf
<1>1. /\ wooMsg \in [Gens -> WooMsgRow] /\ res \in [Gens -> ResStates] /\ PrePermit(g)
      /\ res' = [res EXCEPT ![g] = IF @ = "RESERVED" THEN "RELEASED" ELSE @]
  BY <1>a DEF WooRows, Refuse
<1>2. \A h \in Gens : h # g => wooMsg'[h] = wooMsg[h] /\ res'[h] = res[h]
  BY <1>a, <1>1
<1>3. wooMsg'[g].st \in {"none", "PREPARED"} /\ wooMsg'[g].wire = wooMsg[g].wire
  BY <1>a, <1>1 DEF PrePermit, WooMsgRow
<1>4. MsgGen(g)' /\ PrePermit(g)'
  BY <1>1, <1>3 DEF MsgGen, PrePermit, MsgInv
<1> QED  BY <1>0, <1>2, <1>4, <1>a, LeavesMsg, MsgOne

LEMMA GuardAgainMsg ==
  ASSUME WooRows, GensInv, JobsInv, MsgInv, NEW w \in WooWorkers, [WooNext]_wooVars, GuardAgain(w)
  PROVE  MsgInv'
<1>0. wk[w].pc = "again" /\ wooMsg' = wooMsg /\ rec' = rec /\ wooMsg[wk[w].g].st = "none"
  BY DEF GuardAgain, MsgInv, MsgOf
<1>1. CASE WooGo(w, "prepare") /\ res' = res
  <2>1. wk'[w].pc = "prepare" /\ wk'[w].g = wk[w].g /\ OthersKept(w)
    BY <1>1, WorkerGoes DEF OthersKept, WooSteps
  <2>2. MsgOf(w)'
    BY <1>0, <2>1 DEF MsgOf
  <2> QED  BY <1>0, <1>1, <2>1, <2>2, MsgSame
<1>2. CASE Refuse(w, wk[w].g)
  BY <1>0, <1>2, RefuseMsg DEF FirstSteps, PrePermit
<1> QED  BY <1>1, <1>2 DEF GuardAgain

LEMMA PrepareInitialMsg ==
  ASSUME WooRows, GensInv, JobsInv, MsgInv, NEW w \in WooWorkers, [WooNext]_wooVars, PrepareInitial(w)
  PROVE  MsgInv'
<1>a. PICK g \in Gens : g = wk[w].g
  BY DEF PrepareInitial, JobsInv, JobOf, FirstSteps
<1>0. wk[w].pc = "prepare" /\ rec' = rec /\ wooMsg[g].st = "none" /\ wk[w].job = "init"
  BY <1>a DEF PrepareInitial, MsgInv, MsgOf, JobsInv, JobOf, FirstSteps
<1>1. CASE WooGo(w, "permit") /\ res' = res /\ wooMsg' = [wooMsg EXCEPT ![g].st = "PREPARED"]
  <2>1. wk'[w].pc = "permit" /\ wk'[w].g = g /\ OthersKept(w)
    BY <1>a, <1>1, WorkerGoes DEF OthersKept, WooSteps
  <2>2. /\ wooMsg'[g].st = "PREPARED" /\ wooMsg'[g].wire = wooMsg[g].wire
        /\ \A h \in Gens : h # g => wooMsg'[h] = wooMsg[h]
    BY <1>1 DEF WooRows, WooMsgRow
  <2>3. MsgOf(w)' /\ MsgGen(g)' /\ PrePermit(g)'
    BY <1>0, <2>1, <2>2 DEF MsgOf, MsgGen, PrePermit, MsgInv
  <2> QED  BY <1>a, <1>0, <1>1, <2>1, <2>2, <2>3, MsgOne
<1>2. CASE Refuse(w, wk[w].g) /\ wooMsg' = wooMsg
  BY <1>a, <1>0, <1>2, RefuseMsg DEF FirstSteps, PrePermit
<1>3. CASE Throw(w) /\ UNCHANGED <<wooMsg, res>>
  BY <1>0, <1>3, ThrowLeaves, LeavesMsg, MsgSame
<1> QED  BY <1>a, <1>1, <1>2, <1>3 DEF PrepareInitial

LEMMA AdmitWooSendMsg ==
  ASSUME WooRows, GensInv, JobsInv, MsgInv, NEW w \in WooWorkers, [WooNext]_wooVars, AdmitWooSend(w)
  PROVE  MsgInv'
<1>a. PICK g \in Gens : g = wk[w].g
  BY DEF AdmitWooSend, JobsInv, JobOf, FirstSteps
<1>0. wk[w].pc = "permit" /\ rec' = rec /\ wooMsg[g].st = "PREPARED" /\ wk[w].job = "init"
  BY <1>a DEF AdmitWooSend, MsgInv, MsgOf, JobsInv, JobOf, FirstSteps
<1>1. CASE Fence(g) /\ WooGo(w, "call") /\ res' = res /\ wooMsg' = [wooMsg EXCEPT ![g].st = "PERMITTED"]
  <2>1. wk'[w].pc = "call" /\ wk'[w].g = g /\ OthersKept(w)
    BY <1>a, <1>1, WorkerGoes DEF OthersKept, WooSteps
  <2>2. /\ wooMsg'[g].st = "PERMITTED" /\ wooMsg'[g].wire = wooMsg[g].wire
        /\ \A h \in Gens : h # g => wooMsg'[h] = wooMsg[h]
    BY <1>1 DEF WooRows, WooMsgRow
  <2>3. MsgOf(w)' /\ MsgGen(g)' /\ rec[g].st # "CANCELLED"
    BY <1>0, <1>1, <2>1, <2>2 DEF MsgOf, MsgGen, MsgInv, Fence
  <2> QED  BY <1>a, <1>0, <1>1, <2>1, <2>2, <2>3, MsgOne
<1>2. CASE /\ Refuse(w, wk[w].g)
           /\ wooMsg' = [wooMsg EXCEPT ![wk[w].g].st = IF @ = "PREPARED" THEN "none" ELSE @]
  BY <1>a, <1>0, <1>2, RefuseMsg DEF FirstSteps, PrePermit
<1> QED  BY <1>a, <1>1, <1>2 DEF AdmitWooSend

LEMMA CallWooProviderMsg ==
  ASSUME WooRows, GensInv, JobsInv, MsgInv, NEW w \in WooWorkers, [WooNext]_wooVars, CallWooProvider(w)
  PROVE  MsgInv'
<1>a. PICK g \in Gens : g = wk[w].g
  BY DEF CallWooProvider, JobsInv, JobOf, FirstSteps
<1>0. /\ wk[w].pc = "call" /\ rec' = rec /\ res' = res /\ wk[w].job = "init"
      /\ wooMsg[g].st = "PERMITTED" /\ ~wooMsg[g].wire /\ ~PrePermit(g)
      /\ wooMsg \in [Gens -> WooMsgRow]
  BY <1>a DEF CallWooProvider, MsgInv, MsgOf, JobsInv, JobOf, FirstSteps, PrePermit, WooRows
<1>1. CASE wooMsg' = [wooMsg EXCEPT ![g] = [st |-> "SENT", wire |-> TRUE]] /\ WooGo(w, "finalize")
  <2>1. wk'[w].pc = "finalize" /\ wk'[w].g = g /\ OthersKept(w)
    BY <1>a, <1>1, WorkerGoes DEF OthersKept, WooSteps
  <2>2. /\ wooMsg'[g].st = "SENT" /\ \A h \in Gens : h # g => wooMsg'[h] = wooMsg[h]
    BY <1>0, <1>1
  <2>3. MsgOf(w)' /\ MsgGen(g)'
    BY <1>0, <2>1, <2>2 DEF MsgOf, MsgGen, MsgInv
  <2> QED  BY <1>a, <1>0, <2>1, <2>2, <2>3, MsgOne
<1>2. CASE wooMsg' = [wooMsg EXCEPT ![g].st = "FAILED"] /\ WooGo(w, "failed")
  <2>1. wk'[w].pc = "failed" /\ wk'[w].g = g /\ OthersKept(w)
    BY <1>a, <1>2, WorkerGoes DEF OthersKept, WooSteps
  <2>2. /\ wooMsg'[g].st = "FAILED" /\ wooMsg'[g].wire = wooMsg[g].wire
        /\ \A h \in Gens : h # g => wooMsg'[h] = wooMsg[h]
    BY <1>0, <1>2 DEF WooMsgRow
  <2>3. MsgOf(w)' /\ MsgGen(g)'
    BY <1>0, <2>1, <2>2 DEF MsgOf, MsgGen, MsgInv
  <2> QED  BY <1>a, <1>0, <2>1, <2>2, <2>3, MsgOne
<1>3. ASSUME NEW sent \in BOOLEAN, wooMsg' = [wooMsg EXCEPT ![g].wire = sent], Throw(w) PROVE MsgInv'
  <2>1. OthersKept(w) /\ MsgOf(w)'
    BY <1>3, ThrowLeaves, LeavesMsg
  <2>2. /\ wooMsg'[g].st = "PERMITTED" /\ \A h \in Gens : h # g => wooMsg'[h] = wooMsg[h]
    BY <1>0, <1>3 DEF WooMsgRow
  <2>3. MsgGen(g)'
    BY <1>0, <2>2 DEF MsgGen, MsgInv
  <2> QED  BY <1>a, <1>0, <2>1, <2>2, <2>3, MsgOne
<1> QED  BY <1>a, <1>1, <1>2, <1>3 DEF CallWooProvider

LEMMA FinalizeConfirmedMsg ==
  ASSUME WooRows, GensInv, JobsInv, MsgInv, NEW w \in WooWorkers, [WooNext]_wooVars, FinalizeConfirmed(w)
  PROVE  MsgInv'
<1>a. PICK g \in Gens : g = wk[w].g
  BY DEF FinalizeConfirmed, JobsInv, JobOf, FirstSteps
<1>0. /\ rec' = rec /\ wooMsg' = wooMsg /\ wk[w].job = "init"
      /\ \/ res' = res
         \/ res' = [res EXCEPT ![g] = "COMMITTED"]
  BY <1>a DEF FinalizeConfirmed, JobsInv, JobOf, FirstSteps
<1>1. OthersKept(w) /\ MsgOf(w)'
  <2>1. CASE WooGo(w, "sent")
    BY <2>1, WorkerGoes DEF OthersKept, MsgOf, WooSteps
  <2>2. CASE Throw(w)
    BY <2>2, ThrowLeaves, LeavesMsg
  <2> QED  BY <2>1, <2>2 DEF FinalizeConfirmed
<1>2. MsgGen(g)' /\ \A h \in Gens : h # g => res'[h] = res[h]
  BY <1>0 DEF MsgGen, MsgInv, WooRows
<1>3. PrePermit(g) => PrePermit(g)'
  BY <1>0 DEF PrePermit
<1> QED  BY <1>0, <1>1, <1>2, <1>3, MsgOne

LEMMA CompensateProviderErrorMsg ==
  ASSUME WooRows, GensInv, JobsInv, MsgInv, NEW w \in WooWorkers, [WooNext]_wooVars, CompensateProviderError(w)
  PROVE  MsgInv'
<1>a. PICK g \in Gens : g = wk[w].g
  BY DEF CompensateProviderError, JobsInv, JobOf, FirstSteps
<1>0. /\ rec' = rec /\ wooMsg' = wooMsg /\ wooMsg[g].st = "FAILED"
      /\ res' = [res EXCEPT ![g] = IF @ = "RESERVED" THEN "RELEASED" ELSE @]
  BY <1>a DEF CompensateProviderError, MsgInv, MsgOf
<1>1. OthersKept(w) /\ MsgOf(w)'
  BY ThrowLeaves, LeavesMsg DEF CompensateProviderError
<1>2. MsgGen(g)' /\ \A h \in Gens : h # g => res'[h] = res[h]
  BY <1>0 DEF MsgGen, MsgInv, WooRows
<1>3. PrePermit(g) => PrePermit(g)'
  BY <1>0 DEF PrePermit
<1> QED  BY <1>0, <1>1, <1>2, <1>3, MsgOne

(***************************************************************************)
(* The steps of a worker and the lease.                                    *)
(***************************************************************************)
\* Who comes to a step of a section takes the lease, who leaves it gives it back.
LeaseMoves(w) ==
    IF wk'[w].pc \in HeldSteps
    THEN \/ wk[w].pc \in HeldSteps /\ lease' = lease
         \/ wk[w].pc \notin HeldSteps /\ lease = NoLease /\ lease' = w
    ELSE lease' = Freed(w)
Moves(w, from, to) == wk[w].pc = from /\ wk'[w].pc \in to /\ OthersKept(w) /\ LeaseMoves(w)

LEMMA LeavesMoves ==
  ASSUME WooRows, NEW w \in WooWorkers, Leaves(w)
  PROVE  wk'[w].pc = "idle" /\ OthersKept(w) /\ LeaseMoves(w)
BY LeavesTyped, WooBlanks DEF OthersKept, LeaseMoves, Leaves, HeldSteps, FirstSteps

LEMMA FreeIsNobodys == ASSUME NEW w \in WooWorkers, lease = NoLease PROVE Freed(w) = NoLease
BY WooAssumption DEF Freed

LEMMA CheckoutMoves ==
  ASSUME WooRows, GensInv, JobsInv, NEW w \in WooWorkers
  PROVE  /\ RefuseCheckout(w) => Moves(w, "checkout", {"idle"})
         /\ AcceptCheckout(w) => Moves(w, "checkout", {"place", "close", "enqueue", "settle"})
         /\ CloseForResumption(w) => Moves(w, "close", {"place", "idle"})
<1>1. Throw(w) \/ Done(w) \/ JobEnds(w, "done") => Leaves(w)
  BY ThrowLeaves, DoneLeaves, EndLeaves
<1>2. Leaves(w) => wk'[w].pc = "idle" /\ OthersKept(w) /\ LeaseMoves(w)
  BY LeavesMoves
<1>3. ASSUME RefuseCheckout(w) PROVE Moves(w, "checkout", {"idle"})
  <2>1. CASE wk' = [wk EXCEPT ![w] = IdleWorker] /\ UNCHANGED lease
    <3>1. wk'[w].pc = "idle" /\ OthersKept(w)
      BY <2>1, WooBlanks DEF OthersKept, WooRows
    <3>2. lease' = Freed(w)
      BY <1>3, <2>1, FreeIsNobodys DEF RefuseCheckout, Begin
    <3> QED  BY <1>3, <3>1, <3>2 DEF Moves, LeaseMoves, HeldSteps, FirstSteps, RefuseCheckout, Begin
  <2> QED  BY <1>1, <1>2, <1>3, <2>1 DEF RefuseCheckout, Begin, Moves
<1>4. ASSUME AcceptCheckout(w) PROVE Moves(w, "checkout", {"place", "close", "enqueue", "settle"})
  <2>1. /\ wk'[w].pc \in {"place", "close", "enqueue", "settle"} /\ wk[w].pc = "checkout" /\ lease = NoLease /\ OthersKept(w)
        /\ lease' = IF wk'[w].pc \in {"place", "close"} THEN w ELSE lease
    BY <1>4, AcceptIs DEF OthersKept
  <2> QED  BY <2>1, FreeIsNobodys DEF Moves, LeaseMoves, HeldSteps, FirstSteps
<1>5. ASSUME CloseForResumption(w) PROVE Moves(w, "close", {"place", "idle"})
  <2>1. CASE WooGo(w, "place") /\ UNCHANGED lease
    <3>1. wk'[w].pc = "place" /\ OthersKept(w) /\ wk[w].pc = "close"
      BY <1>5, <2>1, WorkerGoes DEF OthersKept, WooSteps, CloseForResumption
    <3> QED  BY <2>1, <3>1 DEF Moves, LeaseMoves, HeldSteps, FirstSteps
  <2> QED  BY <1>1, <1>2, <1>5, <2>1 DEF CloseForResumption, Moves
<1> QED  BY <1>3, <1>4, <1>5

LEMMA PlacementMoves ==
  ASSUME WooRows, GensInv, JobsInv, NEW w \in WooWorkers
  PROVE  /\ RefusePlacement(w) => Moves(w, "place", {"idle"})
         /\ PlaceCandidate(w) => Moves(w, "place", {"mark", "idle"})
         /\ WriteWatermark(w) => Moves(w, "mark", {"settle", "idle"})
<1>1. Throw(w) \/ Done(w) \/ JobEnds(w, "done") => Leaves(w)
  BY ThrowLeaves, DoneLeaves, EndLeaves
<1>2. Leaves(w) => wk'[w].pc = "idle" /\ OthersKept(w) /\ LeaseMoves(w)
  BY LeavesMoves
<1>3. ASSUME RefusePlacement(w) PROVE Moves(w, "place", {"idle"})
  <2>1. CASE wk' = [wk EXCEPT ![w] = IdleWorker] /\ lease' = Freed(w)
    <3>1. wk'[w].pc = "idle" /\ OthersKept(w)
      BY <2>1, WooBlanks DEF OthersKept, WooRows
    <3> QED  BY <1>3, <2>1, <3>1 DEF Moves, LeaseMoves, HeldSteps, FirstSteps, RefusePlacement
  <2> QED  BY <1>1, <1>2, <1>3, <2>1 DEF RefusePlacement, Moves
<1>4. ASSUME PlaceCandidate(w) PROVE Moves(w, "place", {"mark", "idle"})
  <2> DEFINE how == Placement(w)
             m == IF how = "keep" THEN NoMark ELSE MarkOf(w, how)
  <2>1. CASE Marks(w, "mark", m) /\ UNCHANGED lease
    <3>1. wk[w].g \in Gens /\ wk[w].e \in Events /\ wk[w].e \in EventNumbers
      BY <1>4, WooBounds DEF PlaceCandidate, JobsInv, JobOf, CheckoutSteps
    <3>2. m \in MarkRow
      BY <3>1, WooBlanks, WooBounds, PlacementIs, EvtFields DEF MarkOf, MarkRow, WooRows
    <3> HIDE DEF m, how
    <3>3. wk'[w].pc = "mark" /\ OthersKept(w) /\ wk[w].pc = "place"
      BY <1>4, <2>1, <3>2, WorkerMarks DEF OthersKept, WooSteps, PlaceCandidate
    <3> QED  BY <2>1, <3>3 DEF Moves, LeaseMoves, HeldSteps, FirstSteps
  <2> QED  BY <1>1, <1>2, <1>4, <2>1 DEF PlaceCandidate, Moves, Marks
<1>5. ASSUME WriteWatermark(w) PROVE Moves(w, "mark", {"settle", "idle"})
  <2>1. CASE lease = w /\ lease' = NoLease /\ Marks(w, "settle", NoMark)
    <3>1. wk'[w].pc = "settle" /\ OthersKept(w) /\ wk[w].pc = "mark"
      BY <1>5, <2>1, WorkerMarks, WooBlanks DEF OthersKept, WooSteps, WriteWatermark
    <3> QED  BY <2>1, <3>1 DEF Moves, LeaseMoves, HeldSteps, FirstSteps, Freed
  <2> QED  BY <1>1, <1>2, <1>5, <2>1 DEF WriteWatermark, Moves, Marks
<1> QED  BY <1>3, <1>4, <1>5

LEMMA OrderMoves ==
  ASSUME WooRows, GensInv, JobsInv, NEW w \in WooWorkers
  PROVE  /\ SettleResumed(w) => Moves(w, "settle", {"release", "idle"})
         /\ ReleaseReservedCredit(w) => Moves(w, "release", {"idle"})
         /\ ObserveOrder(w) => Moves(w, "order", {"drop"})
         /\ DropCandidate(w) => Moves(w, "drop", {"transition", "idle"})
         /\ TransitionRecovery(w) => Moves(w, "transition", {"idle"})
<1>1. Throw(w) \/ Done(w) \/ JobEnds(w, "done") => Leaves(w)
  BY ThrowLeaves, DoneLeaves, EndLeaves
<1>2. Leaves(w) => wk'[w].pc = "idle" /\ OthersKept(w) /\ LeaseMoves(w)
  BY LeavesMoves
<1>3. ASSUME SettleResumed(w) PROVE Moves(w, "settle", {"release", "idle"})
  <2>1. CASE WooGo(w, "release") /\ lease' = w
    <3>1. wk'[w].pc = "release" /\ OthersKept(w) /\ wk[w].pc = "settle" /\ lease = NoLease
      BY <1>3, <2>1, WorkerGoes DEF OthersKept, WooSteps, SettleResumed, Begin
    <3> QED  BY <2>1, <3>1 DEF Moves, LeaseMoves, HeldSteps, FirstSteps
  <2> QED  BY <1>1, <1>2, <1>3, <2>1 DEF SettleResumed, Begin, Moves
<1>4. ASSUME ReleaseReservedCredit(w) PROVE Moves(w, "release", {"idle"})
  BY <1>1, <1>2, <1>4 DEF ReleaseReservedCredit, Moves
<1>5. ASSUME ObserveOrder(w) PROVE Moves(w, "order", {"drop"})
  <2> DEFINE b == Decide(wk[w].e).kind = "paid"
  <2>1. b \in BOOLEAN /\ Reads(w, "drop", b)
    BY <1>5 DEF ObserveOrder, Reads
  <2> HIDE DEF b
  <2>2. wk'[w].pc = "drop" /\ OthersKept(w)
    BY <2>1, WorkerReads DEF OthersKept, WooSteps
  <2> QED  BY <1>5, <2>2 DEF Moves, LeaseMoves, HeldSteps, FirstSteps, ObserveOrder, Begin
<1>6. ASSUME DropCandidate(w) PROVE Moves(w, "drop", {"transition", "idle"})
  <2>1. CASE WooGo(w, "transition") /\ UNCHANGED lease
    <3>1. wk'[w].pc = "transition" /\ OthersKept(w) /\ wk[w].pc = "drop"
      BY <1>6, <2>1, WorkerGoes DEF OthersKept, WooSteps, DropCandidate
    <3> QED  BY <2>1, <3>1 DEF Moves, LeaseMoves, HeldSteps, FirstSteps
  <2> QED  BY <1>1, <1>2, <1>6, <2>1 DEF DropCandidate, Moves
<1>7. ASSUME TransitionRecovery(w) PROVE Moves(w, "transition", {"idle"})
  BY <1>1, <1>2, <1>7 DEF TransitionRecovery, Moves
<1> QED  BY <1>3, <1>4, <1>5, <1>6, <1>7

LEMMA MaturityMoves ==
  ASSUME WooRows, GensInv, JobsInv, NEW w \in WooWorkers
  PROVE  /\ EvaluateMatured(w) => Moves(w, "mature", {"enqueue", "insert", "clear", "idle"})
         /\ InsertRecovery(w) => Moves(w, "insert", {"enqueue", "clear", "idle"})
         /\ ClearMatured(w) => Moves(w, "clear", {"idle"})
         /\ EnqueueInitial(w) => Moves(w, "enqueue", {"queue", "clear", "idle"})
         /\ QueueInitial(w) => Moves(w, "queue", {"clear", "idle"})
<1>1. Throw(w) \/ Done(w) \/ JobEnds(w, "done") => Leaves(w)
  BY ThrowLeaves, DoneLeaves, EndLeaves
<1>2. Leaves(w) => wk'[w].pc = "idle" /\ OthersKept(w) /\ LeaseMoves(w)
  BY LeavesMoves
<1>a. \A pc \in WooSteps : WooGo(w, pc) => wk'[w].pc = pc /\ OthersKept(w)
  BY WorkerGoes DEF OthersKept
<1>3. ASSUME EvaluateMatured(w) PROVE Moves(w, "mature", {"enqueue", "insert", "clear", "idle"})
  <2>1. CASE WooGo(w, "insert") /\ lease' = w
    BY <1>3, <1>a, <2>1 DEF WooSteps, EvaluateMatured, Begin, Moves, LeaseMoves, HeldSteps, FirstSteps
  <2>2. CASE (WooGo(w, "enqueue") \/ WooGo(w, "clear")) /\ UNCHANGED lease
    BY <1>3, <1>a, <2>2, FreeIsNobodys DEF WooSteps, EvaluateMatured, Begin, Moves, LeaseMoves, HeldSteps, FirstSteps
  <2> QED  BY <1>1, <1>2, <1>3, <2>1, <2>2 DEF EvaluateMatured, Begin, Moves
<1>4. ASSUME InsertRecovery(w) PROVE Moves(w, "insert", {"enqueue", "clear", "idle"})
  <2>1. CASE (WooGo(w, "enqueue") \/ WooGo(w, "clear")) /\ lease = w /\ lease' = NoLease
    BY <1>4, <1>a, <2>1 DEF WooSteps, InsertRecovery, Moves, LeaseMoves, HeldSteps, FirstSteps, Freed
  <2>2. wk[w].pc = "insert"
    BY <1>4 DEF InsertRecovery
  <2> QED  BY <1>2, <1>4, <2>1, <2>2, InsertIs DEF Moves
<1>5. ASSUME ClearMatured(w) PROVE Moves(w, "clear", {"idle"})
  BY <1>1, <1>2, <1>5 DEF ClearMatured, Begin, Moves
<1>6. ASSUME EnqueueInitial(w) PROVE Moves(w, "enqueue", {"queue", "clear", "idle"})
  <2>1. CASE WooGo(w, "queue") /\ lease' = w
    BY <1>6, <1>a, <2>1 DEF WooSteps, EnqueueInitial, Begin, Moves, LeaseMoves, HeldSteps, FirstSteps
  <2>2. CASE WooGo(w, "clear") /\ UNCHANGED lease
    BY <1>6, <1>a, <2>2, FreeIsNobodys DEF WooSteps, EnqueueInitial, Begin, Moves, LeaseMoves, HeldSteps, FirstSteps
  <2> QED  BY <1>1, <1>2, <1>6, <2>1, <2>2 DEF EnqueueInitial, AfterEnqueue, Begin, Moves
<1>7. ASSUME QueueInitial(w) PROVE Moves(w, "queue", {"clear", "idle"})
  <2>1. CASE WooGo(w, "clear")
    BY <1>7, <1>a, <2>1 DEF WooSteps, QueueInitial, Moves, LeaseMoves, HeldSteps, FirstSteps
  <2>2. CASE wk' = [wk EXCEPT ![w] = IdleWorker]
    <3>1. wk'[w].pc = "idle" /\ OthersKept(w)
      BY <2>2, WooBlanks DEF OthersKept, WooRows
    <3> QED  BY <1>7, <3>1 DEF QueueInitial, Moves, LeaseMoves, HeldSteps, FirstSteps
  <2> QED  BY <1>7, <2>1, <2>2 DEF QueueInitial
<1> QED  BY <1>3, <1>4, <1>5, <1>6, <1>7

LEMMA DispatchMoves ==
  ASSUME WooRows, GensInv, JobsInv, NEW w \in WooWorkers
  PROVE  /\ ProcessInitial(w) => Moves(w, "first", {"finalize", "reserve", "idle"})
         /\ ReserveCredit(w) => Moves(w, "reserve", {"again"})
         /\ GuardAgain(w) => Moves(w, "again", {"prepare", "idle"})
         /\ PrepareInitial(w) => Moves(w, "prepare", {"permit", "idle"})
         /\ AdmitWooSend(w) => Moves(w, "permit", {"call", "idle"})
         /\ CallWooProvider(w) => Moves(w, "call", {"finalize", "failed", "idle"})
         /\ FinalizeConfirmed(w) => Moves(w, "finalize", {"sent", "idle"})
         /\ MarkMessageSent(w) => Moves(w, "sent", {"idle"})
         /\ CompensateProviderError(w) => Moves(w, "failed", {"idle"})
<1>1. Throw(w) \/ Done(w) \/ JobEnds(w, "done") => Leaves(w)
  BY ThrowLeaves, DoneLeaves, EndLeaves
<1>2. Leaves(w) => wk'[w].pc = "idle" /\ OthersKept(w) /\ LeaseMoves(w)
  BY LeavesMoves
<1>a. \A pc \in WooSteps : WooGo(w, pc) => wk'[w].pc = pc /\ OthersKept(w)
  BY WorkerGoes DEF OthersKept
<1>b. \A pc \in FirstSteps \ {"first"} : WooGo(w, pc) /\ UNCHANGED lease /\ wk[w].pc \in FirstSteps \ {"first"}
         => wk'[w].pc = pc /\ OthersKept(w) /\ LeaseMoves(w)
  BY <1>a DEF FirstSteps, WooSteps, LeaseMoves, HeldSteps
<1>3. ASSUME ProcessInitial(w) PROVE Moves(w, "first", {"finalize", "reserve", "idle"})
  <2>1. CASE (WooGo(w, "finalize") \/ WooGo(w, "reserve")) /\ lease' = w
    BY <1>3, <1>a, <2>1 DEF WooSteps, ProcessInitial, Begin, Moves, LeaseMoves, HeldSteps, FirstSteps
  <2> QED  BY <1>1, <1>2, <1>3, <2>1 DEF ProcessInitial, Begin, Moves
<1>4. ReserveCredit(w) => Moves(w, "reserve", {"again"})
  BY <1>b DEF ReserveCredit, Within, FirstSteps, Moves
<1>5. GuardAgain(w) => Moves(w, "again", {"prepare", "idle"})
  BY <1>1, <1>2, <1>b DEF GuardAgain, Refuse, FirstSteps, Moves
<1>6. PrepareInitial(w) => Moves(w, "prepare", {"permit", "idle"})
  BY <1>1, <1>2, <1>b DEF PrepareInitial, Refuse, FirstSteps, Moves
<1>7. AdmitWooSend(w) => Moves(w, "permit", {"call", "idle"})
  BY <1>1, <1>2, <1>b DEF AdmitWooSend, Refuse, FirstSteps, Moves
<1>8. CallWooProvider(w) => Moves(w, "call", {"finalize", "failed", "idle"})
  BY <1>1, <1>2, <1>b DEF CallWooProvider, FirstSteps, Moves
<1>9. FinalizeConfirmed(w) => Moves(w, "finalize", {"sent", "idle"})
  BY <1>1, <1>2, <1>b DEF FinalizeConfirmed, FirstSteps, Moves
<1>10. (MarkMessageSent(w) => Moves(w, "sent", {"idle"})) /\ (CompensateProviderError(w) => Moves(w, "failed", {"idle"}))
  BY <1>1, <1>2 DEF MarkMessageSent, CompensateProviderError, Moves
<1> QED  BY <1>3, <1>4, <1>5, <1>6, <1>7, <1>8, <1>9, <1>10

\* A worker's steps, with where they lead.
LEMMA StepsMove ==
  ASSUME WooRows, GensInv, JobsInv, NEW w \in WooWorkers, WooStep(w) \/ WooMishap(w)
  PROVE  OthersKept(w) /\ LeaseMoves(w)
<1>1. WooMishap(w) => OthersKept(w) /\ LeaseMoves(w)
  BY ThrowLeaves, LeavesMoves DEF WooMishap
<1> QED  BY <1>1, CheckoutMoves, PlacementMoves, OrderMoves, MaturityMoves, DispatchMoves DEF WooStep, Moves

\* Taking a job changes neither the lease nor the other workers.
LEMMA TakesMove ==
  ASSUME WooRows, NEW w \in WooWorkers, (\E e \in Events : TakeEvent(w, e)) \/ (\E g \in Gens : TakeCandidate(w, g) \/ TakeInitial(w, g))
  PROVE  /\ wk[w].pc = "idle" /\ wk'[w].pc \in {"checkout", "order", "mature", "first"} /\ OthersKept(w)
         /\ UNCHANGED <<rec, idx, mark, ord, att, wooMsg, res, lease, agreed, wooFaults, lapses>>
<1>1. ASSUME NEW e \in Events, TakeEvent(w, e) PROVE wk[w].pc = "idle" /\ wk'[w].pc \in {"checkout", "order"} /\ OthersKept(w)
  BY <1>1, WooBlanks DEF TakeEvent, IdleWorker, OthersKept, WooRows
<1>2. ASSUME NEW g \in Gens, TakeCandidate(w, g) PROVE wk[w].pc = "idle" /\ wk'[w].pc = "mature" /\ OthersKept(w)
  BY <1>2, WooBlanks DEF TakeCandidate, IdleWorker, OthersKept, WooRows
<1>3. ASSUME NEW g \in Gens, TakeInitial(w, g) PROVE wk[w].pc = "idle" /\ wk'[w].pc = "first" /\ OthersKept(w)
  <2>1. wk[w] = IdleWorker /\ wk' = [wk EXCEPT ![w] = [IdleWorker EXCEPT !.job = "init", !.g = g, !.pc = "first"]]
    BY <1>3 DEF TakeInitial
  <2>2. [IdleWorker EXCEPT !.job = "init", !.g = g, !.pc = "first"].pc = "first"
    BY DEF IdleWorker
  <2> QED  BY <2>1, <2>2, WooBlanks DEF OthersKept, WooRows
<1> QED  BY <1>1, <1>2, <1>3 DEF TakeEvent, TakeCandidate, TakeInitial, redisVars, outreachVars

\* The steps that are no dispatch and no settlement leave the messages and the credits alone.
LEMMA OtherMsg ==
  ASSUME WooRows, GensInv, JobsInv, MsgInv, NEW w \in WooWorkers, [WooNext]_wooVars,
         \/ RefuseCheckout(w) \/ AcceptCheckout(w) \/ CloseForResumption(w) \/ RefusePlacement(w) \/ PlaceCandidate(w)
         \/ WriteWatermark(w) \/ ObserveOrder(w) \/ DropCandidate(w) \/ TransitionRecovery(w) \/ EvaluateMatured(w)
         \/ InsertRecovery(w) \/ ClearMatured(w) \/ EnqueueInitial(w) \/ QueueInitial(w) \/ MarkMessageSent(w) \/ WooMishap(w)
  PROVE  MsgInv'
<1>1. UNCHANGED <<wooMsg, res>>
  BY DEF RefuseCheckout, AcceptCheckout, CloseForResumption, RefusePlacement, PlaceCandidate, WriteWatermark, ObserveOrder,
         DropCandidate, TransitionRecovery, EvaluateMatured, InsertRecovery, ClearMatured, EnqueueInitial, QueueInitial,
         MarkMessageSent, WooMishap, outreachVars
<1>2. WooStep(w) \/ WooMishap(w)
  BY DEF WooStep
<1>3. WooMishap(w) => wk'[w].pc = "idle"
  BY ThrowLeaves, LeavesMoves DEF WooMishap
<1>4. wk'[w].pc \notin {"reserve", "again", "prepare", "permit", "call", "failed", "release"} /\ OthersKept(w)
  BY <1>2, <1>3, StepsMove, CheckoutMoves, PlacementMoves, OrderMoves, MaturityMoves, DispatchMoves DEF Moves
<1> QED  BY <1>1, <1>2, <1>4, OrdinaryMsg

LEMMA ProcessInitialMsg ==
  ASSUME WooRows, GensInv, JobsInv, MsgInv, NEW w \in WooWorkers, [WooNext]_wooVars, ProcessInitial(w)
  PROVE  MsgInv'
<1>1. OthersKept(w) /\ wk'[w].pc \in {"finalize", "reserve", "idle"} /\ UNCHANGED <<wooMsg, res>>
  BY DispatchMoves DEF ProcessInitial, Moves, outreachVars
<1>2. CASE WooGo(w, "reserve") /\ wooMsg[wk[w].g].st = "none"
  <2>1. wk'[w].g = wk[w].g /\ wk'[w].pc = "reserve"
    BY <1>2, WorkerGoes DEF WooSteps
  <2>2. MsgOf(w)'
    BY <1>1, <1>2, <2>1 DEF MsgOf
  <2> QED  BY <1>1, <2>2, CancelledStays, MsgSame
<1>3. CASE Leaves(w) \/ WooGo(w, "finalize")
  <2>1. wk'[w].pc \in {"finalize", "idle"}
    BY <1>3, WorkerGoes, LeavesMoves DEF WooSteps
  <2> QED  BY <1>1, <2>1, OrdinaryMsg DEF WooStep
<1>4. Throw(w) \/ JobEnds(w, "done") => Leaves(w)
  BY ThrowLeaves, EndLeaves
<1> QED  BY <1>2, <1>3, <1>4 DEF ProcessInitial

LEMMA WooMsgStep ==
  ASSUME WooRows, GensInv, JobsInv, MsgInv, [WooNext]_wooVars
  PROVE  MsgInv'
<1>1. ASSUME NEW w \in WooWorkers, WooStep(w) \/ WooMishap(w) PROVE MsgInv'
  BY <1>1, OtherMsg, SettleResumedMsg, ReleaseReservedCreditMsg, ProcessInitialMsg, ReserveCreditMsg, GuardAgainMsg,
     PrepareInitialMsg, AdmitWooSendMsg, CallWooProviderMsg, FinalizeConfirmedMsg, CompensateProviderErrorMsg DEF WooStep
<1>2. ASSUME NEW w \in WooWorkers, (\E e \in Events : TakeEvent(w, e)) \/ (\E g \in Gens : TakeCandidate(w, g) \/ TakeInitial(w, g))
      PROVE  MsgInv'
  BY <1>2, TakesMove, OrdinaryMsg
<1>3. ASSUME UNCHANGED <<wk, wooMsg, res>> PROVE MsgInv'
  <2>1. \A w \in WooWorkers : MsgOf(w)'
    BY <1>3, CancelledStays DEF MsgInv, MsgOf, PrePermit, JobsInv, JobOf
  <2> QED  BY <1>3, <2>1 DEF MsgInv
<1>4. (\E kind \in {"full", "empty", "placed", "paid"}, at \in Seconds : CaptureEvent(kind, at))
      \/ LeaseLost \/ CustomerStops \/ (\E g \in Gens : ExpireRecovery(g)) \/ UNCHANGED wooVars
      => UNCHANGED <<wk, wooMsg, res>>
  BY DEF CaptureEvent, LeaseLost, CustomerStops, ExpireRecovery, wooVars, outreachVars
<1> QED  BY <1>1, <1>2, <1>3, <1>4 DEF WooNext

(***************************************************************************)
(* The lease.                                                              *)
(***************************************************************************)
\* A worker's step makes no stray.
LEMMA NoNewStray ==
  ASSUME NEW w \in WooWorkers, OthersKept(w), LeaseMoves(w), NEW v \in WooWorkers, Stray(v)'
  PROVE  Stray(v)
<1>1. CASE v = w
  BY <1>1 DEF LeaseMoves, Stray
<1>2. CASE v # w
  BY <1>2, WooAssumption DEF LeaseMoves, Stray, OthersKept, Freed
<1> QED  BY <1>1, <1>2

LEMMA LapsesKept ==
  ASSUME NEW w \in WooWorkers, WooStep(w) \/ WooMishap(w)
  PROVE  lapses' = lapses
<1>1. CASE WooMishap(w)
  BY <1>1 DEF WooMishap
<1>2. CASE RefuseCheckout(w) \/ AcceptCheckout(w) \/ CloseForResumption(w) \/ RefusePlacement(w) \/ PlaceCandidate(w)
           \/ WriteWatermark(w) \/ SettleResumed(w) \/ ReleaseReservedCredit(w)
  BY <1>2 DEF RefuseCheckout, AcceptCheckout, CloseForResumption, RefusePlacement, PlaceCandidate, WriteWatermark,
              SettleResumed, ReleaseReservedCredit
<1>3. CASE ObserveOrder(w) \/ DropCandidate(w) \/ TransitionRecovery(w) \/ EvaluateMatured(w) \/ InsertRecovery(w)
           \/ ClearMatured(w) \/ EnqueueInitial(w) \/ QueueInitial(w)
  BY <1>3 DEF ObserveOrder, DropCandidate, TransitionRecovery, EvaluateMatured, InsertRecovery, ClearMatured, EnqueueInitial,
              QueueInitial
<1>4. CASE ProcessInitial(w) \/ ReserveCredit(w) \/ GuardAgain(w) \/ PrepareInitial(w) \/ AdmitWooSend(w)
           \/ CallWooProvider(w) \/ FinalizeConfirmed(w) \/ MarkMessageSent(w) \/ CompensateProviderError(w)
  BY <1>4 DEF ProcessInitial, ReserveCredit, GuardAgain, PrepareInitial, AdmitWooSend, CallWooProvider, FinalizeConfirmed,
              MarkMessageSent, CompensateProviderError
<1> QED  BY <1>1, <1>2, <1>3, <1>4 DEF WooStep

\* Steps after which every worker is where it was, and the lease is where it was.
StandsStill == wk' = wk /\ lease' = lease /\ lapses' = lapses
LEMMA LeaseStep ==
  ASSUME WooRows, GensInv, JobsInv, LeaseInv, [WooNext]_wooVars
  PROVE  LeaseInv'
<1>1. ASSUME NEW w \in WooWorkers, WooStep(w) \/ WooMishap(w) PROVE LeaseInv'
  <2>1. OthersKept(w) /\ LeaseMoves(w) /\ lapses' = lapses
    BY <1>1, StepsMove, LapsesKept
  <2>2. \A v \in WooWorkers : Stray(v)' => Stray(v)
    BY <2>1, NoNewStray
  <2>3. \A v \in WooWorkers : lease' = v => wk'[v].pc \in HeldSteps
    BY <2>1, WooAssumption DEF LeaseMoves, OthersKept, Freed, LeaseInv
  <2> QED  BY <2>1, <2>2, <2>3 DEF LeaseInv
<1>2. ASSUME NEW w \in WooWorkers, (\E e \in Events : TakeEvent(w, e)) \/ (\E g \in Gens : TakeCandidate(w, g) \/ TakeInitial(w, g))
      PROVE  LeaseInv'
  <2>1. /\ wk[w].pc = "idle" /\ wk'[w].pc \in {"checkout", "order", "mature", "first"} /\ OthersKept(w)
        /\ lease' = lease /\ lapses' = lapses
    BY <1>2, TakesMove
  <2>2. wk[w].pc \notin HeldSteps /\ wk'[w].pc \notin HeldSteps
    BY <2>1 DEF HeldSteps, FirstSteps
  <2>3. \A v \in WooWorkers : (wk'[v].pc \in HeldSteps <=> wk[v].pc \in HeldSteps)
    BY <2>1, <2>2 DEF OthersKept
  <2> QED  BY <2>1, <2>3 DEF LeaseInv, Stray
<1>3. CASE StandsStill
  BY <1>3 DEF StandsStill, LeaseInv, Stray
<1>4. (\E kind \in {"full", "empty", "placed", "paid"}, at \in Seconds : CaptureEvent(kind, at))
      \/ CustomerStops \/ (\E g \in Gens : ExpireRecovery(g)) \/ UNCHANGED wooVars => StandsStill
  BY DEF CaptureEvent, CustomerStops, ExpireRecovery, wooVars, StandsStill
<1>5. CASE LeaseLost
  <2>1. lease' = NoLease /\ lapses' = lapses + 1 /\ wk' = wk /\ lapses \in Nat
    BY <1>5, WooAssumption DEF LeaseLost, WooRows, WooFaultNumbers
  <2>2. \A v \in WooWorkers : lapses = 0 /\ Stray(v)' => lease = v
    BY <2>1 DEF LeaseInv, Stray
  <2> QED  BY <2>1, <2>2, WooAssumption DEF LeaseInv
<1> QED  BY <1>1, <1>2, <1>3, <1>4, <1>5 DEF WooNext

(***************************************************************************)
(* The candidate queue.                                                    *)
(***************************************************************************)
\* No candidate is made, and the index stays at each one that stays.
CandsKept == \A h \in Gens : cand'[h].st # "none" => cand[h].st # "none" /\ (idx = h => idx' = h)

LEMMA CancelKeeps ==
  ASSUME WooRows, NEW g, CancelPending(g), ~CancelBlocked(g)
  PROVE  CandsKept
<1>0. cand \in [Gens -> CandRow] /\ idx \in GenNumbers /\ NoCand.st = "none"
  BY WooBlanks DEF WooRows
<1>1. ASSUME NEW h \in Gens, cand'[h].st # "none" PROVE cand[h].st # "none"
  BY <1>0, <1>1, CancelPendingTyped
<1>2. ASSUME NEW h \in Gens, cand'[h].st # "none", idx = h, idx' # h PROVE FALSE
  <2>1. idx = g /\ h = g /\ cand[g].st # "none"
    BY <1>1, <1>2 DEF CancelPending
  <2>2. cand' = [cand EXCEPT ![g] = NoCand]
    BY <2>1 DEF CancelPending, CancelBlocked, ResolveWoo
  <2> QED  BY <1>0, <1>2, <2>1, <2>2
<1> QED  BY <1>1, <1>2 DEF CandsKept

LEMMA LeavesKeeps ==
  ASSUME NEW w \in WooWorkers, Leaves(w), idx' = idx
  PROVE  CandsKept
BY DEF Leaves, CandsKept

LEMMA StillKeeps == ASSUME UNCHANGED <<cand, idx>> PROVE CandsKept
BY DEF CandsKept

LEMMA StepKeepsCands ==
  ASSUME WooRows, GensInv, JobsInv, NEW w \in WooWorkers, WooStep(w) \/ WooMishap(w), ~PlaceCandidate(w)
  PROVE  CandsKept
<1>1. Throw(w) \/ Done(w) \/ JobEnds(w, "done") => Leaves(w)
  BY ThrowLeaves, DoneLeaves, EndLeaves
<1>2. Leaves(w) /\ idx' = idx => CandsKept
  BY LeavesKeeps
<1>3. UNCHANGED <<cand, idx>> => CandsKept
  BY StillKeeps
<1>4. \A g : CancelPending(g) /\ ~CancelBlocked(g) => CandsKept
  BY CancelKeeps
<1>5. CASE RefuseCheckout(w)
  BY <1>1, <1>2, <1>4, <1>5 DEF RefuseCheckout
<1>6. CASE RefusePlacement(w) \/ DropCandidate(w)
  BY <1>1, <1>2, <1>4, <1>6 DEF RefusePlacement, DropCandidate
<1>7. CASE ClearMatured(w)
  <2>1. /\ wk[w].job = "cand" /\ wk[w].g \in Gens /\ JobEnds(w, "done")
        /\ idx' = IF idx = wk[w].g THEN 0 ELSE idx
    BY <1>7 DEF ClearMatured, Begin, JobsInv, JobOf, MaturitySteps
  <2>2. cand' = [cand EXCEPT ![wk[w].g] = NoCand] /\ \A h \in Gens : cand'[h].st # "none" => cand[h].st # "none"
    BY <2>1, EndLeaves DEF Leaves
  <2>3. cand'[wk[w].g].st = "none"
    BY <2>1, <2>2, WooBlanks DEF WooRows
  <2> QED  BY <2>1, <2>2, <2>3 DEF CandsKept
<1>8. CASE AcceptCheckout(w) \/ CloseForResumption(w) \/ WriteWatermark(w) \/ SettleResumed(w) \/ ReleaseReservedCredit(w)
           \/ ObserveOrder(w) \/ TransitionRecovery(w)
  BY <1>1, <1>2, <1>3, <1>8 DEF AcceptCheckout, CloseForResumption, WriteWatermark, SettleResumed, ReleaseReservedCredit,
     ObserveOrder, TransitionRecovery, redisVars, jobVars
<1>9. CASE EvaluateMatured(w) \/ InsertRecovery(w) \/ EnqueueInitial(w)
  <2>1. idx' = idx
    BY <1>9 DEF EvaluateMatured, InsertRecovery, EnqueueInitial
  <2>2. Leaves(w) \/ cand' = cand
    BY <1>1, <1>9, InsertIs DEF EvaluateMatured, EnqueueInitial, AfterEnqueue, jobVars
  <2> QED  BY <1>2, <1>3, <2>1, <2>2
<1>10. CASE QueueInitial(w)
  <2>1. idx' = idx /\ (cand' = cand \/ (wk[w].job = "cand" /\ cand' = [cand EXCEPT ![wk[w].g].st = "delayed"]))
    BY <1>10 DEF QueueInitial
  <2>2. wk[w].job = "cand" => wk[w].g \in Gens /\ cand[wk[w].g].st = "active"
    BY DEF JobsInv, JobOf
  <2> QED  BY <2>1, <2>2 DEF CandsKept, WooRows
<1>11. CASE ProcessInitial(w) \/ ReserveCredit(w) \/ GuardAgain(w) \/ PrepareInitial(w) \/ AdmitWooSend(w)
            \/ CallWooProvider(w) \/ FinalizeConfirmed(w) \/ MarkMessageSent(w) \/ CompensateProviderError(w) \/ WooMishap(w)
  BY <1>1, <1>2, <1>3, <1>11 DEF ProcessInitial, ReserveCredit, GuardAgain, PrepareInitial, AdmitWooSend, CallWooProvider,
     FinalizeConfirmed, MarkMessageSent, CompensateProviderError, WooMishap, Refuse, jobVars
<1> QED  BY <1>5, <1>6, <1>7, <1>8, <1>9, <1>10, <1>11 DEF WooStep

\* The placement schedules its own generation, unless a worker holds that job.
LEMMA PlacementKeeps ==
  ASSUME WooRows, GensInv, JobsInv, NEW w \in WooWorkers, PlaceCandidate(w)
  PROVE  \/ CandsKept
         \/ /\ wk[w].pc = "place" /\ wk[w].g \in Gens /\ ~ScheduleBlocked(wk[w].g) /\ idx' = wk[w].g
            /\ \A h \in Gens : h # wk[w].g => cand'[h] = cand[h]
<1>0. wk[w].pc = "place" /\ wk[w].g \in Gens
  BY DEF PlaceCandidate, JobsInv, JobOf, CheckoutSteps
<1>1. CASE Throw(w) /\ UNCHANGED idx
  BY <1>1, ThrowLeaves, LeavesKeeps
<1>2. CASE UNCHANGED <<cand, idx>>
  BY <1>2, StillKeeps
<1>3. CASE CancelPending(wk[w].g) /\ ~CancelBlocked(wk[w].g)
  BY <1>3, CancelKeeps
<1>4. CASE ~ScheduleBlocked(wk[w].g) /\ SchedulePending(wk[w].g, wk[w].e)
  BY <1>0, <1>4 DEF SchedulePending, WooRows
<1> QED  BY <1>1, <1>2, <1>3, <1>4, PlacementIs DEF PlaceCandidate

\* Who is to close or to place, has a next generation.
LEMMA PlacersMove ==
  ASSUME WooRows, GensInv, JobsInv, NEW w \in WooWorkers, WooStep(w) \/ WooMishap(w),
         NEW p \in WooWorkers, wk'[p].pc \in {"close", "place"}
  PROVE  \/ wk[p].pc \in {"close", "place"} /\ wk'[p].g = wk[p].g
         \/ wk[p].pc = "checkout" /\ lease = NoLease /\ lease' = p /\ NextGen(wk'[p].g) /\ rec' = rec
<1>1. CASE p # w
  BY <1>1, StepsMove DEF OthersKept
<1>2. CASE p = w /\ AcceptCheckout(w)
  <2>1. /\ wk[w].pc = "checkout" /\ lease = NoLease /\ rec' = rec /\ wk'[w].g = LatestGen + 1
        /\ lease' = w
    BY <1>2, AcceptIs
  <2> QED  BY <1>2, <2>1 DEF NextGen
<1>3. CASE p = w /\ CloseForResumption(w)
  <2>1. wk[w].pc = "close" /\ (WooGo(w, "place") \/ Leaves(w))
    BY <1>3, ThrowLeaves DEF CloseForResumption
  <2>2. WooGo(w, "place")
    BY <1>3, <2>1, LeavesMoves
  <2> QED  BY <1>3, <2>1, <2>2, WorkerGoes DEF WooSteps
<1>4. CASE p = w /\ ~AcceptCheckout(w) /\ ~CloseForResumption(w)
  <2>1. WooMishap(w) => wk'[w].pc = "idle"
    BY ThrowLeaves, LeavesMoves DEF WooMishap
  <2> QED  BY <1>4, <2>1, CheckoutMoves, PlacementMoves, OrderMoves, MaturityMoves, DispatchMoves DEF Moves, WooStep
<1> QED  BY <1>1, <1>2, <1>3, <1>4

\* Who is to insert, has just judged: the generation is the next one, and no order is known.
LEMMA InsertersMove ==
  ASSUME WooRows, GensInv, JobsInv, NEW w \in WooWorkers, WooStep(w) \/ WooMishap(w), NEW v \in WooWorkers, wk'[v].pc = "insert"
  PROVE  \/ v # w /\ wk'[v] = wk[v]
         \/ /\ v = w /\ wk[v].pc = "mature" /\ NextGen(wk'[v].g) /\ ord.kind = "none" /\ ord' = ord /\ rec' = rec
            /\ lease = NoLease /\ lease' = v
<1>1. CASE v # w
  BY <1>1, StepsMove DEF OthersKept
<1>2. CASE v = w /\ EvaluateMatured(w)
  <2>1. /\ wk[w].pc = "mature" /\ rec' = rec /\ ord' = ord /\ lease = NoLease /\ wk[w].g \in Gens /\ wk[w].g \in Nat /\ LatestGen \in Nat
    BY <1>2, LatestIsNumber, WooBounds DEF EvaluateMatured, Begin, JobsInv, JobOf, MaturitySteps
  <2>2. ~Leaves(w)
    BY <1>2, LeavesMoves
  <2>3. \A pc \in WooSteps : WooGo(w, pc) => wk'[w].pc = pc /\ wk'[w].g = wk[w].g
    BY WorkerGoes
  <2>4. ~WooGo(w, "enqueue") /\ ~WooGo(w, "clear")
    BY <1>2, <2>3 DEF WooSteps
  <2>5. ClassifyPrior(wk[w].g, wk[w].e) = "go" /\ ord.kind = "none" /\ lease' = w /\ WooGo(w, "insert")
    BY <1>2, <2>2, <2>4, ThrowLeaves DEF EvaluateMatured
  <2>6. NextGen(wk[w].g)
    BY <2>1, <2>5 DEF ClassifyPrior, NextGen
  <2> QED  BY <1>2, <2>1, <2>3, <2>5, <2>6 DEF NextGen, WooSteps
<1>3. CASE v = w /\ ~EvaluateMatured(w)
  <2>1. WooMishap(w) => wk'[w].pc = "idle"
    BY ThrowLeaves, LeavesMoves DEF WooMishap
  <2> QED  BY <1>3, <2>1, CheckoutMoves, PlacementMoves, OrderMoves, MaturityMoves, DispatchMoves DEF Moves, WooStep
<1> QED  BY <1>1, <1>2, <1>3

\* What every step of the system does to the generations, the index and the workers that hold on to it.
LEMMA LatestMoves ==
  ASSUME WooRows, GensInv, JobsInv, [WooNext]_wooVars
  PROVE  \/ LatestGen' = LatestGen
         \/ /\ LatestGen' = LatestGen + 1
            /\ \E w \in WooWorkers : InsertRecovery(w) /\ NextGen(wk[w].g) /\ wk[w].pc = "insert"
<1>1. CASE RecQuiet
  BY <1>1, QuietLatest
<1>2. ASSUME NEW w \in WooWorkers, InsertRecovery(w) PROVE RecQuiet \/ (LatestGen' = LatestGen + 1 /\ NextGen(wk[w].g) /\ wk[w].pc = "insert")
  <2>1. CASE rec' = rec
    BY <2>1 DEF RecQuiet
  <2>2. CASE rec' # rec
    <3>1. PICK g \in Gens : g = wk[w].g
      BY <1>2, InsertIs
    <3>2. /\ NextGen(g) /\ rec[g].st = "none" /\ wk[w].pc = "insert"
          /\ rec' = [rec EXCEPT ![g] = [NoRec EXCEPT !.st = "DETECTED", !.at = evt[wk[w].e].at, !.origin = wk[w].e]]
      BY <1>2, <2>2, <3>1, InsertIs
    <3>3. rec'[g].st = "DETECTED" /\ \A h \in Gens : h # g => rec'[h] = rec[h]
      BY <3>2 DEF WooRows, NoRec
    <3> QED  BY <3>1, <3>2, <3>3, LatestGrows
  <2> QED  BY <2>1, <2>2
<1> QED  BY <1>1, <1>2, QuietStep

\* The steps outside the sections.
Aside ==
    \/ \E kind \in {"full", "empty", "placed", "paid"}, at \in Seconds : CaptureEvent(kind, at)
    \/ \E w \in WooWorkers, e \in Events : TakeEvent(w, e)
    \/ \E w \in WooWorkers, g \in Gens : TakeCandidate(w, g) \/ TakeInitial(w, g)
    \/ CustomerStops \/ (\E g \in Gens : ExpireRecovery(g)) \/ UNCHANGED wooVars

LEMMA AsideKeeps ==
  ASSUME WooRows, GensInv, JobsInv, Aside
  PROVE  /\ UNCHANGED <<idx, ord, lease, lapses>> /\ CandsKept /\ LatestGen' = LatestGen /\ RecQuiet
         /\ \A w \in WooWorkers : \/ wk'[w] = wk[w]
                                  \/ wk[w].pc = "idle" /\ wk'[w].pc \in {"checkout", "order", "mature", "first"}
<1>1. [WooNext]_wooVars /\ UNCHANGED <<idx, ord, lease, lapses>>
  BY DEF Aside, WooNext, CaptureEvent, TakeEvent, TakeCandidate, TakeInitial, CustomerStops, ExpireRecovery, wooVars, redisVars
<1>2. \A h \in Gens : cand'[h].st # "none" => cand[h].st # "none"
  <2>1. ASSUME NEW w \in WooWorkers, NEW g \in Gens, TakeCandidate(w, g) PROVE \A h \in Gens : cand'[h].st # "none" => cand[h].st # "none"
    BY <2>1 DEF TakeCandidate, WooRows
  <2>2. cand' = cand \/ \E w \in WooWorkers, g \in Gens : TakeCandidate(w, g)
    BY DEF Aside, CaptureEvent, TakeEvent, TakeInitial, CustomerStops, ExpireRecovery, wooVars, redisVars
  <2> QED  BY <2>1, <2>2
<1>3. CASE \E g \in Gens : ExpireRecovery(g)
  <2>1. PICK g \in Gens : ExpireRecovery(g)
    BY <1>3
  <2>2. rec[g].st \in Live /\ rec' = [rec EXCEPT ![g].st = "EXPIRED"] /\ wk' = wk
    BY <2>1 DEF ExpireRecovery
  <2>3. RecQuiet
    BY <2>2 DEF RecQuiet, WooRows, RecRow, Live
  <2> QED  BY <1>1, <1>2, <2>2, <2>3, QuietLatest DEF CandsKept
<1>4. CASE ~\E g \in Gens : ExpireRecovery(g)
  <2>1. rec' = rec
    BY <1>4 DEF Aside, CaptureEvent, TakeEvent, TakeCandidate, TakeInitial, CustomerStops, wooVars
  <2>2. RecQuiet
    BY <2>1 DEF RecQuiet
  <2>3. ASSUME NEW w \in WooWorkers,
               (\E e \in Events : TakeEvent(w, e)) \/ (\E g \in Gens : TakeCandidate(w, g) \/ TakeInitial(w, g))
        PROVE  \A v \in WooWorkers : wk'[v] = wk[v] \/ (wk[v].pc = "idle" /\ wk'[v].pc \in {"checkout", "order", "mature", "first"})
    BY <2>3, TakesMove DEF OthersKept
  <2>4. wk' = wk \/ \E w \in WooWorkers : \/ \E e \in Events : TakeEvent(w, e)
                                          \/ \E g \in Gens : TakeCandidate(w, g) \/ TakeInitial(w, g)
    BY <1>4 DEF Aside, CaptureEvent, CustomerStops, wooVars
  <2> QED  BY <1>1, <1>2, <2>2, <2>3, <2>4, QuietLatest DEF CandsKept
<1> QED  BY <1>3, <1>4

LEMMA NextIs ==
  ASSUME [WooNext]_wooVars
  PROVE  Aside \/ LeaseLost \/ \E w \in WooWorkers : WooStep(w) \/ WooMishap(w)
BY DEF WooNext, Aside

LEMMA LapsesCount ==
  ASSUME WooRows, [WooNext]_wooVars
  PROVE  lapses \in Nat /\ (lapses' = lapses \/ (LeaseLost /\ lapses' = lapses + 1))
<1>1. lapses \in Nat
  BY WooAssumption DEF WooRows, WooFaultNumbers
<1>2. Aside => lapses' = lapses
  BY DEF Aside, CaptureEvent, TakeEvent, TakeCandidate, TakeInitial, CustomerStops, ExpireRecovery, wooVars
<1> QED  BY <1>1, <1>2, NextIs, LapsesKept DEF LeaseLost

LEMMA InsertStep ==
  ASSUME WooRows, GensInv, JobsInv, InsertInv, [WooNext]_wooVars
  PROVE  InsertInv'
<1>1. LatestGen \in Nat /\ LatestGen' >= LatestGen /\ LatestGen' \in Nat
  BY LatestMoves, LatestIsNumber, WooBounds
<1>2. \A w \in WooWorkers : wk[w].pc = "insert" => wk[w].g \in Nat
  BY WooBounds DEF JobsInv, JobOf, MaturitySteps
<1>3. ASSUME NEW w \in WooWorkers, WooStep(w) \/ WooMishap(w) PROVE InsertInv'
  <2>1. ASSUME NEW v \in WooWorkers, wk'[v].pc = "insert" PROVE wk'[v].g <= LatestGen' + 1
    <3>1. CASE v # w /\ wk'[v] = wk[v]
      BY <1>1, <1>2, <2>1, <3>1 DEF InsertInv
    <3>2. CASE NextGen(wk'[v].g)
      BY <1>1, <3>2 DEF NextGen
    <3> QED  BY <1>3, <2>1, <3>1, <3>2, InsertersMove
  <2> QED  BY <2>1 DEF InsertInv
<1>4. CASE Aside
  <2>1. \A v \in WooWorkers : wk'[v].pc = "insert" => wk'[v] = wk[v]
    BY <1>4, AsideKeeps
  <2> QED  BY <1>1, <1>2, <2>1 DEF InsertInv
<1>5. CASE LeaseLost
  BY <1>1, <1>2, <1>5 DEF LeaseLost, InsertInv
<1> QED  BY <1>3, <1>4, <1>5, NextIs

LEMMA QueueStep ==
  ASSUME WooRows, GensInv, JobsInv, LeaseInv, QueueInv, [WooNext]_wooVars
  PROVE  QueueInv'
<1> SUFFICES ASSUME lapses' = 0 PROVE /\ \A g \in Gens : cand'[g].st # "none" => g <= LatestGen' + 1 /\ (g = LatestGen' + 1 => idx' = g)
                                      /\ \A w \in WooWorkers : wk'[w].pc \in {"close", "place"} => wk'[w].g = LatestGen' + 1
  BY DEF QueueInv, NextGen
<1>0. /\ lapses = 0 /\ ~LeaseLost /\ LatestGen \in Nat /\ \A g \in Gens : g \in Nat
      /\ \A w \in WooWorkers : ~Stray(w)
      /\ \A g \in Gens : cand[g].st # "none" => g <= LatestGen + 1 /\ (g = LatestGen + 1 => idx = g)
      /\ \A w \in WooWorkers : wk[w].pc \in {"close", "place"} => wk[w].g = LatestGen + 1
  <2>1. lapses = 0 /\ ~LeaseLost
    BY LapsesCount DEF LeaseLost
  <2> QED  BY <2>1, LatestIsNumber, WooBounds DEF QueueInv, NextGen, LeaseInv
<1>1. CASE Aside
  BY <1>0, <1>1, AsideKeeps DEF CandsKept
<1>2. ASSUME NEW w \in WooWorkers, WooStep(w) \/ WooMishap(w), LatestGen' = LatestGen
      PROVE  /\ \A g \in Gens : cand'[g].st # "none" => g <= LatestGen' + 1 /\ (g = LatestGen' + 1 => idx' = g)
             /\ \A p \in WooWorkers : wk'[p].pc \in {"close", "place"} => wk'[p].g = LatestGen' + 1
  <2>1. \A p \in WooWorkers : wk'[p].pc \in {"close", "place"} => wk'[p].g = LatestGen + 1
    BY <1>0, <1>2, PlacersMove DEF NextGen
  <2>2. CASE CandsKept
    BY <1>0, <1>2, <2>1, <2>2 DEF CandsKept
  <2>3. CASE PlaceCandidate(w) /\ ~CandsKept
    <3>1. PICK g \in Gens : g = wk[w].g /\ wk[w].pc = "place" /\ idx' = g /\ \A h \in Gens : h # g => cand'[h] = cand[h]
      BY <2>3, PlacementKeeps
    <3>2. g = LatestGen + 1
      BY <1>0, <3>1
    <3> QED  BY <1>0, <1>2, <2>1, <3>1, <3>2
  <2> QED  BY <1>2, <2>2, <2>3, StepKeepsCands
<1>3. ASSUME NEW w \in WooWorkers, WooStep(w) \/ WooMishap(w), LatestGen' # LatestGen
      PROVE  /\ \A g \in Gens : cand'[g].st # "none" => g <= LatestGen' + 1 /\ (g = LatestGen' + 1 => idx' = g)
             /\ \A p \in WooWorkers : wk'[p].pc \in {"close", "place"} => wk'[p].g = LatestGen' + 1
  <2>1. PICK i \in WooWorkers : LatestGen' = LatestGen + 1 /\ InsertRecovery(i) /\ wk[i].pc = "insert"
    BY <1>3, LatestMoves
  <2>2. lease = i
    BY <1>0, <2>1 DEF Stray, HeldSteps
  <2>3. \A p \in WooWorkers : wk[p].pc \notin {"close", "place"}
    BY <1>0, <2>1, <2>2 DEF Stray, HeldSteps
  <2>4. rec' # rec
    BY <1>3, LatestKept
  <2>5. ASSUME NEW p \in WooWorkers, wk'[p].pc \in {"close", "place"} PROVE FALSE
    BY <1>3, <2>3, <2>4, <2>5, PlacersMove
  <2>6. CandsKept
    BY <2>1, StepKeepsCands DEF WooStep, PlaceCandidate, InsertRecovery
  <2> QED  BY <1>0, <2>1, <2>5, <2>6 DEF CandsKept
<1> QED  BY <1>0, <1>1, <1>2, <1>3, NextIs

LEMMA StrayStep ==
  ASSUME WooRows, GensInv, JobsInv, LeaseInv, QueueInv, InsertInv, StrayInv, [WooNext]_wooVars
  PROVE  StrayInv'
<1> SUFFICES ASSUME lapses' <= 1, NEW v \in WooWorkers, wk'[v].pc = "insert", wk'[v].g = LatestGen' + 1, Stray(v)'
             PROVE  idx' = wk'[v].g /\ \A p \in WooWorkers : wk'[p].pc \in {"close", "place"} => wk'[p].g = LatestGen' + 1
  BY DEF StrayInv, Inserts, Held, NextGen
<1>0. LatestGen \in Nat /\ lapses \in Nat /\ lapses <= 1 /\ \A g \in Gens : g \in Nat
  BY LapsesCount, LatestIsNumber, WooBounds
<1>1. JobsInv' /\ WooRows
  BY WooJobsStep
<1>2. wk'[v].g \in Gens /\ cand'[wk'[v].g].st = "active"
  BY <1>1 DEF JobsInv, JobOf, MaturitySteps
<1>3. CASE LeaseLost
  <2>1. lapses = 0 /\ UNCHANGED <<idx, wk, rec, cand>>
    BY <1>0, <1>3 DEF LeaseLost, redisVars
  <2>2. LatestGen' = LatestGen
    BY <2>1, LatestKept
  <2> QED  BY <1>2, <2>1, <2>2 DEF QueueInv, NextGen
<1>4. ASSUME wk'[v] = wk[v], Stray(v), LatestGen' = LatestGen
      PROVE  /\ idx = wk[v].g /\ \A p \in WooWorkers : wk[p].pc \in {"close", "place"} => wk[p].g = LatestGen + 1
  BY <1>0, <1>4 DEF StrayInv, Inserts, Held, NextGen
<1>5. CASE Aside
  <2>1. wk'[v] = wk[v] /\ Stray(v) /\ LatestGen' = LatestGen /\ idx' = idx
    BY <1>5, AsideKeeps DEF Stray
  <2> QED  BY <1>4, <1>5, <2>1, AsideKeeps
<1>6. ASSUME NEW w \in WooWorkers, WooStep(w) \/ WooMishap(w)
      PROVE  idx' = wk'[v].g /\ \A p \in WooWorkers : wk'[p].pc \in {"close", "place"} => wk'[p].g = LatestGen' + 1
  <2>1. Stray(v)
    BY <1>6, StepsMove, NoNewStray
  <2>2. v # w /\ wk'[v] = wk[v]
    BY <1>6, <2>1, InsertersMove DEF Stray, HeldSteps, FirstSteps
  <2>3. LatestGen' = LatestGen
    BY <1>0, <2>2, LatestMoves DEF InsertInv
  <2>4. idx = wk[v].g /\ \A p \in WooWorkers : wk[p].pc \in {"close", "place"} => wk[p].g = LatestGen + 1
    BY <1>4, <2>1, <2>2, <2>3
  <2>5. \A p \in WooWorkers : wk'[p].pc \in {"close", "place"} => wk'[p].g = LatestGen + 1
    BY <1>6, <2>4, PlacersMove DEF NextGen
  <2>6. CASE CandsKept
    BY <1>2, <2>2, <2>3, <2>4, <2>5, <2>6 DEF CandsKept
  <2>7. CASE PlaceCandidate(w) /\ ~CandsKept
    <3>1. wk[w].pc = "place" /\ wk[w].g \in Gens /\ ~ScheduleBlocked(wk[w].g)
      BY <2>7, PlacementKeeps
    <3>2. wk[w].g = wk[v].g /\ idx = wk[w].g
      BY <2>2, <2>3, <2>4, <3>1
    <3>3. cand[wk[w].g].st = "active"
      BY <2>2, <3>2 DEF JobsInv, JobOf, MaturitySteps
    <3> QED  BY <3>1, <3>2, <3>3 DEF ScheduleBlocked, ResolveWoo
  <2> QED  BY <1>6, <2>6, <2>7, StepKeepsCands
<1> QED  BY <1>3, <1>5, <1>6, NextIs

(***************************************************************************)
(* The order.                                                              *)
(***************************************************************************)
\* An order event is acknowledged by the end of its own transition only.
LEMMA OrderIsDone ==
  ASSUME WooRows, GensInv, JobsInv, NEW w \in WooWorkers, WooStep(w) \/ WooMishap(w), NEW e \in Events,
         evt'[e].kind \in OrderKinds, evt'[e].st = "done", ~(evt[e].kind \in OrderKinds /\ evt[e].st = "done")
  PROVE  TransitionRecovery(w) /\ lease = w
<1>1. Throw(w) \/ Done(w) \/ JobEnds(w, "done") => Leaves(w)
  BY ThrowLeaves, DoneLeaves, EndLeaves
<1>2. /\ JobOf(w) /\ evt \in [Events -> EvtRow]
      /\ wk[w].job = "event" => wk[w].e \in Events /\ (evt[wk[w].e].kind \in OrderKinds => wk[w].pc \in OrderSteps)
  BY DEF JobsInv, JobOf, WooRows
<1>3. Leaves(w) => evt[e].kind \in OrderKinds /\ wk[w].job = "event" /\ e = wk[w].e /\ wk[w].pc \in OrderSteps
  BY <1>2 DEF Leaves
<1>4. evt' # evt
  OBVIOUS
<1>5. CASE RefuseCheckout(w)
  <2>1. wk[w].pc = "checkout" /\ wk[w].job = "event" /\ wk[w].e \in Events /\ evt[wk[w].e].kind \notin OrderKinds
    BY <1>2, <1>5 DEF RefuseCheckout, Begin, JobOf, CheckoutSteps, OrderSteps
  <2>2. CASE evt' = [evt EXCEPT ![wk[w].e].st = "done"]
    BY <1>2, <2>1, <2>2 DEF EvtRow
  <2>3. CASE Leaves(w)
    BY <1>3, <2>1, <2>3
  <2> QED  BY <1>1, <1>5, <2>2, <2>3 DEF RefuseCheckout
<1>6. CASE RefusePlacement(w)
  <2>1. wk[w].pc = "place" /\ wk[w].job = "event" /\ wk[w].e \in Events /\ evt[wk[w].e].kind \notin OrderKinds
    BY <1>2, <1>6 DEF RefusePlacement, JobOf, CheckoutSteps, OrderSteps
  <2>2. CASE evt' = [evt EXCEPT ![wk[w].e].st = IF lease = w THEN "refused" ELSE "queued"]
    BY <1>2, <2>1, <2>2 DEF EvtRow
  <2>3. CASE Leaves(w)
    BY <1>3, <2>1, <2>3 DEF OrderSteps
  <2> QED  BY <1>1, <1>6, <2>2, <2>3 DEF RefusePlacement
<1>7. CASE QueueInitial(w)
  <2>1. wk[w].pc = "queue"
    BY <1>7 DEF QueueInitial
  <2>2. wk[w].job = "event" => wk[w].e \in Events /\ evt[wk[w].e].kind \notin OrderKinds
    BY <1>2, <2>1 DEF OrderSteps
  <2>3. \/ evt' = evt
        \/ wk[w].job = "event" /\ \E s \in {"done", "queued"} : evt' = [evt EXCEPT ![wk[w].e].st = s]
    BY <1>7 DEF QueueInitial
  <2> QED  BY <1>2, <1>4, <2>2, <2>3 DEF EvtRow
<1>8. CASE DropCandidate(w) \/ WooMishap(w)
  <2>1. Throw(w)
    BY <1>4, <1>8 DEF DropCandidate, WooMishap
  <2>2. evt[e].st = "done" /\ evt'[e].kind = evt[e].kind
    BY <2>1, ThrowLeaves DEF Leaves
  <2> QED  BY <2>2
<1>9. CASE TransitionRecovery(w)
  <2>1. CASE lease # w
    <3>1. Throw(w)
      BY <1>9, <2>1 DEF TransitionRecovery, Done
    <3>2. evt[e].st = "done" /\ evt'[e].kind = evt[e].kind
      BY <3>1, ThrowLeaves DEF Leaves
    <3> QED  BY <3>2
  <2> QED  BY <1>9, <2>1
<1>10. CASE ~(RefuseCheckout(w) \/ RefusePlacement(w) \/ QueueInitial(w) \/ DropCandidate(w) \/ WooMishap(w) \/ TransitionRecovery(w))
  <2>1. Leaves(w)
    <3>1. CASE AcceptCheckout(w) \/ ObserveOrder(w) \/ ReserveCredit(w)
      BY <1>4, <3>1 DEF AcceptCheckout, ObserveOrder, ReserveCredit, jobVars
    <3>2. CASE CloseForResumption(w) \/ PlaceCandidate(w) \/ WriteWatermark(w) \/ SettleResumed(w) \/ ReleaseReservedCredit(w)
      BY <1>1, <1>4, <3>2 DEF CloseForResumption, PlaceCandidate, WriteWatermark, SettleResumed, ReleaseReservedCredit, jobVars
    <3>3. CASE EvaluateMatured(w) \/ InsertRecovery(w) \/ ClearMatured(w) \/ EnqueueInitial(w)
      BY <1>1, <1>4, <3>3, InsertIs DEF EvaluateMatured, ClearMatured, EnqueueInitial, AfterEnqueue, jobVars
    <3>4. CASE ProcessInitial(w) \/ GuardAgain(w) \/ PrepareInitial(w) \/ AdmitWooSend(w)
               \/ CallWooProvider(w) \/ FinalizeConfirmed(w) \/ MarkMessageSent(w) \/ CompensateProviderError(w)
      BY <1>1, <1>4, <3>4 DEF ProcessInitial, GuardAgain, PrepareInitial, AdmitWooSend, CallWooProvider,
         FinalizeConfirmed, MarkMessageSent, CompensateProviderError, Refuse, jobVars
    <3> QED  BY <1>10, <3>1, <3>2, <3>3, <3>4 DEF WooStep
  <2>2. wk[w].pc \in {"order", "drop", "transition"}
    BY <1>3, <2>1 DEF OrderSteps
  <2>3. ~ObserveOrder(w)
    BY <1>4 DEF ObserveOrder, jobVars
  <2> QED  BY <1>10, <2>2, <2>3, CheckoutMoves, PlacementMoves, OrderMoves, MaturityMoves, DispatchMoves DEF WooStep, Moves
<1> QED  BY <1>5, <1>6, <1>7, <1>8, <1>9, <1>10

\* Which steps lead to the candidate's removal and to the transition.
LEMMA OrderersMove ==
  ASSUME WooRows, GensInv, JobsInv, NEW w \in WooWorkers, WooStep(w) \/ WooMishap(w), NEW v \in WooWorkers
  PROVE  /\ wk'[v].pc = "drop" => (v # w /\ wk'[v] = wk[v]) \/ (v = w /\ ObserveOrder(w))
         /\ wk'[v].pc = "transition" => (v # w /\ wk'[v] = wk[v]) \/ (v = w /\ DropCandidate(w) /\ wk[v].pc = "drop")
<1>1. CASE v # w
  BY <1>1, StepsMove DEF OthersKept
<1>2. CASE v = w
  <2>1. WooMishap(w) => wk'[w].pc = "idle"
    BY ThrowLeaves, LeavesMoves DEF WooMishap
  <2> QED  BY <1>2, <2>1, CheckoutMoves, PlacementMoves, OrderMoves, MaturityMoves, DispatchMoves DEF Moves, WooStep
<1> QED  BY <1>1, <1>2

\* The order's evidence is never taken back.
LEMMA EvidenceStays ==
  ASSUME WooRows, GensInv, JobsInv, NEW w \in WooWorkers, WooStep(w) \/ WooMishap(w)
  PROVE  /\ ObserveOrder(w) => ord'.kind # "none"
         /\ ~ObserveOrder(w) => ord' = ord
<1>1. ASSUME ObserveOrder(w) PROVE ord'.kind # "none"
  <2>1. wk[w].pc = "order" /\ wk[w].e \in Events /\ evt[wk[w].e].kind \in OrderKinds /\ ord' = Decide(wk[w].e)
    BY <1>1 DEF ObserveOrder, Begin, JobsInv, JobOf, OrderSteps
  <2> QED  BY <2>1, DecideTyped
<1>2. ASSUME ~ObserveOrder(w) PROVE ord' = ord
  <2>1. CASE RefuseCheckout(w) \/ AcceptCheckout(w) \/ CloseForResumption(w) \/ RefusePlacement(w) \/ PlaceCandidate(w)
             \/ WriteWatermark(w) \/ SettleResumed(w) \/ ReleaseReservedCredit(w) \/ WooMishap(w)
    BY <2>1 DEF RefuseCheckout, AcceptCheckout, CloseForResumption, RefusePlacement, PlaceCandidate, WriteWatermark,
                SettleResumed, ReleaseReservedCredit, WooMishap, redisVars
  <2>2. CASE DropCandidate(w) \/ TransitionRecovery(w) \/ EvaluateMatured(w) \/ InsertRecovery(w)
             \/ ClearMatured(w) \/ EnqueueInitial(w) \/ QueueInitial(w)
    BY <2>2 DEF DropCandidate, TransitionRecovery, EvaluateMatured, InsertRecovery, ClearMatured, EnqueueInitial, QueueInitial
  <2>3. CASE ProcessInitial(w) \/ ReserveCredit(w) \/ GuardAgain(w) \/ PrepareInitial(w) \/ AdmitWooSend(w)
             \/ CallWooProvider(w) \/ FinalizeConfirmed(w) \/ MarkMessageSent(w) \/ CompensateProviderError(w)
    BY <2>3 DEF ProcessInitial, ReserveCredit, GuardAgain, PrepareInitial, AdmitWooSend, CallWooProvider, FinalizeConfirmed,
                MarkMessageSent, CompensateProviderError
  <2> QED  BY <1>2, <2>1, <2>2, <2>3 DEF WooStep
<1> QED  BY <1>1, <1>2

\* A transition that keeps its lease leaves no live recovery.
LEMMA TransitionEnds ==
  ASSUME WooRows, GensInv, NEW w \in WooWorkers, TransitionRecovery(w)
  PROVE  \A g \in Gens : rec'[g].st \notin Live
<1>1. \A g \in Gens : rec[g].st \in Live => g = LatestGen /\ g # 0
  BY WooBounds DEF GensInv
<1>2. CASE LatestGen # 0 /\ rec[LatestGen].st \in Live
  <2>1. PICK x \in Gens : x = LatestGen
    BY <1>2, LatestIsNumber, WooBounds
  <2>2. \E s \in {"COMPLETED", "CANCELLED"} : rec' = [rec EXCEPT ![x].st = s, ![x].order = TRUE]
    BY <1>2, <2>1 DEF TransitionRecovery
  <2> QED  BY <1>1, <2>1, <2>2 DEF WooRows, RecRow, Live
<1>3. CASE ~(LatestGen # 0 /\ rec[LatestGen].st \in Live)
  BY <1>1, <1>3 DEF TransitionRecovery
<1> QED  BY <1>2, <1>3

LEMMA OrderWorkerStep ==
  ASSUME WooRows, GensInv, JobsInv, LeaseInv, InsertInv, StrayInv, OrderInv, [WooNext]_wooVars,
         NEW w \in WooWorkers, WooStep(w) \/ WooMishap(w)
  PROVE  OrderInv'
<1>1. lapses' = lapses
  BY LapsesKept
<1>2. OrderDone' => OrderDone \/ (TransitionRecovery(w) /\ lease = w)
  BY OrderIsDone DEF OrderDone
<1>3. TransitionRecovery(w) => wk[w].pc = "transition"
  BY DEF TransitionRecovery
<1>4. ASSUME OrderDone' \/ \E v \in WooWorkers : wk'[v].pc \in {"drop", "transition"} PROVE ord'.kind # "none"
  <2>1. ObserveOrder(w) \/ OrderDone \/ \E v \in WooWorkers : wk[v].pc \in {"drop", "transition"}
    BY <1>2, <1>3, <1>4, OrderersMove
  <2> QED  BY <2>1, EvidenceStays DEF OrderInv
<1>5. ASSUME NEW v \in WooWorkers, NEW u \in WooWorkers, wk'[v].pc = "insert", wk'[u].pc = "drop", lease' = v PROVE FALSE
  <2>1. CASE v # w /\ wk'[v] = wk[v]
    <3>1. lease = v
      BY <1>5, <2>1, StepsMove, WooAssumption DEF LeaseMoves, Freed
    <3>2. CASE u # w /\ wk'[u] = wk[u]
      BY <1>5, <2>1, <3>1, <3>2 DEF OrderInv
    <3>3. CASE ObserveOrder(w)
      BY <3>1, <3>3, WooAssumption DEF ObserveOrder, Begin
    <3> QED  BY <1>5, <3>2, <3>3, OrderersMove
  <2>2. CASE v = w /\ ord.kind = "none" /\ wk[v].pc = "mature"
    <3>1. wk[u].pc = "drop"
      BY <1>5, <2>2, OrderersMove DEF ObserveOrder, Begin
    <3> QED  BY <2>2, <3>1 DEF OrderInv
  <2> QED  BY <1>5, <2>1, <2>2, InsertersMove
<1>6. ASSUME lapses <= 1, OrderDone' \/ \E u \in WooWorkers : wk'[u].pc = "transition",
             NEW v \in WooWorkers, wk'[v].pc = "insert", wk'[v].g = LatestGen' + 1
      PROVE  FALSE
  <2>0. LatestGen \in Nat /\ (wk[v].pc = "insert" => wk[v].g \in Gens /\ wk[v].g \in Nat)
    BY LatestIsNumber, WooBounds DEF JobsInv, JobOf, MaturitySteps
  <2>1. CASE OrderDone \/ \E u \in WooWorkers : wk[u].pc = "transition"
    <3>1. ord.kind # "none"
      BY <2>1 DEF OrderInv
    <3>2. wk'[v] = wk[v]
      BY <1>6, <3>1, InsertersMove
    <3>3. LatestGen' = LatestGen
      BY <1>6, <2>0, <3>2, LatestMoves DEF InsertInv
    <3> QED  BY <1>6, <2>1, <3>2, <3>3 DEF OrderInv, Inserts, NextGen
  <2>2. CASE DropCandidate(w) /\ wk[w].pc = "drop" /\ wk'[w].pc = "transition"
    <3>1. rec' = rec
      BY <2>2 DEF DropCandidate
    <3>2. wk'[v] = wk[v] /\ LatestGen' = LatestGen
      BY <1>6, <2>2, <3>1, InsertersMove, LatestKept
    <3>3. wk[v].pc = "insert" /\ NextGen(wk[v].g)
      BY <1>6, <3>2 DEF NextGen
    <3>4. Stray(v)
      BY <2>2, <3>3 DEF OrderInv, Stray, HeldSteps
    <3>5. idx = wk[v].g
      BY <1>6, <3>3, <3>4 DEF StrayInv, Inserts, Held
    <3>6. idx # 0 /\ cand[idx].st = "active"
      BY <2>0, <3>3, <3>5, WooBounds DEF JobsInv, JobOf, MaturitySteps
    <3>7. CancelBlocked(idx)
      BY <3>6 DEF CancelBlocked, ResolveWoo
    <3>8. Throw(w)
      BY <2>2, <3>6, <3>7 DEF DropCandidate
    <3> QED  BY <2>2, <3>8, ThrowLeaves, LeavesMoves
  <2> QED  BY <1>2, <1>3, <1>6, <2>1, <2>2, OrderersMove
<1>7. ASSUME lapses <= 1, OrderDone', NEW g \in Gens, rec'[g].st \in Live PROVE FALSE
  <2>1. CASE OrderDone
    <3>1. rec[g].st \notin Live /\ \A v \in WooWorkers : ~Inserts(v)
      BY <1>7, <2>1 DEF OrderInv
    <3>2. ASSUME NEW i \in WooWorkers, InsertRecovery(i) PROVE rec' = rec
      BY <3>1, <3>2, InsertIs DEF Inserts
    <3>3. rec' = rec \/ RecQuiet
      BY <3>2, QuietStep
    <3> QED  BY <1>7, <3>1, <3>3 DEF RecQuiet
  <2>2. CASE TransitionRecovery(w)
    BY <1>7, <2>2, TransitionEnds
  <2> QED  BY <1>2, <1>7, <2>1, <2>2
<1> QED  BY <1>1, <1>4, <1>5, <1>6, <1>7 DEF OrderInv, Inserts, NextGen

LEMMA AsideDone ==
  ASSUME WooRows, GensInv, JobsInv, Aside \/ LeaseLost
  PROVE  OrderDone' => OrderDone
<1>1. CASE evt' = evt
  BY <1>1 DEF OrderDone
<1>2. ASSUME NEW w \in WooWorkers, NEW e \in Events, TakeEvent(w, e) PROVE OrderDone' => OrderDone
  BY <1>2 DEF TakeEvent, OrderDone, WooRows, EvtRow
<1>3. ASSUME NEW kind \in {"full", "empty", "placed", "paid"}, NEW at \in Seconds, CaptureEvent(kind, at) PROVE OrderDone' => OrderDone
  <2>1. PICK e \in Events : evt' = [evt EXCEPT ![e] = [kind |-> kind, at |-> at, st |-> "queued"]]
    BY <1>3 DEF CaptureEvent
  <2> QED  BY <2>1 DEF OrderDone, WooRows
<1>4. CASE LeaseLost \/ CustomerStops \/ (\E g \in Gens : ExpireRecovery(g)) \/ UNCHANGED wooVars
           \/ \E w \in WooWorkers, g \in Gens : TakeCandidate(w, g) \/ TakeInitial(w, g)
  BY <1>1, <1>4 DEF LeaseLost, CustomerStops, ExpireRecovery, wooVars, TakeCandidate, TakeInitial
<1> QED  BY <1>2, <1>3, <1>4 DEF Aside

LEMMA OrderStep ==
  ASSUME WooRows, GensInv, JobsInv, LeaseInv, InsertInv, StrayInv, OrderInv, [WooNext]_wooVars
  PROVE  OrderInv'
<1>1. ASSUME NEW w \in WooWorkers, WooStep(w) \/ WooMishap(w) PROVE OrderInv'
  BY <1>1, OrderWorkerStep
<1>2. CASE Aside \/ LeaseLost
  <2>1. /\ ord' = ord /\ RecQuiet /\ LatestGen' = LatestGen
        /\ \A v \in WooWorkers : wk'[v].pc \in {"insert", "drop", "transition"} => wk'[v] = wk[v]
        /\ \A v \in WooWorkers : lease' = v => lease = v
    <3>1. LeaseLost => ord' = ord /\ RecQuiet /\ wk' = wk /\ lease' = NoLease
      BY DEF LeaseLost, redisVars, RecQuiet
    <3>2. LeaseLost => LatestGen' = LatestGen
      BY <3>1, QuietLatest
    <3> QED  BY <1>2, <3>1, <3>2, AsideKeeps, WooAssumption
  <2>2. (OrderDone' => OrderDone) /\ lapses \in Nat /\ lapses <= lapses' /\ lapses' \in Nat
    BY <1>2, AsideDone, LapsesCount
  <2> QED  BY <2>1, <2>2 DEF OrderInv, Inserts, NextGen, RecQuiet
<1> QED  BY <1>1, <1>2, NextIs

(***************************************************************************)
(* The invariant of a recovery.                                            *)
(***************************************************************************)
LEMMA WooInitInv == ASSUME WooInit PROVE WooInv
<1>1. /\ \A g \in Gens : rec[g] = NoRec /\ cand[g] = NoCand /\ wooMsg[g] = [st |-> "none", wire |-> FALSE] /\ res[g] = "none"
      /\ \A e \in Events : evt[e] = [kind |-> "none", at |-> 0, st |-> "none"]
      /\ \A w \in WooWorkers : wk[w] = IdleWorker
      /\ idx = 0 /\ mark = NoMark /\ ord = [kind |-> "none", at |-> 0, ambiguous |-> FALSE]
      /\ lease = NoLease /\ agreed = TRUE /\ wooFaults = 0 /\ lapses = 0
  BY DEF WooInit
<1>2. LatestGen = 0
  <2>1. {g \in Gens : rec[g].st # "none"} = {}
    BY <1>1, WooBlanks
  <2> QED  BY <2>1, FS_EmptySet DEF LatestGen
<1>3. WooRows
  BY WooBounds, WooBlanks, WooAssumption DEF WooInit, WooRows, EvtRow, OrdRow, AttStates, WooMsgRow, ResStates, InitStates, WooFaultNumbers
<1>4. \A w \in WooWorkers : wk[w].pc = "idle" /\ wk[w].job = "none" /\ lease # w
  BY <1>1, WooBlanks, WooAssumption
<1>5. GensInv
  BY <1>1, <1>2, WooBlanks, WooBounds DEF GensInv, Live
<1>6. JobsInv
  BY <1>1, <1>4, WooBlanks DEF JobsInv, JobOf, CheckoutSteps, OrderSteps, MaturitySteps, FirstSteps
<1>7. MsgInv
  BY <1>1, <1>4 DEF MsgInv, MsgOf
<1>8. LeaseInv
  BY <1>4 DEF LeaseInv, Stray, HeldSteps, FirstSteps
<1>9. QueueInv /\ InsertInv /\ StrayInv
  BY <1>1, <1>4, WooBlanks DEF QueueInv, InsertInv, StrayInv, Inserts
<1>10. OrderInv
  BY <1>1, <1>4, WooBlanks DEF OrderInv, OrderDone, OrderKinds, Inserts
<1> QED  BY <1>3, <1>5, <1>6, <1>7, <1>8, <1>9, <1>10 DEF WooInv

LEMMA WooInvStep == ASSUME WooInv, [WooNext]_wooVars PROVE WooInv'
<1>1. /\ WooRows /\ GensInv /\ JobsInv /\ MsgInv /\ LeaseInv /\ QueueInv /\ InsertInv /\ StrayInv /\ OrderInv
  BY DEF WooInv
<1>2. WooRows' /\ GensInv' /\ JobsInv'
  BY <1>1, WooRowsStep, GensStep, WooJobsStep
<1>3. MsgInv' /\ LeaseInv' /\ QueueInv'
  BY <1>1, WooMsgStep, LeaseStep, QueueStep
<1>4. InsertInv' /\ StrayInv' /\ OrderInv'
  BY <1>1, InsertStep, StrayStep, OrderStep
<1> QED  BY <1>2, <1>3, <1>4 DEF WooInv

LEMMA WooInvShows == ASSUME WooInv PROVE WooTypeOK /\ DeliveredIsNotReturned /\ OrderEndsWooRecovery
<1>1. WooRows /\ MsgInv /\ OrderInv
  BY DEF WooInv
<1>2. WooTypeOK
  BY <1>1, WooRowsTyped
<1>3. DeliveredIsNotReturned
  BY <1>1 DEF MsgInv, DeliveredIsNotReturned
<1>4. OrderEndsWooRecovery
  BY <1>1 DEF OrderInv, OrderDone, OrderKinds, OrderEndsWooRecovery
<1> QED  BY <1>2, <1>3, <1>4

\* The fence, under the recovery's own lock, is the one way to a permit.
LEMMA PermitIsFenced ==
  ASSUME WooInv, [WooNext]_wooVars, NEW g \in Gens, rec[g].st # "DETECTED", wooMsg[g].st # "PERMITTED"
  PROVE  wooMsg'[g].st # "PERMITTED"
<1>0. wooMsg \in [Gens -> WooMsgRow] /\ JobsInv
  BY DEF WooInv, WooRows
<1>1. CASE wooMsg' = wooMsg
  BY <1>1
<1>2. ASSUME NEW w \in WooWorkers, AdmitWooSend(w) PROVE wooMsg'[g].st # "PERMITTED"
  <2>1. PICK h \in Gens : h = wk[w].g
    BY <1>0, <1>2 DEF AdmitWooSend, JobsInv, JobOf, FirstSteps
  <2>2. \/ rec[h].st = "DETECTED" /\ wooMsg' = [wooMsg EXCEPT ![h].st = "PERMITTED"]
        \/ wooMsg' = [wooMsg EXCEPT ![h].st = IF @ = "PREPARED" THEN "none" ELSE @]
    BY <1>2, <2>1 DEF AdmitWooSend, Fence
  <2> QED  BY <1>0, <2>1, <2>2 DEF WooMsgRow
<1>3. ASSUME NEW w \in WooWorkers, CallWooProvider(w) PROVE wooMsg'[g].st # "PERMITTED"
  <2>1. PICK h \in Gens : h = wk[w].g
    BY <1>0, <1>3 DEF CallWooProvider, JobsInv, JobOf, FirstSteps
  <2>2. \/ wooMsg' = [wooMsg EXCEPT ![h] = [st |-> "SENT", wire |-> TRUE]]
        \/ wooMsg' = [wooMsg EXCEPT ![h].st = "FAILED"]
        \/ \E sent \in BOOLEAN : wooMsg' = [wooMsg EXCEPT ![h].wire = sent]
    BY <1>3, <2>1 DEF CallWooProvider
  <2>3. ASSUME NEW sent \in BOOLEAN, wooMsg' = [wooMsg EXCEPT ![h].wire = sent] PROVE wooMsg'[g].st = wooMsg[g].st
    BY <1>0, <2>1, <2>3 DEF WooMsgRow
  <2>4. CASE wooMsg' = [wooMsg EXCEPT ![h] = [st |-> "SENT", wire |-> TRUE]] \/ wooMsg' = [wooMsg EXCEPT ![h].st = "FAILED"]
    BY <1>0, <2>1, <2>4 DEF WooMsgRow
  <2> QED  BY <2>2, <2>3, <2>4
<1>4. ASSUME NEW w \in WooWorkers, PrepareInitial(w) PROVE wooMsg'[g].st # "PERMITTED"
  <2>1. wooMsg' = wooMsg \/ wooMsg' = [wooMsg EXCEPT ![wk[w].g].st = "PREPARED"]
    BY <1>4 DEF PrepareInitial
  <2> QED  BY <1>0, <2>1 DEF WooMsgRow
<1>5. ASSUME NEW w \in WooWorkers, WooStep(w) \/ WooMishap(w), ~(AdmitWooSend(w) \/ CallWooProvider(w) \/ PrepareInitial(w))
      PROVE  wooMsg' = wooMsg
  <2>1. CASE RefuseCheckout(w) \/ AcceptCheckout(w) \/ CloseForResumption(w) \/ RefusePlacement(w) \/ PlaceCandidate(w)
             \/ WriteWatermark(w) \/ SettleResumed(w) \/ ReleaseReservedCredit(w) \/ WooMishap(w)
    BY <2>1 DEF RefuseCheckout, AcceptCheckout, CloseForResumption, RefusePlacement, PlaceCandidate, WriteWatermark,
                SettleResumed, ReleaseReservedCredit, WooMishap, outreachVars
  <2>2. CASE ObserveOrder(w) \/ DropCandidate(w) \/ TransitionRecovery(w) \/ EvaluateMatured(w) \/ InsertRecovery(w)
             \/ ClearMatured(w) \/ EnqueueInitial(w) \/ QueueInitial(w)
    BY <2>2 DEF ObserveOrder, DropCandidate, TransitionRecovery, EvaluateMatured, InsertRecovery, ClearMatured, EnqueueInitial,
                QueueInitial, outreachVars
  <2>3. CASE ProcessInitial(w) \/ ReserveCredit(w) \/ GuardAgain(w) \/ FinalizeConfirmed(w) \/ MarkMessageSent(w)
             \/ CompensateProviderError(w)
    BY <2>3 DEF ProcessInitial, ReserveCredit, GuardAgain, FinalizeConfirmed, MarkMessageSent, CompensateProviderError, outreachVars
  <2> QED  BY <1>5, <2>1, <2>2, <2>3 DEF WooStep
<1>6. Aside \/ LeaseLost => wooMsg' = wooMsg
  BY DEF Aside, LeaseLost, CaptureEvent, TakeEvent, TakeCandidate, TakeInitial, CustomerStops, ExpireRecovery, wooVars, outreachVars
<1> QED  BY <1>1, <1>2, <1>3, <1>4, <1>5, <1>6, NextIs

(* In every reachable state the rows, the jobs, the lease and the workers  *)
(* have the values the code can give them.                                 *)
THEOREM WooTyped == WooSpec => []WooTypeOK
<1>1. WooInit => WooInv
  BY WooInitInv
<1>2. WooInv /\ [WooNext]_wooVars => WooInv'
  BY WooInvStep
<1>3. WooInv => WooTypeOK
  BY WooInvShows
<1> QED  BY <1>1, <1>2, <1>3, PTL DEF WooSpec

(* The credit of a message that reached the customer is never given back:  *)
(* releases happen only for a message that was not permitted, or whose     *)
(* rejection is recorded, whoever lost the lease meanwhile.                *)
THEOREM DeliveredNotReturned == WooSpec => []DeliveredIsNotReturned
<1>1. WooInit => WooInv
  BY WooInitInv
<1>2. WooInv /\ [WooNext]_wooVars => WooInv'
  BY WooInvStep
<1>3. WooInv => DeliveredIsNotReturned
  BY WooInvShows
<1> QED  BY <1>1, <1>2, <1>3, PTL DEF WooSpec

(* With at most one lost lease, an acknowledged order leaves no live       *)
(* recovery behind (ObserveOrder, DropCandidate and TransitionRecovery     *)
(* against the maturing candidate).                                        *)
THEOREM OrderEnds == WooSpec => []OrderEndsWooRecovery
<1>1. WooInit => WooInv
  BY WooInitInv
<1>2. WooInv /\ [WooNext]_wooVars => WooInv'
  BY WooInvStep
<1>3. WooInv => OrderEndsWooRecovery
  BY WooInvShows
<1> QED  BY <1>1, <1>2, <1>3, PTL DEF WooSpec

(* A recovery that an order, a resumption or the expiry has closed is not  *)
(* permitted any more, whatever leases were lost: the fence reads it under *)
(* the row's own lock.                                                     *)
THEOREM ClosedNotPermitted == WooSpec => ClosedIsNotPermitted
<1>1. WooInit => WooInv
  BY WooInitInv
<1>2. WooInv /\ [WooNext]_wooVars => WooInv'
  BY WooInvStep
<1>3. WooInv /\ [WooNext]_wooVars => [\A g \in Gens : rec[g].st # "DETECTED" /\ wooMsg[g].st # "PERMITTED" => wooMsg'[g].st # "PERMITTED"]_wooVars
  BY PermitIsFenced
<1> QED  BY <1>1, <1>2, <1>3, PTL DEF WooSpec, ClosedIsNotPermitted

(***************************************************************************)
(* The turns and the recoveries together.                                  *)
(***************************************************************************)
LEMMA LeasedIsTheirs ==
  [LeasedNext]_leasedVars => [TurnNext]_turnVars /\ [WooNext]_wooVars
BY DEF LeasedNext, leasedVars, Turns, Woo

(* Whichever component moves, the rows are well formed, the pending turn   *)
(* is the unprocessed rest of the versions, the versions keep the order of *)
(* the messages, and an order leaves no live recovery (the lease-serialised*)
(* turns and WooCommerce recoveries).                                      *)
THEOREM LeasedAlwaysConsistent == LeasedSpec => []LeasedConsistent
<1> DEFINE LeasedInv == TurnInv /\ WooInv
<1>1. LeasedInit => LeasedInv
  BY TurnInvInit, WooInitInv DEF LeasedInit
<1>2. LeasedInv /\ [LeasedNext]_leasedVars => LeasedInv'
  BY LeasedIsTheirs, TurnInvStep, WooInvStep
<1>3. LeasedInv => LeasedConsistent
  BY WooInvShows DEF TurnInv, ConvoInv, PendingFine, VersionsFine, LeasedConsistent
<1> QED  BY <1>1, <1>2, <1>3, PTL DEF LeasedSpec
=============================================================================
