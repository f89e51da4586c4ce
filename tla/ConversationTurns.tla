-------------------------- MODULE ConversationTurns --------------------------
(***************************************************************************)
(* The customer's messages in a recovery conversation and the turns that   *)
(* answer them.  A stored message advances inboundVersion and opens the    *)
(* pending turn, or joins it; a queue job per version claims the turn once *)
(* the customer is quiet, moderates, loads, reserves a reply, runs the     *)
(* agent, and sends under a final permit.  The merchant takes the          *)
(* conversation over and hands it back meanwhile (controlRevision), more   *)
(* messages arrive, leases lapse, jobs stall, fail and are repaired.       *)
(***************************************************************************)
EXTENDS Naturals, FiniteSets

CONSTANTS
    MaxMessages,        \* bound on the customer's messages
    MaxControl,         \* bound on takeovers and hand-backs
    ModerationTries,    \* BACKOFF_MS.length
    Turners,            \* workers of the whatsapp-events queue
    MaxMishaps          \* bound: takeovers, STOPs, stalled jobs, errors, redeliveries, leases that
                        \* lapse under a slow worker, the end of the recovery

ASSUME TurnAssumption ==
    /\ MaxMessages \in Nat \ {0} /\ MaxControl \in Nat /\ MaxMishaps \in Nat
    /\ ModerationTries \in Nat \ {0}

VARIABLES
    convo,      \* the Conversation row
    msg,        \* the customer's messages, in the order of their events
    inbox,      \* the message-received jobs
    turnJob,    \* version -> the process-conversation-turn job
    turn,       \* Turners -> the turn being processed
    reply,      \* version -> the message and usage under key agent:conversation:version
    stopped,    \* the customer sent STOP
    open,       \* the recovery takes part in the conversation
    mishaps

turnVars == <<convo, msg, inbox, turnJob, turn, reply, stopped, open, mishaps>>

Messages == 1 .. MaxMessages
TurnSteps == {"idle", "claim", "gate", "load", "admit", "agent", "compose", "send", "provider", "complete",
              "suppress", "suppressAny", "failed"}
\* A moderation assessment: its decision, or how often the provider failed.
Verdicts == [decision : {"open", "allow", "review"}, tries : 0 .. ModerationTries]
Unassessed == [decision |-> "open", tries |-> 0]
IdleTurn == [pc |-> "idle", v |-> 0, rev |-> 0]

TurnTypeOK ==
    /\ convo \in [inV : 0 .. MaxMessages, done : 0 .. MaxMessages, pend : BOOLEAN, from : 0 .. MaxMessages,
                  rev : 0 .. MaxControl, mode : {"AI", "HUMAN"}, cr : 0 .. MaxControl,
                  proc : 0 .. MaxMessages, stale : BOOLEAN,
                  ripe : 0 .. 2]   \* 1: the customer is quiet; 2: the merchant's delay has passed too
    /\ msg \in [Messages -> [kind : {"none", "text", "audio", "unsupported", "stop"},
                             st : {"none", "pending", "stored", "stale", "failed", "history", "guided"},
                             ver : 0 .. MaxMessages, rev : 0 .. MaxControl,
                             verdict : Verdicts]]
    /\ inbox \in [Messages -> {"new", "again", "transcribe", "enqueue", "repair", "done"}]
    /\ turnJob \in [Messages -> {"none", "waiting", "failed"} \cup Turners]
    /\ turn \in [Turners -> [pc : TurnSteps, v : 0 .. MaxMessages, rev : 0 .. MaxControl]]
    /\ reply \in [Messages -> [st : {"none", "PENDING", "FAILED", "PERMITTED", "SENT"}, usage : BOOLEAN,
                               rev : 0 .. MaxControl, from : 0 .. MaxMessages, wire : 0 .. 2]]
    /\ stopped \in BOOLEAN /\ open \in BOOLEAN /\ mishaps \in 0 .. MaxMishaps

TurnInit ==
    /\ convo = [inV |-> 0, done |-> 0, pend |-> FALSE, from |-> 0, rev |-> 0, mode |-> "AI", cr |-> 0,
                proc |-> 0, stale |-> FALSE, ripe |-> 0]
    /\ msg = [m \in Messages |-> [kind |-> "none", st |-> "none", ver |-> 0, rev |-> 0, verdict |-> Unassessed]]
    /\ inbox = [m \in Messages |-> "new"] /\ turnJob = [v \in Messages |-> "none"]
    /\ turn = [w \in Turners |-> IdleTurn]
    /\ reply = [v \in Messages |-> [st |-> "none", usage |-> FALSE, rev |-> 0, from |-> 0, wire |-> 0]]
    /\ stopped = FALSE /\ open = TRUE /\ mishaps = 0

Mishap == mishaps < MaxMishaps /\ mishaps' = mishaps + 1

-----------------------------------------------------------------------------
(* The conversation row.                                                   *)

Closed(c) == [c EXCEPT !.done = c.inV, !.pend = FALSE, !.from = 0, !.rev = 0, !.proc = 0, !.stale = FALSE,
                       !.ripe = 0]
\* Mutant: a turn opens under the revision that a takeover would start.
MutOpened(c) == [c EXCEPT !.pend = TRUE, !.from = c.inV, !.rev = c.cr + 1]
Opened(c) == [c EXCEPT !.pend = TRUE, !.from = c.inV, !.rev = c.cr]

\* Mutant: a message that joins the pending turn captures the revision again.
MutJoined(c) == {[c EXCEPT !.rev = c.cr, !.ripe = 0]}
\* A message that joins the turn starts the quiet window again, unless its
\* maximum has passed.
Joined(c) == {[c EXCEPT !.ripe = r] : r \in {0, c.ripe}}

\* recordProcessableInbound: under HUMAN control a message is done at once;
\* under AI it opens the pending turn at the current revision, or joins it.
Recorded ==
    LET c == [convo EXCEPT !.inV = @ + 1]
    IN  IF c.mode = "HUMAN" THEN {Closed(c)} ELSE IF c.pend THEN Joined(c) ELSE {Opened(c)}

OwnedBy(rev) == convo.mode = "AI" /\ convo.cr = rev
Original(rev) == OwnedBy(rev) /\ convo.rev = rev

ClaimTurn(v, rev) ==
    /\ convo.inV = v /\ convo.done < v /\ convo.pend /\ Original(rev)
    /\ convo.proc = 0 \/ convo.stale

\* Mutant: completion looks only at the lease, not at the newest version.
MutMayComplete(v, rev, checked) == convo.proc = v /\ (checked => Original(rev))
MayComplete(v, rev, checked) == convo.inV = v /\ convo.proc = v /\ (checked => Original(rev))

MaySuppress(v, rev) == convo.inV = v /\ convo.done < v /\ convo.pend /\ ~Original(rev)

TurnReleased(v) == IF convo.proc = v THEN [convo EXCEPT !.proc = 0, !.stale = FALSE] ELSE convo

\* hasChanged: a newer message, or a lease this turn no longer holds.
HasChanged(v) == convo.inV # v \/ convo.proc # v \/ convo.stale

\* checkAutomatedTurn: always against the original revision.
CheckControl(w) == OwnedBy(turn[w].rev)

-----------------------------------------------------------------------------
(* The queue: one job per version; a job id that exists is not added again. *)

Added(jobs, v) == IF v \in Messages /\ jobs[v] = "none" THEN [jobs EXCEPT ![v] = "waiting"] ELSE jobs
Enqueued(jobs, v, c) == IF c.pend THEN Added(jobs, v) ELSE jobs
NewerPending(c, v) == c.inV > v /\ c.done < c.inV /\ c.pend

\* The worker is done with its job (removeOnComplete), moves it back to the
\* delayed set, or lets it fail; nothing happens to a job it no longer holds.
Settled(w, to) == IF turnJob[turn[w].v] = w THEN [turnJob EXCEPT ![turn[w].v] = to] ELSE turnJob
LeaveTurn(w) == turn' = [turn EXCEPT ![w] = IdleTurn]
GoTo(w, pc) == turn' = [turn EXCEPT ![w].pc = pc]

-----------------------------------------------------------------------------
(* Inbound messages (the message-received jobs).                           *)

\* A redelivered job handles the same message again.
Incoming(m, kind) ==
    /\ inbox[m] \in {"new", "again"} /\ (m > 1 => inbox[m - 1] # "new")
    /\ msg[m].kind \in {"none", kind}
To(m, step) == inbox' = [inbox EXCEPT ![m] = step]

\* receiveMessage / complete: the version and the message in one transaction.
Store(m, kind) ==
    /\ convo' \in Recorded
    /\ msg' = [msg EXCEPT ![m] = [kind |-> kind, st |-> "stored", ver |-> convo.inV + 1, rev |-> convo.cr,
                                  verdict |-> Unassessed]]

\* STOP comes before admission and routing.
WriteLocalStop(m) ==
    /\ Incoming(m, "stop") /\ stopped' = TRUE /\ Mishap
    /\ msg' = [msg EXCEPT ![m].kind = "stop"] /\ To(m, "done")
    /\ UNCHANGED <<convo, turnJob, turn, reply, open>>

\* admitRaw: the sender's budget is used up.
DenyRaw(m) ==
    /\ inbox[m] = "new" /\ (m > 1 => inbox[m - 1] # "new") /\ To(m, "done")
    /\ UNCHANGED <<convo, msg, turnJob, turn, reply, stopped, open, mishaps>>

\* resolveInboundMessage: a quoted message, or the only recovery of the
\* sender, leads to a conversation, which is historical once its recovery is
\* closed or superseded; several or no candidates lead to guidance.
Routes == {IF open THEN "active" ELSE "historical", "guidance"}

\* sendRoutingGuidance: one text per message, whatever the delivery repeats.
SendGuidance(m) ==
    /\ Incoming(m, "text") /\ "guidance" \in Routes /\ msg[m].st \in {"none", "guided"} /\ To(m, "done")
    /\ msg' = [msg EXCEPT ![m].kind = "text", ![m].st = "guided"]
    /\ UNCHANGED <<convo, turnJob, turn, reply, stopped, open, mishaps>>

\* A closed or superseded recovery: the message is kept, no turn is opened.
PersistHistorical(m) ==
    /\ \E kind \in {"text", "audio", "unsupported"} :
        /\ Incoming(m, kind) /\ "historical" \in Routes
        /\ msg' = IF msg[m].st = "none" THEN [msg EXCEPT ![m].kind = kind, ![m].st = "history"] ELSE msg
    /\ To(m, "done")
    /\ UNCHANGED <<convo, turnJob, turn, reply, stopped, open, mishaps>>

ReceiveText(m) ==
    /\ Incoming(m, "text") /\ "active" \in Routes
    /\ IF msg[m].st = "none" THEN Store(m, "text") /\ To(m, "enqueue")
       ELSE To(m, "repair") /\ UNCHANGED <<convo, msg>>
    /\ UNCHANGED <<turnJob, turn, reply, stopped, open, mishaps>>

\* Unsupported content advances the version, and no job is added for it.
ReceiveUnsupported(m) ==
    /\ Incoming(m, "unsupported") /\ "active" \in Routes /\ To(m, "done")
    /\ IF msg[m].st = "none" THEN Store(m, "unsupported") ELSE UNCHANGED <<convo, msg>>
    /\ UNCHANGED <<turnJob, turn, reply, stopped, open, mishaps>>

\* isStale: a later message of the customer is stored or reserved.
Newer(m) == \E n \in Messages : n > m /\ msg[n].st # "none"

ReserveAudio(m) ==
    /\ Incoming(m, "audio") /\ "active" \in Routes
    /\ msg' = IF msg[m].st = "none" THEN [msg EXCEPT ![m].kind = "audio", ![m].st = "pending"] ELSE msg
    /\ To(m, IF msg'[m].st = "pending" THEN "transcribe"
             ELSE IF msg[m].st = "stored" /\ convo.inV > convo.done /\ ~Newer(m) THEN "repair" ELSE "done")
    /\ UNCHANGED <<convo, turnJob, turn, reply, stopped, open, mishaps>>

\* Mutant: the transcript is stored without a second look at newer messages.
MutCompleteTranscript(m) ==
    /\ inbox[m] = "transcribe" /\ Store(m, "audio") /\ To(m, "repair")
    /\ UNCHANGED <<turnJob, turn, reply, stopped, open, mishaps>>

\* complete: under the lock of the conversation, the order is read again.
CompleteTranscript(m) ==
    /\ inbox[m] = "transcribe"
    /\ IF Newer(m)
       THEN /\ msg' = [msg EXCEPT ![m].st = "stale"] /\ To(m, "done") /\ UNCHANGED convo
       ELSE /\ Store(m, "audio") /\ To(m, "repair")
    /\ UNCHANGED <<turnJob, turn, reply, stopped, open, mishaps>>

\* Unreadable, too long or silent; a later message makes it stale instead.
RejectTranscript(m) ==
    /\ inbox[m] = "transcribe" /\ To(m, "done")
    /\ msg' = [msg EXCEPT ![m].st = IF Newer(m) THEN "stale" ELSE "failed"]
    /\ UNCHANGED <<convo, turnJob, turn, reply, stopped, open, mishaps>>

\* The turn's job, if the route is still current and the turn the AI's.
EnqueueReceived(m) ==
    /\ inbox[m] \in {"enqueue", "repair"} /\ To(m, "done")
    /\ turnJob' = IF open /\ convo.mode = "AI"
                  THEN Enqueued(turnJob, IF inbox[m] = "enqueue" THEN msg[m].ver ELSE convo.inV, convo)
                  ELSE turnJob
    /\ UNCHANGED <<convo, msg, turn, reply, stopped, open, mishaps>>

\* The job fails between two steps and is delivered again, or is lost.
InboundFails(m) ==
    /\ inbox[m] \in {"transcribe", "enqueue", "repair"} /\ Mishap
    /\ \E step \in {"again", "done"} : To(m, step)
    /\ UNCHANGED <<convo, msg, turnJob, turn, reply, stopped, open>>

-----------------------------------------------------------------------------
(* Processing a turn.                                                      *)

Holding == <<msg, inbox, stopped, open>>

\* A job of an older, processed or closed turn ends; one that comes before
\* the customer is quiet is moved back; otherwise the turn is claimed next.
TakeTurnJob(w, v) ==
    /\ turn[w].pc = "idle" /\ turnJob[v] = "waiting"
    /\ IF v < convo.inV \/ v <= convo.done \/ ~convo.pend
       THEN turnJob' = [turnJob EXCEPT ![v] = "none"] /\ UNCHANGED turn
       ELSE /\ convo.ripe > 0
            /\ turnJob' = [turnJob EXCEPT ![v] = w]
            /\ turn' = [turn EXCEPT ![w] = [pc |-> "claim", v |-> v, rev |-> convo.rev]]
    /\ UNCHANGED <<Holding, convo, reply, mishaps>>

\* A claim that fails: the turn changed hands and is closed, a newer message
\* took it over, or another worker holds it and the job comes back.
Claim(w) ==
    LET v == turn[w].v
        rev == turn[w].rev
        ended == IF ~Original(rev) /\ MaySuppress(v, rev) THEN Closed(convo) ELSE convo
        next == Enqueued(Settled(w, "none"), convo.inV, convo)
    IN  /\ turn[w].pc = "claim"
        /\ IF ClaimTurn(v, rev)
           THEN convo' = [convo EXCEPT !.proc = v, !.stale = FALSE] /\ GoTo(w, "gate") /\ UNCHANGED turnJob
           ELSE /\ convo' = ended /\ LeaveTurn(w)
                /\ turnJob' = IF NewerPending(ended, v) THEN next
                              ELSE Settled(w, IF Original(rev) THEN "waiting" ELSE "none")
        /\ UNCHANGED <<Holding, reply, mishaps>>

ReleaseTo(w, to) == convo' = TurnReleased(turn[w].v) /\ turnJob' = Settled(w, to) /\ LeaveTurn(w)

\* releaseTurn, then the job of the newest pending version.
ReleaseAndEnqueue(w) ==
    LET c == TurnReleased(turn[w].v)
    IN  convo' = c /\ turnJob' = Enqueued(Settled(w, "none"), c.inV, c) /\ LeaveTurn(w)

\* assessText: a terminal decision is reused; the provider may fail
\* ModerationTries times, then a person has to look at the message.
Assessed(x) ==
    {y \in Verdicts :
        IF x.decision # "open" THEN y = x
        ELSE IF y.decision = "open" THEN y.tries = x.tries + 1 /\ y.tries < ModerationTries ELSE y.tries = 0}
Moderated(m) == msg[m].st = "stored" /\ msg[m].kind \in {"text", "audio"} /\ msg[m].ver >= convo.from

\* moderatePending: every message of the turn has a decision, and one of
\* them is allowed.
ModeratePending(w) ==
    /\ turn[w].pc = "gate"
    /\ \E verdicts \in [Messages -> Verdicts] :
        /\ \A m \in Messages : verdicts[m] \in (IF Moderated(m) THEN Assessed(msg[m].verdict) ELSE {msg[m].verdict})
        /\ msg' = [m \in Messages |-> [msg[m] EXCEPT !.verdict = verdicts[m]]]
    /\ LET seen == {msg'[m].verdict.decision : m \in {n \in Messages : Moderated(n)}}
       IN  IF "open" \in seen THEN ReleaseTo(w, "waiting")
           ELSE /\ GoTo(w, IF "allow" \in seen THEN "load" ELSE "suppress") /\ UNCHANGED <<convo, turnJob>>
    /\ UNCHANGED <<inbox, stopped, open, reply, mishaps>>

\* admitSettledTurn: a conversation, sender or shop budget is used up.
DenySettled(w) == GoTo(w, "suppress")

\* loadTurn and the settled-turn admission: the shop may be unavailable, the
\* abuse limits reached, the turn taken over.
LoadTurn(w) ==
    /\ turn[w].pc = "load"
    /\ \/ GoTo(w, IF CheckControl(w) THEN "admit" ELSE "suppress") /\ UNCHANGED <<convo, turnJob>>
       \/ DenySettled(w) /\ UNCHANGED <<convo, turnJob>>
       \/ /\ CheckControl(w)     \* finishInactiveTurn: no other turn is looked for
          /\ convo' = IF MayComplete(turn[w].v, turn[w].rev, TRUE) THEN Closed(convo) ELSE TurnReleased(turn[w].v)
          /\ turnJob' = Settled(w, "none") /\ LeaveTurn(w)
    /\ UNCHANGED <<Holding, reply, mishaps>>

\* Mutant: the usage of an earlier try is not looked for.
MutUnreserved(v) == TRUE
\* The idempotency key of the usage: agent:conversation:version.
Unreserved(v) == ~reply[v].usage

\* reserve: one usage per version; an existing one, a pause or the message
\* cap of the conversation completes the turn without a reply.
Reserve(w) ==
    LET v == turn[w].v
    IN  \/ /\ Unreserved(v)
           /\ reply' = [reply EXCEPT ![v] = [@ EXCEPT !.st = "PENDING", !.usage = TRUE, !.from = convo.from]]
           /\ \E pc \in {"agent", "send"} : GoTo(w, pc)     \* "send": the terminal message or a clarification
        \/ GoTo(w, "complete") /\ UNCHANGED reply

AdmitTurn(w) ==
    /\ turn[w].pc = "admit"
    /\ IF HasChanged(turn[w].v) THEN ReleaseAndEnqueue(w) /\ UNCHANGED reply
       ELSE IF ~CheckControl(w) THEN GoTo(w, "suppress") /\ UNCHANGED <<convo, turnJob, reply>>
       ELSE IF convo.ripe < 2 THEN ReleaseTo(w, "waiting") /\ UNCHANGED reply
       ELSE Reserve(w) /\ UNCHANGED <<convo, turnJob>>
    /\ UNCHANGED <<Holding, mishaps>>

\* failPrepared: a message that has no permit fails and its usage is deleted.
Failed(v) == IF reply[v].st \in {"PENDING", "FAILED"} THEN [reply EXCEPT ![v].st = "FAILED", ![v].usage = FALSE]
             ELSE reply

\* After each long await (agent, rendering) ownership and the version are
\* looked at again; the wrapper may refuse the text.
AfterAwait(w, next, refused) ==
    LET v == turn[w].v
    IN  IF ~CheckControl(w) THEN reply' = Failed(v) /\ GoTo(w, refused) /\ UNCHANGED <<convo, turnJob>>
        ELSE IF HasChanged(v) THEN reply' = Failed(v) /\ ReleaseAndEnqueue(w)
        ELSE GoTo(w, next) /\ UNCHANGED <<reply, convo, turnJob>>

RunAgent(w) ==
    /\ turn[w].pc = "agent" /\ AfterAwait(w, "compose", "suppress")
    /\ UNCHANGED <<Holding, mishaps>>

\* renderConversationResponse: no usable wrapper, language or length.
WrapperRefuses(w) == reply' = Failed(turn[w].v) /\ GoTo(w, "suppressAny")

ComposeAiOutbound(w) ==
    /\ turn[w].pc = "compose"
    /\ \/ AfterAwait(w, "send", "suppressAny")
       \/ WrapperRefuses(w) /\ UNCHANGED <<convo, turnJob>>
    /\ UNCHANGED <<Holding, mishaps>>

\* The fence: shop, conversation and message are locked.
MayPermit(w) == reply[turn[w].v].st = "PENDING" /\ CheckControl(w) /\ convo.inV = turn[w].v /\ ~stopped

\* sendPreparedText up to the permit: a refusal before it fails the message
\* and ends the turn.
Permit(w) ==
    LET v == turn[w].v
    IN  /\ turn[w].pc = "send"
        /\ \/ /\ MayPermit(w) /\ GoTo(w, "provider")
              /\ reply' = [reply EXCEPT ![v].st = "PERMITTED", ![v].rev = turn[w].rev]
           \/ GoTo(w, "complete") /\ reply' = Failed(v)
        /\ UNCHANGED <<Holding, convo, turnJob, mishaps>>

CallWhatsApp(w) ==
    LET v == turn[w].v
    IN  /\ turn[w].pc = "provider" /\ GoTo(w, "complete")
        /\ reply' = [reply EXCEPT ![v].st = "SENT", ![v].wire = @ + 1]
        /\ UNCHANGED <<Holding, convo, turnJob, mishaps>>

\* completeOwnedTurn and finishSuppressedTurn: complete, else close the turn
\* that changed hands, else release it; then look for a newer one.
FinishTurn(w) ==
    LET v == turn[w].v
        checked == turn[w].pc # "suppressAny"
        c == IF checked /\ MaySuppress(v, turn[w].rev) THEN Closed(convo) ELSE TurnReleased(v)
    IN  /\ turn[w].pc \in {"complete", "suppress", "suppressAny"} /\ LeaveTurn(w)
        /\ IF MayComplete(v, turn[w].rev, checked)
           THEN convo' = [Closed(convo) EXCEPT !.done = v] /\ turnJob' = Settled(w, "none")
           ELSE /\ convo' = c
                /\ turnJob' = IF NewerPending(c, v) THEN Added(Settled(w, "none"), c.inV) ELSE Settled(w, "none")
        /\ UNCHANGED <<Holding, reply, mishaps>>

-----------------------------------------------------------------------------
(* Mishaps and repair.                                                     *)

\* An error before the provider was tried fails the prepared message; later
\* ones leave it.  The lease is released and the job fails.
TurnError(w) ==
    /\ turn[w].pc \in {"gate", "load", "admit", "agent", "compose", "send", "provider"} /\ Mishap
    /\ reply' = IF turn[w].pc \in {"agent", "compose"} THEN Failed(turn[w].v) ELSE reply
    /\ ReleaseTo(w, "failed") /\ UNCHANGED Holding

\* WhatsApp accepted the message and the answer was lost.
AnswerLost(w) ==
    /\ turn[w].pc = "provider" /\ Mishap
    /\ reply' = [reply EXCEPT ![turn[w].v].wire = @ + 1] /\ ReleaseTo(w, "failed") /\ UNCHANGED Holding

\* The worker loses the lock of its job and goes on, or stops for good.
JobStalls(w) ==
    /\ turn[w].pc # "idle" /\ turnJob[turn[w].v] = w /\ Mishap
    /\ turnJob' = [turnJob EXCEPT ![turn[w].v] = "waiting"]
    /\ UNCHANGED turn \/ LeaveTurn(w)
    /\ UNCHANGED <<Holding, convo, reply>>

LeaseLapses ==
    /\ convo.proc # 0 /\ ~convo.stale /\ convo' = [convo EXCEPT !.stale = TRUE]
    /\ IF \E w \in Turners : turn[w].pc \notin {"idle", "claim"} /\ turn[w].v = convo.proc THEN Mishap ELSE UNCHANGED mishaps
    /\ UNCHANGED <<Holding, turnJob, turn, reply>>

\* Mutant: the repair leaves failed jobs alone.
MutRepairable(v) == turnJob[v] = "none"
\* retryFailedJob: a failed job is retried once the turn is due.
Repairable(v) == turnJob[v] = "none" \/ (turnJob[v] = "failed" /\ convo.ripe = 2)

\* The poller looks for turns of the AI that are pending and not in work.
RepairPendingTurn ==
    /\ convo.pend /\ convo.inV > convo.done /\ Original(convo.rev) /\ (convo.proc = 0 \/ convo.stale)
    /\ Repairable(convo.inV)
    /\ turnJob' = [turnJob EXCEPT ![convo.inV] = "waiting"]
    /\ UNCHANGED <<Holding, convo, turn, reply, mishaps>>

WindowPasses ==
    /\ convo.pend /\ \E r \in 1 .. 2 : r > convo.ripe /\ convo' = [convo EXCEPT !.ripe = r]
    /\ UNCHANGED <<Holding, turnJob, turn, reply, mishaps>>

\* Takeover and hand-back, and the end of the recovery, happen elsewhere.
FlipControl ==
    /\ convo.cr < MaxControl /\ (IF convo.mode = "AI" THEN Mishap ELSE UNCHANGED mishaps)
    /\ convo' = [convo EXCEPT !.cr = @ + 1, !.mode = IF @ = "AI" THEN "HUMAN" ELSE "AI"]
    /\ UNCHANGED <<Holding, turnJob, turn, reply>>

CloseRecovery ==
    /\ open /\ open' = FALSE /\ Mishap
    /\ UNCHANGED <<convo, msg, inbox, turnJob, turn, reply, stopped>>

Receive(m) ==
    \/ WriteLocalStop(m) \/ DenyRaw(m) \/ SendGuidance(m) \/ PersistHistorical(m) \/ ReceiveText(m) \/ ReceiveUnsupported(m)
    \/ ReserveAudio(m) \/ CompleteTranscript(m) \/ RejectTranscript(m) \/ EnqueueReceived(m)

TurnStep(w) ==
    \/ Claim(w) \/ ModeratePending(w) \/ LoadTurn(w) \/ AdmitTurn(w) \/ RunAgent(w) \/ ComposeAiOutbound(w)
    \/ Permit(w) \/ CallWhatsApp(w) \/ FinishTurn(w)

TurnNext ==
    \/ \E m \in Messages : Receive(m) \/ InboundFails(m)
    \/ \E w \in Turners : \/ \E v \in Messages : TakeTurnJob(w, v)
                          \/ TurnStep(w) \/ TurnError(w) \/ AnswerLost(w) \/ JobStalls(w)
    \/ LeaseLapses \/ RepairPendingTurn \/ WindowPasses \/ FlipControl \/ CloseRecovery

\* Workers go on, the poller runs every few seconds, time passes.
TurnFairness ==
    /\ \A w \in Turners : WF_turnVars(TurnStep(w))
    /\ \A v \in Messages : SF_turnVars(\E w \in Turners : TakeTurnJob(w, v))
    /\ WF_turnVars(RepairPendingTurn) /\ WF_turnVars(WindowPasses) /\ WF_turnVars(LeaseLapses)

TurnSpec == TurnInit /\ [][TurnNext]_turnVars /\ TurnFairness

-----------------------------------------------------------------------------
\* A customer version is answered on WhatsApp at most once, whatever jobs
\* stall, leases lapse and workers repeat the turn (process, reserve, the
\* send fence): the loser finds the usage or the permit of the winner.
AnsweredOnce == \A v \in Messages : reply[v].wire <= 1

\* A turn is pending exactly while a message is unprocessed: no completion,
\* suppression or human message of another actor drops a message from the
\* turn or leaves an empty turn behind (completeTurn, suppressStaleTurn,
\* recordProcessableInbound).
PendingIffUnprocessed == convo.pend <=> convo.inV > convo.done

\* Every message a permitted reply answers reached the conversation under
\* the revision the reply was permitted at: a reply never spans a takeover,
\* not even one that was handed back in between (pendingAiControlRevision).
ReplyWithinOneOwner ==
    \A v \in Messages : reply[v].st \in {"PERMITTED", "SENT"} =>
        \A m \in Messages : msg[m].ver \in reply[v].from .. v => msg[m].rev = reply[v].rev

\* A transcript that takes long never becomes a version after a message the
\* customer sent later (InboundWhatsAppAudioService.complete).
TranscriptsInOrder ==
    \A m, n \in Messages : m < n /\ msg[m].ver # 0 /\ msg[n].ver # 0 => msg[m].ver < msg[n].ver

\* A pending turn that stays the AI's is settled in the end: lost and failed
\* jobs, lapsed leases and retries of moderation do not leave the customer
\* waiting for ever (PendingTurnRepairService).
PendingTurnSettles == []<>~(convo.pend /\ Original(convo.rev))
=============================================================================
