----------------------------- MODULE WooRecovery -----------------------------
(***************************************************************************)
(* The recovery of one WooCommerce checkout.  Captured checkout and order  *)
(* events arrive in any order and are redelivered; a checkout event closes *)
(* the live recovery and starts the next generation's candidate, a matured *)
(* candidate becomes a recovery, and its first message is sent under a     *)
(* final permit.  Every section runs under one Redis lease, which a slow   *)
(* worker can lose; PostgreSQL rows (rec, att, wooMsg, res) are the truth, *)
(* Redis (cand, idx, mark, ord) is repairable.  Outbound sending is the    *)
(* enabled configuration of the code (enabled() is a test-only opt-in).    *)
(***************************************************************************)
EXTENDS Naturals, FiniteSets

CONSTANTS
    MaxWooEvents,   \* bound on captured events
    MaxSecond,      \* bound on their source times, in seconds
    MaxGen,         \* bound on the generations of the checkout
    WooWorkers,
    NoLease,        \* the lease is free
    WooFaults       \* bound: failing calls, dead workers, lost leases, STOP, expiry, an ineligible shop

ASSUME WooAssumption ==
    MaxWooEvents \in Nat /\ MaxSecond \in Nat \ {0} /\ MaxGen \in Nat \ {0} /\ WooFaults \in Nat
    /\ NoLease \notin WooWorkers

VARIABLES
    evt,        \* captured event -> its kind, source second and job
    rec,        \* generation -> the CheckoutRecovery row with its history
    cand,       \* generation -> the maturity job
    idx,        \* the generation the checkout index points at
    mark,       \* the activity watermark
    ord,        \* the observed order evidence
    att,        \* generation -> the sequence-one attempt
    wooMsg,     \* generation -> its message
    res,        \* generation -> its credit reservation
    init,       \* generation -> the initial-dispatch job
    lease, wk, agreed, wooFaults,
    lapses      \* leases lost under their owners

wooVars == <<evt, rec, cand, idx, mark, ord, att, wooMsg, res, init, lease, wk, agreed, wooFaults, lapses>>

Events == 1 .. MaxWooEvents
Gens == 1 .. MaxGen
Seconds == 1 .. MaxSecond
Live == {"DETECTED", "MESSAGE_SENT"}
NoMark == [gen |-> 0, e |-> 0, at |-> 0, state |-> "none"]
NoRec == [st |-> "none", at |-> 0, origin |-> 0, by |-> 0, order |-> FALSE]
NoCand == [st |-> "none", e |-> 0]
IdleWorker == [pc |-> "idle", job |-> "none", e |-> 0, g |-> 0, prev |-> 0, paid |-> FALSE, mk |-> NoMark]
WooSteps == {"idle", "checkout", "close", "place", "mark", "settle", "release", "order", "drop", "transition",
             "mature", "insert", "enqueue", "queue", "clear",
             "first", "reserve", "again", "prepare", "permit", "call", "finalize", "sent", "failed"}
Watermarks == [gen : 0 .. MaxGen, e : 0 .. MaxWooEvents, at : 0 .. MaxSecond,
          state : {"none", "nonempty", "empty", "conflicting"}]

WooTypeOK ==
    /\ evt \in [Events -> [kind : {"none", "full", "empty", "placed", "paid"}, at : 0 .. MaxSecond,
                           st : {"none", "queued", "busy", "done", "refused", "failed"}]]
    /\ rec \in [Gens -> [st : {"none", "CANCELLED", "COMPLETED", "EXPIRED"} \cup Live, at : 0 .. MaxSecond,
                         origin : 0 .. MaxWooEvents, by : 0 .. MaxWooEvents, order : BOOLEAN]]
    /\ cand \in [Gens -> [st : {"none", "delayed", "active", "failed"}, e : 0 .. MaxWooEvents]]
    /\ idx \in 0 .. MaxGen
    /\ mark \in Watermarks
    /\ ord \in [kind : {"none", "placed", "paid"}, at : 0 .. MaxSecond, ambiguous : BOOLEAN]
    /\ att \in [Gens -> {"none", "PENDING", "CANCELLED", "FAILED", "WAITING"}]
    /\ wooMsg \in [Gens -> [st : {"none", "PREPARED", "PERMITTED", "SENT", "FAILED"}, wire : BOOLEAN]]
    /\ res \in [Gens -> {"none", "RESERVED", "RELEASED", "COMMITTED"}]
    /\ init \in [Gens -> {"none", "waiting", "active", "failed"}]
    /\ lease \in WooWorkers \cup {NoLease}
    /\ wk \in [WooWorkers -> [pc : WooSteps, job : {"none", "event", "cand", "init"}, e : 0 .. MaxWooEvents,
                              g : 0 .. MaxGen, prev : 0 .. MaxGen, paid : BOOLEAN, mk : Watermarks]]
    /\ agreed \in BOOLEAN /\ lapses \in 0 .. WooFaults /\ wooFaults \in 0 .. WooFaults

WooInit ==
    /\ evt = [e \in Events |-> [kind |-> "none", at |-> 0, st |-> "none"]]
    /\ rec = [g \in Gens |-> NoRec] /\ cand = [g \in Gens |-> NoCand] /\ idx = 0 /\ mark = NoMark
    /\ ord = [kind |-> "none", at |-> 0, ambiguous |-> FALSE]
    /\ att = [g \in Gens |-> "none"] /\ wooMsg = [g \in Gens |-> [st |-> "none", wire |-> FALSE]]
    /\ res = [g \in Gens |-> "none"] /\ init = [g \in Gens |-> "none"]
    /\ lease = NoLease /\ wk = [w \in WooWorkers |-> IdleWorker] /\ agreed = TRUE /\ wooFaults = 0 /\ lapses = 0

redisVars == <<cand, idx, mark, ord>>
outreachVars == <<att, wooMsg, res>>
jobVars == <<evt, cand, init>>

(***************************************************************************)
(* The lease.  A section starts by taking it and ends by giving it back.   *)
(* An owner that lost it works on, and reports an error at the end.        *)
(***************************************************************************)
Begin(w, pc) == wk[w].pc = pc /\ lease = NoLease
Within(w, pc) == wk[w].pc = pc /\ UNCHANGED lease
Freed(w) == IF lease = w THEN NoLease ELSE lease
WooGo(w, pc) == wk' = [wk EXCEPT ![w].pc = pc]

\* What the end of worker w's job does to the queues: "retry", "failed" (out of attempts) or "done".
JobEnds(w, how) ==
    /\ evt' = IF wk[w].job # "event" THEN evt
              ELSE [evt EXCEPT ![wk[w].e].st = IF how = "retry" THEN "queued" ELSE how]
    /\ cand' = IF wk[w].job # "cand" THEN cand
               ELSE IF how = "done" THEN [cand EXCEPT ![wk[w].g] = NoCand]
               ELSE [cand EXCEPT ![wk[w].g].st = IF how = "retry" THEN "delayed" ELSE how]
    /\ init' = IF wk[w].job # "init" THEN init
               ELSE [init EXCEPT ![wk[w].g] = CASE how = "retry" -> "waiting" [] how = "done" -> "none" [] OTHER -> how]
    /\ wk' = [wk EXCEPT ![w] = IdleWorker]
    /\ lease' = Freed(w)

\* The handler throws: its job is retried, or has used its attempts.
Throw(w) == JobEnds(w, "retry") \/ JobEnds(w, "failed")
\* A section returns; a lost lease turns the result into an error.
Done(w) == IF lease = w THEN JobEnds(w, "done") ELSE Throw(w)
EndSection(w, pc) ==
    IF lease = w THEN lease' = NoLease /\ WooGo(w, pc) /\ UNCHANGED jobVars ELSE Throw(w)

(***************************************************************************)
(* The candidate queue.  One job per generation; the index points at the   *)
(* newest.  Only a delayed job may be rewritten, an active one not removed.*)
(***************************************************************************)
\* The job of generation g, found through the index or under its own id.
ResolveWoo(g) == idx \in {0, g} /\ cand[g].st # "none"

\* Mutant: cancelPending takes a job a worker holds for a removed one.
MutCancelBlocked(g) == FALSE
CancelBlocked(g) == ResolveWoo(g) /\ cand[g].st = "active"

CancelPending(g) ==
    /\ cand' = IF ResolveWoo(g) /\ cand[g].st # "active" THEN [cand EXCEPT ![g] = NoCand] ELSE cand
    /\ idx' = IF idx = g THEN 0 ELSE idx

ScheduleBlocked(g) == ResolveWoo(g) /\ cand[g].st # "delayed"

\* A job the index does not lead to keeps its data: its id is taken.
SchedulePending(g, e) ==
    /\ cand' = IF ResolveWoo(g) \/ cand[g].st = "none" THEN [cand EXCEPT ![g] = [st |-> "delayed", e |-> e]] ELSE cand
    /\ idx' = g

(***************************************************************************)
(* Checkout activity.                                                      *)
(***************************************************************************)
LatestGen == Cardinality({g \in Gens : rec[g].st # "none"})

\* Distinct events of one source second cannot be ordered.
ClassifyWatermark(m, e) ==
    CASE m.e = e -> IF m.state = "conflicting" THEN "conflict" ELSE "duplicate"
      [] evt[e].at < m.at -> "stale"
      [] evt[e].at = m.at -> "conflict"
      [] OTHER -> "clear"

\* What the latest recovery and the watermark say of checkout event e.
Boundary(e) ==
    LET x == LatestGen
        r == rec[x]
        m == IF mark = NoMark THEN "clear" ELSE ClassifyWatermark(mark, e)
        to(k, g, p) == [do |-> k, g |-> g, prev |-> p] IN
    IF x = 0 THEN to("place", 1, 0)
    ELSE CASE r.st = "DETECTED" /\ r.origin = e -> to("enqueue", x, 0)
           [] r.by = e -> IF m \in {"stale", "conflict"} THEN to("settle", x, x) ELSE to("place", x + 1, x)
           [] r.by # e /\ r.st \in Live /\ m = "conflict" -> to("cancel", x + 1, 0)
           [] r.by # e /\ r.st \in Live /\ (m # "clear" \/ (mark # NoMark /\ mark.gen # x)) -> to("ack", x, 0)
           [] evt[e].at < r.at -> to("ack", x, 0)
           [] evt[e].at = r.at -> to("cancel", x + 1, 0)
           [] r.st \in Live -> to("close", x + 1, x)
           [] (r.st = "CANCELLED" /\ r.by # 0) \/ r.st = "EXPIRED" -> to("place", x + 1, 0)
           [] OTHER -> to("cancel", x, 0)

TakeEvent(w, e) ==
    /\ wk[w] = IdleWorker /\ evt[e].st = "queued"
    /\ evt' = [evt EXCEPT ![e].st = "busy"]
    /\ wk' = [wk EXCEPT ![w] = [IdleWorker EXCEPT !.job = "event", !.e = e,
                                    !.pc = IF evt[e].kind \in {"full", "empty"} THEN "checkout" ELSE "order"]]
    /\ UNCHANGED <<rec, redisVars, outreachVars, init, lease, agreed, wooFaults, lapses>>

\* The event is stale or ambiguous: at most the next candidate goes.
RefuseCheckout(w) ==
    /\ Begin(w, "checkout")
    /\ LET b == Boundary(wk[w].e) IN
       /\ b.do \in {"ack", "cancel"}
       /\ IF b.do = "cancel" /\ b.g \in Gens
          THEN IF CancelBlocked(b.g) THEN Throw(w) /\ UNCHANGED idx
               ELSE CancelPending(b.g) /\ evt' = [evt EXCEPT ![wk[w].e].st = "done"]
                    /\ wk' = [wk EXCEPT ![w] = IdleWorker] /\ UNCHANGED <<lease, init>>
          ELSE JobEnds(w, "done") /\ UNCHANGED idx
    /\ UNCHANGED <<rec, mark, ord, outreachVars, agreed, wooFaults, lapses>>

AcceptCheckout(w) ==
    /\ Begin(w, "checkout")
    /\ LET b == Boundary(wk[w].e) IN
       /\ b.do \in {"place", "close", "enqueue", "settle"} /\ b.g \in Gens
       /\ wk' = [wk EXCEPT ![w].pc = b.do, ![w].g = b.g, ![w].prev = b.prev,
                           ![w].mk = IF b.do \in {"place", "close"} THEN mark ELSE NoMark]
       /\ lease' = IF b.do \in {"place", "close"} THEN w ELSE lease
    /\ UNCHANGED <<evt, rec, redisVars, outreachVars, init, agreed, wooFaults, lapses>>

\* The status CAS; a lost one is retried against the committed row.
CloseForResumption(w) ==
    LET x == wk[w].prev
        e == wk[w].e IN
    /\ wk[w].pc = "close"
    /\ IF rec[x].st \in Live /\ rec[x].at < evt[e].at
       THEN /\ rec' = [rec EXCEPT ![x].st = "CANCELLED", ![x].at = evt[e].at, ![x].by = e]
            /\ WooGo(w, "place") /\ UNCHANGED <<jobVars, lease>>
       ELSE Throw(w) /\ UNCHANGED rec
    /\ UNCHANGED <<idx, mark, ord, outreachVars, agreed, wooFaults, lapses>>

\* An observed order, or a shop that may not recover now, refuses the candidate;
\* the event is acknowledged even when it has just closed a recovery.
RefusePlacement(w) ==
    LET g == wk[w].g IN
    /\ wk[w].pc = "place"
    /\ \/ ord.kind # "none" /\ UNCHANGED wooFaults
       \/ ord.kind = "none" /\ wooFaults < WooFaults /\ wooFaults' = wooFaults + 1
    /\ IF CancelBlocked(g) THEN Throw(w) /\ UNCHANGED idx
       ELSE /\ CancelPending(g) /\ UNCHANGED init
            /\ evt' = [evt EXCEPT ![wk[w].e].st = IF lease = w THEN "refused" ELSE "queued"]
            /\ wk' = [wk EXCEPT ![w] = IdleWorker] /\ lease' = Freed(w)
    /\ UNCHANGED <<rec, mark, ord, outreachVars, agreed, lapses>>

\* The watermark that the pending job, which may be newer, stands for.
Accepted(w) ==
    LET g == wk[w].g
        m == IF wk[w].mk.gen = g THEN wk[w].mk ELSE NoMark
        p == cand[g].e IN
    IF ResolveWoo(g) /\ (m = NoMark \/ evt[p].at > m.at)
    THEN [gen |-> g, e |-> p, at |-> evt[p].at, state |-> "nonempty"] ELSE m

MarkOf(w, state) == [gen |-> wk[w].g, e |-> wk[w].e, at |-> evt[wk[w].e].at, state |-> state]

\* Mutant: an event of an earlier second replaces the accepted one.
MutPlacement(w) ==
    LET e == wk[w].e
        acc == Accepted(w) IN
    IF wk[w].prev = 0 /\ acc # NoMark /\ evt[e].at = acc.at /\ acc.e # e THEN "conflicting"
    ELSE IF evt[e].kind = "empty" THEN "empty" ELSE "nonempty"

\* What a checkout event does to the candidate of generation g: a replay of
\* the accepted event repairs, an older one changes nothing, a different one
\* of the same second is quarantined, a later one replaces it.
Placement(w) ==
    LET e == wk[w].e
        g == wk[w].g
        acc == Accepted(w)
        pend == ResolveWoo(g)
        p == cand[g].e IN
    CASE pend /\ p = e /\ evt[e].kind = "full" /\ (wk[w].prev # 0 \/ acc # wk[w].mk) -> "nonempty"
      [] wk[w].prev # 0 /\ pend /\ p # e /\ evt[p].at >= evt[e].at -> "keep"
      [] wk[w].prev = 0 /\ acc # NoMark /\ (evt[e].at < acc.at \/ acc.e = e
                                            \/ (evt[e].at = acc.at /\ acc.state = "conflicting")) -> "keep"
      [] wk[w].prev = 0 /\ acc # NoMark /\ evt[e].at = acc.at /\ acc.e # e -> "conflicting"
      [] OTHER -> IF evt[e].kind = "empty" THEN "empty" ELSE "nonempty"

\* The queue and its index come first, the watermark last.
PlaceCandidate(w) ==
    LET g == wk[w].g
        how == Placement(w) IN
    /\ wk[w].pc = "place" /\ ord.kind = "none"
    /\ IF (cand[g].st = "failed" /\ ResolveWoo(g)) \/ (how = "nonempty" /\ ScheduleBlocked(g))
                \/ (how \in {"empty", "conflicting"} /\ CancelBlocked(g))
       THEN Throw(w) /\ UNCHANGED <<idx, mark>>
       ELSE /\ mark' = IF wk[w].prev = 0 /\ Accepted(w) \notin {wk[w].mk, NoMark} THEN Accepted(w) ELSE mark
            /\ CASE how = "keep" -> UNCHANGED <<cand, idx>>
                 [] how = "nonempty" -> SchedulePending(g, wk[w].e)
                 [] OTHER -> CancelPending(g)
            /\ wk' = [wk EXCEPT ![w].pc = "mark", ![w].mk = IF how = "keep" THEN NoMark ELSE MarkOf(w, how)]
            /\ UNCHANGED <<evt, init, lease>>
    /\ UNCHANGED <<rec, ord, outreachVars, agreed, wooFaults, lapses>>

WriteWatermark(w) ==
    /\ wk[w].pc = "mark"
    /\ mark' = IF wk[w].mk = NoMark THEN mark ELSE wk[w].mk
    /\ IF lease = w /\ wk[w].prev # 0
       THEN /\ lease' = NoLease /\ wk' = [wk EXCEPT ![w].pc = "settle", ![w].mk = NoMark]
            /\ UNCHANGED jobVars
       ELSE Done(w)
    /\ UNCHANGED <<rec, idx, ord, outreachVars, agreed, wooFaults, lapses>>

(***************************************************************************)
(* Settlement of the generation a checkout event closed.                   *)
(***************************************************************************)
\* Mutant: attempts are found through their message.
MutSettleable(g) == att[g] \in {"PENDING", "CANCELLED"} /\ wooMsg[g].st # "none"
Settleable(g) == att[g] \in {"PENDING", "CANCELLED"}

\* Mutant: a permitted message counts as unsent.
MutPrePermit(g) == wooMsg[g].st \in {"none", "PREPARED", "PERMITTED"}
PrePermit(g) == wooMsg[g].st \in {"none", "PREPARED"}

\* cancelIfPrePermit and what follows each verdict; an unknown outcome, and a
\* confirmed send whose attempt is closed, is an error.
SettleResumed(w) ==
    LET g == wk[w].prev IN
    /\ Begin(w, "settle")
    /\ IF rec[g].st # "CANCELLED" \/ ~Settleable(g) THEN JobEnds(w, "done") /\ UNCHANGED outreachVars
       ELSE \/ /\ PrePermit(g) /\ res[g] # "COMMITTED"
               /\ att' = [att EXCEPT ![g] = "CANCELLED"] /\ UNCHANGED <<wooMsg, res>>
               /\ IF res[g] = "RESERVED" THEN WooGo(w, "release") /\ lease' = w /\ UNCHANGED jobVars
                  ELSE JobEnds(w, "done")
            \/ /\ wooMsg[g].st = "SENT" /\ res[g] # "RELEASED" /\ att[g] = "PENDING"
               /\ att' = [att EXCEPT ![g] = "WAITING"] /\ res' = [res EXCEPT ![g] = "COMMITTED"]
               /\ JobEnds(w, "done") /\ UNCHANGED wooMsg
            \/ /\ wooMsg[g].st = "FAILED"
               /\ att' = [att EXCEPT ![g] = "FAILED"] /\ res' = [res EXCEPT ![g] = "RELEASED"]
               /\ JobEnds(w, "done") /\ UNCHANGED wooMsg
            \/ /\ wooMsg[g].st = "PERMITTED" /\ ~PrePermit(g) /\ Throw(w) /\ UNCHANGED outreachVars
            \/ /\ wooMsg[g].st = "SENT" /\ (res[g] = "RELEASED" \/ att[g] = "CANCELLED")
               /\ Throw(w) /\ UNCHANGED outreachVars
    /\ UNCHANGED <<rec, idx, mark, ord, agreed, wooFaults, lapses>>

ReleaseReservedCredit(w) ==
    LET g == wk[w].prev IN
    /\ wk[w].pc = "release"
    /\ IF res[g] = "COMMITTED" THEN Throw(w) /\ UNCHANGED res
       ELSE res' = [res EXCEPT ![g] = "RELEASED"] /\ Done(w)
    /\ UNCHANGED <<rec, idx, mark, ord, att, wooMsg, agreed, wooFaults, lapses>>

(***************************************************************************)
(* Orders.  The checkout has one order; its callbacks come in any order.   *)
(***************************************************************************)
\* decide: the observation that stands after event e.
Decide(e) ==
    LET new == [kind |-> evt[e].kind, at |-> evt[e].at, ambiguous |-> FALSE] IN
    CASE ord.kind = "none" -> new
      [] ord.kind # "none" /\ new.at < ord.at -> ord
      [] ord.kind # "none" /\ new.at = ord.at /\ new.kind # ord.kind -> [ord EXCEPT !.ambiguous = TRUE]
      [] new.kind = "placed" /\ ord.kind = "paid" -> ord
      [] new.kind = ord.kind -> [ord EXCEPT !.at = new.at]
      [] OTHER -> new

\* The evidence is persisted before the candidate goes.
ObserveOrder(w) ==
    /\ Begin(w, "order") /\ lease' = w
    /\ ord' = Decide(wk[w].e)
    /\ wk' = [wk EXCEPT ![w].pc = "drop", ![w].paid = Decide(wk[w].e).kind = "paid"]
    /\ UNCHANGED <<jobVars, rec, idx, mark, outreachVars, agreed, wooFaults, lapses>>

DropCandidate(w) ==
    LET g == IF idx # 0 THEN idx ELSE 1 IN
    /\ wk[w].pc = "drop"
    /\ IF CancelBlocked(g) THEN Throw(w) /\ UNCHANGED idx
       ELSE CancelPending(g) /\ WooGo(w, "transition") /\ UNCHANGED <<evt, init, lease>>
    /\ UNCHANGED <<rec, mark, ord, outreachVars, agreed, wooFaults, lapses>>

TransitionRecovery(w) ==
    LET x == LatestGen IN
    /\ wk[w].pc = "transition"
    /\ IF x # 0 /\ rec[x].st \in Live
       THEN /\ rec' = [rec EXCEPT ![x].st = IF wk[w].paid THEN "COMPLETED" ELSE "CANCELLED", ![x].order = TRUE]
            /\ att' = IF att[x] = "PENDING" THEN [att EXCEPT ![x] = "CANCELLED"] ELSE att
       ELSE UNCHANGED <<rec, att>>
    /\ Done(w)
    /\ UNCHANGED <<idx, mark, ord, wooMsg, res, agreed, wooFaults, lapses>>

(***************************************************************************)
(* A matured candidate.                                                    *)
(***************************************************************************)
TakeCandidate(w, g) ==
    /\ wk[w] = IdleWorker /\ cand[g].st = "delayed"
    /\ cand' = [cand EXCEPT ![g].st = "active"]
    /\ wk' = [wk EXCEPT ![w] = [IdleWorker EXCEPT !.job = "cand", !.e = cand[g].e, !.g = g, !.pc = "mature"]]
    /\ UNCHANGED <<evt, rec, idx, mark, ord, outreachVars, init, lease, agreed, wooFaults, lapses>>

\* classifyPrior: may event e be admitted as generation g?
ClassifyPrior(g, e) ==
    LET x == LatestGen
        r == rec[x] IN
    IF x = 0 THEN IF g = 1 THEN "go" ELSE "superseded"
    ELSE CASE g = x /\ r.origin = e /\ r.st = "DETECTED" -> "repair"
           [] g = x + 1 /\ r.st = "CANCELLED" /\ r.by # 0 -> "go"
           [] g = x + 1 /\ r.st = "EXPIRED" /\ ~r.order /\ evt[e].at > r.at -> "go"
           [] g = x + 1 /\ r.st \in Live -> "deferred"
           [] OTHER -> "superseded"

\* The job and the watermark still stand for event e.
MatchesAccepted(g, e) ==
    cand[g].e = e /\ mark.gen = g /\ mark.e = e /\ mark.state = "nonempty"

\* evaluateMatured: every refusal ends the job, a deferral retries it.
EvaluateMatured(w) ==
    LET g == wk[w].g
        e == wk[w].e
        c == ClassifyPrior(g, e) IN
    /\ Begin(w, "mature")
    /\ CASE c = "repair" -> WooGo(w, "enqueue") /\ UNCHANGED <<jobVars, lease>>
         [] c = "deferred" \/ (c = "go" /\ (~ResolveWoo(g) \/ (MatchesAccepted(g, e) /\ ord.ambiguous))) -> Throw(w)
         [] c = "go" /\ ResolveWoo(g) /\ MatchesAccepted(g, e) /\ ord.kind = "none" /\ agreed
              -> WooGo(w, "insert") /\ lease' = w /\ UNCHANGED jobVars
         [] OTHER -> WooGo(w, "clear") /\ UNCHANGED <<jobVars, lease>>
    /\ UNCHANGED <<rec, idx, mark, ord, outreachVars, agreed, wooFaults, lapses>>

\* The serialised insert judges the prior generation and the consent again.
InsertRecovery(w) ==
    LET g == wk[w].g
        e == wk[w].e
        c == ClassifyPrior(g, e) IN
    /\ wk[w].pc = "insert"
    /\ rec' = IF c = "go" /\ agreed
              THEN [rec EXCEPT ![g] = [NoRec EXCEPT !.st = "DETECTED", !.at = evt[e].at, !.origin = e]] ELSE rec
    /\ IF c = "deferred" THEN Throw(w)
       ELSE EndSection(w, IF c = "repair" \/ (c = "go" /\ agreed) THEN "enqueue" ELSE "clear")
    /\ UNCHANGED <<idx, mark, ord, outreachVars, agreed, wooFaults, lapses>>

\* The matured job gives up the index, and ends.
ClearMatured(w) ==
    /\ Begin(w, "clear")
    /\ idx' = IF idx = wk[w].g THEN 0 ELSE idx
    /\ JobEnds(w, "done")
    /\ UNCHANGED <<rec, mark, ord, outreachVars, agreed, wooFaults, lapses>>

(***************************************************************************)
(* The first message.                                                      *)
(***************************************************************************)
\* guard: the recovery is open, no order was observed, the customer agrees.
Guard(g) == rec[g].st = "DETECTED" /\ ord.kind = "none" /\ agreed

\* Why a dispatch must not go on: an unknown or unreconciled provider outcome.
Unclear(g) ==
    \/ wooMsg[g].st \in {"PREPARED", "PERMITTED"}
    \/ wooMsg[g].st = "FAILED" /\ att[g] # "FAILED"
    \/ wooMsg[g].st = "SENT" /\ att[g] \in {"FAILED", "CANCELLED"}

AfterEnqueue(w) == IF wk[w].job = "cand" THEN WooGo(w, "clear") /\ UNCHANGED jobVars ELSE JobEnds(w, "done")

\* enqueueInitial: the attempt is persisted, then its job republished.
EnqueueInitial(w) ==
    LET g == wk[w].g IN
    /\ Begin(w, "enqueue")
    /\ CASE Unclear(g) \/ (wooMsg[g].st = "none" /\ att[g] \notin {"FAILED", "CANCELLED"} /\ ord.ambiguous
                           /\ rec[g].st = "DETECTED") -> Throw(w) /\ UNCHANGED att
         [] ~Unclear(g) /\ (IF wooMsg[g].st = "SENT" THEN att[g] # "WAITING" \/ rec[g].st = "DETECTED"
                            ELSE wooMsg[g].st = "none" /\ att[g] \in {"none", "PENDING"} /\ Guard(g))
              -> /\ att' = IF att[g] = "none" THEN [att EXCEPT ![g] = "PENDING"] ELSE att
                 /\ WooGo(w, "queue") /\ lease' = w /\ UNCHANGED jobVars
         [] OTHER -> UNCHANGED <<att, lease>> /\ AfterEnqueue(w)
    /\ UNCHANGED <<rec, idx, mark, ord, wooMsg, res, agreed, wooFaults, lapses>>

QueueInitial(w) ==
    LET g == wk[w].g IN
    /\ wk[w].pc = "queue"
    /\ init' = [init EXCEPT ![g] = IF @ = "active" THEN @ ELSE "waiting"]
    /\ lease' = Freed(w)
    /\ IF wk[w].job = "cand" /\ lease = w
       THEN WooGo(w, "clear") /\ UNCHANGED <<evt, cand>>
       ELSE /\ wk' = [wk EXCEPT ![w] = IdleWorker]
            /\ evt' = IF wk[w].job # "event" THEN evt
                      ELSE [evt EXCEPT ![wk[w].e].st = IF lease = w THEN "done" ELSE "queued"]
            /\ cand' = IF wk[w].job = "cand" THEN [cand EXCEPT ![g].st = "delayed"] ELSE cand
    /\ UNCHANGED <<rec, idx, mark, ord, outreachVars, agreed, wooFaults, lapses>>

TakeInitial(w, g) ==
    /\ wk[w] = IdleWorker /\ init[g] = "waiting"
    /\ init' = [init EXCEPT ![g] = "active"]
    /\ wk' = [wk EXCEPT ![w] = [IdleWorker EXCEPT !.job = "init", !.g = g, !.pc = "first"]]
    /\ UNCHANGED <<evt, rec, redisVars, outreachVars, lease, agreed, wooFaults, lapses>>

\* processInitial: a confirmed send is only finalized, an unclear one is an error.
ProcessInitial(w) ==
    LET g == wk[w].g IN
    /\ Begin(w, "first")
    /\ CASE Unclear(g) \/ (wooMsg[g].st = "none" /\ att[g] = "PENDING" /\ ord.ambiguous /\ rec[g].st = "DETECTED")
              -> Throw(w)
         [] ~Unclear(g) /\ wooMsg[g].st = "SENT" /\ (att[g] # "WAITING" \/ rec[g].st = "DETECTED")
              -> WooGo(w, "finalize") /\ lease' = w /\ UNCHANGED jobVars
         [] wooMsg[g].st = "none" /\ att[g] = "PENDING" /\ Guard(g)
              -> WooGo(w, "reserve") /\ lease' = w /\ UNCHANGED jobVars
         [] OTHER -> JobEnds(w, "done")
    /\ UNCHANGED <<rec, idx, mark, ord, outreachVars, agreed, wooFaults, lapses>>

\* The credit: reserved, or a released reservation taken again.
ReserveCredit(w) ==
    LET g == wk[w].g IN
    /\ Within(w, "reserve")
    /\ res' = [res EXCEPT ![g] = IF @ = "COMMITTED" THEN @ ELSE "RESERVED"]
    /\ WooGo(w, "again")
    /\ UNCHANGED <<jobVars, rec, idx, mark, ord, att, wooMsg, agreed, wooFaults, lapses>>

\* A refusal before the permit gives the credit back.
Refuse(w, g) == res' = [res EXCEPT ![g] = IF @ = "RESERVED" THEN "RELEASED" ELSE @] /\ Done(w)

GuardAgain(w) ==
    LET g == wk[w].g IN
    /\ wk[w].pc = "again"
    /\ IF Guard(g) THEN WooGo(w, "prepare") /\ UNCHANGED <<jobVars, lease, res>> ELSE Refuse(w, g)
    /\ UNCHANGED <<rec, idx, mark, ord, att, wooMsg, agreed, wooFaults, lapses>>

\* sendInitial reads the orders once more, and prepares the message.
PrepareInitial(w) ==
    LET g == wk[w].g IN
    /\ wk[w].pc = "prepare"
    /\ IF ord.ambiguous THEN Throw(w) /\ UNCHANGED <<wooMsg, res>>
       ELSE IF ord.kind # "none" THEN Refuse(w, g) /\ UNCHANGED wooMsg
       ELSE wooMsg' = [wooMsg EXCEPT ![g].st = "PREPARED"] /\ WooGo(w, "permit") /\ UNCHANGED <<jobVars, lease, res>>
    /\ UNCHANGED <<rec, idx, mark, ord, att, agreed, wooFaults, lapses>>

\* Mutant: the fence trusts the caller's look at the recovery.
MutFence(g) == att[g] = "PENDING" /\ agreed /\ wooMsg[g].st = "PREPARED" /\ res[g] = "RESERVED"
\* admitFinalSend, under the Shop, Conversation and recovery locks.
Fence(g) ==
    /\ rec[g].st = "DETECTED" /\ ~rec[g].order /\ att[g] = "PENDING" /\ agreed
    /\ wooMsg[g].st = "PREPARED" /\ res[g] = "RESERVED"

\* A refusal fails the prepared message and gives the credit back.
AdmitWooSend(w) ==
    LET g == wk[w].g IN
    /\ wk[w].pc = "permit"
    /\ IF Fence(g)
       THEN wooMsg' = [wooMsg EXCEPT ![g].st = "PERMITTED"] /\ WooGo(w, "call") /\ UNCHANGED <<jobVars, lease, res>>
       ELSE wooMsg' = [wooMsg EXCEPT ![g].st = IF @ = "PREPARED" THEN "none" ELSE @] /\ Refuse(w, g)
    /\ UNCHANGED <<rec, idx, mark, ord, att, agreed, wooFaults, lapses>>

\* The provider accepts, rejects, or its answer is lost.
CallWooProvider(w) ==
    LET g == wk[w].g IN
    /\ wk[w].pc = "call"
    /\ \/ wooMsg' = [wooMsg EXCEPT ![g] = [st |-> "SENT", wire |-> TRUE]] /\ WooGo(w, "finalize")
          /\ UNCHANGED <<jobVars, lease, wooFaults>>
       \/ wooMsg' = [wooMsg EXCEPT ![g].st = "FAILED"] /\ WooGo(w, "failed") /\ UNCHANGED <<jobVars, lease, wooFaults>>
       \/ /\ wooFaults < WooFaults /\ wooFaults' = wooFaults + 1
          /\ \E sent \in BOOLEAN : wooMsg' = [wooMsg EXCEPT ![g].wire = sent]
          /\ Throw(w)
    /\ UNCHANGED <<rec, idx, mark, ord, att, res, agreed, lapses>>

\* The charge comes first; a closed attempt then refuses the confirmation.
FinalizeConfirmed(w) ==
    LET g == wk[w].g IN
    /\ wk[w].pc = "finalize"
    /\ IF res[g] = "RELEASED" THEN Throw(w) /\ UNCHANGED <<res, att>>
       ELSE /\ res' = [res EXCEPT ![g] = "COMMITTED"]
            /\ IF att[g] \in {"PENDING", "WAITING"}
               THEN att' = [att EXCEPT ![g] = "WAITING"] /\ WooGo(w, "sent") /\ UNCHANGED <<jobVars, lease>>
               ELSE Throw(w) /\ UNCHANGED att
    /\ UNCHANGED <<rec, idx, mark, ord, wooMsg, agreed, wooFaults, lapses>>

MarkMessageSent(w) ==
    LET g == wk[w].g IN
    /\ wk[w].pc = "sent"
    /\ rec' = IF rec[g].st = "DETECTED" THEN [rec EXCEPT ![g].st = "MESSAGE_SENT"] ELSE rec
    /\ Done(w)
    /\ UNCHANGED <<idx, mark, ord, outreachVars, agreed, wooFaults, lapses>>

\* compensateProviderError: the credit goes back, the attempt is closed.
CompensateProviderError(w) ==
    LET g == wk[w].g IN
    /\ wk[w].pc = "failed"
    /\ res' = [res EXCEPT ![g] = IF @ = "RESERVED" THEN "RELEASED" ELSE @]
    /\ att' = IF att[g] \in {"PENDING", "CANCELLED"} THEN [att EXCEPT ![g] = "FAILED"] ELSE att
    /\ Throw(w)
    /\ UNCHANGED <<rec, idx, mark, ord, wooMsg, agreed, wooFaults, lapses>>

(***************************************************************************)
(* The world around it.                                                    *)
(***************************************************************************)
CaptureEvent(kind, at) ==
    /\ \E e \in Events :
          /\ evt[e].st = "none" /\ \A d \in Events : evt[d].st = "none" => e <= d
          /\ evt' = [evt EXCEPT ![e] = [kind |-> kind, at |-> at, st |-> "queued"]]
    /\ UNCHANGED <<rec, redisVars, outreachVars, init, lease, wk, agreed, wooFaults, lapses>>

\* A call fails or the worker dies between two steps.
WooMishap(w) ==
    /\ wk[w].pc # "idle" /\ wooFaults < WooFaults /\ wooFaults' = wooFaults + 1
    /\ Throw(w)
    /\ UNCHANGED <<rec, idx, mark, ord, outreachVars, agreed, lapses>>

\* The lease lapses under a worker that goes on.
LeaseLost ==
    /\ lease # NoLease /\ wooFaults < WooFaults
    /\ lease' = NoLease /\ wooFaults' = wooFaults + 1 /\ lapses' = lapses + 1
    /\ UNCHANGED <<evt, rec, redisVars, outreachVars, init, wk, agreed>>

CustomerStops ==
    /\ agreed /\ wooFaults < WooFaults /\ agreed' = FALSE /\ wooFaults' = wooFaults + 1
    /\ UNCHANGED <<evt, rec, redisVars, outreachVars, init, lease, wk, lapses>>

\* The expiry sweep closes a recovery and its unsent attempt.
ExpireRecovery(g) ==
    /\ rec[g].st \in Live /\ wooFaults < WooFaults /\ wooFaults' = wooFaults + 1
    /\ rec' = [rec EXCEPT ![g].st = "EXPIRED"]
    /\ att' = IF att[g] = "PENDING" THEN [att EXCEPT ![g] = "CANCELLED"] ELSE att
    /\ UNCHANGED <<evt, redisVars, wooMsg, res, init, lease, wk, agreed, lapses>>

WooStep(w) ==
    \/ RefuseCheckout(w) \/ AcceptCheckout(w) \/ CloseForResumption(w) \/ RefusePlacement(w) \/ PlaceCandidate(w)
    \/ WriteWatermark(w) \/ SettleResumed(w) \/ ReleaseReservedCredit(w)
    \/ ObserveOrder(w) \/ DropCandidate(w) \/ TransitionRecovery(w)
    \/ EvaluateMatured(w) \/ InsertRecovery(w) \/ ClearMatured(w) \/ EnqueueInitial(w) \/ QueueInitial(w)
    \/ ProcessInitial(w) \/ ReserveCredit(w) \/ GuardAgain(w) \/ PrepareInitial(w) \/ AdmitWooSend(w)
    \/ CallWooProvider(w) \/ FinalizeConfirmed(w) \/ MarkMessageSent(w) \/ CompensateProviderError(w)

WooNext ==
    \/ \E kind \in {"full", "empty", "placed", "paid"}, at \in Seconds : CaptureEvent(kind, at)
    \/ \E w \in WooWorkers :
          \/ \E e \in Events : TakeEvent(w, e)
          \/ \E g \in Gens : TakeCandidate(w, g) \/ TakeInitial(w, g)
          \/ WooStep(w) \/ WooMishap(w)
    \/ LeaseLost \/ CustomerStops \/ \E g \in Gens : ExpireRecovery(g)

\* Workers poll their queues and the lease, and every waiting job is taken in the end.
WooFairness ==
    /\ \A w \in WooWorkers : SF_wooVars(WooStep(w))
    /\ \A e \in Events : SF_wooVars(\E w \in WooWorkers : TakeEvent(w, e))

WooSpec == WooInit /\ [][WooNext]_wooVars /\ WooFairness

(***************************************************************************)
(* Properties.                                                             *)
(***************************************************************************)
(* An acknowledged order event leaves no live recovery behind, although a  *)
(* candidate may be maturing, or a recovery be inserted, while the order   *)
(* is reconciled (evidence first, an active job refuses to be cancelled),  *)
(* and one lease may be lost; with a second one, a worker that places an   *)
(* older candidate can take the index away from the job that inserts.      *)
OrderEndsWooRecovery ==
    lapses <= 1 /\ (\E e \in Events : evt[e].kind \in {"placed", "paid"} /\ evt[e].st = "done")
        => \A g \in Gens : rec[g].st \notin Live

(* A recovery is never admitted on a basket that an accepted later checkout*)
(* event has replaced, as long as no lease was lost: the watermark, written*)
(* last, and the untouchable active job keep the two apart.                *)
AdmittedIsNewest ==
    [][\A g \in Gens, e \in Events :
          lapses = 0 /\ rec[g].st = "none" /\ rec'[g].st = "DETECTED" /\ evt[e].kind \in {"full", "empty"} /\ evt[e].st = "done"
            => evt[e].at <= rec'[g].at]_wooVars

(* A recovery that an order, a resumption or the expiry has closed is not  *)
(* sent, although the dispatch looked at it under a lease it then lost.    *)
ClosedIsNotPermitted ==
    [][\A g \in Gens : rec[g].st # "DETECTED" /\ wooMsg[g].st # "PERMITTED" => wooMsg'[g].st # "PERMITTED"]_wooVars

(* The credit of a message that reached the customer is never given back,  *)
(* whatever became of the provider's answer and of the recovery.           *)
DeliveredIsNotReturned == \A g \in Gens : wooMsg[g].wire => res[g] # "RELEASED"

(* Once the settlement of a resumed recovery starts, its attempt and its   *)
(* credit are settled in the end, through errors, retries and lost leases, *)
(* unless the provider's outcome is unknown, the event was refused or has  *)
(* used its attempts, or the next generation was admitted in between.      *)
(* The last generation of an instance has no successor, is never resumed.  *)
ResumedIsSettled ==
    \A g \in Gens \ {MaxGen} : (\E w \in WooWorkers : wk[w].pc = "settle" /\ wk[w].prev = g)
        ~> \/ att[g] # "PENDING" /\ res[g] # "RESERVED"
           \/ wooMsg[g].st \in {"PERMITTED", "SENT"} \/ LatestGen > g
           \/ \E e \in Events : e = rec[g].by /\ evt[e].st \in {"refused", "failed"}

\* A message goes out for the current abandonment only: none is permitted once an order or a later visit has closed the
\* recovery, and a recovery is admitted from the newest activity (the checkout lease's sections).
RecoveryIsCurrent == ClosedIsNotPermitted /\ AdmittedIsNewest
====
