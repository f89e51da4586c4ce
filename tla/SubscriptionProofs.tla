------------------------- MODULE SubscriptionProofs -------------------------
(***************************************************************************)
(* Proofs about the projection of a shop's Shopify subscription: job, scan *)
(* and events, whoever of them read the provider first, serve an active    *)
(* row from an open period of its plan, and keep the promise that          *)
(* EntitlementPeriods makes to the credit accounts.                        *)
(***************************************************************************)
EXTENDS ShopifySubscription, TLAPS

Statuses == {"NO_CONTRACT", "ACTIVE", "FROZEN", "SYNC_ERROR", "STUCK", "UNMAPPED"}
Numbers == 0 .. MaxCycle
Announcements == SyncPlans \cup {"none", "cancel"}
States == {"none", "OTHER", "FROZEN", "UNFROZEN", "CANCELED"}
Procs == {"job", "scan"}
Steps == {"idle", "read", "load", "order", "life", "apply", "cycle", "progress", "reconstruct"}
Kinds == {"none", "reinstall", "initial-activation", "cycle-discovery", "rollover", "established-plan-change",
          "frozen-reconciliation"}

Row == [st : Statuses, plan : Mapped \cup {"none"}, per : Numbers, cyc : Numbers, pend : Announcements,
        eff : Numbers, next : Instants, ev : Nat]
Answer == [plan : SyncPlans \cup {"none"}, cyc : Numbers, pend : Announcements, ok : BOOLEAN, ev : Nat,
           state : States]
ProcRow == [pc : Steps, kind : Kinds, exp : Row, snap : Answer]
ProvRow == [plan : SyncPlans \cup {"none"}, cyc : Numbers, phase : {"early", "drain", "over"}, pend : Announcements,
            frozen : BOOLEAN, ev : Nat, state : States]
Plans == Mapped \cup {"none", "closed"}

\* The provers treat records over intervals badly; only these facts matter.
LEMMA Ranges ==
    /\ Numbers \subseteq Nat /\ 0 \in Numbers /\ Cycles \subseteq Numbers /\ 0 \notin Cycles
    /\ \A n \in Numbers : n # 0 => n \in Cycles
    /\ \A n \in Numbers : n < MaxCycle => n + 1 \in Numbers
    /\ 1 \in Cycles /\ MaxCycle \in Nat
BY SubscriptionAssumption DEF Numbers, Cycles

LEMMA InstantsAre ==
    /\ Never \in Instants
    /\ \A k \in Cycles : <<"pre", k>> \in Instants /\ <<"end", k>> \in Instants
    /\ \A g \in 1 .. Retries : <<"retry", g>> \in Instants
BY DEF Instants

\* Three instants are enough for two processes and a newcomer.
LEMMA FreshIs == \A p : Fresh(p) \in Instants
<1> TAKE p
<1> DEFINE Free(g) == \A q \in {"job", "scan"} \ {p} : proc[q].exp.next # <<"retry", g>>
<1>1. \E g \in 1 .. Retries : Free(g)
  <2>1. {1, 2, 3} \subseteq 1 .. Retries
    BY SubscriptionAssumption
  <2>2. \E g \in {1, 2, 3} : proc["job"].exp.next # <<"retry", g>> /\ proc["scan"].exp.next # <<"retry", g>>
    OBVIOUS
  <2>3. PICK g \in {1, 2, 3} : proc["job"].exp.next # <<"retry", g>> /\ proc["scan"].exp.next # <<"retry", g>>
    BY <2>2
  <2>4. Free(g)
    BY <2>3
  <2>5. QED
    BY <2>1, <2>4
<1>2. (CHOOSE g \in 1 .. Retries : Free(g)) \in 1 .. Retries
  BY <1>1
<1>3. Fresh(p) = <<"retry", CHOOSE g \in 1 .. Retries : Free(g)>>
  BY DEF Fresh
<1> HIDE DEF Free
<1>4. QED
  BY <1>2, <1>3, InstantsAre

LEMMA BoundariesAre ==
    \A k \in Cycles : /\ \A p : DrainOf(p, k) \in Instants
                      /\ NextBoundary(k) \in Instants
BY FreshIs, InstantsAre DEF DrainOf, NextBoundary

-----------------------------------------------------------------------------
(* What is written to the row.                                             *)

\* A row the next one may be: well formed, no event of it is forgotten.
Onward(r) == r \in Row /\ r.ev >= sub.ev /\ r.ev <= prov.ev
\* It is served as before, or no longer.
Calm(r) ==
    /\ Onward(r) /\ r.per = sub.per /\ r.cyc = sub.cyc
    /\ r.plan \in {sub.plan, "none"} /\ (r.st = "ACTIVE" => r.plan # "none")
Left(r) == Onward(r) /\ r.per = 0 /\ (r.st = "ACTIVE" => r.plan # "none")
ServedFrom(r, k, q) == Onward(r) /\ r.per = k /\ r.cyc = k /\ r.plan = q

CanServe(k, q) == k \in Cycles /\ q \in Mapped /\ period[k] \in {"none", q}

\* What a step does to the row and the periods: nothing to the service; the
\* period is left; a period is attached, whose predecessor stays as it is; or
\* the predecessor is closed in the same step.
CalmStep == Calm(sub') /\ UNCHANGED period
LeavingStep ==
    /\ Left(sub')
    /\ \/ UNCHANGED period
       \/ sub.per # 0 /\ period' = [period EXCEPT ![sub.per] = "closed"]
ServingStep ==
    \E k \in Cycles, q \in Mapped :
        /\ CanServe(k, q) /\ ServedFrom(sub', k, q)
        /\ \/ period' = [period EXCEPT ![k] = q]
           \/ /\ sub.per \in Cycles \ {k}
              /\ period' = [i \in Cycles |-> IF i = sub.per THEN "closed" ELSE IF i = k THEN q ELSE period[i]]
RowStep == CalmStep \/ LeavingStep \/ ServingStep

(* The inductive invariant.                                                *)

\* A row's period is open, of its plan, and of the cycle it shows, whatever
\* the status: a frozen row is served again from the same period.
ServedFine ==
    /\ sub.per # 0 => /\ sub.per = sub.cyc /\ period[sub.per] \in Mapped
                      /\ sub.plan # "none" => period[sub.per] = sub.plan
    /\ sub.st = "ACTIVE" => sub.plan # "none"

AnswerFine(s) ==
    s \in Answer /\ (s.plan = "none" => s.cyc = 0) /\ s.ev <= prov.ev

ProcsFine ==
    /\ proc \in [Procs -> ProcRow]
    /\ \A p \in Procs : AnswerFine(proc[p].snap)
    /\ proc["job"].kind = "rollover" => proc["job"].exp.per # 0
    /\ proc["job"].kind = "established-plan-change" => proc["job"].exp.eff # 0
    /\ proc["scan"].pc = "cycle" =>
          /\ proc["scan"].snap.plan = proc["scan"].exp.plan /\ proc["scan"].snap.plan # "none"
          /\ proc["scan"].snap.cyc = proc["scan"].exp.cyc /\ proc["scan"].snap.cyc # 0

\* An event the provider still owes: the end of a freeze, an announced end.
Owed(b) == IF b THEN 1 ELSE 0
ProvFine ==
    /\ prov \in ProvRow
    /\ prov.ev + Owed(prov.frozen) + Owed(prov.pend = "cancel") <= 2 * moves + 1
    /\ prov.plan = "none" => prov.pend = "none" /\ ~prov.frozen
    /\ prov.plan # "none" => prov.cyc # 0

RowFine == sub \in Row /\ sub.ev <= prov.ev /\ period \in [Cycles -> Plans]
RestFine ==
    /\ shop \in [st : {"ACTIVE", "UNINSTALLED"}, back : BOOLEAN, onboarded : BOOLEAN]
    /\ syncJob \in {"none", "queued", "taken"} /\ moves \in 0 .. SyncMoves

SyInv == RowFine /\ ServedFine /\ ProcsFine /\ ProvFine /\ RestFine

\* What the operators below are used under.
Stored == RowFine /\ ServedFine /\ prov.ev \in Nat

-----------------------------------------------------------------------------
(* The operators on rows.                                                  *)

LEMMA CalmSub == ASSUME Stored PROVE Calm(sub)
<1>1. sub.ev \in Nat
  BY DEF Stored, RowFine, Row
<1>2. QED
  BY <1>1 DEF Stored, RowFine, ServedFine, Calm, Onward

LEMMA CalmOps ==
    ASSUME Stored, NEW r, Calm(r)
    PROVE  /\ \A t \in Instants : Calm([r EXCEPT !.next = t])
           /\ \A code \in Statuses \ {"ACTIVE"} : Calm(Failed(r, code))
           /\ Calm(Recoded(r)) /\ Calm(Abandoned(r))
           /\ \A s \in Answer : Calm(PendingOf(r, s))
           /\ \A s \in Answer : s.ev >= sub.ev /\ s.ev <= prov.ev => Calm(Noted(r, s))
<1>0. r \in Row /\ r.ev \in Nat /\ sub.ev \in Nat /\ prov.ev \in Nat
  BY DEF Stored, RowFine, Row, Calm, Onward
<1>1. ASSUME NEW t \in Instants PROVE Calm([r EXCEPT !.next = t])
  BY <1>0 DEF Row, Calm, Onward
<1>2. ASSUME NEW code \in Statuses \ {"ACTIVE"} PROVE Calm(Failed(r, code))
  BY <1>0 DEF Row, Calm, Onward, Failed, Statuses
<1>3. Calm(Recoded(r))
  BY <1>0 DEF Row, Calm, Onward, Recoded, Statuses
<1>4. Calm(Abandoned(r))
  <2>1. [r EXCEPT !.pend = "none", !.eff = 0, !.next = Never] \in Row
    BY <1>0, Ranges, InstantsAre DEF Row, Announcements
  <2>2. QED
    BY <1>0, <2>1 DEF Row, Calm, Onward, Abandoned
<1>5. ASSUME NEW s \in Answer PROVE Calm(PendingOf(r, s))
  <2>1. PendingOf(r, s) \in Row
    BY <1>0, Ranges DEF Row, Answer, PendingOf
  <2>2. QED
    BY <1>0, <2>1 DEF Row, Calm, Onward, PendingOf
<1>6. ASSUME NEW s \in Answer, s.ev >= sub.ev, s.ev <= prov.ev PROVE Calm(Noted(r, s))
  BY <1>0, <1>6 DEF Row, Calm, Onward, Noted, Answer
<1>7. QED
  BY <1>1, <1>2, <1>3, <1>4, <1>5, <1>6

\* The same for a row that is being served from another period.
LEMMA ServedOps ==
    ASSUME Stored, NEW r, NEW k, NEW q, ServedFrom(r, k, q)
    PROVE  /\ \A t \in Instants : ServedFrom([r EXCEPT !.next = t], k, q)
           /\ \A s \in Answer : ServedFrom(PendingOf(r, s), k, q)
           /\ \A s \in Answer : s.ev >= sub.ev /\ s.ev <= prov.ev => ServedFrom(Noted(r, s), k, q)
<1>0. r \in Row /\ r.ev \in Nat /\ sub.ev \in Nat /\ prov.ev \in Nat
  BY DEF Stored, RowFine, Row, ServedFrom, Onward
<1>1. ASSUME NEW t \in Instants PROVE ServedFrom([r EXCEPT !.next = t], k, q)
  BY <1>0 DEF Row, ServedFrom, Onward
<1>2. ASSUME NEW s \in Answer PROVE ServedFrom(PendingOf(r, s), k, q)
  <2>1. PendingOf(r, s) \in Row
    BY <1>0, Ranges DEF Row, Answer, PendingOf
  <2>2. QED
    BY <1>0, <2>1 DEF Row, ServedFrom, Onward, PendingOf
<1>3. ASSUME NEW s \in Answer, s.ev >= sub.ev, s.ev <= prov.ev PROVE ServedFrom(Noted(r, s), k, q)
  BY <1>0, <1>3 DEF Row, ServedFrom, Onward, Noted, Answer
<1>4. QED
  BY <1>1, <1>2, <1>3

\* The two operators that attach a row to the provider's cycle.
LEMMA ServesOps ==
    ASSUME Stored, NEW s \in Answer, s.cyc \in Cycles, NEW r, r \in Row, r.ev = sub.ev, NEW next \in Instants
    PROVE  /\ s.plan \in Mapped => ServedFrom(Serves(r, s, next), s.cyc, s.plan)
           /\ Serves(r, s, next).next = next
<1> DEFINE pend == IF s.pend = "cancel" THEN "cancel" ELSE "none"
           new == Serves(r, s, next)
<1>1. pend \in Announcements /\ 0 \in Numbers /\ s.cyc \in Numbers /\ sub.ev \in Nat /\ sub.ev <= prov.ev
  BY Ranges DEF Announcements, Stored, RowFine, Row
<1>2. new = [r EXCEPT !.st = "ACTIVE", !.plan = s.plan, !.per = s.cyc, !.cyc = s.cyc, !.next = next,
                      !.pend = pend, !.eff = 0]
  BY DEF Serves
<1>3. /\ new.st = "ACTIVE" /\ new.plan = s.plan /\ new.per = s.cyc /\ new.cyc = s.cyc /\ new.next = next
      /\ new.ev = sub.ev
  BY <1>2 DEF Row
<1>4. s.plan \in Mapped => new \in Row
  BY <1>1, <1>2 DEF Row, Statuses
<1>5. QED
  BY <1>1, <1>3, <1>4 DEF ServedFrom, Onward

LEMMA RolledOps ==
    ASSUME Stored, NEW s \in Answer, s.cyc \in Cycles, NEW r, r \in Row, r.ev = sub.ev, r.plan = s.plan, NEW p
    PROVE  /\ ServedFrom(RolledOver(p, r, s), s.cyc, s.plan)
           /\ RolledOver(p, r, s).next \in Instants
<1>1. DrainOf(p, s.cyc) \in Instants
  BY BoundariesAre
<1> DEFINE pend == IF r.pend \in SyncPlans THEN r.pend ELSE IF s.pend = "cancel" THEN "cancel" ELSE "none"
           new == RolledOver(p, r, s)
<1>2. pend \in Announcements /\ s.cyc \in Numbers /\ sub.ev \in Nat /\ sub.ev <= prov.ev
  BY Ranges DEF Announcements, Stored, RowFine, Row
<1>3. new = [r EXCEPT !.st = "ACTIVE", !.per = s.cyc, !.cyc = s.cyc, !.next = DrainOf(p, s.cyc), !.pend = pend]
  BY DEF RolledOver
<1>4. /\ new.per = s.cyc /\ new.cyc = s.cyc /\ new.next = DrainOf(p, s.cyc) /\ new.plan = s.plan
      /\ new.ev = sub.ev
  BY <1>3 DEF Row
<1>5. new \in Row
  BY <1>1, <1>2, <1>3 DEF Row, Statuses
<1>6. QED
  BY <1>1, <1>2, <1>4, <1>5 DEF ServedFrom, Onward

-----------------------------------------------------------------------------
(* The operators on periods.                                               *)

LEMMA OpenedIs ==
    ASSUME Stored, NEW s, CanServe(s.cyc, s.plan)
    PROVE  Opened(s) = [period EXCEPT ![s.cyc] = s.plan]
<1>0. period \in [Cycles -> Plans]
  BY DEF Stored, RowFine
<1>1. CASE period[s.cyc] = "none"
  BY <1>1 DEF Opened
<1>2. CASE period[s.cyc] # "none"
  <2>1. period[s.cyc] = s.plan
    BY <1>2 DEF CanServe
  <2>2. Opened(s) = period
    BY <1>2 DEF Opened
  <2>3. period = [period EXCEPT ![s.cyc] = s.plan]
    BY <1>0, <2>1
  <2>4. QED
    BY <2>2, <2>3
<1>3. QED
  BY <1>1, <1>2

LEMMA OpenedServes ==
    ASSUME Stored, NEW s, CanServe(s.cyc, s.plan), ServedFrom(sub', s.cyc, s.plan), period' = Opened(s)
    PROVE  RowStep
<1>1. period' = [period EXCEPT ![s.cyc] = s.plan]
  BY OpenedIs
<1>2. ServingStep
  BY <1>1 DEF ServingStep, CanServe
<1>3. QED
  BY <1>2 DEF RowStep

LEMMA CompatibleServes ==
    ASSUME NEW s, s.plan \in Mapped, s.cyc \in Cycles, Compatible(s.cyc, s.plan)
    PROVE  CanServe(s.cyc, s.plan)
BY DEF Compatible, CanServe

LEMMA MovedServes ==
    ASSUME Stored, NEW s, CanServe(s.cyc, s.plan), s.cyc # sub.per,
           ServedFrom(sub', s.cyc, s.plan), period' = Moved(s)
    PROVE  RowStep
<1>0. /\ period \in [Cycles -> Plans] /\ Opened(s) = [period EXCEPT ![s.cyc] = s.plan]
      /\ s.cyc \in Cycles /\ sub.per \in Numbers
  BY OpenedIs DEF Stored, RowFine, Row, CanServe
<1>1. CASE sub.per = 0
  <2>1. period' = [period EXCEPT ![s.cyc] = s.plan]
    BY <1>0, <1>1, Ranges DEF Moved
  <2>2. QED
    BY <1>0, <2>1 DEF RowStep, ServingStep, CanServe
<1>2. CASE sub.per # 0
  <2>1. sub.per \in Cycles \ {s.cyc}
    BY <1>0, <1>2, Ranges
  <2>2. period' = [i \in Cycles |-> IF i = sub.per THEN "closed" ELSE IF i = s.cyc THEN s.plan ELSE period[i]]
    BY <1>0 DEF Moved
  <2>3. QED
    BY <1>0, <2>1, <2>2 DEF RowStep, ServingStep, CanServe
<1>3. QED
  BY <1>1, <1>2

\* A rollover leads to another period than the one that is closed.
LEMMA RolloverLeads ==
    ASSUME Stored, NEW s, AnswerFine(s), NEW r, r \in Row, r.plan = sub.plan, r.per = sub.per, r.cyc = sub.cyc,
           NEW plan, SamePlanRollover(r, s, plan) = "transitioned"
    PROVE  /\ s.cyc \in Cycles /\ s.cyc # sub.per /\ s.plan = sub.plan
           /\ CanServe(s.cyc, s.plan)
<1>1. /\ s.cyc # 0 /\ s.plan = plan /\ r.plan = plan /\ r.per # 0 /\ s.cyc # r.cyc /\ Movable(s)
  BY DEF SamePlanRollover
<1>2. s.cyc \in Cycles /\ s.plan # "none"
  BY <1>1, Ranges DEF AnswerFine, Answer
<1>3. s.plan \in Mapped
  BY <1>1, <1>2 DEF Row
<1>4. sub.per = sub.cyc
  BY <1>1 DEF Stored, ServedFine
<1>5. QED
  BY <1>1, <1>2, <1>3, <1>4, CompatibleServes DEF Movable

LEMMA TransitionLeads ==
    ASSUME Stored, NEW s, AnswerFine(s), NEW r, r \in Row, r.plan = sub.plan, r.per = sub.per, r.cyc = sub.cyc,
           NEW plan, PlanTransition(r, s, plan) = "transitioned"
    PROVE  s.cyc \in Cycles /\ s.cyc # sub.per /\ CanServe(s.cyc, s.plan)
<1>1. s.plan \in Mapped /\ s.cyc # 0 /\ ~(s.cyc <= r.cyc) /\ Movable(s)
  BY DEF PlanTransition
<1>2. s.cyc \in Cycles /\ s.cyc \in Nat
  BY <1>1, Ranges DEF AnswerFine, Answer
<1>3. sub.per = 0 \/ sub.per = sub.cyc
  BY DEF Stored, ServedFine
<1>4. s.cyc # sub.per
  BY <1>1, <1>2, <1>3, Ranges DEF Row
<1>5. QED
  BY <1>1, <1>2, <1>4, CompatibleServes DEF Movable

-----------------------------------------------------------------------------
(* The writes that leave the service alone.                                *)

LEMMA RetryCalm == ASSUME Stored, NEW r, Calm(r), NEW p, Retry(p, r) PROVE Calm(sub') /\ syncJob' = "queued"
BY CalmOps, FreshIs DEF Retry

LEMMA SaveIs == ASSUME RestFine, NEW r, NEW t, Save(r, t) PROVE sub' = r /\ syncJob' \in {"none", "queued", "taken"}
BY DEF Save, Added

LEMMA KeepCalm == ASSUME Stored, Keep \/ Republish PROVE Calm(sub')
BY CalmSub DEF Keep, Republish

LEMMA JobTypes ==
    ASSUME RestFine
    PROVE  /\ Keep \/ Republish => syncJob' \in {"none", "queued", "taken"}
           /\ \A r : Write(r) => syncJob' \in {"none", "queued", "taken"}
BY DEF RestFine, Keep, Republish, Added, Write

-----------------------------------------------------------------------------
(* The operations, one by one.                                             *)

JobOk == syncJob' \in {"none", "queued", "taken"}
ShopOk == shop' \in [st : {"ACTIVE", "UNINSTALLED"}, back : BOOLEAN, onboarded : BOOLEAN]
\* The row stays as it is served, and its job is there or not.
CalmOk == Calm(sub') /\ JobOk
Written == RowStep /\ JobOk

LEMMA CalmWritten == ASSUME CalmOk, UNCHANGED period PROVE Written
BY DEF CalmOk, Written, RowStep, CalmStep

\* The ways a calm row is written.
LEMMA CalmWrites ==
    ASSUME Stored, RestFine
    PROVE  /\ Keep \/ Republish => CalmOk
           /\ \A r : Calm(r) => /\ \A p : Retry(p, r) => CalmOk
                                /\ \A t : Save(r, t) => CalmOk
                                /\ Write(r) => CalmOk
<1>1. Keep \/ Republish => CalmOk
  BY KeepCalm, JobTypes DEF CalmOk, JobOk
<1>2. ASSUME NEW r, Calm(r), NEW p, Retry(p, r) PROVE CalmOk
  BY <1>2, RetryCalm DEF CalmOk, JobOk
<1>3. ASSUME NEW r, Calm(r), NEW t, Save(r, t) PROVE CalmOk
  BY <1>3, SaveIs DEF CalmOk, JobOk
<1>4. ASSUME NEW r, Calm(r), Write(r) PROVE CalmOk
  BY <1>4, JobTypes DEF CalmOk, JobOk, Write
<1>5. QED
  BY <1>1, <1>2, <1>3, <1>4

LEMMA ThrowsCalm ==
    ASSUME Stored, RestFine, NEW p, Throws(p)
    PROVE  CalmOk /\ UNCHANGED period
<1>1. CASE UNCHANGED sub
  <2>1. JobOk
    BY <1>1 DEF Throws, JobOk, RestFine, MarkSyncError, Retry
  <2>2. Calm(sub')
    BY <1>1, CalmSub
  <2>3. QED
    BY <2>1, <2>2 DEF CalmOk, Throws
<1>2. CASE MarkSyncError
  <2>1. Calm(Recoded(sub))
    BY CalmSub, CalmOps
  <2>2. QED
    BY <1>2, <2>1, CalmWrites DEF MarkSyncError, Throws
<1>3. QED
  BY <1>1, <1>2 DEF Throws

LEMMA ActivationPostponedCalm ==
    ASSUME Stored, RestFine, NEW e, NEW late, ActivationPostponed(e, late)
    PROVE  CalmOk
<1>1. Calm(sub) /\ Calm(Abandoned(sub))
  BY CalmSub, CalmOps
<1>2. QED
  BY <1>1, CalmWrites DEF ActivationPostponed

LEMMA PaidFailureCalm ==
    ASSUME Stored, RestFine, NEW p, NEW e, NEW late, PaidActivationFailure(p, e, late)
    PROVE  CalmOk
<1>1. Calm(sub) /\ Calm([sub EXCEPT !.next = Never])
  BY CalmSub, CalmOps, InstantsAre
<1>2. QED
  BY <1>1, CalmWrites DEF PaidActivationFailure

\* A row is served from the provider's cycle, and saved with an instant.
LEMMA SavedServing ==
    ASSUME Stored, RestFine, NEW s, AnswerFine(s), s.plan \in Mapped, s.cyc # 0, Compatible(s.cyc, s.plan),
           NEW p, NEW t, Save(Serves(sub, s, DrainOf(p, s.cyc)), t), period' = Opened(s)
    PROVE  Written
<1>0. s \in Answer /\ s.cyc \in Cycles /\ sub \in Row
  BY Ranges DEF AnswerFine, Answer, Stored, RowFine
<1>1. ServedFrom(Serves(sub, s, DrainOf(p, s.cyc)), s.cyc, s.plan)
  BY <1>0, ServesOps, BoundariesAre
<1>2. ServedFrom(sub', s.cyc, s.plan) /\ JobOk
  BY <1>1, SaveIs DEF JobOk
<1>3. RowStep
  BY <1>0, <1>2, CompatibleServes, OpenedServes
<1>4. QED
  BY <1>2, <1>3 DEF Written

LEMMA StuckCalm ==
    ASSUME Stored, RestFine, NEW p, NEW code \in Statuses \ {"ACTIVE"}, Retry(p, Failed(sub, code))
    PROVE  CalmOk
BY CalmSub, CalmOps, CalmWrites

LEMMA FreeActivates ==
    ASSUME Stored, RestFine, NEW e, NEW s, AnswerFine(s), s.plan = "free", CompleteVerifiedFree(e, s)
    PROVE  Written /\ ShopOk
<1>1. ShopOk
  BY DEF CompleteVerifiedFree, ShopOk, RestFine
<1>2. CASE ~CasPending(e) \/ s.cyc = 0
  BY <1>1, <1>2, CalmSub, CalmWrites, CalmWritten DEF CompleteVerifiedFree
<1>3. CASE CasPending(e) /\ s.cyc # 0 /\ ~Compatible(s.cyc, "free")
  BY <1>1, <1>3, StuckCalm, CalmWritten DEF CompleteVerifiedFree, Statuses
<1>4. CASE CasPending(e) /\ s.cyc # 0 /\ Compatible(s.cyc, "free")
  BY <1>1, <1>4, SavedServing DEF CompleteVerifiedFree, Mapped
<1>5. QED
  BY <1>2, <1>3, <1>4

LEMMA PaidActivates ==
    ASSUME Stored, RestFine, NEW p, NEW e, NEW s, AnswerFine(s), s.plan = "paid", NEW late,
           CompleteVerifiedPaid(p, e, s, late)
    PROVE  Written /\ ShopOk
<1>1. ShopOk
  BY DEF CompleteVerifiedPaid, ShopOk, RestFine
<1>2. CASE s.cyc = 0 \/ ~s.ok
  BY <1>1, <1>2, PaidFailureCalm, CalmWritten DEF CompleteVerifiedPaid
<1>3. CASE ~(s.cyc = 0 \/ ~s.ok) /\ ~CasPending(e)
  BY <1>1, <1>3, CalmWrites, CalmWritten DEF CompleteVerifiedPaid
<1>4. CASE ~(s.cyc = 0 \/ ~s.ok) /\ CasPending(e) /\ ~Compatible(s.cyc, "paid")
  BY <1>1, <1>4, ThrowsCalm, CalmWritten DEF CompleteVerifiedPaid
<1>5. CASE ~(s.cyc = 0 \/ ~s.ok) /\ CasPending(e) /\ Compatible(s.cyc, "paid")
  BY <1>1, <1>5, SavedServing DEF CompleteVerifiedPaid, Mapped
<1>6. QED
  BY <1>2, <1>3, <1>4, <1>5

\* What a projection of the provider's answer makes of the row.
Observed(s) ==
    [PendingOf(sub, s) EXCEPT !.st = ObservedStatus(s), !.plan = IF Usable(s) THEN s.plan ELSE "none", !.cyc = s.cyc]

LEMMA ObservedIs ==
    ASSUME Stored, NEW s \in Answer
    PROVE  /\ Observed(s) \in Row /\ Observed(s).ev = sub.ev /\ Observed(s).cyc = s.cyc
           /\ Observed(s).st = ObservedStatus(s)
           /\ Observed(s).plan = IF Usable(s) THEN s.plan ELSE "none"
           /\ ObservedStatus(s) \in Statuses
           /\ ObservedStatus(s) = "ACTIVE" <=> Usable(s) /\ Metered(s)
           /\ Usable(s) <=> s.plan \in Mapped
<1> DEFINE r == PendingOf(sub, s)
<1>1. Calm(r)
  BY CalmSub, CalmOps
<1>2. r \in Row /\ r.ev = sub.ev
  <2>1. r.ev = sub.ev
    BY DEF PendingOf, Stored, RowFine, Row
  <2>2. QED
    BY <1>1, <2>1 DEF Calm, Onward
<1>3. /\ ObservedStatus(s) \in Statuses
      /\ ObservedStatus(s) = "ACTIVE" <=> Usable(s) /\ Metered(s)
      /\ Usable(s) <=> s.plan \in Mapped
  BY DEF ObservedStatus, Statuses, Usable
<1> HIDE DEF r
<1>4. Observed(s) = [r EXCEPT !.st = ObservedStatus(s), !.plan = IF Usable(s) THEN s.plan ELSE "none", !.cyc = s.cyc]
  BY DEF Observed, r
<1> DEFINE q == IF Usable(s) THEN s.plan ELSE "none"
<1>5. q \in Mapped \cup {"none"} /\ s.cyc \in Numbers
  BY <1>3 DEF Answer
<1>6. Observed(s) = [r EXCEPT !.st = ObservedStatus(s), !.plan = q, !.cyc = s.cyc]
  BY <1>4
<1> HIDE DEF q
<1>7. Observed(s) \in Row /\ Observed(s).ev = sub.ev /\ Observed(s).cyc = s.cyc
      /\ Observed(s).st = ObservedStatus(s) /\ Observed(s).plan = q
  BY <1>2, <1>3, <1>5, <1>6 DEF Row
<1>8. QED
  BY <1>3, <1>7 DEF q

\* Only the period of the row, and its instant, are others.
Attached(w, r, k) ==
    w \in Row /\ w.per = k /\ w.st = r.st /\ w.plan = r.plan /\ w.cyc = r.cyc /\ w.ev = r.ev

LEMMA PeriodSet ==
    ASSUME NEW r \in Row, NEW k \in Numbers, NEW t \in Instants
    PROVE  Attached([r EXCEPT !.per = k], r, k) /\ Attached([r EXCEPT !.per = k, !.next = t], r, k)
<1>1. Attached([r EXCEPT !.per = k], r, k)
  BY DEF Row, Attached
<1>2. Attached([r EXCEPT !.per = k, !.next = t], r, k)
  BY DEF Row, Attached
<1>3. QED
  BY <1>1, <1>2

LEMMA ObservedOps ==
    ASSUME Stored, NEW s \in Answer, NEW t \in Instants
    PROVE  /\ Left([Observed(s) EXCEPT !.per = 0])
           /\ Left([Observed(s) EXCEPT !.per = 0, !.next = t])
           /\ s.cyc \in Cycles /\ ObservedStatus(s) = "ACTIVE" =>
                /\ ServedFrom([Observed(s) EXCEPT !.per = s.cyc], s.cyc, s.plan)
                /\ ServedFrom([Observed(s) EXCEPT !.per = s.cyc, !.next = t], s.cyc, s.plan)
<1> DEFINE o == Observed(s)
<1>1. /\ o \in Row /\ o.ev = sub.ev /\ o.cyc = s.cyc
      /\ o.st = "ACTIVE" => s.plan \in Mapped /\ o.plan = s.plan
  BY ObservedIs
<1>2. sub.ev \in Nat /\ sub.ev <= prov.ev /\ 0 \in Numbers /\ s.cyc \in Numbers
  BY Ranges DEF Stored, RowFine, Row, Answer
<1>3. o.st = ObservedStatus(s)
  BY ObservedIs
<1> HIDE DEF o
<1>4. Left([o EXCEPT !.per = 0]) /\ Left([o EXCEPT !.per = 0, !.next = t])
  <2>1. "none" \notin Mapped
    BY DEF Mapped
  <2>2. Attached([o EXCEPT !.per = 0], o, 0) /\ Attached([o EXCEPT !.per = 0, !.next = t], o, 0)
    BY <1>1, <1>2, PeriodSet
  <2>3. ASSUME NEW w, Attached(w, o, 0) PROVE Left(w)
    BY <1>1, <1>2, <2>1, <2>3 DEF Left, Onward, Attached
  <2>4. QED
    BY <2>2, <2>3
<1>5. ASSUME s.cyc \in Cycles, ObservedStatus(s) = "ACTIVE"
      PROVE  /\ ServedFrom([o EXCEPT !.per = s.cyc], s.cyc, s.plan)
             /\ ServedFrom([o EXCEPT !.per = s.cyc, !.next = t], s.cyc, s.plan)
  <2>1. Attached([o EXCEPT !.per = s.cyc], o, s.cyc) /\ Attached([o EXCEPT !.per = s.cyc, !.next = t], o, s.cyc)
    BY <1>1, <1>2, PeriodSet
  <2>2. ASSUME NEW w, Attached(w, o, s.cyc) PROVE ServedFrom(w, s.cyc, s.plan)
    BY <1>1, <1>2, <1>3, <1>5, <2>2 DEF ServedFrom, Onward, Attached
  <2>3. QED
    BY <2>1, <2>2
<1>6. QED
  BY <1>4, <1>5 DEF o

LEMMA LeftWritten == ASSUME Left(sub'), UNCHANGED period, JobOk PROVE Written
BY DEF Written, RowStep, LeavingStep

LEMMA OtherPlanApplied ==
    ASSUME Stored, RestFine, NEW e, NEW s, AnswerFine(s), ApplyOtherCurrentPlan(e, s)
    PROVE  Written
<1> DEFINE served == ObservedStatus(s) = "ACTIVE"
           row == [PendingOf(sub, s) EXCEPT !.st = ObservedStatus(s), !.plan = IF Usable(s) THEN s.plan ELSE "none",
                                            !.per = IF served THEN s.cyc ELSE 0, !.cyc = s.cyc, !.next = Never]
<1>0. s \in Answer /\ (s.cyc # 0 => s.cyc \in Cycles) /\ Never \in Instants
  BY Ranges, InstantsAre DEF AnswerFine, Answer
<1>1. row = IF served THEN [Observed(s) EXCEPT !.per = s.cyc, !.next = Never]
            ELSE [Observed(s) EXCEPT !.per = 0, !.next = Never]
  <2>1. CASE served
    BY <2>1 DEF Observed
  <2>2. CASE ~served
    BY <2>2 DEF Observed
  <2>3. QED
    BY <2>1, <2>2
<1>2. CASE ~CasPending(e)
  BY <1>2, CalmWrites, CalmWritten DEF ApplyOtherCurrentPlan
<1>3. CASE CasPending(e) /\ served /\ s.cyc = 0
  BY <1>3, CalmSub, CalmWrites, CalmWritten DEF ApplyOtherCurrentPlan
<1>4. CASE CasPending(e) /\ served /\ s.cyc # 0 /\ ~Compatible(s.cyc, s.plan)
  BY <1>4, StuckCalm, CalmWritten DEF ApplyOtherCurrentPlan, Statuses
<1>5. CASE CasPending(e) /\ served /\ s.cyc # 0 /\ Compatible(s.cyc, s.plan)
  <2>1. Save(row, Never) /\ period' = Opened(s)
    BY <1>5 DEF ApplyOtherCurrentPlan
  <2>2. ServedFrom(row, s.cyc, s.plan)
    BY <1>0, <1>1, <1>5, ObservedOps
  <2>3. s.plan \in Mapped
    BY <1>0, <1>5, ObservedIs
  <2> HIDE DEF row
  <2>4. ServedFrom(sub', s.cyc, s.plan) /\ JobOk
    BY <2>1, <2>2, SaveIs DEF JobOk
  <2>5. QED
    BY <1>0, <1>5, <2>1, <2>3, <2>4, CompatibleServes, OpenedServes DEF Written
<1>6. CASE CasPending(e) /\ ~served
  <2>1. Save(row, Never) /\ UNCHANGED period
    BY <1>6 DEF ApplyOtherCurrentPlan
  <2>2. Left(row)
    BY <1>0, <1>1, <1>6, ObservedOps
  <2> HIDE DEF row
  <2>3. QED
    BY <2>1, <2>2, SaveIs, LeftWritten DEF JobOk
<1>7. QED
  BY <1>2, <1>3, <1>4, <1>5, <1>6

LEMMA InitialActivates ==
    ASSUME Stored, RestFine, NEW p, NEW e, NEW s, AnswerFine(s), NEW late, InitialActivation(p, e, s, late)
    PROVE  Written /\ ShopOk
<1>1. CASE s.plan = "none"
  <2>1. CalmOk /\ UNCHANGED <<period, shop>>
    BY <1>1, ActivationPostponedCalm DEF InitialActivation
  <2>2. QED
    BY <2>1, CalmWritten DEF ShopOk, RestFine
<1>2. CASE s.plan = e.pend /\ s.plan = "free"
  BY <1>2, FreeActivates DEF InitialActivation
<1>3. CASE s.plan = e.pend /\ s.plan = "paid"
  BY <1>3, PaidActivates DEF InitialActivation
<1>4. CASE s.plan # "none" /\ ~(s.plan = e.pend /\ s.plan = "free") /\ ~(s.plan = e.pend /\ s.plan = "paid")
  <2>1. ApplyOtherCurrentPlan(e, s) /\ UNCHANGED shop
    BY <1>4 DEF InitialActivation
  <2>2. QED
    BY <2>1, OtherPlanApplied DEF ShopOk, RestFine
<1>5. QED
  BY <1>1, <1>2, <1>3, <1>4

LEMMA RolloverRetryCalm == ASSUME Stored, RestFine, NEW p, NEW e, RolloverRetry(p, e) PROVE CalmOk
BY CalmSub, CalmWrites DEF RolloverRetry

LEMMA MissingCycleCalm == ASSUME Stored, RestFine, NEW e, MissingCycle(e) PROVE CalmOk
BY CalmSub, CalmWrites DEF MissingCycle

\* A calm row with another instant, as the saves make it.
LEMMA CalmNext ==
    ASSUME Stored, NEW s \in Answer, NEW t \in Instants
    PROVE  /\ Calm(PendingOf(sub, s)) /\ Calm([PendingOf(sub, s) EXCEPT !.next = t])
           /\ Calm([sub EXCEPT !.next = t])
<1>1. Calm(sub) /\ Calm(PendingOf(sub, s))
  BY CalmSub, CalmOps
<1>2. QED
  BY <1>1, CalmOps

LEMMA CurrentCycleCalm ==
    ASSUME Stored, RestFine, NEW e, NEW s, AnswerFine(s), s.cyc # 0, NEW flushed, CurrentCycleTruth(e, s, flushed)
    PROVE  CalmOk
<1>1. s \in Answer /\ NextBoundary(s.cyc) \in Instants
  BY Ranges, BoundariesAre DEF AnswerFine, Answer
<1>2. Calm(PendingOf(sub, s)) /\ Calm([PendingOf(sub, s) EXCEPT !.next = NextBoundary(s.cyc)])
  BY <1>1, CalmNext
<1>3. QED
  BY <1>2, CalmWrites DEF CurrentCycleTruth

LEMMA PreCloseCalm ==
    ASSUME Stored, RestFine, NEW e, e.per # 0, NEW flushed, PreCloseStep(e, flushed)
    PROVE  CalmOk
<1>1. CASE ~CasCycle(e)
  BY <1>1, CalmWrites DEF PreCloseStep
<1>2. CASE CasCycle(e)
  <2>1. e.cyc \in Cycles
    BY <1>2, Ranges DEF CasCycle, Stored, RowFine, ServedFine, Row
  <2>2. Calm(sub) /\ Calm([sub EXCEPT !.next = NextBoundary(e.cyc)])
    BY <2>1, BoundariesAre, CalmSub, CalmOps
  <2>3. QED
    BY <1>2, <2>2, CalmWrites DEF PreCloseStep
<1>3. QED
  BY <1>1, <1>2

\* The row rolls over into the provider's cycle, by job or by scan.
LEMMA RollsOver ==
    ASSUME Stored, RestFine, NEW p, NEW s, AnswerFine(s), NEW plan, SamePlanRollover(sub, s, plan) = "transitioned",
           NEW t, Save(RolledOver(p, sub, s), t), period' = Moved(s)
    PROVE  Written
<1>0. s \in Answer /\ sub \in Row
  BY DEF AnswerFine, Stored, RowFine
<1>1. s.cyc \in Cycles /\ s.cyc # sub.per /\ s.plan = sub.plan /\ CanServe(s.cyc, s.plan)
  BY <1>0, RolloverLeads
<1>2. ServedFrom(RolledOver(p, sub, s), s.cyc, s.plan)
  BY <1>0, <1>1, RolledOps
<1>3. ServedFrom(sub', s.cyc, s.plan) /\ JobOk
  BY <1>2, SaveIs DEF JobOk
<1>4. QED
  BY <1>1, <1>3, MovedServes DEF Written

LEMMA ReconcileRolls ==
    ASSUME Stored, RestFine, NEW e, NEW s, AnswerFine(s), ReconcileRollover(e, s)
    PROVE  Written
<1> DEFINE r == SamePlanRollover(sub, s, e.plan)
<1>1. CASE r = "transitioned"
  <2>1. Save(RolledOver("job", sub, s), DrainOf("job", s.cyc)) /\ period' = Moved(s)
    BY <1>1 DEF ReconcileRollover
  <2>2. QED
    BY <1>1, <2>1, RollsOver
<1>2. CASE r = "unchanged"
  BY <1>2, CalmWrites, CalmWritten DEF ReconcileRollover
<1>3. CASE r \notin {"transitioned", "unchanged"}
  BY <1>3, RolloverRetryCalm, CalmWritten DEF ReconcileRollover
<1>4. QED
  BY <1>1, <1>2, <1>3

LEMMA FreeCycles ==
    ASSUME Stored, RestFine, NEW e, NEW s, AnswerFine(s), FreeCycle(e, s)
    PROVE  Written
<1>1. CASE s.plan # e.plan \/ s.cyc = 0
  BY <1>1, MissingCycleCalm, CalmWritten DEF FreeCycle
<1>2. CASE ~(s.plan # e.plan \/ s.cyc = 0) /\ ~(CasCycle(e) /\ sub.pend = "none")
  BY <1>2, CalmWrites, CalmWritten DEF FreeCycle
<1>3. CASE ~(s.plan # e.plan \/ s.cyc = 0) /\ CasCycle(e) /\ sub.pend = "none" /\ ~Compatible(s.cyc, s.plan)
  BY <1>3, StuckCalm, CalmWritten DEF FreeCycle, Statuses
<1>4. CASE ~(s.plan # e.plan \/ s.cyc = 0) /\ CasCycle(e) /\ sub.pend = "none" /\ Compatible(s.cyc, s.plan)
  <2> DEFINE pend == IF s.pend = "cancel" THEN "cancel" ELSE "none"
             t == DrainOf("job", s.cyc)
             new == [sub EXCEPT !.per = s.cyc, !.cyc = s.cyc, !.next = t, !.pend = pend]
  <2>1. Save(new, t) /\ period' = Opened(s)
    BY <1>4 DEF FreeCycle
  <2>2. /\ s.cyc \in Cycles /\ s.cyc \in Numbers /\ t \in Instants /\ pend \in Announcements
        /\ sub \in Row /\ sub.ev \in Nat /\ sub.ev <= prov.ev
    BY <1>4, Ranges, BoundariesAre DEF AnswerFine, Answer, Stored, RowFine, Row, Announcements
  <2>3. sub.plan = s.plan /\ s.plan \in Mapped
    BY <1>4 DEF CasCycle, Stored, RowFine, ServedFine, Row
  <2> HIDE DEF pend, t
  <2>4. ServedFrom(new, s.cyc, s.plan)
    <3>1. new \in Row
      BY <2>2 DEF Row
    <3>2. new.per = s.cyc /\ new.cyc = s.cyc /\ new.plan = s.plan /\ new.ev = sub.ev
      BY <2>2, <2>3 DEF Row
    <3> HIDE DEF new
    <3>3. QED
      BY <2>2, <3>1, <3>2 DEF ServedFrom, Onward
  <2> HIDE DEF new
  <2>5. ServedFrom(sub', s.cyc, s.plan) /\ JobOk
    BY <2>1, <2>4, SaveIs DEF JobOk
  <2>6. QED
    BY <1>4, <2>1, <2>2, <2>3, <2>5, CompatibleServes, OpenedServes DEF Written
<1>5. QED
  BY <1>1, <1>2, <1>3, <1>4

LEMMA CycleSteps ==
    ASSUME Stored, RestFine, NEW kind, NEW e, NEW s, AnswerFine(s), kind = "rollover" => e.per # 0,
           NEW flushed, CycleStep(kind, e, s, flushed)
    PROVE  Written
<1>1. CASE kind = "rollover" /\ ChangesAtEnd(e, s)
  BY <1>1, CurrentCycleCalm, CalmWritten DEF CycleStep, ChangesAtEnd
<1>2. CASE kind = "rollover" /\ ~ChangesAtEnd(e, s) /\ ~Over(e.cyc)
  BY <1>2, PreCloseCalm, CalmWritten DEF CycleStep
<1>3. CASE kind = "rollover" /\ ~ChangesAtEnd(e, s) /\ Over(e.cyc)
  BY <1>3, RolloverRetryCalm, ReconcileRolls, CalmWritten DEF CycleStep
<1>4. CASE kind # "rollover"
  BY <1>4, FreeCycles DEF CycleStep
<1>5. QED
  BY <1>1, <1>2, <1>3, <1>4

LEMMA PlanRetryCalm == ASSUME Stored, RestFine, NEW e, NEW c \in BOOLEAN, PlanChangeRetry(e, c) PROVE CalmOk
<1>1. Calm(sub) /\ Calm(Recoded(sub)) /\ Calm(Failed(sub, "SYNC_ERROR"))
  BY CalmSub, CalmOps DEF Statuses
<1>2. QED
  BY <1>1, CalmWrites DEF PlanChangeRetry

LEMMA PlanFailureCalm == ASSUME Stored, RestFine, NEW e, PlanChangeFailure(e) PROVE CalmOk
BY CalmWrites, StuckCalm DEF PlanChangeFailure, Statuses

\* A row whose plan is no longer known is not served.
LEMMA UnmappedCalm == ASSUME Stored PROVE Calm([sub EXCEPT !.plan = "none", !.st = "UNMAPPED", !.next = Never])
<1>1. Calm(sub)
  BY CalmSub
<1>2. [sub EXCEPT !.plan = "none", !.st = "UNMAPPED", !.next = Never] \in Row
  BY <1>1, InstantsAre DEF Calm, Onward, Row, Statuses
<1>3. QED
  BY <1>1, <1>2 DEF Calm, Onward, Row

LEMMA PlanUnmappedCalm == ASSUME Stored, RestFine, NEW e, PlanChangeUnmapped(e) PROVE CalmOk
BY UnmappedCalm, CalmWrites DEF PlanChangeUnmapped

LEMMA StillCurrentCalm ==
    ASSUME Stored, RestFine, NEW e \in Row, NEW s \in Answer, StillCurrent(e, s)
    PROVE  CalmOk
<1> DEFINE next == IF s.pend \in SyncPlans /\ s.cyc # 0 THEN <<"end", s.cyc>>
                   ELSE IF e.cyc = 0 THEN Never ELSE DrainOf("job", e.cyc)
           row == PendingOf(Recoded(sub), s)
           pend == IF s.pend = "cancel" THEN "none" ELSE s.pend
           new == [row EXCEPT !.pend = pend, !.next = next]
<1>1. next \in Instants
  BY Ranges, InstantsAre, BoundariesAre DEF Answer, Row
<1>2. pend \in Announcements
  BY DEF Answer, Announcements
<1>3. Calm(Recoded(sub))
  BY CalmSub, CalmOps
<1>4. Calm(row)
  BY <1>3, CalmOps
<1>5. IF CasPlanChange(e) THEN Save(new, next) ELSE Keep
  BY DEF StillCurrent
<1> HIDE DEF next, row, pend
<1>6. Calm(new)
  <2>1. new \in Row
    BY <1>1, <1>2, <1>4 DEF Calm, Onward, Row
  <2>2. /\ new.per = row.per /\ new.cyc = row.cyc /\ new.plan = row.plan /\ new.st = row.st /\ new.ev = row.ev
    BY <1>4 DEF Calm, Onward, Row
  <2> HIDE DEF new
  <2>3. QED
    BY <1>4, <2>1, <2>2 DEF Calm, Onward
<1> HIDE DEF new
<1>7. QED
  BY <1>5, <1>6, CalmWrites

\* The announced plan is served from a later cycle, by job or by scan.
LEMMA PlanChanges ==
    ASSUME Stored, RestFine, NEW p, NEW s, AnswerFine(s), NEW plan, PlanTransition(sub, s, plan) = "transitioned",
           NEW t, Save(Serves(sub, s, DrainOf(p, s.cyc)), t), period' = Moved(s)
    PROVE  Written
<1>0. s \in Answer /\ sub \in Row
  BY DEF AnswerFine, Stored, RowFine
<1>1. s.cyc \in Cycles /\ s.cyc # sub.per /\ CanServe(s.cyc, s.plan)
  BY <1>0, TransitionLeads
<1>2. ServedFrom(Serves(sub, s, DrainOf(p, s.cyc)), s.cyc, s.plan)
  BY <1>0, <1>1, ServesOps, BoundariesAre DEF CanServe
<1>3. ServedFrom(sub', s.cyc, s.plan) /\ JobOk
  BY <1>2, SaveIs DEF JobOk
<1>4. QED
  BY <1>1, <1>3, MovedServes DEF Written

LEMMA PlanChangeSteps ==
    ASSUME Stored, RestFine, NEW p, NEW e \in Row, e.eff # 0, NEW s, AnswerFine(s), PlanChange(p, e, s)
    PROVE  Written
<1> DEFINE r == PlanTransition(sub, s, e.plan)
           first == s.plan # e.pend \/ (e.cyc # 0 /\ s.cyc = e.cyc)
<1>0. s \in Answer
  BY DEF AnswerFine
<1>1. CASE s.plan = "none"
  BY <1>1, PlanRetryCalm, CalmWritten DEF PlanChange
<1>2. CASE s.plan # "none" /\ s.plan = e.plan
  BY <1>0, <1>2, StillCurrentCalm, CalmWritten DEF PlanChange
<1>3. CASE s.plan # "none" /\ s.plan # e.plan /\ s.plan = "x"
  BY <1>3, PlanUnmappedCalm, CalmWritten DEF PlanChange
<1>4. CASE s.plan \notin {"none", e.plan, "x"} /\ first
  BY <1>4, PlanFailureCalm, CalmWritten DEF PlanChange
<1>5. CASE s.plan \notin {"none", e.plan, "x"} /\ ~first /\ ~Over(e.eff)
  <2> DEFINE t == <<"end", e.eff>>
  <2>1. /\ IF CasPlanChange(e) THEN Save([Recoded(sub) EXCEPT !.next = t], t) ELSE Keep
        /\ UNCHANGED period
    BY <1>5 DEF PlanChange
  <2>2. t \in Instants
    BY Ranges, InstantsAre DEF Row
  <2> HIDE DEF t
  <2>3. Calm([Recoded(sub) EXCEPT !.next = t])
    BY <2>2, CalmSub, CalmOps
  <2>4. QED
    BY <2>1, <2>3, CalmWrites, CalmWritten
<1>6. CASE s.plan \notin {"none", e.plan, "x"} /\ ~first /\ Over(e.eff) /\ (s.cyc = 0 \/ ~s.ok)
  BY <1>6, PlanRetryCalm, CalmWritten DEF PlanChange
<1>7. CASE s.plan \notin {"none", e.plan, "x"} /\ ~first /\ Over(e.eff) /\ ~(s.cyc = 0 \/ ~s.ok)
  <2>1. CASE r = "transitioned"
    BY <1>7, <2>1, PlanChanges DEF PlanChange
  <2>2. CASE r = "throws"
    BY <1>7, <2>2, ThrowsCalm, CalmWritten DEF PlanChange
  <2>3. CASE r \notin {"transitioned", "throws"}
    BY <1>7, <2>3, PlanFailureCalm, CalmWritten DEF PlanChange
  <2>4. QED
    BY <2>1, <2>2, <2>3
<1>8. QED
  BY <1>1, <1>2, <1>3, <1>4, <1>5, <1>6, <1>7

\* The row is written, and the shop is in one of its states.
Reopened == ShopOk /\ Written

LEMMA BlockedCalm == ASSUME Stored, RestFine, NEW e, ReinstallBlocked(e) PROVE CalmOk
BY CalmSub, CalmOps, CalmWrites, InstantsAre DEF ReinstallBlocked

LEMMA ReinstallFailureCalm == ASSUME Stored, RestFine, NEW e, NEW late, ReinstallFailure(e, late) PROVE CalmOk
BY CalmSub, CalmOps, CalmWrites, InstantsAre DEF ReinstallFailure

\* A row without a contract keeps only the latest event.
LEMMA NoContractIs ==
    ASSUME Stored, NEW n \in Nat, n >= sub.ev, n <= prov.ev
    PROVE  Left([NoContract EXCEPT !.ev = n])
<1>1. NoContract \in Row
  BY Ranges, InstantsAre DEF NoContract, Row, Statuses, Announcements
<1>2. NoContract.st = "NO_CONTRACT" /\ NoContract.per = 0
  BY DEF NoContract
<1>3. QED
  BY <1>1, <1>2 DEF Left, Onward, Row

LEMMA ReturnsWithoutContract ==
    ASSUME Stored, RestFine, NEW e, ReinstallWithoutContract(e), UNCHANGED period
    PROVE  Reopened
<1>1. CASE ~Authority(e)
  BY <1>1, CalmWrites, CalmWritten DEF ReinstallWithoutContract, Reopened, ShopOk, RestFine
<1>2. CASE Authority(e)
  <2>1. Left([NoContract EXCEPT !.ev = sub.ev])
    BY NoContractIs DEF Stored, RowFine, Row
  <2>2. Save([NoContract EXCEPT !.ev = sub.ev], Never) /\ ShopOk
    BY <1>2 DEF ReinstallWithoutContract, ShopOk, RestFine
  <2>3. QED
    BY <2>1, <2>2, SaveIs, LeftWritten DEF Reopened, JobOk
<1>3. QED
  BY <1>1, <1>2

LEMMA BackIs == Back \in [st : {"ACTIVE", "UNINSTALLED"}, back : BOOLEAN, onboarded : BOOLEAN]
BY DEF Back

LEMMA ReturnsFree ==
    ASSUME Stored, RestFine, NEW e, NEW s, AnswerFine(s), s.plan = "free", ReinstallFree(e, s)
    PROVE  Reopened
<1>0. shop \in [st : {"ACTIVE", "UNINSTALLED"}, back : BOOLEAN, onboarded : BOOLEAN] /\ s \in Answer /\ sub \in Row
  BY DEF RestFine, AnswerFine, Stored, RowFine
<1>1. CASE ~s.ok
  BY <1>0, <1>1, BlockedCalm, CalmWritten DEF ReinstallFree, Reopened, ShopOk
<1>2. CASE s.ok /\ ~Authority(e)
  BY <1>0, <1>2, CalmWrites, CalmWritten DEF ReinstallFree, Reopened, ShopOk
<1>3. CASE s.ok /\ Authority(e) /\ (s.cyc = 0 \/ ~Compatible(s.cyc, "free"))
  BY <1>0, <1>3, StuckCalm, CalmWritten DEF ReinstallFree, Reopened, ShopOk, Statuses
<1>4. CASE s.ok /\ Authority(e) /\ ~(s.cyc = 0 \/ ~Compatible(s.cyc, "free"))
  <2> DEFINE t == DrainOf("job", s.cyc)
             new == Serves(sub, s, t)
  <2>1. Save(PendingOf(new, s), t) /\ period' = Opened(s) /\ shop' = Back
    BY <1>4 DEF ReinstallFree
  <2>2. s.cyc \in Cycles /\ s.plan \in Mapped
    BY <1>0, <1>4, Ranges DEF Answer, Mapped
  <2>3. t \in Instants
    BY <2>2, BoundariesAre
  <2> HIDE DEF t
  <2>4. ServedFrom(new, s.cyc, s.plan)
    BY <1>0, <2>2, <2>3, ServesOps
  <2> HIDE DEF new
  <2>5. ServedFrom(PendingOf(new, s), s.cyc, s.plan)
    BY <1>0, <2>4, ServedOps
  <2>6. ServedFrom(sub', s.cyc, s.plan) /\ JobOk /\ ShopOk
    BY <2>1, <2>5, SaveIs, BackIs DEF JobOk, ShopOk
  <2>7. CanServe(s.cyc, s.plan)
    BY <1>4, <2>2, CompatibleServes
  <2>8. QED
    BY <2>1, <2>6, <2>7, OpenedServes DEF Reopened, Written
<1>5. QED
  BY <1>1, <1>2, <1>3, <1>4

\* A row that still has a plan may be active again.
LEMMA CalmActive ==
    ASSUME NEW r, Calm(r), r.plan # "none", NEW t \in Instants
    PROVE  Calm([r EXCEPT !.st = "ACTIVE", !.next = t])
<1>1. [r EXCEPT !.st = "ACTIVE", !.next = t] \in Row
  BY DEF Calm, Onward, Row, Statuses
<1>2. QED
  BY <1>1 DEF Calm, Onward, Row

LEMMA ReturnsPaid ==
    ASSUME Stored, RestFine, NEW e, NEW s, AnswerFine(s), s.plan = "paid", ReinstallPaid(e, s)
    PROVE  Reopened
<1> DEFINE r == SamePlanRollover(sub, s, "paid")
           unfit == ~s.ok \/ sub.plan # "paid" \/ sub.per = 0 \/ sub.cyc = 0
<1>0. shop \in [st : {"ACTIVE", "UNINSTALLED"}, back : BOOLEAN, onboarded : BOOLEAN] /\ s \in Answer /\ sub \in Row
  BY DEF RestFine, AnswerFine, Stored, RowFine
<1>1. CASE unfit
  BY <1>0, <1>1, BlockedCalm, CalmWritten DEF ReinstallPaid, Reopened, ShopOk
<1>2. CASE ~unfit /\ ~Authority(e)
  BY <1>0, <1>2, CalmWrites, CalmWritten DEF ReinstallPaid, Reopened, ShopOk
<1>3. CASE ~unfit /\ Authority(e) /\ s.cyc = sub.cyc /\ period[sub.per] = "paid"
  <2> DEFINE t == DrainOf("job", s.cyc)
             row == PendingOf(sub, s)
  <2>1. Save([row EXCEPT !.st = "ACTIVE", !.next = t], t) /\ shop' = Back /\ UNCHANGED period
    BY <1>3 DEF ReinstallPaid
  <2>2. t \in Instants
    BY <1>0, <1>3, Ranges, BoundariesAre DEF Row
  <2>3. Calm(row) /\ row.plan # "none"
    BY <1>0, <1>3, CalmSub, CalmOps DEF PendingOf, Row
  <2> HIDE DEF t, row
  <2>4. Calm([row EXCEPT !.st = "ACTIVE", !.next = t])
    BY <2>2, <2>3, CalmActive
  <2>5. ShopOk
    BY <2>1, BackIs DEF ShopOk
  <2>6. QED
    BY <2>1, <2>4, <2>5, CalmWrites, CalmWritten DEF Reopened
<1>4. CASE ~unfit /\ Authority(e) /\ ~(s.cyc = sub.cyc /\ period[sub.per] = "paid") /\ s.cyc # sub.cyc /\ r = "transitioned"
  <2> DEFINE t == DrainOf("job", s.cyc)
             new == RolledOver("job", sub, s)
  <2>1. Save(PendingOf(new, s), t) /\ period' = Moved(s) /\ shop' = Back
    BY <1>4 DEF ReinstallPaid
  <2>2. s.cyc \in Cycles /\ s.cyc # sub.per /\ s.plan = sub.plan /\ CanServe(s.cyc, s.plan)
    BY <1>0, <1>4, RolloverLeads
  <2>3. ServedFrom(new, s.cyc, s.plan)
    BY <1>0, <2>2, RolledOps
  <2> HIDE DEF t, new
  <2>4. ServedFrom(PendingOf(new, s), s.cyc, s.plan)
    BY <1>0, <2>3, ServedOps
  <2>5. ServedFrom(sub', s.cyc, s.plan) /\ JobOk /\ ShopOk
    BY <2>1, <2>4, SaveIs, BackIs DEF JobOk, ShopOk
  <2>6. QED
    BY <2>1, <2>2, <2>5, MovedServes DEF Reopened, Written
<1>5. CASE ~unfit /\ Authority(e) /\ ~(s.cyc = sub.cyc /\ period[sub.per] = "paid") /\ ~(s.cyc # sub.cyc /\ r = "transitioned")
  BY <1>0, <1>5, BlockedCalm, CalmWritten DEF ReinstallPaid, Reopened, ShopOk
<1>6. QED
  BY <1>1, <1>2, <1>3, <1>4, <1>5

LEMMA ReinstallSteps ==
    ASSUME Stored, RestFine, NEW e, NEW s, AnswerFine(s), ReinstallStep(e, s)
    PROVE  Reopened
<1>1. CASE s.plan = "none"
  BY <1>1, ReturnsWithoutContract DEF ReinstallStep
<1>2. CASE s.plan = "free"
  BY <1>2, ReturnsFree DEF ReinstallStep
<1>3. CASE s.plan = "paid"
  BY <1>3, ReturnsPaid DEF ReinstallStep
<1>4. CASE s.plan \notin {"none", "free", "paid"}
  BY <1>4, BlockedCalm, CalmWritten DEF ReinstallStep, Reopened, ShopOk, RestFine
<1>5. QED
  BY <1>1, <1>2, <1>3, <1>4

-----------------------------------------------------------------------------
(* The steps of a process.                                                 *)

LEMMA NoAnswerFine == prov.ev \in Nat => AnswerFine(NoAnswer)
<1>1. NoAnswer \in Answer
  BY Ranges DEF NoAnswer, Answer, Announcements, States
<1>2. QED
  BY <1>1 DEF AnswerFine, NoAnswer

LEMMA IdleIs ==
    /\ Idle \in ProcRow /\ [Idle EXCEPT !.pc = "reconstruct"] \in ProcRow
    /\ \A i \in {Idle, [Idle EXCEPT !.pc = "reconstruct"]} : i.kind = "none" /\ i.snap = NoAnswer /\ i.pc # "cycle"
<1>1. NoContract \in Row /\ NoAnswer \in Answer
  BY Ranges, InstantsAre DEF NoContract, Row, Statuses, Announcements, NoAnswer, Answer, States
<1> HIDE DEF NoContract, NoAnswer
<1>2. Idle \in ProcRow
  BY <1>1 DEF Idle, ProcRow, Steps, Kinds
<1>3. [Idle EXCEPT !.pc = "reconstruct"] \in ProcRow
  BY <1>2 DEF ProcRow, Steps
<1>4. QED
  BY <1>2, <1>3 DEF Idle

\* One process moves to a state that is fine by itself.
ProcFine(p, w) ==
    /\ w \in ProcRow /\ AnswerFine(w.snap)
    /\ p = "job" /\ w.kind = "rollover" => w.exp.per # 0
    /\ p = "job" /\ w.kind = "established-plan-change" => w.exp.eff # 0
    /\ p = "scan" /\ w.pc = "cycle" => /\ w.snap.plan = w.exp.plan /\ w.snap.plan # "none"
                                       /\ w.snap.cyc = w.exp.cyc /\ w.snap.cyc # 0

LEMMA ProcsAre ==
    /\ ProcsFine <=> proc \in [Procs -> ProcRow] /\ \A p \in Procs : ProcFine(p, proc[p])
    /\ "job" \in Procs /\ "scan" \in Procs
BY DEF ProcsFine, ProcFine, Procs

LEMMA ProcMoves ==
    ASSUME ProcsFine, UNCHANGED prov, NEW p \in Procs, NEW w, ProcFine(p, w), proc' = [proc EXCEPT ![p] = w]
    PROVE  ProcsFine'
<1>1. proc' \in [Procs -> ProcRow]
  BY DEF ProcsFine, ProcFine
<1>2. \A q \in Procs : proc'[q] = IF q = p THEN w ELSE proc[q]
  BY DEF ProcsFine
<1>3. \A q \in Procs : ProcFine(q, proc'[q])
  BY <1>2, ProcsAre
<1>4. (\A q \in Procs : ProcFine(q, proc[q]))'
  BY <1>3 DEF ProcFine, AnswerFine
<1>5. QED
  BY <1>1, <1>4 DEF ProcsFine, ProcFine, Procs

LEMMA EndFine == ASSUME Stored, ProcsFine, UNCHANGED prov, NEW p \in Procs, End(p) PROVE ProcsFine'
<1> DEFINE w == IF p = "job" THEN Idle ELSE [Idle EXCEPT !.pc = "reconstruct"]
<1>1. ProcFine(p, w)
  BY IdleIs, NoAnswerFine DEF ProcFine, Stored
<1>2. proc' = [proc EXCEPT ![p] = w]
  BY DEF End
<1> HIDE DEF w
<1>3. QED
  BY <1>1, <1>2, ProcMoves

LEMMA GoOnFine ==
    ASSUME ProcsFine, UNCHANGED prov, NEW p \in Procs, NEW pc \in Steps \ {"cycle"}, GoOn(p, pc)
    PROVE  ProcsFine'
<1>1. ProcFine(p, proc[p]) /\ proc[p] \in ProcRow
  BY ProcsAre
<1> DEFINE w == [proc[p] EXCEPT !.pc = pc]
<1>2. w \in ProcRow /\ w.kind = proc[p].kind /\ w.exp = proc[p].exp /\ w.snap = proc[p].snap /\ w.pc = pc
  BY <1>1 DEF ProcRow
<1>3. ProcFine(p, w)
  BY <1>1, <1>2 DEF ProcFine
<1>4. proc' = [proc EXCEPT ![p] = w]
  BY DEF GoOn
<1> HIDE DEF w
<1>5. QED
  BY <1>3, <1>4, ProcMoves

LEMMA WrittenRow == ASSUME Written PROVE sub' \in Row
BY DEF Written, RowStep, CalmStep, LeavingStep, ServingStep, Calm, Left, ServedFrom, Onward

\* The scan goes on with the row as it has been restored.
LEMMA AgainFine ==
    ASSUME ProcsFine, UNCHANGED prov, Written, proc' = [proc EXCEPT !["scan"].pc = "apply", !["scan"].exp = sub']
    PROVE  ProcsFine'
<1>1. ProcFine("scan", proc["scan"]) /\ proc["scan"] \in ProcRow /\ sub' \in Row
  BY ProcsAre, WrittenRow
<1> DEFINE w == [proc["scan"] EXCEPT !.pc = "apply", !.exp = sub']
<1>2. w \in ProcRow /\ w.kind = proc["scan"].kind /\ w.snap = proc["scan"].snap /\ w.pc = "apply"
  BY <1>1 DEF ProcRow, Steps
<1>3. ProcFine("scan", w)
  BY <1>1, <1>2 DEF ProcFine
<1>4. proc' = [proc EXCEPT !["scan"] = w]
  BY DEF ProcsFine
<1> HIDE DEF w
<1>5. QED
  BY <1>3, <1>4, ProcMoves, ProcsAre

-----------------------------------------------------------------------------
(* The lifecycle events.                                                   *)

LEMMA NotOlder == ASSUME Stored, NEW s, AnswerFine(s) PROVE ~Older(s) => s.ev >= sub.ev /\ s.ev <= prov.ev /\ s.ev \in Nat
BY DEF Stored, RowFine, Row, AnswerFine, Answer, Older

LEMMA UnresolvedCalm == ASSUME Stored, RestFine, NEW p, NEW s, AnswerFine(s), RecordUnresolved(p, s) PROVE CalmOk
<1>1. Calm(Recoded(sub)) /\ s \in Answer
  BY CalmSub, CalmOps DEF AnswerFine
<1>2. ~Older(s) => Calm(Noted(Recoded(sub), s))
  BY <1>1, NotOlder, CalmOps
<1>3. QED
  BY <1>1, <1>2, CalmWrites DEF RecordUnresolved

LEMMA OrderingSteps ==
    ASSUME Stored, RestFine, ProcsFine, UNCHANGED prov, NEW p \in Procs, NEW s, AnswerFine(s), Ordering(p, s)
    PROVE  Written /\ ProcsFine'
<1>0. UNCHANGED period /\ Calm(sub) /\ Calm(Recoded(sub)) /\ {"apply", "life"} \subseteq Steps \ {"cycle"}
  BY CalmSub, CalmOps DEF Ordering, Steps
<1>1. CASE s.state = "none"
  BY <1>0, <1>1, UnresolvedCalm, CalmWrites, CalmWritten, EndFine, GoOnFine DEF Ordering
<1>2. CASE s.state # "none" /\ ~Older(s)
  BY <1>0, <1>2, CalmWrites, CalmWritten, GoOnFine DEF Ordering
<1>3. CASE s.state # "none" /\ Older(s) /\ (sub.st = "FROZEN" \/ s.plan = "none")
  BY <1>0, <1>3, CalmWrites, CalmWritten, EndFine DEF Ordering
<1>4. CASE s.state # "none" /\ Older(s) /\ ~(sub.st = "FROZEN" \/ s.plan = "none")
  BY <1>0, <1>4, CalmWrites, CalmWritten, GoOnFine DEF Ordering
<1>5. QED
  BY <1>1, <1>2, <1>3, <1>4

LEMMA CancelledWritten == ASSUME Stored, RestFine, NEW s, AnswerFine(s), Cancelled(s) PROVE Written
<1>1. CASE Older(s) \/ (sub.st = "NO_CONTRACT" /\ sub.plan = "none" /\ sub.per = 0)
  BY <1>1, CalmWrites, CalmWritten DEF Cancelled
<1>2. CASE ~(Older(s) \/ (sub.st = "NO_CONTRACT" /\ sub.plan = "none" /\ sub.per = 0))
  <2>1. /\ Save([NoContract EXCEPT !.ev = s.ev], Never)
        /\ period' = IF sub.per # 0 THEN [period EXCEPT ![sub.per] = "closed"] ELSE period
    BY <1>2 DEF Cancelled
  <2>2. Left([NoContract EXCEPT !.ev = s.ev])
    BY <1>2, NotOlder, NoContractIs
  <2>3. Left(sub') /\ JobOk
    BY <2>1, <2>2, SaveIs DEF JobOk
  <2>4. QED
    BY <2>1, <2>3 DEF Written, RowStep, LeavingStep
<1>3. QED
  BY <1>1, <1>2

LEMMA FrozenCalm ==
    ASSUME Stored, RestFine, NEW p, NEW s, AnswerFine(s), Frozen(p, s) \/ UnfrozenWithoutContract(p, s)
    PROVE  CalmOk
<1>1. Calm(sub) /\ Calm(Failed(sub, "FROZEN")) /\ s \in Answer
  BY CalmSub, CalmOps DEF Statuses, AnswerFine
<1>2. ~Older(s) => Calm(Noted(Failed(sub, "FROZEN"), s))
  BY <1>1, NotOlder, CalmOps
<1>3. QED
  BY <1>1, <1>2, CalmWrites DEF Frozen, UnfrozenWithoutContract

\* The row as it is served once the contract is no longer frozen.
Thawed == [sub EXCEPT !.st = "ACTIVE"]

LEMMA ThawedIs ==
    ASSUME Stored
    PROVE  /\ Thawed \in Row /\ Thawed.plan = sub.plan /\ Thawed.per = sub.per /\ Thawed.cyc = sub.cyc
           /\ Thawed.ev = sub.ev
           /\ sub.plan # "none" => Calm(Thawed)
<1>1. Calm(sub) /\ sub \in Row
  BY CalmSub DEF Stored, RowFine
<1>2. /\ Thawed \in Row /\ Thawed.plan = sub.plan /\ Thawed.per = sub.per /\ Thawed.cyc = sub.cyc
      /\ Thawed.ev = sub.ev
  BY <1>1 DEF Thawed, Row, Statuses
<1>3. QED
  BY <1>1, <1>2 DEF Calm, Onward

\* A failed restoration closes the row to the shop.
LEMMA NotRestored ==
    ASSUME Stored, RestFine, NEW p, NEW s, AnswerFine(s), ~Older(s), NEW code \in Statuses \ {"ACTIVE"},
           \/ Retry(p, PendingOf(Noted(Failed(sub, code), s), s))
           \/ Retry(p, Noted(Failed(sub, code), s))
    PROVE  CalmOk
<1>1. s \in Answer /\ s.ev >= sub.ev /\ s.ev <= prov.ev
  BY NotOlder DEF AnswerFine
<1>2. Calm(Failed(sub, code))
  BY CalmSub, CalmOps
<1>3. Calm(Noted(Failed(sub, code), s))
  BY <1>1, <1>2, CalmOps
<1>4. Calm(PendingOf(Noted(Failed(sub, code), s), s))
  BY <1>1, <1>3, CalmOps
<1>5. QED
  BY <1>3, <1>4, CalmWrites

\* The cycle has not changed: the same period is served again.
LEMMA SameCycleRestored ==
    ASSUME Stored, RestFine, NEW s, AnswerFine(s), ~Older(s), sub.plan = s.plan, s.plan \in Mapped, s.cyc # 0,
           Save([PendingOf(Noted(Thawed, s), s) EXCEPT !.next = NextBoundary(s.cyc)], NextBoundary(s.cyc))
    PROVE  CalmOk
<1>1. s \in Answer /\ s.ev >= sub.ev /\ s.ev <= prov.ev /\ NextBoundary(s.cyc) \in Instants
  BY NotOlder, Ranges, BoundariesAre DEF AnswerFine, Answer
<1>2. Calm(Thawed)
  BY ThawedIs DEF Mapped
<1>3. Calm(Noted(Thawed, s))
  BY <1>1, <1>2, CalmOps
<1>4. Calm(PendingOf(Noted(Thawed, s), s))
  BY <1>1, <1>3, CalmOps
<1>5. Calm([PendingOf(Noted(Thawed, s), s) EXCEPT !.next = NextBoundary(s.cyc)])
  BY <1>1, <1>4, CalmOps
<1>6. QED
  BY <1>5, CalmWrites

\* The cycle, or the plan with it, has moved while the contract was frozen.
LEMMA MovedRestored ==
    ASSUME Stored, RestFine, NEW p, NEW s, AnswerFine(s), ~Older(s), NEW t,
           \/ /\ SamePlanRollover(Thawed, s, s.plan) = "transitioned"
              /\ Save(Noted(RolledOver(p, Thawed, s), s), t)
           \/ /\ PlanTransition(Thawed, s, sub.plan) = "transitioned"
              /\ Save(Noted(Serves(Thawed, s, DrainOf(p, s.cyc)), s), t),
           period' = Moved(s)
    PROVE  Written
<1>1. s \in Answer /\ s.ev >= sub.ev /\ s.ev <= prov.ev
  BY NotOlder DEF AnswerFine
<1>2. CASE /\ SamePlanRollover(Thawed, s, s.plan) = "transitioned"
           /\ Save(Noted(RolledOver(p, Thawed, s), s), t)
  <2>1. s.cyc \in Cycles /\ s.cyc # sub.per /\ s.plan = sub.plan /\ CanServe(s.cyc, s.plan)
    BY <1>2, ThawedIs, RolloverLeads
  <2>2. ServedFrom(RolledOver(p, Thawed, s), s.cyc, s.plan)
    BY <1>1, <2>1, ThawedIs, RolledOps
  <2>3. ServedFrom(Noted(RolledOver(p, Thawed, s), s), s.cyc, s.plan)
    BY <1>1, <2>2, ServedOps
  <2>4. ServedFrom(sub', s.cyc, s.plan) /\ JobOk
    BY <1>2, <2>3, SaveIs DEF JobOk
  <2>5. QED
    BY <2>1, <2>4, MovedServes DEF Written
<1>3. CASE /\ PlanTransition(Thawed, s, sub.plan) = "transitioned"
           /\ Save(Noted(Serves(Thawed, s, DrainOf(p, s.cyc)), s), t)
  <2>1. s.cyc \in Cycles /\ s.cyc # sub.per /\ CanServe(s.cyc, s.plan)
    BY <1>3, ThawedIs, TransitionLeads
  <2>2. ServedFrom(Serves(Thawed, s, DrainOf(p, s.cyc)), s.cyc, s.plan)
    BY <1>1, <2>1, ThawedIs, ServesOps, BoundariesAre DEF CanServe
  <2>3. ServedFrom(Noted(Serves(Thawed, s, DrainOf(p, s.cyc)), s), s.cyc, s.plan)
    BY <1>1, <2>2, ServedOps
  <2>4. ServedFrom(sub', s.cyc, s.plan) /\ JobOk
    BY <1>3, <2>3, SaveIs DEF JobOk
  <2>5. QED
    BY <2>1, <2>4, MovedServes DEF Written
<1>4. QED
  BY <1>2, <1>3

LEMMA RestoreSteps ==
    ASSUME Stored, RestFine, ProcsFine, UNCHANGED prov, NEW p \in Procs, NEW s, AnswerFine(s), Restore(p, s)
    PROVE  Written /\ ProcsFine'
<1> DEFINE r == IF sub.plan = s.plan THEN SamePlanRollover(Thawed, s, s.plan) ELSE PlanTransition(Thawed, s, sub.plan)
           moved == IF sub.plan = s.plan THEN RolledOver(p, Thawed, s) ELSE Serves(Thawed, s, DrainOf(p, s.cyc))
           again == IF p = "job" THEN End(p) ELSE proc' = [proc EXCEPT ![p].pc = "apply", ![p].exp = sub']
           restorable == ~(sub.st # "FROZEN" \/ Older(s)) /\ Usable(s) /\ ~(s.cyc = 0 \/ ~s.ok)
<1>0. \/ (sub.st # "FROZEN" \/ Older(s)) /\ Republish /\ UNCHANGED period /\ End(p)
      \/ /\ ~(sub.st # "FROZEN" \/ Older(s)) /\ ~Usable(s)
         /\ Retry(p, PendingOf(Noted(Failed(sub, "UNMAPPED"), s), s)) /\ UNCHANGED period /\ End(p)
      \/ /\ ~(sub.st # "FROZEN" \/ Older(s))
         /\ Retry(p, PendingOf(Noted(Failed(sub, "SYNC_ERROR"), s), s)) /\ UNCHANGED period /\ End(p)
      \/ /\ restorable /\ sub.plan = s.plan /\ UNCHANGED period /\ again
         /\ Save([PendingOf(Noted(Thawed, s), s) EXCEPT !.next = NextBoundary(s.cyc)], NextBoundary(s.cyc))
      \/ restorable /\ r = "transitioned" /\ Save(Noted(moved, s), moved.next) /\ period' = Moved(s) /\ again
      \/ Throws(p)
      \/ restorable /\ Retry(p, Noted(Failed(sub, "SYNC_ERROR"), s)) /\ UNCHANGED period /\ End(p)
  BY DEF Restore, Thawed
<1> HIDE DEF r, moved
<1>1. ASSUME Written, again PROVE ProcsFine'
  BY <1>1, EndFine, AgainFine DEF Procs
<1>2. CASE Republish /\ UNCHANGED period /\ End(p)
  BY <1>2, CalmWrites, CalmWritten, EndFine
<1>3. CASE /\ ~(sub.st # "FROZEN" \/ Older(s))
           /\ \/ Retry(p, PendingOf(Noted(Failed(sub, "UNMAPPED"), s), s))
              \/ Retry(p, PendingOf(Noted(Failed(sub, "SYNC_ERROR"), s), s))
              \/ Retry(p, Noted(Failed(sub, "SYNC_ERROR"), s))
           /\ UNCHANGED period /\ End(p)
  <2>1. {"UNMAPPED", "SYNC_ERROR"} \subseteq Statuses \ {"ACTIVE"}
    BY DEF Statuses
  <2>2. CalmOk
    BY <1>3, <2>1, NotRestored
  <2>3. QED
    BY <1>3, <2>2, CalmWritten, EndFine
<1>4. CASE /\ restorable /\ sub.plan = s.plan /\ UNCHANGED period /\ again
           /\ Save([PendingOf(Noted(Thawed, s), s) EXCEPT !.next = NextBoundary(s.cyc)], NextBoundary(s.cyc))
  <2>1. CalmOk
    BY <1>4, SameCycleRestored DEF Usable
  <2>2. Written
    BY <1>4, <2>1, CalmWritten
  <2>3. QED
    BY <1>1, <1>4, <2>2
<1>5. CASE restorable /\ r = "transitioned" /\ Save(Noted(moved, s), moved.next) /\ period' = Moved(s) /\ again
  <2>1. \/ /\ SamePlanRollover(Thawed, s, s.plan) = "transitioned"
           /\ Save(Noted(RolledOver(p, Thawed, s), s), moved.next)
        \/ /\ PlanTransition(Thawed, s, sub.plan) = "transitioned"
           /\ Save(Noted(Serves(Thawed, s, DrainOf(p, s.cyc)), s), moved.next)
    BY <1>5 DEF r, moved
  <2>2. Written
    BY <1>5, <2>1, MovedRestored
  <2>3. QED
    BY <1>1, <1>5, <2>2
<1>6. CASE Throws(p)
  BY <1>6, ThrowsCalm, CalmWritten, EndFine DEF Throws
<1>7. QED
  BY <1>0, <1>2, <1>3, <1>4, <1>5, <1>6

LEMMA LifecycleSteps ==
    ASSUME Stored, RestFine, ProcsFine, UNCHANGED prov, NEW p \in Procs, NEW s, AnswerFine(s), Lifecycle(p, s)
    PROVE  Written /\ ProcsFine'
<1>0. "apply" \in Steps \ {"cycle"}
  BY DEF Steps
<1>1. CASE Cancelled(s) /\ End(p)
  BY <1>1, CancelledWritten, EndFine
<1>2. CASE (Frozen(p, s) \/ UnfrozenWithoutContract(p, s)) /\ UNCHANGED period /\ End(p)
  BY <1>2, FrozenCalm, CalmWritten, EndFine
<1>3. CASE RecordUnresolved(p, s) /\ UNCHANGED period /\ End(p)
  BY <1>3, UnresolvedCalm, CalmWritten, EndFine
<1>4. CASE Keep /\ UNCHANGED period /\ GoOn(p, "apply")
  BY <1>0, <1>4, CalmWrites, CalmWritten, GoOnFine
<1>5. CASE Restore(p, s)
  BY <1>5, RestoreSteps
<1>6. QED
  BY <1>1, <1>2, <1>3, <1>4, <1>5 DEF Lifecycle

-----------------------------------------------------------------------------
(* The delayed job.                                                        *)

\* What every step keeps: the rest of the invariant follows from RowStep.
Effect ==
    /\ Written /\ ProcsFine' /\ ShopOk /\ ProvFine' /\ moves' \in 0 .. SyncMoves
    /\ prov'.ev \in Nat /\ prov.ev <= prov'.ev

LEMMA InvStored == ASSUME SyInv PROVE Stored /\ RestFine /\ ProcsFine /\ ProvFine
BY DEF SyInv, Stored, ProvFine, ProvRow

LEMMA MovesAre ==
    ASSUME RestFine
    PROVE  /\ moves \in Nat /\ (UNCHANGED moves => moves' \in 0 .. SyncMoves)
           /\ Move => moves' \in 0 .. SyncMoves /\ moves' = moves + 1
BY SubscriptionAssumption DEF RestFine, Move

LEMMA ProvStays ==
    ASSUME ProvFine, RestFine, UNCHANGED prov, UNCHANGED moves \/ (moves < SyncMoves /\ moves' = moves + 1)
    PROVE  /\ ProvFine' /\ moves' \in 0 .. SyncMoves /\ prov'.ev \in Nat /\ prov.ev <= prov'.ev
<1>1. moves \in 0 .. SyncMoves /\ SyncMoves \in Nat /\ prov.ev \in Nat
  BY SubscriptionAssumption DEF RestFine, ProvFine, ProvRow
<1>2. moves' \in 0 .. SyncMoves /\ moves' >= moves /\ moves' \in Nat
  BY <1>1
<1>3. Owed(prov.frozen) \in {0, 1} /\ Owed(prov.pend = "cancel") \in {0, 1}
  BY DEF Owed
<1>4. prov.ev + Owed(prov.frozen) + Owed(prov.pend = "cancel") <= 2 * moves' + 1
  BY <1>1, <1>2, <1>3 DEF ProvFine
<1>5. ProvFine'
  BY <1>4 DEF ProvFine, Owed
<1>6. QED
  BY <1>1, <1>2, <1>5

LEMMA ShopStays == ASSUME RestFine, UNCHANGED shop PROVE ShopOk
BY DEF RestFine, ShopOk

LEMMA AnswersFine ==
    ASSUME ProvFine, NEW a \in Answers
    PROVE  AnswerFine(a[1]) /\ (a[2] = 0 \/ (a[2] = 1 /\ moves < SyncMoves))
<1> DEFINE now == [plan |-> prov.plan, cyc |-> IF prov.plan = "none" THEN 0 ELSE prov.cyc, pend |-> prov.pend,
                   ok |-> TRUE, ev |-> prov.ev, state |-> prov.state]
           gone == [now EXCEPT !.plan = "none", !.cyc = 0, !.pend = "none"]
           bare == [now EXCEPT !.cyc = 0, !.pend = IF prov.pend = "cancel" THEN "cancel" ELSE "none"]
           poor == [now EXCEPT !.ok = FALSE]
<1>1. /\ prov.plan \in SyncPlans \cup {"none"} /\ prov.cyc \in Numbers /\ prov.pend \in Announcements
      /\ prov.ev \in Nat /\ prov.state \in States /\ 0 \in Numbers /\ {"none", "cancel"} \subseteq Announcements
  BY Ranges DEF ProvFine, ProvRow, Announcements
<1>2. now \in Answer /\ now.ev = prov.ev /\ (now.plan = "none" => now.cyc = 0)
  BY <1>1 DEF Answer
<1>3. Answers = {<<now, 0>>} \cup (IF prov.frozen THEN {<<gone, 0>>} ELSE {})
                \cup (IF prov.plan # "none" /\ moves < SyncMoves THEN {<<bare, 1>>, <<poor, 1>>} ELSE {})
  BY DEF Answers
<1> DEFINE last == IF prov.pend = "cancel" THEN "cancel" ELSE "none"
<1>4. bare = [now EXCEPT !.cyc = 0, !.pend = last] /\ last \in Announcements
  BY <1>1
<1> HIDE DEF now, last
<1>5. AnswerFine(now)
  BY <1>1, <1>2 DEF AnswerFine
<1>6. AnswerFine(gone)
  <2>1. gone \in Answer /\ gone.cyc = 0 /\ gone.ev = prov.ev
    BY <1>1, <1>2 DEF Answer
  <2>2. QED
    BY <1>1, <2>1 DEF AnswerFine
<1>7. AnswerFine(bare)
  <2>1. [now EXCEPT !.cyc = 0, !.pend = last] \in Answer
    BY <1>1, <1>2, <1>4 DEF Answer
  <2>2. [now EXCEPT !.cyc = 0, !.pend = last].cyc = 0 /\ [now EXCEPT !.cyc = 0, !.pend = last].ev = prov.ev
    BY <1>1, <1>2, <1>4 DEF Answer
  <2>3. QED
    BY <1>1, <1>4, <2>1, <2>2 DEF AnswerFine
<1>8. AnswerFine(poor)
  <2>1. poor \in Answer /\ poor.cyc = now.cyc /\ poor.plan = now.plan /\ poor.ev = prov.ev
    BY <1>1, <1>2 DEF Answer
  <2>2. QED
    BY <1>1, <1>2, <2>1 DEF AnswerFine
<1> HIDE DEF gone, bare, poor
<1>9. CASE a = <<now, 0>>
  BY <1>5, <1>9
<1>10. CASE a = <<gone, 0>>
  BY <1>6, <1>10
<1>11. CASE (a = <<bare, 1>> \/ a = <<poor, 1>>) /\ moves < SyncMoves
  BY <1>7, <1>8, <1>11
<1>12. QED
  BY <1>3, <1>9, <1>10, <1>11

LEMMA KindIs ==
    /\ Kind(sub) \in Kinds
    /\ Kind(sub) = "rollover" => sub.per # 0
    /\ Kind(sub) = "established-plan-change" => sub.eff # 0
BY DEF Kind, Kinds

LEMMA TakeSyncJobEffect == ASSUME SyInv, TakeSyncJob PROVE Effect
<1>0. Stored /\ RestFine /\ ProcsFine /\ ProvFine
  BY InvStored
<1> DEFINE idle == Kind(sub) = "none" \/ (Kind(sub) = "cycle-discovery" /\ sub.plan # "free")
           w == IF idle THEN Idle ELSE [Idle EXCEPT !.pc = "read", !.kind = Kind(sub), !.exp = sub]
<1>1. UNCHANGED <<prov, sub, period, shop, moves>> /\ JobOk /\ proc' = [proc EXCEPT !["job"] = w]
  BY DEF TakeSyncJob, JobOk
<1>2. ProcFine("job", w)
  <2>1. CASE idle
    BY <1>0, <2>1, IdleIs, NoAnswerFine DEF ProcFine, Stored
  <2>2. CASE ~idle
    <3> DEFINE v == [Idle EXCEPT !.pc = "read", !.kind = Kind(sub), !.exp = sub]
    <3>1. sub \in Row /\ Kind(sub) \in Kinds /\ "read" \in Steps /\ Idle \in ProcRow
      BY <1>0, KindIs, IdleIs DEF Stored, RowFine, Steps
    <3>2. v \in ProcRow /\ v.kind = Kind(sub) /\ v.exp = sub /\ v.snap = NoAnswer
      BY <3>1, IdleIs DEF ProcRow
    <3>3. ProcFine("job", v)
      BY <1>0, <3>2, KindIs, NoAnswerFine DEF ProcFine, Stored
    <3>4. QED
      BY <2>2, <3>3
  <2>3. QED
    BY <2>1, <2>2
<1> HIDE DEF w
<1>3. ProcsFine'
  BY <1>0, <1>1, <1>2, ProcMoves, ProcsAre
<1>4. Written
  BY <1>0, <1>1, CalmSub, CalmWritten DEF CalmOk
<1>5. QED
  BY <1>0, <1>1, <1>3, <1>4, ProvStays, ShopStays DEF Effect

LEMMA JobReadsEffect == ASSUME SyInv, JobReads PROVE Effect
<1>0. Stored /\ RestFine /\ ProcsFine /\ ProvFine
  BY InvStored
<1>1. PICK a \in Answers :
         /\ moves' = moves + a[2]
         /\ \E pc \in {"order", "apply"} : proc' = [proc EXCEPT !["job"].snap = a[1], !["job"].pc = pc]
  BY DEF JobReads
<1>2. PICK pc \in {"order", "apply"} : proc' = [proc EXCEPT !["job"].snap = a[1], !["job"].pc = pc]
  BY <1>1
<1>3. UNCHANGED <<prov, sub, period, shop, syncJob>>
  BY DEF JobReads
<1>4. AnswerFine(a[1]) /\ (a[2] = 0 \/ (a[2] = 1 /\ moves < SyncMoves))
  BY <1>0, AnswersFine
<1> DEFINE w == [proc["job"] EXCEPT !.snap = a[1], !.pc = pc]
<1>5. ProcFine("job", proc["job"]) /\ proc["job"] \in ProcRow /\ a[1] \in Answer /\ pc \in Steps
  BY <1>0, <1>4, ProcsAre DEF Steps, AnswerFine
<1>6. w \in ProcRow /\ w.kind = proc["job"].kind /\ w.exp = proc["job"].exp /\ w.snap = a[1]
  BY <1>5 DEF ProcRow
<1>7. ProcFine("job", w)
  BY <1>4, <1>5, <1>6 DEF ProcFine
<1>8. proc' = [proc EXCEPT !["job"] = w]
  BY <1>0, <1>2 DEF ProcsFine
<1> HIDE DEF w
<1>9. ProcsFine'
  BY <1>0, <1>3, <1>7, <1>8, ProcMoves, ProcsAre
<1>10. moves \in Nat
  BY <1>0, MovesAre
<1>11. UNCHANGED moves \/ (moves < SyncMoves /\ moves' = moves + 1)
  BY <1>1, <1>4, <1>10
<1>12. Written
  BY <1>0, <1>3, CalmSub, CalmWritten DEF CalmOk, JobOk, RestFine
<1>13. QED
  BY <1>0, <1>3, <1>9, <1>11, <1>12, ProvStays, ShopStays DEF Effect

\* A step that asks nothing of the provider.
LEMMA StepEffect ==
    ASSUME SyInv, UNCHANGED prov, Written, ProcsFine', ShopOk,
           UNCHANGED moves \/ (moves < SyncMoves /\ moves' = moves + 1)
    PROVE  Effect
BY InvStored, ProvStays DEF Effect

LEMMA JobReadFailsEffect == ASSUME SyInv, NEW late \in BOOLEAN, JobReadFails(late) PROVE Effect
<1> DEFINE e == proc["job"].exp
           kind == proc["job"].kind
<1>0. Stored /\ RestFine /\ ProcsFine /\ ProvFine
  BY InvStored
<1>1. Move /\ End("job") /\ UNCHANGED <<prov, period, shop>>
  BY DEF JobReadFails
<1>2. \/ MissingCycle(e)
      \/ RolloverRetry("job", e)
      \/ PlanChangeRetry(e, FALSE)
      \/ FrozenFailure(e)
      \/ ReinstallFailure(e, late)
      \/ ActivationPostponed(e, late)
  <2>1. CASE kind = "cycle-discovery"
    BY <2>1 DEF JobReadFails
  <2>2. CASE kind = "rollover"
    BY <2>2 DEF JobReadFails
  <2>3. CASE kind = "established-plan-change"
    BY <2>3 DEF JobReadFails
  <2>4. CASE kind = "frozen-reconciliation"
    BY <2>4 DEF JobReadFails
  <2>5. CASE kind = "reinstall"
    BY <2>5 DEF JobReadFails
  <2>6. CASE kind \notin {"cycle-discovery", "rollover", "established-plan-change", "frozen-reconciliation", "reinstall"}
    BY <2>6 DEF JobReadFails
  <2>7. QED
    BY <2>1, <2>2, <2>3, <2>4, <2>5, <2>6
<1> HIDE DEF e
<1>3. CalmOk
  <2>1. CASE MissingCycle(e)
    BY <1>0, <2>1, MissingCycleCalm
  <2>2. CASE RolloverRetry("job", e)
    BY <1>0, <2>2, RolloverRetryCalm
  <2>3. CASE PlanChangeRetry(e, FALSE)
    BY <1>0, <2>3, PlanRetryCalm
  <2>4. CASE FrozenFailure(e)
    BY <1>0, <2>4, CalmSub, CalmWrites DEF FrozenFailure
  <2>5. CASE ReinstallFailure(e, late)
    BY <1>0, <2>5, ReinstallFailureCalm
  <2>6. CASE ActivationPostponed(e, late)
    BY <1>0, <2>6, ActivationPostponedCalm
  <2>7. QED
    BY <1>2, <2>1, <2>2, <2>3, <2>4, <2>5, <2>6
<1>4. Written /\ ProcsFine' /\ ShopOk
  BY <1>0, <1>1, <1>3, CalmWritten, EndFine, ShopStays, ProcsAre
<1>5. QED
  BY <1>1, <1>4, StepEffect DEF Move

\* A plan change ends the job, whatever becomes of it.
LEMMA EndsAfter ==
    ASSUME NEW p, NEW e, NEW s
    PROVE  /\ PlanChange(p, e, s) => End(p)
           /\ \A late : InitialActivation(p, e, s, late) => End(p)
<1>1. ASSUME PlanChange(p, e, s) PROVE End(p)
  <2> DEFINE r == PlanTransition(sub, s, e.plan)
  <2>1. CASE r = "transitioned"
    BY <1>1, <2>1 DEF PlanChange
  <2>2. CASE r = "throws"
    BY <1>1, <2>2 DEF PlanChange, Throws
  <2>3. CASE r \notin {"transitioned", "throws"}
    BY <1>1, <2>3 DEF PlanChange
  <2>4. QED
    BY <2>1, <2>2, <2>3
<1>2. ASSUME NEW late, InitialActivation(p, e, s, late) PROVE End(p)
  BY <1>2 DEF InitialActivation, CompleteVerifiedPaid, Throws
<1>3. QED
  BY <1>1, <1>2

LEMMA JobAppliesEffect ==
    ASSUME SyInv, NEW late \in BOOLEAN, NEW flushed \in BOOLEAN, JobApplies(late, flushed)
    PROVE  Effect
<1> DEFINE e == proc["job"].exp
           s == proc["job"].snap
           kind == proc["job"].kind
<1>0. Stored /\ RestFine /\ ProcsFine /\ ProvFine
  BY InvStored
<1>1. /\ UNCHANGED prov /\ moves \in Nat
      /\ UNCHANGED moves \/ (moves < SyncMoves /\ moves' = moves + 1)
  BY <1>0, MovesAre DEF JobApplies
<1>2. /\ e \in Row /\ AnswerFine(s)
      /\ kind = "rollover" => e.per # 0
      /\ kind = "established-plan-change" => e.eff # 0
  BY <1>0 DEF ProcsFine, Procs, ProcRow
<1>3. \/ CycleStep(kind, e, s, flushed) /\ End("job") /\ UNCHANGED shop
      \/ kind = "established-plan-change" /\ PlanChange("job", e, s) /\ UNCHANGED shop
      \/ ReinstallStep(e, s) /\ End("job")
      \/ InitialActivation("job", e, s, late)
      \/ Keep /\ End("job") /\ UNCHANGED <<period, shop>>
  <2>1. CASE kind \in {"cycle-discovery", "rollover"}
    BY <2>1 DEF JobApplies
  <2>2. CASE kind = "established-plan-change"
    BY <2>2 DEF JobApplies
  <2>3. CASE kind = "reinstall"
    BY <2>3 DEF JobApplies
  <2>4. CASE kind = "initial-activation"
    BY <2>4 DEF JobApplies
  <2>5. CASE kind \notin {"cycle-discovery", "rollover", "established-plan-change", "reinstall", "initial-activation"}
    BY <2>5 DEF JobApplies
  <2>6. QED
    BY <2>1, <2>2, <2>3, <2>4, <2>5
<1> HIDE DEF e, s, kind
<1>4. Written /\ ShopOk /\ End("job")
  <2>1. CASE CycleStep(kind, e, s, flushed) /\ End("job") /\ UNCHANGED shop
    BY <1>0, <1>2, <2>1, CycleSteps, ShopStays
  <2>2. CASE kind = "established-plan-change" /\ PlanChange("job", e, s) /\ UNCHANGED shop
    BY <1>0, <1>2, <2>2, PlanChangeSteps, EndsAfter, ShopStays
  <2>3. CASE ReinstallStep(e, s) /\ End("job")
    BY <1>0, <1>2, <2>3, ReinstallSteps DEF Reopened
  <2>4. CASE InitialActivation("job", e, s, late)
    BY <1>0, <1>2, <2>4, InitialActivates, EndsAfter
  <2>5. CASE Keep /\ End("job") /\ UNCHANGED <<period, shop>>
    BY <1>0, <2>5, CalmWrites, CalmWritten, ShopStays
  <2>6. QED
    BY <1>3, <2>1, <2>2, <2>3, <2>4, <2>5
<1>5. ProcsFine'
  BY <1>0, <1>1, <1>4, EndFine, ProcsAre
<1>6. QED
  BY <1>1, <1>4, <1>5, StepEffect

LEMMA EventEffect == ASSUME SyInv, NEW p \in Procs, Ordered(p) \/ Lived(p) PROVE Effect
<1>0. Stored /\ RestFine /\ ProcsFine /\ ProvFine /\ AnswerFine(proc[p].snap)
  BY InvStored DEF ProcsFine
<1>1. UNCHANGED <<prov, shop, moves>>
  BY DEF Ordered, Lived, SyncRest
<1>2. CASE Ordered(p)
  BY <1>0, <1>1, <1>2, OrderingSteps, ShopStays, StepEffect DEF Ordered
<1>3. CASE Lived(p)
  BY <1>0, <1>1, <1>3, LifecycleSteps, ShopStays, StepEffect DEF Lived
<1>4. QED
  BY <1>2, <1>3

-----------------------------------------------------------------------------
(* The leased scan of all shops.                                           *)

LEMMA ScanReadsEffect == ASSUME SyInv, ScanReads PROVE Effect
<1>0. Stored /\ RestFine /\ ProcsFine /\ ProvFine /\ moves \in Nat
  BY InvStored, MovesAre
<1>1. PICK a \in Answers : /\ moves' = moves + a[2]
                           /\ proc' = [proc EXCEPT !["scan"] = [Idle EXCEPT !.pc = "load", !.snap = a[1]]]
  BY DEF ScanReads
<1>2. UNCHANGED <<prov, sub, period, shop, syncJob>>
  BY DEF ScanReads
<1>3. AnswerFine(a[1]) /\ (a[2] = 0 \/ (a[2] = 1 /\ moves < SyncMoves))
  BY <1>0, AnswersFine
<1> DEFINE w == [Idle EXCEPT !.pc = "load", !.snap = a[1]]
<1>4. w \in ProcRow /\ w.snap = a[1] /\ w.pc = "load"
  BY <1>3, IdleIs DEF ProcRow, AnswerFine, Steps
<1>5. ProcFine("scan", w)
  BY <1>3, <1>4 DEF ProcFine
<1>6. proc' = [proc EXCEPT !["scan"] = w]
  BY <1>1
<1> HIDE DEF w
<1>7. ProcsFine'
  BY <1>0, <1>2, <1>5, <1>6, ProcMoves, ProcsAre
<1>8. Written
  BY <1>0, <1>2, CalmSub, CalmWritten DEF CalmOk, JobOk, RestFine
<1>9. UNCHANGED moves \/ (moves < SyncMoves /\ moves' = moves + 1)
  BY <1>0, <1>1, <1>3
<1>10. QED
  BY <1>0, <1>2, <1>7, <1>8, <1>9, ShopStays, StepEffect

LEMMA ScanReadFailsEffect == ASSUME SyInv, ScanReadFails PROVE Effect
<1>0. Stored /\ RestFine /\ ProcsFine
  BY InvStored
<1>1. Move /\ MarkSyncError /\ End("scan") /\ UNCHANGED <<prov, period, shop>>
  BY DEF ScanReadFails
<1>2. CalmOk
  BY <1>0, <1>1, CalmSub, CalmOps, CalmWrites DEF MarkSyncError
<1>3. QED
  BY <1>0, <1>1, <1>2, CalmWritten, EndFine, ProcsAre, ShopStays, StepEffect DEF Move

LEMMA ScanLoadsEffect == ASSUME SyInv, ScanLoads PROVE Effect
<1>0. Stored /\ RestFine /\ ProcsFine /\ sub \in Row
  BY InvStored DEF Stored, RowFine
<1>1. PICK pc \in {"order", "apply"} : proc' = [proc EXCEPT !["scan"].exp = sub, !["scan"].pc = pc]
  BY DEF ScanLoads
<1>2. UNCHANGED <<prov, sub, period, shop, syncJob, moves>>
  BY DEF ScanLoads
<1> DEFINE w == [proc["scan"] EXCEPT !.exp = sub, !.pc = pc]
<1>3. ProcFine("scan", proc["scan"]) /\ proc["scan"] \in ProcRow /\ pc \in Steps
  BY <1>0, ProcsAre DEF Steps
<1>4. w \in ProcRow /\ w.snap = proc["scan"].snap /\ w.pc # "cycle"
  BY <1>0, <1>3 DEF ProcRow
<1>5. ProcFine("scan", w)
  BY <1>3, <1>4 DEF ProcFine
<1>6. proc' = [proc EXCEPT !["scan"] = w]
  BY <1>0, <1>1 DEF ProcsFine
<1> HIDE DEF w
<1>7. ProcsFine'
  BY <1>0, <1>2, <1>5, <1>6, ProcMoves, ProcsAre
<1>8. Written
  BY <1>0, <1>2, CalmSub, CalmWritten DEF CalmOk, JobOk, RestFine
<1>9. QED
  BY <1>0, <1>2, <1>7, <1>8, ShopStays, StepEffect

LEMMA ObservedFailureCalm == ASSUME Stored, RestFine, NEW e, ObservedFailure(e) PROVE CalmOk
BY StuckCalm, CalmWrites DEF ObservedFailure, Statuses

LEMMA ExpectedTargetSteps ==
    ASSUME Stored, RestFine, NEW e, NEW s, AnswerFine(s), ExpectedTarget(e, s)
    PROVE  Written /\ End("scan")
<1> DEFINE r == PlanTransition(sub, s, e.plan)
<1>1. \/ ObservedFailure(e) /\ UNCHANGED period /\ End("scan")
      \/ Keep /\ UNCHANGED period /\ End("scan")
      \/ /\ r = "transitioned" /\ Save(Serves(sub, s, DrainOf("scan", s.cyc)), DrainOf("scan", s.cyc))
         /\ period' = Moved(s) /\ End("scan")
      \/ Throws("scan")
  <2>1. CASE r = "transitioned"
    BY <2>1 DEF ExpectedTarget
  <2>2. CASE r = "throws"
    BY <2>2 DEF ExpectedTarget
  <2>3. CASE r \notin {"transitioned", "throws"}
    BY <2>3 DEF ExpectedTarget
  <2>4. QED
    BY <2>1, <2>2, <2>3
<1>2. CASE ObservedFailure(e) /\ UNCHANGED period /\ End("scan")
  BY <1>2, ObservedFailureCalm, CalmWritten
<1>3. CASE Keep /\ UNCHANGED period /\ End("scan")
  BY <1>3, CalmWrites, CalmWritten
<1>4. CASE /\ r = "transitioned" /\ Save(Serves(sub, s, DrainOf("scan", s.cyc)), DrainOf("scan", s.cyc))
           /\ period' = Moved(s) /\ End("scan")
  BY <1>4, PlanChanges
<1>5. CASE Throws("scan")
  BY <1>5, ThrowsCalm, CalmWritten DEF Throws
<1>6. QED
  BY <1>1, <1>2, <1>3, <1>4, <1>5

LEMMA PlanObserved ==
    ASSUME Stored, RestFine, NEW e, NEW s, AnswerFine(s), EstablishedPlanObservation(e, s)
    PROVE  Written /\ End("scan")
<1>1. CASE s.plan = e.pend
  BY <1>1, ExpectedTargetSteps DEF EstablishedPlanObservation
<1>2. CASE s.plan # e.pend /\ s.plan = "x"
  BY <1>2, UnmappedCalm, CalmWrites, CalmWritten DEF EstablishedPlanObservation
<1>3. CASE s.plan # e.pend /\ s.plan # "x"
  BY <1>3, ObservedFailureCalm, CalmWritten DEF EstablishedPlanObservation
<1>4. QED
  BY <1>1, <1>2, <1>3

LEMMA GenericProjected ==
    ASSUME Stored, RestFine, NEW e, NEW s, AnswerFine(s), GenericProjection(e, s)
    PROVE  Written
<1> DEFINE active == ObservedStatus(s) = "ACTIVE"
<1>0. s \in Answer /\ (s.cyc # 0 => s.cyc \in Cycles) /\ Never \in Instants
  BY Ranges, InstantsAre DEF AnswerFine, Answer
<1>1. CASE ~active
  <2>1. Write([Observed(s) EXCEPT !.per = 0]) /\ UNCHANGED period
    BY <1>1 DEF GenericProjection, Observed
  <2>2. Left([Observed(s) EXCEPT !.per = 0])
    BY <1>0, ObservedOps
  <2>3. QED
    BY <2>1, <2>2, LeftWritten DEF Write, JobOk, RestFine
<1>2. CASE active /\ ~UnchangedRow(e)
  BY <1>2, CalmWrites, CalmWritten DEF GenericProjection
<1>3. CASE active /\ UnchangedRow(e) /\ (s.cyc = 0 \/ ~Compatible(s.cyc, s.plan))
  BY <1>3, StuckCalm, CalmWritten DEF GenericProjection, Statuses
<1>4. CASE active /\ UnchangedRow(e) /\ ~(s.cyc = 0 \/ ~Compatible(s.cyc, s.plan))
  <2>1. Write([Observed(s) EXCEPT !.per = s.cyc]) /\ period' = Opened(s)
    BY <1>4 DEF GenericProjection, Observed
  <2>2. ServedFrom([Observed(s) EXCEPT !.per = s.cyc], s.cyc, s.plan)
    BY <1>0, <1>4, ObservedOps
  <2>3. s.plan \in Mapped
    BY <1>0, <1>4, ObservedIs
  <2>4. ServedFrom(sub', s.cyc, s.plan) /\ JobOk
    BY <2>1, <2>2 DEF Write, JobOk, RestFine
  <2>5. QED
    BY <1>0, <1>4, <2>1, <2>3, <2>4, CompatibleServes, OpenedServes DEF Written
<1>5. QED
  BY <1>1, <1>2, <1>3, <1>4

LEMMA ProviderAbsentCalm == ASSUME Stored, RestFine, NEW e, ProviderAbsent(e) PROVE CalmOk
BY CalmSub, CalmOps, CalmWrites, FreshIs DEF ProviderAbsent

\* The scan of a row the provider says the same plan of goes on with it.
LEMMA GoOnScan ==
    ASSUME ProcsFine, UNCHANGED prov, proc["scan"].snap.plan # "none",
           proc["scan"].snap.plan = proc["scan"].exp.plan,
           GoOn("scan", IF proc["scan"].snap.cyc # 0 /\ proc["scan"].snap.cyc = proc["scan"].exp.cyc
                        THEN "cycle" ELSE "progress")
    PROVE  ProcsFine'
<1> DEFINE same == proc["scan"].snap.cyc # 0 /\ proc["scan"].snap.cyc = proc["scan"].exp.cyc
           pc == IF same THEN "cycle" ELSE "progress"
           w == [proc["scan"] EXCEPT !.pc = pc]
<1>1. ProcFine("scan", proc["scan"]) /\ proc["scan"] \in ProcRow /\ pc \in Steps
  BY ProcsAre DEF Steps
<1>2. pc = "cycle" => same
  OBVIOUS
<1>3. proc' = [proc EXCEPT !["scan"] = w]
  BY DEF GoOn
<1> HIDE DEF pc
<1>4. w \in ProcRow /\ w.kind = proc["scan"].kind /\ w.exp = proc["scan"].exp /\ w.snap = proc["scan"].snap /\ w.pc = pc
  BY <1>1 DEF ProcRow
<1> HIDE DEF w
<1>5. ProcFine("scan", w)
  BY <1>1, <1>2, <1>4 DEF ProcFine
<1>6. QED
  BY <1>3, <1>5, ProcMoves, ProcsAre

LEMMA ScanAppliesEffect == ASSUME SyInv, ScanApplies PROVE Effect
<1> DEFINE e == proc["scan"].exp
           s == proc["scan"].snap
           chosen == e.st = "NO_CONTRACT" /\ e.plan = "none" /\ e.pend = s.plan
           planned == e.plan # "none" /\ e.pend \in Mapped /\ e.eff # 0 /\ s.plan # e.plan
           pc == IF s.cyc # 0 /\ s.cyc = e.cyc THEN "cycle" ELSE "progress"
<1>0. Stored /\ RestFine /\ ProcsFine /\ AnswerFine(s) /\ "scan" \in Procs
  BY InvStored DEF ProcsFine, Procs
<1>1. UNCHANGED prov /\ UNCHANGED moves
  BY DEF ScanApplies
<1>2. \/ ProviderAbsent(e) /\ End("scan") /\ UNCHANGED <<period, shop>>
      \/ s.plan = "paid" /\ \E late \in BOOLEAN : CompleteVerifiedPaid("scan", e, s, late)
      \/ Keep /\ End("scan") /\ UNCHANGED <<period, shop>>
      \/ EstablishedPlanObservation(e, s) /\ UNCHANGED shop
      \/ GenericProjection(e, s) /\ End("scan") /\ UNCHANGED shop
      \/ s.plan # "none" /\ s.plan = e.plan /\ Keep /\ UNCHANGED period /\ GoOn("scan", pc) /\ UNCHANGED shop
  BY DEF ScanApplies
<1>3. CASE ProviderAbsent(e) /\ End("scan") /\ UNCHANGED <<period, shop>>
  BY <1>0, <1>1, <1>3, ProviderAbsentCalm, CalmWritten, EndFine, ShopStays, StepEffect
<1>4. CASE s.plan = "paid" /\ \E late \in BOOLEAN : CompleteVerifiedPaid("scan", e, s, late)
  <2>1. PICK late \in BOOLEAN : CompleteVerifiedPaid("scan", e, s, late)
    BY <1>4
  <2>2. End("scan")
    BY <2>1 DEF CompleteVerifiedPaid, Throws
  <2>3. Written /\ ShopOk
    BY <1>0, <1>4, <2>1, PaidActivates
  <2>4. QED
    BY <1>0, <1>1, <2>2, <2>3, EndFine, StepEffect
<1>5. CASE Keep /\ End("scan") /\ UNCHANGED <<period, shop>>
  BY <1>0, <1>1, <1>5, CalmWrites, CalmWritten, EndFine, ShopStays, StepEffect
<1>6. CASE EstablishedPlanObservation(e, s) /\ UNCHANGED shop
  BY <1>0, <1>1, <1>6, PlanObserved, EndFine, ShopStays, StepEffect
<1>7. CASE GenericProjection(e, s) /\ End("scan") /\ UNCHANGED shop
  BY <1>0, <1>1, <1>7, GenericProjected, EndFine, ShopStays, StepEffect
<1>8. CASE s.plan # "none" /\ s.plan = e.plan /\ Keep /\ UNCHANGED period /\ GoOn("scan", pc) /\ UNCHANGED shop
  BY <1>0, <1>1, <1>8, CalmWrites, CalmWritten, GoOnScan, ShopStays, StepEffect
<1>9. QED
  BY <1>2, <1>3, <1>4, <1>5, <1>6, <1>7, <1>8

LEMMA ScanCycleEffect == ASSUME SyInv, ScanCycle PROVE Effect
<1> DEFINE e == proc["scan"].exp
           s == proc["scan"].snap
           same == sub.st = e.st /\ sub.plan = e.plan /\ sub.per = e.per /\ sub.cyc = e.cyc /\ sub.next = e.next
<1>0. /\ Stored /\ RestFine /\ ProcsFine /\ "scan" \in Procs /\ AnswerFine(s) /\ s \in Answer
      /\ s.plan = e.plan /\ s.plan # "none" /\ s.cyc = e.cyc /\ s.cyc # 0
  BY InvStored DEF ProcsFine, Procs, ScanCycle, AnswerFine
<1>1. UNCHANGED <<prov, shop, moves>>
  BY DEF ScanCycle, SyncRest
<1>2. CASE ~same
  BY <1>0, <1>1, <1>2, CalmWrites, CalmWritten, EndFine, ShopStays, StepEffect DEF ScanCycle
<1>3. CASE same /\ ~Compatible(s.cyc, s.plan)
  BY <1>0, <1>1, <1>3, StuckCalm, CalmWritten, EndFine, ShopStays, StepEffect DEF ScanCycle, Statuses
<1>4. CASE same /\ Compatible(s.cyc, s.plan)
  <2> DEFINE new == [sub EXCEPT !.st = ObservedStatus(s), !.per = s.cyc]
  <2>1. Write(new) /\ period' = Opened(s) /\ GoOn("scan", "progress")
    BY <1>4 DEF ScanCycle
  <2>2. /\ s.cyc \in Cycles /\ s.cyc \in Numbers /\ sub \in Row /\ sub.ev \in Nat /\ sub.ev <= prov.ev
        /\ sub.plan = s.plan /\ sub.cyc = s.cyc /\ s.plan \in Mapped
    BY <1>0, <1>4, Ranges DEF Answer, Stored, RowFine, Row
  <2>3. ObservedStatus(s) \in Statuses
    BY <1>0, ObservedIs
  <2>4. new \in Row /\ new.per = s.cyc /\ new.cyc = s.cyc /\ new.plan = s.plan /\ new.ev = sub.ev
    BY <2>2, <2>3 DEF Row
  <2> HIDE DEF new
  <2>5. ServedFrom(sub', s.cyc, s.plan) /\ JobOk
    BY <1>0, <2>1, <2>2, <2>4 DEF Write, JobOk, RestFine, ServedFrom, Onward
  <2>6. Written
    BY <1>0, <1>4, <2>1, <2>2, <2>5, CompatibleServes, OpenedServes DEF Written
  <2>7. ProcsFine'
    BY <1>0, <1>1, <2>1, GoOnFine DEF Steps
  <2>8. QED
    BY <1>0, <1>1, <2>6, <2>7, ShopStays, StepEffect
<1>5. QED
  BY <1>2, <1>3, <1>4

LEMMA ScanProgressEffect == ASSUME SyInv, ScanProgress PROVE Effect
<1> DEFINE e == proc["scan"].exp
           s == proc["scan"].snap
           r == SamePlanRollover(sub, s, e.plan)
           next == IF s.pend \in SyncPlans THEN <<"end", s.cyc>> ELSE NextBoundary(s.cyc)
<1>0. Stored /\ RestFine /\ ProcsFine /\ "scan" \in Procs /\ AnswerFine(s) /\ s \in Answer
  BY InvStored DEF ProcsFine, Procs, AnswerFine
<1>1. UNCHANGED <<prov, shop, moves>>
  BY DEF ScanProgress, SyncRest
<1>2. \/ /\ ChangesAtEnd(e, s) /\ UNCHANGED period /\ End("scan")
         /\ Save([PendingOf(sub, s) EXCEPT !.next = next], next) \/ Keep
      \/ r = "transitioned" /\ Save(RolledOver("scan", sub, s), Never) /\ period' = Moved(s) /\ End("scan")
      \/ Throws("scan")
      \/ RolloverRetry("scan", e) /\ UNCHANGED period /\ End("scan")
      \/ Keep /\ UNCHANGED period /\ End("scan")
  <2>1. CASE r = "transitioned"
    BY <2>1 DEF ScanProgress
  <2>2. CASE r = "throws"
    BY <2>2 DEF ScanProgress
  <2>3. CASE r = "lag"
    BY <2>3 DEF ScanProgress
  <2>4. CASE r \notin {"transitioned", "throws", "lag"}
    BY <2>4 DEF ScanProgress
  <2>5. QED
    BY <2>1, <2>2, <2>3, <2>4
<1>3. End("scan")
  BY <1>2 DEF Throws
<1>4. Written
  <2>1. CASE /\ ChangesAtEnd(e, s) /\ UNCHANGED period /\ End("scan")
             /\ Save([PendingOf(sub, s) EXCEPT !.next = next], next) \/ Keep
    <3>1. next \in Instants
      BY <1>0, <2>1, Ranges, InstantsAre, BoundariesAre DEF ChangesAtEnd, Answer
    <3> HIDE DEF next
    <3>2. Calm([PendingOf(sub, s) EXCEPT !.next = next])
      BY <1>0, <3>1, CalmNext
    <3>3. QED
      BY <1>0, <2>1, <3>2, CalmWrites, CalmWritten
  <2>2. CASE r = "transitioned" /\ Save(RolledOver("scan", sub, s), Never) /\ period' = Moved(s) /\ End("scan")
    BY <1>0, <2>2, RollsOver
  <2>3. CASE Throws("scan")
    BY <1>0, <2>3, ThrowsCalm, CalmWritten
  <2>4. CASE RolloverRetry("scan", e) /\ UNCHANGED period /\ End("scan")
    BY <1>0, <2>4, RolloverRetryCalm, CalmWritten
  <2>5. CASE Keep /\ UNCHANGED period /\ End("scan")
    BY <1>0, <2>5, CalmWrites, CalmWritten
  <2>6. QED
    BY <1>2, <2>1, <2>2, <2>3, <2>4, <2>5
<1>5. QED
  BY <1>0, <1>1, <1>3, <1>4, EndFine, ShopStays, StepEffect

LEMMA ReconstructEffect == ASSUME SyInv, Reconstruct PROVE Effect
<1>0. Stored /\ RestFine /\ ProcsFine /\ "scan" \in Procs /\ "idle" \in Steps \ {"cycle"}
  BY InvStored DEF Procs, Steps
<1>1. /\ UNCHANGED <<period, prov, shop, moves>> /\ GoOn("scan", "idle")
      /\ Keep \/ Republish
  BY DEF Reconstruct, SyncRest
<1>2. QED
  BY <1>0, <1>1, CalmWrites, CalmWritten, GoOnFine, ShopStays, StepEffect

-----------------------------------------------------------------------------
(* The merchant, the provider, and the faults.                             *)

\* The provider moves; row, jobs and processes stay.
LEMMA OutsideEffect ==
    ASSUME SyInv, UNCHANGED <<sub, syncJob, period, proc>>, ShopOk, ProvFine', moves' \in 0 .. SyncMoves,
           prov'.ev \in Nat, prov.ev <= prov'.ev
    PROVE  Effect
<1>0. Stored /\ RestFine /\ ProcsFine /\ prov.ev \in Nat
  BY InvStored DEF Stored
<1>1. Written
  BY <1>0, CalmSub, CalmWritten DEF CalmOk, JobOk, RestFine
<1>2. ProcsFine'
  <2>1. \A p \in Procs : AnswerFine(proc[p].snap)
    BY <1>0 DEF ProcsFine
  <2>2. \A p \in Procs : proc[p].snap.ev \in Nat
    BY <2>1 DEF AnswerFine, Answer
  <2>3. (\A p \in Procs : AnswerFine(proc[p].snap))'
    BY <1>0, <2>1, <2>2 DEF AnswerFine
  <2>4. QED
    BY <1>0, <2>3 DEF ProcsFine
<1>3. QED
  BY <1>1, <1>2 DEF Effect

\* The provider's side, field by field.
LEMMA ProvIs ==
    ASSUME ProvFine, RestFine
    PROVE  /\ prov.plan \in SyncPlans \cup {"none"} /\ prov.cyc \in Numbers /\ prov.cyc \in Nat /\ prov.ev \in Nat
           /\ moves \in Nat /\ Owed(TRUE) = 1 /\ Owed(FALSE) = 0
           /\ Owed(prov.frozen) \in {0, 1} /\ Owed(prov.pend = "cancel") \in {0, 1}
           /\ prov.ev + Owed(prov.frozen) + Owed(prov.pend = "cancel") <= 2 * moves + 1
           /\ SyncPlans \subseteq Announcements \ {"none", "cancel"} /\ {"none", "cancel"} \subseteq Announcements
           /\ "none" \notin SyncPlans
<1>1. prov \in ProvRow /\ prov.ev + Owed(prov.frozen) + Owed(prov.pend = "cancel") <= 2 * moves + 1 /\ moves \in Nat
  BY DEF ProvFine, RestFine
<1>2. prov.plan \in SyncPlans \cup {"none"} /\ prov.cyc \in Numbers /\ prov.cyc \in Nat /\ prov.ev \in Nat
  BY <1>1, Ranges DEF ProvRow
<1>3. Owed(TRUE) = 1 /\ Owed(FALSE) = 0 /\ Owed(prov.frozen) \in {0, 1} /\ Owed(prov.pend = "cancel") \in {0, 1}
  BY DEF Owed
<1>4. /\ SyncPlans \subseteq Announcements \ {"none", "cancel"} /\ {"none", "cancel"} \subseteq Announcements
      /\ "none" \notin SyncPlans
  BY DEF Announcements, SyncPlans, Mapped
<1>5. QED
  BY <1>1, <1>2, <1>3, <1>4

LEMMA EventIs ==
    ASSUME prov \in ProvRow, NEW state \in States
    PROVE  /\ Event(state) \in ProvRow /\ Event(state).ev = prov.ev + 1 /\ Event(state).plan = prov.plan
           /\ Event(state).cyc = prov.cyc /\ Event(state).pend = prov.pend /\ Event(state).frozen = prov.frozen
<1>1. prov.ev + 1 \in Nat
  BY DEF ProvRow
<1>2. Event(state) = [prov EXCEPT !.ev = prov.ev + 1, !.state = state]
  BY DEF Event
<1> DEFINE n == prov.ev + 1
<1> HIDE DEF n
<1>3. n \in Nat /\ Event(state) = [prov EXCEPT !.ev = n, !.state = state]
  BY <1>1, <1>2 DEF n
<1>4. Event(state) \in ProvRow
  BY <1>3 DEF ProvRow
<1>5. /\ Event(state).ev = n /\ Event(state).plan = prov.plan /\ Event(state).cyc = prov.cyc
      /\ Event(state).pend = prov.pend /\ Event(state).frozen = prov.frozen
  BY <1>3 DEF ProvRow
<1>6. QED
  BY <1>4, <1>5 DEF n

\* What a provider's side must be to be fine, apart from its type.
LEMMA ProvMoves ==
    ASSUME ProvFine, RestFine, NEW m \in Nat, moves' = m, prov' \in ProvRow,
           prov'.ev + Owed(prov'.frozen) + Owed(prov'.pend = "cancel") <= 2 * m + 1,
           prov'.plan = "none" => prov'.pend = "none" /\ ~prov'.frozen,
           prov'.plan # "none" => prov'.cyc # 0
    PROVE  ProvFine' /\ prov'.ev \in Nat
BY DEF ProvFine, Owed, ProvRow

LEMMA ChoosePlanEffect == ASSUME SyInv, NEW q \in Mapped, ChoosePlan(q) PROVE Effect
<1>0. Stored /\ RestFine /\ ProcsFine
  BY InvStored
<1>1. UNCHANGED <<prov, shop, moves, period, proc>> /\ JobOk
  BY DEF ChoosePlan, Outside, JobOk
<1> DEFINE t == Fresh("web")
<1>2. sub' = [sub EXCEPT !.pend = q, !.next = t] /\ t \in Instants /\ q \in Announcements
  BY FreshIs DEF ChoosePlan, Announcements, SyncPlans
<1> HIDE DEF t
<1>3. Calm(sub)
  BY <1>0, CalmSub
<1>4. sub' \in Row
  BY <1>2, <1>3 DEF Calm, Onward, Row
<1>5. Calm(sub')
  BY <1>2, <1>3, <1>4 DEF Calm, Onward, Row
<1>6. Written
  BY <1>1, <1>5, CalmWritten DEF CalmOk
<1>7. ProcsFine'
  BY <1>0, <1>1 DEF ProcsFine, AnswerFine
<1>8. QED
  BY <1>0, <1>1, <1>6, <1>7, ShopStays, StepEffect

LEMMA ReinstallEffect == ASSUME SyInv, Reinstall PROVE Effect
<1>0. Stored /\ RestFine /\ ProcsFine
  BY InvStored
<1>1. UNCHANGED <<prov, moves, period, proc>> /\ JobOk /\ ShopOk
  BY <1>0 DEF Reinstall, Outside, JobOk, ShopOk, RestFine
<1>2. Calm(sub')
  BY <1>0, CalmSub, CalmOps, FreshIs DEF Reinstall
<1>3. Written
  BY <1>1, <1>2, CalmWritten DEF CalmOk
<1>4. ProcsFine'
  BY <1>0, <1>1 DEF ProcsFine, AnswerFine
<1>5. QED
  BY <1>0, <1>1, <1>3, <1>4, StepEffect

LEMMA UninstallEffect == ASSUME SyInv, Uninstall PROVE Effect
<1>0. Stored /\ RestFine /\ ProcsFine
  BY InvStored
<1>1. UNCHANGED <<prov, sub, syncJob, period, proc>> /\ Move /\ ShopOk
  BY <1>0 DEF Uninstall, Outside, ShopOk, RestFine
<1>2. Written
  BY <1>0, <1>1, CalmSub, CalmWritten DEF CalmOk, JobOk, RestFine
<1>3. ProcsFine'
  BY <1>0, <1>1 DEF ProcsFine, AnswerFine
<1>4. QED
  BY <1>0, <1>1, <1>2, <1>3, StepEffect DEF Move

LEMMA FaultEffect == ASSUME SyInv, LoseJob \/ JobCrashes PROVE Effect
<1>0. Stored /\ RestFine /\ ProcsFine /\ "job" \in Procs
  BY InvStored DEF Procs
<1>1. UNCHANGED <<prov, sub, period, shop>> /\ Move /\ JobOk
  BY <1>0 DEF LoseJob, JobCrashes, JobOk, RestFine
<1>2. Written
  BY <1>0, <1>1, CalmSub, CalmWritten DEF CalmOk
<1>3. CASE LoseJob
  <2>1. ProcsFine'
    BY <1>0, <1>1, <1>3 DEF LoseJob, ProcsFine, AnswerFine
  <2>2. QED
    BY <1>0, <1>1, <1>2, <2>1, ShopStays, StepEffect DEF Move
<1>4. CASE JobCrashes
  <2>1. End("job")
    BY <1>4 DEF JobCrashes, End
  <2>2. QED
    BY <1>0, <1>1, <1>2, <2>1, EndFine, ShopStays, StepEffect DEF Move
<1>5. QED
  BY <1>3, <1>4

\* A move of the provider whose new side is fine.
LEMMA ProviderEffect ==
    ASSUME SyInv, UNCHANGED <<sub, syncJob, period, proc, shop>>, moves' = moves \/ Move, prov' \in ProvRow,
           prov'.ev + Owed(prov'.frozen) + Owed(prov'.pend = "cancel") <= 2 * moves' + 1,
           prov'.plan = "none" => prov'.pend = "none" /\ ~prov'.frozen,
           prov'.plan # "none" => prov'.cyc # 0, prov.ev <= prov'.ev
    PROVE  Effect
<1>0. ProvFine /\ RestFine /\ moves' \in 0 .. SyncMoves /\ moves' \in Nat
  <2>1. ProvFine /\ RestFine
    BY InvStored
  <2>2. moves' \in 0 .. SyncMoves
    BY <2>1, MovesAre DEF Move
  <2>3. QED
    BY <2>1, <2>2
<1> DEFINE m == moves'
<1>1. m \in Nat /\ prov'.ev + Owed(prov'.frozen) + Owed(prov'.pend = "cancel") <= 2 * m + 1
  BY <1>0
<1>2. ProvFine' /\ prov'.ev \in Nat
  BY <1>0, <1>1, ProvMoves
<1>3. QED
  BY <1>0, <1>2, ShopStays, OutsideEffect

LEMMA SubscribeEffect == ASSUME SyInv, NEW q \in SyncPlans, Subscribe(q) PROVE Effect
<1>0. ProvFine /\ RestFine /\ prov \in ProvRow
  BY InvStored DEF ProvFine
<1>1. Move /\ prov.plan = "none" /\ prov.cyc < MaxCycle /\ UNCHANGED <<sub, syncJob, period, proc, shop>>
  BY DEF Subscribe, Outside
<1> DEFINE v == Event("OTHER")
           n == v.cyc + 1
<1>2. /\ v \in ProvRow /\ v.ev = prov.ev + 1 /\ v.plan = prov.plan /\ v.cyc = prov.cyc
      /\ v.pend = prov.pend /\ v.frozen = prov.frozen
  BY <1>0, EventIs DEF States
<1>3. n \in Numbers /\ n # 0
  BY <1>0, <1>1, <1>2, ProvIs, Ranges
<1>4. prov' = [v EXCEPT !.plan = q, !.cyc = n, !.phase = "early", !.pend = "none", !.frozen = FALSE]
  BY DEF Subscribe
<1>5. "none" \in Announcements /\ q # "none" /\ prov.ev \in Nat
  BY <1>0, ProvIs
<1> HIDE DEF v, n
<1>6. prov' \in ProvRow /\ prov'.ev = v.ev /\ prov'.plan = q /\ prov'.cyc = n /\ prov'.pend = "none" /\ ~prov'.frozen
  BY <1>2, <1>3, <1>4, <1>5 DEF ProvRow
<1>7. prov'.ev + Owed(prov'.frozen) + Owed(prov'.pend = "cancel") <= 2 * moves' + 1
  BY <1>0, <1>1, <1>2, <1>6, ProvIs DEF Move, Owed
<1>8. prov.ev <= prov'.ev
  BY <1>2, <1>5, <1>6
<1>9. QED
  BY <1>1, <1>3, <1>5, <1>6, <1>7, <1>8, ProviderEffect

LEMMA AnnounceEffect == ASSUME SyInv, NEW q \in SyncPlans \cup {"cancel"}, Announce(q) PROVE Effect
<1>0. ProvFine /\ RestFine /\ prov \in ProvRow
  BY InvStored DEF ProvFine
<1>1. Move /\ prov.plan # "none" /\ ~prov.frozen /\ UNCHANGED <<sub, syncJob, period, proc, shop>>
  BY DEF Announce, Outside
<1>2. prov' = [prov EXCEPT !.pend = q] /\ q \in Announcements
  BY DEF Announce, Announcements
<1>3. /\ prov' \in ProvRow /\ prov'.ev = prov.ev /\ prov'.plan = prov.plan /\ prov'.cyc = prov.cyc
      /\ prov'.frozen = prov.frozen /\ prov'.pend = q
  BY <1>0, <1>2 DEF ProvRow
<1>4. prov'.ev + Owed(prov'.frozen) + Owed(prov'.pend = "cancel") <= 2 * moves' + 1
  BY <1>0, <1>1, <1>3, ProvIs DEF Move, Owed
<1>5. prov.plan # "none" => prov.cyc # 0
  BY <1>0 DEF ProvFine
<1>6. prov.ev <= prov'.ev
  BY <1>0, <1>3, ProvIs
<1>7. QED
  BY <1>1, <1>3, <1>4, <1>5, <1>6, ProviderEffect

LEMMA ChangeAtOnceEffect == ASSUME SyInv, NEW q \in SyncPlans, ChangeAtOnce(q) PROVE Effect
<1>0. ProvFine /\ RestFine /\ prov \in ProvRow
  BY InvStored DEF ProvFine
<1>1. Move /\ prov.plan # "none" /\ ~prov.frozen /\ UNCHANGED <<sub, syncJob, period, proc, shop>>
  BY DEF ChangeAtOnce, Outside
<1>2. prov' = [prov EXCEPT !.plan = q, !.pend = "none"] /\ "none" \in Announcements
  BY DEF ChangeAtOnce, Announcements
<1>3. /\ prov' \in ProvRow /\ prov'.ev = prov.ev /\ prov'.plan = q /\ prov'.cyc = prov.cyc
      /\ prov'.frozen = prov.frozen /\ prov'.pend = "none"
  BY <1>0, <1>2 DEF ProvRow
<1>4. prov'.ev + Owed(prov'.frozen) + Owed(prov'.pend = "cancel") <= 2 * moves' + 1
  BY <1>0, <1>1, <1>3, ProvIs DEF Move, Owed
<1>5. prov.cyc # 0
  BY <1>0, <1>1 DEF ProvFine
<1>6. prov.ev <= prov'.ev
  BY <1>0, <1>3, ProvIs
<1>7. QED
  BY <1>1, <1>3, <1>4, <1>5, <1>6, ProviderEffect

LEMMA FreezeEffect == ASSUME SyInv, Freeze \/ Thaw PROVE Effect
<1>0. ProvFine /\ RestFine /\ prov \in ProvRow
  BY InvStored DEF ProvFine
<1> DEFINE v == IF Freeze THEN Event("FROZEN") ELSE Event("UNFROZEN")
<1>1. /\ UNCHANGED <<sub, syncJob, period, proc, shop>> /\ prov.plan # "none" /\ prov.cyc # 0
      /\ \/ Move /\ ~prov.frozen /\ prov' = [v EXCEPT !.frozen = TRUE]
         \/ moves' = moves /\ prov.frozen /\ prov' = [v EXCEPT !.frozen = FALSE]
  BY <1>0 DEF Freeze, Thaw, Outside, ProvFine
<1>2. /\ v \in ProvRow /\ v.ev = prov.ev + 1 /\ v.plan = prov.plan /\ v.cyc = prov.cyc
      /\ v.pend = prov.pend /\ v.frozen = prov.frozen
  BY <1>0, EventIs DEF States
<1> HIDE DEF v
<1>3. /\ prov' \in ProvRow /\ prov'.ev = prov.ev + 1 /\ prov'.plan = prov.plan /\ prov'.cyc = prov.cyc
      /\ prov'.pend = prov.pend
      /\ \/ Move /\ ~prov.frozen /\ prov'.frozen
         \/ moves' = moves /\ prov.frozen /\ ~prov'.frozen
  BY <1>1, <1>2 DEF ProvRow
<1>4. prov'.ev + Owed(prov'.frozen) + Owed(prov'.pend = "cancel") <= 2 * moves' + 1
  BY <1>0, <1>3, ProvIs DEF Move, Owed
<1>5. prov.ev <= prov'.ev
  BY <1>0, <1>3, ProvIs
<1>6. QED
  BY <1>1, <1>3, <1>4, <1>5, ProviderEffect

LEMMA CancelContractEffect == ASSUME SyInv, CancelContract PROVE Effect
<1>0. ProvFine /\ RestFine /\ prov \in ProvRow
  BY InvStored DEF ProvFine
<1> DEFINE v == Event("CANCELED")
<1>1. /\ Move /\ UNCHANGED <<sub, syncJob, period, proc, shop>>
      /\ prov' = [v EXCEPT !.plan = "none", !.pend = "none", !.frozen = FALSE]
  BY DEF CancelContract, Outside
<1>2. v \in ProvRow /\ v.ev = prov.ev + 1 /\ "none" \in Announcements
  BY <1>0, EventIs DEF States, Announcements
<1> HIDE DEF v
<1>3. prov' \in ProvRow /\ prov'.ev = prov.ev + 1 /\ prov'.plan = "none" /\ prov'.pend = "none" /\ ~prov'.frozen
  BY <1>1, <1>2 DEF ProvRow
<1>4. prov'.ev + Owed(prov'.frozen) + Owed(prov'.pend = "cancel") <= 2 * moves' + 1
  BY <1>0, <1>1, <1>3, ProvIs DEF Move, Owed
<1>5. prov.ev <= prov'.ev
  BY <1>0, <1>3, ProvIs
<1>6. QED
  BY <1>1, <1>3, <1>4, <1>5, ProviderEffect

LEMMA PhasePassesEffect == ASSUME SyInv, PhasePasses PROVE Effect
<1>0. ProvFine /\ RestFine /\ prov \in ProvRow
  BY InvStored DEF ProvFine
<1>1. UNCHANGED <<sub, syncJob, period, proc, shop, moves>>
  BY DEF PhasePasses, Outside
<1>2. PICK phase \in {"early", "drain", "over"} : prov' = [prov EXCEPT !.phase = phase]
  BY DEF PhasePasses
<1>3. /\ prov' \in ProvRow /\ prov'.ev = prov.ev /\ prov'.plan = prov.plan /\ prov'.cyc = prov.cyc
      /\ prov'.frozen = prov.frozen /\ prov'.pend = prov.pend
  BY <1>0, <1>2 DEF ProvRow
<1>4. prov'.ev + Owed(prov'.frozen) + Owed(prov'.pend = "cancel") <= 2 * moves' + 1
  BY <1>0, <1>1, <1>3, ProvIs
<1>5. /\ prov.plan = "none" => prov.pend = "none" /\ ~prov.frozen
      /\ prov.plan # "none" => prov.cyc # 0
  BY <1>0 DEF ProvFine
<1>6. prov.ev <= prov'.ev
  BY <1>0, <1>3, ProvIs
<1>7. QED
  BY <1>1, <1>3, <1>4, <1>5, <1>6, ProviderEffect

LEMMA RenewEffect == ASSUME SyInv, Renew PROVE Effect
<1>0. ProvFine /\ RestFine /\ prov \in ProvRow
  BY InvStored DEF ProvFine
<1>1. UNCHANGED <<sub, syncJob, period, proc, shop, moves>> /\ prov.plan # "none" /\ prov.cyc < MaxCycle /\ ~prov.frozen
  BY DEF Renew, Outside
<1>2. CASE prov.pend = "cancel"
  <2> DEFINE v == Event("CANCELED")
  <2>1. prov' = [v EXCEPT !.plan = "none", !.pend = "none"]
    BY <1>2 DEF Renew
  <2>2. v \in ProvRow /\ v.ev = prov.ev + 1 /\ v.frozen = prov.frozen /\ "none" \in Announcements
    BY <1>0, EventIs DEF States, Announcements
  <2> HIDE DEF v
  <2>3. prov' \in ProvRow /\ prov'.ev = prov.ev + 1 /\ prov'.plan = "none" /\ prov'.pend = "none" /\ ~prov'.frozen
    BY <1>1, <2>1, <2>2 DEF ProvRow
  <2>4. prov'.ev + Owed(prov'.frozen) + Owed(prov'.pend = "cancel") <= 2 * moves' + 1
    BY <1>0, <1>1, <1>2, <2>3, ProvIs DEF Owed
  <2>5. prov.ev <= prov'.ev
    BY <1>0, <2>3, ProvIs
  <2>6. QED
    BY <1>1, <2>3, <2>4, <2>5, ProviderEffect
<1>3. CASE prov.pend # "cancel"
  <2> DEFINE n == prov.cyc + 1
             q == IF prov.pend = "none" THEN prov.plan ELSE prov.pend
  <2>1. prov' = [prov EXCEPT !.cyc = n, !.phase = "early", !.pend = "none", !.plan = q]
    BY <1>3 DEF Renew
  <2>2. n \in Numbers /\ n # 0
    BY <1>0, <1>1, ProvIs, Ranges
  <2>3. q \in SyncPlans /\ q # "none" /\ "none" \in Announcements
    BY <1>0, <1>1, <1>3, ProvIs DEF ProvRow, Announcements
  <2> HIDE DEF n, q
  <2>4. prov' \in ProvRow /\ prov'.ev = prov.ev /\ prov'.plan = q /\ prov'.cyc = n /\ prov'.pend = "none" /\ ~prov'.frozen
    BY <1>0, <1>1, <2>1, <2>2, <2>3 DEF ProvRow
  <2>5. prov'.ev + Owed(prov'.frozen) + Owed(prov'.pend = "cancel") <= 2 * moves' + 1
    BY <1>0, <1>1, <2>4, ProvIs DEF Owed
  <2>6. prov.ev <= prov'.ev
    BY <1>0, <2>4, ProvIs
  <2>7. QED
    BY <1>1, <2>2, <2>3, <2>4, <2>5, <2>6, ProviderEffect
<1>4. QED
  BY <1>2, <1>3

-----------------------------------------------------------------------------
(* The inductive argument.                                                 *)

LEMMA NextEffect == ASSUME SyInv, SyncNext PROVE Effect
<1>1. CASE JobSync
  BY <1>1, TakeSyncJobEffect, JobReadsEffect, JobReadFailsEffect, JobAppliesEffect, EventEffect DEF JobSync, Procs
<1>2. CASE ScanSync
  BY <1>2, ScanReadsEffect, ScanReadFailsEffect, ScanLoadsEffect, EventEffect, ScanAppliesEffect,
     ScanCycleEffect, ScanProgressEffect, ReconstructEffect DEF ScanSync, Procs
<1>3. CASE \/ \E q \in Mapped : ChoosePlan(q)
           \/ \E q \in SyncPlans : Subscribe(q)
           \/ \E q \in SyncPlans \cup {"cancel"} : Announce(q)
           \/ \E q \in SyncPlans : ChangeAtOnce(q)
  BY <1>3, ChoosePlanEffect, SubscribeEffect, AnnounceEffect, ChangeAtOnceEffect
<1>4. CASE Freeze \/ Thaw \/ CancelContract \/ Uninstall \/ Reinstall \/ PhasePasses \/ Renew \/ LoseJob \/ JobCrashes
  BY <1>4, FreezeEffect, CancelContractEffect, UninstallEffect, ReinstallEffect, PhasePassesEffect, RenewEffect,
     FaultEffect
<1>5. QED
  BY <1>1, <1>2, <1>3, <1>4 DEF SyncNext

LEMMA RowStepFine ==
    ASSUME Stored, RowStep, prov'.ev \in Nat, prov.ev <= prov'.ev
    PROVE  RowFine' /\ ServedFine'
<1>0. /\ sub \in Row /\ period \in [Cycles -> Plans] /\ prov.ev \in Nat
      /\ "none" \notin Mapped /\ Mapped \subseteq Plans /\ "closed" \in Plans /\ 0 \notin Cycles
  BY Ranges DEF Stored, RowFine, Plans, Mapped
<1>1. ASSUME Onward(sub'), period' \in [Cycles -> Plans] PROVE RowFine'
  <2>1. sub' \in Row /\ sub'.ev <= prov.ev /\ sub'.ev \in Nat
    BY <1>1 DEF Onward, Row
  <2>2. sub'.ev <= prov'.ev
    BY <1>0, <2>1
  <2>3. QED
    BY <1>1, <2>1, <2>2 DEF RowFine
<1>2. CASE CalmStep
  <2>1. Calm(sub') /\ UNCHANGED period
    BY <1>2 DEF CalmStep
  <2>2. RowFine'
    BY <1>0, <1>1, <2>1 DEF Calm
  <2>3. ServedFine'
    BY <2>1 DEF Calm, Stored, ServedFine
  <2>4. QED
    BY <2>2, <2>3
<1>3. CASE LeavingStep
  <2>1. Left(sub') /\ period' \in [Cycles -> Plans]
    BY <1>0, <1>3 DEF LeavingStep
  <2>2. QED
    BY <1>1, <2>1 DEF Left, ServedFine
<1>4. CASE ServingStep
  <2>1. PICK k \in Cycles, q \in Mapped :
           /\ CanServe(k, q) /\ ServedFrom(sub', k, q)
           /\ \/ period' = [period EXCEPT ![k] = q]
              \/ /\ sub.per \in Cycles \ {k}
                 /\ period' = [i \in Cycles |-> IF i = sub.per THEN "closed" ELSE IF i = k THEN q ELSE period[i]]
    BY <1>4 DEF ServingStep
  <2>2. period' \in [Cycles -> Plans] /\ period'[k] = q
    BY <1>0, <2>1
  <2>3. Onward(sub') /\ sub'.per = k /\ sub'.cyc = k /\ sub'.plan = q
    BY <2>1 DEF ServedFrom
  <2>4. QED
    BY <1>0, <1>1, <2>2, <2>3 DEF ServedFine
<1>5. QED
  BY <1>2, <1>3, <1>4 DEF RowStep

\* Every step of the projection is a step of the promise, or none.
LEMMA RowStepEntitles == ASSUME Stored, RowStep PROVE [Entitlement!EPNext]_(Entitlement!epVars)
<1> DEFINE over == {k \in Cycles : period[k] = "closed"}
<1>0. /\ sub \in Row /\ period \in [Cycles -> Plans] /\ "closed" \notin Mapped /\ 0 \notin Cycles
      /\ (sub.per # 0 => sub.per \in Cycles)
  BY Ranges DEF Stored, RowFine, Mapped, Row
<1>1. CASE CalmStep
  BY <1>1 DEF CalmStep, Calm, Entitlement!epVars
<1>2. CASE LeavingStep
  <2>1. sub'.per = 0
    BY <1>2 DEF LeavingStep, Left
  <2>2. CASE UNCHANGED period
    BY <2>1, <2>2 DEF Entitlement!EPNext, Entitlement!Detach
  <2>3. CASE sub.per # 0 /\ period' = [period EXCEPT ![sub.per] = "closed"]
    <3>1. over' = over \cup ({sub.per} \ {0})
      BY <1>0, <2>3
    <3>2. QED
      BY <2>1, <3>1 DEF Entitlement!EPNext, Entitlement!Detach
  <2>4. QED
    BY <1>2, <2>2, <2>3 DEF LeavingStep
<1>3. CASE ServingStep
  <2>1. PICK k \in Cycles, q \in Mapped :
           /\ CanServe(k, q) /\ ServedFrom(sub', k, q)
           /\ \/ period' = [period EXCEPT ![k] = q]
              \/ /\ sub.per \in Cycles \ {k}
                 /\ period' = [i \in Cycles |-> IF i = sub.per THEN "closed" ELSE IF i = k THEN q ELSE period[i]]
    BY <1>3 DEF ServingStep
  <2>2. sub'.per = k /\ period[k] # "closed" /\ q # "closed"
    BY <1>0, <2>1 DEF ServedFrom, CanServe
  <2>3. CASE period' = [period EXCEPT ![k] = q]
    <3>1. over' = over /\ k \notin over
      BY <1>0, <2>2, <2>3
    <3>2. QED
      BY <2>2, <3>1 DEF Entitlement!EPNext, Entitlement!Attach
  <2>4. CASE /\ sub.per \in Cycles \ {k}
             /\ period' = [i \in Cycles |-> IF i = sub.per THEN "closed" ELSE IF i = k THEN q ELSE period[i]]
    <3>1. over' = over \cup {sub.per} /\ k \notin over \cup {sub.per} /\ sub.per # 0
      BY <1>0, <2>2, <2>4
    <3>2. QED
      BY <2>2, <3>1 DEF Entitlement!EPNext, Entitlement!Succeed
  <2>5. QED
    BY <2>1, <2>3, <2>4
<1>4. QED
  BY <1>1, <1>2, <1>3 DEF RowStep

LEMMA SyncInitially == SyncInit => SyInv /\ Entitlement!EPInit
<1> SUFFICES ASSUME SyncInit PROVE SyInv /\ Entitlement!EPInit
  OBVIOUS
<1>0. /\ 0 \in Numbers /\ 1 \in Numbers /\ 1 \in Cycles /\ NoContract \in Row
      /\ <<"retry", 1>> \in Instants /\ <<"pre", 1>> \in Instants
  <2>1. 1 \in 1 .. Retries
    BY SubscriptionAssumption
  <2>2. NoContract \in Row
    BY Ranges, InstantsAre DEF NoContract, Row, Statuses, Announcements
  <2>3. QED
    BY <2>1, <2>2, Ranges, InstantsAre
<1> DEFINE Fit(plan, row, first) ==
             /\ Started(plan, row, first) /\ row.ev = 0
             /\ row.per \in {0, 1} /\ (row.per = 1 => row.cyc = 1 /\ first = "paid" /\ row.plan = "paid")
             /\ row.st = "ACTIVE" => row.plan # "none"
<1>a. \E plan \in {"none", "paid", "free"}, row \in Row, first \in {"none", "paid"} : Fit(plan, row, first)
  <2>1. ASSUME NEW q \in Mapped, NewShop(q)
        PROVE  \E row \in Row : Fit("none", row, "none")
    <3> DEFINE row == [NoContract EXCEPT !.pend = q, !.next = <<"retry", 1>>]
    <3>1. row \in Row /\ row.ev = 0 /\ row.per = 0 /\ row.st # "ACTIVE"
      BY <1>0 DEF NoContract, Row, Announcements, SyncPlans
    <3>2. Started("none", row, "none")
      BY <2>1 DEF NewShop
    <3> HIDE DEF row
    <3>3. QED
      BY <3>1, <3>2
  <2>2. ASSUME PaidShop
        PROVE  \E row \in Row : Fit("paid", row, "paid")
    <3> DEFINE row == [NoContract EXCEPT !.st = "ACTIVE", !.plan = "paid", !.per = 1, !.cyc = 1, !.next = <<"pre", 1>>]
    <3>1. row \in Row /\ row.ev = 0 /\ row.per = 1 /\ row.cyc = 1 /\ row.plan = "paid"
      BY <1>0 DEF NoContract, Row, Statuses, Mapped
    <3>2. Started("paid", row, "paid")
      BY <2>2 DEF PaidShop
    <3> HIDE DEF row
    <3>3. QED
      BY <3>1, <3>2
  <2>3. ASSUME OldShop
        PROVE  \E row \in Row : Fit("free", row, "none")
    <3> DEFINE row == [NoContract EXCEPT !.st = "ACTIVE", !.plan = "free", !.next = <<"retry", 1>>]
    <3>1. row \in Row /\ row.ev = 0 /\ row.per = 0 /\ row.plan = "free"
      BY <1>0 DEF NoContract, Row, Statuses, Mapped
    <3>2. Started("free", row, "none")
      BY <2>3 DEF OldShop
    <3> HIDE DEF row
    <3>3. QED
      BY <3>1, <3>2
  <2> HIDE DEF Fit
  <2>4. QED
    BY <2>1, <2>2, <2>3 DEF SyncInit
<1>1. PICK plan \in {"none", "paid", "free"}, row \in Row, first \in {"none", "paid"} : Fit(plan, row, first)
  BY <1>a
<1>2. RowFine
  BY <1>0, <1>1 DEF Started, RowFine, Plans, Mapped, Row
<1>3. ServedFine
  BY <1>0, <1>1 DEF Started, ServedFine, Mapped
<1>4. ProvFine
  <2>1. plan \in SyncPlans \cup {"none"} /\ "none" \in Announcements /\ {"none", "OTHER"} \subseteq States
    BY <1>1 DEF SyncPlans, Mapped, Announcements, States
  <2>2. prov \in ProvRow
    BY <1>0, <1>1, <2>1 DEF Started, ProvRow
  <2>3. QED
    BY <1>1, <2>2 DEF Started, ProvFine, Owed
<1>5. ProcsFine
  <2>1. Idle \in ProcRow /\ AnswerFine(Idle.snap) /\ Idle.kind = "none" /\ Idle.pc = "idle"
    BY <1>4, IdleIs, NoAnswerFine DEF ProvFine, ProvRow, Idle
  <2>2. QED
    BY <1>1, <2>1 DEF Started, ProcsFine, Procs
<1>6. RestFine
  BY <1>1, SubscriptionAssumption DEF Started, RestFine
<1>7. Entitlement!EPInit
  BY <1>0, <1>1 DEF Started, Entitlement!EPInit
<1>8. QED
  BY <1>2, <1>3, <1>4, <1>5, <1>6, <1>7 DEF SyInv

LEMMA SyInvStep == SyInv /\ [SyncNext]_syncVars => SyInv'
<1> SUFFICES ASSUME SyInv, [SyncNext]_syncVars PROVE SyInv'
  OBVIOUS
<1>1. CASE SyncNext
  <2>1. Effect /\ Stored
    BY <1>1, NextEffect, InvStored
  <2>2. RowFine' /\ ServedFine'
    BY <2>1, RowStepFine DEF Effect, Written
  <2>3. RestFine'
    BY <2>1 DEF Effect, Written, JobOk, ShopOk, RestFine
  <2>4. QED
    BY <2>1, <2>2, <2>3 DEF Effect, SyInv
<1>2. CASE UNCHANGED syncVars
  BY <1>2 DEF syncVars, SyInv, RowFine, ServedFine, ProcsFine, AnswerFine, ProvFine, RestFine
<1>3. QED
  BY <1>1, <1>2

LEMMA SyInvTyped == SyInv => SyncTypeOK
<1> SUFFICES ASSUME SyInv PROVE SyncTypeOK
  OBVIOUS
<1>0. RowFine /\ ProcsFine /\ ProvFine /\ RestFine
  BY DEF SyInv
<1>1. prov.ev \in 0 .. 2 * SyncMoves + MaxCycle + 1
  <2> DEFINE a == Owed(prov.frozen)
             b == Owed(prov.pend = "cancel")
  <2>1. /\ a \in {0, 1} /\ b \in {0, 1} /\ prov.ev \in Nat /\ prov.ev + a + b <= 2 * moves + 1
        /\ moves \in 0 .. SyncMoves /\ SyncMoves \in Nat /\ MaxCycle \in Nat
    BY <1>0, ProvIs, Ranges, SubscriptionAssumption DEF RestFine
  <2> HIDE DEF a, b
  <2>2. QED
    BY <2>1
<1>2. prov \in [plan : SyncPlans \cup {"none"}, cyc : 0 .. MaxCycle, phase : {"early", "drain", "over"},
                pend : SyncPlans \cup {"none", "cancel"}, frozen : BOOLEAN, ev : 0 .. 2 * SyncMoves + MaxCycle + 1,
                state : {"none", "OTHER", "FROZEN", "UNFROZEN", "CANCELED"}]
  BY <1>0, <1>1 DEF ProvFine, ProvRow, Numbers, Announcements, States
<1>3. sub.ev \in 0 .. prov.ev
  BY <1>0, ProvIs DEF RowFine, Row
<1>4. QED
  BY <1>0, <1>2, <1>3
  DEF SyncTypeOK, RowFine, Row, Statuses, Numbers, Announcements, Plans, ProcsFine, Procs, ProcRow, Steps, RestFine

-----------------------------------------------------------------------------

\* Whatever is interleaved with whatever, the row, the periods, the jobs and
\* what the processes have read stay well formed, and the provider's events
\* are bounded by its moves (subscription-reconciliation).
THEOREM SyncTyped == SyncSpec => []SyncTypeOK
<1> QED
  BY SyncInitially, SyInvStep, SyInvTyped, PTL DEF SyncSpec

\* The period an active row is served from is open, of the row's plan, and of
\* the cycle it shows, whichever of job and scan read the provider first
\* (reconcileAccepted, applySubscription, restore, closeBillingPeriod).
THEOREM ServedOpen == SyncSpec => []ServedPeriodIsOpen
<1>1. SyInv => ServedPeriodIsOpen
  BY DEF SyInv, ServedFine, ServedPeriodIsOpen
<1> QED
  BY <1>1, SyncInitially, SyInvStep, PTL DEF SyncSpec

\* Job, scan, events and reinstallation implement the promise of
\* EntitlementPeriods (transitionInTransaction, ensureSuccessorBillingPeriod).
THEOREM ProjectionEntitles == SyncSpec => ImplementsEntitlement
<1>1. SyncInit => Entitlement!EPInit
  BY SyncInitially
<1>2. SyInv /\ [SyncNext]_syncVars => [Entitlement!EPNext]_(Entitlement!epVars)
  <2> SUFFICES ASSUME SyInv, [SyncNext]_syncVars PROVE [Entitlement!EPNext]_(Entitlement!epVars)
    OBVIOUS
  <2>1. CASE SyncNext
    BY <2>1, NextEffect, InvStored, RowStepEntitles DEF Effect, Written
  <2>2. CASE UNCHANGED syncVars
    BY <2>2 DEF syncVars, Entitlement!epVars
  <2>3. QED
    BY <2>1, <2>2
<1> QED
  BY <1>1, <1>2, SyncInitially, SyInvStep, PTL DEF SyncSpec, ImplementsEntitlement, Entitlement!EPSpec

\* An older lifecycle event never undoes a newer one (reconcile, Older).
THEOREM EventsOrdered == SyncSpec => EventsInOrder
<1>1. SyInv /\ [SyncNext]_syncVars => [sub'.ev >= sub.ev]_syncVars
  <2> SUFFICES ASSUME SyInv, SyncNext PROVE sub'.ev >= sub.ev
    BY DEF syncVars
  <2>1. RowStep
    BY NextEffect DEF Effect, Written
  <2>2. QED
    BY <2>1 DEF RowStep, CalmStep, LeavingStep, ServingStep, Calm, Left, ServedFrom, Onward
<1> QED
  BY <1>1, SyncInitially, SyInvStep, PTL DEF SyncSpec, EventsInOrder

\* A closed billing period is never opened again, nor taken for another plan
\* (closeBillingPeriod, ensureCurrentBillingPeriodProjection).
THEOREM PeriodsStayClosed ==
    SyncSpec => [][\A k \in Cycles : period[k] = "closed" => period'[k] = "closed"]_period
<1>1. SyInv /\ [SyncNext]_syncVars => [\A k \in Cycles : period[k] = "closed" => period'[k] = "closed"]_period
  <2> SUFFICES ASSUME SyInv, SyncNext PROVE \A k \in Cycles : period[k] = "closed" => period'[k] = "closed"
    BY DEF syncVars
  <2>0. RowStep /\ period \in [Cycles -> Plans] /\ "closed" \notin Mapped
    BY NextEffect DEF Effect, Written, SyInv, RowFine, Mapped
  <2>1. CASE CalmStep
    BY <2>1 DEF CalmStep
  <2>2. CASE LeavingStep
    BY <2>0, <2>2 DEF LeavingStep
  <2>3. CASE ServingStep
    BY <2>0, <2>3 DEF ServingStep, CanServe
  <2>4. QED
    BY <2>0, <2>1, <2>2, <2>3 DEF RowStep
<1> QED
  BY <1>1, SyncInitially, SyInvStep, PTL DEF SyncSpec
=============================================================================
