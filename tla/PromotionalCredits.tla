------------------------- MODULE PromotionalCredits -------------------------
(***************************************************************************)
(* Promotional credit grants of a shop                                     *)
(* (promotional-recovery-reservation.service.ts), the merchant's choice of *)
(* one grant, and its removal when the campaign has expired                *)
(* (promotion-selection-expiry-reconciliation.service.ts).                 *)
(***************************************************************************)
EXTENDS UsageReservations

CONSTANT GrantSize      \* quantity of every grant

ASSUME PromotionalAssumption == GrantSize \in Nat \ {0} /\ IsFiniteSet(Grants)

VARIABLES
    grant,      \* Grants -> reservedQuantity, committedQuantity
    campaign,   \* Grants -> the campaign of the grant, by status and dates
    selected    \* the grant the merchant selected, or None

promotionalVars == <<grant, campaign, selected>>

\* RUNNING: status ACTIVE and startsAt <= now < expiresAt.  A campaign can be
\* suspended and resumed by an operator; expiry is final.
CampaignStates == {"RUNNING", "SUSPENDED", "EXPIRED"}

PromotionalTypeOK ==
    /\ grant \in [Grants -> [reserved : Nat, committed : Nat]]
    /\ campaign \in [Grants -> CampaignStates]
    /\ selected \in Grants \cup {None}

PromotionalInit ==
    /\ grant = [g \in Grants |-> [reserved |-> 0, committed |-> 0]]
    /\ campaign = [g \in Grants |-> "RUNNING"]
    /\ selected = None

\* Mutant: held credits count as available.
MutGrantAvailable(g) == GrantSize - grant[g].committed

GrantAvailable(g) == GrantSize - grant[g].committed - grant[g].reserved

\* findUsableGrant; paused is newRecoveriesPaused of the policy.
UsableGrants(paused) ==
    {g \in Grants : ~paused /\ g = selected /\ campaign[g] = "RUNNING"}

PromotionalReserveOutcome(a, paused) ==
    LET k == PlainKey(a)
        available == {g \in UsableGrants(paused) : GrantAvailable(g) >= 1}
    IN  CASE Absent(k) /\ available # {} -> "reserved"
          [] Absent(k) /\ available = {} -> "unavailable"
          [] ~Absent(k) /\ reservation[k].kind # "promotional" -> "unavailable"
          [] /\ Reactivable(k, "promotional")
             /\ reservation[k].unit \in available -> "reserved"
          [] OTHER -> reservation[k].status

\* A reactivated row stays on its own grant, a new one takes the selected.
ReservePromotional(a, g, paused) ==
    /\ PromotionalReserveOutcome(a, paused) = "reserved"
    /\ g \in UsableGrants(paused)
    /\ GrantAvailable(g) >= 1
    /\ WriteReserved(PlainKey(a), "promotional", g)
    /\ grant' = [grant EXCEPT ![g].reserved = @ + 1]
    /\ UNCHANGED <<campaign, selected>>

\* The campaign may be over by now: what was reserved can be used.
CommitPromotional(a) ==
    LET g == reservation[PlainKey(a)].unit
    IN  /\ Transitions(PlainKey(a), "promotional")
        /\ grant[g].reserved >= 1
        /\ GrantAvailable(g) >= 0
        /\ WriteStatus(PlainKey(a), "COMMITTED")
        /\ grant' = [grant EXCEPT ![g].reserved = @ - 1, ![g].committed = @ + 1]
        /\ UNCHANGED <<campaign, selected>>

ReleasePromotional(a) ==
    LET g == reservation[PlainKey(a)].unit
    IN  /\ Transitions(PlainKey(a), "promotional")
        /\ grant[g].reserved >= 1
        /\ WriteStatus(PlainKey(a), "RELEASED")
        /\ grant' = [grant EXCEPT ![g].reserved = @ - 1]
        /\ UNCHANGED <<campaign, selected>>

MarkPromotionalAmbiguous(a) ==
    /\ Transitions(PlainKey(a), "promotional")
    /\ WriteStatus(PlainKey(a), "AMBIGUOUS")
    /\ UNCHANGED promotionalVars

\* Mutant: the reversal is not recorded, and happens again.
MutCompensatePromotional(a) ==
    LET g == reservation[PlainKey(a)].unit
    IN  /\ reservation[PlainKey(a)].kind = "promotional"
        /\ IsCharged(PlainKey(a))
        /\ grant[g].committed >= 1
        /\ grant' = [grant EXCEPT ![g].committed = @ - 1]
        /\ UNCHANGED <<reservation, campaign, selected>>

\* A grant that cannot be spent keeps the quantity as consumed: a campaign
\* that is resumed later must not find a new credit.
CompensatePromotional(a) ==
    LET g == reservation[PlainKey(a)].unit
    IN  /\ reservation[PlainKey(a)].kind = "promotional"
        /\ IsCharged(PlainKey(a))
        /\ WriteCompensated(PlainKey(a))
        /\ IF campaign[g] = "RUNNING"
           THEN /\ grant[g].committed >= 1
                /\ grant' = [grant EXCEPT ![g].committed = @ - 1]
           ELSE UNCHANGED grant
        /\ UNCHANGED <<campaign, selected>>

-----------------------------------------------------------------------------
\* The merchant application and the platform's operators, outside src/.
SelectGrant(g) ==
    /\ campaign[g] = "RUNNING" /\ selected # g
    /\ selected' = g
    /\ UNCHANGED <<reservation, grant, campaign>>

CampaignChanges(g) ==
    /\ campaign[g] # "EXPIRED"
    /\ \E s \in CampaignStates \ {campaign[g]} :
          campaign' = [campaign EXCEPT ![g] = s]
    /\ UNCHANGED <<reservation, grant, selected>>

\* PromotionSelectionExpiryReconciliationService.reconcileOnce.
ReleaseExpiredSelection ==
    /\ selected # None /\ campaign[selected] = "EXPIRED"
    /\ selected' = None
    /\ UNCHANGED <<reservation, grant, campaign>>

PromotionalNext ==
    \/ \E a \in Attempts :
          \/ \E g \in Grants, paused \in BOOLEAN : ReservePromotional(a, g, paused)
          \/ CommitPromotional(a)
          \/ ReleasePromotional(a)
          \/ MarkPromotionalAmbiguous(a)
          \/ CompensatePromotional(a)
    \/ \E g \in Grants : SelectGrant(g) \/ CampaignChanges(g)
    \/ ReleaseExpiredSelection

-----------------------------------------------------------------------------
\* Each grant counts its held rows, and has consumed its charged ones and
\* those whose compensation came when the campaign was not running.
PromotionalReconciled ==
    \A g \in Grants :
        /\ grant[g].reserved = Cardinality(HeldOn(g))
        /\ grant[g].committed >= Cardinality(ChargedOn(g))

\* A grant never gives out more than its quantity, through any order of
\* suspensions, resumptions and compensations.
GrantNeverOverdrawn ==
    \A g \in Grants : grant[g].reserved + grant[g].committed <= GrantSize
=============================================================================
