---------------------------- MODULE MCLeasedWork ----------------------------
(***************************************************************************)
(* Work under a lease that can be lost, for TLC: the turns of a            *)
(* conversation, and the recoveries of WooCommerce.  A behaviour follows   *)
(* one of the two components; the other rests in its initial state.        *)
(***************************************************************************)
EXTENDS ConversationTurns, WooRecovery

CONSTANT First              \* a worker of both components
VARIABLE which              \* the component of the behaviour, chosen once

leasedVars == <<which, turnVars, wooVars>>

LeasedInit == which \in {"turns", "woo"} /\ TurnInit /\ WooInit

Turns(A) == which = "turns" /\ A /\ UNCHANGED <<which, wooVars>>
Woo(A)   == which = "woo" /\ A /\ UNCHANGED <<which, turnVars>>

(***************************************************************************)
(* Idle workers are interchangeable: another one starts only while the     *)
(* first is at work.                                                       *)
(***************************************************************************)
FirstStarts ==
    /\ \A w \in Turners \ {First} :
          turn[w].pc = "idle" /\ turn'[w].pc # "idle" => turn[First].pc # "idle"
    /\ \A w \in WooWorkers \ {First} :
          wk[w].pc = "idle" /\ wk'[w].pc # "idle" => wk[First].pc # "idle"

LeasedNext == (Turns(TurnNext) \/ Woo(WooNext)) /\ FirstStarts

\* The fairness of TurnSpec and WooSpec.  Only the conditions of the chosen
\* component can be enabled; the clock and the lease of a turn are stated
\* together, which is weaker.
LeasedFairness ==
    /\ \A w \in Turners : WF_leasedVars(Turns(TurnStep(w)))
    /\ WF_leasedVars(Turns(RepairPendingTurn)) /\ WF_leasedVars(Turns(WindowPasses \/ LeaseLapses))
    /\ \A w \in WooWorkers : SF_leasedVars(Woo(WooStep(w)))
    /\ SF_leasedVars(\/ Turns(\E w \in Turners, v \in Messages : TakeTurnJob(w, v))
                     \/ Woo(\E w \in WooWorkers, e \in Events : TakeEvent(w, e)))

LeasedSpec == LeasedInit /\ [][LeasedNext]_leasedVars /\ LeasedFairness

\* The rows are well formed; a conversation has a pending turn exactly while a message is unprocessed, and its messages
\* keep the order of their events, transcripts included (pending-turn-repository, inbound-whatsapp-audio).  A WooCommerce
\* order that has been handled leaves no recovery of its checkout alive (woo-order-reconciliation).
LeasedConsistent == TurnTypeOK /\ WooTypeOK /\ PendingIffUnprocessed /\ TranscriptsInOrder /\ OrderEndsWooRecovery

\* A pending turn is answered, suppressed or given up (conversation-turn-processor).
PendingTurnsSettle == which = "turns" => PendingTurnSettles
\* A resumed recovery is settled before the customer is written to again (woo-recovery-orchestrator).
ResumedRecoveriesSettle == which = "woo" => ResumedIsSettled
=============================================================================
