--------------------------- MODULE MCOutreachCases ---------------------------
(***************************************************************************)
(* InitialOutreach for TLC, one worker at a time, in two cases: billing    *)
(* periods and grants come and go, or lots are bought and the contract     *)
(* ends.  The job of a report is retried until it succeeds (FairSpec).     *)
(***************************************************************************)
EXTENDS InitialOutreach

VARIABLE scenario           \* chosen once

Stays ==
    /\ scenario = "periods" => contract' # "ended" /\ UNCHANGED lot
    /\ scenario = "lots" => contract' \in {"free", "ended", "required"} /\ UNCHANGED <<current, grant>>

CasesInit == OutreachInit /\ scenario \in {"periods", "lots"}
CasesSpec ==
    /\ CasesInit /\ [][OutreachNext /\ Stays /\ UNCHANGED scenario]_<<allVars, scenario>>
    /\ \A a \in Attempts : WF_outreachVars(ReconcileReport(a))
=============================================================================
