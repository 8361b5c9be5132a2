----------------------------- MODULE MCDelivery -----------------------------
(***************************************************************************)
(* One chain validator, no parallel ones: the parallel phase has its own   *)
(* runs.  The reports are a pass that classifies its payload, a            *)
(* correction, a deny and a fault; the cause is an error with evidence.    *)
(***************************************************************************)
EXTENDS Delivery

CONSTANTS zero, v1

MCValues == {zero, v1}

Internal == FinishReport(BlankReport("pass", "internal"), "pass", FALSE)
Correction == FinishReport(BlankReport("retry", "safe"), "retry", FALSE)
Deny == FinishReport(BlankReport("block", "technical"), "block", FALSE)
FaultReport == BlankReport("invalid", "safe")

MCReports == {Internal, Correction, Deny, FaultReport}

Failure ==
    [canceled |-> FALSE, only |-> FALSE, own |-> TRUE,
     completed |-> <<BlankReport("pass", "technical")>>]

MCCauses == {Failure}
MCPar == {}
=============================================================================
