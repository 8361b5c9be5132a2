---------------------------- MODULE MCHTTPGuard ----------------------------
(* A guard's run passes, redacts (beside an observation), corrects, denies *)
(* or reports a fault.                                                     *)
EXTENDS HTTPGuard

Denied == BlankReport("block", "safe")

MCReportLists ==
    {<<>>,
     <<BlankReport("redact", "internal"), [Denied EXCEPT !.shadow = TRUE]>>,
     <<FinishReport(BlankReport("retry", "safe"), "retry", FALSE)>>,
     <<Denied>>,
     <<ValidatorFaultReport>>}
=============================================================================
