---------------------------- MODULE MCReportLog ----------------------------
(***************************************************************************)
(* Every well-formed control combination with two payload kinds, plus the  *)
(* malformed action, disposition, kind and score on otherwise blank or     *)
(* fatal shadow blocks.                                                    *)
(***************************************************************************)
EXTENDS ReportLog

WellFormed ==
    {r \in Report :
        /\ r.action \in Actions
        /\ r.disposition \in {"none", "retryable_correction", "terminal_deny"}
        /\ r.kind \in {"safe", "technical"}
        /\ r.finite
        /\ r.retryable => r.action = "retry"
        /\ r.shadow => r.action \in {"block", "retry"}}

Broken ==
    {[BlankReport("block", "internal") EXCEPT
        !.shadow = TRUE, !.disposition = "terminal_deny", !.finite = FALSE],
     [BlankReport("invalid", "safe") EXCEPT !.fatal = TRUE],
     BlankReport("pass", "invalid"),
     [BlankReport("pass", "internal") EXCEPT !.disposition = "invalid"],
     [BlankReport("redact", "safe") EXCEPT !.disposition = "system_fault"]}

MCSamples == WellFormed \cup Broken
=============================================================================
