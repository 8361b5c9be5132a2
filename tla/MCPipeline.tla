----------------------------- MODULE MCPipeline -----------------------------
(***************************************************************************)
(* One chain validator before up to three parallel ones.  The reports are  *)
(* one of each enforcement class (a correction, a block, a shadow block    *)
(* that classifies its payload, a fault, a redaction); the causes are a    *)
(* genuine failure carrying evidence, a child operation's cancellation,    *)
(* and a panic whose value is a cancellation.                              *)
(***************************************************************************)
EXTENDS Pipeline, TLC

CONSTANTS v1, zero, p1, p2, p3

MCValues == {zero, v1}

Correction == FinishReport(BlankReport("retry", "safe"), "retry", FALSE)
Deny == FinishReport(BlankReport("block", "safe"), "block", FALSE)
Shadow ==
    FinishReport([BlankReport("block", "technical") EXCEPT !.shadow = TRUE],
                 "block", FALSE)
FaultReport == BlankReport("invalid", "internal")
Redaction == FinishReport(BlankReport("redact", "safe"), "redact", FALSE)

MCReports == {Correction, Deny, Shadow, FaultReport, Redaction}

Genuine ==
    [canceled |-> FALSE, only |-> FALSE, own |-> TRUE,
     completed |-> <<BlankReport("pass", "technical")>>]
ChildCancelled ==
    [canceled |-> TRUE, only |-> TRUE, own |-> TRUE, completed |-> <<>>]
PanicCancelled ==
    [canceled |-> TRUE, only |-> FALSE, own |-> TRUE, completed |-> <<>>]

MCCauses == {Genuine, ChildCancelled, PanicCancelled}

MCPar == {p1, p2, p3}
Symmetry == Permutations(MCPar)

\* The liveness run needs the control paths, not the payload: one value, a
\* correction, a deny, and an error that a stopped phase may swallow.
PairPar == {p1, p2}
LiveValues == {zero}
LiveReports == {Correction, Deny}
LiveCauses == {ChildCancelled}
=============================================================================
