----------------------------- MODULE ReportLog -----------------------------
(***************************************************************************)
(* A run's report slice as it grows.  Validators, nested pipelines and     *)
(* evidence carriers append reports in an order nobody controls; the       *)
(* properties say what the reduction of that slice must not depend on.     *)
(***************************************************************************)
EXTENDS Reports

CONSTANTS
    Samples,     \* the reports that may be appended
    MaxReports   \* bound on the length of the slice

ASSUME SamplesAssumption == Samples \subseteq Report
ASSUME MaxReportsAssumption == MaxReports \in Nat

VARIABLE reports

vars == <<reports>>

Init == reports = <<>>

Append1(rep) ==
    /\ Len(reports) < MaxReports
    /\ reports' = Append(reports, rep)

Next == \E rep \in Samples : Append1(rep)

Spec == Init /\ [][Next]_vars

-----------------------------------------------------------------------------

\* What a host acts on: the enforcement class, its rank, and the payload kind.
Verdict(s) ==
    [disposition |-> EffectiveDisposition(Decision(s)),
     rank        |-> ReportPriority(Decision(s)),
     kind        |-> AggregatePayloadKind(s)]

Swapped(s, i, j) == [s EXCEPT ![i] = s[j], ![j] = s[i]]

\* Parallel validators append in scheduling order: exchanging any two reports
\* leaves enforcement and payload kind unchanged (CONTRACTS.md:24-25).
OrderIndependent ==
    \A i, j \in DOMAIN reports : Verdict(Swapped(reports, i, j)) = Verdict(reports)

\* A nested pipeline or an evidence carrier composes a prefix into one report:
\* the outer decision is the one over the flat slice.
NestingTransparent ==
    \A n \in 1..Len(reports) :
        Verdict(<<ComposeReports(SubSeq(reports, 1, n))>>
                    \o SubSeq(reports, n + 1, Len(reports)))
            = Verdict(reports)

\* The decision handed to the host drops Fatal and Retryable; reclassifying it
\* still gives the disposition of the selected report, and the returned error
\* is of that class.
ProjectionFaithful ==
    LET rep == Decision(reports)
        d   == PolicyDecision(reports, AggregatePayloadKind(reports))
    IN  /\ DecisionDisposition(d) = EffectiveDisposition(rep)
        /\ ErrorFromDecision(rep) =
             [none |-> "nil", terminal_deny |-> "blocked",
              retryable_correction |-> "retry",
              system_fault |-> "fault"][DecisionDisposition(d)]

\* A fault, or a malformed report whatever else it claims, enforces even in
\* shadow mode or beside a terminal deny; shadow blocks alone never stop a run.
FaultsOutrankShadow ==
    /\ (\E i \in DOMAIN reports :
            IsSystemFault(reports[i]) \/ Malformed(reports[i]))
            => IsSystemFault(Decision(reports))
    /\ (\A i \in DOMAIN reports : IsObservation(reports[i]))
            => ErrorFromDecision(Decision(reports)) = "nil"

\* No appended report weakens the verdict: neither the rank of the decision
\* nor the payload kind ever goes down.
EscalationOnly ==
    [][/\ ReportPriority(Decision(reports')) >= ReportPriority(Decision(reports))
       /\ PayloadKindPriority(AggregatePayloadKind(reports'))
            >= PayloadKindPriority(AggregatePayloadKind(reports))]_reports
=============================================================================
