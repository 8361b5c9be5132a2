------------------------------ MODULE Reports ------------------------------
(***************************************************************************)
(* The report algebra of guardy: how a validator's report is classified,   *)
(* how several reports are reduced to one decision, and what a host sees   *)
(* of that decision.  Everything here is a pure function of its arguments. *)
(*                                                                         *)
(* A report keeps only the fields that steer control flow.  Names, codes,  *)
(* severities, texts and scores are diagnostics; of the score only its     *)
(* being a finite number matters (finite).  "invalid" stands for any value *)
(* outside the enumeration the Go type declares.                           *)
(*                                                                         *)
(* An optional Go value (a nil-able *Report or error) is a sequence of     *)
(* length zero or one.                                                     *)
(***************************************************************************)
EXTENDS Naturals, Sequences

Actions == {"pass", "block", "redact", "retry"}

Dispositions ==
    {"none", "terminal_deny", "retryable_correction", "system_fault"}

PayloadKinds == {"safe", "internal", "technical"}

Report ==
    [action      : Actions \cup {"invalid"},
     disposition : Dispositions \cup {"invalid"},
     fatal       : BOOLEAN,
     retryable   : BOOLEAN,
     shadow      : BOOLEAN,
     kind        : PayloadKinds \cup {"invalid"},
     finite      : BOOLEAN]

\* The host-facing decision: the fields of Report that survive projection.
HostDecision ==
    [action      : Actions \cup {"invalid"},
     disposition : Dispositions \cup {"invalid"},
     kind        : PayloadKinds \cup {"invalid"}]

Optional(S) == {<<>>} \cup {<<x>> : x \in S}

\* The same set, by membership rather than enumeration.
AtMostOne(S) == {s \in Seq(S) : Len(s) <= 1}

-----------------------------------------------------------------------------
(* Classification of one report.                                           *)

\* A zero-valued Report with the given action and payload kind.
BlankReport(action, kind) ==
    [action |-> action, disposition |-> "none", fatal |-> FALSE,
     retryable |-> FALSE, shadow |-> FALSE, kind |-> kind, finite |-> TRUE]

DeriveDisposition(rep) ==
    CASE rep.action = "block"                -> "terminal_deny"
      [] rep.action = "retry"                ->
            IF rep.retryable /\ ~rep.fatal
            THEN "retryable_correction" ELSE "terminal_deny"
      [] rep.action \in {"pass", "redact"}   ->
            IF rep.fatal THEN "terminal_deny" ELSE "none"
      [] OTHER                               -> "system_fault"

\* Values no Go constant names, and scores that are not numbers.
Malformed(rep) ==
    \/ rep.action \notin Actions
    \/ rep.disposition \notin Dispositions
    \/ rep.kind \notin PayloadKinds
    \/ ~rep.finite

\* Mutant: an explicit terminal disposition is consulted before validity.
EffectiveDispositionTrustsDeny(rep) ==
    IF rep.fatal \/ rep.disposition = "terminal_deny" THEN "terminal_deny"
    ELSE IF Malformed(rep) \/ rep.disposition = "system_fault" THEN "system_fault"
    ELSE IF rep.disposition = "retryable_correction" THEN "retryable_correction"
    ELSE DeriveDisposition(rep)

EffectiveDisposition(rep) ==
    IF \/ Malformed(rep)
       \/ rep.disposition = "system_fault"
       \/ rep.disposition = "retryable_correction" /\ rep.action # "retry"
    THEN "system_fault"
    ELSE IF rep.fatal \/ rep.disposition = "terminal_deny" THEN "terminal_deny"
    ELSE IF rep.disposition = "retryable_correction" THEN "retryable_correction"
    ELSE DeriveDisposition(rep)

IsTerminalDeny(rep) == EffectiveDisposition(rep) = "terminal_deny"

IsRetryableCorrection(rep) == EffectiveDisposition(rep) = "retryable_correction"

IsSystemFault(rep) == EffectiveDisposition(rep) = "system_fault"

\* A shadow block is only observed; it never enforces.
IsObservation(rep) ==
    /\ rep.shadow
    /\ rep.action = "block"
    /\ ~rep.fatal
    /\ IsTerminalDeny(rep)

NormalizeReport(rep) == [rep EXCEPT !.disposition = EffectiveDisposition(rep)]

\* Mutant: only a hard stop ends the chain.
ShortCircuitHardStops(rep) ==
    ~IsObservation(rep) /\ (IsTerminalDeny(rep) \/ IsSystemFault(rep))

ShouldShortCircuitValidator(rep) ==
    /\ ~IsObservation(rep)
    /\ \/ IsRetryableCorrection(NormalizeReport(rep))
       \/ IsTerminalDeny(NormalizeReport(rep))
       \/ IsSystemFault(NormalizeReport(rep))

\* FinishReport with a ControlSpec of the report's own action.
FinishReport(rep, specAction, specFatal) ==
    NormalizeReport(
        [rep EXCEPT
            !.retryable   = specAction = "retry",
            !.fatal       = rep.fatal \/ specFatal,
            !.disposition = IF rep.action # specAction THEN "system_fault" ELSE @])

ValidatorFaultReport ==
    [BlankReport("pass", "safe") EXCEPT !.disposition = "system_fault"]

-----------------------------------------------------------------------------
(* Reduction of a sequence of reports.                                     *)

ReportPriority(rep) ==
    CASE IsSystemFault(rep)         -> 7
      [] IsTerminalDeny(rep)        -> CASE rep.action = "block" -> 6
                                         [] rep.action = "retry" -> 5
                                         [] OTHER                -> 4
      [] IsRetryableCorrection(rep) -> 3
      [] OTHER                      -> IF rep.action = "redact" THEN 2 ELSE 1

\* Positions of the reports that may enforce.
Enforcing(reports) == {i \in DOMAIN reports : ~IsObservation(reports[i])}

\* Mutant: the last enforcing report wins, whatever its rank.
SelectedLast(reports) ==
    CHOOSE i \in Enforcing(reports) : \A j \in Enforcing(reports) : j <= i

\* The loop keeps the last report of the highest rank (rank >= priority).
Selected(reports) ==
    CHOOSE i \in Enforcing(reports) :
        \A j \in Enforcing(reports) :
            \/ ReportPriority(reports[j]) < ReportPriority(reports[i])
            \/ ReportPriority(reports[j]) = ReportPriority(reports[i]) /\ j <= i

\* RunResult.Decision.
Decision(reports) ==
    IF Enforcing(reports) = {}
    THEN FinishReport(BlankReport("pass", "safe"), "pass", FALSE)
    ELSE NormalizeReport(reports[Selected(reports)])

PayloadKindPriority(kind) ==
    CASE kind = "technical" -> 3
      [] kind = "internal"  -> 2
      [] kind = "safe"      -> 1
      [] OTHER              -> 0

\* Kinds of the reports together with the initial best value; a kind outside
\* the enumeration has priority 0 and never replaces the best.
KindsOf(reports) ==
    {"safe"} \cup ({reports[i].kind : i \in DOMAIN reports} \cap PayloadKinds)

\* Mutant: the last classification replaces an earlier, stricter one.
AggregateLastKind(reports) ==
    IF reports = <<>> \/ reports[Len(reports)].kind \notin PayloadKinds THEN "safe"
    ELSE reports[Len(reports)].kind

AggregatePayloadKind(reports) ==
    CHOOSE k \in KindsOf(reports) :
        \A j \in KindsOf(reports) : PayloadKindPriority(j) <= PayloadKindPriority(k)

NormalizeAll(reports) == [i \in DOMAIN reports |-> NormalizeReport(reports[i])]

\* Mutant: the selected report keeps its own classification.
ComposeKeepsOwnKind(reports) == Decision(NormalizeAll(reports))

ComposeReports(reports) ==
    [Decision(NormalizeAll(reports)) EXCEPT !.kind = AggregatePayloadKind(reports)]

-----------------------------------------------------------------------------
(* Projection to the host-facing decision and error.                       *)

ToHostDecision(rep) ==
    [action |-> rep.action, disposition |-> rep.disposition, kind |-> rep.kind]

DecisionFromReport(rep) ==
    LET cp == NormalizeReport(rep)
    IN  ToHostDecision(IF IsObservation(cp)
                       THEN [cp EXCEPT !.action = "pass", !.disposition = "none"]
                       ELSE cp)

\* DecisionFromReport(nil).
PassDecision == [action |-> "pass", disposition |-> "none", kind |-> "safe"]

\* Decision.effectiveDisposition rebuilds a report without Fatal and Retryable.
DecisionDisposition(d) ==
    EffectiveDisposition(
        [BlankReport(d.action, d.kind) EXCEPT !.disposition = d.disposition])

\* The aggregate kind replaces the report's own unless it says nothing new.
WithOutputKind(d, outputKind) ==
    IF outputKind # "safe" \/ d.kind = "safe"
    THEN [d EXCEPT !.kind = outputKind] ELSE d

PolicyDecision(reports, outputKind) ==
    WithOutputKind(DecisionFromReport(Decision(reports)), outputKind)

PolicyDecisionReport(reports, outputKind) ==
    WithOutputKind(Decision(reports), outputKind)

\* The decision inside a PolicyFailure that carries a cause.
PolicyFailureFromReport(rep) ==
    LET d == DecisionFromReport(rep)
    IN  IF d.disposition = "none" THEN [d EXCEPT !.disposition = "system_fault"]
        ELSE d

ErrorClasses == {"nil", "blocked", "retry", "fault"}

\* Mutant: corrections are routed by action instead of disposition.
ErrorFromAction(rep) ==
    IF IsSystemFault(rep) THEN "fault"
    ELSE IF rep.action = "retry" THEN "retry"
    ELSE IF IsTerminalDeny(rep) THEN "blocked"
    ELSE "nil"

\* Which of ValidatorFaultError, RetryError, BlockError or nil is returned.
ErrorFromDecision(rep) ==
    CASE IsRetryableCorrection(rep) -> "retry"
      [] IsTerminalDeny(rep)        -> "blocked"
      [] EffectiveDisposition(rep) = "none"
           /\ rep.action \in {"pass", "redact"} -> "nil"
      [] OTHER                      -> "fault"

-----------------------------------------------------------------------------
(* What GuardDelivery may answer: the class of its error, the disposition  *)
(* of its decision, and whether a value may be sent.  A value sent beside  *)
(* a deny or a correction is the checked fallback.                         *)

Answers ==
    {[error |-> "nil", disposition |-> "none", deliverable |-> TRUE,
      fallback |-> FALSE],
     [error |-> "fault", disposition |-> "system_fault", deliverable |-> FALSE,
      fallback |-> FALSE]}
    \cup
    {[error |-> "blocked", disposition |-> "terminal_deny", deliverable |-> sent,
      fallback |-> sent] : sent \in BOOLEAN}
    \cup
    {[error |-> "retry", disposition |-> "retryable_correction",
      deliverable |-> sent, fallback |-> sent] : sent \in BOOLEAN}

-----------------------------------------------------------------------------
(* What Pipeline.Run may answer, for the callers that only look at the     *)
(* value, the reports, their aggregate kind and the error.                 *)

RunAnswer(output, reports, fault) ==
    LET all == IF fault THEN Append(reports, ValidatorFaultReport) ELSE reports
    IN  [output |-> output, reports |-> all,
         kind |-> AggregatePayloadKind(all), fault |-> fault]

\* unusable: the context has ended, or the scope lacks what the run requires.
RunAnswers(outputs, reportLists, unusable) ==
    {RunAnswer(output, reports, fault) :
        output \in outputs, reports \in reportLists,
        fault \in IF unusable THEN {TRUE} ELSE BOOLEAN}

KeepsRunPromise(answer, unusable) ==
    /\ answer.kind = AggregatePayloadKind(answer.reports)
    /\ answer.fault =>
          /\ answer.reports # <<>>
          /\ answer.reports[Len(answer.reports)] = ValidatorFaultReport
    /\ unusable => answer.fault
=============================================================================
