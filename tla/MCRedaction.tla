---------------------------- MODULE MCRedaction ----------------------------
(* Two workers over texts of up to four letters, one with overlapping and  *)
(* touching spans.  Two ways of writing a namespace are one canonical      *)
(* namespace.  The first worker's job is any carrier with any check; the   *)
(* second competes for the same originals.                                 *)
EXTENDS Redaction

L(n) == <<"letter", n>>

Plain == [text |-> <<L(1)>>, spans |-> {}]
Name == [text |-> <<L(1), L(2)>>, spans |-> {<<1, 2>>}]
Overlap == [text |-> <<L(2), L(1), L(2), L(3)>>, spans |-> {<<0, 3>>, <<1, 2>>, <<3, 4>>}]

With(found, check) == [text |-> found.text, spans |-> found.spans, check |-> check]

MCNormalized == [ns \in {"pii", "PII", "word-list"} |->
                    IF ns = "word-list" THEN "WORDLIST" ELSE "PII"]

Spans(vault, space) ==
    [kind |-> "spans", action |-> "redact", fatal |-> FALSE, retryable |-> FALSE,
     vault |-> vault, space |-> space]

Checks ==
    {Spans("none", "PII"), Spans("memory", "PII"), Spans("host", "word-list"),
     [Spans("none", "PII") EXCEPT !.action = "block", !.retryable = TRUE],
     [Spans("memory", "PII") EXCEPT !.fatal = TRUE],
     [Spans("none", "PII") EXCEPT !.kind = "pattern"],
     [Spans("none", "PII") EXCEPT !.kind = "pattern", !.fatal = TRUE],
     [Spans("none", "PII") EXCEPT !.kind = "pattern", !.action = "block"],
     [Spans("none", "PII") EXCEPT !.kind = "detector", !.action = "block"]}

\* Every check on its own; a composite redacts the first leaf and treats the
\* second in any way.
FirstJobs ==
    {[carrier |-> c, leaves |-> <<With(l[1], Spans("memory", "PII")), With(l[2], k)>>] :
        c \in {"slice", "json"}, l \in {<<Name, Overlap>>, <<Plain, Name>>}, k \in Checks}
    \cup
    {[carrier |-> c, leaves |-> <<With(Name, k), With(Overlap, k)>>] :
        c \in {"slice", "json"}, k \in Checks}
    \cup
    {[carrier |-> c, leaves |-> <<With(Overlap, k)>>] :
        c \in {"text", "map", "raw"}, k \in Checks}
    \cup
    {[carrier |-> c, leaves |-> <<>>] : c \in {"raw", "slice", "json"}}

Rivals ==
    {[carrier |-> "text", leaves |-> <<With(Overlap, Spans("memory", ns))>>] :
        ns \in {"pii", "word-list"}}

MCJobs == FirstJobs \cup Rivals

MCInit == Init /\ \A p \in Workers \ {"w1"} : job[p] \in Rivals /\ job["w1"] \in FirstJobs

MCSpec == MCInit /\ [][Next]_vars

Denied == BlankReport("block", "safe")

MCFindings ==
    {[BlankReport("pass", "safe") EXCEPT !.finite = FALSE],
     FinishReport(BlankReport("retry", "safe"), "retry", FALSE),
     [Denied EXCEPT !.kind = "technical"],
     [Denied EXCEPT !.shadow = TRUE, !.kind = "internal"],
     [BlankReport("pass", "safe") EXCEPT !.shadow = TRUE]}
=============================================================================
