----------------------------- MODULE Redaction -----------------------------
(***************************************************************************)
(* Concurrent calls of redacting validators over one token vault.          *)
(*                                                                         *)
(* A carrier takes a value apart into leaf texts and runs a text check on  *)
(* each: Map and MapJSONRawMessage on one leaf, MapSlice on the elements   *)
(* of a slice, jsonredact on the strings of a JSON document; carrier       *)
(* "text" is a check called directly.  A text is a sequence of symbols:    *)
(* letters, the irreversible replacement, and tokens.  Client texts hold   *)
(* no tokens.  What a detector's patterns find in a text is a set of spans *)
(* (offsets from 0, the end excluded), which may overlap.                  *)
(***************************************************************************)
EXTENDS Reports, TokenVault, FiniteSets, SequencesExt

CONSTANTS
    Workers,     \* concurrent validator calls
    Jobs,        \* what a call may be about
    Findings     \* the reports of a model-backed detector

Mark == <<"mark", 0>>

Letter(symbol) == symbol[1] = "letter"

Check ==
    [kind : {"spans", "pattern", "detector"}, action : {"block", "redact"},
     fatal : BOOLEAN, retryable : BOOLEAN, \* WithFatal and WithRetryable
     vault : {"none", "memory", "host"}, space : Namespaces]

Symbol == {"letter", "mark"} \X Nat

\* Client texts hold no tokens.
ASSUME SymbolsAssumption == Spaces \cap {"letter", "mark"} = {}

\* check is the one that a carrier's validator, perhaps a composite, applies.
Leaf ==
    [text : Seq(Symbol), spans : SUBSET (Nat \X Nat), check : Check]

Job == [carrier : {"text", "map", "raw", "slice", "json"}, leaves : Seq(Leaf)]

ASSUME JobsAssumption ==
    \A job \in Jobs :
        /\ job \in Job
        /\ job.carrier \in {"text", "map"} => Len(job.leaves) = 1
        /\ job.carrier = "raw" => Len(job.leaves) <= 1
        /\ \A i \in DOMAIN job.leaves : \A span \in job.leaves[i].spans :
              span[1] <= span[2] /\ span[2] <= Len(job.leaves[i].text)

ASSUME FindingsAssumption == Findings \subseteq Report

VARIABLES
    job,    \* the job of each worker
    ended,  \* the workers whose context has ended
    at,     \* where each worker is
    leaf,   \* the leaf it is at
    text,   \* the part of that leaf rewritten so far
    todo,   \* the spans of that leaf still to be replaced
    out,    \* the leaves of its result
    combined, \* the report composed so far
    seen,   \* the reports of the leaves that were completed
    fault   \* it ended with an error

workVars == <<job, ended, at, leaf, text, todo, out, combined, seen, fault>>

vars == <<workVars, vaultVars>>

Input(p) == [i \in DOMAIN job[p].leaves |-> job[p].leaves[i].text]

-----------------------------------------------------------------------------
(* Spans.                                                                  *)

\* By start, the longer first.
Before(a, b) == a[1] < b[1] \/ (a[1] = b[1] /\ a[2] > b[2])

InOrder(spans) ==
    [i \in 1..Cardinality(spans) |->
        CHOOSE span \in spans : Cardinality({s \in spans : Before(s, span)}) = i - 1]

\* Mutant: an overlapping span ends the merged one.
MergedLastEnd(merged, span) ==
    IF merged # <<>> /\ span[1] < merged[Len(merged)][2]
    THEN [merged EXCEPT ![Len(merged)] = <<@[1], span[2]>>]
    ELSE Append(merged, span)

\* Overlapping spans are one.
Merged(merged, span) ==
    IF merged # <<>> /\ span[1] < merged[Len(merged)][2]
    THEN [merged EXCEPT ![Len(merged)] = <<@[1], IF span[2] > @[2] THEN span[2] ELSE @[2]>>]
    ELSE Append(merged, span)

\* piiSpans, of what the patterns found.
MergeSpans(spans) ==
    LET sorted == InOrder(spans)
        merged[i \in 0..Len(sorted)] ==
            IF i = 0 THEN <<>> ELSE Merged(merged[i - 1], sorted[i])
    IN  merged[Len(sorted)]

Covered(input, span) == SubSeq(input, span[1] + 1, span[2])

\* The untouched text between the end of one span and the start of the next.
Between(input, from, spans) ==
    SubSeq(input, from + 1, IF spans = <<>> THEN Len(input) ELSE Head(spans)[1])

\* A literal replacement of every match, as the pattern checks do it.
ReplaceLiterally(input, spans) ==
    Between(input, 0, spans)
      \o FlattenSeq([i \in 1..Len(spans) |->
                        <<Mark>> \o Between(input, spans[i][2],
                                            SubSeq(spans, i + 1, Len(spans)))])

\* UnredactText: known tokens give way to what they stand for.
UnredactText(redacted) ==
    FlattenSeq([i \in DOMAIN redacted |->
                   LET original == Restore(redacted[i])
                   IN  IF original = <<>> THEN <<redacted[i]>> ELSE original[1]])

-----------------------------------------------------------------------------
(* How a call ends and goes on.                                            *)

\* The completed report that a fault carries (WithCompletedObservations).
Evidence(completed) == IF completed = <<>> THEN <<>> ELSE <<ComposeReports(completed)>>

End(p, result, report, failed) ==
    /\ at' = [at EXCEPT ![p] = "done"]
    /\ out' = [out EXCEPT ![p] = result]
    /\ combined' = [combined EXCEPT ![p] = report]
    /\ fault' = [fault EXCEPT ![p] = failed]
    /\ UNCHANGED <<leaf, text, todo>>

Fault(p, completed) == End(p, Input(p), Evidence(completed), TRUE)

NextLeaf(p) ==
    /\ at' = [at EXCEPT ![p] = "next"]
    /\ leaf' = [leaf EXCEPT ![p] = @ + 1]
    /\ UNCHANGED <<text, todo, fault>>

Disposition(reports) == DecisionFromReport(reports[1]).disposition

Corrupted == FinishReport(BlankReport("retry", "safe"), "retry", FALSE)

\* Mutant: what was found in the other leaves is dropped.
FailedAlone(p, own) == Fault(p, own)

(* A leaf's check failed, or the context ended meanwhile.  own is what the *)
(* check's error carries of its own.                                       *)
Failed(p, own) == Fault(p, combined[p] \o Evidence(own))

\* Mutant: a slice with a denied element keeps its other redactions.
AcceptedKeepsPrefix(p, result, rep, corrupted) ==
    LET all == <<ComposeReports(combined[p] \o rep)>>
    IN  /\ job[p].carrier = "slice"
        /\ IF Disposition(all) # "none" THEN End(p, out[p], all, FALSE)
           ELSE /\ combined' = [combined EXCEPT ![p] = all]
                /\ out' = IF rep # <<>> /\ rep[1].action = "redact"
                          THEN [out EXCEPT ![p][leaf[p]] = result] ELSE out
                /\ NextLeaf(p)

\* MapSlice stops at the first element that is not let through.
AcceptedBySlice(p, result, rep, corrupted) ==
    LET all == <<ComposeReports(combined[p] \o rep)>>
    IN  /\ job[p].carrier = "slice"
        /\ IF Disposition(all) # "none" THEN End(p, Input(p), all, FALSE)
           ELSE /\ combined' = [combined EXCEPT ![p] = all]
                /\ out' = IF rep # <<>> /\ rep[1].action = "redact"
                          THEN [out EXCEPT ![p][leaf[p]] = result] ELSE out
                /\ NextLeaf(p)

\* jsonredact goes on, whatever a leaf's decision.
AcceptedByJSON(p, result, rep, corrupted) ==
    /\ job[p].carrier = "json"
    /\ IF rep = <<>> THEN UNCHANGED <<combined, out>>
       ELSE /\ combined' = [combined EXCEPT ![p] = <<ComposeReports(combined[p] \o rep)>>]
            /\ out' = IF Disposition(rep) = "none" /\ rep[1].action = "redact"
                      THEN [out EXCEPT ![p][leaf[p]] = result] ELSE out
    /\ NextLeaf(p)

\* Mutant: a redaction is taken over, whatever it decides.
AcceptedAnyRedaction(p, result, rep, corrupted) ==
    /\ job[p].carrier \in {"map", "raw"}
    /\ corrupted => job[p].carrier = "raw"
    /\ IF rep = <<>> \/ rep[1].action # "redact" \/ corrupted
       THEN End(p, Input(p), NormalizeAll(rep), FALSE)
       ELSE End(p, <<result>>, NormalizeAll(rep), FALSE)

\* Map and MapJSONRawMessage; the latter wants JSON back.
AcceptedByMap(p, result, rep, corrupted) ==
    LET normal == NormalizeAll(rep)
        redacts == rep # <<>> /\ ~ShouldShortCircuitValidator(rep[1])
                     /\ rep[1].action = "redact"
    IN  /\ job[p].carrier \in {"map", "raw"}
        /\ corrupted => job[p].carrier = "raw"
        /\ IF ~redacts THEN End(p, Input(p), normal, FALSE)
           ELSE IF corrupted
           THEN End(p, Input(p), <<ComposeReports(Append(normal, Corrupted))>>, FALSE)
           ELSE End(p, <<result>>, normal, FALSE)

(* A leaf's check returns to its carrier with a text and at most a report, *)
(* or with an error.  A carrier looks at the context again; one called     *)
(* directly has nobody to do so.                                           *)
Returns(p, result, rep, err, own, corrupted) ==
    /\ seen' = IF err \/ (p \in ended /\ job[p].carrier # "text") THEN seen
               ELSE [seen EXCEPT ![p] = @ \o rep]
    /\ IF job[p].carrier = "text"
       THEN IF err THEN Fault(p, own) ELSE End(p, <<result>>, rep, FALSE)
       ELSE IF err \/ p \in ended THEN Failed(p, own)
       ELSE \/ AcceptedBySlice(p, result, rep, corrupted)
            \/ AcceptedByJSON(p, result, rep, corrupted)
            \/ AcceptedByMap(p, result, rep, corrupted)
    /\ UNCHANGED <<job, ended>>

-----------------------------------------------------------------------------

Init ==
    /\ VaultInit
    /\ job \in [Workers -> Jobs]
    /\ ended = {}
    /\ at = [p \in Workers |-> "start"]
    /\ leaf = [p \in Workers |-> 1]
    /\ text = [p \in Workers |-> <<>>]
    /\ todo = [p \in Workers |-> <<>>]
    /\ out = [p \in Workers |-> Input(p)]
    /\ combined = [p \in Workers |-> <<>>]
    /\ seen = [p \in Workers |-> <<>>]
    /\ fault = [p \in Workers |-> FALSE]

ContextEnds(p) ==
    /\ at[p] # "done"
    /\ p \notin ended
    /\ ended' = ended \cup {p}
    /\ UNCHANGED <<job, at, leaf, text, todo, out, combined, seen, fault, vaultVars>>

PassReport == FinishReport(BlankReport("pass", "safe"), "pass", FALSE)

(* The carrier starts: most look at the context, MapSlice does so before   *)
(* each element; nothing to check is a pass, and a text that is no JSON    *)
(* document has to be corrected.                                           *)
Start(p, parses) ==
    /\ at[p] = "start"
    /\ ~parses => job[p].carrier = "json"
    /\ IF p \in ended /\ job[p].carrier \in {"map", "raw", "json"} THEN Fault(p, <<>>)
       ELSE IF ~parses THEN End(p, Input(p), <<Corrupted>>, FALSE)
       ELSE IF job[p].leaves = <<>> /\ job[p].carrier # "json"
       THEN End(p, Input(p), <<PassReport>>, FALSE)
       ELSE /\ at' = [at EXCEPT ![p] = "next"]
            /\ UNCHANGED <<leaf, text, todo, out, combined, fault>>
    /\ UNCHANGED <<job, ended, seen, vaultVars>>

(* The next leaf is taken, or all have been.  After a leaf with a system   *)
(* fault jsonredact only walks over the rest.                              *)
TakeLeaf(p) ==
    /\ at[p] = "next"
    /\ IF leaf[p] > Len(job[p].leaves)
       THEN /\ at' = [at EXCEPT ![p] = "finish"]
            /\ UNCHANGED <<leaf, text, todo, out, combined, fault>>
       ELSE IF p \in ended /\ job[p].carrier \in {"slice", "json"}
       THEN Fault(p, combined[p])
       ELSE IF /\ job[p].carrier = "json"
               /\ combined[p] # <<>> /\ Disposition(combined[p]) = "system_fault"
       THEN NextLeaf(p) /\ UNCHANGED <<out, combined>>
       ELSE /\ at' = [at EXCEPT ![p] = "check"]
            /\ UNCHANGED <<leaf, text, todo, out, combined, fault>>
    /\ UNCHANGED <<job, ended, seen, vaultVars>>

-----------------------------------------------------------------------------
(* The text checks.                                                        *)

Current(p) == job[p].leaves[leaf[p]]

(* Of its configured overrides, a block or a redaction is classified by    *)
(* Fatal alone: Retryable is only written down.                            *)
ViolationReport(check) ==
    [FinishReport(BlankReport(check.action, "safe"), check.action, check.fatal)
        EXCEPT !.retryable = check.retryable]

(* Regular expression, tag and length checks look at no context.           *)
PatternChecks(p, corrupted) ==
    LET found == Current(p)
        rep   == IF found.spans = {} THEN PassReport
                 ELSE ViolationReport(Current(p).check)
    IN  /\ at[p] = "check"
        /\ Current(p).check.kind = "pattern"
        /\ Returns(p, IF rep.action = "redact"
                      THEN ReplaceLiterally(found.text, MergeSpans(found.spans))
                      ELSE found.text,
                   <<rep>>, FALSE, <<>>, corrupted)
        /\ UNCHANGED vaultVars

(* Classifier, matcher or judge is called under a live context.            *)
DetectorStarts(p) ==
    /\ at[p] = "check"
    /\ Current(p).check.kind = "detector"
    /\ IF p \in ended THEN Returns(p, Current(p).text, <<>>, TRUE, <<>>, FALSE)
       ELSE /\ at' = [at EXCEPT ![p] = "detect"]
            /\ UNCHANGED <<job, ended, leaf, text, todo, out, combined, seen, fault>>
    /\ UNCHANGED vaultVars

(* It answers; an end of the context, an error or a score that is no       *)
(* number leaves no report.                                                *)
DetectorReturns(p, rep) ==
    /\ at[p] = "detect"
    /\ IF p \in ended \/ rep = <<>>
       THEN \E own \in Optional(Findings) : Returns(p, Current(p).text, <<>>, TRUE, own, FALSE)
       ELSE Returns(p, Current(p).text, NormalizeAll(rep), FALSE, <<>>, FALSE)
    /\ UNCHANGED vaultVars

(* Word list and personal data checks find their spans in the original.    *)
SpansFound(p) ==
    LET found == Current(p)
    IN  /\ at[p] = "check"
        /\ Current(p).check.kind = "spans"
        /\ IF p \in ended THEN Returns(p, found.text, <<>>, TRUE, <<>>, FALSE)
           ELSE IF found.spans = {}
           THEN Returns(p, found.text, <<PassReport>>, FALSE, <<>>, FALSE)
           ELSE IF Current(p).check.action = "block"
           THEN Returns(p, found.text, <<ViolationReport(Current(p).check)>>, FALSE, <<>>, FALSE)
           ELSE /\ at' = [at EXCEPT ![p] = "replace"]
                /\ todo' = [todo EXCEPT ![p] = MergeSpans(found.spans)]
                /\ text' = [text EXCEPT ![p] =
                               Between(found.text, 0, MergeSpans(found.spans))]
                /\ UNCHANGED <<job, ended, leaf, out, combined, seen, fault>>
        /\ UNCHANGED vaultVars

\* The text so far, with the replacement of the next span and what follows it.
Replaced(p, symbol) ==
    Append(text[p], symbol) \o Between(Current(p).text, Head(todo[p])[2], Tail(todo[p]))

\* Mutant: a vault that fails leaves the irreversible replacement.
StoreFailureMarks(p) ==
    /\ Current(p).check.vault = "host"
    /\ text' = [text EXCEPT ![p] = Replaced(p, Mark)]
    /\ todo' = [todo EXCEPT ![p] = Tail(@)]
    /\ UNCHANGED <<job, ended, at, leaf, out, combined, seen, fault, vaultVars>>

(* The host's vault may fail, panic, or answer nothing or the original:    *)
(* the check fails with it.                                                *)
StoreFails(p) ==
    /\ Current(p).check.vault = "host"
    /\ Returns(p, Current(p).text, <<>>, TRUE, <<>>, FALSE)
    /\ UNCHANGED vaultVars

StoreSucceeds(p) ==
    LET original == Covered(Current(p).text, Head(todo[p]))
        space    == Current(p).check.space
    IN  /\ IF Current(p).check.vault = "none"
           THEN UNCHANGED vaultVars /\ text' = [text EXCEPT ![p] = Replaced(p, Mark)]
           ELSE /\ Store(space, original)
                /\ text' = [text EXCEPT ![p] = Replaced(p, TokenOf(space, original))]
        /\ todo' = [todo EXCEPT ![p] = Tail(@)]
        /\ UNCHANGED <<job, ended, at, leaf, out, combined, seen, fault>>

(* storeRedaction, for the next span.                                      *)
ReplaceSpan(p) ==
    /\ at[p] = "replace"
    /\ todo[p] # <<>>
    /\ StoreFails(p) \/ StoreSucceeds(p)

(* All spans are replaced; a last look at the context.                     *)
SpansReplaced(p, corrupted) ==
    /\ at[p] = "replace"
    /\ todo[p] = <<>>
    /\ IF p \in ended THEN Returns(p, Current(p).text, <<>>, TRUE, <<>>, FALSE)
       ELSE Returns(p, text[p], <<ViolationReport(Current(p).check)>>, FALSE, <<>>, corrupted)
    /\ UNCHANGED vaultVars

-----------------------------------------------------------------------------

(* Every leaf has been checked.                                            *)
Finish(p) ==
    /\ at[p] = "finish"
    /\ IF /\ job[p].carrier = "json"
          /\ combined[p] # <<>> /\ Disposition(combined[p]) # "none"
       THEN End(p, Input(p), combined[p], FALSE)
       ELSE IF p \in ended THEN Fault(p, combined[p])
       ELSE End(p, out[p], IF combined[p] = <<>> THEN <<PassReport>> ELSE combined[p], FALSE)
    /\ UNCHANGED <<job, ended, seen, vaultVars>>

Finished == (\A p \in Workers : at[p] = "done") /\ UNCHANGED vars

Step(p) ==
    \/ \E parses \in BOOLEAN : Start(p, parses)
    \/ TakeLeaf(p)
    \/ \E corrupted \in BOOLEAN : PatternChecks(p, corrupted) \/ SpansReplaced(p, corrupted)
    \/ DetectorStarts(p)
    \/ \E rep \in Optional(Findings) : DetectorReturns(p, rep)
    \/ SpansFound(p)
    \/ ReplaceSpan(p)
    \/ Finish(p)

Next ==
    \/ \E p \in Workers : Step(p) \/ ContextEnds(p)
    \/ Finished

Spec == Init /\ [][Next]_vars

-----------------------------------------------------------------------------
(* Properties.                                                             *)

LetThrough(p) ==
    ~fault[p] /\ (combined[p] = <<>> \/ Disposition(combined[p]) = "none")

Redacts(found) == found.check.kind # "detector" /\ found.check.action = "redact"

\* The letters of a text but for those at some positions.
Letters(symbols, hidden) ==
    FlattenSeq([i \in DOMAIN symbols |->
                   IF Letter(symbols[i]) /\ i \notin hidden THEN <<symbols[i]>> ELSE <<>>])

Positions(spans) == UNION {(span[1] + 1)..span[2] : span \in spans}

\* The text that a check of found lets through.
Redacted(found, result) ==
    IF ~Redacts(found) THEN result = found.text
    ELSE /\ Letters(result, {}) = Letters(found.text, Positions(found.spans))
         /\ found.check.kind = "spans" /\ found.check.vault # "none" =>
               UnredactText(result) = found.text

(* A check that redacts and escalates, called directly, has nobody to put  *)
(* the original back: it answers the redacted text beside a terminal deny. *)
Escalated(p) ==
    LET found == job[p].leaves[1]
    IN  job[p].carrier = "text" /\ ~fault[p] /\ Redacts(found) /\ found.check.fatal

\* A value that is stopped comes back as it was, but for an escalated redaction.
Untouched ==
    \A p \in Workers :
        at[p] = "done" /\ ~LetThrough(p) /\ ~Escalated(p) => out[p] = Input(p)

(* A value that is stopped comes back as it was, whatever was replaced or  *)
(* stored before the stop; only a fatal redaction that no carrier called   *)
(* stops a value and rewrites it.  Such a value, and one that is let       *)
(* through, has every found letter replaced and no other, and with a vault *)
(* configured, failing or not, its tokens restore the original text,       *)
(* whoever else stored meanwhile.                                          *)
RedactedOrUntouched ==
    /\ Untouched
    /\ \A p \in Workers : at[p] = "done" /\ (LetThrough(p) \/ Escalated(p)) =>
          /\ DOMAIN out[p] = DOMAIN job[p].leaves
          /\ \A i \in DOMAIN out[p] : Redacted(job[p].leaves[i], out[p][i])

\* What a host reads off a report that there is.
SameDecision(reports, rep) ==
    reports # <<>> /\ DecisionFromReport(reports[1]) = DecisionFromReport(rep)

(* The report of a slice or a document, and what a fault carries of it, is *)
(* the composition of the reports of all leaves completed before, however  *)
(* they were combined one by one.  The report that an error brings along   *)
(* is composed on its own first: a host still reads the same decision.     *)
EvidenceComposed ==
    \A p \in Workers :
        at[p] = "done" /\ job[p].carrier \in {"slice", "json"} /\ seen[p] # <<>> =>
            \/ combined[p] = <<ComposeReports(seen[p])>>
            \/ /\ fault[p]
               /\ \E own \in Findings :
                     SameDecision(combined[p], ComposeReports(Append(seen[p], own)))
=============================================================================
