----------------------------- MODULE Arguments -----------------------------
(***************************************************************************)
(* One call of an arguments boundary, typed (ArgsPipeline) or dynamic      *)
(* (JSONArgsPipeline), by one of its hosts: a wrapper that hands the       *)
(* approved arguments to a handler, or a tool binder that also checks them *)
(* against the tool's manifest schema.  That check is a second typed       *)
(* boundary over the canonical text; while it runs (stage "schema") the    *)
(* result of the first is kept in args.                                    *)
(*                                                                         *)
(* The guards answer as Pipeline.Run may (RunAnswers).  Decoders, hooks,   *)
(* encoders and checkers are callbacks: the caller's context may end while *)
(* they run, and they may fail with a cancellation of their own.           *)
(***************************************************************************)
EXTENDS Scope

CONSTANTS
    Texts,          \* argument texts
    Values,         \* decoded values
    Encode,         \* the canonical text of each value (a faithful codec)
    GuardReports,   \* the report lists of a guard's run
    CheckReports,   \* the reports of a JSON checker
    SchemaReports,  \* the report lists of the manifest schema's run
    Configs         \* the configurations of boundary, host and scope

ASSUME EncodeAssumption == Encode \in [Values -> Texts]
ASSUME GuardReportsAssumption ==
    GuardReports \cup SchemaReports \subseteq Seq(Report)
ASSUME CheckReportsAssumption == CheckReports \subseteq Report

Config ==
    [json     : BOOLEAN,                    \* dynamic JSON arguments
     binder   : BOOLEAN,                    \* the host is a tool binder
     final    : BOOLEAN,                    \* a final guard is installed
     factory  : BOOLEAN,                    \* the host has a scope factory
     manifest : BOOLEAN,                    \* the manifest's schema compiles
     raw      : SUBSET ScopeRequirement,    \* what the raw guard requires
     last     : SUBSET ScopeRequirement,    \* what the final guard requires
     scope    : [Keys -> AtMostOne(SUBSET Types)]]

\* A binder installs its final guard after the caller's options.
ASSUME ConfigsAssumption ==
    Configs \subseteq {c \in Config : c.binder => c.final}

VARIABLES
    config,    \* how the boundary was built and for which scope it is called
    ctxErr,    \* ctx.Err() of the caller's context
    at,        \* where the call is
    stage,     \* "args", or "schema" during the manifest check
    bound,     \* the decoded value, not yet handed out
    payload,   \* the GuardedArgs under construction
    args,      \* the first boundary's payload, in stage "schema"
    error,     \* the error of the call
    handed,    \* what the handler or the tool gets
    approved   \* the texts the final guard and the schema have approved

vars == <<config, ctxErr, at, stage, bound, payload, args, error, handed, approved>>

CtxErrors == {"none", "canceled", "deadline"}

Payload ==
    [value     : AtMostOne(Values),   \* Value, or Object
     sanitized : AtMostOne(Texts),
     reports   : Seq(Report),
     kind      : PayloadKinds,
     decision  : HostDecision]

\* class "plain" is an error without a policy decision; ended are the context
\* errors errors.Is finds in it.
Error ==
    [class : ErrorClasses \cup {"plain"}, ended : SUBSET {"canceled", "deadline"}]

NoPayload ==
    [value |-> <<>>, sanitized |-> <<>>, reports |-> <<>>, kind |-> "safe",
     decision |-> PassDecision]

NoError == [class |-> "nil", ended |-> {}]

\* What a callback answers: success, an error, or a cancellation of its own.
CallbackAnswers == {"ok", "failed", "canceled", "deadline"}

-----------------------------------------------------------------------------

IsJSON == config.json /\ stage = "args"

HasFinal == config.final /\ stage = "args"

RequiredScope ==
    IF stage = "schema" THEN {}
    ELSE IF config.final THEN mergeScopeRequirements(config.raw, config.last)
    ELSE config.raw

ScopeLacks(requirements) ==
    checkScopeRequirements(config.scope, requirements) # "ok"

Interrupted == ctxErr # "none"

Ended == IF Interrupted THEN {ctxErr} ELSE {}

Cancellation(answer) == {answer} \cap {"canceled", "deadline"}

\* A run that faults may also carry a cancellation of its guard's own.
RunCauses(answer) == IF answer.fault THEN {"failed", "canceled", "deadline"} ELSE {"ok"}

\* The context's error, joined with the callback's own.
CallbackCancellation(answer) == Ended \cup Cancellation(answer)

\* Mutant: the payload keeps the decision of the raw guard.
RefreshKindOnly(p) == [p EXCEPT !.kind = AggregatePayloadKind(p.reports)]

\* refreshGuardedArgsDecision.
Refresh(p) ==
    LET kind == AggregatePayloadKind(p.reports)
    IN  [p EXCEPT !.kind = kind,
                  !.decision = DecisionFromReport(PolicyDecisionReport(p.reports, kind))]

AppendReports(p, reports) == Refresh([p EXCEPT !.reports = @ \o reports])

WithFault(p) == AppendReports(p, <<ValidatorFaultReport>>)

DecisionError(p) == ErrorFromDecision(PolicyDecisionReport(p.reports, p.kind))

GuardedArgsFromRun(answer) ==
    [value     |-> <<>>,
     sanitized |-> <<answer.output>>,
     reports   |-> answer.reports,
     kind      |-> answer.kind,
     decision  |-> PolicyDecision(answer.reports, answer.kind)]

(* The call ends with an error; a manifest check leaves the arguments of   *)
(* the first boundary, and nothing is handed out.                          *)
Stop(p, class, ended) ==
    /\ at' = "done"
    /\ payload' = IF stage = "args" THEN p ELSE args
    /\ error' = [class |-> class, ended |-> ended]
    /\ UNCHANGED <<stage, args, handed>>

Fault(p, ended) == Stop(WithFault(p), "fault", ended)

Correct(p) ==
    Stop(AppendReports(p, <<FinishReport(BlankReport("retry", "safe"), "retry", FALSE)>>),
         "retry", {})

Go(to, p) ==
    /\ at' = to
    /\ payload' = p
    /\ UNCHANGED <<stage, args, error, handed>>

HandOver(p) ==
    /\ at' = "done"
    /\ payload' = p
    /\ handed' = <<[value |-> p.value[1], text |-> p.sanitized[1]]>>
    /\ UNCHANGED <<stage, args, error>>

\* Validate returns p without an error.
Approve(p) ==
    \/ stage = "args" /\ ~config.binder /\ HandOver(p)
    \/ stage = "args" /\ config.binder /\ Go("manifest", p)
    \/ stage = "schema" /\ HandOver(args)

-----------------------------------------------------------------------------

Init ==
    /\ config \in Configs
    /\ ctxErr = "none"
    /\ at = "resolve"
    /\ stage = "args"
    /\ bound = <<>>
    /\ payload = NoPayload
    /\ args = NoPayload
    /\ error = NoError
    /\ handed = <<>>
    /\ approved = {}

(* The caller's context ends, by cancellation or at its deadline.          *)
ContextEnds(err) ==
    /\ at # "done"
    /\ ctxErr = "none"
    /\ ctxErr' = err
    /\ UNCHANGED <<config, at, stage, bound, payload, args, error, handed, approved>>

\* A wrapper turns a scope failure into a fault; a binder passes it on.
ScopeFailure(ended) ==
    IF config.binder THEN Stop(NoPayload, "plain", ended)
    ELSE Fault(NoPayload, ended)

(* The host asks for current facts, under a live context only.             *)
ResolveScope ==
    /\ at = "resolve"
    /\ IF Interrupted THEN ScopeFailure(Ended)
       ELSE Go(IF config.factory THEN "facts" ELSE "enter", payload)
    /\ UNCHANGED <<config, ctxErr, bound, approved>>

(* The scope factory returns, and the context is looked at again.          *)
FactsReturn(answer) ==
    /\ at = "facts"
    /\ IF answer = "ok" /\ ~Interrupted
       THEN Go("enter", payload)
       ELSE ScopeFailure(IF config.binder \/ answer = "ok"
                         THEN CallbackCancellation(answer)
                         ELSE Cancellation(answer))
    /\ UNCHANGED <<config, ctxErr, bound, approved>>

(* Validate checks what both guards require before it runs either.         *)
CheckScope ==
    /\ at = "enter"
    /\ IF ScopeLacks(RequiredScope) THEN Fault(NoPayload, {}) ELSE Go("raw", payload)
    /\ UNCHANGED <<config, ctxErr, bound, approved>>

\* What the raw guard may answer: in stage "schema" it is the schema's check of
\* the canonical text, which it does not change.
RawAnswers ==
    IF stage = "args"
    THEN RunAnswers(Texts, GuardReports, Interrupted \/ ScopeLacks(config.raw))
    ELSE RunAnswers({args.sanitized[1]}, SchemaReports, Interrupted)

RawReturns(answer, cause) ==
    LET p   == GuardedArgsFromRun(answer)
        err == ErrorFromDecision(Decision(answer.reports))
    IN  /\ at = "raw"
        /\ answer \in RawAnswers
        /\ cause \in RunCauses(answer)
        /\ IF answer.fault THEN Stop(p, "fault", CallbackCancellation(cause))
           ELSE IF err # "nil" THEN Stop(p, err, {})
           ELSE Go(IF IsJSON THEN "parse" ELSE "bind", p)
        /\ approved' = IF stage = "schema" /\ ~answer.fault /\ err = "nil"
                       THEN approved \cup {[by |-> "schema", text |-> answer.output]}
                       ELSE approved
        /\ UNCHANGED <<config, ctxErr, bound>>

-----------------------------------------------------------------------------
(* Typed arguments: decode, post-bind hook, canonical encoding.            *)

AfterCheck ==
    [bind |-> "decoding", hook |-> "hooking", encode |-> "encoding", check |-> "checking"]

(* The context check before each callback.                                 *)
CheckContext ==
    /\ at \in DOMAIN AfterCheck
    /\ IF Interrupted THEN Fault(payload, Ended) ELSE Go(AfterCheck[at], payload)
    /\ UNCHANGED <<config, ctxErr, bound, approved>>

\* The manifest check decodes and encodes bytes that its guard has just parsed.
Callback(answer) == stage = "schema" => answer = "ok"

\* Mutant: a failed decode is a correction before the context is looked at.
BindReturnsFailureFirst(from, to, answer, value) ==
    /\ at = from
    /\ Callback(answer)
    /\ IF answer = "failed" THEN Correct(payload)
       ELSE IF CallbackCancellation(answer) # {}
       THEN Fault(payload, CallbackCancellation(answer))
       ELSE Go(to, payload)
    /\ bound' = <<value>>
    /\ UNCHANGED <<config, ctxErr, approved>>

(* Decode or a post-bind hook returns.  A cancellation, the context's or   *)
(* the callback's own, outranks the correction that a failure asks for.    *)
(* Either may leave any value behind.                                      *)
BindReturns(from, to, answer, value) ==
    /\ at = from
    /\ Callback(answer)
    /\ IF CallbackCancellation(answer) # {}
       THEN Fault(payload, CallbackCancellation(answer))
       ELSE IF answer = "failed" THEN Correct(payload)
       ELSE Go(to, payload)
    /\ bound' = <<value>>
    /\ UNCHANGED <<config, ctxErr, approved>>

Decoded(answer, value) == BindReturns("decoding", "hook", answer, value)

HookReturns(answer, value) == BindReturns("hooking", "encode", answer, value)

(* The canonical text replaces the one that was decoded.                   *)
Encoded(answer) ==
    /\ at = "encoding"
    /\ Callback(answer)
    /\ IF answer # "ok" \/ Interrupted
       THEN Fault(payload, CallbackCancellation(answer))
       ELSE Go(IF HasFinal THEN "final" ELSE "last",
               [payload EXCEPT !.sanitized = <<Encode[bound[1]]>>])
    /\ UNCHANGED <<config, ctxErr, bound, approved>>

-----------------------------------------------------------------------------
(* Dynamic JSON arguments: parse, checker.                                 *)

(* The document is an object, or it is not and has to be corrected.  The   *)
(* object is in the payload from here on, whatever the later checks say.   *)
Parse(object) ==
    /\ at = "parse"
    /\ IF object = <<>> THEN Correct(payload)
       ELSE Go("check", [payload EXCEPT !.value = object,
                                        !.sanitized = <<Encode[object[1]]>>])
    /\ bound' = object
    /\ UNCHANGED <<config, ctxErr, approved>>

\* Mutant: the checker gets the object itself, not a copy, and changes it.
CheckerAliases(rep, scribbled) ==
    LET p == AppendReports([payload EXCEPT !.value = <<scribbled>>], NormalizeAll(rep))
    IN  /\ at = "checking"
        /\ IF Interrupted THEN Fault(payload, Ended)
           ELSE IF rep # <<>> /\ DecisionError(p) # "nil" THEN Stop(p, DecisionError(p), {})
           ELSE Go(IF HasFinal THEN "final" ELSE "last", p)
        /\ UNCHANGED <<config, ctxErr, bound, approved>>

(* The checker reports, at most, on a copy of the object; what it does to  *)
(* the copy (scribbled) is lost.                                           *)
CheckerReturns(rep, scribbled) ==
    LET p == IF rep = <<>> THEN payload ELSE AppendReports(payload, NormalizeAll(rep))
    IN  /\ at = "checking"
        /\ IF Interrupted THEN Fault(payload, Ended)
           ELSE IF rep # <<>> /\ DecisionError(p) # "nil" THEN Stop(p, DecisionError(p), {})
           ELSE Go(IF HasFinal THEN "final" ELSE "last", p)
        /\ UNCHANGED <<config, ctxErr, bound, approved>>

-----------------------------------------------------------------------------
(* The common tail.                                                        *)

\* Mutant: what the final guard hands back is not compared.
FinalTrusted(answer, cause) ==
    LET p == AppendReports(payload, answer.reports)
    IN  /\ at = "final"
        /\ answer \in RunAnswers(Texts, GuardReports, Interrupted \/ ScopeLacks(config.last))
        /\ cause \in RunCauses(answer)
        /\ IF answer.fault THEN Fault(p, CallbackCancellation(cause))
           ELSE IF DecisionError(p) # "nil" THEN Stop(p, DecisionError(p), {})
           ELSE Go("last", p)
        /\ approved' = approved \cup {[by |-> "final", text |-> answer.output]}
        /\ UNCHANGED <<config, ctxErr, bound>>

(* The read-only final guard runs on the canonical text.                   *)
FinalReturns(answer, cause) ==
    LET p    == AppendReports(payload, answer.reports)
        same == answer.output = payload.sanitized[1]
        ok   == ~answer.fault /\ DecisionError(p) = "nil" /\ same
    IN  /\ at = "final"
        /\ answer \in RunAnswers(Texts, GuardReports, Interrupted \/ ScopeLacks(config.last))
        /\ cause \in RunCauses(answer)
        /\ IF answer.fault THEN Fault(p, CallbackCancellation(cause))
           ELSE IF DecisionError(p) # "nil" THEN Stop(p, DecisionError(p), {})
           ELSE IF ~same THEN Fault(p, {})
           ELSE Go("last", p)
        /\ approved' = IF ok THEN approved \cup {[by |-> "final", text |-> answer.output]}
                       ELSE approved
        /\ UNCHANGED <<config, ctxErr, bound>>

(* The last look at the context; then the value leaves the boundary.       *)
Release ==
    /\ at = "last"
    /\ IF Interrupted THEN Fault(payload, Ended)
       ELSE Approve([payload EXCEPT !.value = IF IsJSON THEN @ ELSE bound])
    /\ UNCHANGED <<config, ctxErr, bound, approved>>

(* checkManifest: the tool's own schema, as a second boundary.             *)
CheckManifest ==
    /\ at = "manifest"
    /\ IF ~config.manifest THEN Stop(payload, "plain", {}) /\ UNCHANGED bound
       ELSE /\ at' = "enter"
            /\ stage' = "schema"
            /\ args' = payload
            /\ payload' = NoPayload
            /\ bound' = <<>>
            /\ UNCHANGED <<error, handed>>
    /\ UNCHANGED <<config, ctxErr, approved>>

Finished == at = "done" /\ UNCHANGED vars

Validate ==
    \/ CheckScope
    \/ CheckContext
    \/ Release
    \/ \E answer \in RunAnswers(Texts, GuardReports \cup SchemaReports, FALSE),
          cause \in CallbackAnswers :
          RawReturns(answer, cause) \/ FinalReturns(answer, cause)
    \/ \E answer \in CallbackAnswers, value \in Values :
          Decoded(answer, value) \/ HookReturns(answer, value)
    \/ \E answer \in CallbackAnswers : Encoded(answer)
    \/ \E object \in Optional(Values) : Parse(object)
    \/ \E rep \in Optional(CheckReports), scribbled \in Values : CheckerReturns(rep, scribbled)

Host ==
    \/ ResolveScope
    \/ \E answer \in CallbackAnswers : FactsReturn(answer)
    \/ CheckManifest

Next ==
    \/ Validate
    \/ Host
    \/ \E err \in CtxErrors \ {"none"} : ContextEnds(err)
    \/ Finished

Spec == Init /\ [][Next]_vars

-----------------------------------------------------------------------------
(* The tool error a binder's host sees (MapArgsError).                     *)

ToolCodes == {"none", "timeout", "internal", "denied", "validation"}

MapArgsError(err) ==
    IF err.class = "nil" THEN "none"
    ELSE IF "deadline" \in err.ended THEN "timeout"
    ELSE IF "canceled" \in err.ended THEN "internal"
    ELSE CASE err.class = "retry"   -> "validation"
           [] err.class = "blocked" -> "denied"
           [] OTHER                 -> "internal"

-----------------------------------------------------------------------------
(* Properties.                                                             *)

(* What the handler or tool gets is one value and its own canonical text,  *)
(* the very bytes that the final guard and the manifest schema approved:   *)
(* no decoder, hook, checker or guard can slip a change in after approval. *)
ApprovedBytes ==
    handed # <<>> =>
        LET text == handed[1].text
        IN  /\ Encode[handed[1].value] = text
            /\ config.final => [by |-> "final", text |-> text] \in approved
            /\ config.binder => [by |-> "schema", text |-> text] \in approved

(* A caller is asked to correct its arguments, or refused by policy, only  *)
(* by a check that ended under a live context.  JSON parsing is no         *)
(* callback and looks at no context.                                       *)
CancellationOutranksCorrection ==
    [][at # "parse" /\ at' = "done" /\ MapArgsError(error') \in {"validation", "denied"}
         => ctxErr = "none"]_vars

(* The decision in the returned payload says what the error says, and only *)
(* a call without an error hands anything out.                             *)
ErrorMatchesDecision ==
    at = "done" =>
        /\ error.class = "nil" <=> handed # <<>>
        /\ stage = "args" /\ error.class # "plain" =>
              DecisionDisposition(payload.decision) =
                 CASE error.class = "nil"     -> "none"
                   [] error.class = "retry"   -> "retryable_correction"
                   [] error.class = "blocked" -> "terminal_deny"
                   [] error.class = "fault"   -> "system_fault"

(* The check up front covers what each guard requires: no guard runs to    *)
(* find out that the scope lacks a fact after an earlier one has spoken.   *)
MergedScopeSuffices ==
    /\ stage = "args" /\ at = "raw" => ~ScopeLacks(config.raw)
    /\ stage = "args" /\ at = "final" => ~ScopeLacks(config.last)
=============================================================================
