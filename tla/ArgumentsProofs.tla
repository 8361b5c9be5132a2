-------------------------- MODULE ArgumentsProofs --------------------------
(***************************************************************************)
(* The properties of Arguments, for every codec, every configuration and   *)
(* whatever guards, hooks and checkers answer.                             *)
(***************************************************************************)
EXTENDS Arguments, ReportProofs

\* A payload has the fields of GuardedArgs.
Shaped(p) ==
    p = [value |-> p.value, sanitized |-> p.sanitized, reports |-> p.reports,
         kind |-> p.kind, decision |-> p.decision]

\* p holds the canonical text of the value in v.
Canonical(v, p) == p.sanitized = <<Encode[v[1]]>>

Approves(by, p) == [by |-> by, text |-> p.sanitized[1]] \in approved

\* Where Validate is past its scope check.
Validating ==
    {"raw", "bind", "decoding", "hook", "hooking", "encode", "encoding", "parse",
     "check", "checking", "final", "last"}

(* The canonical text is in the payload from the encoder (or the parser)   *)
(* on, and the final guard's approval is of that text.                     *)
Value == IF IsJSON THEN payload.value ELSE bound

TextInv ==
    /\ at \in {"check", "checking", "final", "last"} => Canonical(Value, payload)
    /\ at = "last" /\ HasFinal => Approves("final", payload)

\* What a binder's first boundary left, before and during the manifest check.
Released(p) ==
    /\ Canonical(p.value, p)
    /\ config.final => Approves("final", p)

ManifestInv ==
    /\ at = "manifest" => stage = "args" /\ Released(payload)
    /\ stage = "schema" => at \in Validating \cup {"enter", "done"} /\ Released(args)
    /\ stage = "schema" /\ at \in Validating \ {"raw"} => Approves("schema", args)
    /\ at \in {"check", "checking", "parse"} => IsJSON

HandedInv ==
    /\ handed # <<>> => at = "done"
    /\ ApprovedBytes

ShapeInv == Shaped(payload) /\ Shaped(args) /\ stage \in {"args", "schema"}

BytesInv == ShapeInv /\ TextInv /\ ManifestInv /\ HandedInv

-----------------------------------------------------------------------------
(* The requirements that are merged cover those of each guard.             *)

(* Merging drops a nameless requirement, and one by name only whose key is *)
(* also required with a type: a scope that satisfies what is left          *)
(* satisfies everything (scope.go, mergeScopeRequirements).                *)
LEMMA MergeCovers ==
    ASSUME NEW scope, NEW existing, NEW new,
           checkScopeRequirements(scope, mergeScopeRequirements(existing, new)) = "ok"
    PROVE  /\ checkScopeRequirements(scope, existing) = "ok"
           /\ checkScopeRequirements(scope, new) = "ok"
<1> DEFINE merged == mergeScopeRequirements(existing, new)
           out == {req \in existing \cup new : req.key # NoKey}
<1>1. ASSUME NEW req \in merged, req.key # NoKey
      PROVE  scope[req.key] # <<>> /\ accepts(req, scope[req.key][1])
  BY <1>1 DEF checkScopeRequirements
<1>2. CASE new = {}
  BY <1>2 DEF mergeScopeRequirements, checkScopeRequirements
<1>3. CASE new # {}
  <2>1. merged = {req \in out : req.type = NameOnly =>
                                   \A o \in out : o.key = req.key => o.type = NameOnly}
    BY <1>3 DEF mergeScopeRequirements
  <2>2. ASSUME NEW req \in out
        PROVE  scope[req.key] # <<>> /\ accepts(req, scope[req.key][1])
    <3>1. CASE req \in merged
      BY <1>1, <3>1
    <3>2. CASE req \notin merged
      <4>1. PICK o \in out : o.key = req.key /\ o.type # NameOnly
        BY <2>1, <3>2
      <4>2. o \in merged /\ req.type = NameOnly
        BY <2>1, <3>2, <4>1
      <4>3. QED
        BY <1>1, <4>1, <4>2 DEF accepts
    <3>3. QED
      BY <3>1, <3>2
  <2>3. QED
    BY <2>2 DEF checkScopeRequirements
<1>4. QED
  BY <1>2, <1>3

LEMMA RequiredCovers ==
    ASSUME stage = "args", ~ScopeLacks(RequiredScope)
    PROVE  ~ScopeLacks(config.raw) /\ (config.final => ~ScopeLacks(config.last))
<1>1. CASE config.final
  BY <1>1, MergeCovers DEF RequiredScope, ScopeLacks
<1>2. CASE ~config.final
  BY <1>2 DEF RequiredScope, ScopeLacks
<1>3. QED
  BY <1>1, <1>2

ScopeInv ==
    /\ stage = "args" /\ at \in Validating => ~ScopeLacks(RequiredScope)
    /\ at = "final" => HasFinal
    /\ at \in {"resolve", "facts"} => stage = "args"
    /\ at \in {"bind", "decoding", "hook", "hooking", "encode", "encoding"} => ~IsJSON
-----------------------------------------------------------------------------
(* Steps of one call, by where they lead.                                  *)

LEMMA Shapes ==
    /\ Shaped(NoPayload)
    /\ \A p : Shaped(p) =>
          /\ Shaped(Refresh(p))
          /\ Refresh(p).value = p.value /\ Refresh(p).sanitized = p.sanitized
<1>1. Shaped(NoPayload)
  BY DEF Shaped, NoPayload
<1>2. ASSUME NEW p, Shaped(p)
      PROVE  /\ Shaped(Refresh(p))
             /\ Refresh(p).value = p.value /\ Refresh(p).sanitized = p.sanitized
  <2> DEFINE kind == AggregatePayloadKind(p.reports)
             decision == DecisionFromReport(PolicyDecisionReport(p.reports, kind))
  <2>1. Refresh(p) = [p EXCEPT !.kind = kind, !.decision = decision]
    BY DEF Refresh
  <2> HIDE DEF kind, decision
  <2>2. QED
    BY <1>2, <2>1 DEF Shaped
<1>3. QED
  BY <1>1, <1>2

LEMMA AppendShapes ==
    ASSUME NEW p, Shaped(p), NEW reports
    PROVE  /\ Shaped(AppendReports(p, reports))
           /\ AppendReports(p, reports).value = p.value
           /\ AppendReports(p, reports).sanitized = p.sanitized
<1> DEFINE all == p.reports \o reports
           q == [p EXCEPT !.reports = all]
<1>1. AppendReports(p, reports) = Refresh(q)
  BY DEF AppendReports
<1> HIDE DEF all
<1>2. Shaped(q) /\ q.value = p.value /\ q.sanitized = p.sanitized
  BY DEF Shaped
<1> HIDE DEF q
<1>3. QED
  BY <1>1, <1>2, Shapes

LEMMA RunShapes ==
    ASSUME NEW answer
    PROVE  /\ Shaped(GuardedArgsFromRun(answer))
           /\ GuardedArgsFromRun(answer).sanitized = <<answer.output>>
BY DEF Shaped, GuardedArgsFromRun

\* What a run's answer is known to be.
LEMMA AnswerOfRun ==
    ASSUME NEW outputs, NEW lists, NEW unusable,
           NEW answer \in RunAnswers(outputs, lists, unusable)
    PROVE  answer.output \in outputs /\ (unusable => answer.fault)
<1> DEFINE faults == IF unusable THEN {TRUE} ELSE BOOLEAN
<1>1. RunAnswers(outputs, lists, unusable) =
         {RunAnswer(output, reports, fault) :
             output \in outputs, reports \in lists, fault \in faults}
  BY DEF RunAnswers
<1>2. unusable => faults = {TRUE}
  OBVIOUS
<1> HIDE DEF faults
<1>3. PICK output \in outputs, reports \in lists, fault \in faults :
         answer = RunAnswer(output, reports, fault)
  BY <1>1
<1>4. answer.output = output /\ answer.fault = fault
  BY <1>3 DEF RunAnswer
<1>5. ASSUME unusable PROVE answer.fault
  <2>1. fault = TRUE
    BY <1>2, <1>5
  <2>2. QED
    BY <1>4, <2>1
<1>6. answer.output \in outputs
  BY <1>4
<1>7. QED
  BY <1>5, <1>6

\* A step that ends the call without handing anything over.
LEMMA Stopping ==
    ASSUME BytesInv, at # "done", NEW p, Shaped(p), NEW class, NEW ended,
           Stop(p, class, ended), config' = config, approved \subseteq approved'
    PROVE  BytesInv'
<1>1. /\ at' = "done" /\ handed = <<>> /\ handed' = <<>>
      /\ UNCHANGED <<stage, args>>
      /\ payload' = p \/ payload' = args
  BY DEF Stop, BytesInv, HandedInv
<1>2. ShapeInv' /\ TextInv' /\ HandedInv'
  BY <1>1 DEF BytesInv, ShapeInv, TextInv, HandedInv, ApprovedBytes, Shaped
<1>3. ManifestInv'
  BY <1>1 DEF BytesInv, ManifestInv, Released, Approves, Canonical, Validating
<1>4. QED
  BY <1>2, <1>3 DEF BytesInv

LEMMA Faulting ==
    ASSUME BytesInv, at # "done", NEW p, Shaped(p), NEW ended,
           Fault(p, ended), config' = config, approved \subseteq approved'
    PROVE  BytesInv'
<1>1. Shaped(WithFault(p)) /\ Stop(WithFault(p), "fault", ended)
  BY AppendShapes DEF WithFault, Fault
<1>2. QED
  BY <1>1, Stopping

LEMMA Correcting ==
    ASSUME BytesInv, at # "done", NEW p, Shaped(p),
           Correct(p), config' = config, approved \subseteq approved'
    PROVE  BytesInv'
<1> DEFINE reports == <<FinishReport(BlankReport("retry", "safe"), "retry", FALSE)>>
<1>1. Stop(AppendReports(p, reports), "retry", {})
  BY DEF Correct
<1> HIDE DEF reports
<1>2. Shaped(AppendReports(p, reports))
  BY AppendShapes
<1>3. QED
  BY <1>1, <1>2, Stopping

\* A step to another place of the boundary.
LEMMA GoingOn ==
    ASSUME BytesInv, at # "done", NEW p, Shaped(p),
           NEW to \in Validating \cup {"facts", "enter"},
           Go(to, p), config' = config, approved \subseteq approved',
           stage = "schema" =>
              to = "raw" \/ (to \in Validating /\ Approves("schema", args)'),
           to \in {"check", "checking", "final", "last"} =>
              Canonical(IF IsJSON THEN p.value ELSE bound', p),
           to = "last" /\ HasFinal => Approves("final", payload)',
           to \in {"check", "checking", "parse"} => IsJSON
    PROVE  BytesInv'
<1>1. /\ at' = to /\ payload' = p /\ UNCHANGED <<stage, args>>
      /\ handed = <<>> /\ handed' = <<>>
  BY DEF Go, BytesInv, HandedInv
<1>2. ShapeInv' /\ HandedInv'
  BY <1>1 DEF BytesInv, ShapeInv, HandedInv, ApprovedBytes, Shaped
<1>3. TextInv'
  BY <1>1 DEF TextInv, Canonical, Value, IsJSON, HasFinal
<1>4. ManifestInv'
  BY <1>1 DEF BytesInv, ManifestInv, Released, Approves, Canonical, Validating, IsJSON
<1>5. QED
  BY <1>2, <1>3, <1>4 DEF BytesInv

-----------------------------------------------------------------------------
(* Every action keeps the invariant about the bytes.                       *)

LEMMA BytesInit == Init => BytesInv
<1>1. SUFFICES ASSUME Init PROVE BytesInv
  OBVIOUS
<1>2. /\ at = "resolve" /\ stage = "args" /\ payload = NoPayload /\ args = NoPayload
      /\ handed = <<>>
  BY <1>1 DEF Init
<1>3. ShapeInv
  BY <1>2, Shapes DEF ShapeInv
<1>4. TextInv /\ ManifestInv /\ HandedInv
  BY <1>2 DEF TextInv, ManifestInv, HandedInv, ApprovedBytes, Validating
<1>5. QED
  BY <1>3, <1>4 DEF BytesInv

\* In the manifest check every place past its guard is after an approval.
LEMMA StaysApproved ==
    ASSUME BytesInv, at \in Validating \ {"raw"}, args' = args, approved \subseteq approved'
    PROVE  stage = "schema" => Approves("schema", args)'
BY DEF BytesInv, ManifestInv, Approves

LEMMA ScopeBytes ==
    ASSUME BytesInv, ResolveScope \/ (\E answer \in CallbackAnswers : FactsReturn(answer))
                        \/ CheckScope, ScopeInv
    PROVE  BytesInv'
<1>1. at \in {"resolve", "facts", "enter"} /\ config' = config /\ approved' = approved
  BY DEF ResolveScope, FactsReturn, CheckScope
<1>2. Shaped(NoPayload) /\ Shaped(payload)
  BY Shapes DEF BytesInv, ShapeInv
<1>3. at \in {"resolve", "facts"} => stage = "args"
  BY DEF ScopeInv, BytesInv, ShapeInv
<1>4. CASE \E ended : ScopeFailure(ended)
  <2>1. PICK ended : ScopeFailure(ended)
    BY <1>4
  <2>2. Stop(NoPayload, "plain", ended) \/ Fault(NoPayload, ended)
    BY <2>1 DEF ScopeFailure
  <2>3. QED
    BY <1>1, <1>2, <2>2, Stopping, Faulting
<1>5. CASE Fault(NoPayload, {})
  BY <1>1, <1>2, <1>5, Faulting
<1>6. CASE Go("facts", payload) /\ at = "resolve"
  BY <1>1, <1>2, <1>3, <1>6, GoingOn
<1>7. CASE Go("enter", payload) /\ at \in {"resolve", "facts"}
  BY <1>1, <1>2, <1>3, <1>7, GoingOn
<1>8. CASE Go("raw", payload)
  BY <1>1, <1>2, <1>8, GoingOn DEF Validating
<1>9. QED
  <2>1. CASE ResolveScope
    BY <1>4, <1>6, <1>7, <2>1 DEF ResolveScope
  <2>2. CASE \E answer \in CallbackAnswers : FactsReturn(answer)
    BY <1>4, <1>7, <2>2 DEF FactsReturn
  <2>3. CASE CheckScope
    BY <1>5, <1>8, <2>3 DEF CheckScope
  <2>4. QED
    BY <2>1, <2>2, <2>3

LEMMA RawBytes ==
    ASSUME BytesInv, NEW answer, NEW cause, RawReturns(answer, cause)
    PROVE  BytesInv'
<1> DEFINE p == GuardedArgsFromRun(answer)
           err == ErrorFromDecision(Decision(answer.reports))
           passed == ~answer.fault /\ err = "nil"
<1>1. at = "raw" /\ config' = config /\ approved \subseteq approved'
  BY DEF RawReturns
<1>2. Shaped(p)
  BY RunShapes
<1>3. \/ \E class, ended : Stop(p, class, ended)
      \/ passed /\ Go(IF IsJSON THEN "parse" ELSE "bind", p)
  BY DEF RawReturns
<1>4. CASE \E class, ended : Stop(p, class, ended)
  BY <1>1, <1>2, <1>4, Stopping
<1>5. CASE passed /\ Go(IF IsJSON THEN "parse" ELSE "bind", p)
  <2> DEFINE to == IF IsJSON THEN "parse" ELSE "bind"
  <2>1. ASSUME stage = "schema" PROVE Approves("schema", args)'
    <3>1. answer \in RunAnswers({args.sanitized[1]}, SchemaReports, Interrupted)
      BY <2>1 DEF RawReturns, RawAnswers
    <3>2. answer.output = args.sanitized[1]
      BY <3>1, AnswerOfRun
    <3>3. [by |-> "schema", text |-> answer.output] \in approved'
      BY <1>5, <2>1 DEF RawReturns
    <3>4. args' = args
      BY <1>5 DEF Go
    <3>5. QED
      BY <3>2, <3>3, <3>4 DEF Approves
  <2>2. to \in Validating /\ to \notin {"raw", "check", "checking", "final", "last"}
        /\ (to = "parse" => IsJSON) /\ Go(to, p)
    BY <1>5 DEF Validating
  <2> HIDE DEF to, p
  <2>3. QED
    BY <1>1, <1>2, <2>1, <2>2, GoingOn
<1>6. QED
  BY <1>3, <1>4, <1>5

LEMMA ContextBytes == ASSUME BytesInv, CheckContext PROVE BytesInv'
<1>1. /\ at \in {"bind", "hook", "encode", "check"} /\ at # "done"
      /\ UNCHANGED <<config, bound, approved>>
      /\ Fault(payload, Ended) \/ Go(AfterCheck[at], payload)
  BY DEF CheckContext, AfterCheck
<1>2. Shaped(payload)
  BY DEF BytesInv, ShapeInv
<1>3. CASE Fault(payload, Ended)
  BY <1>1, <1>2, <1>3, Faulting
<1>4. CASE Go(AfterCheck[at], payload)
  <2> DEFINE to == AfterCheck[at]
  <2>1. /\ to \in {"decoding", "hooking", "encoding", "checking"}
        /\ to = "checking" => at = "check"
    BY <1>1 DEF AfterCheck
  <2>2. args' = args /\ at \in Validating \ {"raw"} /\ to \in Validating /\ Go(to, payload)
    BY <1>1, <1>4, <2>1 DEF Go, Validating
  <2> HIDE DEF to
  <2>3. stage = "schema" => Approves("schema", args)'
    BY <1>1, <2>2, StaysApproved
  <2>4. to = "checking" => IsJSON /\ Canonical(payload.value, payload)
    BY <2>1 DEF BytesInv, ManifestInv, TextInv, Value
  <2>5. QED
    BY <1>1, <1>2, <2>1, <2>2, <2>3, <2>4, GoingOn
<1>5. QED
  BY <1>1, <1>3, <1>4

LEMMA BindBytes ==
    ASSUME BytesInv, NEW answer, NEW value,
           Decoded(answer, value) \/ HookReturns(answer, value)
    PROVE  BytesInv'
<1>1. /\ at \in {"decoding", "hooking"}
      /\ UNCHANGED <<config, approved>>
      /\ \/ Fault(payload, CallbackCancellation(answer))
         \/ Correct(payload)
         \/ Go("hook", payload) \/ Go("encode", payload)
  BY DEF Decoded, HookReturns, BindReturns
<1>2. Shaped(payload)
  BY DEF BytesInv, ShapeInv
<1>3. ASSUME NEW to \in {"hook", "encode"}, Go(to, payload) PROVE BytesInv'
  <2>1. args' = args /\ at \in Validating \ {"raw"} /\ to \in Validating
    BY <1>1, <1>3 DEF Go, Validating
  <2>2. QED
    BY <1>1, <1>2, <1>3, <2>1, GoingOn, StaysApproved
<1>4. QED
  BY <1>1, <1>2, <1>3, Faulting, Correcting

LEMMA EncodedBytes ==
    ASSUME BytesInv, ScopeInv, NEW answer, Encoded(answer)
    PROVE  BytesInv'
<1> DEFINE p == [payload EXCEPT !.sanitized = <<Encode[bound[1]]>>]
           to == IF HasFinal THEN "final" ELSE "last"
<1>1. /\ at = "encoding" /\ UNCHANGED <<config, bound, approved>>
      /\ Fault(payload, CallbackCancellation(answer)) \/ Go(to, p)
  BY DEF Encoded
<1>2. Shaped(payload) /\ Shaped(p) /\ p.sanitized = <<Encode[bound[1]]>>
  BY DEF BytesInv, ShapeInv, Shaped
<1>3. CASE Fault(payload, CallbackCancellation(answer))
  BY <1>1, <1>2, <1>3, Faulting
<1>4. CASE Go(to, p)
  <2>1. to \in {"final", "last"} /\ (to = "last" => ~HasFinal) /\ Go(to, p)
    BY <1>4
  <2>2. Canonical(bound', p)
    BY <1>1, <1>2 DEF Canonical
  <2>3. ~IsJSON
    BY <1>1 DEF ScopeInv
  <2> HIDE DEF to, p
  <2>4. args' = args /\ at \in Validating \ {"raw"} /\ to \in Validating
    BY <1>1, <2>1 DEF Go, Validating
  <2>5. QED
    BY <1>1, <1>2, <2>1, <2>2, <2>3, <2>4, GoingOn, StaysApproved
<1>5. QED
  BY <1>1, <1>3, <1>4

Parsed(p, object, text) == [p EXCEPT !.value = object, !.sanitized = text]

LEMMA ParsedShapes ==
    ASSUME NEW p, Shaped(p), NEW object, NEW text
    PROVE  /\ Shaped(Parsed(p, object, text))
           /\ Parsed(p, object, text).value = object
           /\ Parsed(p, object, text).sanitized = text
<1> DEFINE q == [p EXCEPT !.value = object]
           r == [q EXCEPT !.sanitized = text]
<1>1. Shaped(q) /\ q.value = object
  BY DEF Shaped
<1>2. Parsed(p, object, text) = r
  BY DEF Parsed
<1> HIDE DEF q
<1>3. Shaped(r) /\ r.value = object /\ r.sanitized = text
  BY <1>1 DEF Shaped
<1> HIDE DEF r
<1>4. QED
  BY <1>2, <1>3

LEMMA ParseBytes ==
    ASSUME BytesInv, NEW object, Parse(object)
    PROVE  BytesInv'
<1> DEFINE p == Parsed(payload, object, <<Encode[object[1]]>>)
<1>1. /\ at = "parse" /\ UNCHANGED <<config, approved>>
      /\ Correct(payload) \/ Go("check", p)
  BY DEF Parse, Parsed
<1>2. /\ Shaped(payload) /\ Shaped(p)
      /\ p.value = object /\ p.sanitized = <<Encode[object[1]]>>
  BY ParsedShapes DEF BytesInv, ShapeInv
<1>3. CASE Correct(payload)
  BY <1>1, <1>2, <1>3, Correcting
<1>4. CASE Go("check", p)
  <2>1. IsJSON
    BY <1>1 DEF BytesInv, ManifestInv
  <2>2. stage # "schema" /\ Canonical(p.value, p)
    BY <1>2, <2>1 DEF IsJSON, Canonical
  <2> HIDE DEF p
  <2>3. QED
    BY <1>1, <1>2, <1>4, <2>1, <2>2, GoingOn DEF Validating
<1>5. QED
  BY <1>1, <1>3, <1>4

LEMMA CheckerBytes ==
    ASSUME BytesInv, NEW rep, NEW scribbled, CheckerReturns(rep, scribbled)
    PROVE  BytesInv'
<1> DEFINE p == IF rep = <<>> THEN payload ELSE AppendReports(payload, NormalizeAll(rep))
           to == IF HasFinal THEN "final" ELSE "last"
<1>1. at = "checking" /\ UNCHANGED <<config, bound, approved>>
  BY DEF CheckerReturns
<1>2. \/ Fault(payload, Ended)
      \/ \E class : Stop(p, class, {})
      \/ Go(to, p)
  BY DEF CheckerReturns
<1>3. Shaped(payload)
  BY DEF BytesInv, ShapeInv
<1>4. Shaped(p) /\ p.value = payload.value /\ p.sanitized = payload.sanitized
  BY <1>3, AppendShapes
<1> HIDE DEF p
<1>5. CASE Fault(payload, Ended)
  BY <1>1, <1>3, <1>5, Faulting
<1>6. CASE \E class : Stop(p, class, {})
  BY <1>1, <1>4, <1>6, Stopping
<1>7. CASE Go(to, p)
  <2>1. IsJSON /\ stage # "schema"
    BY <1>1 DEF BytesInv, ManifestInv, IsJSON
  <2>2. Canonical(p.value, p)
    BY <1>1, <1>4, <2>1 DEF BytesInv, TextInv, Value, Canonical
  <2>3. to \in {"final", "last"} /\ to \in Validating /\ (to = "last" => ~HasFinal)
    BY DEF Validating
  <2> HIDE DEF to
  <2>4. QED
    BY <1>1, <1>4, <1>7, <2>1, <2>2, <2>3, GoingOn
<1>8. QED
  BY <1>2, <1>5, <1>6, <1>7

(* The final guard's approval is of the canonical text, unchanged.         *)
LEMMA FinalBytes ==
    ASSUME BytesInv, ScopeInv, NEW answer, NEW cause, FinalReturns(answer, cause)
    PROVE  BytesInv'
<1> DEFINE p == AppendReports(payload, answer.reports)
           same == answer.output = payload.sanitized[1]
           ok == ~answer.fault /\ DecisionError(p) = "nil" /\ same
<1>1. /\ at = "final" /\ UNCHANGED <<config, bound>> /\ approved \subseteq approved'
      /\ ok => [by |-> "final", text |-> answer.output] \in approved'
  BY DEF FinalReturns
<1>2. \/ \E ended : Fault(p, ended)
      \/ \E class : Stop(p, class, {})
      \/ ok /\ Go("last", p)
  BY DEF FinalReturns
<1>3. Shaped(p) /\ p.value = payload.value /\ p.sanitized = payload.sanitized
  BY AppendShapes DEF BytesInv, ShapeInv
<1>4. HasFinal /\ stage # "schema"
  BY <1>1 DEF ScopeInv, HasFinal
<1>5. CASE \E ended : Fault(p, ended)
  BY <1>1, <1>3, <1>5, Faulting
<1>6. CASE \E class : Stop(p, class, {})
  BY <1>1, <1>3, <1>6, Stopping
<1>7. CASE ok /\ Go("last", p)
  <2>1. [by |-> "final", text |-> p.sanitized[1]] \in approved'
    BY <1>1, <1>3, <1>7
  <2>2. payload' = p
    BY <1>7 DEF Go
  <2>3. Canonical(IF IsJSON THEN p.value ELSE bound', p)
    BY <1>1, <1>3 DEF BytesInv, TextInv, Value, Canonical
  <2>4. Go("last", p)
    BY <1>7
  <2> HIDE DEF p, ok
  <2>5. Approves("final", payload)'
    BY <2>1, <2>2 DEF Approves
  <2>6. QED
    BY <1>1, <1>3, <1>4, <2>3, <2>4, <2>5, GoingOn DEF Validating
<1>8. QED
  BY <1>2, <1>5, <1>6, <1>7

(* What leaves the boundary: to the handler, to the manifest check, or     *)
(* from the manifest check to the tool.                                    *)
LEMMA ReleaseBytes == ASSUME BytesInv, Release PROVE BytesInv'
<1> DEFINE p == [payload EXCEPT !.value = IF IsJSON THEN @ ELSE bound]
<1>1. /\ at = "last" /\ UNCHANGED <<config, bound, approved>>
      /\ Fault(payload, Ended) \/ Approve(p)
  BY DEF Release
<1>2. /\ Shaped(payload) /\ Shaped(p)
      /\ p.value = Value /\ p.sanitized = payload.sanitized
  BY DEF BytesInv, ShapeInv, Shaped, Value
<1>3. Canonical(p.value, p)
  BY <1>1, <1>2 DEF BytesInv, TextInv, Canonical
<1> HIDE DEF p
<1>4. handed = <<>> /\ stage \in {"args", "schema"}
  BY <1>1 DEF BytesInv, HandedInv, ShapeInv
<1>5. stage = "args" /\ config.final => Approves("final", p)
  BY <1>1, <1>2 DEF BytesInv, TextInv, HasFinal, Approves
<1>6. stage = "schema" => Released(args) /\ Approves("schema", args)
  BY <1>1 DEF BytesInv, ManifestInv, Validating
<1>7. CASE Fault(payload, Ended)
  BY <1>1, <1>2, <1>7, Faulting
<1>8. ASSUME NEW q, HandOver(q), Released(q), Shaped(q),
             config.binder => Approves("schema", q)
      PROVE  BytesInv'
  <2>1. /\ at' = "done" /\ payload' = q /\ UNCHANGED <<stage, args>>
        /\ handed' = <<[value |-> q.value[1], text |-> q.sanitized[1]]>>
    BY <1>8 DEF HandOver
  <2>2. ShapeInv' /\ TextInv'
    BY <1>8, <2>1 DEF BytesInv, ShapeInv, TextInv, Shaped
  <2>3. ManifestInv'
    BY <1>1, <2>1 DEF BytesInv, ManifestInv, Released, Approves, Canonical, Validating
  <2>4. q.sanitized[1] = Encode[q.value[1]]
    BY <1>8 DEF Released, Canonical
  <2>5. handed'[1].value = q.value[1] /\ handed'[1].text = q.sanitized[1]
    BY <2>1
  <2>6. ApprovedBytes'
    BY <1>1, <1>8, <2>4, <2>5 DEF ApprovedBytes, Released, Approves
  <2>7. QED
    BY <2>1, <2>2, <2>3, <2>6 DEF BytesInv, HandedInv
<1>9. CASE stage = "args" /\ ~config.binder /\ HandOver(p)
  BY <1>2, <1>3, <1>5, <1>8, <1>9 DEF Released
<1>10. CASE stage = "schema" /\ HandOver(args)
  BY <1>6, <1>8, <1>10 DEF BytesInv, ShapeInv
<1>11. CASE stage = "args" /\ Go("manifest", p)
  <2>1. /\ at' = "manifest" /\ payload' = p /\ stage' = "args" /\ args' = args
        /\ handed' = <<>>
    BY <1>4, <1>11 DEF Go
  <2>2. ShapeInv' /\ TextInv' /\ HandedInv'
    BY <1>2, <2>1 DEF BytesInv, ShapeInv, TextInv, HandedInv, ApprovedBytes, Shaped
  <2>3. Released(payload)'
    BY <1>1, <1>3, <1>5, <1>11, <2>1 DEF Released, Canonical, Approves
  <2>4. ManifestInv'
    BY <2>1, <2>3 DEF ManifestInv
  <2>5. QED
    BY <2>2, <2>4 DEF BytesInv
<1>12. QED
  BY <1>1, <1>7, <1>9, <1>10, <1>11 DEF Approve

LEMMA ManifestBytes == ASSUME BytesInv, CheckManifest PROVE BytesInv'
<1>1. at = "manifest" /\ UNCHANGED <<config, approved>> /\ Shaped(payload)
  BY DEF CheckManifest, BytesInv, ShapeInv
<1>2. CASE ~config.manifest
  BY <1>1, <1>2, Stopping DEF CheckManifest
<1>3. CASE config.manifest
  <2>1. /\ at' = "enter" /\ stage' = "schema" /\ args' = payload /\ payload' = NoPayload
        /\ handed' = handed /\ handed = <<>>
    BY <1>1, <1>3 DEF CheckManifest, BytesInv, HandedInv
  <2>2. ShapeInv' /\ TextInv' /\ HandedInv'
    BY <1>1, <2>1, Shapes
       DEF ShapeInv, TextInv, HandedInv, ApprovedBytes, Shaped
  <2>3. Released(args)'
    BY <1>1, <2>1 DEF BytesInv, ManifestInv, Released, Canonical, Approves
  <2>4. ManifestInv'
    BY <2>1, <2>3 DEF ManifestInv, Validating
  <2>5. QED
    BY <2>2, <2>4 DEF BytesInv
<1>4. QED
  BY <1>2, <1>3

LEMMA StayBytes ==
    ASSUME BytesInv, UNCHANGED <<config, at, stage, bound, payload, args, handed, approved>>
    PROVE  BytesInv'
BY DEF BytesInv, ShapeInv, TextInv, ManifestInv, HandedInv, ApprovedBytes, Released,
       Canonical, Approves, Value, IsJSON, HasFinal, Shaped, Validating

-----------------------------------------------------------------------------
(* The scope was checked before either guard runs.                         *)

Inv == BytesInv /\ ScopeInv

LEMMA ScopeInit == Init => ScopeInv
BY DEF Init, ScopeInv, Validating

LEMMA EndingScope ==
    ASSUME ScopeInv, at' \in {"done", "manifest"}
    PROVE  ScopeInv'
BY DEF ScopeInv, Validating

LEMMA MovingScope ==
    ASSUME ScopeInv, stage' = stage, config' = config,
           at' \in Validating,
           at \in Validating \/ ~ScopeLacks(RequiredScope),
           at' = "final" => HasFinal,
           at' \in {"bind", "decoding", "hook", "hooking", "encode", "encoding"} => ~IsJSON
    PROVE  ScopeInv'
BY DEF ScopeInv, Validating, ScopeLacks, RequiredScope, HasFinal, IsJSON

LEMMA HostScope ==
    ASSUME Inv, ResolveScope \/ (\E answer \in CallbackAnswers : FactsReturn(answer))
                   \/ CheckManifest \/ CheckScope
    PROVE  ScopeInv'
<1>1. CASE ResolveScope
  BY <1>1 DEF Inv, ResolveScope, ScopeFailure, Stop, Fault, Go, ScopeInv, Validating
<1>2. CASE \E answer \in CallbackAnswers : FactsReturn(answer)
  BY <1>2 DEF Inv, FactsReturn, ScopeFailure, Stop, Fault, Go, ScopeInv, Validating
<1>3. CASE CheckManifest
  BY <1>3 DEF Inv, CheckManifest, Stop, ScopeInv, Validating
<1>4. CASE CheckScope
  <2>1. config' = config /\ (at' = "done" \/
           (at' = "raw" /\ stage' = stage /\ ~ScopeLacks(RequiredScope)))
    BY <1>4 DEF CheckScope, Fault, Stop, Go
  <2>2. QED
    BY <2>1, EndingScope, MovingScope DEF Inv, Validating
<1>5. QED
  BY <1>1, <1>2, <1>3, <1>4

LEMMA GuardScope ==
    ASSUME Inv, NEW answer, NEW cause, RawReturns(answer, cause) \/ FinalReturns(answer, cause)
    PROVE  ScopeInv'
<1>1. CASE RawReturns(answer, cause)
  <2>1. /\ at = "raw" /\ config' = config
        /\ at' = "done" \/ (at' = "parse" /\ stage' = stage)
              \/ (at' = "bind" /\ ~IsJSON /\ stage' = stage)
    BY <1>1 DEF RawReturns, Stop, Go
  <2>2. QED
    BY <2>1, EndingScope, MovingScope DEF Inv, Validating
<1>2. CASE FinalReturns(answer, cause)
  <2>1. /\ at = "final" /\ config' = config
        /\ at' = "done" \/ (at' = "last" /\ stage' = stage)
    BY <1>2 DEF FinalReturns, Fault, Stop, Go
  <2>2. QED
    BY <2>1, EndingScope, MovingScope DEF Inv, Validating
<1>3. QED
  BY <1>1, <1>2

LEMMA CallbackScope ==
    ASSUME Inv,
           \/ CheckContext
           \/ \E answer \in CallbackAnswers, value \in Values :
                 Decoded(answer, value) \/ HookReturns(answer, value)
           \/ \E answer \in CallbackAnswers : Encoded(answer)
    PROVE  ScopeInv'
<1> DEFINE Typed == {"bind", "decoding", "hook", "hooking", "encode", "encoding"}
<1>1. CASE CheckContext
  <2>1. /\ at \in {"bind", "hook", "encode", "check"} /\ config' = config
        /\ at' = "done" \/ (at' = AfterCheck[at] /\ stage' = stage)
    BY <1>1 DEF CheckContext, AfterCheck, Fault, Stop, Go
  <2>2. /\ AfterCheck[at] \in Validating \ {"final"}
        /\ AfterCheck[at] \in Typed => at \in Typed
    BY <2>1 DEF AfterCheck, Validating
  <2>3. at \in Typed => ~IsJSON
    BY DEF Inv, ScopeInv
  <2>4. QED
    BY <2>1, <2>2, <2>3, EndingScope, MovingScope DEF Inv, Validating
<1>2. CASE \E answer \in CallbackAnswers, value \in Values :
              Decoded(answer, value) \/ HookReturns(answer, value)
  <2>1. /\ at \in {"decoding", "hooking"} /\ config' = config
        /\ at' = "done" \/ (at' \in {"hook", "encode"} /\ stage' = stage)
    BY <1>2 DEF Decoded, HookReturns, BindReturns, Fault, Correct, Stop, Go
  <2>2. QED
    BY <2>1, EndingScope, MovingScope DEF Inv, ScopeInv, Validating
<1>3. CASE \E answer \in CallbackAnswers : Encoded(answer)
  <2>1. /\ at = "encoding" /\ config' = config
        /\ \/ at' = "done"
           \/ at' = "final" /\ HasFinal /\ stage' = stage
           \/ at' = "last" /\ stage' = stage
    BY <1>3 DEF Encoded, Fault, Stop, Go
  <2>2. QED
    BY <2>1, EndingScope, MovingScope DEF Inv, Validating
<1>4. QED
  BY <1>1, <1>2, <1>3

LEMMA DocumentScope ==
    ASSUME Inv,
           \/ Release
           \/ \E object \in Optional(Values) : Parse(object)
           \/ \E rep \in Optional(CheckReports), scribbled \in Values :
                 CheckerReturns(rep, scribbled)
    PROVE  ScopeInv'
<1>1. CASE Release
  <2>1. at' \in {"done", "manifest"}
    BY <1>1 DEF Release, Fault, Stop, Approve, HandOver, Go
  <2>2. QED
    BY <2>1, EndingScope DEF Inv
<1>2. CASE \E object \in Optional(Values) : Parse(object)
  <2>1. /\ at = "parse" /\ config' = config
        /\ at' = "done" \/ (at' = "check" /\ stage' = stage)
    BY <1>2 DEF Parse, Correct, Stop, Go
  <2>2. QED
    BY <2>1, EndingScope, MovingScope DEF Inv, Validating
<1>3. CASE \E rep \in Optional(CheckReports), scribbled \in Values :
              CheckerReturns(rep, scribbled)
  <2>1. /\ at = "checking" /\ config' = config
        /\ \/ at' = "done"
           \/ at' = "final" /\ HasFinal /\ stage' = stage
           \/ at' = "last" /\ stage' = stage
    BY <1>3 DEF CheckerReturns, Fault, Stop, Go
  <2>2. QED
    BY <2>1, EndingScope, MovingScope DEF Inv, Validating
<1>4. QED
  BY <1>1, <1>2, <1>3

-----------------------------------------------------------------------------

LEMMA InvInit == Init => Inv
BY BytesInit, ScopeInit DEF Inv

LEMMA InvStep == Inv /\ [Next]_vars => Inv'
<1>1. SUFFICES ASSUME Inv, [Next]_vars PROVE Inv'
  OBVIOUS
<1>2. BytesInv /\ ScopeInv
  BY <1>1 DEF Inv
<1>3. CASE ResolveScope \/ (\E answer \in CallbackAnswers : FactsReturn(answer)) \/ CheckScope
  BY <1>1, <1>2, <1>3, ScopeBytes, HostScope DEF Inv
<1>4. CASE CheckManifest
  BY <1>1, <1>2, <1>4, ManifestBytes, HostScope DEF Inv
<1>5. CASE \E answer \in RunAnswers(Texts, GuardReports \cup SchemaReports, FALSE),
              cause \in CallbackAnswers :
              RawReturns(answer, cause) \/ FinalReturns(answer, cause)
  BY <1>1, <1>2, <1>5, RawBytes, FinalBytes, GuardScope DEF Inv
<1>6. CASE CheckContext
  BY <1>1, <1>2, <1>6, ContextBytes, CallbackScope DEF Inv
<1>7. CASE \E answer \in CallbackAnswers, value \in Values :
              Decoded(answer, value) \/ HookReturns(answer, value)
  BY <1>1, <1>2, <1>7, BindBytes, CallbackScope DEF Inv
<1>8. CASE \E answer \in CallbackAnswers : Encoded(answer)
  BY <1>1, <1>2, <1>8, EncodedBytes, CallbackScope DEF Inv
<1>9. CASE Release
  BY <1>1, <1>2, <1>9, ReleaseBytes, DocumentScope DEF Inv
<1>10. CASE \E object \in Optional(Values) : Parse(object)
  BY <1>1, <1>2, <1>10, ParseBytes, DocumentScope DEF Inv
<1>11. CASE \E rep \in Optional(CheckReports), scribbled \in Values :
               CheckerReturns(rep, scribbled)
  BY <1>1, <1>2, <1>11, CheckerBytes, DocumentScope DEF Inv
<1>12. ASSUME UNCHANGED <<config, at, stage, bound, payload, args, handed, approved>>
       PROVE  Inv'
  BY <1>2, <1>12, StayBytes
     DEF Inv, ScopeInv, ScopeLacks, RequiredScope, HasFinal, IsJSON
<1>13. CASE (\E err \in CtxErrors \ {"none"} : ContextEnds(err)) \/ Finished \/ UNCHANGED vars
  BY <1>12, <1>13 DEF ContextEnds, Finished, vars
<1>14. QED
  BY <1>1, <1>3, <1>4, <1>5, <1>6, <1>7, <1>8, <1>9, <1>10, <1>11, <1>13
     DEF Next, Host, Validate

(* The invariant holds of every call of a boundary.                        *)
THEOREM InvAlways == Spec => []Inv
BY InvInit, InvStep, PTL DEF Spec

-----------------------------------------------------------------------------
(* The properties the runs check.                                          *)

(* The value handed out is the one whose canonical text the final guard    *)
(* and the manifest schema approved (args.go, Validate and checkManifest). *)
THEOREM BytesAlwaysApproved == Spec => []ApprovedBytes
<1>1. Inv => ApprovedBytes
  BY DEF Inv, BytesInv, HandedInv
<1>2. QED
  BY <1>1, InvAlways, PTL

(* No guard of a boundary runs under a scope that lacks what it requires   *)
(* (scope.go, mergeScopeRequirements).                                     *)
THEOREM MergedScopeAlwaysSuffices == Spec => []MergedScopeSuffices
<1>1. Inv => MergedScopeSuffices
  <2>1. SUFFICES ASSUME Inv PROVE MergedScopeSuffices
    OBVIOUS
  <2>2. ASSUME stage = "args", at \in {"raw", "final"}
        PROVE  ~ScopeLacks(config.raw) /\ (config.final => ~ScopeLacks(config.last))
    BY <2>1, <2>2, RequiredCovers DEF Inv, ScopeInv, Validating
  <2>3. at = "final" => config.final
    BY <2>1 DEF Inv, ScopeInv, HasFinal
  <2>4. QED
    BY <2>2, <2>3 DEF MergedScopeSuffices
<1>2. QED
  BY <1>1, InvAlways, PTL

-----------------------------------------------------------------------------
(* An ended context outranks corrections and denials.                      *)

\* A call has no error before it ends.
Unfailed == at # "done" => error = NoError

LEMMA UnfailedStep == Unfailed /\ [Next]_vars => Unfailed'
<1>1. SUFFICES ASSUME Unfailed, [Next]_vars PROVE Unfailed'
  OBVIOUS
<1>2. at # "done" /\ (at' = "done" \/ error' = error) => Unfailed'
  BY <1>1 DEF Unfailed
<1>3. UNCHANGED <<at, error>> => Unfailed'
  BY <1>1 DEF Unfailed
<1>4. CASE Host
  BY <1>2, <1>4 DEF Host, ResolveScope, FactsReturn, CheckManifest, ScopeFailure, Stop, Fault, Go
<1>5. CASE Validate
  <2>1. CASE CheckScope \/ CheckContext
    BY <1>2, <2>1 DEF CheckScope, CheckContext, AfterCheck, Fault, Stop, Go
  <2>2. CASE Release
    BY <1>2, <2>2 DEF Release, Fault, Stop, Approve, HandOver, Go
  <2>3. CASE \E answer \in RunAnswers(Texts, GuardReports \cup SchemaReports, FALSE),
                cause \in CallbackAnswers :
                RawReturns(answer, cause) \/ FinalReturns(answer, cause)
    BY <1>2, <2>3 DEF RawReturns, FinalReturns, Fault, Stop, Go
  <2>4. CASE \E answer \in CallbackAnswers, value \in Values :
                Decoded(answer, value) \/ HookReturns(answer, value)
    BY <1>2, <2>4 DEF Decoded, HookReturns, BindReturns, Fault, Correct, Stop, Go
  <2>5. CASE \E answer \in CallbackAnswers : Encoded(answer)
    BY <1>2, <2>5 DEF Encoded, Fault, Stop, Go
  <2>6. CASE \E object \in Optional(Values) : Parse(object)
    BY <1>2, <2>6 DEF Parse, Correct, Stop, Go
  <2>7. CASE \E rep \in Optional(CheckReports), scribbled \in Values :
                CheckerReturns(rep, scribbled)
    BY <1>2, <2>7 DEF CheckerReturns, Fault, Stop, Go
  <2>8. QED
    BY <1>5, <2>1, <2>2, <2>3, <2>4, <2>5, <2>6, <2>7 DEF Validate
<1>6. CASE (\E err \in CtxErrors \ {"none"} : ContextEnds(err)) \/ Finished \/ UNCHANGED vars
  BY <1>3, <1>6 DEF ContextEnds, Finished, vars
<1>7. QED
  BY <1>1, <1>4, <1>5, <1>6 DEF Next

\* A step blames the caller when it ends a call with a correction or a denial.
Blames == at # "parse" /\ at' = "done" /\ MapArgsError(error') \in {"validation", "denied"}

LEMMA StopBlames ==
    ASSUME NEW p, NEW class, NEW ended, Stop(p, class, ended),
           MapArgsError(error') \in {"validation", "denied"}
    PROVE  class \in {"retry", "blocked"}
BY DEF Stop, MapArgsError

LEMMA FaultBlamesNobody ==
    ASSUME NEW p, NEW ended, Fault(p, ended)
    PROVE  MapArgsError(error') \notin {"validation", "denied"}
BY DEF Fault, Stop, MapArgsError

LEMMA NoErrorBlamesNobody == MapArgsError(NoError) = "none"
BY DEF MapArgsError, NoError

LEMMA BlamesLive ==
    ASSUME Unfailed, [Next]_vars, at # "done", Blames
    PROVE  ctxErr = "none"
<1>1. /\ at # "parse" /\ at' = "done" /\ error = NoError
      /\ MapArgsError(error') \in {"validation", "denied"}
  BY DEF Blames, Unfailed
<1>2. error' # error
  BY <1>1, NoErrorBlamesNobody
<1>3. CASE Host
  BY <1>1, <1>2, <1>3, StopBlames, FaultBlamesNobody
     DEF Host, ResolveScope, FactsReturn, CheckManifest, ScopeFailure, Go
<1>4. CASE CheckScope \/ CheckContext \/ Release
          \/ \E answer \in CallbackAnswers : Encoded(answer)
  BY <1>1, <1>2, <1>4, FaultBlamesNobody
     DEF CheckScope, CheckContext, Release, Approve, HandOver, Encoded, Go
<1>5. CASE \E answer \in RunAnswers(Texts, GuardReports \cup SchemaReports, FALSE),
              cause \in CallbackAnswers :
              RawReturns(answer, cause) \/ FinalReturns(answer, cause)
  <2>1. PICK answer, cause : RawReturns(answer, cause) \/ FinalReturns(answer, cause)
    BY <1>5
  <2>2. SUFFICES ASSUME Interrupted PROVE FALSE
    BY DEF Interrupted
  <2>3. CASE RawReturns(answer, cause)
    <3>1. answer \in RawAnswers
      BY <2>3 DEF RawReturns
    <3>2. answer.fault
      BY <2>2, <3>1, AnswerOfRun DEF RawAnswers
    <3>3. Stop(GuardedArgsFromRun(answer), "fault", CallbackCancellation(cause))
      BY <2>3, <3>2 DEF RawReturns
    <3>4. QED
      BY <1>1, <3>3, StopBlames
  <2>4. CASE FinalReturns(answer, cause)
    <3>1. answer.fault
      BY <2>2, <2>4, AnswerOfRun DEF FinalReturns
    <3>2. Fault(AppendReports(payload, answer.reports), CallbackCancellation(cause))
      BY <2>4, <3>1 DEF FinalReturns
    <3>3. QED
      BY <1>1, <3>2, FaultBlamesNobody
  <2>5. QED
    BY <2>1, <2>3, <2>4
<1>6. CASE \E answer \in CallbackAnswers, value \in Values :
              Decoded(answer, value) \/ HookReturns(answer, value)
  <2>1. PICK answer \in CallbackAnswers, value \in Values :
           Decoded(answer, value) \/ HookReturns(answer, value)
    BY <1>6
  <2>2. SUFFICES ASSUME Interrupted PROVE FALSE
    BY DEF Interrupted
  <2>3. CallbackCancellation(answer) # {}
    BY <2>2 DEF CallbackCancellation, Ended
  <2>4. Fault(payload, CallbackCancellation(answer))
    BY <2>1, <2>3 DEF Decoded, HookReturns, BindReturns
  <2>5. QED
    BY <1>1, <2>4, FaultBlamesNobody
<1>7. CASE \E object \in Optional(Values) : Parse(object)
  BY <1>1, <1>7 DEF Parse
<1>8. CASE \E rep \in Optional(CheckReports), scribbled \in Values :
              CheckerReturns(rep, scribbled)
  BY <1>1, <1>8, FaultBlamesNobody DEF CheckerReturns, Interrupted
<1>9. CASE (\E err \in CtxErrors \ {"none"} : ContextEnds(err)) \/ Finished \/ UNCHANGED vars
  BY <1>2, <1>9 DEF ContextEnds, Finished, vars
<1>10. QED
  BY <1>3, <1>4, <1>5, <1>6, <1>7, <1>8, <1>9 DEF Next, Validate

\* A call that is over stays over, with its error.
LEMMA DoneIsQuiet ==
    ASSUME [Next]_vars, at = "done" PROVE UNCHANGED vars
BY DEF Next, Host, Validate, ResolveScope, FactsReturn, CheckManifest, CheckScope,
       CheckContext, AfterCheck, Release, RawReturns, FinalReturns, Decoded, HookReturns,
       BindReturns, Encoded, Parse, CheckerReturns, ContextEnds, Finished

(* A correction or a denial ends a call only under a live context, parsing *)
(* aside (args.go, the context checks before and after each callback).     *)
THEOREM CancellationAlwaysOutranks == Spec => CancellationOutranksCorrection
<1>1. Init => Unfailed
  BY DEF Init, Unfailed
<1>2. ASSUME Unfailed, [Next]_vars
      PROVE  [Blames => ctxErr = "none"]_vars
  BY <1>2, BlamesLive, DoneIsQuiet
<1>3. QED
  BY <1>1, <1>2, UnfailedStep, PTL DEF Spec, CancellationOutranksCorrection, Blames

-----------------------------------------------------------------------------
(* The payload's decision says what the error says.                        *)

\* Decision and reports of p, in agreement with an error of the class.
Agrees(p, class) ==
    /\ p.reports \in Seq(Report)
    /\ EffectiveDisposition(Decision(p.reports)) = DispositionOf(class)
    /\ DecisionDisposition(p.decision) = DispositionOf(class)

\* Where a guard has let the call pass.
Passing == (Validating \ {"raw"}) \cup {"manifest"}

(* Between two checks the payload's own decision lets the call pass: that  *)
(* is why a correction or a fault appended to its reports decides it.      *)
DecisionInv ==
    /\ at # "done" => payload.reports \in Seq(Report)
    /\ at \in Passing => Agrees(payload, "nil")
    /\ at = "done" => (error.class = "nil" <=> handed # <<>>)
    /\ at = "done" /\ stage = "args" /\ error.class # "plain" =>
          /\ error.class \in ErrorClasses
          /\ Agrees(payload, error.class)

LEMMA RefreshAgrees ==
    ASSUME NEW p, Shaped(p), p.reports \in Seq(Report)
    PROVE  LET r == Refresh(p)
           IN  /\ r.reports = p.reports
               /\ DecisionError(r) \in ErrorClasses
               /\ Agrees(r, DecisionError(r))
<1> DEFINE kind == AggregatePayloadKind(p.reports)
           own  == Decision(p.reports)
           rep  == PolicyDecisionReport(p.reports, kind)
           decision == DecisionFromReport(rep)
           r == Refresh(p)
<1>1. r.reports = p.reports /\ r.kind = kind /\ r.decision = decision
  <2>1. r = [p EXCEPT !.kind = kind, !.decision = decision]
    BY DEF Refresh
  <2> HIDE DEF kind, decision, r
  <2>2. QED
    BY <2>1 DEF Shaped
<1>2. kind \in PayloadKinds
  BY AggregateIsStrictest
<1>3. own \in Report /\ ~IsObservation(own) /\ own.disposition = EffectiveDisposition(own)
  BY DecisionType, DecisionEnforces
<1>4. rep \in Report /\ ~IsObservation(rep)
      /\ EffectiveDisposition(rep) = EffectiveDisposition(own)
  <2>1. rep = WithOutputKind(own, kind)
    BY DEF PolicyDecisionReport
  <2> HIDE DEF rep, own, kind
  <2>2. QED
    BY <1>2, <1>3, <2>1, OutputKindKeepsClass
<1>5. DecisionDisposition(decision) = EffectiveDisposition(rep)
  <2> HIDE DEF rep
  <2>1. QED
    BY <1>2, <1>4, HostKeepsClass
<1>6. DecisionError(r) = ErrorFromDecision(rep)
  BY <1>1 DEF DecisionError
<1>7. QED
  <2> HIDE DEF rep, kind, r, decision
  <2>1. QED
    BY <1>1, <1>4, <1>5, <1>6, ErrorOfReport DEF Agrees, own, r

LEMMA AppendAgrees ==
    ASSUME NEW p, Shaped(p), p.reports \in Seq(Report), NEW reports \in Seq(Report)
    PROVE  LET r == AppendReports(p, reports)
           IN  /\ r.reports = p.reports \o reports
               /\ DecisionError(r) \in ErrorClasses
               /\ Agrees(r, DecisionError(r))
<1> DEFINE all == p.reports \o reports
           q == [p EXCEPT !.reports = all]
<1>1. AppendReports(p, reports) = Refresh(q)
  BY DEF AppendReports
<1>2. all \in Seq(Report)
  OBVIOUS
<1> HIDE DEF all
<1>3. Shaped(q) /\ q.reports = all
  BY DEF Shaped
<1> HIDE DEF q
<1>4. QED
  BY <1>1, <1>2, <1>3, RefreshAgrees DEF all

LEMMA FaultedAgrees ==
    ASSUME NEW p, Shaped(p), p.reports \in Seq(Report)
    PROVE  Agrees(WithFault(p), "fault")
<1> DEFINE r == WithFault(p)
<1>1. <<ValidatorFaultReport>> \in Seq(Report)
  BY FaultReport
<1>2. r.reports = p.reports \o <<ValidatorFaultReport>> /\ Agrees(r, DecisionError(r))
  BY <1>1, AppendAgrees DEF WithFault
<1> HIDE DEF r
<1>3. r.reports \in Seq(Report) /\ Len(r.reports) \in DOMAIN r.reports
      /\ r.reports[Len(r.reports)] = ValidatorFaultReport
  BY <1>1, <1>2
<1>4. EffectiveDisposition(Decision(r.reports)) = "system_fault"
  BY <1>3, FaultReport, FaultDecides
<1>5. DecisionDisposition(r.decision) = "system_fault"
  BY <1>2, <1>4 DEF Agrees
<1>6. QED
  BY <1>3, <1>4, <1>5 DEF Agrees, DispositionOf, r

LEMMA CorrectionReport ==
    LET c == FinishReport(BlankReport("retry", "safe"), "retry", FALSE)
    IN  c \in Report /\ EffectiveDisposition(c) = "retryable_correction"
<1> DEFINE b == BlankReport("retry", "safe")
           e == [b EXCEPT !.retryable = TRUE, !.fatal = FALSE]
           c == FinishReport(b, "retry", FALSE)
<1>1. /\ b \in Report /\ b.action = "retry" /\ b.disposition = "none" /\ ~b.fatal
      /\ b.kind = "safe" /\ b.finite
  BY DEF BlankReport, Report, Actions, Dispositions, PayloadKinds
<1>2. c = NormalizeReport(e)
  BY <1>1 DEF FinishReport, BlankReport
<1>3. /\ e \in Report /\ e.action = "retry" /\ e.disposition = "none" /\ ~e.fatal
      /\ e.retryable /\ e.kind = "safe" /\ e.finite
  <2> HIDE DEF b
  <2>1. QED
    BY <1>1 DEF Report
<1> HIDE DEF e
<1>4. EffectiveDisposition(e) = "retryable_correction"
  BY <1>3 DEF EffectiveDisposition, Malformed, DeriveDisposition,
              Actions, Dispositions, PayloadKinds
<1>5. c \in Report /\ EffectiveDisposition(c) = "retryable_correction"
  BY <1>2, <1>3, <1>4, NormalizeType, NormalizeKeepsClass
<1>6. QED
  BY <1>5

LEMMA CorrectedAgrees ==
    ASSUME NEW p, Shaped(p), Agrees(p, "nil")
    PROVE  Agrees(AppendReports(p,
                     <<FinishReport(BlankReport("retry", "safe"), "retry", FALSE)>>), "retry")
<1> DEFINE c == FinishReport(BlankReport("retry", "safe"), "retry", FALSE)
           r == AppendReports(p, <<c>>)
<1>1. c \in Report /\ EffectiveDisposition(c) = "retryable_correction"
  BY CorrectionReport
<1> HIDE DEF c
<1>2. p.reports \in Seq(Report) /\ EffectiveDisposition(Decision(p.reports)) = "none"
  BY DEF Agrees, DispositionOf
<1>3. r.reports = p.reports \o <<c>> /\ Agrees(r, DecisionError(r))
  <2>1. <<c>> \in Seq(Report)
    BY <1>1
  <2>2. QED
    BY <1>2, <2>1, AppendAgrees
<1> HIDE DEF r
<1>4. r.reports = Append(p.reports, c)
  BY <1>1, <1>2, <1>3
<1>5. EffectiveDisposition(Decision(r.reports)) = "retryable_correction"
  BY <1>1, <1>2, <1>4, CorrectionDecides
<1>6. Agrees(r, "retry")
  BY <1>3, <1>5 DEF Agrees, DispositionOf
<1>7. QED
  BY <1>6 DEF r, c

LEMMA RunAgrees ==
    ASSUME NEW outputs, NEW lists \in SUBSET Seq(Report), NEW unusable,
           NEW answer \in RunAnswers(outputs, lists, unusable)
    PROVE  LET p == GuardedArgsFromRun(answer)
           IN  /\ answer.reports \in Seq(Report)
               /\ answer.fault => Agrees(p, "fault")
               /\ Agrees(p, ErrorFromDecision(Decision(answer.reports)))
               /\ ErrorFromDecision(Decision(answer.reports)) \in ErrorClasses
<1> DEFINE faults == IF unusable THEN {TRUE} ELSE BOOLEAN
           p == GuardedArgsFromRun(answer)
<1>1. PICK output \in outputs, reports \in lists, fault \in faults :
         answer = RunAnswer(output, reports, fault)
  <2>1. RunAnswers(outputs, lists, unusable) =
           {RunAnswer(output, reports, fault) :
               output \in outputs, reports \in lists, fault \in faults}
    BY DEF RunAnswers
  <2> HIDE DEF faults
  <2>2. QED
    BY <2>1
<1> DEFINE all == IF fault THEN Append(reports, ValidatorFaultReport) ELSE reports
<1>2. all \in Seq(Report)
  BY FaultReport
<1>3. answer.reports = all /\ answer.fault = fault /\ answer.kind = AggregatePayloadKind(all)
  BY <1>1 DEF RunAnswer
<1>4. ASSUME fault PROVE EffectiveDisposition(Decision(all)) = "system_fault"
  <2>1. Len(all) \in DOMAIN all /\ all[Len(all)] = ValidatorFaultReport
    BY <1>4, FaultReport
  <2> HIDE DEF all
  <2>2. QED
    BY <1>2, <2>1, FaultReport, FaultDecides
<1> HIDE DEF all
<1>5. AggregatePayloadKind(all) \in PayloadKinds /\ Decision(all) \in Report
      /\ ~IsObservation(Decision(all))
  BY <1>2, AggregateIsStrictest, DecisionType, DecisionEnforces
<1>6. p.reports = all
      /\ p.decision = WithOutputKind(DecisionFromReport(Decision(all)), AggregatePayloadKind(all))
  BY <1>3 DEF GuardedArgsFromRun, PolicyDecision
<1>7. DecisionDisposition(p.decision) = EffectiveDisposition(Decision(all))
  BY <1>5, <1>6, HostKeepsClass
<1>8. /\ ErrorFromDecision(Decision(all)) \in ErrorClasses
      /\ DispositionOf(ErrorFromDecision(Decision(all))) = EffectiveDisposition(Decision(all))
  BY <1>5, ErrorOfReport
<1> HIDE DEF p
<1>9. Agrees(p, ErrorFromDecision(Decision(all)))
  BY <1>2, <1>6, <1>7, <1>8 DEF Agrees
<1>10. answer.fault => Agrees(p, "fault")
  BY <1>2, <1>3, <1>4, <1>6, <1>7 DEF Agrees, DispositionOf
<1>11. QED
  BY <1>2, <1>3, <1>8, <1>9, <1>10 DEF p

\* Steps of one call, by where they lead.
LEMMA StopKeeps ==
    ASSUME NEW p, NEW class \in {"plain", "retry", "blocked", "fault"}, NEW ended,
           Stop(p, class, ended), handed = <<>>,
           class # "plain" => Agrees(p, class)
    PROVE  DecisionInv'
<1>1. /\ at' = "done" /\ handed' = <<>> /\ stage' = stage
      /\ error'.class = class
      /\ stage' = "args" => payload' = p
  BY DEF Stop
<1>2. QED
  BY <1>1 DEF DecisionInv, Passing, Validating, ErrorClasses, Agrees

LEMMA FaultKeeps ==
    ASSUME NEW p, Shaped(p), p.reports \in Seq(Report), NEW ended,
           Fault(p, ended), handed = <<>>
    PROVE  DecisionInv'
<1>1. Agrees(WithFault(p), "fault") /\ Stop(WithFault(p), "fault", ended)
  BY FaultedAgrees DEF Fault
<1>2. QED
  BY <1>1, StopKeeps

LEMMA CorrectKeeps ==
    ASSUME NEW p, Shaped(p), Agrees(p, "nil"), Correct(p), handed = <<>>
    PROVE  DecisionInv'
<1> DEFINE r == AppendReports(p,
                   <<FinishReport(BlankReport("retry", "safe"), "retry", FALSE)>>)
<1>1. Agrees(r, "retry") /\ Stop(r, "retry", {})
  BY CorrectedAgrees DEF Correct
<1> HIDE DEF r
<1>2. QED
  BY <1>1, StopKeeps

LEMMA GoKeeps ==
    ASSUME NEW to, NEW p, Go(to, p), to # "done", p.reports \in Seq(Report),
           to \in Passing => Agrees(p, "nil")
    PROVE  DecisionInv'
BY DEF Go, DecisionInv, Agrees

LEMMA HandOverKeeps ==
    ASSUME NEW p, HandOver(p), error = NoError, stage = "args" => Agrees(p, "nil")
    PROVE  DecisionInv'
<1>1. /\ at' = "done" /\ payload' = p /\ stage' = stage /\ error'.class = "nil"
      /\ handed' # <<>>
  BY DEF HandOver, NoError
<1>2. QED
  BY <1>1 DEF DecisionInv, Passing, Validating, ErrorClasses, Agrees

LEMMA NoPayloadReports == Shaped(NoPayload) /\ NoPayload.reports \in Seq(Report)
BY Shapes DEF NoPayload

\* All that is known of a call that has not ended.
LEMMA Running ==
    ASSUME Inv, Unfailed, DecisionInv, at # "done"
    PROVE  /\ handed = <<>> /\ error = NoError
           /\ Shaped(payload) /\ payload.reports \in Seq(Report)
BY DEF Inv, BytesInv, ShapeInv, HandedInv, Unfailed, DecisionInv

LEMMA HostDecides ==
    ASSUME Inv, Unfailed, DecisionInv,
           ResolveScope \/ (\E answer \in CallbackAnswers : FactsReturn(answer))
              \/ CheckManifest \/ CheckScope
    PROVE  DecisionInv'
<1>1. ASSUME NEW ended, ScopeFailure(ended), at # "done" PROVE DecisionInv'
  BY <1>1, Running, NoPayloadReports, FaultKeeps, StopKeeps DEF ScopeFailure
<1>2. CASE ResolveScope
  BY <1>1, <1>2, Running, GoKeeps DEF ResolveScope, Passing, Validating
<1>3. CASE \E answer \in CallbackAnswers : FactsReturn(answer)
  BY <1>1, <1>3, Running, GoKeeps DEF FactsReturn, Passing, Validating
<1>4. CASE CheckScope
  BY <1>4, Running, NoPayloadReports, FaultKeeps, GoKeeps DEF CheckScope, Passing, Validating
<1>5. CASE CheckManifest
  <2>1. CASE config.manifest
    <3>1. at' = "enter" /\ payload' = NoPayload
      BY <1>5, <2>1 DEF CheckManifest
    <3>2. QED
      BY <3>1, NoPayloadReports DEF DecisionInv, Passing, Validating
  <2>2. CASE ~config.manifest
    BY <1>5, <2>2, Running, StopKeeps DEF CheckManifest
  <2>3. QED
    BY <2>1, <2>2
<1>6. QED
  BY <1>2, <1>3, <1>4, <1>5

LEMMA GuardDecides ==
    ASSUME Inv, Unfailed, DecisionInv, NEW answer, NEW cause,
           RawReturns(answer, cause) \/ FinalReturns(answer, cause)
    PROVE  DecisionInv'
<1>1. CASE RawReturns(answer, cause)
  <2> DEFINE p == GuardedArgsFromRun(answer)
             err == ErrorFromDecision(Decision(answer.reports))
  <2>1. answer \in RawAnswers /\ at = "raw"
    BY <1>1 DEF RawReturns
  <2>2. \E outputs, unusable : \E lists \in SUBSET Seq(Report) :
            answer \in RunAnswers(outputs, lists, unusable)
    BY <2>1, GuardReportsAssumption DEF RawAnswers
  <2>3. /\ answer.fault => Agrees(p, "fault")
        /\ Agrees(p, err) /\ err \in ErrorClasses
    BY <2>2, RunAgrees
  <2>4. /\ p.reports \in Seq(Report)
        /\ IF answer.fault THEN \E ended : Stop(p, "fault", ended)
           ELSE IF err # "nil" THEN Stop(p, err, {})
           ELSE Go("parse", p) \/ Go("bind", p)
    BY <1>1, <2>3 DEF RawReturns, Agrees
  <2> HIDE DEF p, err
  <2>5. QED
    BY <2>1, <2>3, <2>4, Running, StopKeeps, GoKeeps DEF ErrorClasses
<1>2. CASE FinalReturns(answer, cause)
  <2> DEFINE p == AppendReports(payload, answer.reports)
             err == DecisionError(p)
  <2>1. at = "final" /\ answer.reports \in Seq(Report)
    <3>1. at = "final"
          /\ answer \in RunAnswers(Texts, GuardReports, Interrupted \/ ScopeLacks(config.last))
      BY <1>2 DEF FinalReturns
    <3>2. GuardReports \in SUBSET Seq(Report)
      BY GuardReportsAssumption
    <3>3. QED
      BY <3>1, <3>2, RunAgrees
  <2>2. /\ handed = <<>> /\ Shaped(payload) /\ payload.reports \in Seq(Report)
    BY <2>1, Running
  <2>3. Shaped(p) /\ err \in ErrorClasses /\ Agrees(p, err) /\ p.reports \in Seq(Report)
    BY <2>1, <2>2, AppendAgrees, AppendShapes DEF Agrees
  <2>4. \/ \E ended : Fault(p, ended)
        \/ err # "nil" /\ Stop(p, err, {})
        \/ err = "nil" /\ Go("last", p)
    BY <1>2 DEF FinalReturns
  <2> HIDE DEF p, err
  <2>5. QED
    BY <2>2, <2>3, <2>4, FaultKeeps, StopKeeps, GoKeeps DEF ErrorClasses
<1>3. QED
  BY <1>1, <1>2

LEMMA CallbackDecides ==
    ASSUME Inv, Unfailed, DecisionInv,
           \/ CheckContext
           \/ \E answer \in CallbackAnswers, value \in Values :
                 Decoded(answer, value) \/ HookReturns(answer, value)
           \/ \E answer \in CallbackAnswers : Encoded(answer)
    PROVE  DecisionInv'
<1>1. /\ at \in Passing => Agrees(payload, "nil")
      /\ at # "done" => /\ handed = <<>> /\ Shaped(payload)
                        /\ payload.reports \in Seq(Report)
  BY Running DEF DecisionInv
<1>2. CASE CheckContext
  <2>1. /\ at \in {"bind", "hook", "encode", "check"}
        /\ (\E ended : Fault(payload, ended)) \/ Go(AfterCheck[at], payload)
    BY <1>2 DEF CheckContext, AfterCheck
  <2>2. AfterCheck[at] # "done" /\ at \in Passing /\ at # "done"
    BY <2>1 DEF AfterCheck, Passing, Validating
  <2>3. QED
    BY <1>1, <2>1, <2>2, FaultKeeps, GoKeeps
<1>3. CASE \E answer \in CallbackAnswers, value \in Values :
              Decoded(answer, value) \/ HookReturns(answer, value)
  <2>1. /\ at \in {"decoding", "hooking"}
        /\ \/ \E ended : Fault(payload, ended)
           \/ Correct(payload)
           \/ \E to \in {"hook", "encode"} : Go(to, payload)
    BY <1>3 DEF Decoded, HookReturns, BindReturns
  <2>2. at \in Passing /\ at # "done"
    BY <2>1 DEF Passing, Validating
  <2>3. QED
    BY <1>1, <2>1, <2>2, FaultKeeps, CorrectKeeps, GoKeeps
<1>4. CASE \E answer \in CallbackAnswers : Encoded(answer)
  <2> DEFINE p == [payload EXCEPT !.sanitized = <<Encode[bound[1]]>>]
  <2>1. /\ at = "encoding"
        /\ \/ \E ended : Fault(payload, ended)
           \/ \E to \in {"final", "last"} : Go(to, p)
    BY <1>4 DEF Encoded
  <2>2. at \in Passing /\ at # "done"
    BY <2>1 DEF Passing, Validating
  <2>3. Agrees(p, "nil") /\ p.reports \in Seq(Report)
    <3>1. p.reports = payload.reports /\ p.decision = payload.decision
      BY <1>1, <2>2 DEF Shaped
    <3> HIDE DEF p
    <3>2. QED
      BY <1>1, <2>2, <3>1 DEF Agrees
  <2> HIDE DEF p
  <2>4. QED
    BY <1>1, <2>1, <2>2, <2>3, FaultKeeps, GoKeeps
<1>5. QED
  BY <1>2, <1>3, <1>4

LEMMA DocumentDecides ==
    ASSUME Inv, Unfailed, DecisionInv,
           \/ Release
           \/ \E object \in Optional(Values) : Parse(object)
           \/ \E rep \in Optional(CheckReports), scribbled \in Values :
                 CheckerReturns(rep, scribbled)
    PROVE  DecisionInv'
<1>1. /\ at \in Passing => Agrees(payload, "nil")
      /\ at # "done" => /\ handed = <<>> /\ error = NoError /\ Shaped(payload)
                        /\ payload.reports \in Seq(Report)
  BY Running DEF DecisionInv
<1>2. CASE Release
  <2> DEFINE p == [payload EXCEPT !.value = IF IsJSON THEN @ ELSE bound]
  <2>1. at = "last" /\ ((\E ended : Fault(payload, ended)) \/ Approve(p))
    BY <1>2 DEF Release
  <2>2. at \in Passing /\ at # "done"
    BY <2>1 DEF Passing, Validating
  <2>3. Agrees(p, "nil") /\ p.reports \in Seq(Report)
    <3>1. p.reports = payload.reports /\ p.decision = payload.decision
      BY <1>1, <2>2 DEF Shaped
    <3> HIDE DEF p
    <3>2. QED
      BY <1>1, <2>2, <3>1 DEF Agrees
  <2>4. stage \in {"args", "schema"}
    BY DEF Inv, BytesInv, ShapeInv
  <2> HIDE DEF p
  <2>5. CASE \E ended : Fault(payload, ended)
    BY <1>1, <2>2, <2>5, FaultKeeps
  <2>6. CASE Approve(p)
    BY <1>1, <2>2, <2>3, <2>6, HandOverKeeps, GoKeeps DEF Approve
  <2>7. QED
    BY <2>1, <2>5, <2>6
<1>3. CASE \E object \in Optional(Values) : Parse(object)
  <2>1. PICK object \in Optional(Values) : Parse(object)
    BY <1>3
  <2> DEFINE text == <<Encode[object[1]]>>
             p == [payload EXCEPT !.value = object, !.sanitized = text]
  <2>2. at = "parse" /\ (Correct(payload) \/ Go("check", p))
    BY <2>1 DEF Parse
  <2>3. at \in Passing /\ at # "done"
    BY <2>2 DEF Passing, Validating
  <2>4. Agrees(p, "nil") /\ p.reports \in Seq(Report)
    <3> HIDE DEF text
    <3>1. p.reports = payload.reports /\ p.decision = payload.decision
      BY <1>1, <2>3 DEF Shaped
    <3> HIDE DEF p
    <3>2. QED
      BY <1>1, <2>3, <3>1 DEF Agrees
  <2> HIDE DEF p
  <2>5. QED
    BY <1>1, <2>2, <2>3, <2>4, CorrectKeeps, GoKeeps
<1>4. CASE \E rep \in Optional(CheckReports), scribbled \in Values :
              CheckerReturns(rep, scribbled)
  <2>1. PICK rep \in Optional(CheckReports), scribbled \in Values :
           CheckerReturns(rep, scribbled)
    BY <1>4
  <2> DEFINE q == AppendReports(payload, NormalizeAll(rep))
             err == DecisionError(q)
  <2>2. at = "checking" /\ at # "done" /\ at \in Passing
    BY <2>1 DEF CheckerReturns, Passing, Validating
  <2>3. \/ \E ended : Fault(payload, ended)
        \/ rep # <<>> /\ err # "nil" /\ Stop(q, err, {})
        \/ rep # <<>> /\ err = "nil" /\ \E to \in {"final", "last"} : Go(to, q)
        \/ rep = <<>> /\ \E to \in {"final", "last"} : Go(to, payload)
    BY <2>1 DEF CheckerReturns
  <2>4. NormalizeAll(rep) \in Seq(Report)
    <3>1. rep = <<>> \/ \E r \in Report : rep = <<r>>
      BY CheckReportsAssumption DEF Optional
    <3>2. <<>> \in Seq(Report) /\ \A r \in Report : <<r>> \in Seq(Report)
      OBVIOUS
    <3>3. rep \in Seq(Report)
      BY <3>1, <3>2
    <3>4. QED
      BY <3>3, NormalizeAllType
  <2>5. Shaped(payload) /\ payload.reports \in Seq(Report) /\ handed = <<>>
        /\ Agrees(payload, "nil")
    BY <1>1, <2>2
  <2>6. err \in ErrorClasses /\ Agrees(q, err) /\ q.reports \in Seq(Report)
    BY <2>4, <2>5, AppendAgrees DEF Agrees
  <2> HIDE DEF q, err
  <2>7. CASE \E ended : Fault(payload, ended)
    BY <2>5, <2>7, FaultKeeps
  <2>8. CASE err # "nil" /\ Stop(q, err, {})
    BY <2>5, <2>6, <2>8, StopKeeps DEF ErrorClasses
  <2>9. CASE err = "nil" /\ \E to \in {"final", "last"} : Go(to, q)
    BY <2>6, <2>9, GoKeeps
  <2>10. CASE \E to \in {"final", "last"} : Go(to, payload)
    BY <2>5, <2>10, GoKeeps
  <2>11. QED
    BY <2>3, <2>7, <2>8, <2>9, <2>10
<1>5. QED
  BY <1>2, <1>3, <1>4

LEMMA DecisionInit == Init => DecisionInv
<1>1. Init => at = "resolve" /\ payload = NoPayload
  BY DEF Init
<1>2. QED
  BY <1>1, NoPayloadReports DEF DecisionInv, Passing, Validating

LEMMA DecisionStep == Inv /\ Unfailed /\ DecisionInv /\ [Next]_vars => DecisionInv'
<1>1. SUFFICES ASSUME Inv, Unfailed, DecisionInv, [Next]_vars PROVE DecisionInv'
  OBVIOUS
<1>2. CASE Host \/ CheckScope
  BY <1>1, <1>2, HostDecides DEF Host
<1>3. CASE Validate
  BY <1>1, <1>3, HostDecides, GuardDecides, CallbackDecides, DocumentDecides DEF Validate
<1>4. CASE (\E err \in CtxErrors \ {"none"} : ContextEnds(err)) \/ Finished \/ UNCHANGED vars
  <2>1. UNCHANGED <<at, stage, payload, error, handed>>
    BY <1>4 DEF ContextEnds, Finished, vars
  <2>2. QED
    BY <1>1, <2>1 DEF DecisionInv, Agrees
<1>5. QED
  BY <1>1, <1>2, <1>3, <1>4 DEF Next

(* The decision a host reads and the error it gets are of one class, and   *)
(* only a call without an error hands anything out (args.go,               *)
(* refreshGuardedArgsDecision and every return of Validate).               *)
THEOREM ErrorAlwaysMatchesDecision == Spec => []ErrorMatchesDecision
<1>1. Init => Unfailed
  BY DEF Init, Unfailed
<1>2. DecisionInv => ErrorMatchesDecision
  <2>1. ASSUME NEW class \in ErrorClasses
        PROVE  DispositionOf(class) =
                  CASE class = "nil"     -> "none"
                    [] class = "retry"   -> "retryable_correction"
                    [] class = "blocked" -> "terminal_deny"
                    [] class = "fault"   -> "system_fault"
    BY DEF DispositionOf
  <2>2. QED
    BY <2>1 DEF DecisionInv, ErrorMatchesDecision, Agrees
<1>3. QED
  BY <1>1, <1>2, DecisionInit, DecisionStep, InvInit, InvStep, UnfailedStep, PTL DEF Spec
=============================================================================
