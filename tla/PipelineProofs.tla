--------------------------- MODULE PipelineProofs ---------------------------
(***************************************************************************)
(* What holds of Pipeline.Run, and of the GuardDelivery built on it, for   *)
(* every payload type, every set of reports and causes a validator may     *)
(* produce, and any number of chain and parallel validators.               *)
(***************************************************************************)
EXTENDS Delivery, ReportProofs

\* What a validator returned is a record; the proofs always look into it.
USE DEF Returns, Kept

-----------------------------------------------------------------------------
(* Types of the operators the actions are built from.                      *)

LEMMA OptionalIsSeq ==
    ASSUME NEW S, NEW T, T \subseteq S, NEW o \in Optional(T)
    PROVE  o \in AtMostOne(S) /\ o \in Seq(S)
<1>1. CASE o = <<>>
  BY <1>1 DEF AtMostOne
<1>2. ASSUME NEW x \in T, o = <<x>> PROVE o \in AtMostOne(S) /\ o \in Seq(S)
  <2>1. x \in S
    OBVIOUS
  <2>2. <<x>> \in Seq(S) /\ Len(<<x>>) = 1
    BY <2>1
  <2>3. QED
    BY <1>2, <2>2 DEF AtMostOne
<1>3. QED
  BY <1>1, <1>2 DEF Optional

LEMMA ContextErrorType ==
    ASSUME NEW err \in CtxErrors
    PROVE  /\ ContextError(err) \in Seq(Cause)
           /\ (ContextError(err) = <<>>) <=> (err = "none")
<1>1. CauseOfContext(err) \in Cause
  BY DEF CauseOfContext, Cause, AtMostOne
<1>2. <<CauseOfContext(err)>> \in Seq(Cause) /\ <<CauseOfContext(err)>> # <<>>
  BY <1>1
<1>3. QED
  BY <1>2 DEF ContextError

LEMMA PlainCauseType == PlainCause \in Cause
BY DEF PlainCause, Cause, AtMostOne

LEMMA CompletedType ==
    ASSUME NEW err \in Seq(Cause)
    PROVE  /\ CompletedReports(err) \in Seq(Report)
           /\ CompletedReportFromError(err) \in AtMostOne(Report)
<1>1. CompletedReports(err) \in Seq(Report)
  <2>1. CASE err = <<>>
    BY <2>1 DEF CompletedReports
  <2>2. CASE err # <<>>
    <3>1. err[1] \in Cause
      BY <2>2
    <3>2. QED
      BY <2>2, <3>1 DEF CompletedReports, Cause, AtMostOne
  <2>3. QED
    BY <2>1, <2>2
<1>2. CompletedReportFromError(err) \in AtMostOne(Report)
  <2>1. ComposeReports(CompletedReports(err)) \in Report
    BY <1>1, ComposeType
  <2>2. QED
    BY <2>1 DEF CompletedReportFromError, AtMostOne
<1>3. QED
  BY <1>1, <1>2

LEMMA AppendCompletedType ==
    ASSUME NEW reps \in Seq(Report), NEW err \in Seq(Cause)
    PROVE  AppendCompletedObservations(reps, err) \in Seq(Report)
<1>1. CompletedReportFromError(err) \in Seq(Report)
  BY CompletedType DEF AtMostOne
<1>2. NormalizeAll(CompletedReportFromError(err)) \in Seq(Report)
  BY <1>1, NormalizeAllType
<1>3. QED
  BY <1>2 DEF AppendCompletedObservations

LEMMA EvidenceType ==
    ASSUME NEW reps \in Seq(Report), NEW err \in Seq(Cause)
    PROVE  WithCompletedObservations(err, reps) \in AtMostOne(Report)
<1> DEFINE all == reps \o CompletedReportFromError(err)
<1>1. all \in Seq(Report)
  BY CompletedType DEF AtMostOne
<1>2. ComposeReports(all) \in Report
  BY <1>1, ComposeType
<1>3. QED
  BY <1>2 DEF WithCompletedObservations, AtMostOne

-----------------------------------------------------------------------------
(* Results.                                                                *)

LEMMA PassDecisionType == PassDecision \in HostDecision
BY DEF PassDecision, HostDecision, Actions, Dispositions, PayloadKinds

LEMMA FaultReportType == ValidatorFaultReport \in Report
BY DEF ValidatorFaultReport, BlankReport, Report, Actions, Dispositions, PayloadKinds

LEMMA UserChannelBlockType ==
    ASSUME NEW kind \in PayloadKinds
    PROVE  UserChannelBlock(kind) \in Report
<1> DEFINE b == BlankReport("block", kind)
           e == [b EXCEPT !.retryable = FALSE, !.fatal = FALSE]
<1>1. b \in Report /\ b.action = "block" /\ b.disposition = "none" /\ ~b.fatal
  BY DEF BlankReport, Report, Actions, Dispositions
<1>2. UserChannelBlock(kind) = NormalizeReport(e)
  BY <1>1 DEF UserChannelBlock, FinishReport, BlankReport
<1>3. e \in Report
  <2> HIDE DEF b
  <2>1. QED
    BY <1>1 DEF Report
<1>4. QED
  <2> HIDE DEF e
  <2>1. QED
    BY <1>2, <1>3, NormalizeType

LEMMA NoResultType == NoResult \in Results
<1>1. Zero \in Values /\ PassDecision \in HostDecision /\ "safe" \in PayloadKinds
  BY ValuesAssumption, PassDecisionType DEF PayloadKinds
<1>2. <<>> \in Seq(Report) /\ <<>> \in AtMostOne(Report)
  BY DEF AtMostOne
<1>3. QED
  <2> HIDE DEF PassDecision
  <2>1. QED
    BY <1>1, <1>2 DEF NoResult, Results

(* Run's normal return: it is no failure, and it keeps every report.       *)
LEMMA FinalizeType ==
    ASSUME NEW out \in Values, NEW reps \in Seq(Report)
    PROVE  /\ FinalizeResult(out, reps) \in Results
           /\ ~FinalizeResult(out, reps).fault
           /\ \/ FinalizeResult(out, reps).reports = reps
              \/ \E rep \in Report :
                    FinalizeResult(out, reps).reports = Append(reps, rep)
<1> DEFINE kind   == AggregatePayloadKind(reps)
           unsafe == userChannel /\ kind # "safe"
           all    == IF unsafe THEN Append(reps, UserChannelBlock(kind)) ELSE reps
           denied == userChannel /\ \/ IsTerminalDeny(Decision(all))
                                    \/ IsSystemFault(Decision(all))
           o == IF unsafe \/ denied THEN Zero ELSE out
<1>1. kind \in PayloadKinds
  BY AggregateIsStrictest
<1>2. UserChannelBlock(kind) \in Report
  BY <1>1, UserChannelBlockType
<1>3. all \in Seq(Report) /\ (all = reps \/ all = Append(reps, UserChannelBlock(kind)))
  BY <1>2
<1>4. AggregatePayloadKind(all) \in PayloadKinds
  BY <1>3, AggregateIsStrictest
<1>5. o \in Values
  BY ValuesAssumption
<1>6. FinalizeResult(out, reps) =
        [NoResult EXCEPT !.output = o, !.reports = all, !.kind = AggregatePayloadKind(all)]
  BY DEF FinalizeResult
<1>7. FinalizeResult(out, reps) \in Results /\ ~FinalizeResult(out, reps).fault
      /\ FinalizeResult(out, reps).reports = all
  <2> HIDE DEF o, all
  <2>1. ~NoResult.fault
    BY DEF NoResult
  <2>2. QED
    BY <1>3, <1>4, <1>5, <1>6, <2>1, NoResultType DEF Results
<1>8. QED
  BY <1>2, <1>3, <1>7

LEMMA PolicyFailureType ==
    ASSUME NEW rep \in Report
    PROVE  PolicyFailureFromReport(rep) \in HostDecision
<1> DEFINE cp == NormalizeReport(rep)
           d == DecisionFromReport(rep)
<1>1. cp \in Report
  BY NormalizeType
<1>2. d \in HostDecision
  <2> DEFINE s == IF IsObservation(cp)
                  THEN [cp EXCEPT !.action = "pass", !.disposition = "none"] ELSE cp
  <2>1. s \in Report
    <3> HIDE DEF cp
    <3>1. QED
      BY <1>1 DEF Report, Actions, Dispositions
  <2>2. d = ToHostDecision(s)
    BY DEF DecisionFromReport
  <2>3. QED
    <3> HIDE DEF s
    <3>1. QED
      BY <2>1, <2>2 DEF ToHostDecision, HostDecision, Report
<1>3. QED
  <2> HIDE DEF d
  <2>1. PolicyFailureFromReport(rep) =
          IF d.disposition = "none" THEN [d EXCEPT !.disposition = "system_fault"] ELSE d
    BY DEF PolicyFailureFromReport, d
  <2>2. QED
    BY <1>2, <2>1 DEF HostDecision, Dispositions

(* Run's failing return: it is a failure, and it keeps every report.       *)
LEMMA ValidatorFaultType ==
    ASSUME NEW out \in Values, NEW reps \in Seq(Report), NEW err \in Seq(Cause)
    PROVE  /\ ValidatorFaultResult(out, reps, err) \in Results
           /\ ValidatorFaultResult(out, reps, err).fault
           /\ ValidatorFaultResult(out, reps, err).output = out
           /\ ValidatorFaultResult(out, reps, err).reports
                = Append(reps, ValidatorFaultReport)
<1> DEFINE all  == Append(reps, ValidatorFaultReport)
           kind == AggregatePayloadKind(all)
           rep  == PolicyDecisionReport(all, kind)
<1>1. all \in Seq(Report)
  BY FaultReportType
<1>2. kind \in PayloadKinds
  BY <1>1, AggregateIsStrictest
<1>3. rep \in Report
  <2>1. Decision(all) \in Report
    BY <1>1, DecisionType
  <2>2. QED
    <3> HIDE DEF all, kind
    <3>1. QED
      BY <1>2, <2>1 DEF PolicyDecisionReport, WithOutputKind, Report
<1>4. PolicyFailureFromReport(rep) \in HostDecision
  BY <1>3, PolicyFailureType
<1>5. WithCompletedObservations(err, reps) \in AtMostOne(Report)
  BY EvidenceType
<1>6. QED
  <2> HIDE DEF all, kind, rep
  <2>1. ValidatorFaultResult(out, reps, err) =
          [output |-> out, reports |-> all, kind |-> kind, fault |-> TRUE,
           failure |-> PolicyFailureFromReport(rep),
           evidence |-> WithCompletedObservations(err, reps)]
    BY DEF ValidatorFaultResult, all, kind, rep
  <2>2. QED
    BY <1>1, <1>2, <1>4, <1>5, <2>1 DEF Results, all

-----------------------------------------------------------------------------
(* Type correctness.                                                       *)

(* A validator is only called while the chain has one: this is what keeps  *)
(* the index in range, and it makes TypeOK inductive.                      *)
CallInRange == pc = "call" => next <= ChainLen

TypeInv == TypeOK /\ CallInRange

LEMMA InitType == Init => TypeInv
<1> SUFFICES ASSUME Init PROVE TypeInv
  OBVIOUS
<1>1. NoReturn \in Returns
  BY DEF NoReturn, AtMostOne
<1>2. ret \in [Par -> Returns] /\ chainRet \in [1..ChainLen -> Returns]
  BY <1>1 DEF Init
<1>3. /\ next \in 1..(ChainLen + 1)
      /\ gpc \in [Par -> GoroutinePCs]
      /\ gctxErr \in CtxErrors
  BY ChainLenAssumption DEF Init, GoroutinePCs, CtxErrors
<1>4. reports \in Seq(Report) /\ slowReps \in Seq(Report)
      /\ firstErr \in Seq(Cause) /\ groupErr \in Seq(Cause)
  BY DEF Init
<1>5. QED
  BY <1>2, <1>3, <1>4, NoResultType DEF Init, TypeInv, TypeOK, CallInRange

(* A step of Run's own goroutine.                                          *)
LEMMA ChainStepType == TypeInv /\ Chain => TypeInv'
<1> SUFFICES ASSUME TypeInv, Chain PROVE TypeInv'
  OBVIOUS
<1> USE DEF config, chain, shared, TypeInv, CallInRange
<1>1. /\ ContextError(ctxErr) \in Seq(Cause)
      /\ <<>> \in Seq(Report)
      /\ reports \o slowReps \in Seq(Report)
      /\ <<PlainCause>> \in Seq(Cause)
  BY ContextErrorType, PlainCauseType DEF TypeOK
<1>2. CASE CheckScope
  <2>1. ValidatorFaultResult(current, <<>>, <<PlainCause>>) \in Results
    BY <1>1, ValidatorFaultType DEF TypeOK
  <2>2. QED
    BY <1>2, <2>1 DEF CheckScope, Return, TypeOK
<1>3. CASE CheckBefore
  <2>1. ValidatorFaultResult(current, reports, ContextError(ctxErr)) \in Results
    BY <1>1, ValidatorFaultType DEF TypeOK
  <2>2. QED
    BY <1>3, <2>1 DEF CheckBefore, Return, TypeOK
<1>4. ASSUME NEW out \in Values, NEW rep \in Optional(ValidatorReports),
             NEW cause \in Optional(ValidatorCauses), ChainReturns(out, rep, cause)
      PROVE  TypeInv'
  <2>1. rep \in Seq(Report) /\ cause \in Seq(Cause)
    BY OptionalIsSeq, ReportsAssumption, CausesAssumption
  <2> DEFINE err  == cause \o ContextError(ctxErr)
             reps == reports \o NormalizeAll(rep)
  <2>2. err \in Seq(Cause)
    BY <1>1, <2>1
  <2>3. reps \in Seq(Report)
    BY <2>1, NormalizeAllType DEF TypeOK
  <2>4. chainRet' \in [1..ChainLen -> Returns]
    <3>1. Kept(rep, err) \in Returns
      <4>1. rep \in AtMostOne(Report) /\ <<>> \in AtMostOne(Report)
        BY OptionalIsSeq, ReportsAssumption DEF AtMostOne
      <4> HIDE DEF err
      <4>2. QED
        BY <2>2, <4>1
    <3>2. chainRet' = [chainRet EXCEPT ![next] = Kept(rep, err)]
      BY <1>4 DEF ChainReturns
    <3> HIDE DEF err
    <3>3. QED
      BY <3>1, <3>2 DEF TypeOK
  <2>5. CASE ChainFailure(out, err)
    <3>1. ValidatorFaultResult(current, AppendCompletedObservations(reports, err), err)
             \in Results
      BY <2>2, AppendCompletedType, ValidatorFaultType DEF TypeOK
    <3>2. QED
      BY <1>4, <2>5, <2>4, <3>1 DEF ChainReturns, ChainFailure, Return, TypeOK
  <2>6. CASE ChainSuccess(out, rep) /\ pc' = "done"
    <3>1. FinalizeResult(out, reps) \in Results
      BY <2>3, FinalizeType
    <3>2. QED
      BY <1>4, <2>6, <2>4, <3>1 DEF ChainReturns, ChainSuccess, Return, TypeOK
  <2>7. CASE ChainSuccess(out, rep) /\ pc' # "done"
    <3>1. /\ pc' = "check" /\ next' = next + 1 /\ current' = out
          /\ reports' = reps /\ UNCHANGED result
      BY <2>7 DEF ChainSuccess, Return
    <3>2. QED
      BY <1>4, <2>3, <2>4, <3>1, ChainLenAssumption DEF ChainReturns, TypeOK
  <2>8. QED
    BY <1>4, <2>5, <2>6, <2>7 DEF ChainReturns
<1>5. CASE ChainDone
  <2>1. ValidatorFaultResult(current, reports, ContextError(ctxErr)) \in Results
        /\ FinalizeResult(current, reports) \in Results
    BY <1>1, ValidatorFaultType, FinalizeType DEF TypeOK
  <2>2. QED
    BY <1>5, <2>1 DEF ChainDone, Return, TypeOK
<1>6. CASE Join
  <2> DEFINE all == reports \o slowReps
             err == IF groupErr # <<>> THEN groupErr
                    ELSE IF firstErr # <<>> THEN firstErr ELSE ContextError(ctxErr)
  <2>1. err \in Seq(Cause)
    BY <1>1 DEF TypeOK
  <2>2. ValidatorFaultResult(current, all, err) \in Results
        /\ FinalizeResult(current, all) \in Results
    BY <1>1, <2>1, ValidatorFaultType, FinalizeType DEF TypeOK
  <2>3. QED
    BY <1>6, <2>2 DEF Join, Return, TypeOK
<1>7. QED
  BY <1>2, <1>3, <1>4, <1>5, <1>6 DEF Chain

(* A step of a parallel validator's goroutine.                             *)
LEMMA GoroutineStepType ==
    ASSUME TypeInv, NEW g \in Par, Goroutine(g)
    PROVE  TypeInv'
<1> USE DEF config, chain, shared, TypeInv, CallInRange
<1>1. ASSUME NEW to \in GoroutinePCs, NEW from, AtGoroutine(g, from, to)
      PROVE  gpc' \in [Par -> GoroutinePCs] /\ pc = "parallel"
  BY <1>1 DEF AtGoroutine, TypeOK
<1>2. ret[g].rep \in AtMostOne(Report) /\ ret[g].err \in Seq(Cause)
      /\ ret[g].rep \in Seq(Report)
  BY DEF TypeOK, AtMostOne
<1>3. ASSUME NEW rep \in Optional(ValidatorReports),
             NEW cause \in Optional(ValidatorCauses), ParReturns(g, rep, cause)
      PROVE  TypeInv'
  <2> DEFINE err == cause \o ContextError(gctxErr)
             r == IF err = <<>> /\ ForbiddenRedaction(rep)
                  THEN [rep |-> <<>>, err |-> <<PlainCause>>]
                  ELSE [rep |-> IF err = <<>> THEN rep ELSE <<>>, err |-> err]
  <2>1. rep \in AtMostOne(Report) /\ cause \in Seq(Cause)
    BY OptionalIsSeq, ReportsAssumption, CausesAssumption
  <2>2. err \in Seq(Cause) /\ <<PlainCause>> \in Seq(Cause) /\ <<>> \in AtMostOne(Report)
    BY <2>1, ContextErrorType, PlainCauseType DEF TypeOK, AtMostOne
  <2>3. r \in Returns
    <3> HIDE DEF err
    <3>1. QED
      BY <2>1, <2>2
  <2>4. ret' = [ret EXCEPT ![g] = r] /\ AtGoroutine(g, "call", AfterReturn(rep, err))
        /\ UNCHANGED <<config, pc, chain, ctxErr, gctxErr, shared, result>>
    BY <1>3 DEF ParReturns
  <2>5. AfterReturn(rep, err) \in GoroutinePCs
    BY DEF AfterReturn, GoroutinePCs
  <2>6. QED
    <3> HIDE DEF r, err
    <3>1. QED
      BY <1>1, <2>3, <2>4, <2>5 DEF TypeOK
<1>4. CASE KeepEvidence(g)
  <2>1. AppendCompletedObservations(slowReps, ret[g].err) \in Seq(Report)
    BY <1>2, AppendCompletedType DEF TypeOK
  <2>2. gpc' \in [Par -> GoroutinePCs] /\ pc = "parallel"
    BY <1>4 DEF KeepEvidence, AtGoroutine, GoroutinePCs, TypeOK
  <2>3. QED
    BY <1>4, <2>1, <2>2 DEF KeepEvidence, TypeOK
<1>5. CASE CheckStopped(g)
  <2>1. gpc' \in [Par -> GoroutinePCs] /\ pc = "parallel"
    BY <1>5 DEF CheckStopped, AtGoroutine, GoroutinePCs, TypeOK
  <2>2. QED
    BY <1>5, <2>1 DEF CheckStopped, TypeOK
<1>6. CASE NoteFirstErr(g)
  <2>1. gpc' \in [Par -> GoroutinePCs] /\ pc = "parallel"
    BY <1>6 DEF NoteFirstErr, AtGoroutine, GoroutinePCs, TypeOK
  <2>2. QED
    BY <1>2, <1>6, <2>1 DEF NoteFirstErr, TypeOK
<1>7. CASE ReturnErr(g)
  <2>1. gpc' \in [Par -> GoroutinePCs] /\ pc = "parallel"
    BY <1>7 DEF ReturnErr, AtGoroutine, GoroutinePCs, TypeOK
  <2>2. groupErr' \in Seq(Cause) /\ gctxErr' \in CtxErrors
    BY <1>2, <1>7 DEF ReturnErr, TypeOK, CtxErrors
  <2>3. QED
    BY <1>7, <2>1, <2>2 DEF ReturnErr, TypeOK
<1>8. CASE AppendReport(g)
  <2>1. gpc' \in [Par -> GoroutinePCs] /\ pc = "parallel"
    BY <1>8 DEF AppendReport, AtGoroutine, GoroutinePCs, TypeOK
  <2>2. slowReps' \in Seq(Report)
    BY <1>2, <1>8, NormalizeAllType DEF AppendReport, TypeOK
  <2>3. QED
    BY <1>8, <2>1, <2>2 DEF AppendReport, TypeOK
<1>9. CASE RecordDecision(g)
  <2>1. gpc' \in [Par -> GoroutinePCs] /\ pc = "parallel"
    BY <1>9 DEF RecordDecision, AtGoroutine, GoroutinePCs, TypeOK
  <2>2. block' \in BOOLEAN /\ retry' \in BOOLEAN /\ gctxErr' \in CtxErrors
    BY <1>9 DEF RecordDecision, TypeOK, CtxErrors
  <2>3. QED
    BY <1>9, <2>1, <2>2 DEF RecordDecision, TypeOK
<1>10. QED
  BY <1>3, <1>4, <1>5, <1>6, <1>7, <1>8, <1>9 DEF Goroutine

(* The caller's context.                                                   *)
LEMMA EnvironmentStepType == TypeInv /\ Environment => TypeInv'
<1> USE DEF config, chain, shared, TypeInv, CallInRange
<1>1. ASSUME TypeInv, NEW err \in CtxErrors \ {"none"}, CancelContext(err)
      PROVE  TypeInv'
  BY <1>1 DEF CancelContext, TypeOK
<1>2. ASSUME TypeInv, PropagateCancellation PROVE TypeInv'
  BY <1>2 DEF PropagateCancellation, TypeOK
<1>3. QED
  BY <1>1, <1>2 DEF Environment

LEMMA StutterType == TypeInv /\ UNCHANGED vars => TypeInv'
BY DEF vars, config, chain, shared, TypeInv, CallInRange, TypeOK

LEMMA NextType == TypeInv /\ [Next]_vars => TypeInv'
BY ChainStepType, GoroutineStepType, EnvironmentStepType, StutterType
   DEF Next, Finished

LEMMA TypeInvariant == Spec => []TypeInv
<1>1. QED
  BY InitType, NextType, PTL DEF Spec

(* Every reachable state of Run is well-typed: in particular the chain     *)
(* index never leaves the chain and every result is a decision a host can  *)
(* project.                                                                *)
THEOREM TypeCorrect == Spec => []TypeOK
<1>1. TypeInv => TypeOK
  BY DEF TypeInv
<1>2. QED
  BY <1>1, TypeInvariant, PTL

-----------------------------------------------------------------------------
(* Failures.                                                               *)

(* Run's normal return is one a caller may rely on, if nothing was wrong.  *)
LEMMA FinalizeHonest ==
    ASSUME NEW out \in Values, NEW reps \in Seq(Report)
    PROVE  KeepsRunPromise(FinalizeResult(out, reps), FALSE)
<1> DEFINE kind   == AggregatePayloadKind(reps)
           unsafe == userChannel /\ kind # "safe"
           all    == IF unsafe THEN Append(reps, UserChannelBlock(kind)) ELSE reps
           denied == userChannel /\ \/ IsTerminalDeny(Decision(all))
                                    \/ IsSystemFault(Decision(all))
           o == IF unsafe \/ denied THEN Zero ELSE out
           r == FinalizeResult(out, reps)
<1>1. r = [NoResult EXCEPT !.output = o, !.reports = all,
                           !.kind = AggregatePayloadKind(all)]
  BY DEF FinalizeResult
<1>2. r.kind = AggregatePayloadKind(all) /\ r.reports = all /\ ~r.fault
  <2> HIDE DEF o, all, r
  <2>1. QED
    BY <1>1 DEF NoResult
<1>3. QED
  <2> HIDE DEF r, all
  <2>1. QED
    BY <1>2 DEF KeepsRunPromise, r

(* Run's failing return is one a caller may rely on, whatever was wrong.   *)
LEMMA FaultHonest ==
    ASSUME NEW out \in Values, NEW reps \in Seq(Report), NEW err \in Seq(Cause),
           NEW unusable
    PROVE  KeepsRunPromise(ValidatorFaultResult(out, reps, err), unusable)
<1> DEFINE all == Append(reps, ValidatorFaultReport)
           r   == ValidatorFaultResult(out, reps, err)
<1>1. r.fault /\ r.reports = all
  BY ValidatorFaultType
<1>2. r.kind = AggregatePayloadKind(all)
  BY DEF ValidatorFaultResult
<1>3. all # <<>> /\ all[Len(all)] = ValidatorFaultReport
  BY FaultReportType
<1>4. QED
  <2> HIDE DEF r, all
  <2>1. QED
    BY <1>1, <1>2, <1>3 DEF KeepsRunPromise, r

(* A run that has started has found the scope complete.                    *)
PromiseInv == RunKeepsPromise /\ (pc \in {"check", "call", "parallel"} => scopeOK)

LEMMA PromiseStep ==
    ASSUME TypeInv, PromiseInv, [Next]_vars
    PROVE  PromiseInv'
<1> USE DEF PromiseInv, RunKeepsPromise, config, chain, shared
<1>0. /\ ContextError(ctxErr) \in Seq(Cause)
      /\ (ContextError(ctxErr) = <<>>) <=> (ctxErr = "none")
      /\ <<PlainCause>> \in Seq(Cause) /\ <<>> \in Seq(Report)
      /\ reports \in Seq(Report) /\ slowReps \in Seq(Report) /\ current \in Values
      /\ groupErr \in Seq(Cause) /\ firstErr \in Seq(Cause) /\ scopeOK \in BOOLEAN
  BY ContextErrorType, PlainCauseType DEF TypeInv, TypeOK
<1>1. CASE CheckScope
  BY <1>0, <1>1, FaultHonest DEF CheckScope, Return
<1>2. CASE CheckBefore
  BY <1>0, <1>2, FaultHonest DEF CheckBefore, Return
<1>3. ASSUME NEW out \in Values, NEW rep \in Optional(ValidatorReports),
             NEW cause \in Optional(ValidatorCauses), ChainReturns(out, rep, cause)
      PROVE  PromiseInv'
  <2> DEFINE err == cause \o ContextError(ctxErr)
  <2>1. cause \in Seq(Cause) /\ rep \in Seq(Report)
    BY OptionalIsSeq, CausesAssumption, ReportsAssumption
  <2>2. err \in Seq(Cause) /\ (err = <<>> => ctxErr = "none")
    BY <1>0, <2>1
  <2>3. CASE err # <<>>
    <3>1. AppendCompletedObservations(reports, err) \in Seq(Report)
      BY <1>0, <2>2, AppendCompletedType
    <3>2. /\ pc' = "done"
          /\ result' = ValidatorFaultResult(
                          current, AppendCompletedObservations(reports, err), err)
      BY <1>3, <2>3 DEF ChainReturns, ChainFailure, Return
    <3>3. QED
      <4> HIDE DEF err
      <4>1. QED
        BY <1>0, <2>2, <3>1, <3>2, FaultHonest
  <2>4. CASE err = <<>>
    <3> DEFINE reps == reports \o NormalizeAll(rep)
    <3>1. reps \in Seq(Report)
      BY <1>0, <2>1, NormalizeAllType
    <3>2. KeepsRunPromise(FinalizeResult(out, reps), FALSE)
      BY <3>1, FinalizeHonest
    <3>3. /\ pc = "call" /\ UNCHANGED <<ctxErr, scopeOK>>
          /\ \/ pc' = "done" /\ result' = FinalizeResult(out, reps)
             \/ pc' = "check" /\ UNCHANGED result
      BY <1>3, <2>4 DEF ChainReturns, ChainSuccess, Return
    <3>4. QED
      BY <2>2, <2>4, <3>2, <3>3
  <2>5. QED
    BY <2>3, <2>4
<1>4. CASE ChainDone
  <2>1. CASE pc' = "parallel"
    BY <1>4, <2>1 DEF ChainDone
  <2>2. CASE ctxErr # "none" /\ pc' # "parallel"
    <3>1. result' = ValidatorFaultResult(current, reports, ContextError(ctxErr))
      BY <1>4, <2>2 DEF ChainDone, Return
    <3>2. pc' = "done"
      BY <1>4, <2>2 DEF ChainDone, Return
    <3>3. QED
      BY <1>0, <3>1, <3>2, FaultHonest
  <2>3. CASE ctxErr = "none" /\ pc' # "parallel"
    <3>1. result' = FinalizeResult(current, reports) /\ pc' = "done"
      BY <1>4, <2>3 DEF ChainDone, Return
    <3>2. KeepsRunPromise(FinalizeResult(current, reports), FALSE)
      BY <1>0, FinalizeHonest
    <3>3. pc = "check" /\ UNCHANGED <<ctxErr, scopeOK>>
      BY <1>4 DEF ChainDone
    <3>4. QED
      BY <2>3, <3>1, <3>2, <3>3
  <2>4. QED
    BY <2>1, <2>2, <2>3
<1>5. CASE Join
  <2> DEFINE err == IF groupErr # <<>> THEN groupErr
                    ELSE IF firstErr # <<>> THEN firstErr ELSE ContextError(ctxErr)
             all == reports \o slowReps
  <2>1. err \in Seq(Cause) /\ (err = <<>> => ctxErr = "none")
    BY <1>0
  <2>2. all \in Seq(Report)
    BY <1>0
  <2>3. /\ pc = "parallel" /\ pc' = "done" /\ UNCHANGED <<ctxErr, scopeOK>>
        /\ result' = IF err = <<>> THEN FinalizeResult(current, all)
                     ELSE ValidatorFaultResult(current, all, err)
    BY <1>5 DEF Join, Return
  <2> HIDE DEF err, all
  <2>4. CASE err = <<>>
    <3>1. KeepsRunPromise(FinalizeResult(current, all), FALSE)
      BY <1>0, <2>2, FinalizeHonest
    <3>2. QED
      BY <2>1, <2>3, <2>4, <3>1
  <2>5. CASE err # <<>>
    BY <1>0, <2>1, <2>2, <2>3, <2>5, FaultHonest
  <2>6. QED
    BY <2>4, <2>5
<1>6. ASSUME NEW g \in Par, Goroutine(g) PROVE PromiseInv'
  <2>1. pc = "parallel" /\ UNCHANGED <<pc, scopeOK>>
    BY <1>6 DEF Goroutine, ParReturns, KeepEvidence, CheckStopped, NoteFirstErr,
                ReturnErr, AppendReport, RecordDecision, AtGoroutine
  <2>2. QED
    BY <2>1
<1>7. CASE Environment
  <2>1. pc # "done" /\ UNCHANGED <<pc, scopeOK>>
    BY <1>7 DEF Environment, CancelContext, PropagateCancellation
  <2>2. QED
    BY <2>1
<1>8. CASE UNCHANGED vars
  BY <1>8 DEF vars
<1>9. QED
  BY <1>1, <1>2, <1>3, <1>4, <1>5, <1>6, <1>7, <1>8 DEF Next, Chain, Finished

(* What the argument, request and delivery boundaries take for granted of  *)
(* Run holds of it: above all, a caller whose context ended before Run     *)
(* returned, or whose scope lacks something, always gets a failure.        *)
THEOREM RunAlwaysKeepsPromise == Spec => []RunKeepsPromise
<1>1. Init => PromiseInv
  BY DEF Init, PromiseInv, RunKeepsPromise
<1>2. TypeInv /\ PromiseInv /\ [Next]_vars => PromiseInv'
  BY PromiseStep
<1>3. PromiseInv => RunKeepsPromise
  BY DEF PromiseInv
<1>4. QED
  BY <1>1, <1>2, <1>3, TypeInvariant, PTL DEF Spec

-----------------------------------------------------------------------------
(* What the parallel phase remembers.                                      *)

HasGenuine(g) == \E i \in DOMAIN ret[g].err : ~ret[g].err[i].only

\* Before the phase starts no goroutine has returned anything.
Fresh == pc \in {"enter", "check", "call"} => \A g \in Par : ret[g] = NoReturn

\* A genuine failure is on its way to firstErr until firstErr is set: it is
\* never mistaken for a sibling's cancellation.
FailureNoted ==
    \A g \in Par :
        HasGenuine(g) => gpc[g] \in {"evidence", "note"} \/ firstErr # <<>>

\* A report is on its way to slowReps until it is there.
ReportKept ==
    \A g \in Par : \A i \in DOMAIN ret[g].rep :
        \/ gpc[g] = "append"
        \/ \E k \in DOMAIN slowReps : slowReps[k] = NormalizeReport(ret[g].rep[i])

PhaseInv == Fresh /\ FailureNoted /\ ReportKept

LEMMA PhaseInit == Init => PhaseInv
BY DEF Init, PhaseInv, Fresh, FailureNoted, ReportKept, NoReturn, HasGenuine

(* Steps outside the goroutines touch none of the phase's memory.          *)
LEMMA PhaseOutside ==
    ASSUME PhaseInv, Chain \/ Environment \/ UNCHANGED vars
    PROVE  PhaseInv'
<1> USE DEF config, chain, shared
<1>1. UNCHANGED <<gpc, ret, firstErr, slowReps>>
  BY DEF Chain, CheckScope, CheckBefore, ChainReturns, ChainDone, Join,
         Environment, CancelContext, PropagateCancellation, vars
<1>2. pc' \in {"enter", "check", "call"} => pc \in {"enter", "check", "call"}
  BY DEF Chain, CheckScope, CheckBefore, ChainReturns, ChainFailure, ChainSuccess,
         ChainDone, Join, Return, Environment, CancelContext, PropagateCancellation, vars
<1>3. Fresh'
  BY <1>1, <1>2 DEF PhaseInv, Fresh
<1>4. QED
  BY <1>1, <1>3 DEF PhaseInv, FailureNoted, ReportKept, HasGenuine

LEMMA PhaseGoroutine ==
    ASSUME TypeInv, PhaseInv, NEW g \in Par, Goroutine(g)
    PROVE  PhaseInv'
<1> USE DEF config, chain, shared
<1>1. pc = "parallel" /\ UNCHANGED pc
  BY DEF Goroutine, ParReturns, KeepEvidence, CheckStopped, NoteFirstErr,
         ReturnErr, AppendReport, RecordDecision, AtGoroutine
<1>2. Fresh'
  BY <1>1 DEF Fresh
<1>3. /\ gpc \in [Par -> GoroutinePCs]
      /\ ret \in [Par -> Returns]
      /\ slowReps \in Seq(Report) /\ firstErr \in Seq(Cause)
  BY DEF TypeInv, TypeOK
<1>4. ASSUME NEW rep \in Optional(ValidatorReports),
             NEW cause \in Optional(ValidatorCauses), ParReturns(g, rep, cause)
      PROVE  PhaseInv'
  <2> DEFINE err == cause \o ContextError(gctxErr)
             r == IF err = <<>> /\ ForbiddenRedaction(rep)
                  THEN [rep |-> <<>>, err |-> <<PlainCause>>]
                  ELSE [rep |-> IF err = <<>> THEN rep ELSE <<>>, err |-> err]
  <2>1. /\ ret' = [ret EXCEPT ![g] = r]
        /\ gpc' = [gpc EXCEPT ![g] = AfterReturn(rep, err)]
        /\ UNCHANGED <<slowReps, firstErr>>
    BY <1>4 DEF ParReturns, AtGoroutine
  <2>2. r.err # <<>> => AfterReturn(rep, err) \in {"evidence", "note"}
    <3> HIDE DEF err
    <3>1. CASE err # <<>>
      BY <3>1 DEF AfterReturn
    <3>2. CASE err = <<>> /\ ForbiddenRedaction(rep)
      BY <3>2 DEF AfterReturn
    <3>3. CASE err = <<>> /\ ~ForbiddenRedaction(rep)
      BY <3>3
    <3>4. QED
      BY <3>1, <3>2, <3>3
  <2>3. r.rep # <<>> => AfterReturn(rep, err) = "append"
    BY DEF AfterReturn
  <2>4. rep \in AtMostOne(Report) /\ cause \in Seq(Cause)
    BY OptionalIsSeq, ReportsAssumption, CausesAssumption
  <2>5. r.rep \in Seq(Report) /\ r.err \in Seq(Cause)
    <3>1. err \in Seq(Cause) /\ <<PlainCause>> \in Seq(Cause)
      BY <2>4, ContextErrorType, PlainCauseType DEF TypeInv, TypeOK
    <3>2. QED
      <4> HIDE DEF err
      <4>1. QED
        BY <2>4, <3>1 DEF AtMostOne
  <2>6. FailureNoted'
    <3> HIDE DEF r, err
    <3> SUFFICES ASSUME NEW h \in Par, HasGenuine(h)'
                 PROVE  gpc'[h] \in {"evidence", "note"} \/ firstErr' # <<>>
      BY DEF FailureNoted
    <3>1. CASE h = g
      <4>1. ret'[h] = r /\ gpc'[h] = AfterReturn(rep, err)
        BY <1>3, <2>1, <3>1
      <4>2. r.err # <<>>
        BY <4>1, <2>5 DEF HasGenuine
      <4>3. QED
        BY <2>2, <4>1, <4>2
    <3>2. CASE h # g
      BY <1>3, <2>1, <3>2 DEF PhaseInv, FailureNoted, HasGenuine
    <3>3. QED
      BY <3>1, <3>2
  <2>7. ReportKept'
    <3> HIDE DEF r, err
    <3> SUFFICES ASSUME NEW h \in Par, NEW i \in DOMAIN ret'[h].rep
                 PROVE  \/ gpc'[h] = "append"
                        \/ \E k \in DOMAIN slowReps' :
                              slowReps'[k] = NormalizeReport(ret'[h].rep[i])
      BY DEF ReportKept
    <3>1. CASE h = g
      <4>1. ret'[h] = r /\ gpc'[h] = AfterReturn(rep, err)
        BY <1>3, <2>1, <3>1
      <4>2. r.rep # <<>>
        BY <4>1, <2>5
      <4>3. QED
        BY <2>3, <4>1, <4>2
    <3>2. CASE h # g
      BY <1>3, <2>1, <3>2 DEF PhaseInv, ReportKept
    <3>3. QED
      BY <3>1, <3>2
  <2>8. QED
    BY <1>2, <2>6, <2>7 DEF PhaseInv
<1>5. CASE KeepEvidence(g)
  <2> DEFINE kept == CompletedReportFromError(ret[g].err)
  <2>1. /\ ret' = ret /\ firstErr' = firstErr
        /\ slowReps' = slowReps \o NormalizeAll(kept)
        /\ gpc[g] = "evidence"
        /\ gpc' = [gpc EXCEPT ![g] = IF /\ IsCanceled(ret[g].err)
                                        /\ CancellationOnly(ret[g].err)
                                        /\ ctxErr = "none"
                                     THEN "stopped" ELSE "note"]
    BY <1>5 DEF KeepEvidence, AtGoroutine, AppendCompletedObservations
  <2>2. NormalizeAll(kept) \in Seq(Report)
    <3>1. ret[g].err \in Seq(Cause)
      BY <1>3
    <3>2. QED
      BY <3>1, CompletedType, NormalizeAllType DEF AtMostOne
  <2>3. FailureNoted'
    <3>1. HasGenuine(g) => ~CancellationOnly(ret[g].err)
      BY DEF HasGenuine, CancellationOnly
    <3>2. QED
      BY <1>3, <2>1, <3>1 DEF PhaseInv, FailureNoted, HasGenuine
  <2>4. ReportKept'
    <3> HIDE DEF kept
    <3>1. /\ DOMAIN slowReps \subseteq DOMAIN slowReps'
          /\ \A k \in DOMAIN slowReps : slowReps'[k] = slowReps[k]
      BY <1>3, <2>1, <2>2
    <3>2. \A h \in Par : gpc[h] = "append" => gpc'[h] = "append"
      BY <1>3, <2>1
    <3>3. QED
      BY <2>1, <3>1, <3>2 DEF PhaseInv, ReportKept
  <2>5. QED
    BY <1>2, <2>3, <2>4 DEF PhaseInv
<1>6. CASE CheckStopped(g)
  <2>1. UNCHANGED <<ret, firstErr, slowReps>> /\ gpc[g] = "stopped"
        /\ \E to : gpc' = [gpc EXCEPT ![g] = to]
    BY <1>6 DEF CheckStopped, AtGoroutine
  <2>2. QED
    BY <1>2, <1>3, <2>1 DEF PhaseInv, FailureNoted, ReportKept, HasGenuine
<1>7. CASE NoteFirstErr(g)
  <2>1. /\ UNCHANGED <<ret, slowReps>> /\ gpc[g] = "note"
        /\ gpc' = [gpc EXCEPT ![g] = "fail"]
        /\ firstErr' = IF firstErr = <<>> THEN ret[g].err ELSE firstErr
    BY <1>7 DEF NoteFirstErr, AtGoroutine
  <2>2. HasGenuine(g) => ret[g].err # <<>>
    BY <1>3 DEF HasGenuine
  <2>3. FailureNoted'
    BY <1>3, <2>1, <2>2 DEF PhaseInv, FailureNoted, HasGenuine
  <2>4. ReportKept'
    BY <1>3, <2>1 DEF PhaseInv, ReportKept
  <2>5. QED
    BY <1>2, <2>3, <2>4 DEF PhaseInv
<1>8. CASE ReturnErr(g)
  <2>1. UNCHANGED <<ret, firstErr, slowReps>> /\ gpc[g] = "fail"
        /\ gpc' = [gpc EXCEPT ![g] = "done"]
    BY <1>8 DEF ReturnErr, AtGoroutine
  <2>2. QED
    BY <1>2, <1>3, <2>1 DEF PhaseInv, FailureNoted, ReportKept, HasGenuine
<1>9. CASE AppendReport(g)
  <2>1. /\ UNCHANGED <<ret, firstErr>> /\ gpc[g] = "append"
        /\ \E to : gpc' = [gpc EXCEPT ![g] = to]
        /\ slowReps' = slowReps \o NormalizeAll(ret[g].rep)
    BY <1>9 DEF AppendReport, AtGoroutine
  <2>2. FailureNoted'
    BY <1>3, <2>1 DEF PhaseInv, FailureNoted, HasGenuine
  <2>3. ret[g].rep \in Seq(Report)
    BY <1>3 DEF AtMostOne
  <2>4. NormalizeAll(ret[g].rep) \in Seq(Report)
        /\ Len(NormalizeAll(ret[g].rep)) = Len(ret[g].rep)
        /\ \A i \in 1..Len(ret[g].rep) :
              NormalizeAll(ret[g].rep)[i] = NormalizeReport(ret[g].rep[i])
    BY <2>3, NormalizeAllType
  <2>5. ASSUME NEW i \in DOMAIN ret[g].rep
        PROVE  \E k \in DOMAIN slowReps' : slowReps'[k] = NormalizeReport(ret[g].rep[i])
    <3>1. i \in 1..Len(ret[g].rep)
      BY <2>3
    <3>2. /\ Len(slowReps) + i \in DOMAIN slowReps'
          /\ slowReps'[Len(slowReps) + i] = NormalizeAll(ret[g].rep)[i]
      BY <1>3, <2>1, <2>4, <3>1
    <3>3. QED
      BY <2>4, <3>1, <3>2
  <2>6. /\ DOMAIN slowReps \subseteq DOMAIN slowReps'
        /\ \A k \in DOMAIN slowReps : slowReps'[k] = slowReps[k]
    BY <1>3, <2>1, <2>4
  <2>7. \A h \in Par \ {g} : gpc'[h] = gpc[h]
    BY <1>3, <2>1
  <2>8. ReportKept'
    BY <2>1, <2>5, <2>6, <2>7 DEF PhaseInv, ReportKept
  <2>9. QED
    BY <1>2, <2>2, <2>8 DEF PhaseInv
<1>10. CASE RecordDecision(g)
  <2>1. UNCHANGED <<ret, firstErr, slowReps>> /\ gpc[g] = "decide"
        /\ gpc' = [gpc EXCEPT ![g] = "done"]
    BY <1>10 DEF RecordDecision, AtGoroutine
  <2>2. QED
    BY <1>2, <1>3, <2>1 DEF PhaseInv, FailureNoted, ReportKept, HasGenuine
<1>11. QED
  BY <1>4, <1>5, <1>6, <1>7, <1>8, <1>9, <1>10 DEF Goroutine

LEMMA PhaseInvariant == Spec => [](TypeInv /\ PhaseInv)
<1>1. TypeInv /\ PhaseInv /\ [Next]_vars => PhaseInv'
  BY PhaseOutside, PhaseGoroutine DEF Next, Finished
<1>2. QED
  BY <1>1, PhaseInit, TypeInvariant, PTL DEF Spec

-----------------------------------------------------------------------------
(* What the join makes of it.                                              *)

(* A run that has not reached the parallel phase returns with no goroutine *)
(* having run.                                                             *)
LEMMA ReturnBeforePhase ==
    ASSUME Chain, ~Join, pc' = "done"
    PROVE  pc \in {"enter", "check", "call"} /\ UNCHANGED <<ret, gpc>>
BY DEF Chain, CheckScope, CheckBefore, ChainReturns, ChainDone, config, shared

LEMMA JoinResult ==
    ASSUME TypeInv, Join
    PROVE  LET all == reports \o slowReps
           IN  /\ \/ result'.reports = all
                  \/ \E rep \in Report : result'.reports = Append(all, rep)
               /\ firstErr # <<>> => result'.fault
<1> DEFINE all == reports \o slowReps
           err == IF groupErr # <<>> THEN groupErr
                  ELSE IF firstErr # <<>> THEN firstErr ELSE ContextError(ctxErr)
<1>1. all \in Seq(Report) /\ current \in Values
  BY DEF TypeInv, TypeOK
<1>2. err \in Seq(Cause)
  BY ContextErrorType DEF TypeInv, TypeOK
<1>3. result' = IF err = <<>> THEN FinalizeResult(current, all)
                ELSE ValidatorFaultResult(current, all, err)
  BY DEF Join, Return
<1>4. firstErr # <<>> => err # <<>>
  OBVIOUS
<1>5. ValidatorFaultReport \in Report
  BY FaultReportType
<1>6. QED
  <2> HIDE DEF all, err
  <2>1. /\ \/ result'.reports = all
           \/ \E rep \in Report : result'.reports = Append(all, rep)
        /\ firstErr # <<>> => result'.fault
    <3>1. CASE err = <<>>
      BY <1>1, <1>3, <1>4, <3>1, FinalizeType
    <3>2. CASE err # <<>>
      BY <1>1, <1>2, <1>3, <1>5, <3>2, ValidatorFaultType
    <3>3. QED
      BY <3>1, <3>2
  <2>2. QED
    BY <2>1 DEF all

LEMMA GenuineFaultStep ==
    ASSUME TypeInv, PhaseInv, GenuineFaultWins, [Next]_vars
    PROVE  GenuineFaultWins'
<1> USE DEF config, chain, shared
<1> SUFFICES ASSUME pc' = "done", NEW g \in Par, HasGenuine(g)'
             PROVE  result'.fault
  BY DEF GenuineFaultWins, HasGenuine
<1>1. CASE Join
  <2>1. HasGenuine(g) /\ gpc[g] = "done"
    BY <1>1 DEF Join, HasGenuine
  <2>2. firstErr # <<>>
    BY <2>1 DEF PhaseInv, FailureNoted
  <2>3. QED
    BY <1>1, <2>2, JoinResult
<1>2. CASE Chain /\ ~Join
  <2>1. ret'[g] = NoReturn
    BY <1>2, ReturnBeforePhase DEF PhaseInv, Fresh
  <2>2. QED
    BY <2>1 DEF HasGenuine, NoReturn
<1>3. ASSUME NEW h \in Par, Goroutine(h) PROVE FALSE
  BY <1>3 DEF Goroutine, ParReturns, KeepEvidence, CheckStopped, NoteFirstErr,
              ReturnErr, AppendReport, RecordDecision, AtGoroutine
<1>4. CASE Environment
  BY <1>4 DEF Environment, CancelContext, PropagateCancellation
<1>5. CASE UNCHANGED vars
  BY <1>5 DEF vars, GenuineFaultWins, HasGenuine
<1>6. QED
  BY <1>1, <1>2, <1>3, <1>4, <1>5 DEF Next, Finished

(* No sibling's deny, correction or cancellation hides a check that failed *)
(* for a reason of its own.                                                *)
THEOREM GenuineFaultAlwaysWins == Spec => []GenuineFaultWins
<1>1. Init => GenuineFaultWins
  BY DEF Init, GenuineFaultWins
<1>2. TypeInv /\ PhaseInv /\ GenuineFaultWins /\ [Next]_vars => GenuineFaultWins'
  BY GenuineFaultStep
<1>3. QED
  BY <1>1, <1>2, PhaseInvariant, PTL DEF Spec

LEMMA StrongestOutcomeStep ==
    ASSUME TypeInv, PhaseInv, StrongestOutcomeWins, [Next]_vars
    PROVE  StrongestOutcomeWins'
<1> USE DEF config, chain, shared
<1> SUFFICES ASSUME pc' = "done", NEW g \in Par, NEW i \in DOMAIN ret'[g].rep
             PROVE  \/ IsObservation(ret'[g].rep[i])
                    \/ ReportPriority(Decision(result'.reports))
                          >= ReportPriority(ret'[g].rep[i])
  BY DEF StrongestOutcomeWins
<1>1. CASE Join
  <2> DEFINE all == reports \o slowReps
             rep == ret[g].rep[i]
  <2>1. ret' = ret /\ gpc[g] = "done"
    BY <1>1 DEF Join
  <2>2. PICK k \in DOMAIN slowReps : slowReps[k] = NormalizeReport(rep)
    BY <2>1 DEF PhaseInv, ReportKept
  <2>3. /\ reports \in Seq(Report) /\ slowReps \in Seq(Report)
        /\ ret[g].rep \in Seq(Report)
    BY DEF TypeInv, TypeOK, AtMostOne
  <2>4. rep \in Report
    BY <2>1, <2>3
  <2> DEFINE n == Len(reports) + k
  <2>5. /\ result'.reports \in Seq(Report)
        /\ n \in DOMAIN result'.reports
        /\ result'.reports[n] = slowReps[k]
    <3>1. \/ result'.reports = all
          \/ \E x \in Report : result'.reports = Append(all, x)
      BY <1>1, JoinResult
    <3>2. all \in Seq(Report) /\ n \in 1..Len(all) /\ all[n] = slowReps[k]
      BY <2>3
    <3> HIDE DEF all, n
    <3>3. CASE result'.reports = all
      BY <3>2, <3>3
    <3>4. ASSUME NEW x \in Report, result'.reports = Append(all, x)
          PROVE  /\ result'.reports \in Seq(Report)
                 /\ n \in DOMAIN result'.reports
                 /\ result'.reports[n] = slowReps[k]
      <4>1. /\ Append(all, x) \in Seq(Report)
            /\ n \in 1..Len(Append(all, x))
            /\ Append(all, x)[n] = all[n]
        BY <3>2
      <4>2. DOMAIN Append(all, x) = 1..Len(Append(all, x))
        BY <4>1
      <4>3. QED
        BY <3>2, <3>4, <4>1, <4>2
    <3>5. QED
      BY <3>1, <3>3, <3>4
  <2>6. CASE ~IsObservation(rep)
    <3> HIDE DEF rep, n
    <3>1. n \in Enforcing(result'.reports)
      BY <2>2, <2>4, <2>5, <2>6, NormalizeKeepsClass DEF Enforcing
    <3>2. ReportPriority(result'.reports[n]) <= ReportPriority(Decision(result'.reports))
      BY <2>5, <3>1, DecisionIsStrongest
    <3>3. ReportPriority(result'.reports[n]) = ReportPriority(rep)
      BY <2>2, <2>4, <2>5, NormalizeKeepsClass
    <3>4. ReportPriority(rep) \in Nat /\ ReportPriority(Decision(result'.reports)) \in Nat
      BY PriorityRange
    <3>5. QED
      BY <2>1, <3>2, <3>3, <3>4 DEF rep
  <2>7. QED
    BY <2>1, <2>6
<1>2. CASE Chain /\ ~Join
  <2>1. ret'[g] = NoReturn
    BY <1>2, ReturnBeforePhase DEF PhaseInv, Fresh
  <2>2. QED
    BY <2>1 DEF NoReturn
<1>3. ASSUME NEW h \in Par, Goroutine(h) PROVE FALSE
  BY <1>3 DEF Goroutine, ParReturns, KeepEvidence, CheckStopped, NoteFirstErr,
              ReturnErr, AppendReport, RecordDecision, AtGoroutine
<1>4. CASE Environment
  BY <1>4 DEF Environment, CancelContext, PropagateCancellation
<1>5. CASE UNCHANGED vars
  BY <1>5 DEF vars, StrongestOutcomeWins
<1>6. QED
  BY <1>1, <1>2, <1>3, <1>4, <1>5 DEF Next, Finished

(* Whatever the schedule, the decision Run leaves behind is at least as    *)
(* strong as every report a parallel check completed.                      *)
THEOREM StrongestOutcomeAlwaysWins == Spec => []StrongestOutcomeWins
<1>1. Init => StrongestOutcomeWins
  BY DEF Init, StrongestOutcomeWins
<1>2. TypeInv /\ PhaseInv /\ StrongestOutcomeWins /\ [Next]_vars => StrongestOutcomeWins'
  BY StrongestOutcomeStep
<1>3. QED
  BY <1>1, <1>2, PhaseInvariant, PTL DEF Spec
-----------------------------------------------------------------------------
(* The chain stops at a decision.                                          *)

LEMMA HarmlessReport ==
    ASSUME NEW rep \in Report, ~ShouldShortCircuitValidator(rep)
    PROVE  LET nr == NormalizeReport(rep)
           IN  IsObservation(nr) \/ ReportPriority(nr) <= 2
<1> DEFINE nr == NormalizeReport(rep)
<1>1. /\ EffectiveDisposition(nr) = EffectiveDisposition(rep)
      /\ IsObservation(nr) = IsObservation(rep)
  BY NormalizeKeepsClass
<1> HIDE DEF nr
<1>2. IsObservation(rep)
          \/ EffectiveDisposition(nr)
                \notin {"retryable_correction", "terminal_deny", "system_fault"}
  BY DEF ShouldShortCircuitValidator, IsRetryableCorrection, IsTerminalDeny, IsSystemFault, nr
<1>3. CASE IsObservation(rep)
  BY <1>1, <1>3 DEF nr
<1>4. CASE ~IsObservation(rep)
  BY <1>2, <1>4
     DEF ReportPriority, IsRetryableCorrection, IsTerminalDeny, IsSystemFault, nr
<1>5. QED
  BY <1>3, <1>4

\* Nothing has reported before the run has started.
Unstarted == pc = "enter" => reports = <<>>

LEMMA ChainStopsStep ==
    ASSUME TypeInv, ChainStopsAtDecision, Unstarted, [Next]_vars
    PROVE  ChainStopsAtDecision' /\ Unstarted'
<1> USE DEF config, chain, shared
<1>1. ASSUME \E out \in Values, rep \in Optional(ValidatorReports),
                cause \in Optional(ValidatorCauses) : ChainReturns(out, rep, cause)
      PROVE  ChainStopsAtDecision'
  <2>1. PICK out \in Values, rep \in Optional(ValidatorReports),
             cause \in Optional(ValidatorCauses) : ChainReturns(out, rep, cause)
    BY <1>1
  <2>2. CASE pc' = "done"
    BY <2>2 DEF ChainStopsAtDecision
  <2>3. CASE pc' # "done"
    <3>1. /\ pc = "call"
          /\ reports' = reports \o NormalizeAll(rep)
          /\ rep = <<>> \/ ~ShouldShortCircuitValidator(rep[1])
      BY <2>1, <2>3 DEF ChainReturns, ChainFailure, ChainSuccess, Return
    <3>2. rep \in Seq(Report) /\ Len(rep) <= 1
      BY OptionalIsSeq, ReportsAssumption DEF AtMostOne
    <3> DEFINE more == NormalizeAll(rep)
    <3>3. /\ more \in Seq(Report) /\ Len(more) = Len(rep)
          /\ \A j \in 1..Len(rep) : more[j] = NormalizeReport(rep[j])
      BY <3>2, NormalizeAllType
    <3>4. reports \in Seq(Report)
      BY DEF TypeInv, TypeOK
    <3>5. ASSUME NEW j \in 1..Len(more)
          PROVE  IsObservation(more[j]) \/ ReportPriority(more[j]) <= 2
      <4>1. j = 1 /\ rep # <<>> /\ rep[1] \in Report
        BY <3>2, <3>3, <3>5
      <4>2. more[j] = NormalizeReport(rep[1])
        BY <3>3, <4>1
      <4>3. QED
        BY <3>1, <4>1, <4>2, HarmlessReport
    <3> HIDE DEF more
    <3>6. ASSUME NEW k \in DOMAIN reports'
          PROVE  IsObservation(reports'[k]) \/ ReportPriority(reports'[k]) <= 2
      <4>1. \/ k \in DOMAIN reports /\ reports'[k] = reports[k]
            \/ \E j \in 1..Len(more) : reports'[k] = more[j]
        <5>1. reports' = reports \o more
          BY <3>1 DEF more
        <5>2. k \in 1..(Len(reports) + Len(more))
          BY <3>3, <3>4, <3>6, <5>1
        <5>3. CASE k <= Len(reports)
          BY <3>3, <3>4, <5>1, <5>2, <5>3
        <5>4. CASE k > Len(reports)
          <6>1. k - Len(reports) \in 1..Len(more)
            BY <3>3, <3>4, <5>2, <5>4
          <6>2. reports'[k] = more[k - Len(reports)]
            BY <3>3, <3>4, <5>1, <5>2, <5>4
          <6>3. QED
            BY <6>1, <6>2
        <5>5. QED
          BY <3>4, <5>2, <5>3, <5>4
      <4>2. QED
        BY <3>1, <3>5, <4>1 DEF ChainStopsAtDecision
    <3>7. QED
      BY <3>6 DEF ChainStopsAtDecision
  <2>4. QED
    BY <2>2, <2>3
<1>2. ASSUME reports' = reports,
             pc' \in {"check", "call", "parallel"} =>
                pc \in {"check", "call", "parallel"} \/ reports = <<>>
      PROVE  ChainStopsAtDecision'
  BY <1>2 DEF ChainStopsAtDecision
<1>3. ASSUME CheckBefore \/ ChainDone \/ Join \/ UNCHANGED vars \/ Environment \/ Finished
      PROVE  ChainStopsAtDecision'
  BY <1>2, <1>3 DEF CheckBefore, ChainDone, Join, Return, vars, Environment, Finished,
                    CancelContext, PropagateCancellation
<1>4. ASSUME CheckScope PROVE ChainStopsAtDecision'
  BY <1>2, <1>4 DEF CheckScope, Return, Unstarted
<1>5. ASSUME NEW g \in Par, Goroutine(g) PROVE ChainStopsAtDecision'
  BY <1>2, <1>5 DEF Goroutine, ParReturns, KeepEvidence, CheckStopped, NoteFirstErr,
              ReturnErr, AppendReport, RecordDecision, AtGoroutine
<1>6. Unstarted'
  BY DEF Unstarted, Next, Chain, CheckScope, CheckBefore, ChainReturns, ChainFailure,
         ChainSuccess, ChainDone, Join, Return, Goroutine, ParReturns, KeepEvidence,
         CheckStopped, NoteFirstErr, ReturnErr, AppendReport, RecordDecision, AtGoroutine,
         Environment, CancelContext, PropagateCancellation, Finished, vars
<1>7. QED
  BY <1>1, <1>3, <1>4, <1>5, <1>6 DEF Next, Chain

(* No validator of the chain, and no parallel phase, runs after a report   *)
(* that enforces (pipeline.go, the short circuit of the loops).            *)
THEOREM ChainAlwaysStops == Spec => []ChainStopsAtDecision
<1>1. Init => ChainStopsAtDecision /\ Unstarted
  BY DEF Init, ChainStopsAtDecision, Unstarted
<1>2. QED
  BY <1>1, ChainStopsStep, TypeInvariant, PTL DEF Spec

-----------------------------------------------------------------------------
(* Cancelling the siblings of a decision is no failure.                    *)

\* A check failed for a reason of its own.
OwnFailure(g) == \E i \in DOMAIN ret[g].err : ret[g].err[i].own

\* What makes a fault legitimate ...
Excused == ctxErr # "none" \/ \E g \in Par : OwnFailure(g)

\* ... and what may have cancelled the phase.
Cancelled == ctxErr # "none" \/ block \/ groupErr # <<>>

\* A check that was only cancelled is recognised as such.
MerelyCancelled(g) ==
    /\ CancellationOnly(ret[g].err)
    /\ IsCanceled(ret[g].err) \/ ctxErr # "none"
    /\ Cancelled

GoroutineInv(g) ==
    /\ gpc[g] = "call" => ret[g] = NoReturn
    /\ gpc[g] \in {"evidence", "stopped", "note", "fail"} => ret[g].err # <<>>
    /\ gpc[g] \in {"evidence", "stopped"} => OwnFailure(g) \/ MerelyCancelled(g)
    /\ gpc[g] \in {"note", "fail"} => Excused

CancelInv ==
    /\ pc \in {"enter", "check", "call"} => \A g \in Par : gpc[g] = "call"
    /\ gctxErr # "none" => Cancelled
    /\ gctxErr = "deadline" => ctxErr # "none"
    /\ firstErr # <<>> \/ groupErr # <<>> => Excused
    /\ \A g \in Par : GoroutineInv(g)

LEMMA CancelInit == Init => CancelInv
<1>1. SUFFICES ASSUME Init PROVE CancelInv
  OBVIOUS
<1>2. \A g \in Par : gpc[g] = "call" /\ ret[g] = NoReturn
  BY <1>1 DEF Init
<1>3. \A g \in Par : GoroutineInv(g)
  BY <1>2 DEF GoroutineInv
<1>4. QED
  BY <1>1, <1>3 DEF Init, CancelInv

(* What has been noted stays true, for the goroutines a step leaves alone  *)
(* and for the shared variables.                                           *)
LEMMA StaysExcused ==
    ASSUME ctxErr # "none" => ctxErr' # "none",
           \A h \in Par : ret'[h] = ret[h] \/ ~OwnFailure(h)
    PROVE  Excused => Excused'
<1>1. ASSUME NEW h \in Par, OwnFailure(h) PROVE OwnFailure(h)'
  BY <1>1 DEF OwnFailure
<1>2. QED
  BY <1>1 DEF Excused

LEMMA StaysPut ==
    ASSUME ctxErr # "none" => ctxErr' # "none", Excused => Excused', Cancelled => Cancelled',
           NEW h, gpc'[h] = gpc[h], ret'[h] = ret[h], GoroutineInv(h)
    PROVE  GoroutineInv(h)'
BY DEF GoroutineInv, OwnFailure, MerelyCancelled, CancellationOnly, IsCanceled

LEMMA CancelOutside ==
    ASSUME TypeInv, CancelInv, Chain \/ Environment \/ UNCHANGED vars
    PROVE  CancelInv'
<1> USE DEF config, chain, shared
<1>1. UNCHANGED <<gpc, ret, firstErr, groupErr, block>>
  BY DEF Chain, CheckScope, CheckBefore, ChainReturns, ChainDone, Join,
         Environment, CancelContext, PropagateCancellation, vars
<1>2. ctxErr # "none" => ctxErr' = ctxErr
  BY DEF Chain, CheckScope, CheckBefore, ChainReturns, ChainDone, Join,
         Environment, CancelContext, PropagateCancellation, vars
<1>3. gctxErr' = gctxErr \/ (gctxErr' = ctxErr /\ ctxErr' = ctxErr)
  BY DEF Chain, CheckScope, CheckBefore, ChainReturns, ChainDone, Join,
         Environment, CancelContext, PropagateCancellation, vars
<1>4. (Excused => Excused') /\ (Cancelled => Cancelled')
  BY <1>1, <1>2 DEF Excused, Cancelled, OwnFailure
<1>5. \A g \in Par : GoroutineInv(g)'
  BY <1>1, <1>2, <1>4, StaysPut DEF CancelInv
<1>6. (gctxErr # "none" => Cancelled)' /\ (gctxErr = "deadline" => ctxErr # "none")'
  BY <1>2, <1>3, <1>4 DEF CancelInv, Cancelled
<1>7. pc' \in {"enter", "check", "call"} => pc \in {"enter", "check", "call"}
  BY DEF Chain, CheckScope, CheckBefore, ChainReturns, ChainFailure, ChainSuccess,
         ChainDone, Join, Return, Environment, CancelContext, PropagateCancellation, vars
<1>8. QED
  BY <1>1, <1>4, <1>5, <1>6, <1>7 DEF CancelInv

(* A step of goroutine g that leaves what was returned and the caller's    *)
(* context alone, and after which g itself is in order.                    *)
LEMMA OthersKept ==
    ASSUME TypeInv, CancelInv, NEW g \in Par, NEW to, pc = "parallel", pc' = pc,
           gpc' = [gpc EXCEPT ![g] = to], ret' = ret, ctxErr' = ctxErr,
           Cancelled => Cancelled', GoroutineInv(g)'
    PROVE  /\ Excused => Excused'
           /\ \A h \in Par : GoroutineInv(h)'
<1>1. \A h \in Par \ {g} : ret'[h] = ret[h] /\ gpc'[h] = gpc[h]
  BY DEF TypeInv, TypeOK
<1>2. Excused => Excused'
  BY StaysExcused
<1>3. \A h \in Par : GoroutineInv(h)'
  BY <1>1, <1>2, StaysPut DEF CancelInv
<1>4. QED
  BY <1>2, <1>3

LEMMA ReturnsCancelled ==
    ASSUME TypeInv, CancelInv, NEW g \in Par, NEW rep \in Optional(ValidatorReports),
           NEW cause \in Optional(ValidatorCauses), ParReturns(g, rep, cause)
    PROVE  CancelInv'
<1> USE DEF config, chain, shared
<1> DEFINE err == cause \o ContextError(gctxErr)
           r == IF err = <<>> /\ ForbiddenRedaction(rep)
                THEN [rep |-> <<>>, err |-> <<PlainCause>>]
                ELSE [rep |-> IF err = <<>> THEN rep ELSE <<>>, err |-> err]
           to == AfterReturn(rep, err)
<1>1. /\ gpc \in [Par -> GoroutinePCs]
      /\ ret \in [Par -> Returns]
      /\ gctxErr \in CtxErrors
  BY DEF TypeInv, TypeOK
<1>2. /\ gpc[g] = "call" /\ ret' = [ret EXCEPT ![g] = r] /\ gpc' = [gpc EXCEPT ![g] = to]
      /\ UNCHANGED <<ctxErr, gctxErr, block, firstErr, groupErr>>
      /\ pc = "parallel" /\ pc' = pc
  BY DEF ParReturns, AtGoroutine
<1>3. cause \in Seq(Cause) /\ ContextError(gctxErr) \in Seq(Cause) /\ err \in Seq(Cause)
  <2>1. cause \in Seq(Cause)
    BY OptionalIsSeq, CausesAssumption
  <2>2. ContextError(gctxErr) \in Seq(Cause)
    BY <1>1, ContextErrorType
  <2>3. QED
    BY <2>1, <2>2
<1>4. ret'[g] = r /\ gpc'[g] = to
      /\ \A h \in Par \ {g} : ret'[h] = ret[h] /\ gpc'[h] = gpc[h]
  BY <1>1, <1>2
<1>5. ASSUME err = <<>> PROVE GoroutineInv(g)'
  <2>1. ~ForbiddenRedaction(rep) => r.err = <<>> /\ to \in {"append", "done"}
    BY <1>5 DEF AfterReturn
  <2>2. ForbiddenRedaction(rep) => r.err = <<PlainCause>> /\ to = "note"
    BY <1>5 DEF AfterReturn
  <2> HIDE DEF r, to, err
  <2>3. ForbiddenRedaction(rep) => OwnFailure(g)'
    BY <1>4, <2>2 DEF OwnFailure, PlainCause
  <2>4. QED
    BY <1>4, <2>1, <2>2, <2>3 DEF GoroutineInv, Excused
<1>6. ASSUME err # <<>> PROVE GoroutineInv(g)'
  <2>1. r.err = err /\ to = "evidence"
    BY <1>6 DEF AfterReturn
  <2>2. ASSUME cause # <<>> PROVE OwnFailure(g)'
    <3>1. cause[1].own /\ err[1] = cause[1] /\ 1 \in DOMAIN err
      <4>1. PICK c \in ValidatorCauses : cause = <<c>>
        BY <2>2 DEF Optional
      <4>2. c \in Cause /\ c.own
        BY CausesAssumption
      <4>3. QED
        BY <1>3, <4>1, <4>2
    <3> HIDE DEF r, err
    <3>2. QED
      BY <1>4, <2>1, <3>1 DEF OwnFailure
  <2>3. ASSUME cause = <<>> PROVE MerelyCancelled(g)'
    <3>1. err = <<CauseOfContext(gctxErr)>> /\ gctxErr # "none"
      BY <1>3, <1>6, <2>3 DEF ContextError
    <3>2. gctxErr = "canceled" \/ ctxErr # "none"
      BY <1>1, <3>1 DEF CtxErrors, CancelInv
    <3>3. Cancelled' /\ ctxErr' = ctxErr
      BY <1>2, <3>1 DEF CancelInv, Cancelled
    <3> HIDE DEF r, err
    <3>4. ret'[g].err = <<CauseOfContext(gctxErr)>>
      BY <1>4, <2>1, <3>1
    <3> DEFINE c == CauseOfContext(gctxErr)
    <3>5. c.only /\ (gctxErr = "canceled" => c.canceled)
      BY DEF CauseOfContext
    <3> HIDE DEF c
    <3>6. CancellationOnly(<<c>>) /\ (gctxErr = "canceled" => IsCanceled(<<c>>))
      BY <3>5 DEF CancellationOnly, IsCanceled
    <3>7. QED
      BY <3>2, <3>3, <3>4, <3>6 DEF MerelyCancelled, c
  <2> HIDE DEF r, err, to
  <2>4. QED
    BY <1>4, <1>6, <2>1, <2>2, <2>3 DEF GoroutineInv
<1>7. ~OwnFailure(g)
  BY <1>2 DEF CancelInv, GoroutineInv, NoReturn, OwnFailure
<1> HIDE DEF r, err, to
<1>8. (Excused => Excused') /\ (Cancelled => Cancelled')
  BY <1>2, <1>4, <1>7, StaysExcused DEF Cancelled
<1>9. \A h \in Par : GoroutineInv(h)'
  BY <1>2, <1>4, <1>5, <1>6, <1>8, StaysPut DEF CancelInv
<1>10. QED
  BY <1>2, <1>8, <1>9 DEF CancelInv

LEMMA GoroutineCancelled ==
    ASSUME TypeInv, CancelInv, NEW g \in Par, Goroutine(g)
    PROVE  CancelInv'
<1> USE DEF config, chain, shared
<1>1. gpc \in [Par -> GoroutinePCs] /\ ctxErr \in CtxErrors /\ GoroutineInv(g)
  BY DEF TypeInv, TypeOK, CancelInv
<1>2. pc = "parallel" /\ pc' = pc
  BY DEF Goroutine, ParReturns, KeepEvidence, CheckStopped, NoteFirstErr,
         ReturnErr, AppendReport, RecordDecision, AtGoroutine
<1>3. ASSUME NEW to, AtGoroutine(g, "evidence", to) \/ AtGoroutine(g, "stopped", to)
                     \/ AtGoroutine(g, "append", to) \/ AtGoroutine(g, "decide", to),
             to \in {"done", "decide", "stopped", "note"},
             UNCHANGED <<ret, ctxErr, firstErr, groupErr>>,
             Cancelled => Cancelled', gctxErr' = gctxErr \/ (gctxErr' = "canceled" /\ Cancelled'),
             to = "stopped" => gpc[g] = "evidence",
             to = "note" => Excused /\ gpc[g] \in {"evidence", "stopped"}
      PROVE  CancelInv'
  <2>1. gpc' = [gpc EXCEPT ![g] = to] /\ gpc'[g] = to
    BY <1>1, <1>3 DEF AtGoroutine
  <2>2. Excused => Excused'
    BY <1>3, StaysExcused
  <2>3. OwnFailure(g) \/ MerelyCancelled(g) => OwnFailure(g)' \/ MerelyCancelled(g)'
    BY <1>3 DEF OwnFailure, MerelyCancelled, CancellationOnly, IsCanceled
  <2>4. GoroutineInv(g)'
    BY <1>1, <1>3, <2>1, <2>2, <2>3 DEF GoroutineInv
  <2>5. \A h \in Par : GoroutineInv(h)'
    BY <1>2, <1>3, <2>1, <2>4, OthersKept
  <2>6. QED
    BY <1>2, <1>3, <2>2, <2>5 DEF CancelInv
<1>4. CASE KeepEvidence(g)
  <2> DEFINE to == IF /\ IsCanceled(ret[g].err)
                      /\ CancellationOnly(ret[g].err)
                      /\ ctxErr = "none"
                   THEN "stopped" ELSE "note"
  <2>1. /\ AtGoroutine(g, "evidence", to)
        /\ UNCHANGED <<ret, ctxErr, gctxErr, block, firstErr, groupErr>>
    BY <1>4 DEF KeepEvidence
  <2>2. gpc[g] = "evidence"
    BY <2>1 DEF AtGoroutine
  <2>3. to = "note" => Excused
    BY <1>1, <2>2 DEF GoroutineInv, MerelyCancelled, Excused
  <2>4. Cancelled => Cancelled'
    BY <2>1 DEF Cancelled
  <2>5. to \in {"stopped", "note"}
    OBVIOUS
  <2> HIDE DEF to
  <2>6. QED
    BY <1>3, <2>1, <2>2, <2>3, <2>4, <2>5
<1>5. CASE CheckStopped(g)
  <2> DEFINE to == IF block \/ retry THEN "done" ELSE "note"
  <2>1. /\ AtGoroutine(g, "stopped", to)
        /\ UNCHANGED <<ret, ctxErr, gctxErr, block, firstErr, groupErr>>
    BY <1>5 DEF CheckStopped
  <2>2. gpc[g] = "stopped"
    BY <2>1 DEF AtGoroutine
  <2>3. to = "note" => Excused
    BY <1>1, <2>2 DEF GoroutineInv, MerelyCancelled, Cancelled, Excused, CancelInv
  <2>4. Cancelled => Cancelled'
    BY <2>1 DEF Cancelled
  <2>5. to \in {"done", "note"}
    OBVIOUS
  <2> HIDE DEF to
  <2>6. QED
    BY <1>3, <2>1, <2>2, <2>3, <2>4, <2>5
<1>6. CASE NoteFirstErr(g)
  <2>1. /\ AtGoroutine(g, "note", "fail") /\ gpc[g] = "note"
        /\ UNCHANGED <<ret, ctxErr, gctxErr, block, groupErr>>
    BY <1>6 DEF NoteFirstErr, AtGoroutine
  <2>2. gpc' = [gpc EXCEPT ![g] = "fail"] /\ gpc'[g] = "fail"
    BY <1>1, <2>1 DEF AtGoroutine
  <2>3. Excused /\ (Excused => Excused') /\ (Cancelled => Cancelled')
    BY <1>1, <2>1, StaysExcused DEF GoroutineInv, Cancelled
  <2>4. GoroutineInv(g)'
    BY <1>1, <2>1, <2>2, <2>3 DEF GoroutineInv
  <2>5. \A h \in Par : GoroutineInv(h)'
    BY <1>2, <2>1, <2>2, <2>3, <2>4, OthersKept
  <2>6. QED
    BY <1>2, <2>1, <2>3, <2>5 DEF CancelInv
<1>7. CASE ReturnErr(g)
  <2>1. /\ AtGoroutine(g, "fail", "done") /\ gpc[g] = "fail"
        /\ UNCHANGED <<ret, ctxErr, block, firstErr>>
    BY <1>7 DEF ReturnErr, AtGoroutine
  <2>2. gpc' = [gpc EXCEPT ![g] = "done"] /\ gpc'[g] = "done"
    BY <1>1, <2>1 DEF AtGoroutine
  <2>3. /\ groupErr' # <<>>
        /\ gctxErr' = gctxErr \/ gctxErr' = "canceled"
    BY <1>1, <1>7, <2>1 DEF ReturnErr, GoroutineInv
  <2>4. Excused /\ (Excused => Excused') /\ Cancelled'
    BY <1>1, <2>1, <2>3, StaysExcused DEF GoroutineInv, Cancelled
  <2>5. GoroutineInv(g)'
    BY <2>2 DEF GoroutineInv
  <2>6. \A h \in Par : GoroutineInv(h)'
    BY <1>2, <2>1, <2>2, <2>4, <2>5, OthersKept
  <2>7. QED
    BY <1>2, <2>1, <2>3, <2>4, <2>6 DEF CancelInv
<1>8. CASE AppendReport(g)
  <2> DEFINE to == IF ShouldShortCircuitValidator(ret[g].rep[1]) THEN "decide" ELSE "done"
  <2>1. /\ AtGoroutine(g, "append", to)
        /\ UNCHANGED <<ret, ctxErr, gctxErr, block, firstErr, groupErr>>
    BY <1>8 DEF AppendReport
  <2>2. (Cancelled => Cancelled') /\ to \in {"decide", "done"}
    BY <2>1 DEF Cancelled
  <2> HIDE DEF to
  <2>3. QED
    BY <1>3, <2>1, <2>2
<1>9. CASE RecordDecision(g)
  <2>1. /\ AtGoroutine(g, "decide", "done")
        /\ UNCHANGED <<ret, ctxErr, firstErr, groupErr>>
    BY <1>9 DEF RecordDecision
  <2>2. \/ block' = block /\ gctxErr' = gctxErr
        \/ block' = TRUE /\ (gctxErr' = gctxErr \/ gctxErr' = "canceled")
    BY <1>9 DEF RecordDecision
  <2>3. /\ Cancelled => Cancelled'
        /\ gctxErr' = gctxErr \/ (gctxErr' = "canceled" /\ Cancelled')
    BY <2>1, <2>2 DEF Cancelled
  <2>4. QED
    BY <1>3, <2>1, <2>3
<1>10. QED
  BY <1>4, <1>5, <1>6, <1>7, <1>8, <1>9, ReturnsCancelled DEF Goroutine

LEMMA CancelInvariant == Spec => [](TypeInv /\ CancelInv)
<1>1. TypeInv /\ CancelInv /\ [Next]_vars => CancelInv'
  BY CancelOutside, GoroutineCancelled DEF Next, Finished
<1>2. QED
  BY <1>1, CancelInit, TypeInvariant, PTL DEF Spec

LEMMA SiblingStep ==
    ASSUME TypeInv, CancelInv, SiblingCancellationBenign, [Next]_vars
    PROVE  SiblingCancellationBenign'
<1> USE DEF config, chain, shared
<1>1. CASE Join
  <2> DEFINE all == reports \o slowReps
             err == IF groupErr # <<>> THEN groupErr
                    ELSE IF firstErr # <<>> THEN firstErr ELSE ContextError(ctxErr)
  <2>1. ret' = ret /\ ctxErr' = ctxErr
    BY <1>1 DEF Join
  <2>2. all \in Seq(Report) /\ current \in Values
    BY DEF TypeInv, TypeOK
  <2>3. result' = IF err = <<>> THEN FinalizeResult(current, all)
                  ELSE ValidatorFaultResult(current, all, err)
    BY <1>1 DEF Join, Return
  <2>4. ~Excused => err = <<>>
    BY DEF CancelInv, Excused, ContextError
  <2>5. Excused \/ ~result'.fault
    <3> HIDE DEF all, err
    <3>1. QED
      BY <2>2, <2>3, <2>4, FinalizeType
  <2>6. QED
    BY <2>1, <2>5 DEF SiblingCancellationBenign, Excused, OwnFailure
<1>2. CASE Chain /\ ~Join
  <2>1. pc' = "done" => \A g \in Par : gpc'[g] = "call"
    BY <1>2, ReturnBeforePhase DEF CancelInv
  <2>2. QED
    BY <2>1 DEF SiblingCancellationBenign
<1>3. ASSUME NEW g \in Par, Goroutine(g) PROVE pc' # "done"
  BY <1>3 DEF Goroutine, ParReturns, KeepEvidence, CheckStopped, NoteFirstErr,
              ReturnErr, AppendReport, RecordDecision, AtGoroutine
<1>4. CASE Environment
  BY <1>4 DEF Environment, CancelContext, PropagateCancellation, SiblingCancellationBenign
<1>5. CASE UNCHANGED vars
  BY <1>5 DEF vars, SiblingCancellationBenign
<1>6. QED
  BY <1>1, <1>2, <1>3, <1>4, <1>5 DEF Next, Finished, SiblingCancellationBenign

(* When no check failed for a reason of its own and the caller's context   *)
(* is live, Run returns the policy decision, whichever siblings its deny   *)
(* cancelled (pipeline.go, the goroutines of the parallel phase).          *)
THEOREM SiblingCancellationAlwaysBenign == Spec => []SiblingCancellationBenign
<1>1. Init => SiblingCancellationBenign
  BY DEF Init, SiblingCancellationBenign
<1>2. TypeInv /\ CancelInv /\ SiblingCancellationBenign /\ [Next]_vars
        => SiblingCancellationBenign'
  BY SiblingStep
<1>3. QED
  BY <1>1, <1>2, CancelInvariant, PTL DEF Spec

-----------------------------------------------------------------------------
(* Where the value comes from.                                             *)

LEMMA HarmlessClass ==
    ASSUME NEW rep \in Report, ~IsTerminalDeny(rep), ~IsSystemFault(rep)
    PROVE  ErrorFromDecision(rep) \in {"nil", "retry"}
<1>1. CASE IsRetryableCorrection(rep)
  BY <1>1 DEF ErrorFromDecision
<1>2. CASE ~IsRetryableCorrection(rep)
  <2>1. EffectiveDisposition(rep) = "none"
    BY <1>2, DispositionType
       DEF Dispositions, IsTerminalDeny, IsSystemFault, IsRetryableCorrection
  <2>2. rep.action \in {"pass", "redact"}
    BY <2>1 DEF EffectiveDisposition, DeriveDisposition, Malformed, Actions
  <2>3. QED
    BY <1>2, <2>1, <2>2 DEF ErrorFromDecision, IsTerminalDeny
<1>3. QED
  BY <1>1, <1>2

LEMMA FinalizeChecked ==
    ASSUME NEW out \in Values, NEW reps \in Seq(Report)
    PROVE  LET r == FinalizeResult(out, reps)
           IN  /\ r.output \in {out, Zero}
               /\ userChannel /\ r.output # Zero =>
                     /\ r.kind = "safe"
                     /\ ErrorFromDecision(Decision(r.reports)) \in {"nil", "retry"}
<1> DEFINE kind   == AggregatePayloadKind(reps)
           unsafe == userChannel /\ kind # "safe"
           all    == IF unsafe THEN Append(reps, UserChannelBlock(kind)) ELSE reps
           denied == userChannel /\ \/ IsTerminalDeny(Decision(all))
                                    \/ IsSystemFault(Decision(all))
           o == IF unsafe \/ denied THEN Zero ELSE out
           r == FinalizeResult(out, reps)
<1>1. r.output = o /\ r.reports = all /\ r.kind = AggregatePayloadKind(all)
  <2>1. r = [NoResult EXCEPT !.output = o, !.reports = all,
                             !.kind = AggregatePayloadKind(all)]
    BY DEF FinalizeResult
  <2> HIDE DEF o, all, r
  <2>2. QED
    BY <2>1 DEF NoResult
<1>2. o \in {out, Zero}
  OBVIOUS
<1>3. ASSUME userChannel, o # Zero
      PROVE  all = reps /\ kind = "safe" /\ ErrorFromDecision(Decision(all)) \in {"nil", "retry"}
  <2>1. ~unsafe /\ ~denied
    BY <1>3
  <2>2. all = reps /\ kind = "safe"
    BY <1>3, <2>1
  <2>3. ~IsTerminalDeny(Decision(all)) /\ ~IsSystemFault(Decision(all))
    BY <1>3, <2>1
  <2> HIDE DEF all
  <2>4. QED
    BY <2>2, <2>3, DecisionType, HarmlessClass
<1>4. QED
  <2> HIDE DEF o, all, r
  <2>1. userChannel /\ r.output # Zero =>
           /\ r.kind = "safe"
           /\ ErrorFromDecision(Decision(r.reports)) \in {"nil", "retry"}
    BY <1>1, <1>3
  <2>2. r.output \in {out, Zero}
    BY <1>1, <1>2
  <2>3. QED
    BY <2>1, <2>2 DEF r

\* A result that may be returned with the given value as the current one.
ChecksOut(r, value, through) ==
    /\ r.fault => r.output = value
    /\ through => r.output \in {value, Zero}
    /\ userChannel /\ ~r.fault /\ r.output # Zero =>
          /\ r.kind = "safe"
          /\ ErrorFromDecision(Decision(r.reports)) \in {"nil", "retry"}

LEMMA FinalizeChecksOut ==
    ASSUME NEW out \in Values, NEW reps \in Seq(Report), NEW value, NEW through,
           through => out = value
    PROVE  ChecksOut(FinalizeResult(out, reps), value, through)
<1> DEFINE r == FinalizeResult(out, reps)
<1>1. ~r.fault
  BY FinalizeType
<1>2. /\ r.output \in {out, Zero}
      /\ userChannel /\ r.output # Zero =>
            /\ r.kind = "safe"
            /\ ErrorFromDecision(Decision(r.reports)) \in {"nil", "retry"}
  BY FinalizeChecked
<1> HIDE DEF r
<1>3. QED
  BY <1>1, <1>2 DEF ChecksOut, r

LEMMA FaultChecksOut ==
    ASSUME NEW out \in Values, NEW reps \in Seq(Report), NEW err \in Seq(Cause),
           NEW through
    PROVE  ChecksOut(ValidatorFaultResult(out, reps, err), out, through)
<1> DEFINE r == ValidatorFaultResult(out, reps, err)
<1>1. r.fault /\ r.output = out
  BY ValidatorFaultType
<1> HIDE DEF r
<1>2. QED
  BY <1>1 DEF ChecksOut, r

LEMMA ProvenanceStep ==
    ASSUME TypeInv, OutputProvenance, [Next]_vars
    PROVE  OutputProvenance'
<1> USE DEF config, chain, shared
<1>0. /\ ContextError(ctxErr) \in Seq(Cause)
      /\ <<PlainCause>> \in Seq(Cause) /\ <<>> \in Seq(Report)
      /\ reports \in Seq(Report) /\ slowReps \in Seq(Report) /\ current \in Values
      /\ groupErr \in Seq(Cause) /\ firstErr \in Seq(Cause)
      /\ next \in Nat /\ ChainLen \in Nat
  BY ContextErrorType, PlainCauseType, ChainLenAssumption DEF TypeInv, TypeOK
<1>1. ASSUME pc' = "done", UNCHANGED <<userChannel, next, current>>,
             ChecksOut(result', current, next > ChainLen)
      PROVE  OutputProvenance'
  BY <1>1 DEF OutputProvenance, ChecksOut
<1>2. CASE CheckScope
  <2>1. pc' = "done" => result' = ValidatorFaultResult(current, <<>>, <<PlainCause>>)
    BY <1>2 DEF CheckScope, Return
  <2>2. UNCHANGED <<userChannel, next, current>>
    BY <1>2 DEF CheckScope
  <2>3. CASE pc' = "done"
    BY <1>0, <1>1, <2>1, <2>2, <2>3, FaultChecksOut
  <2>4. QED
    BY <2>3 DEF OutputProvenance
<1>3. CASE CheckBefore
  <2>1. pc' = "done" =>
          result' = ValidatorFaultResult(current, reports, ContextError(ctxErr))
    BY <1>3 DEF CheckBefore, Return
  <2>2. UNCHANGED <<userChannel, next, current>>
    BY <1>3 DEF CheckBefore
  <2>3. CASE pc' = "done"
    BY <1>0, <1>1, <2>1, <2>2, <2>3, FaultChecksOut
  <2>4. QED
    BY <2>3 DEF OutputProvenance
<1>4. ASSUME NEW out \in Values, NEW rep \in Optional(ValidatorReports),
             NEW cause \in Optional(ValidatorCauses), ChainReturns(out, rep, cause)
      PROVE  OutputProvenance'
  <2> DEFINE err  == cause \o ContextError(ctxErr)
             reps == reports \o NormalizeAll(rep)
             seen == AppendCompletedObservations(reports, err)
  <2>1. cause \in Seq(Cause) /\ rep \in Seq(Report)
    BY OptionalIsSeq, CausesAssumption, ReportsAssumption
  <2>2. err \in Seq(Cause)
    BY <1>0, <2>1
  <2>3. reps \in Seq(Report)
    BY <1>0, <2>1, NormalizeAllType
  <2>4. seen \in Seq(Report)
    BY <1>0, <2>2, AppendCompletedType
  <2>5. CASE pc' = "done"
    <3>1. /\ UNCHANGED <<userChannel, next, current>> /\ ~(next > ChainLen)
          /\ \/ result' = ValidatorFaultResult(current, seen, err)
             \/ result' = FinalizeResult(out, reps)
      BY <1>0, <1>4, <2>5
         DEF ChainReturns, ChainFailure, ChainSuccess, Return, TypeInv, CallInRange
    <3> HIDE DEF err, reps, seen
    <3>2. ChecksOut(result', current, next > ChainLen)
      BY <1>0, <2>2, <2>3, <2>4, <3>1, FaultChecksOut, FinalizeChecksOut
    <3>3. QED
      BY <1>1, <2>5, <3>1, <3>2
  <2>6. QED
    BY <2>5 DEF OutputProvenance
<1>5. CASE ChainDone
  <2>1. UNCHANGED <<userChannel, next, current>>
    BY <1>5 DEF ChainDone
  <2>2. CASE pc' = "done"
    <3>1. \/ result' = FinalizeResult(current, reports)
          \/ result' = ValidatorFaultResult(current, reports, ContextError(ctxErr))
      BY <1>5, <2>2 DEF ChainDone, Return
    <3>2. ChecksOut(result', current, next > ChainLen)
      BY <1>0, <3>1, FaultChecksOut, FinalizeChecksOut
    <3>3. QED
      BY <1>1, <2>1, <2>2, <3>2
  <2>3. QED
    BY <2>2 DEF OutputProvenance
<1>6. CASE Join
  <2> DEFINE err == IF groupErr # <<>> THEN groupErr
                    ELSE IF firstErr # <<>> THEN firstErr ELSE ContextError(ctxErr)
             all == reports \o slowReps
  <2>1. err \in Seq(Cause) /\ all \in Seq(Report)
    BY <1>0
  <2>2. /\ UNCHANGED <<userChannel, next, current>> /\ pc' = "done"
        /\ \/ result' = FinalizeResult(current, all)
           \/ result' = ValidatorFaultResult(current, all, err)
    BY <1>6 DEF Join, Return
  <2> HIDE DEF err, all
  <2>3. ChecksOut(result', current, next > ChainLen)
    BY <1>0, <2>1, <2>2, FaultChecksOut, FinalizeChecksOut
  <2>4. QED
    BY <1>1, <2>2, <2>3
<1>7. ASSUME NEW g \in Par, Goroutine(g) PROVE pc' # "done"
  BY <1>7 DEF Goroutine, ParReturns, KeepEvidence, CheckStopped, NoteFirstErr,
              ReturnErr, AppendReport, RecordDecision, AtGoroutine
<1>8. CASE Environment
  BY <1>8 DEF Environment, CancelContext, PropagateCancellation, OutputProvenance
<1>9. CASE UNCHANGED vars
  BY <1>9 DEF vars, OutputProvenance
<1>10. QED
  BY <1>2, <1>3, <1>4, <1>5, <1>6, <1>7, <1>8, <1>9
     DEF Next, Chain, Finished, OutputProvenance

(* A failed callback's value is never handed back, the parallel phase      *)
(* changes none, and on the user channel only a safe value that nothing    *)
(* denied gets through (pipeline.go, finalizeResult).                      *)
THEOREM OutputAlwaysChecked == Spec => []OutputProvenance
<1>1. Init => OutputProvenance
  BY DEF Init, OutputProvenance
<1>2. TypeInv /\ OutputProvenance /\ [Next]_vars => OutputProvenance'
  BY ProvenanceStep
<1>3. QED
  BY <1>1, <1>2, TypeInvariant, PTL DEF Spec

-----------------------------------------------------------------------------
(* Evidence survives.                                                      *)

\* Some report of the slice is at least as strict about the payload.
InForce(kind, s) ==
    \E k \in DOMAIN s : PayloadKindPriority(kind) <= PayloadKindPriority(s[k].kind)

LEMMA KindRange == \A k : PayloadKindPriority(k) \in 0..3
BY DEF PayloadKindPriority

LEMMA InForceGrows ==
    ASSUME NEW s \in Seq(Report), NEW t \in Seq(Report), NEW kind
    PROVE  /\ s \o t \in Seq(Report)
           /\ InForce(kind, s) \/ InForce(kind, t) => InForce(kind, s \o t)
<1>1. /\ s \o t \in Seq(Report)
      /\ \A k \in DOMAIN s : k \in DOMAIN (s \o t) /\ (s \o t)[k] = s[k]
      /\ \A k \in DOMAIN t :
            Len(s) + k \in DOMAIN (s \o t) /\ (s \o t)[Len(s) + k] = t[k]
  OBVIOUS
<1> DEFINE u == s \o t
<1> HIDE DEF u
<1>2. QED
  BY <1>1 DEF InForce, u

LEMMA AggregateInForce ==
    ASSUME NEW s \in Seq(Report), NEW kind, InForce(kind, s)
    PROVE  PayloadKindPriority(kind) <= PayloadKindPriority(AggregatePayloadKind(s))
<1>1. PICK k \in DOMAIN s : PayloadKindPriority(kind) <= PayloadKindPriority(s[k].kind)
  BY DEF InForce
<1>2. PayloadKindPriority(s[k].kind) <= PayloadKindPriority(AggregatePayloadKind(s))
  BY AggregateIsStrictest
<1>3. /\ PayloadKindPriority(kind) \in 0..3
      /\ PayloadKindPriority(s[k].kind) \in 0..3
      /\ PayloadKindPriority(AggregatePayloadKind(s)) \in 0..3
  BY KindRange
<1>4. QED
  BY <1>1, <1>2, <1>3

(* What a failed check completed is kept under one composed report.        *)
LEMMA CompletedKept ==
    ASSUME NEW err \in Seq(Cause), err # <<>>, NEW j \in DOMAIN err[1].completed
    PROVE  InForce(err[1].completed[j].kind, NormalizeAll(CompletedReportFromError(err)))
<1> DEFINE done == CompletedReports(err)
           r    == ComposeReports(done)
           kept == CompletedReportFromError(err)
           kind == err[1].completed[j].kind
<1>1. done \in Seq(Report) /\ done = err[1].completed /\ done # <<>>
  <2>1. err[1] \in Cause
    OBVIOUS
  <2>2. done = err[1].completed
    BY DEF CompletedReports
  <2>3. QED
    BY <2>1, <2>2, CompletedType DEF Cause, AtMostOne
<1>2. InForce(kind, done)
  BY <1>1, KindRange DEF InForce
<1>3. PayloadKindPriority(kind) <= PayloadKindPriority(AggregatePayloadKind(done))
  BY <1>1, <1>2, AggregateInForce
<1>4. r \in Report /\ r.kind = AggregatePayloadKind(done)
  <2>1. r \in Report
    BY <1>1, ComposeType
  <2>2. Decision(NormalizeAll(done)) \in Report
    BY <1>1, NormalizeAllType, DecisionType
  <2>3. QED
    BY <2>1, <2>2 DEF ComposeReports, Report
<1>5. kept = <<r>>
  BY <1>1 DEF CompletedReportFromError
<1> HIDE DEF r, kept, done, kind
<1>6. kept \in Seq(Report) /\ Len(kept) = 1 /\ kept[1] = r
  BY <1>4, <1>5
<1>7. /\ NormalizeAll(kept) \in Seq(Report) /\ Len(NormalizeAll(kept)) = 1
      /\ NormalizeAll(kept)[1] = NormalizeReport(r)
  BY <1>6, NormalizeAllType
<1>8. NormalizeReport(r).kind = r.kind
  BY <1>4, NormalizeKeepsClass
<1>9. 1 \in DOMAIN NormalizeAll(kept)
  BY <1>7
<1>10. PayloadKindPriority(kind) <= PayloadKindPriority(NormalizeAll(kept)[1].kind)
  BY <1>3, <1>4, <1>7, <1>8
<1>11. QED
  BY <1>9, <1>10 DEF InForce, kept, kind

LEMMA ReportKindKept ==
    ASSUME NEW s \in Seq(Report), NEW i \in DOMAIN s
    PROVE  InForce(s[i].kind, NormalizeAll(s))
<1>1. /\ NormalizeAll(s) \in Seq(Report) /\ Len(NormalizeAll(s)) = Len(s)
      /\ NormalizeAll(s)[i] = NormalizeReport(s[i])
  BY NormalizeAllType
<1>2. s[i] \in Report /\ i \in DOMAIN NormalizeAll(s)
  BY <1>1
<1>3. NormalizeAll(s)[i].kind = s[i].kind
  BY <1>1, <1>2, NormalizeKeepsClass
<1>4. QED
  BY <1>2, <1>3, KindRange DEF InForce

(* The report appended for a failure is the one that is selected, so it    *)
(* is its own kind, safe, that the aggregate kind replaces.                *)
LEMMA FaultSelected ==
    ASSUME NEW reps \in Seq(Report)
    PROVE  Decision(Append(reps, ValidatorFaultReport)).kind = "safe"
<1> DEFINE f == ValidatorFaultReport
           s == Append(reps, f)
           n == Len(s)
<1>1. f \in Report /\ f.disposition = "system_fault" /\ f.kind = "safe"
  BY FaultReportType DEF ValidatorFaultReport, BlankReport
<1> HIDE DEF f
<1>2. s \in Seq(Report) /\ n \in DOMAIN s /\ s[n] = f /\ \A j \in DOMAIN s : j <= n
      /\ DOMAIN s = 1..n /\ n \in Nat
  BY <1>1
<1> HIDE DEF s, n
<1>3. EffectiveDisposition(f) = "system_fault"
  BY <1>1 DEF EffectiveDisposition
<1>4. ReportPriority(f) = 7 /\ ~IsObservation(f)
  BY <1>3 DEF ReportPriority, IsSystemFault, IsTerminalDeny, IsRetryableCorrection,
              IsObservation
<1>5. n \in Enforcing(s)
  BY <1>2, <1>4 DEF Enforcing
<1>6. \A j \in Enforcing(s) :
         \/ ReportPriority(s[j]) < ReportPriority(s[n])
         \/ ReportPriority(s[j]) = ReportPriority(s[n]) /\ j <= n
  BY <1>2, <1>4, PriorityRange DEF Enforcing
<1>7. /\ Selected(s) \in Enforcing(s)
      /\ \A j \in Enforcing(s) :
            \/ ReportPriority(s[j]) < ReportPriority(s[Selected(s)])
            \/ ReportPriority(s[j]) = ReportPriority(s[Selected(s)]) /\ j <= Selected(s)
  BY <1>5, <1>6 DEF Selected
<1>8. Selected(s) = n
  <2>1. Selected(s) \in DOMAIN s
    BY <1>7 DEF Enforcing
  <2>2. ReportPriority(s[Selected(s)]) \in 1..7
    BY PriorityRange
  <2>3. n <= Selected(s)
    BY <1>2, <1>4, <1>5, <1>7, <2>2
  <2>4. QED
    BY <1>2, <2>1, <2>3
<1>9. Decision(s) = NormalizeReport(f)
  BY <1>2, <1>5, <1>8 DEF Decision
<1>10. QED
  BY <1>1, <1>9, NormalizeKeepsClass DEF s, f

\* The classification is in force in a result and in all that goes with it.
Survives(kind, r) ==
    LET p == PayloadKindPriority(kind)
    IN  /\ p <= PayloadKindPriority(r.kind)
        /\ r.fault =>
             /\ p <= PayloadKindPriority(r.failure.kind)
             /\ r.evidence # <<>>
             /\ p <= PayloadKindPriority(r.evidence[1].kind)

LEMMA FinalizeKeepsKind ==
    ASSUME NEW out \in Values, NEW reps \in Seq(Report), NEW kind, InForce(kind, reps)
    PROVE  Survives(kind, FinalizeResult(out, reps))
<1> DEFINE r == FinalizeResult(out, reps)
<1>1. ~r.fault /\ (r.reports = reps \/ \E x \in Report : r.reports = Append(reps, x))
  BY FinalizeType
<1>2. r.kind = AggregatePayloadKind(r.reports)
  BY FinalizeHonest DEF KeepsRunPromise
<1> HIDE DEF r
<1>3. r.reports \in Seq(Report) /\ InForce(kind, r.reports)
  <2>1. ASSUME NEW x \in Report
        PROVE  Append(reps, x) \in Seq(Report) /\ InForce(kind, Append(reps, x))
    <3>1. /\ Append(reps, x) \in Seq(Report)
          /\ \A k \in DOMAIN reps :
                k \in DOMAIN Append(reps, x) /\ Append(reps, x)[k] = reps[k]
      OBVIOUS
    <3>2. QED
      BY <3>1 DEF InForce
  <2>2. QED
    BY <1>1, <2>1
<1>4. PayloadKindPriority(kind) <= PayloadKindPriority(r.kind)
  BY <1>2, <1>3, AggregateInForce
<1>5. QED
  BY <1>1, <1>4 DEF Survives, r

LEMMA FaultKeepsKind ==
    ASSUME NEW out \in Values, NEW reps \in Seq(Report), NEW err \in Seq(Cause),
           NEW kind, InForce(kind, reps)
    PROVE  Survives(kind, ValidatorFaultResult(out, reps, err))
<1> DEFINE p   == PayloadKindPriority(kind)
           all == Append(reps, ValidatorFaultReport)
           k   == AggregatePayloadKind(all)
           d   == PolicyDecisionReport(all, k)
           x   == CompletedReportFromError(err)
           seen == reps \o x
           r   == ValidatorFaultResult(out, reps, err)
<1>1. /\ r.kind = k /\ r.failure = PolicyFailureFromReport(d)
      /\ r.evidence = WithCompletedObservations(err, reps)
  BY DEF ValidatorFaultResult
<1> HIDE DEF r
<1>2. all \in Seq(Report) /\ InForce(kind, all)
  <2>1. /\ all \in Seq(Report)
        /\ \A i \in DOMAIN reps : i \in DOMAIN all /\ all[i] = reps[i]
    BY FaultReportType
  <2> HIDE DEF all
  <2>2. QED
    BY <2>1 DEF InForce
<1>3. p <= PayloadKindPriority(k) /\ k \in PayloadKinds
  BY <1>2, AggregateInForce, AggregateIsStrictest
<1>4. d \in Report /\ d.kind = k
  <2>1. Decision(all).kind = "safe" /\ Decision(all) \in Report
    BY <1>2, FaultSelected, DecisionType
  <2> HIDE DEF all, k
  <2>2. QED
    BY <1>3, <2>1 DEF PolicyDecisionReport, WithOutputKind, Report
<1> HIDE DEF d
<1>5. PolicyFailureFromReport(d).kind = k
  <2> DEFINE cp == NormalizeReport(d)
             h  == DecisionFromReport(d)
  <2>1. cp \in Report /\ cp.kind = k
    BY <1>4, NormalizeType, NormalizeKeepsClass
  <2> HIDE DEF k
  <2>2. h.kind = k
    <3> DEFINE o == [cp EXCEPT !.action = "pass", !.disposition = "none"]
    <3>1. h = ToHostDecision(IF IsObservation(cp) THEN o ELSE cp)
      BY DEF DecisionFromReport
    <3> HIDE DEF cp
    <3>2. o.kind = k
      BY <2>1 DEF Report
    <3> HIDE DEF o, h
    <3>3. QED
      BY <2>1, <3>1, <3>2 DEF ToHostDecision
  <2>3. h \in HostDecision
    <3> DEFINE o == [cp EXCEPT !.action = "pass", !.disposition = "none"]
    <3>1. h = ToHostDecision(IF IsObservation(cp) THEN o ELSE cp)
      BY DEF DecisionFromReport
    <3> HIDE DEF cp
    <3>2. o \in Report
      BY <2>1 DEF Report, Actions, Dispositions
    <3> HIDE DEF o, h
    <3>3. QED
      BY <2>1, <3>1, <3>2 DEF ToHostDecision, HostDecision, Report
  <2> HIDE DEF h
  <2>4. PolicyFailureFromReport(d) =
          IF h.disposition = "none" THEN [h EXCEPT !.disposition = "system_fault"] ELSE h
    BY DEF PolicyFailureFromReport, h
  <2>5. QED
    BY <2>2, <2>3, <2>4 DEF HostDecision
<1>6. x \in Seq(Report)
  BY CompletedType DEF AtMostOne
<1>7. seen \in Seq(Report) /\ InForce(kind, seen) /\ seen # <<>>
  <2>1. seen \in Seq(Report) /\ InForce(kind, seen)
    BY <1>6, InForceGrows
  <2>2. reps # <<>>
    BY DEF InForce
  <2> HIDE DEF x
  <2>3. QED
    BY <1>6, <2>1, <2>2
<1>8. WithCompletedObservations(err, reps) = <<ComposeReports(seen)>>
  BY <1>7 DEF WithCompletedObservations
<1>9. ComposeReports(seen).kind = AggregatePayloadKind(seen)
  <2> HIDE DEF seen
  <2>1. Decision(NormalizeAll(seen)) \in Report
    BY <1>7, NormalizeAllType, DecisionType
  <2>2. QED
    BY <2>1 DEF ComposeReports, Report
<1>10. p <= PayloadKindPriority(AggregatePayloadKind(seen))
  BY <1>7, AggregateInForce
<1> HIDE DEF k, seen, p
<1>11. QED
  BY <1>1, <1>3, <1>5, <1>8, <1>9, <1>10 DEF Survives, r, p

\* Only the first cause of an error carries evidence, and a check leaves a
\* report or an error, not both.
Carriers(e) == \A i \in DOMAIN e : i = 1 \/ e[i].completed = <<>>

\* What a check completed is in the slice, unless its goroutine is about to
\* put it there.
EvidenceKept(g) ==
    /\ Carriers(ret[g].err)
    /\ gpc[g] = "append" => ret[g].err = <<>>
    /\ gpc[g] = "evidence" => ret[g].rep = <<>> /\ ret[g].err # <<>>
    /\ \/ gpc[g] \in {"append", "evidence"}
       \/ \A rep \in Completed(ret[g]) : InForce(rep.kind, slowReps)

ParallelKept == \A g \in Par : EvidenceKept(g)

\* What the chain completed is in its slice until the run returns; nothing is
\* completed before the scope is checked.
ChainKept ==
    \A i \in 1..ChainLen :
        /\ pc = "enter" => chainRet[i] = NoReturn
        /\ pc # "done" =>
              \A rep \in Completed(chainRet[i]) : InForce(rep.kind, reports)

EvidenceInv == ParallelKept /\ ChainKept

LEMMA NothingCompleted == Completed(NoReturn) = {}
BY DEF Completed, NoReturn

LEMMA EvidenceInit == Init => EvidenceInv
<1>0. Init => ChainKept
  BY NothingCompleted DEF Init, ChainKept
<1>1. SUFFICES ASSUME Init, NEW g \in Par PROVE EvidenceKept(g)
  BY <1>0 DEF EvidenceInv, ParallelKept
<1>2. gpc[g] = "call" /\ ret[g].rep = <<>> /\ ret[g].err = <<>>
  BY <1>1 DEF Init, NoReturn
<1>3. Completed(ret[g]) = {}
  BY <1>2 DEF Completed
<1>4. QED
  BY <1>2, <1>3 DEF EvidenceKept, Carriers

(* A goroutine that does not step keeps its evidence while the slice grows.*)
LEMMA EvidenceStays ==
    ASSUME NEW h, EvidenceKept(h), slowReps \in Seq(Report), NEW more \in Seq(Report),
           slowReps' = slowReps \/ slowReps' = slowReps \o more,
           gpc'[h] = gpc[h], ret'[h] = ret[h]
    PROVE  EvidenceKept(h)'
<1>1. Completed(ret[h])' = Completed(ret[h])
  BY DEF Completed
<1>2. \A kind : InForce(kind, slowReps) => InForce(kind, slowReps')
  BY InForceGrows
<1>3. QED
  BY <1>1, <1>2 DEF EvidenceKept

LEMMA ReturnsEvidence ==
    ASSUME TypeInv, NEW g \in Par, NEW rep \in Optional(ValidatorReports),
           NEW cause \in Optional(ValidatorCauses), ParReturns(g, rep, cause)
    PROVE  EvidenceKept(g)'
<1> DEFINE err == cause \o ContextError(gctxErr)
           r == IF err = <<>> /\ ForbiddenRedaction(rep)
                THEN [rep |-> <<>>, err |-> <<PlainCause>>]
                ELSE [rep |-> IF err = <<>> THEN rep ELSE <<>>, err |-> err]
           to == AfterReturn(rep, err)
<1>1. ret'[g] = r /\ gpc'[g] = to
  BY DEF ParReturns, AtGoroutine, TypeInv, TypeOK
<1>2. Carriers(err)
  <2>1. cause \in Seq(Cause) /\ Len(cause) <= 1
    BY OptionalIsSeq, CausesAssumption DEF AtMostOne
  <2>2. ContextError(gctxErr) \in Seq(Cause)
    BY ContextErrorType DEF TypeInv, TypeOK
  <2>3. \A i \in DOMAIN ContextError(gctxErr) :
           ContextError(gctxErr)[i].completed = <<>> /\ Len(ContextError(gctxErr)) = 1
    BY DEF ContextError, CauseOfContext
  <2> DEFINE ce == ContextError(gctxErr)
  <2> HIDE DEF ce
  <2>4. ce \in Seq(Cause) /\ \A i \in DOMAIN ce : ce[i].completed = <<>>
    BY <2>2, <2>3 DEF ce
  <2>5. \A i \in DOMAIN (cause \o ce) : i = 1 \/ (cause \o ce)[i].completed = <<>>
    BY <2>1, <2>4
  <2>6. QED
    BY <2>5 DEF Carriers, ce
<1>3. CASE err # <<>>
  <2>1. r.rep = <<>> /\ r.err = err /\ to = "evidence"
    BY <1>3 DEF AfterReturn
  <2> HIDE DEF r, to, err
  <2>2. QED
    BY <1>1, <1>2, <1>3, <2>1 DEF EvidenceKept
<1>4. CASE err = <<>> /\ ForbiddenRedaction(rep)
  <2>1. r.rep = <<>> /\ r.err = <<PlainCause>> /\ to = "note"
    BY <1>4 DEF AfterReturn
  <2> HIDE DEF r, to, err
  <2>2. Completed(ret[g])' = {} /\ Carriers(ret[g].err)'
    BY <1>1, <2>1 DEF Completed, Carriers, PlainCause
  <2>3. QED
    BY <1>1, <2>1, <2>2 DEF EvidenceKept
<1>5. CASE err = <<>> /\ ~ForbiddenRedaction(rep)
  <2>1. r.rep = rep /\ r.err = <<>> /\ to = IF rep # <<>> THEN "append" ELSE "done"
    BY <1>5 DEF AfterReturn
  <2> HIDE DEF r, to, err
  <2>2. Carriers(ret[g].err)' /\ (rep = <<>> => Completed(ret[g])' = {})
    BY <1>1, <2>1 DEF Completed, Carriers
  <2>3. QED
    BY <1>1, <2>1, <2>2 DEF EvidenceKept
<1>6. QED
  BY <1>3, <1>4, <1>5

LEMMA ParallelStep ==
    ASSUME TypeInv, ParallelKept, [Next]_vars
    PROVE  ParallelKept'
<1> USE DEF config, chain, shared
<1>1. ASSUME UNCHANGED <<gpc, ret, slowReps>> PROVE ParallelKept'
  BY <1>1 DEF ParallelKept, EvidenceKept, Completed
<1>2. CASE Chain \/ Environment \/ UNCHANGED vars \/ Finished
  BY <1>1, <1>2 DEF Chain, CheckScope, CheckBefore, ChainReturns, ChainDone, Join,
                    Environment, CancelContext, PropagateCancellation, vars, Finished
<1>3. ASSUME NEW g \in Par, Goroutine(g) PROVE ParallelKept'
  <2>1. /\ gpc \in [Par -> GoroutinePCs] /\ slowReps \in Seq(Report)
        /\ ret \in [Par -> Returns]
    BY DEF TypeInv, TypeOK
  <2>2. EvidenceKept(g)
    BY DEF ParallelKept
  <2>3. \A h \in Par \ {g} : gpc'[h] = gpc[h] /\ ret'[h] = ret[h]
    BY <1>3, <2>1 DEF Goroutine, ParReturns, KeepEvidence, CheckStopped, NoteFirstErr,
                      ReturnErr, AppendReport, RecordDecision, AtGoroutine
  <2>4. ASSUME NEW more \in Seq(Report),
               slowReps' = slowReps \/ slowReps' = slowReps \o more,
               EvidenceKept(g)'
        PROVE  ParallelKept'
    BY <2>1, <2>3, <2>4, EvidenceStays DEF ParallelKept
  <2>5. <<>> \in Seq(Report)
    OBVIOUS
  <2>6. ASSUME NEW rep \in Optional(ValidatorReports),
               NEW cause \in Optional(ValidatorCauses), ParReturns(g, rep, cause)
        PROVE  ParallelKept'
    <3>1. slowReps' = slowReps
      BY <2>6 DEF ParReturns
    <3>2. EvidenceKept(g)'
      BY <2>6, ReturnsEvidence
    <3>3. QED
      BY <2>4, <2>5, <3>1, <3>2
  <2>7. CASE KeepEvidence(g)
    <3> DEFINE err  == ret[g].err
               more == NormalizeAll(CompletedReportFromError(err))
    <3>1. /\ ret' = ret /\ slowReps' = slowReps \o more
          /\ gpc[g] = "evidence" /\ gpc'[g] \in {"stopped", "note"}
      BY <2>1, <2>7 DEF KeepEvidence, AtGoroutine, AppendCompletedObservations
    <3>2. err \in Seq(Cause) /\ err # <<>> /\ Carriers(err) /\ ret[g].rep = <<>>
      BY <2>1, <2>2, <3>1 DEF EvidenceKept
    <3>3. more \in Seq(Report)
      <4>1. CompletedReportFromError(err) \in Seq(Report)
        BY <3>2, CompletedType DEF AtMostOne
      <4>2. QED
        BY <4>1, NormalizeAllType
    <3>4. ASSUME NEW rep \in Completed(ret[g]) PROVE InForce(rep.kind, more)
      <4>1. PICK i \in DOMAIN err : \E j \in DOMAIN err[i].completed :
                   rep = err[i].completed[j]
        BY <3>2 DEF Completed
      <4>2. PICK j \in DOMAIN err[i].completed : rep = err[i].completed[j]
        BY <4>1
      <4>3. i = 1
        BY <3>2, <4>2 DEF Carriers
      <4> HIDE DEF err, more
      <4>4. QED
        BY <3>2, <4>2, <4>3, CompletedKept DEF more
    <3> HIDE DEF more, err
    <3>5. \A rep \in Completed(ret[g]) : InForce(rep.kind, slowReps')
      BY <2>1, <3>1, <3>3, <3>4, InForceGrows
    <3>6. Completed(ret[g])' = Completed(ret[g])
      BY <3>1 DEF Completed
    <3>7. EvidenceKept(g)'
      BY <3>1, <3>2, <3>5, <3>6 DEF EvidenceKept, err
    <3>8. QED
      BY <2>4, <3>1, <3>3, <3>7
  <2>8. CASE AppendReport(g)
    <3> DEFINE more == NormalizeAll(ret[g].rep)
    <3>1. /\ ret' = ret /\ slowReps' = slowReps \o more
          /\ gpc[g] = "append" /\ gpc'[g] \in {"decide", "done"}
      BY <2>1, <2>8 DEF AppendReport, AtGoroutine
    <3>2. ret[g].rep \in Seq(Report) /\ ret[g].err = <<>> /\ Carriers(ret[g].err)
      BY <2>1, <2>2, <3>1 DEF EvidenceKept, AtMostOne
    <3>3. more \in Seq(Report)
      BY <3>2, NormalizeAllType
    <3>4. ASSUME NEW rep \in Completed(ret[g]) PROVE InForce(rep.kind, more)
      <4>1. PICK i \in DOMAIN ret[g].rep : rep = ret[g].rep[i]
        BY <3>2 DEF Completed
      <4>2. QED
        BY <3>2, <4>1, ReportKindKept
    <3> HIDE DEF more
    <3>5. \A rep \in Completed(ret[g]) : InForce(rep.kind, slowReps')
      BY <2>1, <3>1, <3>3, <3>4, InForceGrows
    <3>6. Completed(ret[g])' = Completed(ret[g])
      BY <3>1 DEF Completed
    <3>7. EvidenceKept(g)'
      BY <3>1, <3>2, <3>5, <3>6 DEF EvidenceKept
    <3>8. QED
      BY <2>4, <3>1, <3>3, <3>7
  <2>9. CASE CheckStopped(g) \/ NoteFirstErr(g) \/ ReturnErr(g) \/ RecordDecision(g)
    <3>1. /\ UNCHANGED <<ret, slowReps>>
          /\ gpc[g] \in {"stopped", "note", "fail", "decide"}
          /\ gpc'[g] \in {"done", "note", "fail"}
      BY <2>1, <2>9 DEF CheckStopped, NoteFirstErr, ReturnErr, RecordDecision, AtGoroutine
    <3>2. EvidenceKept(g)'
      BY <2>2, <3>1 DEF EvidenceKept, Completed
    <3>3. QED
      BY <2>4, <2>5, <3>1, <3>2
  <2>10. QED
    BY <1>3, <2>6, <2>7, <2>8, <2>9 DEF Goroutine
<1>4. QED
  BY <1>2, <1>3 DEF Next

\* An error that a validator of the chain, or its context, left.
LEMMA ChainCarriers ==
    ASSUME TypeInv, NEW cause \in Optional(ValidatorCauses)
    PROVE  /\ cause \o ContextError(ctxErr) \in Seq(Cause)
           /\ Carriers(cause \o ContextError(ctxErr))
<1>1. cause \in Seq(Cause) /\ Len(cause) <= 1
  BY OptionalIsSeq, CausesAssumption DEF AtMostOne
<1>2. ContextError(ctxErr) \in Seq(Cause)
  BY ContextErrorType DEF TypeInv, TypeOK
<1>3. \A i \in DOMAIN ContextError(ctxErr) : ContextError(ctxErr)[i].completed = <<>>
  BY DEF ContextError, CauseOfContext
<1> DEFINE ce == ContextError(ctxErr)
<1> HIDE DEF ce
<1>4. ce \in Seq(Cause) /\ \A i \in DOMAIN ce : ce[i].completed = <<>>
  BY <1>2, <1>3 DEF ce
<1>5. cause \o ce \in Seq(Cause)
  BY <1>1, <1>4
<1>6. \A i \in DOMAIN (cause \o ce) : i = 1 \/ (cause \o ce)[i].completed = <<>>
  BY <1>1, <1>4
<1>7. QED
  BY <1>5, <1>6 DEF Carriers, ce

\* What a check completed that fails is kept as its failure's evidence.
LEMMA EvidenceAppended ==
    ASSUME NEW err \in Seq(Cause), err # <<>>, Carriers(err), NEW reps \in Seq(Report),
           NEW rep \in Completed([rep |-> <<>>, err |-> err])
    PROVE  /\ AppendCompletedObservations(reps, err) \in Seq(Report)
           /\ InForce(rep.kind, AppendCompletedObservations(reps, err))
<1> DEFINE more == NormalizeAll(CompletedReportFromError(err))
<1>1. more \in Seq(Report)
  <2>1. CompletedReportFromError(err) \in Seq(Report)
    BY CompletedType DEF AtMostOne
  <2>2. QED
    BY <2>1, NormalizeAllType
<1>2. InForce(rep.kind, more)
  <2>1. PICK i \in DOMAIN err : \E j \in DOMAIN err[i].completed :
               rep = err[i].completed[j]
    BY DEF Completed
  <2>2. PICK j \in DOMAIN err[i].completed : rep = err[i].completed[j]
    BY <2>1
  <2>3. i = 1
    BY <2>2 DEF Carriers
  <2> HIDE DEF more
  <2>4. QED
    BY <2>2, <2>3, CompletedKept DEF more
<1>3. AppendCompletedObservations(reps, err) = reps \o more
  BY DEF AppendCompletedObservations
<1> HIDE DEF more
<1>4. QED
  BY <1>1, <1>2, <1>3, InForceGrows

\* What a check completed that succeeds is its report.
LEMMA ReportAppended ==
    ASSUME NEW r \in AtMostOne(Report), NEW reps \in Seq(Report),
           NEW rep \in Completed([rep |-> r, err |-> <<>>])
    PROVE  /\ reps \o NormalizeAll(r) \in Seq(Report)
           /\ InForce(rep.kind, reps \o NormalizeAll(r))
<1>1. r \in Seq(Report)
  BY DEF AtMostOne
<1>2. PICK i \in DOMAIN r : rep = r[i]
  BY DEF Completed
<1>3. NormalizeAll(r) \in Seq(Report) /\ InForce(rep.kind, NormalizeAll(r))
  BY <1>1, <1>2, NormalizeAllType, ReportKindKept
<1>4. QED
  BY <1>3, InForceGrows

\* Everything the chain has completed is in force in what a validator's answer
\* leaves: in the slice while the chain goes on, in the result when it ends.
LEMMA ChainReturnsKept ==
    ASSUME TypeInv, ChainKept, NEW out \in Values, NEW rep \in Optional(ValidatorReports),
           NEW cause \in Optional(ValidatorCauses), ChainReturns(out, rep, cause),
           NEW i \in 1..ChainLen, NEW x \in Completed(chainRet'[i])
    PROVE  /\ pc' # "done" => InForce(x.kind, reports')
           /\ pc' = "done" => Survives(x.kind, result')
<1> DEFINE err == cause \o ContextError(ctxErr)
<1>1. /\ err \in Seq(Cause) /\ Carriers(err)
      /\ reports \in Seq(Report) /\ current \in Values
      /\ rep \in AtMostOne(Report) /\ rep \in Seq(Report)
  BY ChainCarriers, OptionalIsSeq, ReportsAssumption DEF TypeInv, TypeOK
<1>2. /\ pc = "call"
      /\ IF err # <<>> THEN ChainFailure(out, err) ELSE ChainSuccess(out, rep)
      /\ chainRet' = [chainRet EXCEPT ![next] = Kept(rep, err)]
  BY DEF ChainReturns
<1>3. \/ x \in Completed(chainRet[i])
      \/ x \in Completed(Kept(rep, err))
  BY <1>2 DEF TypeInv, TypeOK
<1>4. x \in Completed(chainRet[i]) => InForce(x.kind, reports)
  BY <1>2 DEF ChainKept
<1>5. CASE err # <<>>
  <2> DEFINE reps == AppendCompletedObservations(reports, err)
  <2>1. pc' = "done" /\ result' = ValidatorFaultResult(current, reps, err)
    BY <1>2, <1>5 DEF ChainFailure, Return
  <2>2. Kept(rep, err) = [rep |-> <<>>, err |-> err]
    BY <1>5
  <2> HIDE DEF err
  <2>3. reps \in Seq(Report) /\ InForce(x.kind, reps)
    <3>1. CASE x \in Completed(chainRet[i])
      <4>1. NormalizeAll(CompletedReportFromError(err)) \in Seq(Report)
        <5>1. CompletedReportFromError(err) \in Seq(Report)
          BY <1>1, CompletedType DEF AtMostOne
        <5>2. QED
          BY <5>1, NormalizeAllType
      <4>2. QED
        BY <1>1, <1>4, <3>1, <4>1, InForceGrows DEF AppendCompletedObservations
    <3>2. CASE x \in Completed(Kept(rep, err))
      BY <1>1, <1>5, <2>2, <3>2, EvidenceAppended
    <3>3. QED
      BY <1>3, <3>1, <3>2
  <2> HIDE DEF reps
  <2>4. QED
    BY <1>1, <2>1, <2>3, FaultKeepsKind
<1>6. CASE err = <<>>
  <2> DEFINE reps == reports \o NormalizeAll(rep)
  <2>1. \/ pc' = "done" /\ result' = FinalizeResult(out, reps)
        \/ pc' = "check" /\ reports' = reps
    BY <1>2, <1>6 DEF ChainSuccess, Return
  <2>2. Kept(rep, err) = [rep |-> rep, err |-> <<>>]
    BY <1>6
  <2> HIDE DEF err
  <2>3. reps \in Seq(Report) /\ InForce(x.kind, reps)
    <3>1. CASE x \in Completed(chainRet[i])
      BY <1>1, <1>4, <3>1, NormalizeAllType, InForceGrows
    <3>2. CASE x \in Completed(Kept(rep, err))
      BY <1>1, <2>2, <3>2, ReportAppended
    <3>3. QED
      BY <1>3, <3>1, <3>2
  <2> HIDE DEF reps
  <2>4. QED
    BY <2>1, <2>3, FinalizeKeepsKind
<1>7. QED
  BY <1>5, <1>6

LEMMA ChainKeptStep ==
    ASSUME TypeInv, ChainKept, [Next]_vars
    PROVE  ChainKept'
<1> USE DEF config, chain, shared
<1>1. ASSUME UNCHANGED <<chainRet, reports>>, pc' # "enter" \/ pc = "enter",
             pc' = "done" \/ pc # "done"
      PROVE  ChainKept'
  BY <1>1 DEF ChainKept, Completed
<1>2. ASSUME NEW out \in Values, NEW rep \in Optional(ValidatorReports),
             NEW cause \in Optional(ValidatorCauses), ChainReturns(out, rep, cause)
      PROVE  ChainKept'
  <2>1. pc' # "enter"
    BY <1>2 DEF ChainReturns, ChainFailure, ChainSuccess, Return
  <2>2. ASSUME NEW i \in 1..ChainLen, NEW x \in Completed(chainRet'[i]), pc' # "done"
        PROVE  InForce(x.kind, reports')
    BY <1>2, <2>2, ChainReturnsKept
  <2>3. \A i \in 1..ChainLen : Completed(chainRet[i])' = Completed(chainRet'[i])
    BY DEF Completed
  <2>4. QED
    BY <2>1, <2>2, <2>3 DEF ChainKept
<1>3. CASE CheckScope \/ CheckBefore \/ ChainDone \/ Join
  BY <1>1, <1>3 DEF CheckScope, CheckBefore, ChainDone, Join, Return
<1>4. CASE Environment \/ UNCHANGED vars
  BY <1>1, <1>4 DEF Environment, CancelContext, PropagateCancellation, vars
<1>5. ASSUME NEW g \in Par, Goroutine(g) PROVE ChainKept'
  BY <1>1, <1>5 DEF Goroutine, ParReturns, KeepEvidence, CheckStopped, NoteFirstErr,
                    ReturnErr, AppendReport, RecordDecision, AtGoroutine
<1>6. QED
  BY <1>2, <1>3, <1>4, <1>5 DEF Next, Chain, Finished

LEMMA EvidenceStep ==
    ASSUME TypeInv, EvidenceInv, [Next]_vars
    PROVE  EvidenceInv'
BY ParallelStep, ChainKeptStep DEF EvidenceInv

LEMMA EvidenceInvariant == Spec => [](TypeInv /\ PhaseInv /\ EvidenceInv)
BY EvidenceInit, EvidenceStep, PhaseInvariant, PTL DEF Spec

\* The property, an observation at a time.
LEMMA SurvivesEach ==
    ASSUME \A i \in 1..ChainLen : \A rep \in Completed(chainRet'[i]) :
              Survives(rep.kind, result'),
           \A g \in Par : \A rep \in Completed(ret'[g]) : Survives(rep.kind, result')
    PROVE  EvidenceSurvives'
<1>1. AllReturned' = {chainRet'[i] : i \in 1..ChainLen} \cup {ret'[g] : g \in Par}
  BY DEF AllReturned
<1>2. ASSUME NEW r \in AllReturned', NEW rep \in Completed(r)
      PROVE  Survives(rep.kind, result')
  BY <1>1, <1>2
<1>3. QED
  BY <1>2 DEF EvidenceSurvives, Survives

LEMMA SurvivesStep ==
    ASSUME TypeInv, PhaseInv, EvidenceInv, EvidenceSurvives, [Next]_vars
    PROVE  EvidenceSurvives'
<1> USE DEF config, chain, shared
<1>1. CASE Join
  <2> DEFINE all == reports \o slowReps
             err == IF groupErr # <<>> THEN groupErr
                    ELSE IF firstErr # <<>> THEN firstErr ELSE ContextError(ctxErr)
  <2>1. /\ reports \in Seq(Report) /\ slowReps \in Seq(Report) /\ current \in Values
        /\ err \in Seq(Cause)
    BY ContextErrorType DEF TypeInv, TypeOK
  <2>2. /\ ret' = ret /\ chainRet' = chainRet /\ pc = "parallel"
        /\ \A g \in Par : gpc[g] = "done"
        /\ \/ result' = FinalizeResult(current, all)
           \/ result' = ValidatorFaultResult(current, all, err)
    BY <1>1 DEF Join, Return
  <2> HIDE DEF err
  <2>3. ASSUME NEW kind, InForce(kind, reports) \/ InForce(kind, slowReps)
        PROVE  Survives(kind, result')
    <3>1. all \in Seq(Report) /\ InForce(kind, all)
      BY <2>1, <2>3, InForceGrows
    <3> HIDE DEF all
    <3>2. QED
      BY <2>1, <2>2, <3>1, FinalizeKeepsKind, FaultKeepsKind
  <2>4. ASSUME NEW g \in Par, NEW rep \in Completed(ret'[g])
        PROVE  Survives(rep.kind, result')
    BY <2>2, <2>3, <2>4 DEF EvidenceInv, ParallelKept, EvidenceKept
  <2>5. ASSUME NEW i \in 1..ChainLen, NEW rep \in Completed(chainRet'[i])
        PROVE  Survives(rep.kind, result')
    BY <2>2, <2>3, <2>5 DEF EvidenceInv, ChainKept
  <2>6. QED
    BY <2>4, <2>5, SurvivesEach
<1>2. CASE Chain /\ ~Join /\ pc' = "done"
  <2>1. /\ pc \in {"enter", "check", "call"}
        /\ \A g \in Par : ret'[g] = NoReturn
    BY <1>2, ReturnBeforePhase DEF PhaseInv, Fresh
  <2>2. \A g \in Par : Completed(ret'[g]) = {}
    BY <2>1, NothingCompleted
  <2>3. ASSUME NEW i \in 1..ChainLen, NEW rep \in Completed(chainRet'[i])
        PROVE  Survives(rep.kind, result')
    <3>1. ASSUME NEW out \in Values, NEW r \in Optional(ValidatorReports),
                 NEW cause \in Optional(ValidatorCauses), ChainReturns(out, r, cause)
          PROVE  Survives(rep.kind, result')
      BY <1>2, <2>3, <3>1, ChainReturnsKept DEF EvidenceInv
    <3>2. CASE CheckScope
      <4>1. chainRet'[i] = NoReturn
        BY <3>2 DEF CheckScope, EvidenceInv, ChainKept
      <4>2. QED
        BY <2>3, <4>1, NothingCompleted
    <3>3. CASE CheckBefore \/ ChainDone
      <4>1. /\ chainRet' = chainRet /\ pc = "check"
            /\ \/ result' = FinalizeResult(current, reports)
               \/ result' = ValidatorFaultResult(current, reports, ContextError(ctxErr))
        BY <1>2, <3>3 DEF CheckBefore, ChainDone, Return
      <4>2. /\ reports \in Seq(Report) /\ current \in Values
            /\ ContextError(ctxErr) \in Seq(Cause)
        BY ContextErrorType DEF TypeInv, TypeOK
      <4>3. InForce(rep.kind, reports)
        BY <2>3, <4>1 DEF EvidenceInv, ChainKept
      <4>4. QED
        BY <4>1, <4>2, <4>3, FinalizeKeepsKind, FaultKeepsKind
    <3>4. QED
      BY <1>2, <3>1, <3>2, <3>3 DEF Chain
  <2>4. QED
    BY <2>2, <2>3, SurvivesEach
<1>3. CASE pc' # "done"
  BY <1>3 DEF EvidenceSurvives
<1>4. ASSUME NEW g \in Par, Goroutine(g) PROVE pc' # "done"
  BY <1>4 DEF Goroutine, ParReturns, KeepEvidence, CheckStopped, NoteFirstErr,
              ReturnErr, AppendReport, RecordDecision, AtGoroutine
<1>5. CASE Environment
  BY <1>5 DEF Environment, CancelContext, PropagateCancellation, EvidenceSurvives
<1>6. CASE UNCHANGED vars
  BY <1>6 DEF vars, EvidenceSurvives, AllReturned, Completed
<1>7. QED
  BY <1>1, <1>2, <1>3, <1>4, <1>5, <1>6 DEF Next, Finished

(* The payload kind of everything a validator of the chain or of the       *)
(* parallel phase completed, the evidence of a failed check included, is   *)
(* in force in what Run returns and in what an enclosing pipeline will     *)
(* read of it (pipeline.go, validatorFaultResult).                         *)
THEOREM EvidenceAlwaysSurvives == Spec => []EvidenceSurvives
<1>1. Init => EvidenceSurvives
  BY DEF Init, EvidenceSurvives
<1>2. TypeInv /\ PhaseInv /\ EvidenceInv /\ EvidenceSurvives /\ [Next]_vars
        => EvidenceSurvives'
  BY SurvivesStep
<1>3. QED
  BY <1>1, <1>2, EvidenceInvariant, PTL DEF Spec

-----------------------------------------------------------------------------
(* GuardDelivery: the inductive invariant.                                 *)

StopErrors == {"blocked", "retry"}

Attempt == [guarded : GuardedDelivery, error : StopErrors]

CallType ==
    /\ TypeInv
    /\ policyOK \in BOOLEAN
    /\ allowed \in SUBSET PayloadKinds
    /\ fallback \in AtMostOne(Values)
    /\ at \in {"enter", "run", "classify", "done"}
    /\ attempt \in {"primary", "fallback"}
    /\ guarded \in GuardedDelivery
    /\ error \in ErrorClasses
    /\ blocked \in AtMostOne(Attempt)
    /\ classified \in AtMostOne([value : Values, kind : ClassifierAnswers])

\* A delivery as one attempt ends it: its decision is of the class of the error
\* returned with it, and only a delivery without an error leaves.
Agrees(g, err) ==
    /\ g \in GuardedDelivery /\ err \in ErrorClasses
    /\ g.decision.disposition = DispositionOf(err)
    /\ err # "nil" => DecisionDisposition(g.decision) = DispositionOf(err)
    /\ g.deliverable <=> err = "nil"
    /\ ~g.fallback

\* Its error is also the class of the decision that its reports make.
Stops(g, err) ==
    /\ err \in StopErrors
    /\ Agrees(g, err)
    /\ EffectiveDisposition(Decision(g.reports)) = DispositionOf(err)

\* What a delivery must have passed to leave, given the value classified last
\* and the reports of the run last finished; what does not leave is wiped.
Passed(g, last, reps) ==
    IF ~g.deliverable THEN g.value = Zero
    ELSE /\ g.kind \in allowed
         /\ last # <<>> /\ last[1].value = g.value
         /\ last[1].kind \in PayloadKinds
         /\ PayloadKindPriority(last[1].kind) <= PayloadKindPriority(g.kind)
         /\ PayloadKindPriority(AggregatePayloadKind(reps)) <= PayloadKindPriority(g.kind)

\* There is a primary attempt aside exactly while the fallback is checked.
PrimaryKept ==
    IF attempt = "primary" THEN blocked = <<>>
    ELSE /\ at # "enter" /\ blocked # <<>>
         /\ Stops(blocked[1].guarded, blocked[1].error)

\* The run keeps its promise for as long as the call looks at it.
RunKept == at \in {"enter", "run"} => PromiseInv

\* What is classified is the value of a finished run that nothing stops.
UnderCheck ==
    at = "classify" =>
        /\ guarded.reports = result.reports
        /\ guarded.kind = AggregatePayloadKind(result.reports)
        /\ Agrees(guarded, "nil")
        /\ EffectiveDisposition(Decision(guarded.reports)) = "none"

ReplyOf(g, err) ==
    [error |-> err, disposition |-> g.decision.disposition,
     deliverable |-> g.deliverable, fallback |-> g.fallback]

\* A fallback that leaves carries the primary attempt's decision and reports.
CarriesStop(g, err) ==
    g.fallback =>
        /\ attempt = "fallback"
        /\ err = blocked[1].error
        /\ g.decision = blocked[1].guarded.decision
        /\ ErrorFromDecision(Decision(g.reports)) # "nil"

Answered ==
    at = "done" =>
        /\ ReplyOf(guarded, error) \in Answers
        /\ Passed(guarded, classified, result.reports)
        /\ CarriesStop(guarded, error)

NothingOut == at # "done" => ~guarded.fallback

DeliveryInv ==
    CallType /\ PrimaryKept /\ RunKept /\ UnderCheck /\ Answered /\ NothingOut

-----------------------------------------------------------------------------
(* What the operators of GuardDelivery make of a delivery.                 *)

LEMMA DispositionsDiffer ==
    ASSUME NEW e \in ErrorClasses, NEW f \in ErrorClasses,
           DispositionOf(e) = DispositionOf(f)
    PROVE  e = f
BY DEF ErrorClasses, DispositionOf

LEMMA ErrorAgrees ==
    ASSUME NEW r \in Results, r.kind = AggregatePayloadKind(r.reports),
           NEW err, err = ErrorFromDecision(Decision(r.reports))
    PROVE  /\ Agrees(GuardedFromRun(r), err)
           /\ EffectiveDisposition(Decision(r.reports)) = DispositionOf(err)
           /\ DecisionDisposition(GuardedFromRun(r).decision) = DispositionOf(err)
<1> DEFINE rep == Decision(r.reports)
           d   == PolicyDecision(r.reports, r.kind)
           g   == GuardedFromRun(r)
<1>1. r.reports \in Seq(Report) /\ r.kind \in PayloadKinds /\ r.output \in Values
  BY DEF Results
<1>2. rep \in Report /\ ~IsObservation(rep)
  BY <1>1, DecisionType, DecisionEnforces
<1>3. err \in ErrorClasses /\ DispositionOf(err) = EffectiveDisposition(rep)
  BY <1>2, ErrorOfReport
<1>4. /\ DecisionFromReport(rep) \in HostDecision
      /\ d.disposition = DispositionOf(err) /\ DecisionDisposition(d) = DispositionOf(err)
  BY <1>1, <1>2, <1>3, HostKeepsClass DEF PolicyDecision
<1>5. d \in HostDecision
  BY <1>1, <1>4 DEF PolicyDecision, WithOutputKind, HostDecision
<1> DEFINE open == d.disposition = "none"
<1> HIDE DEF d, rep
<1>6. open \in BOOLEAN /\ (open <=> d.disposition = "none")
      /\ g = [value |-> r.output, kind |-> r.kind, decision |-> d, reports |-> r.reports,
               deliverable |-> open, fallback |-> FALSE]
  BY DEF GuardedFromRun, d
<1> HIDE DEF open
<1>7. g \in GuardedDelivery
  <2> HIDE DEF g
  <2>1. QED
    BY <1>1, <1>5, <1>6 DEF GuardedDelivery
<1>8. (d.disposition = "none") <=> (err = "nil")
  BY <1>3, <1>4 DEF DispositionOf, ErrorClasses
<1>9. /\ g.decision = d /\ (g.deliverable <=> d.disposition = "none") /\ ~g.fallback
  <2> HIDE DEF g
  <2>1. g.decision = d /\ ~g.fallback
    BY <1>6
  <2>2. g.deliverable = open
    BY <1>6
  <2>3. QED
    BY <1>6, <2>1, <2>2
<1>10. QED
  <2> HIDE DEF g
  <2>1. Agrees(g, err)
    BY <1>3, <1>4, <1>7, <1>8, <1>9 DEF Agrees
  <2>2. QED
    BY <1>3, <1>4, <1>9, <2>1 DEF g, rep

LEMMA FromRun ==
    ASSUME NEW r \in Results
    PROVE  /\ GuardedFromRun(r).value = r.output /\ GuardedFromRun(r).kind = r.kind
           /\ GuardedFromRun(r).reports = r.reports
           /\ GuardedFromRun(r).decision = PolicyDecision(r.reports, r.kind)
BY DEF GuardedFromRun

LEMMA Suppressed ==
    ASSUME NEW g \in GuardedDelivery
    PROVE  LET s == SuppressDelivery(g)
           IN  /\ s \in GuardedDelivery /\ s.value = Zero
               /\ ~s.deliverable /\ ~s.fallback
               /\ s.decision = g.decision /\ s.reports = g.reports /\ s.kind = g.kind
BY ValuesAssumption DEF SuppressDelivery, GuardedDelivery

LEMMA SuppressedAgrees ==
    ASSUME NEW g, NEW err, Agrees(g, err), err # "nil"
    PROVE  Agrees(SuppressDelivery(g), err)
<1> DEFINE s == SuppressDelivery(g)
<1>0. g \in GuardedDelivery
  BY DEF Agrees
<1>1. /\ s \in GuardedDelivery /\ ~s.deliverable /\ ~s.fallback /\ s.decision = g.decision
  BY <1>0, Suppressed
<1> HIDE DEF s
<1>2. Agrees(s, err)
  BY <1>1 DEF Agrees
<1>3. QED
  BY <1>2 DEF s

\* The report of a failed classification makes a fault, whatever else is known.
LEMMA FaultedAgrees ==
    ASSUME NEW g \in GuardedDelivery
    PROVE  /\ Agrees(Faulted(g), "fault")
           /\ Faulted(g).value = Zero /\ ~Faulted(g).deliverable
<1> DEFINE rep == [ValidatorFaultReport EXCEPT !.kind = g.kind]
           d   == DecisionFromReport(rep)
           all == Append(g.reports, rep)
           h   == [g EXCEPT !.reports = all, !.decision = d]
<1>1. g.kind \in PayloadKinds /\ g.reports \in Seq(Report)
  BY DEF GuardedDelivery
<1>2. /\ rep \in Report /\ EffectiveDisposition(rep) = "system_fault"
      /\ ~IsObservation(rep)
  BY <1>1 DEF ValidatorFaultReport, BlankReport, Report, EffectiveDisposition,
              IsObservation, Actions, Dispositions, PayloadKinds
<1> HIDE DEF rep
<1>3. /\ d \in HostDecision /\ d.disposition = "system_fault"
      /\ DecisionDisposition(d) = "system_fault"
  BY <1>1, <1>2, HostKeepsClass
<1>4. all \in Seq(Report)
  BY <1>1, <1>2
<1> HIDE DEF d, all
<1>5. h \in GuardedDelivery /\ h.decision = d
  BY <1>3, <1>4 DEF GuardedDelivery
<1>6. Faulted(g) = SuppressDelivery(h)
  BY DEF Faulted, rep, d, all
<1> HIDE DEF h
<1> DEFINE s == SuppressDelivery(h)
<1>7. /\ s \in GuardedDelivery /\ s.value = Zero /\ ~s.deliverable /\ ~s.fallback
      /\ s.decision = d
  BY <1>5, Suppressed
<1> HIDE DEF s
<1>8. Agrees(s, "fault")
  BY <1>3, <1>7 DEF Agrees, DispositionOf, ErrorClasses
<1>9. QED
  BY <1>6, <1>7, <1>8 DEF s

\* A value the channel does not allow is a stop of its own.
LEMMA DeniedStops ==
    ASSUME NEW g, Agrees(g, "nil"), NEW kind \in PayloadKinds,
           EffectiveDisposition(Decision(g.reports)) = "none"
    PROVE  Stops(Denied(g, kind), "blocked")
<1> DEFINE rep == FinishReport(BlankReport("block", kind), "block", FALSE)
           d   == DecisionFromReport(rep)
           all == Append(g.reports, rep)
           h   == [g EXCEPT !.kind = kind, !.reports = all, !.decision = d]
<1>1. g \in GuardedDelivery /\ g.reports \in Seq(Report)
  BY DEF Agrees, GuardedDelivery
<1>2. /\ rep \in Report /\ EffectiveDisposition(rep) = "terminal_deny"
      /\ ~IsObservation(rep)
  <2> DEFINE b == BlankReport("block", kind)
             e == [b EXCEPT !.retryable = FALSE, !.fatal = FALSE]
  <2>1. b \in Report /\ b.action = "block" /\ b.disposition = "none" /\ ~b.fatal
        /\ ~b.shadow /\ b.finite /\ b.kind = kind
    BY DEF BlankReport, Report, Actions, Dispositions
  <2>2. rep = NormalizeReport(e)
    BY <2>1 DEF FinishReport, BlankReport
  <2>3. e \in Report /\ e.action = "block" /\ e.disposition = "none" /\ ~e.fatal
        /\ ~e.shadow /\ e.finite /\ e.kind = kind
    <3> HIDE DEF b
    <3>1. QED
      BY <2>1 DEF Report
  <2> HIDE DEF e, b
  <2>4. EffectiveDisposition(e) = "terminal_deny" /\ ~IsObservation(e)
    BY <2>3 DEF EffectiveDisposition, Malformed, DeriveDisposition, IsObservation,
                Actions, Dispositions
  <2>5. QED
    BY <2>2, <2>3, <2>4, NormalizeType, NormalizeKeepsClass
<1> HIDE DEF rep
<1>3. /\ d \in HostDecision /\ d.disposition = "terminal_deny"
      /\ DecisionDisposition(d) = "terminal_deny"
  BY <1>2, HostKeepsClass
<1>4. /\ all \in Seq(Report)
      /\ EffectiveDisposition(Decision(all)) = "terminal_deny"
  BY <1>1, <1>2, DenyDecides
<1> HIDE DEF d, all
<1>5. h \in GuardedDelivery /\ h.decision = d /\ h.reports = all
  BY <1>1, <1>3, <1>4 DEF GuardedDelivery
<1>6. Denied(g, kind) = SuppressDelivery(h)
  BY DEF Denied, rep, d, all
<1> HIDE DEF h
<1> DEFINE s == SuppressDelivery(h)
<1>7. /\ s \in GuardedDelivery /\ ~s.deliverable /\ ~s.fallback
      /\ s.decision = d /\ s.reports = all
  BY <1>5, Suppressed
<1> HIDE DEF s
<1>8. Agrees(s, "blocked")
  BY <1>3, <1>7 DEF Agrees, DispositionOf, ErrorClasses
<1>9. Stops(s, "blocked")
  BY <1>4, <1>7, <1>8 DEF Stops, StopErrors, DispositionOf
<1>10. QED
  BY <1>6, <1>9 DEF s

LEMMA ReleasedAgrees ==
    ASSUME NEW g, Agrees(g, "nil"), NEW kind \in PayloadKinds
    PROVE  LET s == Released(g, kind)
           IN  /\ Agrees(s, "nil") /\ s.deliverable
               /\ s.value = g.value /\ s.kind = kind
<1> DEFINE d == [g.decision EXCEPT !.kind = kind]
           s == [g EXCEPT !.kind = kind, !.decision = d, !.deliverable = TRUE,
                          !.value = g.value]
<1>1. /\ g \in GuardedDelivery /\ g.decision \in HostDecision
      /\ g.decision.disposition = "none" /\ ~g.fallback /\ g.deliverable
  BY DEF Agrees, GuardedDelivery, DispositionOf
<1>2. d \in HostDecision /\ d.disposition = "none"
  BY <1>1 DEF HostDecision
<1>3. Released(g, kind) = s
  BY <1>1 DEF Released, GuardedDelivery
<1> HIDE DEF d
<1>4. /\ s \in GuardedDelivery /\ s.decision = d /\ s.deliverable /\ ~s.fallback
      /\ s.value = g.value /\ s.kind = kind
  BY <1>1, <1>2 DEF GuardedDelivery
<1> HIDE DEF s
<1>5. Agrees(s, "nil")
  BY <1>2, <1>4 DEF Agrees, DispositionOf, ErrorClasses
<1>6. QED
  BY <1>3, <1>4, <1>5

LEMMA StricterKindType ==
    ASSUME NEW a \in PayloadKinds, NEW b \in PayloadKinds
    PROVE  /\ StricterKind(a, b) \in PayloadKinds
           /\ PayloadKindPriority(a) <= PayloadKindPriority(StricterKind(a, b))
           /\ PayloadKindPriority(b) <= PayloadKindPriority(StricterKind(a, b))
BY DEF StricterKind, PayloadKinds, PayloadKindPriority

-----------------------------------------------------------------------------
(* The steps of GuardDelivery.                                             *)

LEMMA EmptyRun ==
    /\ NoResult \in Results /\ NoResult.kind = AggregatePayloadKind(NoResult.reports)
    /\ EmptyDelivery \in GuardedDelivery /\ ~EmptyDelivery.fallback
<1>1. NoResult.reports = <<>> /\ NoResult.kind = "safe"
  BY DEF NoResult
<1>2. AggregatePayloadKind(<<>>) = "safe"
  <2>1. KindsOf(<<>>) = {"safe"}
    BY DEF KindsOf
  <2>2. <<>> \in Seq(Report)
    OBVIOUS
  <2>3. QED
    BY <2>1, <2>2, AggregateInKinds
<1>3. Agrees(GuardedFromRun(NoResult), ErrorFromDecision(Decision(NoResult.reports)))
  BY <1>1, <1>2, NoResultType, ErrorAgrees
<1>4. QED
  BY <1>1, <1>2, <1>3, NoResultType DEF EmptyDelivery, Agrees

\* A fresh run begins as the first one did, and has promised nothing yet.
LEMMA StartRunKeeps ==
    ASSUME TypeInv, NEW v \in Values, StartRun(v)
    PROVE  TypeInv' /\ PromiseInv'
<1>1. NoReturn \in Returns
  BY DEF NoReturn, AtMostOne
<1>2. ret' \in [Par -> Returns] /\ chainRet' \in [1..ChainLen -> Returns]
  BY <1>1 DEF StartRun
<1>3. /\ next' \in 1..(ChainLen + 1)
      /\ gpc' \in [Par -> GoroutinePCs]
      /\ gctxErr' \in CtxErrors
  BY ChainLenAssumption DEF StartRun, GoroutinePCs, CtxErrors
<1>4. reports' \in Seq(Report) /\ slowReps' \in Seq(Report)
      /\ firstErr' \in Seq(Cause) /\ groupErr' \in Seq(Cause)
  BY DEF StartRun
<1>5. userChannel' \in BOOLEAN /\ scopeOK' \in BOOLEAN /\ ctxErr' \in CtxErrors
  BY DEF StartRun, TypeInv, TypeOK, config
<1>6. /\ pc' = "enter" /\ current' = v /\ block' = FALSE /\ retry' = FALSE
      /\ result' = NoResult
  BY DEF StartRun
<1>7. TypeInv'
  BY <1>2, <1>3, <1>4, <1>5, <1>6, NoResultType DEF TypeInv, TypeOK, CallInRange
<1>8. QED
  BY <1>6, <1>7 DEF PromiseInv, RunKeepsPromise

\* The answer that ends an attempt is one the promise lists.
LEMMA AgreesReplies ==
    ASSUME NEW g, NEW err, Agrees(g, err)
    PROVE  ReplyOf(g, err) \in Answers
<1> DEFINE r == ReplyOf(g, err)
           d == g.decision.disposition
<1>1. /\ err \in ErrorClasses /\ d = DispositionOf(err)
      /\ g.deliverable \in BOOLEAN /\ g.fallback = FALSE
      /\ (g.deliverable <=> err = "nil")
  BY DEF Agrees, GuardedDelivery
<1>2. r = [error |-> err, disposition |-> d, deliverable |-> g.deliverable,
           fallback |-> FALSE]
  BY <1>1 DEF ReplyOf
<1> HIDE DEF r, d
<1>3. CASE err = "nil"
  <2>1. d = "none" /\ g.deliverable = TRUE
    BY <1>1, <1>3 DEF DispositionOf
  <2>2. QED
    BY <1>2, <1>3, <2>1 DEF Answers, r
<1>4. CASE err = "fault"
  <2>1. d = "system_fault" /\ g.deliverable = FALSE
    BY <1>1, <1>4 DEF DispositionOf
  <2>2. QED
    BY <1>2, <1>4, <2>1 DEF Answers, r
<1>5. CASE err = "blocked"
  <2>1. d = "terminal_deny" /\ g.deliverable = FALSE
    BY <1>1, <1>5 DEF DispositionOf
  <2>2. QED
    BY <1>2, <1>5, <2>1 DEF Answers, r
<1>6. CASE err = "retry"
  <2>1. d = "retryable_correction" /\ g.deliverable = FALSE
    BY <1>1, <1>6 DEF DispositionOf
  <2>2. QED
    BY <1>2, <1>6, <2>1 DEF Answers, r
<1>7. QED
  BY <1>1, <1>3, <1>4, <1>5, <1>6 DEF ErrorClasses

\* The value of a checked fallback leaves under the primary attempt's stop.
LEMMA FallenKeeps ==
    ASSUME NEW g, NEW err, Agrees(g, err), NEW last, NEW reps, Passed(g, last, reps),
           blocked \in AtMostOne(Attempt), blocked # <<>>, attempt = "fallback",
           Stops(blocked[1].guarded, blocked[1].error)
    PROVE  LET end == Fallen(g, err)
           IN  /\ end.guarded \in GuardedDelivery /\ end.error \in ErrorClasses
               /\ ReplyOf(end.guarded, end.error) \in Answers
               /\ Passed(end.guarded, last, reps)
               /\ CarriesStop(end.guarded, end.error)
<1> DEFINE b   == blocked[1].guarded
           e   == blocked[1].error
           end == Fallen(g, err)
<1>1. /\ Agrees(b, e) /\ e \in StopErrors /\ b \in GuardedDelivery
      /\ EffectiveDisposition(Decision(b.reports)) = DispositionOf(e)
      /\ g \in GuardedDelivery /\ err \in ErrorClasses
  BY DEF Stops, Agrees
<1>2. CASE err # "nil" /\ DecisionDisposition(g.decision) = "system_fault"
  <2> DEFINE s == SuppressDelivery(g)
  <2>1. end.guarded = s /\ end.error = err
    BY <1>2 DEF Fallen
  <2>2. Agrees(s, err)
    BY <1>2, SuppressedAgrees
  <2>3. s.value = Zero /\ ~s.deliverable /\ ~s.fallback
    BY <1>1, Suppressed
  <2> HIDE DEF s, end
  <2>4. QED
    BY <1>1, <2>1, <2>2, <2>3, AgreesReplies DEF Agrees, Passed, CarriesStop, end
<1>3. CASE err # "nil" /\ DecisionDisposition(g.decision) # "system_fault"
  <2> DEFINE s == SuppressDelivery(b)
  <2>1. end.guarded = s /\ end.error = e
    BY <1>3 DEF Fallen
  <2>2. Agrees(s, e)
    BY <1>1, SuppressedAgrees DEF StopErrors
  <2>3. s.value = Zero /\ ~s.deliverable /\ ~s.fallback
    BY <1>1, Suppressed
  <2> HIDE DEF s, end
  <2>4. QED
    BY <1>1, <2>1, <2>2, <2>3, AgreesReplies DEF Agrees, Passed, CarriesStop, end
<1>4. CASE err = "nil"
  <2> DEFINE all == b.reports \o g.reports
             s   == [b EXCEPT !.value = g.value, !.kind = g.kind, !.deliverable = TRUE,
                              !.fallback = TRUE, !.reports = all]
  <2>1. g.deliverable
    BY <1>4 DEF Agrees
  <2>2. end.guarded = s /\ end.error = e
    BY <1>4, <2>1 DEF Fallen
  <2>3. b.reports \in Seq(Report) /\ g.reports \in Seq(Report)
        /\ g.value \in Values /\ g.kind \in PayloadKinds
    BY <1>1 DEF GuardedDelivery
  <2>4. all \in Seq(Report)
    BY <2>3
  <2>5. EffectiveDisposition(Decision(b.reports)) # "none"
    BY <1>1 DEF StopErrors, DispositionOf
  <2>6. EffectiveDisposition(Decision(all)) # "none"
    BY <2>3, <2>5, StopStays
  <2>7. Decision(all) \in Report
    BY <2>4, DecisionType
  <2>8. ErrorFromDecision(Decision(all)) # "nil"
    BY <2>6, <2>7, ErrorOfReport DEF DispositionOf
  <2> HIDE DEF all
  <2>9. /\ s \in GuardedDelivery /\ s.value = g.value /\ s.kind = g.kind
        /\ s.deliverable = TRUE /\ s.fallback = TRUE /\ s.reports = all
        /\ s.decision = b.decision
    BY <1>1, <2>3, <2>4 DEF GuardedDelivery
  <2> HIDE DEF s, end
  <2>10. Passed(s, last, reps)
    BY <2>1, <2>9 DEF Passed
  <2>11. ReplyOf(s, e) \in Answers
    <3>1. s.decision.disposition = DispositionOf(e)
      BY <1>1, <2>9 DEF Agrees
    <3> DEFINE dd == s.decision.disposition
    <3>2. ReplyOf(s, e) = [error |-> e, disposition |-> dd, deliverable |-> TRUE,
                           fallback |-> TRUE]
      BY <2>9 DEF ReplyOf
    <3>3. \/ e = "blocked" /\ dd = "terminal_deny"
          \/ e = "retry" /\ dd = "retryable_correction"
      BY <1>1, <3>1 DEF StopErrors, DispositionOf
    <3> HIDE DEF dd
    <3>4. QED
      BY <3>2, <3>3 DEF Answers
  <2>12. CarriesStop(s, e)
    BY <2>8, <2>9 DEF CarriesStop
  <2>13. QED
    BY <1>1, <2>2, <2>9, <2>10, <2>11, <2>12 DEF end, StopErrors, ErrorClasses
<1>5. QED
  BY <1>2, <1>3, <1>4

\* What an attempt leaves when GuardDelivery or its nested call returns.
LEMMA FinishKeeps ==
    ASSUME DeliveryInv, NEW g, NEW err, Agrees(g, err), Finish(g, err),
           Passed(g, classified', result.reports), UNCHANGED policy,
           classified' \in AtMostOne([value : Values, kind : ClassifierAnswers])
    PROVE  DeliveryInv'
<1>1. /\ at' = "done" /\ UNCHANGED vars /\ result' = result
      /\ attempt' = attempt /\ blocked' = blocked
      /\ allowed' = allowed /\ fallback' = fallback /\ policyOK' = policyOK
  BY DEF Finish, policy, vars
<1>2. TypeInv'
  BY <1>1, StutterType DEF DeliveryInv, CallType
<1>3. /\ guarded' \in GuardedDelivery /\ error' \in ErrorClasses
      /\ ReplyOf(guarded', error') \in Answers
      /\ Passed(guarded', classified', result.reports)
      /\ CarriesStop(guarded', error')
  <2>1. CASE attempt = "primary"
    <3>1. guarded' = g /\ error' = err
      BY <2>1 DEF Finish
    <3>2. ~g.fallback
      BY DEF Agrees
    <3>3. QED
      BY <3>1, <3>2, AgreesReplies DEF Agrees, CarriesStop
  <2>2. CASE attempt = "fallback"
    <3>1. guarded' = Fallen(g, err).guarded /\ error' = Fallen(g, err).error
      BY <2>2 DEF Finish
    <3>2. /\ blocked \in AtMostOne(Attempt) /\ blocked # <<>>
          /\ Stops(blocked[1].guarded, blocked[1].error)
      BY <2>2 DEF DeliveryInv, CallType, PrimaryKept
    <3>3. QED
      BY <2>2, <3>1, <3>2, FallenKeeps
  <2>3. QED
    BY <2>1, <2>2 DEF DeliveryInv, CallType
<1>4. CallType'
  BY <1>1, <1>2, <1>3 DEF DeliveryInv, CallType
<1>5. PrimaryKept'
  BY <1>1 DEF DeliveryInv, PrimaryKept
<1>6. Answered'
  <2>1. Passed(guarded, classified, result.reports)'
    BY <1>1, <1>3 DEF Passed
  <2>2. CarriesStop(guarded, error)'
    BY <1>1, <1>3 DEF CarriesStop
  <2>3. (ReplyOf(guarded, error) \in Answers)'
    BY <1>3
  <2>4. QED
    BY <2>1, <2>2, <2>3 DEF Answered
<1>7. RunKept' /\ UnderCheck' /\ NothingOut'
  BY <1>1 DEF RunKept, UnderCheck, NothingOut
<1>8. QED
  BY <1>4, <1>5, <1>6, <1>7 DEF DeliveryInv

\* A policy stop ends the call, or puts the primary attempt aside and starts
\* over with the fallback.
LEMMA TryFallbackKeeps ==
    ASSUME DeliveryInv, NEW g, NEW err, Stops(g, err), TryFallback(g, err),
           at \in {"run", "classify"}, UNCHANGED policy,
           classified' \in AtMostOne([value : Values, kind : ClassifierAnswers])
    PROVE  DeliveryInv'
<1>1. Agrees(g, err) /\ err # "nil" /\ err \in StopErrors /\ g \in GuardedDelivery
  BY DEF Stops, StopErrors, Agrees
<1>2. CASE Finish(SuppressDelivery(g), err)
  <2> DEFINE s == SuppressDelivery(g)
  <2>1. Agrees(s, err) /\ s.value = Zero /\ ~s.deliverable
    BY <1>1, SuppressedAgrees, Suppressed
  <2>2. Finish(s, err)
    BY <1>2
  <2> HIDE DEF s
  <2>3. Passed(s, classified', result.reports)
    BY <2>1 DEF Passed
  <2>4. QED
    BY <2>1, <2>2, <2>3, FinishKeeps
<1>3. CASE /\ attempt = "primary" /\ fallback # <<>>
           /\ blocked' = <<[guarded |-> g, error |-> err]>>
           /\ attempt' = "fallback" /\ at' = "run" /\ StartRun(fallback[1])
           /\ UNCHANGED <<guarded, error>>
  <2>1. fallback[1] \in Values
    BY <1>3 DEF DeliveryInv, CallType, AtMostOne
  <2>2. TypeInv' /\ PromiseInv'
    BY <1>3, <2>1, StartRunKeeps DEF DeliveryInv, CallType
  <2> DEFINE a == [guarded |-> g, error |-> err]
  <2>3. a \in Attempt /\ a.guarded = g /\ a.error = err
    BY <1>1 DEF Attempt
  <2>4. blocked' = <<a>>
    BY <1>3
  <2> HIDE DEF a
  <2>5. blocked' \in AtMostOne(Attempt) /\ blocked' # <<>> /\ blocked'[1] = a
    BY <2>3, <2>4 DEF AtMostOne
  <2>6. CallType'
    BY <1>3, <2>2, <2>5 DEF DeliveryInv, CallType, policy
  <2>7. PrimaryKept'
    BY <1>3, <2>3, <2>5 DEF PrimaryKept
  <2>8. RunKept' /\ UnderCheck' /\ Answered'
    BY <1>3, <2>2 DEF RunKept, UnderCheck, Answered
  <2>9. NothingOut'
    BY <1>3 DEF DeliveryInv, NothingOut
  <2>10. QED
    BY <2>6, <2>7, <2>8, <2>9 DEF DeliveryInv
<1>4. QED
  BY <1>2, <1>3 DEF TryFallback

\* A step that leaves the call alone, while a run goes on.
LEMMA RunStepKeeps ==
    ASSUME DeliveryInv, RunStep
    PROVE  DeliveryInv'
<1>1. /\ at = "run" /\ Next /\ UNCHANGED policy /\ UNCHANGED call
  BY DEF RunStep
<1>2. /\ at' = at /\ attempt' = attempt /\ guarded' = guarded /\ error' = error
      /\ blocked' = blocked /\ classified' = classified
      /\ allowed' = allowed /\ fallback' = fallback /\ policyOK' = policyOK
  BY <1>1 DEF policy, call
<1>3. TypeInv /\ PromiseInv
  BY <1>1 DEF DeliveryInv, CallType, RunKept
<1>4. TypeInv' /\ PromiseInv'
  BY <1>1, <1>3, NextType, PromiseStep
<1>5. CallType'
  BY <1>2, <1>4 DEF DeliveryInv, CallType
<1>6. PrimaryKept'
  BY <1>2 DEF DeliveryInv, PrimaryKept
<1>7. QED
  BY <1>1, <1>2, <1>4, <1>5, <1>6
     DEF DeliveryInv, RunKept, UnderCheck, Answered, NothingOut

LEMMA RunReturnsKeeps ==
    ASSUME DeliveryInv, RunReturns
    PROVE  DeliveryInv'
<1> DEFINE g   == GuardedFromRun(result)
           err == ErrorFromDecision(Decision(result.reports))
<1>1. /\ at = "run" /\ pc = "done" /\ UNCHANGED policy /\ classified' = classified
      /\ UNCHANGED <<policyOK, allowed, fallback>>
  BY DEF RunReturns, policy
<1>2. /\ result \in Results /\ TypeInv /\ PromiseInv
      /\ classified' \in AtMostOne([value : Values, kind : ClassifierAnswers])
  BY <1>1 DEF DeliveryInv, CallType, TypeInv, TypeOK, RunKept
<1>3. KeepsRunPromise(result, ctxErr # "none" \/ ~scopeOK)
  BY <1>1, <1>2 DEF PromiseInv, RunKeepsPromise
<1>4. result.kind = AggregatePayloadKind(result.reports)
  BY <1>3 DEF KeepsRunPromise
<1>5. /\ Agrees(g, err) /\ DecisionDisposition(g.decision) = DispositionOf(err)
      /\ EffectiveDisposition(Decision(result.reports)) = DispositionOf(err)
      /\ err \in ErrorClasses
  BY <1>2, <1>4, ErrorAgrees DEF Agrees
<1>6. g.kind = result.kind /\ g.reports = result.reports /\ g \in GuardedDelivery
  BY <1>2, <1>5, FromRun DEF Agrees
<1>7. \/ result.fault /\ Finish(SuppressDelivery(g), "fault")
      \/ /\ ~result.fault /\ err # "nil"
         /\ DecisionDisposition(g.decision) = "system_fault"
         /\ Finish(SuppressDelivery(g), err)
      \/ /\ ~result.fault /\ err # "nil"
         /\ DecisionDisposition(g.decision) # "system_fault"
         /\ TryFallback(g, err)
      \/ /\ ~result.fault /\ err = "nil"
         /\ at' = "classify" /\ guarded' = g
         /\ UNCHANGED <<attempt, error, blocked, vars>>
  BY DEF RunReturns
<1> HIDE DEF g, err
<1>8. ASSUME err = "fault", Finish(SuppressDelivery(g), err) PROVE DeliveryInv'
  <2> DEFINE s == SuppressDelivery(g)
  <2>1. Agrees(s, err) /\ s.value = Zero /\ ~s.deliverable /\ Finish(s, err)
    BY <1>5, <1>6, <1>8, SuppressedAgrees, Suppressed
  <2> HIDE DEF s
  <2>2. Passed(s, classified', result.reports)
    BY <2>1 DEF Passed
  <2>3. QED
    BY <1>1, <1>2, <2>1, <2>2, FinishKeeps
<1>9. CASE result.fault /\ Finish(SuppressDelivery(g), "fault")
  <2> DEFINE last == Len(result.reports)
  <2>1. /\ result.reports \in Seq(Report) /\ result.reports # <<>>
        /\ result.reports[last] = ValidatorFaultReport
    BY <1>2, <1>3, <1>9 DEF KeepsRunPromise, Results
  <2>2. last \in DOMAIN result.reports
    BY <2>1
  <2> HIDE DEF last
  <2>3. EffectiveDisposition(Decision(result.reports)) = "system_fault"
    BY <2>1, <2>2, FaultDecides, FaultReport
  <2>4. err = "fault"
    BY <1>5, <2>3 DEF DispositionOf, ErrorClasses
  <2>5. QED
    BY <1>8, <1>9, <2>4
<1>10. CASE /\ err # "nil" /\ DecisionDisposition(g.decision) = "system_fault"
            /\ Finish(SuppressDelivery(g), err)
  <2>1. err = "fault"
    BY <1>5, <1>10 DEF DispositionOf, ErrorClasses
  <2>2. QED
    BY <1>8, <1>10, <2>1
<1>11. CASE /\ err # "nil" /\ DecisionDisposition(g.decision) # "system_fault"
            /\ TryFallback(g, err)
  <2>1. err \in StopErrors
    BY <1>5, <1>11 DEF DispositionOf, ErrorClasses, StopErrors
  <2>2. Stops(g, err)
    BY <1>5, <1>6, <2>1 DEF Stops
  <2>3. QED
    BY <1>1, <1>2, <1>11, <2>2, TryFallbackKeeps
<1>12. CASE /\ err = "nil" /\ at' = "classify" /\ guarded' = g
            /\ UNCHANGED <<attempt, error, blocked, vars>>
  <2>1. UNCHANGED vars /\ result' = result /\ UNCHANGED <<attempt, error, blocked>>
    BY <1>12 DEF vars
  <2>2. TypeInv'
    BY <1>2, <2>1, StutterType
  <2>3. CallType'
    BY <1>1, <1>2, <1>6, <1>12, <2>1, <2>2 DEF DeliveryInv, CallType
  <2>4. PrimaryKept'
    BY <1>1, <1>12, <2>1 DEF DeliveryInv, PrimaryKept
  <2>5. EffectiveDisposition(Decision(result.reports)) = "none"
    BY <1>5, <1>12 DEF DispositionOf
  <2>6. UnderCheck'
    BY <1>4, <1>5, <1>6, <1>12, <2>1, <2>5 DEF UnderCheck
  <2>7. NothingOut'
    BY <1>5, <1>12 DEF NothingOut, Agrees
  <2>8. RunKept' /\ Answered'
    BY <1>12 DEF RunKept, Answered
  <2>9. QED
    BY <2>3, <2>4, <2>6, <2>7, <2>8 DEF DeliveryInv
<1>13. QED
  BY <1>7, <1>9, <1>10, <1>11, <1>12

LEMMA ClassifyKeeps ==
    ASSUME DeliveryInv, NEW answer \in ClassifierAnswers, Classify(answer)
    PROVE  DeliveryInv'
<1> DEFINE kind == StricterKind(guarded.kind, answer)
           c    == [value |-> guarded.value, kind |-> answer]
<1>1. /\ at = "classify" /\ UNCHANGED policy /\ UNCHANGED <<policyOK, allowed, fallback>>
      /\ classified' = <<c>>
  BY DEF Classify, policy
<1>2. /\ guarded \in GuardedDelivery /\ Agrees(guarded, "nil")
      /\ guarded.kind = AggregatePayloadKind(result.reports)
      /\ EffectiveDisposition(Decision(guarded.reports)) = "none"
  BY <1>1 DEF DeliveryInv, UnderCheck, Agrees
<1>3. c \in [value : Values, kind : ClassifierAnswers]
      /\ c.value = guarded.value /\ c.kind = answer
  BY <1>2 DEF GuardedDelivery
<1> HIDE DEF c
<1>4. classified' \in AtMostOne([value : Values, kind : ClassifierAnswers])
      /\ classified' # <<>> /\ classified'[1] = c
  BY <1>1, <1>3 DEF AtMostOne
<1>5. CASE Finish(Faulted(guarded), "fault")
  <2> DEFINE f == Faulted(guarded)
  <2>1. Agrees(f, "fault") /\ f.value = Zero /\ ~f.deliverable /\ Finish(f, "fault")
    BY <1>2, <1>5, FaultedAgrees
  <2> HIDE DEF f
  <2>2. Passed(f, classified', result.reports)
    BY <2>1 DEF Passed
  <2>3. QED
    BY <1>1, <1>4, <2>1, <2>2, FinishKeeps
<1>6. ASSUME ~ClassifierFailed(answer)
      PROVE  /\ answer \in PayloadKinds /\ guarded.kind \in PayloadKinds
             /\ kind \in PayloadKinds
             /\ PayloadKindPriority(guarded.kind) <= PayloadKindPriority(kind)
             /\ PayloadKindPriority(answer) <= PayloadKindPriority(kind)
  <2>1. answer \in PayloadKinds /\ guarded.kind \in PayloadKinds
    BY <1>2, <1>6 DEF ClassifierFailed, GuardedDelivery
  <2>2. QED
    BY <2>1, StricterKindType
<1>7. CASE ~ClassifierFailed(answer) /\ kind \in allowed
           /\ Finish(Released(guarded, kind), "nil")
  <2> DEFINE r == Released(guarded, kind)
  <2>1. kind \in PayloadKinds
    BY <1>6, <1>7
  <2> HIDE DEF kind
  <2>2. /\ Agrees(r, "nil") /\ r.deliverable /\ r.value = guarded.value
        /\ r.kind = kind
    BY <1>2, <2>1, ReleasedAgrees
  <2>3. Finish(r, "nil")
    BY <1>7 DEF kind
  <2> HIDE DEF r
  <2>4. Passed(r, classified', result.reports)
    BY <1>2, <1>3, <1>4, <1>6, <1>7, <2>2 DEF Passed, kind
  <2>5. QED
    BY <1>1, <1>4, <2>2, <2>3, <2>4, FinishKeeps
<1>8. CASE ~ClassifierFailed(answer) /\ TryFallback(Denied(guarded, kind), "blocked")
  <2>1. kind \in PayloadKinds
    BY <1>6, <1>8
  <2> HIDE DEF kind
  <2>2. Stops(Denied(guarded, kind), "blocked")
    BY <1>2, <2>1, DeniedStops
  <2>3. TryFallback(Denied(guarded, kind), "blocked")
    BY <1>8 DEF kind
  <2> DEFINE d == Denied(guarded, kind)
  <2> HIDE DEF d
  <2>4. Stops(d, "blocked") /\ TryFallback(d, "blocked")
    BY <2>2, <2>3 DEF d
  <2>5. QED
    BY <1>1, <1>4, <2>4, TryFallbackKeeps
<1>9. QED
  BY <1>5, <1>7, <1>8 DEF Classify

LEMMA CheckPolicyKeeps ==
    ASSUME DeliveryInv, CheckPolicy
    PROVE  DeliveryInv'
<1>1. /\ at = "enter" /\ UNCHANGED policy /\ UNCHANGED <<policyOK, allowed, fallback>>
      /\ classified' = classified
      /\ classified' \in AtMostOne([value : Values, kind : ClassifierAnswers])
  BY DEF CheckPolicy, policy, DeliveryInv, CallType
<1>2. CASE at' = "run" /\ UNCHANGED <<attempt, guarded, error, blocked, vars>>
  <2>1. UNCHANGED vars /\ UNCHANGED <<attempt, guarded, error, blocked>> /\ at' = "run"
    BY <1>2
  <2>2. TypeInv' /\ PromiseInv'
    <3>1. TypeInv /\ PromiseInv
      BY <1>1 DEF DeliveryInv, CallType, RunKept
    <3>2. QED
      BY <2>1, <3>1, StutterType, PromiseStep
  <2>3. CallType'
    BY <1>1, <2>1, <2>2 DEF DeliveryInv, CallType
  <2>4. PrimaryKept'
    BY <1>1, <2>1 DEF DeliveryInv, PrimaryKept
  <2>5. NothingOut'
    BY <1>1, <2>1 DEF DeliveryInv, NothingOut
  <2>6. QED
    BY <2>1, <2>2, <2>3, <2>4, <2>5 DEF DeliveryInv, RunKept, UnderCheck, Answered
<1>3. CASE Finish(Faulted(EmptyDelivery), "fault")
  <2> DEFINE f == Faulted(EmptyDelivery)
  <2>1. Agrees(f, "fault") /\ f.value = Zero /\ ~f.deliverable /\ Finish(f, "fault")
    BY <1>3, EmptyRun, FaultedAgrees
  <2> HIDE DEF f
  <2>2. Passed(f, classified', result.reports)
    BY <2>1 DEF Passed
  <2>3. QED
    BY <1>1, <2>1, <2>2, FinishKeeps
<1>4. QED
  BY <1>2, <1>3 DEF CheckPolicy

LEMMA ContextEndsKeeps ==
    ASSUME DeliveryInv, NEW err \in {"canceled", "deadline"}, ContextEnds(err)
    PROVE  DeliveryInv'
<1>1. /\ at = "classify" /\ ctxErr' = err /\ UNCHANGED <<config, pc, chain, gctxErr>>
      /\ UNCHANGED <<gpc, ret, shared, result>>
      /\ at' = at /\ attempt' = attempt /\ guarded' = guarded /\ error' = error
      /\ blocked' = blocked /\ classified' = classified
      /\ allowed' = allowed /\ fallback' = fallback /\ policyOK' = policyOK
  BY DEF ContextEnds, policy, call
<1>2. TypeInv'
  BY <1>1 DEF DeliveryInv, CallType, TypeInv, TypeOK, CallInRange, CtxErrors,
              config, chain, shared
<1>3. CallType'
  BY <1>1, <1>2 DEF DeliveryInv, CallType
<1>4. PrimaryKept'
  BY <1>1 DEF DeliveryInv, PrimaryKept
<1>5. UnderCheck'
  BY <1>1 DEF DeliveryInv, UnderCheck
<1>6. NothingOut'
  BY <1>1 DEF DeliveryInv, NothingOut
<1>7. QED
  BY <1>1, <1>3, <1>4, <1>5, <1>6 DEF DeliveryInv, RunKept, Answered

LEMMA DeliveryStays == DeliveryInv /\ UNCHANGED deliveryVars => DeliveryInv'
<1> SUFFICES ASSUME DeliveryInv, UNCHANGED deliveryVars PROVE DeliveryInv'
  OBVIOUS
<1>1. /\ UNCHANGED vars /\ result' = result
      /\ at' = at /\ attempt' = attempt /\ guarded' = guarded /\ error' = error
      /\ blocked' = blocked /\ classified' = classified
      /\ allowed' = allowed /\ fallback' = fallback /\ policyOK' = policyOK
  BY DEF deliveryVars, vars, policy, call
<1>2. TypeInv' /\ (PromiseInv => PromiseInv')
  BY <1>1, StutterType, PromiseStep DEF DeliveryInv, CallType
<1>3. CallType'
  BY <1>1, <1>2 DEF DeliveryInv, CallType
<1>4. PrimaryKept'
  BY <1>1 DEF DeliveryInv, PrimaryKept
<1>5. UnderCheck' /\ NothingOut' /\ RunKept'
  BY <1>1, <1>2 DEF DeliveryInv, UnderCheck, NothingOut, RunKept
<1>6. Answered'
  BY <1>1 DEF DeliveryInv, Answered, Passed, CarriesStop
<1>7. QED
  BY <1>3, <1>4, <1>5, <1>6 DEF DeliveryInv

LEMMA DeliveryStarts == DeliveryInit => DeliveryInv
<1> SUFFICES ASSUME DeliveryInit PROVE DeliveryInv
  OBVIOUS
<1>1. /\ TypeInv /\ pc = "enter" /\ at = "enter" /\ attempt = "primary"
      /\ guarded = EmptyDelivery /\ error = "nil" /\ blocked = <<>> /\ classified = <<>>
      /\ policyOK \in BOOLEAN /\ allowed \in SUBSET PayloadKinds
      /\ fallback \in Optional(Values)
  BY InitType DEF DeliveryInit, Init
<1>2. fallback \in AtMostOne(Values)
  BY <1>1, OptionalIsSeq
<1>3. CallType
  BY <1>1, <1>2, EmptyRun DEF CallType, ErrorClasses, AtMostOne
<1>4. RunKept
  BY <1>1 DEF RunKept, PromiseInv, RunKeepsPromise
<1>5. QED
  BY <1>1, <1>3, <1>4, EmptyRun
     DEF DeliveryInv, PrimaryKept, UnderCheck, Answered, NothingOut

LEMMA DeliveryStep ==
    DeliveryInv /\ [DeliveryNext]_deliveryVars => DeliveryInv'
BY CheckPolicyKeeps, RunReturnsKeeps, ClassifyKeeps, RunStepKeeps, ContextEndsKeeps,
   DeliveryStays DEF DeliveryNext, Guard, DeliveryFinished

LEMMA DeliveryInvariant == DeliverySpec => []DeliveryInv
<1>1. QED
  BY DeliveryStarts, DeliveryStep, PTL DEF DeliverySpec

-----------------------------------------------------------------------------
(* What GuardDelivery guarantees.                                          *)

(* For every pipeline, classifier and policy: a value leaves only in the   *)
(* form that was classified, only within the payload kinds the channel     *)
(* allows, and never below what any report of its run said of it; a value  *)
(* that does not leave is not in the result.                               *)
THEOREM OnlyEligibleEverDelivered == DeliverySpec => []OnlyEligibleDelivered
<1>1. DeliveryInv => OnlyEligibleDelivered
  BY DEF DeliveryInv, Answered, Passed, OnlyEligibleDelivered
<1>2. QED
  BY <1>1, DeliveryInvariant, PTL

(* No fault, be it of a validator, of the context or of the classifier,    *)
(* opens the way to the fallback, and a fallback that is delivered carries *)
(* the decision and the reports of the stop that led to it.                *)
THEOREM FallbackOnlyEverAfterStop == DeliverySpec => []FallbackOnlyAfterStop
<1>1. DeliveryInv => FallbackOnlyAfterStop
  <2> SUFFICES ASSUME DeliveryInv PROVE FallbackOnlyAfterStop
    OBVIOUS
  <2>1. ASSUME attempt = "fallback"
        PROVE  /\ blocked[1].error \in {"blocked", "retry"}
               /\ ReportPriority(Decision(blocked[1].guarded.reports)) < 7
    <3> DEFINE b   == blocked[1].guarded
               rep == Decision(b.reports)
    <3>1. /\ blocked[1].error \in StopErrors /\ b \in GuardedDelivery
          /\ EffectiveDisposition(rep) = DispositionOf(blocked[1].error)
      BY <2>1 DEF DeliveryInv, PrimaryKept, Stops, Agrees
    <3>2. rep \in Report
      BY <3>1, DecisionType DEF GuardedDelivery
    <3>3. EffectiveDisposition(rep) # "system_fault"
      BY <3>1 DEF StopErrors, DispositionOf
    <3>4. ReportPriority(rep) \in 1..7 /\ ReportPriority(rep) # 7
      BY <3>2, <3>3, RankOfReport, PriorityRange
    <3> HIDE DEF rep
    <3>5. ReportPriority(rep) < 7
      BY <3>4
    <3>6. QED
      BY <3>1, <3>5 DEF StopErrors, rep
  <2>2. ASSUME guarded.fallback
        PROVE  /\ error = blocked[1].error
               /\ guarded.decision = blocked[1].guarded.decision
               /\ ErrorFromDecision(Decision(guarded.reports)) # "nil"
    BY <2>2 DEF DeliveryInv, NothingOut, Answered, CarriesStop
  <2>3. QED
    BY <2>1, <2>2 DEF FallbackOnlyAfterStop
<1>2. QED
  BY <1>1, DeliveryInvariant, PTL

\* Every step of the call leads to a later stage, the nested call counted after
\* the first.
LEMMA StagesAdvance ==
    DeliveryInv /\ [DeliveryNext]_deliveryVars => [Position' > Position]_<<at, attempt>>
<1> SUFFICES ASSUME DeliveryInv, [DeliveryNext]_deliveryVars,
                    ~UNCHANGED <<at, attempt>>
             PROVE  Position' > Position
  OBVIOUS
<1>1. /\ at \in {"enter", "run", "classify", "done"}
      /\ attempt \in {"primary", "fallback"}
  BY DEF DeliveryInv, CallType
<1>2. \/ at = "enter" /\ at' \in {"run", "done"} /\ attempt' = attempt
      \/ at = "run" /\ at' \in {"classify", "done"} /\ attempt' = attempt
      \/ at = "classify" /\ at' = "done" /\ attempt' = attempt
      \/ /\ at \in {"run", "classify"} /\ at' = "run"
         /\ attempt = "primary" /\ attempt' = "fallback"
  <2>1. ASSUME NEW g, NEW err, Finish(g, err)
        PROVE  at' = "done" /\ attempt' = attempt
    BY <2>1 DEF Finish
  <2>2. ASSUME NEW g, NEW err, TryFallback(g, err)
        PROVE  \/ at' = "done" /\ attempt' = attempt
               \/ at' = "run" /\ attempt = "primary" /\ attempt' = "fallback"
    BY <2>2, <2>1 DEF TryFallback
  <2>3. CASE CheckPolicy
    BY <2>3, <2>1 DEF CheckPolicy
  <2>4. CASE RunReturns
    BY <2>4, <2>1, <2>2 DEF RunReturns
  <2>5. ASSUME NEW answer \in ClassifierAnswers, Classify(answer)
        PROVE  \/ at = "classify" /\ at' = "done" /\ attempt' = attempt
               \/ /\ at = "classify" /\ at' = "run"
                  /\ attempt = "primary" /\ attempt' = "fallback"
    BY <2>5, <2>1, <2>2 DEF Classify
  <2>6. CASE RunStep \/ UNCHANGED deliveryVars
    BY <2>6 DEF RunStep, deliveryVars, call
  <2>7. ASSUME NEW err \in {"canceled", "deadline"}, ContextEnds(err) PROVE FALSE
    BY <2>7 DEF ContextEnds, call
  <2>8. QED
    BY <2>3, <2>4, <2>5, <2>6, <2>7 DEF DeliveryNext, Guard, DeliveryFinished
<1>3. QED
  BY <1>1, <1>2 DEF Position

(* GuardDelivery passes each of its stages at most once per attempt, in    *)
(* order, and makes at most two attempts, whatever the fallback value      *)
(* makes the validators say.                                               *)
THEOREM FallsBackAtMostOnce == DeliverySpec => FallsBackOnce
<1>1. QED
  BY DeliveryInvariant, StagesAdvance, PTL DEF DeliverySpec, FallsBackOnce

\* The answer of the call, as the promise sees it.
Reply == IF at = "done" THEN <<ReplyOf(guarded, error)>> ELSE <<>>

LEMMA PromiseStarts == DeliveryInit => Promise!Init
BY DEF DeliveryInit, Promise!Init

LEMMA PromiseStepKept ==
    DeliveryInv /\ DeliveryInv' /\ [DeliveryNext]_deliveryVars
        => [Promise!Reply]_Reply
<1> SUFFICES ASSUME DeliveryInv, DeliveryInv', [DeliveryNext]_deliveryVars
             PROVE  [Promise!Reply]_Reply
  OBVIOUS
<1>1. CASE at = "done"
  <2>1. UNCHANGED deliveryVars
    BY <1>1 DEF DeliveryNext, Guard, CheckPolicy, RunReturns, Classify, RunStep,
                ContextEnds, DeliveryFinished
  <2>2. at' = at /\ guarded' = guarded /\ error' = error
    BY <2>1 DEF deliveryVars, call
  <2>3. QED
    BY <2>2 DEF Reply, ReplyOf
<1>2. CASE at # "done" /\ at' # "done"
  BY <1>2 DEF Reply
<1>3. CASE at # "done" /\ at' = "done"
  <2>1. ReplyOf(guarded, error)' \in Answers
    BY <1>3 DEF DeliveryInv, Answered
  <2>2. Reply = <<>> /\ Reply' = <<ReplyOf(guarded, error)'>>
    BY <1>3 DEF Reply
  <2>3. Promise!Answers = Answers
    BY DEF Promise!Answers, Answers
  <2>4. Promise!Reply <=> Reply = <<>> /\ \E a \in Promise!Answers : Reply' = <<a>>
    BY Zenon DEF Promise!Reply, Reply, ReplyOf
  <2>5. QED
    BY <2>1, <2>2, <2>3, <2>4
<1>4. QED
  BY <1>1, <1>2, <1>3

(* GuardDelivery implements its promise: it answers once, and its error,   *)
(* its decision and its deliverability agree.  This is what the stream     *)
(* processor takes for granted of it.                                      *)
THEOREM PromiseAlwaysKept == DeliverySpec => PromiseKept
<1>1. (DeliveryInv /\ DeliveryInv' /\ [DeliveryNext]_deliveryVars)
         => [Promise!Reply]_(IF at = "done"
                  THEN <<[error       |-> error,
                          disposition |-> guarded.decision.disposition,
                          deliverable |-> guarded.deliverable,
                          fallback    |-> guarded.fallback]>>
                  ELSE <<>>)
  BY PromiseStepKept DEF Reply, ReplyOf
<1>2. QED
  BY <1>1, PromiseStarts, DeliveryInvariant, PTL
     DEF DeliverySpec, PromiseKept, Promise!Spec
=============================================================================
