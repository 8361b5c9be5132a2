------------------------------ MODULE Pipeline ------------------------------
(***************************************************************************)
(* One call of Pipeline.Run.                                               *)
(*                                                                         *)
(* Sequential validators and then scoped policies run one after another;   *)
(* both loops have the same body, so together they are the chain, numbered *)
(* 1..ChainLen.  The parallel validators Par then run concurrently, one    *)
(* goroutine each, under a context that a sibling's deny or failure        *)
(* cancels.  The caller may cancel its own context at any moment.          *)
(*                                                                         *)
(* A Go error is the sequence of the causes joined into it (nil is <<>>).  *)
(* Of a cause the model keeps what the code asks of it: whether it is a    *)
(* context.Canceled (errors.Is), whether nothing but cancellation is in it *)
(* (cancellationOnly), and the completed observations it carries.  A       *)
(* recovered panic is a cause that is never cancellation only.             *)
(***************************************************************************)
EXTENDS Reports

CONSTANTS
    Values,            \* the payload type T
    Zero,              \* its zero value
    ValidatorReports,  \* the reports a validator may return
    ValidatorCauses,   \* the errors and panics a validator may fail with
    ChainLen,          \* number of sequential validators and policies
    Par                \* the parallel validators

\* own tells the callback's cause from one the pipeline joins after it; no code
\* reads it, only properties do.
Cause ==
    [canceled : BOOLEAN, only : BOOLEAN, completed : AtMostOne(Report), own : BOOLEAN]

ASSUME ValuesAssumption == Zero \in Values
ASSUME ReportsAssumption == ValidatorReports \subseteq Report
ASSUME CausesAssumption ==
    ValidatorCauses \subseteq {c \in Cause : c.own}
ASSUME ChainLenAssumption == ChainLen \in Nat

VARIABLES
    userChannel,  \* the pipeline was built with WithUserChannel
    scopeOK,      \* the scope satisfies the compiled requirements
    pc,           \* where Run is
    next,         \* index of the chain validator to run next
    current,      \* the value so far
    reports,      \* reports of the chain
    chainRet,     \* what each validator of the chain returned: no code keeps it,
                  \*   only properties read it
    ctxErr,       \* ctx.Err() of the caller's context
    gctxErr,      \* gctx.Err() of the parallel phase
    gpc,          \* where each goroutine is
    ret,          \* what each goroutine's validator returned
    block,        \* block # nil
    retry,        \* retry # nil
    slowReps,     \* reports of the parallel phase
    firstErr,     \* the first error a goroutine noted
    groupErr,     \* the first error a goroutine returned to the errgroup
    result        \* what Run returned

config == <<userChannel, scopeOK>>
chain  == <<next, current, reports, chainRet>>
shared == <<block, retry, slowReps, firstErr, groupErr>>
vars   == <<config, pc, chain, ctxErr, gctxErr, gpc, ret, shared, result>>

CtxErrors == {"none", "canceled", "deadline"}

GoroutinePCs ==
    {"call", "evidence", "stopped", "note", "fail", "append", "decide", "done"}

Results ==
    [output   : Values,
     reports  : Seq(Report),
     kind     : PayloadKinds,
     fault    : BOOLEAN,           \* an error was returned
     failure  : HostDecision,      \* its PolicyFailure.Decision
     evidence : AtMostOne(Report)]  \* the completed observations it carries

-----------------------------------------------------------------------------
(* Errors.                                                                 *)

CauseOfContext(err) ==
    [canceled |-> err = "canceled", only |-> TRUE, completed |-> <<>>, own |-> FALSE]

\* ctx.Err() as an error.
ContextError(err) == IF err = "none" THEN <<>> ELSE <<CauseOfContext(err)>>

\* The library's own failures: a missing scope key, a forbidden redaction.
PlainCause ==
    [canceled |-> FALSE, only |-> FALSE, completed |-> <<>>, own |-> TRUE]

IsCanceled(err) == \E i \in DOMAIN err : err[i].canceled

\* Mutant: one cancelled branch of a joined error excuses the others.
CancellationAny(err) == \E i \in DOMAIN err : err[i].only

CancellationOnly(err) == err # <<>> /\ \A i \in DOMAIN err : err[i].only

\* Mutant: only the last joined branch is searched for carriers.
CompletedOfLast(err) == IF err = <<>> THEN <<>> ELSE err[Len(err)].completed

\* The carriers of every joined branch.  A context cause has none, so at most
\* the validator's own cause, the first of the sequence, contributes.
CompletedReports(err) == IF err = <<>> THEN <<>> ELSE err[1].completed

CompletedReportFromError(err) ==
    IF CompletedReports(err) = <<>> THEN <<>>
    ELSE <<ComposeReports(CompletedReports(err))>>

AppendCompletedObservations(reps, err) ==
    reps \o NormalizeAll(CompletedReportFromError(err))

\* The report inside the CompletedObservationsError that wraps a cause.
WithCompletedObservations(err, completed) ==
    LET all == completed \o CompletedReportFromError(err)
    IN  IF all = <<>> THEN <<>> ELSE <<ComposeReports(all)>>

-----------------------------------------------------------------------------
(* Results.                                                                *)

NoResult ==
    [output |-> Zero, reports |-> <<>>, kind |-> "safe", fault |-> FALSE,
     failure |-> PassDecision, evidence |-> <<>>]

UserChannelBlock(kind) == FinishReport(BlankReport("block", kind), "block", FALSE)

\* Mutant: the user channel only looks at payload kinds.
FinalizeIgnoresDeny(output, reps) ==
    LET kind == AggregatePayloadKind(reps)
        unsafe == userChannel /\ kind # "safe"
        all == IF unsafe THEN Append(reps, UserChannelBlock(kind)) ELSE reps
    IN  [NoResult EXCEPT !.output  = IF unsafe THEN Zero ELSE output,
                         !.reports = all,
                         !.kind    = AggregatePayloadKind(all)]

FinalizeResult(output, reps) ==
    LET kind   == AggregatePayloadKind(reps)
        unsafe == userChannel /\ kind # "safe"
        all    == IF unsafe THEN Append(reps, UserChannelBlock(kind)) ELSE reps
        denied == userChannel /\ \/ IsTerminalDeny(Decision(all))
                                 \/ IsSystemFault(Decision(all))
    IN  [NoResult EXCEPT !.output  = IF unsafe \/ denied THEN Zero ELSE output,
                         !.reports = all,
                         !.kind    = AggregatePayloadKind(all)]

ValidatorFaultResult(output, reps, err) ==
    LET all  == Append(reps, ValidatorFaultReport)
        kind == AggregatePayloadKind(all)
    IN  [output   |-> output,
         reports  |-> all,
         kind     |-> kind,
         fault    |-> TRUE,
         failure  |-> PolicyFailureFromReport(PolicyDecisionReport(all, kind)),
         evidence |-> WithCompletedObservations(err, reps)]

Return(r) == pc' = "done" /\ result' = r

-----------------------------------------------------------------------------

\* What a validator returned, and before it did.
Returns == [rep : AtMostOne(Report), err : Seq(Cause)]

NoReturn == [rep |-> <<>>, err |-> <<>>]

Init ==
    /\ userChannel \in BOOLEAN
    /\ scopeOK \in BOOLEAN
    /\ pc = "enter"
    /\ next = 1
    /\ current \in Values
    /\ reports = <<>>
    /\ chainRet = [i \in 1..ChainLen |-> NoReturn]
    /\ ctxErr \in CtxErrors
    /\ gctxErr = "none"
    /\ gpc = [g \in Par |-> "call"]
    /\ ret = [g \in Par |-> NoReturn]
    /\ block = FALSE
    /\ retry = FALSE
    /\ slowReps = <<>>
    /\ firstErr = <<>>
    /\ groupErr = <<>>
    /\ result = NoResult

(* The caller's context ends, by cancellation or at its deadline.          *)
CancelContext(err) ==
    /\ pc # "done"
    /\ ctxErr = "none"
    /\ ctxErr' = err
    /\ UNCHANGED <<config, pc, chain, gctxErr, gpc, ret, shared, result>>

(* The derived context learns of it.  A context keeps its first error.     *)
PropagateCancellation ==
    /\ pc = "parallel"
    /\ ctxErr # "none"
    /\ gctxErr = "none"
    /\ gctxErr' = ctxErr
    /\ UNCHANGED <<config, pc, chain, ctxErr, gpc, ret, shared, result>>

-----------------------------------------------------------------------------
(* The sequential part.                                                    *)

CheckScope ==
    /\ pc = "enter"
    /\ IF scopeOK
       THEN pc' = "check" /\ UNCHANGED result
       ELSE Return(ValidatorFaultResult(current, <<>>, <<PlainCause>>))
    /\ UNCHANGED <<config, chain, ctxErr, gctxErr, gpc, ret, shared>>

\* Mutant: the loop bound is one too high.
CheckBeforeOffByOne ==
    /\ pc = "check"
    /\ next <= ChainLen + 1
    /\ IF ctxErr = "none"
       THEN pc' = "call" /\ UNCHANGED result
       ELSE Return(ValidatorFaultResult(current, reports, ContextError(ctxErr)))
    /\ UNCHANGED <<config, chain, ctxErr, gctxErr, gpc, ret, shared>>

\* What is kept of a validator's answer: a report beside an error is dropped.
Kept(rep, err) == [rep |-> IF err = <<>> THEN rep ELSE <<>>, err |-> err]

(* The context check before each validator of the chain.                   *)
CheckBefore ==
    /\ pc = "check"
    /\ next <= ChainLen
    /\ IF ctxErr = "none"
       THEN pc' = "call" /\ UNCHANGED result
       ELSE Return(ValidatorFaultResult(current, reports, ContextError(ctxErr)))
    /\ UNCHANGED <<config, chain, ctxErr, gctxErr, gpc, ret, shared>>

\* Mutant: the evidence of a failed validator is not appended to the reports.
ChainFailureAlone(out, err) ==
    /\ Return(ValidatorFaultResult(current, reports, err))
    /\ UNCHANGED <<next, current, reports>>

ChainFailure(out, err) ==
    /\ Return(ValidatorFaultResult(
                  current, AppendCompletedObservations(reports, err), err))
    /\ UNCHANGED <<next, current, reports>>

ChainSuccess(out, rep) ==
    LET reps == reports \o NormalizeAll(rep)
    IN  IF rep # <<>> /\ ShouldShortCircuitValidator(rep[1])
        THEN /\ Return(FinalizeResult(out, reps))
             /\ UNCHANGED <<next, current, reports>>
        ELSE /\ pc' = "check"
             /\ next' = next + 1
             /\ current' = out
             /\ reports' = reps
             /\ UNCHANGED result

(* A validator of the chain returns; the context is checked again before   *)
(* its result is looked at.                                                *)
ChainReturns(out, rep, cause) ==
    /\ pc = "call"
    /\ LET err == cause \o ContextError(ctxErr)
       IN  /\ IF err # <<>> THEN ChainFailure(out, err) ELSE ChainSuccess(out, rep)
           /\ chainRet' = [chainRet EXCEPT ![next] = Kept(rep, err)]
    /\ UNCHANGED <<config, ctxErr, gctxErr, gpc, ret, shared>>

(* The chain is through.  Without parallel validators the run ends here.   *)
ChainDone ==
    /\ pc = "check"
    /\ next > ChainLen
    /\ \/ /\ Par # {}
          /\ pc' = "parallel"
          /\ gctxErr' = ctxErr   \* a context derived from a dead one is dead
          /\ UNCHANGED result
       \/ /\ Par = {}
          /\ Return(IF ctxErr = "none" THEN FinalizeResult(current, reports)
                    ELSE ValidatorFaultResult(current, reports, ContextError(ctxErr)))
          /\ UNCHANGED gctxErr
    /\ UNCHANGED <<config, chain, ctxErr, gpc, ret, shared>>

-----------------------------------------------------------------------------
(* The goroutine of parallel validator g.  Each action is one critical     *)
(* section of the mutex, or one step outside it.                           *)

AtGoroutine(g, from, to) ==
    /\ pc = "parallel"
    /\ gpc[g] = from
    /\ gpc' = [gpc EXCEPT ![g] = to]

ForbiddenRedaction(rep) == rep # <<>> /\ rep[1].action = "redact"

AfterReturn(rep, err) ==
    IF err # <<>> THEN "evidence"
    ELSE IF ForbiddenRedaction(rep) THEN "note"
    ELSE IF rep # <<>> THEN "append"
    ELSE "done"

(* The validator returns and the group context is checked.  A report that  *)
(* comes with an error is dropped; a redaction is an error of its own.     *)
ParReturns(g, rep, cause) ==
    LET err == cause \o ContextError(gctxErr)
    IN  /\ AtGoroutine(g, "call", AfterReturn(rep, err))
        /\ ret' = [ret EXCEPT ![g] =
                     IF err = <<>> /\ ForbiddenRedaction(rep)
                     THEN [rep |-> <<>>, err |-> <<PlainCause>>]
                     ELSE Kept(rep, err)]
        /\ UNCHANGED <<config, pc, chain, ctxErr, gctxErr, shared, result>>

(* Keep the evidence of a failed check, then see whether the failure may   *)
(* be a sibling's cancellation: the caller's context must be live.         *)
KeepEvidence(g) ==
    /\ AtGoroutine(g, "evidence",
           IF /\ IsCanceled(ret[g].err)
              /\ CancellationOnly(ret[g].err)
              /\ ctxErr = "none"
           THEN "stopped" ELSE "note")
    /\ slowReps' = AppendCompletedObservations(slowReps, ret[g].err)
    /\ UNCHANGED <<config, pc, chain, ctxErr, gctxErr, ret,
                   block, retry, firstErr, groupErr, result>>

\* Mutant: a cancelled goroutine waits for the decision that explains it.
CheckStoppedWaits(g) ==
    /\ block \/ retry
    /\ AtGoroutine(g, "stopped", "done")
    /\ UNCHANGED <<config, pc, chain, ctxErr, gctxErr, ret, shared, result>>

(* A cancellation after a sibling's deny or correction is not a failure.   *)
CheckStopped(g) ==
    /\ AtGoroutine(g, "stopped", IF block \/ retry THEN "done" ELSE "note")
    /\ UNCHANGED <<config, pc, chain, ctxErr, gctxErr, ret, shared, result>>

NoteFirstErr(g) ==
    /\ AtGoroutine(g, "note", "fail")
    /\ firstErr' = IF firstErr = <<>> THEN ret[g].err ELSE firstErr
    /\ UNCHANGED <<config, pc, chain, ctxErr, gctxErr, ret,
                   block, retry, slowReps, groupErr, result>>

(* The goroutine returns its error: the errgroup keeps the first one and   *)
(* cancels the group context.                                              *)
ReturnErr(g) ==
    /\ AtGoroutine(g, "fail", "done")
    /\ IF groupErr = <<>>
       THEN /\ groupErr' = ret[g].err
            /\ gctxErr' = IF gctxErr = "none" THEN "canceled" ELSE gctxErr
       ELSE UNCHANGED <<groupErr, gctxErr>>
    /\ UNCHANGED <<config, pc, chain, ctxErr, ret,
                   block, retry, slowReps, firstErr, result>>

\* Mutant: once a sibling has denied, later reports are dropped.
AppendReportUnlessStopped(g) ==
    /\ AtGoroutine(g, "append",
           IF ShouldShortCircuitValidator(ret[g].rep[1]) THEN "decide" ELSE "done")
    /\ slowReps' = IF block \/ retry THEN slowReps
                   ELSE slowReps \o NormalizeAll(ret[g].rep)
    /\ UNCHANGED <<config, pc, chain, ctxErr, gctxErr, ret,
                   block, retry, firstErr, groupErr, result>>

\* Mutant: the phase is cancelled before the deny is recorded.
AppendReportCancelsFirst(g) ==
    /\ AtGoroutine(g, "append",
           IF ShouldShortCircuitValidator(ret[g].rep[1]) THEN "decide" ELSE "done")
    /\ slowReps' = slowReps \o NormalizeAll(ret[g].rep)
    /\ gctxErr' = IF gctxErr = "none" /\ IsTerminalDeny(ret[g].rep[1])
                  THEN "canceled" ELSE gctxErr
    /\ UNCHANGED <<config, pc, chain, ctxErr, ret,
                   block, retry, firstErr, groupErr, result>>

AppendReport(g) ==
    /\ AtGoroutine(g, "append",
           IF ShouldShortCircuitValidator(ret[g].rep[1]) THEN "decide" ELSE "done")
    /\ slowReps' = slowReps \o NormalizeAll(ret[g].rep)
    /\ UNCHANGED <<config, pc, chain, ctxErr, gctxErr, ret,
                   block, retry, firstErr, groupErr, result>>

(* recordParallelDecision: a correction is noted, a deny or a fault report *)
(* also cancels the phase.                                                 *)
RecordDecision(g) ==
    /\ AtGoroutine(g, "decide", "done")
    /\ IF IsRetryableCorrection(NormalizeReport(ret[g].rep[1]))
       THEN retry' = TRUE /\ UNCHANGED <<block, gctxErr>>
       ELSE /\ block' = TRUE
            /\ gctxErr' = IF ~block /\ gctxErr = "none" THEN "canceled" ELSE gctxErr
            /\ UNCHANGED retry
    /\ UNCHANGED <<config, pc, chain, ctxErr, ret,
                   slowReps, firstErr, groupErr, result>>

\* Mutant: the caller's context is not checked after the join.
JoinUnchecked ==
    /\ pc = "parallel"
    /\ \A g \in Par : gpc[g] = "done"
    /\ LET all == reports \o slowReps
           err == IF groupErr # <<>> THEN groupErr ELSE firstErr
       IN  Return(IF err = <<>> THEN FinalizeResult(current, all)
                  ELSE ValidatorFaultResult(current, all, err))
    /\ UNCHANGED <<config, chain, ctxErr, gctxErr, gpc, ret, shared>>

(* g.Wait() returns: any failure outranks every decision.                  *)
Join ==
    /\ pc = "parallel"
    /\ \A g \in Par : gpc[g] = "done"
    /\ LET all == reports \o slowReps
           err == IF groupErr # <<>> THEN groupErr
                  ELSE IF firstErr # <<>> THEN firstErr
                  ELSE ContextError(ctxErr)
       IN  Return(IF err = <<>> THEN FinalizeResult(current, all)
                  ELSE ValidatorFaultResult(current, all, err))
    /\ UNCHANGED <<config, chain, ctxErr, gctxErr, gpc, ret, shared>>

-----------------------------------------------------------------------------

Chain ==
    \/ CheckScope
    \/ CheckBefore
    \/ \E out \in Values, rep \in Optional(ValidatorReports),
          cause \in Optional(ValidatorCauses) : ChainReturns(out, rep, cause)
    \/ ChainDone
    \/ Join

Goroutine(g) ==
    \/ \E rep \in Optional(ValidatorReports), cause \in Optional(ValidatorCauses) :
          ParReturns(g, rep, cause)
    \/ KeepEvidence(g)
    \/ CheckStopped(g)
    \/ NoteFirstErr(g)
    \/ ReturnErr(g)
    \/ AppendReport(g)
    \/ RecordDecision(g)

Environment ==
    \/ \E err \in CtxErrors \ {"none"} : CancelContext(err)
    \/ PropagateCancellation

Finished == pc = "done" /\ UNCHANGED vars

Next ==
    \/ Chain
    \/ \E g \in Par : Goroutine(g)
    \/ Environment
    \/ Finished

Spec == Init /\ [][Next]_vars

(* Callbacks are required to return (CONTRACTS.md, "Cancellation is        *)
(* cooperative"), and the Go scheduler runs every runnable goroutine.      *)
FairSpec == Spec /\ WF_vars(Chain) /\ \A g \in Par : WF_vars(Goroutine(g))

-----------------------------------------------------------------------------
(* Properties.                                                             *)

TypeOK ==
    /\ userChannel \in BOOLEAN
    /\ scopeOK \in BOOLEAN
    /\ pc \in {"enter", "check", "call", "parallel", "done"}
    /\ next \in 1..(ChainLen + 1)
    /\ current \in Values
    /\ reports \in Seq(Report)
    /\ chainRet \in [1..ChainLen -> Returns]
    /\ ctxErr \in CtxErrors
    /\ gctxErr \in CtxErrors
    /\ gpc \in [Par -> GoroutinePCs]
    /\ ret \in [Par -> Returns]
    /\ block \in BOOLEAN
    /\ retry \in BOOLEAN
    /\ slowReps \in Seq(Report)
    /\ firstErr \in Seq(Cause)
    /\ groupErr \in Seq(Cause)
    /\ result \in Results

\* The reports a check completed that returned r, in its own right or as
\* evidence carried by a cause of its failure.
Completed(r) ==
    {r.rep[i] : i \in DOMAIN r.rep} \cup
    UNION {{r.err[i].completed[j] : j \in DOMAIN r.err[i].completed} :
             i \in DOMAIN r.err}

\* What the validators of the run returned.
AllReturned == {chainRet[i] : i \in 1..ChainLen} \cup {ret[g] : g \in Par}

\* A parallel check that fails for a reason of its own makes Run fail, also
\* when a sibling has already denied, asked for a retry or been cancelled.
GenuineFaultWins ==
    pc = "done" =>
        \A g \in Par :
            (\E i \in DOMAIN ret[g].err : ~ret[g].err[i].only) => result.fault

\* Whatever the interleaving, the decision of Run is at least as strong as
\* every report a check completed before the phase was cancelled.
StrongestOutcomeWins ==
    pc = "done" =>
        \A g \in Par : \A i \in DOMAIN ret[g].rep :
            IsObservation(ret[g].rep[i])
                \/ ReportPriority(Decision(result.reports))
                        >= ReportPriority(ret[g].rep[i])

\* Stopping the siblings of a deny is not a failure: when no check failed for
\* a reason of its own and the caller's context is live, Run returns the
\* policy decision.
SiblingCancellationBenign ==
    (/\ pc = "done"
     /\ ctxErr = "none"
     /\ Par # {}
     /\ \A g \in Par : /\ gpc[g] = "done"
                        /\ \A i \in DOMAIN ret[g].err : ~ret[g].err[i].own)
        => ~result.fault

\* The payload kind of every completed observation, of the chain and of the
\* parallel phase, evidence carried by a failed check included, is still in
\* force in the result, in the returned failure and in the evidence an
\* enclosing pipeline will read.
EvidenceSurvives ==
    pc = "done" =>
        \A r \in AllReturned : \A rep \in Completed(r) :
            LET p == PayloadKindPriority(rep.kind)
            IN  /\ p <= PayloadKindPriority(result.kind)
                /\ result.fault =>
                     /\ p <= PayloadKindPriority(result.failure.kind)
                     /\ result.evidence # <<>>
                     /\ p <= PayloadKindPriority(result.evidence[1].kind)

\* No validator runs after the chain has produced a mandatory outcome.
ChainStopsAtDecision ==
    pc \in {"check", "call", "parallel"} =>
        \A i \in DOMAIN reports :
            IsObservation(reports[i]) \/ ReportPriority(reports[i]) <= 2

\* Run answers what the boundaries built on it rely on, those modules that use
\* RunAnswers in its place: the aggregate kind is that of the reports it comes
\* with, a failure is the last of them, and neither an ended context nor a
\* scope that lacks something gets anything else.
RunKeepsPromise ==
    pc = "done" => KeepsRunPromise(result, ctxErr # "none" \/ ~scopeOK)

\* The value Run hands back was produced by a completed check: a failed
\* callback's value is never used, the parallel phase changes nothing, and on
\* the user channel only a safe value that nothing denied gets through.
OutputProvenance ==
    pc = "done" =>
        /\ result.fault => result.output = current
        /\ next > ChainLen => result.output \in {current, Zero}
        /\ userChannel /\ ~result.fault /\ result.output # Zero =>
              /\ result.kind = "safe"
              /\ ErrorFromDecision(Decision(result.reports)) \in {"nil", "retry"}

\* A check that fails while nothing has cancelled the phase is a fault, even
\* when its own operation was cancelled.
LiveFailureFaults ==
    pc = "done" /\ ctxErr = "none" /\ gctxErr = "none" =>
        \A g \in Par : ret[g].err # <<>> => result.fault

\* Every run returns.
Termination == <>(pc = "done")
=============================================================================
