------------------------------ MODULE Delivery ------------------------------
(***************************************************************************)
(* One call of Pipeline.GuardDelivery: a run of the pipeline on the output,*)
(* the delivery policy applied to what the run hands back, and, after a    *)
(* policy stop, the same again for the fallback value.  The nested call    *)
(* has its fallback disabled, so there are at most two attempts; the state *)
(* of the first is kept aside in blocked while the second runs.            *)
(*                                                                         *)
(* The run itself is Pipeline.tla, step by step.                           *)
(***************************************************************************)
EXTENDS Pipeline

VARIABLES
    \* The delivery policy.
    policyOK,     \* the policy is valid
    allowed,      \* AllowedPayloadKinds
    fallback,     \* Fallback, if there is one
    \* The call.
    at,           \* where GuardDelivery is
    attempt,      \* "primary", or "fallback" in the nested call
    guarded,      \* the GuardedDelivery under construction
    error,        \* class of the error returned with it
    blocked,      \* the primary attempt, while the fallback is checked
    classified    \* the value last classified and the classifier's answer

policy       == <<policyOK, allowed, fallback>>
call         == <<at, attempt, guarded, error, blocked, classified>>
deliveryVars == <<vars, policy, call>>

GuardedDelivery ==
    [value       : Values,
     kind        : PayloadKinds,
     decision    : HostDecision,
     reports     : Seq(Report),
     deliverable : BOOLEAN,
     fallback    : BOOLEAN]

ClassifierAnswers == PayloadKinds \cup {"invalid", "error"}

-----------------------------------------------------------------------------

\* guardedOutputFromRun.
GuardedFromRun(r) ==
    LET d == PolicyDecision(r.reports, r.kind)
    IN  [value       |-> r.output,
         kind        |-> r.kind,
         decision    |-> d,
         reports     |-> r.reports,
         deliverable |-> d.disposition = "none",
         fallback    |-> FALSE]

SuppressDelivery(g) ==
    [g EXCEPT !.value = Zero, !.deliverable = FALSE, !.fallback = FALSE]

\* Mutant: the decision of the run stays in force beside the fault.
FaultKeepsDecision(g) ==
    SuppressDelivery([g EXCEPT
        !.reports = Append(@, [ValidatorFaultReport EXCEPT !.kind = g.kind])])

\* deliveryFault.
Faulted(g) ==
    LET rep == [ValidatorFaultReport EXCEPT !.kind = g.kind]
    IN  SuppressDelivery([g EXCEPT !.reports = Append(@, rep),
                                   !.decision = DecisionFromReport(rep)])

\* applyDeliveryPolicy, once the classifier has named a kind.
Released(g, kind) ==
    LET deliverable == g.decision.disposition = "none"
    IN  [g EXCEPT !.kind = kind,
                  !.decision.kind = kind,
                  !.deliverable = deliverable,
                  !.value = IF deliverable THEN @ ELSE Zero]

Denied(g, kind) ==
    LET rep == FinishReport(BlankReport("block", kind), "block", FALSE)
    IN  SuppressDelivery([g EXCEPT !.kind = kind,
                                   !.reports = Append(@, rep),
                                   !.decision = DecisionFromReport(rep)])

\* Mutant: the classifier's answer replaces what the validators observed.
ClassifierDecides(observed, kind) == kind

\* A classifier cannot downgrade an observed kind.
StricterKind(observed, kind) ==
    IF PayloadKindPriority(observed) > PayloadKindPriority(kind) THEN observed ELSE kind

\* The tail of checkedDeliveryFallback: the nested call ended with checked and err.
Fallen(checked, err) ==
    IF err # "nil" \/ ~checked.deliverable
    THEN IF DecisionDisposition(checked.decision) = "system_fault"
         THEN [guarded |-> SuppressDelivery(checked), error |-> err]
         ELSE [guarded |-> SuppressDelivery(blocked[1].guarded),
               error   |-> blocked[1].error]
    ELSE [guarded |-> [blocked[1].guarded EXCEPT
                         !.value       = checked.value,
                         !.kind        = checked.kind,
                         !.deliverable = TRUE,
                         !.fallback    = TRUE,
                         !.reports     = @ \o checked.reports],
          error   |-> blocked[1].error]

\* GuardDelivery returns g and err, in the nested call to its caller's tail.
Finish(g, err) ==
    LET end == IF attempt = "primary" THEN [guarded |-> g, error |-> err]
               ELSE Fallen(g, err)
    IN  /\ at' = "done"
        /\ guarded' = end.guarded
        /\ error' = end.error
        /\ UNCHANGED <<attempt, blocked, vars>>

\* A fresh Run on value v, under the same context and scope.
StartRun(v) ==
    /\ pc' = "enter"
    /\ next' = 1
    /\ current' = v
    /\ reports' = <<>>
    /\ chainRet' = [i \in 1..ChainLen |-> NoReturn]
    /\ gctxErr' = "none"
    /\ gpc' = [g \in Par |-> "call"]
    /\ ret' = [g \in Par |-> NoReturn]
    /\ block' = FALSE
    /\ retry' = FALSE
    /\ slowReps' = <<>>
    /\ firstErr' = <<>>
    /\ groupErr' = <<>>
    /\ result' = NoResult
    /\ UNCHANGED <<config, ctxErr>>

\* Mutant: the nested call may fall back again.
TryFallbackAgain(g, err) ==
    \/ /\ fallback # <<>>
       /\ blocked' = <<[guarded |-> g, error |-> err]>>
       /\ attempt' = "fallback"
       /\ at' = "run"
       /\ StartRun(fallback[1])
       /\ UNCHANGED <<guarded, error>>
    \/ /\ fallback = <<>>
       /\ Finish(SuppressDelivery(g), err)

\* A policy stop: check the fallback, if this call has one.
TryFallback(g, err) ==
    \/ /\ attempt = "primary"
       /\ fallback # <<>>
       /\ blocked' = <<[guarded |-> g, error |-> err]>>
       /\ attempt' = "fallback"
       /\ at' = "run"
       /\ StartRun(fallback[1])
       /\ UNCHANGED <<guarded, error>>
    \/ /\ attempt = "fallback" \/ fallback = <<>>
       /\ Finish(SuppressDelivery(g), err)

-----------------------------------------------------------------------------

EmptyDelivery == GuardedFromRun(NoResult)

DeliveryInit ==
    /\ Init
    /\ policyOK \in BOOLEAN
    /\ allowed \in SUBSET PayloadKinds \ {{}}
    /\ fallback \in Optional(Values)
    /\ at = "enter"
    /\ attempt = "primary"
    /\ guarded = EmptyDelivery
    /\ error = "nil"
    /\ blocked = <<>>
    /\ classified = <<>>

(* An invalid policy is a fault before anything runs.                      *)
CheckPolicy ==
    /\ at = "enter"
    /\ IF policyOK
       THEN /\ at' = "run"
            /\ UNCHANGED <<attempt, guarded, error, blocked, vars>>
       ELSE Finish(Faulted(EmptyDelivery), "fault")
    /\ UNCHANGED <<policy, classified>>

(* A step of the run, or of its caller's context.                          *)
RunStep ==
    /\ at = "run"
    /\ pc # "done"
    /\ Next
    /\ UNCHANGED <<policy, call>>

\* Mutant: a fault decision is treated like a policy stop.
RunReturnsFaultIsStop ==
    LET g   == GuardedFromRun(result)
        err == ErrorFromDecision(Decision(result.reports))
    IN  /\ at = "run"
        /\ pc = "done"
        /\ \/ result.fault /\ Finish(SuppressDelivery(g), "fault")
           \/ ~result.fault /\ err # "nil" /\ TryFallback(g, err)
           \/ /\ ~result.fault
              /\ err = "nil"
              /\ at' = "classify"
              /\ guarded' = g
              /\ UNCHANGED <<attempt, error, blocked, vars>>
        /\ UNCHANGED <<policy, classified>>

(* The run has returned.                                                   *)
RunReturns ==
    LET g   == GuardedFromRun(result)
        err == ErrorFromDecision(Decision(result.reports))
        faulty == DecisionDisposition(g.decision) = "system_fault"
    IN  /\ at = "run"
        /\ pc = "done"
        /\ \/ result.fault /\ Finish(SuppressDelivery(g), "fault")
           \/ ~result.fault /\ err # "nil" /\ faulty /\ Finish(SuppressDelivery(g), err)
           \/ ~result.fault /\ err # "nil" /\ ~faulty /\ TryFallback(g, err)
           \/ /\ ~result.fault
              /\ err = "nil"
              /\ at' = "classify"
              /\ guarded' = g
              /\ UNCHANGED <<attempt, error, blocked, vars>>
        /\ UNCHANGED <<policy, classified>>

(* The context ends while the classifier runs.                             *)
ContextEnds(err) ==
    /\ at = "classify"
    /\ ctxErr = "none"
    /\ ctxErr' = err
    /\ UNCHANGED <<config, pc, chain, gctxErr, gpc, ret, shared, result, policy, call>>

\* Mutant: a kind outside the enumeration is taken at face value.
ClassifierTrusted(answer) == ctxErr # "none" \/ answer = "error"

\* A dead context, an error, a panic, or a kind outside the enumeration.
ClassifierFailed(answer) == ctxErr # "none" \/ answer \notin PayloadKinds

(* The classifier answers; the context is checked before its answer is     *)
(* looked at.  A panic is an error.                                        *)
Classify(answer) ==
    LET kind == StricterKind(guarded.kind, answer)
    IN  /\ at = "classify"
        /\ \/ /\ ClassifierFailed(answer)
              /\ Finish(Faulted(guarded), "fault")
           \/ /\ ~ClassifierFailed(answer)
              /\ kind \in allowed
              /\ Finish(Released(guarded, kind), "nil")
           \/ /\ ~ClassifierFailed(answer)
              /\ kind \notin allowed
              /\ TryFallback(Denied(guarded, kind), "blocked")
        /\ classified' = <<[value |-> guarded.value, kind |-> answer]>>
        /\ UNCHANGED policy

DeliveryFinished == at = "done" /\ UNCHANGED deliveryVars

Guard == CheckPolicy \/ RunReturns \/ \E answer \in ClassifierAnswers : Classify(answer)

DeliveryNext ==
    \/ Guard
    \/ RunStep
    \/ \E err \in {"canceled", "deadline"} : ContextEnds(err)
    \/ DeliveryFinished

DeliverySpec == DeliveryInit /\ [][DeliveryNext]_deliveryVars

-----------------------------------------------------------------------------
(* Properties.                                                             *)

\* A value is only handed out in the form that was classified, and only when
\* the classifier named a kind and neither it nor any report of its run puts
\* the value above what the channel allows.  What is not handed out is not in
\* the result either.
OnlyEligibleDelivered ==
    at = "done" =>
      IF ~guarded.deliverable THEN guarded.value = Zero
      ELSE
        /\ guarded.kind \in allowed
        /\ classified # <<>> /\ classified[1].value = guarded.value
        /\ classified[1].kind \in PayloadKinds
        /\ PayloadKindPriority(classified[1].kind) <= PayloadKindPriority(guarded.kind)
        /\ PayloadKindPriority(AggregatePayloadKind(result.reports))
              <= PayloadKindPriority(guarded.kind)

\* No fault, of a validator or of the classification, opens the way to the
\* fallback, and a delivered fallback still carries the stop that led to it.
FallbackOnlyAfterStop ==
    /\ attempt = "fallback" =>
          /\ blocked[1].error \in {"blocked", "retry"}
          /\ ReportPriority(Decision(blocked[1].guarded.reports)) < 7
    /\ guarded.fallback =>
          /\ error = blocked[1].error
          /\ guarded.decision = blocked[1].guarded.decision
          /\ ErrorFromDecision(Decision(guarded.reports)) # "nil"

\* GuardDelivery passes each of its stages at most once per attempt, in order,
\* and falls back at most once.  With the termination of Run this is why it
\* always returns, whatever the fallback value makes the validators say.
Position ==
    (IF attempt = "primary" THEN 0 ELSE 2)
        + [enter |-> 0, run |-> 1, classify |-> 2, done |-> 3][at]

FallsBackOnce == [][Position' > Position]_<<at, attempt>>

\* GuardDelivery keeps its promise: it answers once, and consistently.
Promise ==
    INSTANCE DeliveryPromise WITH
        answer <- IF at = "done"
                  THEN <<[error       |-> error,
                          disposition |-> guarded.decision.disposition,
                          deliverable |-> guarded.deliverable,
                          fallback    |-> guarded.fallback]>>
                  ELSE <<>>

PromiseKept == Promise!Spec
=============================================================================
