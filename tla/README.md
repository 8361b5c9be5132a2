# Formal verification of guardy

TLA+ models of the guard library in this repository: what a report means, how a
pipeline run reduces the answers of concurrent validators to one decision, how a
value is delivered or withheld, how a stream is cut into checked units and fed
from a producer, how tool arguments and HTTP requests pass their guards, how text
is redacted with a shared token vault, and how a release survives a crash.
TLC checks the models on small instances; TLAPS proves what matters most about
them for every value of their constants.

Paths below are relative to the repository's root. `PROJECT.json` maps every
definition to the lines it stands for, lists the runs with their properties, a
mutation of the code for each property, the hazards and the theorems.

## 1. Inventory

| Component | Source | State it keeps | Operations | What makes it correct |
|---|---|---|---|---|
| Report algebra | `guardy.go`, `disposition.go`, `payload.go`, `decision.go`, `report_control.go`, `errors.go`, `completed_observations.go` | none: pure functions of reports and error trees | classify, normalize, reduce (`Decision`), compose, project, aggregate payload kinds, carry evidence in errors | verdict independent of report order and of nesting; a fault or a malformed report outranks everything; nothing appended weakens the verdict; the host's projection agrees with the report it came from |
| Pipeline run | `pipeline.go`, `validator_panic.go` | per run: current value, reports, phase context, and, under one mutex, `block`, `retry`, `slowReps`, `firstErr` | scope check, chain, parallel phase, join, finalize, fault | no interleaving hides a genuine failure or a stronger report; an ended context is a fault; cancelling siblings is not; evidence survives a fault; a run returns |
| Guarded delivery | `guarded_output.go` | per call | `GuardDelivery`: run, classify, release / downgrade / fall back | only a classified, allowed value leaves; a fault never opens the fallback; one fallback at most; answer consistent |
| Stream pending buffer | `stream.go` | a ring of bytes | append, consume, clear | bounded first-in first-out queue |
| Stream processor | `release.go`, `stream_splitter.go` | under one mutex: pending bytes, frame scanner, counters, terminal outcome, fallback flag | `WriteContext`, `Complete`, `Abort`, `DeliverFallback` | units depend on the bytes and not on how they were written; no byte lost or repeated; budgets; sticky outcome; calls return |
| Typed arguments | `args.go`, `decode.go`, `interceptor.go` | per call | raw guard, bind, post-bind hook, encode, final guard | the value handed out is the one the final guard saw; an ended context outranks a correction |
| JSON arguments | `json_args.go`, `internal/jsondoc` | per call | the same over documents | as above; document checks before rewriting |
| HTTP guard | `http_guard.go` | request body and its owner, response | read, extract, guard, inject, hand off | every body closed once on every path; no handler after a stop |
| Scope and boundary | `boundary.go`, `scope.go` | none | `ScopeFactory`, requirement checks | a missing fact is a fault before any validator runs |
| Token vault | `ext/token_vault.go` | under a RWMutex: counters, pairs, restores | `Store`, `Restore` | one token per original, no token for two |
| Slice mapping | `ext/map_slice.go` | per call | element-wise validation | a stop gives the input back unchanged; the report is that of all elements |
| Redacting checks | `ext/pii_masking.go`, `ext/wordlist.go` and others, `ext/jsonredact` | per call | find spans, store originals, replace | everything found is replaced, nothing else; a stop changes nothing, but for a fatal redaction called directly |
| Downstream consumer | `integration/downstream` | a producer handle and a processor | `ConsumeTextStream`, argument binders | only a completed lifecycle completes the processor; the route tells what became of the text |
| Release script | `scripts/release.sh` | files of the active record, an owned checkout, remote refs | patch/break, resume, inspect, finish | a crash at any point leaves a record that can be resumed or refused |
| Policies and compilation | `policy.go`, `build/compile.go`, `configuration.go` | none after construction | construction checks | no run with an invalid configuration |
| Adapters, routes, judges | `adapters.go`, `mapper.go`, `route.go`, `semantic.go`, `llm_judge.go` | none | callbacks mapped to reports | classification of a callback's answer kept |
| Pattern matching | patterns of `ext/*.go`, `ext/jsonschema` | none | text and document matching | outside: see section 7 |
| Telemetry | `observer.go`, `ext/guardyotel` | none | spans | read by no guard |

How they interact: a host calls `GuardDelivery`, an argument boundary or an HTTP
guard; each calls `Pipeline.Run`, once or twice, with a scope from its factory.
`Run` calls validators, which may themselves be pipelines whose failure carries
the reports they completed. The stream processor calls `GuardDelivery` for every
unit and writes what it approves; the downstream consumer drives a processor from
a producer's events. Redacting checks are validators; carriers (`Map`, `MapSlice`,
`jsonredact`) apply them to the parts of a value, and several calls may share one
vault. Everything shared between goroutines is local to one run
(`pipeline.go:508-570`), behind the processor's mutex or behind the vault's. The
release script shares files and remote refs with its own later invocations.

Where it is hard: goroutines of the parallel phase whose critical sections
interleave with each other, with the phase's cancellation and with the end of the
caller's context; errors joined to cancellations that must be told apart; context
ends between any two callbacks; a scanner that resumes over a buffer that is
written, consumed and wrapped; transports that fail in the middle; limits that
are met exactly; request bodies that callbacks close or replace; a script that is
killed around a push. `PROJECT.json` lists each as a hazard at the line where it bites.

## 2. Plan

Done, in this order, the most central first:

1. `Reports`, `ReportLog`: the algebra everything else uses.
2. `Pipeline`: the run. `Reports` also states what a boundary may rely on
   (`RunAnswers`), which the run is proved to keep.
3. `DeliveryPromise` (abstract) and `Delivery`, which composes `Pipeline`.
4. `ByteQueue` (abstract) and `StreamBuffer`.
5. `StreamProcessor`, which composes the promise of delivery and the queue.
6. `Scope` and `Arguments`, over `RunAnswers`.
7. `HTTPGuard`, over `RunAnswers`.
8. `VaultPromise` (abstract), `TokenVault` and `Redaction`, which composes the vault.
9. `Release`: the release script under crashes.
10. `TextConsumer`, which composes `StreamProcessor`.
11. Proofs of every safety property that section 5 does not except.

What section 7 lists is left out on purpose.

## 3. Modules

| Module | Kind | Extends / instantiates |
|---|---|---|
| `Reports` | pure operators | |
| `ReportLog` | a report slice as it grows | `Reports` |
| `Pipeline` | one call of `Pipeline.Run` | `Reports` |
| `DeliveryPromise` | abstract: the answer of `GuardDelivery` | `Reports` |
| `Delivery` | one call of `GuardDelivery` | `Pipeline`, `Promise == INSTANCE DeliveryPromise` |
| `ByteQueue` | abstract: bounded queue | |
| `StreamBuffer` | the ring | `INSTANCE ByteQueue` |
| `StreamProcessor` | one processor's life | `Reports` |
| `TextConsumer` | a processor's callers: one producer's consumer, or a host | `StreamProcessor` |
| `Scope` | pure operators: scopes and requirements | `Reports` |
| `Arguments` | one call of an argument boundary in its host | `Scope` |
| `HTTPGuard` | one request through a chain of guards | `Reports` |
| `VaultPromise` | abstract: a growing injection | |
| `TokenVault` | the vault | `Promise == INSTANCE VaultPromise` |
| `Redaction` | concurrent redacting calls over one vault | `Reports`, `TokenVault` |
| `Release` | the release script's invocations | |
| `*Proofs` | theorems | the module they are about, `TLAPS` |
| `MC*` | constants for TLC | the module they check |

### Reports

A report keeps the fields that steer control: action, disposition, fatal,
retryable, shadow, payload kind, and whether its score is finite; "invalid" is any
value outside a Go enumeration. A nil-able pointer or error is a sequence of
length zero or one. `EffectiveDisposition`, `ReportPriority`, `Decision`,
`ComposeReports`, `PolicyDecision`, `ErrorFromDecision` and the payload
operators follow the functions of the same name.

### Pipeline

`pc` is where `Run` is; `next`, `current`, `reports` the chain; `gpc` and `ret`
where each parallel goroutine is and what its validator returned; `chainRet` what
each validator of the chain returned, which the code forgets and `EvidenceSurvives`
has to remember; `block`,
`retry`, `slowReps`, `firstErr` the shared variables under the mutex, one action
per critical section (`KeepEvidence`, `CheckStopped`, `NoteFirstErr`,
`AppendReport`, `RecordDecision`), so that everything the lock does not make
atomic can interleave. `ctxErr` is the caller's context, `gctxErr` the phase's,
to which `PropagateCancellation` copies the caller's end after a delay.
An error is a sequence of causes, a joined error more than one; a cause says
whether `errors.Is` finds a cancellation in it, whether it consists of nothing
else, whether it is the validator's own (history) and which completed reports it
carries. A validator may return any report of `ValidatorReports`, any cause of
`ValidatorCauses` or both, with any value; this includes panics, which
`validateSafely` turns into a cause that contains a cancellation at most deep
inside. Observers are host callbacks outside that recovery, return nothing that is
read, and are left out.

### Delivery

`at` is where `GuardDelivery` is and `attempt` which of the two calls; the run
inside it is that of `Pipeline`, whose `Init` restarts for the fallback.
`Classify` covers the classifier's answer, including an unknown kind and an
error, and the context check that precedes the use of the answer; `TryFallback`
the fallback, for which the policy loses its own. `DeliveryPromise` lists in
`Answers` the combinations of error, disposition, deliverability and fallback
that may be returned; the stream processor is checked against all of them.

### StreamBuffer, StreamProcessor and TextConsumer

The ring has its cells, head, size and capacity, with integers of unbounded
width (`stream.go:19` compares by division, so no sum overflows). The processor
uses the queue that the ring is shown to implement. All of its methods hold one
mutex until they return, so calls do not interleave and `pc` says inside a call
where it is: accepting input, scanning for a unit, validating, writing. A byte is
one of the classes the framings tell apart. JSON is followed on arrays, objects
without members, strings with escapes, digits and space: what distinguishes the
scanner's states. `ValidJSON` stands for `json.Valid` on those. The length of an
approved value is all that is kept of it.

In `TextConsumer` a processor is called by a host, in any order (`HostCalls`), or by
`ConsumeTextStream`, its only caller then: `WritePart`, `ReadStatus` and
`AbortText` are conjunctions with the processor's own `WriteContext`, `Complete`
and `Abort`, and `Processing` is the running call. Nothing is assumed of the
producer, a library: events come in any order, also after the terminal one, and
the final status need not agree with them. A terminal event's content is not read
(`stream.go:66-69` of `integration/downstream`).

### Scope and Arguments

A fact is the set of contract types its dynamic type satisfies, a scope a fact or
nothing per key. `checkScopeRequirements` and `mergeScopeRequirements` follow
`scope.go`; lists of requirements are sets, since only membership decides.

`Arguments` follows one call from its host (an argument wrapper, or a tool binder
that also checks the manifest's schema) through `Validate` of the typed or the
dynamic boundary. `at` names the next call; `bound`, `payload` and `error` are the
code's locals; `approved` is history, the texts the final guard and the schema
passed. Every callback (scope factory, decoder, hook, encoder, checker) has a
step before which the context may end, and may fail, also with a cancellation of
its own. A checker gets a copy of the document and may scribble on it
(`CheckerReturns`). The schema check is a second boundary: `stage` tells which.
`MapArgsError` is the tool error a binder's host sees.

### HTTPGuard

`bodies` is every body that was ever on the request, in order of appearance, each
with the number of times it was really closed; `body` is `r.Body`, and 0 is
`http.NoBody`. Extractor, injector and handler may close what they borrow and
install another, whose `Close` may fail. Each nested guard reads the body,
restores it for its extractor, drops that one and restores it again; `handedOff`
holds the bodies of the guards that wait for the inner ones. `written` and
`served` are the answers. Only the kind of a status is kept, not its text.

### TokenVault and Redaction

`Store` and `Restore` hold the vault's lock, so each is one step on `nextByNS`,
`pairs`, `restores`. A token is its space and number. `Redaction` has one process
per concurrent call. A carrier takes a value apart (`Map`, `MapJSONRawMessage`,
`MapSlice`, the walk of `jsonredact`); a check finds spans, merges them
(`MergeSpans`), and replaces them one at a time, with a vault call before each
replacement (`ReplaceSpan`); the looks at the context are where the code has
them. A vault of the host may fail. A check carries its overrides `fatal` and
`retryable` into its report (`ViolationReport`). A fatal redaction is a terminal
deny beside a rewritten text: `Map`, `MapJSONRawMessage`, `MapSlice` and
`jsonredact` then give the original back, but a check called directly, carrier
`text`, answers the rewritten text (`Escalated`), for there is nobody to undo it.

### Release

The record's files are the fields of `active`: how far the first invocation came
(`stage`, `paths`), `candidate`, `refs`, `phase`, `status`. `at` is where the
running invocation is, `lock` the lock directory, `session` what dies with the
process. One action is one write to the record or one look at the remote, so
`Killed` can fall between any two. `RemoteMoves` is others' pushes; `Push` may be
rejected, accepted, or lost; `Faulty` steps are failed gates, unreadable remotes
and refused confirmations. `Operator` does what the runbook says for the phase and
status on record; `Anyhow` is an operator who does not. `defects` are what the first
invocation can find wrong with a module; the root's path cannot be wrong, since
the others' are compared with it.

### What the models take for granted

- Client texts hold no tokens of the vault (a token is not parsed out of a text
  that never came from `Store`), and spans lie within their text. Spans may
  overlap, nest, touch and be empty.
- A host's codec is faithful: encoding a value always gives its canonical text,
  which the boundary's contract asks for.
- A status "scope missing" may be written under an ended context: the code tells
  the client of a configuration it cannot satisfy.
- A kill while the list of refs is rewritten leaves a shorter list; `inspect` may
  then call the record complete while its phase is preparing. It cannot be
  archived (`ArchivedIsPublished`) and the runbook's next step repairs it. A short
  list of *module paths*, in contrast, is archived: finding 2.
- The manifest check of the first invocation is left out: preparing repeats it.
- Reading the context and returning is one step. The context may of course end
  between that read and the caller's use of the result, which no code could prevent.
- Sequential validators and policies are one chain, since they go through the same
  loop body in this order; payloads are model values; observers, messages and
  names are left out.

## 4. Runs

| Run | States | What it asks |
|---|---|---|
| `report_log` | 10 303 | slices of up to two reports out of all control combinations and five malformed ones |
| `pipeline` | 1.06 million | one chain and three parallel validators, every interleaving, symmetric |
| `pipeline_live` | 3 552 | a run ends |
| `pipeline_live_failure` | stops at the counterexample | finding 1 |
| `delivery` | 32 026 | every answer of a chain validator, a classifier and a context, twice |
| `stream_buffer` | 2 010 | a ring of at most five bytes |
| `stream_processor` | 617 533 | five profiles, writes of up to two bytes, seven bytes of input; any producer in two profiles |
| `arguments` | 12 470 | typed and dynamic boundaries in four hosts, every answer of every callback |
| `http_guard` | 14 206 | three nested guards and a handler |
| `redaction` | 62 020 | two calls over one vault, every carrier and check |
| `release` | 126 940 | two modules, two kills, one fault, one move by others |
| `release_resume` | stops at the counterexample | finding 2 |

`report_log`: `OrderIndependent`, `NestingTransparent` (composing a prefix and
reducing the rest gives the flat verdict), `ProjectionFaithful`,
`FaultsOutrankShadow`, `EscalationOnly`. Two reports suffice because reduction is
a maximum over pairs; the theorems have no bound.

`pipeline`: `GenuineFaultWins`, `StrongestOutcomeWins`,
`SiblingCancellationBenign`, `EvidenceSurvives`, `ChainStopsAtDecision`,
`RunKeepsPromise` (an ended context or a lacking scope is a fault, and every answer
is one of `RunAnswers`), `OutputProvenance`. `EvidenceSurvives` is about the chain as
well as the parallel phase: the one chain validator passes with a report that the
phase's outcome must not lose, decides, or fails with evidence (its two mutants
lose each); that a second validator fails after a first has reported is left to the
theorem. Three goroutines are enough for one to
stop the phase, one to be cancelled and one to fail; the reports hold one of each
enforcement class, the causes a genuine error with evidence, a child's
cancellation, and a panic. Cancellation inside another error is covered by `only`
being false. `pipeline_live` uses two goroutines.

`delivery`: `OnlyEligibleDelivered`, `FallbackOnlyAfterStop`, `FallsBackOnce`,
and the refinement `PromiseKept`. The parallel phase has no validators here; it
has its own runs, and the result record is the same.

`stream_buffer`: `AllocationBounded` and the refinement `IsQueue`. The bound 5
lies between two powers of two, so that doubling is cut off, and is met while the
ring is wrapped.

`stream_processor`: `FramingCanonical` (the k-th unit delivered is a function of
the input bytes: partition independence), `FramingComplete` (an input is refused
for its framing only if no continuation is well framed), `NothingLost`,
`BudgetsHold`, `OutcomeSticky` and `CallsReturn`. A unit of six bytes holds an
array with a string with an escaped quote; the input is one byte longer, so that
a unit, its successor and the limit meet; `MaxPending` of the whole-response
profile is below its input so that the buffer can fill; output values are small
(two fit the budget) or too large. For the consumer: `LifecycleGoverns` (success,
and the first byte of a whole response, need a terminal event and a completed
status) and `RouteTellsOutcome` (the route is "completed" exactly when the
processor succeeded, and then every text part was released). It is run in one
profile that releases at completion and one that releases before; chunks of two
parts and three bytes of text let a stream succeed, be refused in the middle of a
chunk and at completion, and be cut off between any two events. Framing and limits
are explored by the calls of a host.

`arguments`: `ApprovedBytes`, `ErrorMatchesDecision`, `MergedScopeSuffices` and
`CancellationOutranksCorrection`. Two texts and three values, two of which have
the same text, let a checker or a decoder swap a value with and without a change of
bytes; five tables of requirements and facts satisfy both guards, one, or none,
by name and by type; four hosts are a wrapper with and without a final guard and a
binder with and without scope factory and compiling manifest.

`http_guard`: `BodiesClosedOnce`, `HandedOnSafely`, `StatusBlamesCaller`. With
three guards there is one that is outermost, one that is innermost and one that is
neither. Five report lists hold one of each enforcement class.

`redaction`: `RedactedOrUntouched`, `EvidenceComposed` and the vault's refinement
`KeepsVaultPromise`. The first says that a stopped value comes back as it was in
every carrier, and excepts the one case in which it does not, a fatal redaction
called directly: that text is fully redacted, beside the deny. The checks include a
fatal redaction with a vault, a fatal pattern redaction and a retryable block. Texts of up to four letters have nested and touching spans;
three spellings of a namespace are two spaces; the second call competes for the
same originals. `MCSpec` lets the first worker have any job and the others one of
two, which loses nothing for two interchangeable workers but the pairs of
carriers, which share only the vault.

`release`: `UnknownUntilObserved`, `ArchivedIsPublished` (main has the source, every
module its tag; nothing about the manifests behind the tags, which is what
`release_resume` asks) and `RecoveryCompletes`, from the moment that every module
was checked and nothing was wrong with any: the runbook wants no push otherwise.
Two modules are a root and a nested one, two kills fall on a release and on its
recovery, the fault is any single lost answer, the move races either. The theorems
have no bound. Deadlock is not checked since the script may be over for good; nor
is it in `report_log`, whose slice is full in the end. All other runs check it.

Fairness. `pipeline_live` assumes weak fairness of `Run`'s own steps and of each
goroutine: a validator that is called returns (`CONTRACTS.md`: cancellation is
cooperative, callbacks must return), and the Go scheduler runs a runnable
goroutine. Nothing is assumed of the context. `stream_processor` assumes weak
fairness of the running call; callers need not call. Both would be meaningless
with a blocking callback, which the code cannot interrupt either. `release`
assumes weak fairness of a running invocation, and strong fairness of an operator
who follows `docs/release/runbook.md`: others may run the script in between, but
the operator comes back. Kills, faults and moves are bounded and never fair.

## 5. Proofs

| Module | Theorems |
|---|---|
| `ReportProofs` | `DecisionIsStrongest`, and the lemmas about the algebra and about sequences |
| `ReportLogProofs` | every property of `report_log` |
| `PipelineProofs` | every invariant of `pipeline`; every property of `delivery`, the refinement of the promise included |
| `StreamProofs` | every property of `stream_buffer`, the refinement included; every safety property of `stream_processor`, its framing canonical and complete for every format |
| `ArgumentsProofs` | every property of `arguments` |
| `HTTPGuardProofs` | every property of `http_guard` |
| `RedactionProofs` | every property of `redaction`, the vault's refinement of its promise included |
| `ReleaseProofs` | `UnknownUntilObserved`, `ArchivedIsPublished` |

Type invariants (`TypeCorrect`, `RingTypeCorrect`) are proved and not run.
Assumptions are those that the modules name for their constants. Nothing is
assumed about the number of parallel validators, which need not even be finite.

**Reports.** Selection yields a strongest report (`SelectedIsStrongest`), the
payload kind is the strictest of all. `ReportLogProofs` measures a slice by its
rank (`RankUnique`: a slice has one), shows that exchanging two reports renames
the strongest one, that a composed report has the rank and kind of what it was
composed from (`ComposeRank`, `KindHarmless`), and derives nesting, order and
escalation from that. Both the decision and the kind are folds
(`DecisionAppend`, `AggregateAppend`): hence composing one by one is composing at
once, exactly for a report of the carrier's own (`ComposeFurther`), and up to flags
no host sees for one that an error brings along (`ComposeSingleFurther`).

**Pipeline.** `TypeInv` is inductive, with one lemma per group of actions. The
properties at the end of a run speak of `ret`, which is private to a goroutine,
and of a result built from the shared variables; the invariants bridge the two:

- `PhaseInv`: before the phase all goroutines are fresh; a goroutine past the
  point where it notes its failure has left `firstErr` non-empty unless its error
  was made of cancellations only (`FailureNoted`); one past the append has its
  report in `slowReps` (`ReportKept`). Hence `GenuineFaultWins` and
  `StrongestOutcomeWins`.
- `CancelInv`: the phase's context has ended only for a reason (`Cancelled`), and a
  check that failed of nothing else is recognised as merely cancelled wherever its
  goroutine is; `firstErr` is then never set. Hence `SiblingCancellationBenign`.
- `EvidenceInv`: the kind of each report a goroutine completed is in force in one
  of the places from which the join reads (`Carriers`), and that of each report the
  chain completed in its slice, until the run returns (`ChainKept`). Hence
  `EvidenceSurvives`, for chains of any length.
- `PromiseInv`, `Unstarted` and the lemmas `FinalizeChecked` and `FaultHonest`, for
  `RunKeepsPromise`, `ChainStopsAtDecision` and `OutputProvenance`.

**Delivery.** `DeliveryInv` says what each place of `GuardDelivery` rests on: in the
second attempt the first one's answer is kept and is a stop (`PrimaryKept`); while
the run is looked at it keeps `PromiseInv` (`RunKept`); what is classified is the
value of a finished run that nothing stops, so that its error and its decision
agree (`UnderCheck`); and nothing is handed out before the end (`NothingOut`). An
answer then has one of the combinations of the promise, and one sent in a
fallback carries the first attempt's stop (`Answered`). The refinement maps the
call's last step to the promise's one step, every other to a stutter.

**StreamProcessor, TextConsumer.** `StreamInv == StreamType /\ Control /\ Budget /\
Conserved`. `Conserved`: the units released are a prefix of what was offered, and
the two buffers are exactly what comes after it, until a terminal outcome drops
them. `Budget` counts what is still to be accepted and what is approved but not yet
written, without which neither budget is inductive. `FrameInv`: a unit taken is the
first one of the bytes from its start, and either the stream has ended or no later
byte could change that (`Determined`), so that how the input was cut into pushes
never shows. `RefusalInv` carries the converse, that nothing well framed is
refused: between calls the newline buffer holds an unfinished line, every unit that
was released took a byte, and only an end has a cause. `Peeled` says that what the
released units leave of a well-framed input is itself well framed (`WellFramed` is a
recursion on the text; `Divides` says the same of the set of its ends and serves as
the recursion's witness). So an input is condemned as soon as its first unit is
(`UnitCondemns`, `LineCondemns`, `WholeCondemns`). For JSON, `ScanInv` says that
the scanner has read the pending bytes up to its offset, and `ScanValue` that the
scanner, a fold over bytes, agrees with the grammar, a recursion over texts: inside
brackets a value leaves the depths as it found them (`Balanced`, by going up
through the lengths of the values; a string by what precedes its quotes,
`EscapedNext`). So the scanner is always before or inside the first value or
exactly at its end (`Ahead`), and what it refuses (`Refused`) is no value
(`RefusedIsNone`). `TextInv` adds the consumer: until a terminal outcome, what it
was told is what it offered and what it still holds.

**StreamBuffer.** The invariant adds `LiveWritten` (no cell of a fresh allocation
is ever live): without it a queue of bytes could not be read off the ring.
`WrapOnce` turns the remainders into a case distinction, `AppendStep` and
`ConsumeStep` describe a step by what a reader sees; the refinement uses nothing
else.

**Arguments.** `Inv == BytesInv /\ ScopeInv`. `BytesInv` follows the text from the
encoder to the hand-over: from there on the payload holds the canonical text of
the value (`TextInv`), and what the first boundary released is kept unchanged while
the manifest is checked (`ManifestInv`). `ScopeInv` rests on `MergeCovers`: a scope
that satisfies the merged requirements satisfies both lists. The action property
needs `Unfailed`: an error is set by the step that ends the call.

**HTTPGuard.** `Inv == TypeOK /\ Owned /\ Fresh /\ Answered`. `Owned` is the heart:
every open body is either the one on the request of the guard at work, or one that
a waiting guard has handed on and will close; so none is open at the end. `Fresh`
says that nothing an extractor left is read.

**TokenVault, Redaction.** `Issued`: tokens were numbered by their own space's
counter, and no two pairs share one. `FreshToken` makes a new one differ from all,
whence every `Store` is a step of the promise or none; `VaultStep` shows that a
call does nothing else to the vault. `RedactionInv` says of a call under way that
what it has composed is composed of what it has seen, that a slice has not been
stopped, that a carrier of one text has seen nothing and that only a check that
redacts replaces spans (`Underway`); and of one that returned what the properties
say (`Returned`), by way of which reports stop a value: of the checks' own
redactions the fatal ones only (`CheckReports`), alone or composed with others
(`StopComposed`). `TextInv` follows the texts.
The two maps of the vault are inverse to each other (`Reversible`), and tokens made
later never change what the earlier ones restore. Of a call under way the leaves
ahead are as they came and those behind are redacted, unless one has stopped the
value (`Progress`). The spans still ahead are disjoint and in order (`Ahead`), and the
part of a leaf that is rewritten has the letters of the prefix it was made from less
those found, and its tokens restore that prefix (`Rewritten`). What `MergeSpans`, a
fold over sorted spans, keeps of the positions it was given is proved by going
through the folds one prefix at a time.

**Release.** `Inv == RecordTyped /\ Control`. `Control` says what the place of an
invocation implies: past validation the record has a candidate and all refs, from
the write of "unknown" to the observation the status is unknown, and a complete
observation means that the remote has everything. `PublishedStays` shows that
nobody takes a published release back (main is only moved ahead, tags are not
deleted).

Only model-checked: `Termination`, `CallsReturn` and `RecoveryCompletes`, temporal
properties under fairness, which are beyond the prover. Every invariant, action
property and refinement that the passing runs check is also a theorem.

## 6. Findings and notes

1. `pipeline_live_failure`. A parallel validator whose own child operation was
   cancelled, in a phase nobody cancelled, is a fault, unless a sibling's *retry*
   was recorded first: then its error is dropped and the run is a retryable
   correction (`pipeline.go:531-538`). A recorded retry cancels nothing
   (`pipeline.go:346-351`), so the error is no consequence of it; the outcome
   depends on which goroutine took the mutex first. `errors.go:10` and
   `CONTRACTS.md:384-386` say such a cancellation remains a fault.
2. `release_resume`, `PushedIsPrepared`. The runbook (`docs/release/runbook.md:35-37`)
   says that a release updates the internal requirements and that a failed
   prerequisite prevents the push. The first invocation creates its record before
   it checks (`scripts/release.sh:181-183`) and lists one module's path after the
   other, each before it looks for that module's tag (`:203-206`). If it fails, or is
   killed, in that loop, the record stays with a list that may be short; `resume`
   accepts it, never repeats those checks, prepares every manifest from the
   listed paths alone (`:138`), validates only that the list exists (`:80`), and
   pushes. The counterexample is a local tag of the root module: only the root's
   path is listed, so the nested module's requirement keeps its version and its
   replacement. A local tag of the last module leaves a complete list and is
   pushed too. A kill before the loop is through needs no defect at all and is a
   step longer, so the run, which allows one, does not come to it first. What is
   archived in the end is on the remote, as `ArchivedIsPublished` says, and wrong.

Observed, with no property: `release.go:464` returns `s.outcome` beside a call
that changes it in one statement, whose order of evaluation Go leaves open. The
model has the stored outcome, which is the same in either order; the copy returned
by that one statement is not modelled.
A fallback refused by its guard while the transport fails keeps disposition
`none` (`release.go:613`), unlike `fail`. A fault in a fallback drops the reports
of the primary attempt (`guarded_output.go:162-163`).

## 7. Not modelled, and why

- The decoder of `internal/jsondoc`, the schema validator of `ext/jsonschema` and
  the patterns of the text detectors are functions over unbounded text on top of
  parsers; what they answer is an input of `Arguments` and `Redaction`.
- Thresholds on scores and the wording of prompts in model-backed checks: the check
  answers any report.
- Routes pick a validator by a predicate and then are one; declarative policies,
  boundary profiles, configuration and compilation check their arguments once and
  keep no state.
- Batch and typed wrappers that only call `GuardDelivery` for one value at a time.
- Checks of the local checkout and of file types in `scripts/release.sh`.
- Telemetry reads the results and writes none; the test kit, tooling, examples and
  constants are no part of a running guard.
- The validation timeout (`release.go:665`) is one branch of the processor's guard
  answer (`GuardLate`); a property about it would restate the branch.
