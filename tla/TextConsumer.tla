---------------------------- MODULE TextConsumer ----------------------------
(***************************************************************************)
(* The callers of a StreamProcessor: ConsumeTextStream, which reads one    *)
(* producer handle into a fresh processor, or a host with calls of its own.*)
(* The consumer is its processor's only caller, so StreamProcessor's       *)
(* actions are taken when it calls: WriteContext for each text part, then  *)
(* Complete or Abort.                                                      *)
(*                                                                         *)
(* The producer is a library.  Nothing is assumed of it: events come in    *)
(* any order, also after the terminal one, and the status read after the   *)
(* last event need not agree with them.                                    *)
(***************************************************************************)
EXTENDS StreamProcessor, SequencesExt

CONSTANTS
    MaxParts,   \* bound on the parts of a chunk
    MaxText     \* bound on the text of all chunks

ASSUME ProducerAssumption == {MaxParts, MaxText} \subseteq Nat

VARIABLES
    at,        \* where ConsumeTextStream is; "host" if a host calls instead
    producer,  \* the handle: "none", "open" or "closed"
    terminal,  \* a terminal event was seen
    parts,     \* what is left of the chunk at hand
    status,    \* the producer's status, once read
    route,     \* TextRelease.Route
    told       \* history: the text of every content chunk

consumer == <<at, producer, terminal, parts, status, route, told>>
textVars == <<vars, consumer>>

\* A part is the sequence of its texts: none if its content is not text.
Parts == {<<>>} \cup {<<p>> : p \in Chunks}
Contents == UNION {[1..n -> Parts] : n \in 0..MaxParts}

\* A completed status without error has a result with an outcome; "failed" is
\* any other state or error, "canceled" an error that is an ended context.
Outcomes == {"completed", "incomplete", "refusal", "paused", "tool_calls", "unsupported"}
Statuses == Outcomes \cup {"failed", "canceled"}

TextInit ==
    /\ Init
    /\ at \in {"start", "host"}
    /\ producer \in {"none", "open"}
    /\ at = "host" => producer = "none"
    /\ terminal = FALSE
    /\ parts = <<>>
    /\ status = "unread"
    /\ route = "none"
    /\ told = <<>>

\* The deferred Close runs on every return.
Return(r) ==
    /\ at' = "done"
    /\ route' = r
    /\ producer' = IF producer = "open" THEN "closed" ELSE producer

\* abortText, whose Abort is the call StreamProcessor models.
AbortText(r) == Abort /\ Return(r)

(* CompileStream refuses the configuration: there is no processor.         *)
ConfigurationRefused ==
    /\ at = "start"
    /\ Return("delivery")
    /\ UNCHANGED <<vars, terminal, parts, status, told>>

NoProducer ==
    /\ at = "start"
    /\ producer = "none"
    /\ AbortText("unsupported")
    /\ UNCHANGED <<terminal, parts, status, told>>

Begin ==
    /\ at = "start"
    /\ producer = "open"
    /\ at' = "events"
    /\ UNCHANGED <<vars, producer, terminal, parts, status, route, told>>

\* The last chunk is done with.
Listening == at = "events" /\ parts = <<>>

(* The source fails, or the context has ended when an event arrives, or    *)
(* the event is nil.                                                       *)
BadEvent ==
    /\ Listening
    /\ \E r \in {"canceled", "producer", "unsupported"} : AbortText(r)
    /\ UNCHANGED <<terminal, parts, status, told>>

\* What a terminal chunk carries is not read.
TerminalEvent ==
    /\ Listening
    /\ terminal' = TRUE
    /\ UNCHANGED <<vars, at, producer, parts, status, route, told>>

ContentEvent ==
    /\ Listening
    /\ \E content \in Contents :
          /\ parts' = content
          /\ told' = told \o FlattenSeq(FlattenSeq(content))
          /\ Len(told') <= MaxText
    /\ UNCHANGED <<vars, at, producer, terminal, status, route>>

NonTextPart ==
    /\ at = "events"
    /\ parts # <<>>
    /\ Head(parts) = <<>>
    /\ AbortText("unsupported")
    /\ UNCHANGED <<terminal, parts, status, told>>

\* The call of WriteContext may be refused at once or run on in Proceed.
WritePart ==
    /\ at = "events"
    /\ parts # <<>>
    /\ Head(parts) # <<>>
    /\ LET p == Head(parts)[1]
       IN  \/ WriteContext(p)
           \/ WriteRefused /\ (outcome'.cause = "input limit" =>
                                  Len(p) > MaxInput - outcome.received)
    /\ at' = "writing"
    /\ parts' = Tail(parts)
    /\ UNCHANGED <<producer, terminal, status, route, told>>

\* The processor ended the stream exactly when WriteContext returns an error.
PartWritten ==
    /\ at = "writing"
    /\ pc = "idle"
    /\ IF Terminal THEN Return("delivery")
       ELSE at' = "events" /\ UNCHANGED <<producer, route>>
    /\ UNCHANGED <<vars, terminal, parts, status, told>>

\* Mutant: the status alone decides, whether or not a terminal event came.
LifecycleRouteByStatus(s) == IF s = "failed" THEN "producer" ELSE s

\* completeText's route for a status: producerRoute, then outcomeRoute.
LifecycleRoute(s) ==
    IF s = "canceled" THEN "canceled"
    ELSE IF ~terminal \/ s = "failed" THEN "producer"
    ELSE s

(* completeText after the last event.                                      *)
ReadStatus(s) ==
    /\ Listening
    /\ status' = s
    /\ IF LifecycleRoute(s) = "completed"
       THEN Complete /\ at' = "completing" /\ UNCHANGED <<producer, route>>
       ELSE AbortText(LifecycleRoute(s))
    /\ UNCHANGED <<terminal, parts, told>>

\* Mutant: the error of Complete is not looked at.
CompleteReturnedUnread ==
    /\ at = "completing"
    /\ pc = "idle"
    /\ Return("completed")
    /\ UNCHANGED <<vars, terminal, parts, status, told>>

CompleteReturned ==
    /\ at = "completing"
    /\ pc = "idle"
    /\ Return(IF outcome.category = "success" THEN "completed" ELSE "delivery")
    /\ UNCHANGED <<vars, terminal, parts, status, told>>

\* A host calls in any order.
HostCalls == at = "host" /\ Call /\ UNCHANGED consumer

\* The processor works on the call at hand.
Processing == Proceed /\ UNCHANGED consumer

Returned == at = "done" /\ UNCHANGED textVars

TextNext ==
    \/ HostCalls
    \/ ConfigurationRefused \/ NoProducer \/ Begin
    \/ BadEvent \/ TerminalEvent \/ ContentEvent \/ NonTextPart
    \/ WritePart \/ PartWritten
    \/ \E s \in Statuses : ReadStatus(s)
    \/ CompleteReturned
    \/ Processing
    \/ Returned

\* As in StreamProcessor, a running call gets on.
TextSpec == TextInit /\ [][TextNext]_textVars /\ WF_vars(Proceed)

-----------------------------------------------------------------------------
(* Properties.                                                             *)

\* Only a completed lifecycle, its terminal event seen and its result a
\* completion, ends a consumed stream with success; a whole response sends no
\* byte without it, whatever the events were (stream.go:34-37).
LifecycleGoverns ==
    at # "host" /\ (outcome.category = "success" \/ (Whole /\ outcome.released > 0)) =>
        terminal /\ status = "completed"

\* The route agrees with the processor: "completed" if and only if it
\* succeeded, and then all text of all chunks was released.  A consumer that
\* has begun never leaves its processor open, nor its producer.
RouteTellsOutcome ==
    at = "done" =>
        /\ route = "completed" <=> outcome.category = "success"
        /\ route = "completed" => offered = told /\ Unreleased = <<>>
        /\ Terminal \/ offered = <<>>
        /\ producer # "open"
=============================================================================
