----------------------------- MODULE HTTPGuard -----------------------------
(***************************************************************************)
(* One request through a chain of HTTP guards in front of a handler.       *)
(*                                                                         *)
(* A guard borrows the request's body out: it reads the body, restores it  *)
(* from the bytes read for the extractor, drops that one, restores it      *)
(* again for the injector or the handler.  Extractor, injector and handler *)
(* may close the body they get and may install another.  A guard wraps     *)
(* every body it finds on the request, so that closing it again does       *)
(* nothing; bodies are numbered in the order they appear, and 0 is         *)
(* http.NoBody, which needs no closing.                                    *)
(***************************************************************************)
EXTENDS Reports

CONSTANTS
    Guards,         \* the number of guards in front of the handler
    ReportLists     \* the report lists of a guard's run

ASSUME GuardsAssumption == Guards \in Nat \ {0}
ASSUME ReportListsAssumption == ReportLists \subseteq Seq(Report)

VARIABLES
    ended,      \* the request's context has ended
    at,         \* where the innermost active guard is
    bodies,     \* every body that has been on the request
    body,       \* r.Body
    data,       \* the content of the bytes the guard has read
    handedOff,  \* the bodies handed on, by the guards still waiting
    written,    \* the statuses written by guards
    served      \* the content the handler was given

vars == <<ended, at, bodies, body, data, handedOff, written, served>>

Contents == {"client", "extractor", "injector", "nothing"}

\* fails: Close returns an error; closes: how often it was really closed.
Body == [content : Contents, fails : BOOLEAN, closes : Nat]

NewBody(content, fails) == [content |-> content, fails |-> fails, closes |-> 0]

Statuses == {"too_large", "invalid", "scope_missing", "decision", "failure"}

\* What a callback does to the request, and what it answers.  One that closes
\* the body it borrows does not leave it there.
Deeds ==
    {deed \in [closes : BOOLEAN, installs : {"none", "nil", "sound", "faulty"},
               answer : {"ok", "failed", "canceled"}] :
        deed.closes => deed.installs # "none"}

Content(b) == IF b = 0 THEN "nothing" ELSE bodies[b].content

\* ownedHTTPBody.Close: closing again does nothing.
Closed(all, S) ==
    [b \in DOMAIN all |-> IF b \in S THEN [all[b] EXCEPT !.closes = 1] ELSE all[b]]

Respond(status) ==
    /\ written' = Append(written, status)
    /\ at' = "return"

Proceed(to) == at' = to /\ UNCHANGED written

\* Mutant: only what the callback reports counts.
InterruptedByAnswer(answer) == answer = "canceled"

\* A cancellation, the context's or the callback's own, is a fault.
Interrupted(answer) == ended \/ answer = "canceled"

(* restoreHTTPBody: the bytes read are on the request again.               *)
RestoreHTTPBody(all) ==
    /\ bodies' = Append(all, NewBody(data', FALSE))
    /\ body' = Len(all) + 1

-----------------------------------------------------------------------------

Init ==
    /\ ended = FALSE
    /\ at = "enter"
    /\ bodies \in {<<NewBody("client", fails)>> : fails \in BOOLEAN}
    /\ body = 1
    /\ data = "nothing"
    /\ handedOff = <<>>
    /\ written = <<>>
    /\ served = <<>>

ContextEnds ==
    /\ at # "done"
    /\ ~ended
    /\ ended' = TRUE
    /\ UNCHANGED <<at, bodies, body, data, handedOff, written, served>>

(* A guard is entered with whatever body is on the request.                *)
Enter ==
    /\ at = "enter"
    /\ IF ended
       THEN /\ bodies' = Closed(bodies, {body})
            /\ body' = 0
            /\ Respond("failure")
       ELSE Proceed("read") /\ UNCHANGED <<bodies, body>>
    /\ UNCHANGED <<ended, data, handedOff, served>>

(* The body is read under the cap and closed, whatever came of it.         *)
ReadBody(outcome) ==
    LET all      == Closed(bodies, {body})
        closeErr == body # 0 /\ bodies[body].fails
    IN  /\ at = "read"
        /\ outcome \in {"ok", "too_large", "invalid", "canceled"}
        /\ data' = Content(body)
        /\ IF ~Interrupted(outcome) /\ ~closeErr /\ outcome = "ok"
           THEN RestoreHTTPBody(all) /\ Proceed("extract")
           ELSE /\ bodies' = all
                /\ body' = 0
                /\ Respond(IF Interrupted(outcome) \/ closeErr THEN "failure" ELSE outcome)
        /\ UNCHANGED <<ended, handedOff, served>>

\* The bodies after a callback, and the one it leaves on the request.
Installed(all, deed, content) ==
    IF deed.installs \in {"sound", "faulty"}
    THEN Append(all, NewBody(content, deed.installs = "faulty")) ELSE all

Current(deed) ==
    CASE deed.installs = "none" -> body
      [] deed.installs = "nil"  -> 0
      [] OTHER                  -> Len(bodies) + 1

\* Mutant: on a failure only the borrowed body is closed.
FinishLeavesCurrent(current, keep) == IF current # body THEN {body} ELSE {}

\* finishHTTPCallback: what a guard closes when a callback returns.
FinishHTTPCallback(current, keep) ==
    (IF current # body THEN {body} ELSE {}) \cup (IF keep THEN {} ELSE {current})

(* The extractor returns; nothing of what it left on the request stays.    *)
ExtractorReturns(deed) ==
    LET current  == Current(deed)
        all      == Installed(bodies, deed, "extractor")
        closing  == FinishHTTPCallback(current, FALSE)
        closeErr == \E b \in closing \cap DOMAIN all : all[b].fails
    IN  /\ at = "extract"
        /\ bodies' = Closed(all, closing \cup (IF deed.closes THEN {body} ELSE {}))
        /\ body' = 0
        /\ IF Interrupted(deed.answer) \/ closeErr THEN Respond("failure")
           ELSE IF deed.answer = "failed" THEN Respond("invalid")
           ELSE Proceed("scope")
        /\ UNCHANGED <<ended, data, handedOff, served>>

(* Current facts are asked for, for every request, under a live context.   *)
ResolveScope ==
    /\ at = "scope"
    /\ IF ended THEN Respond("failure") ELSE Proceed("facts")
    /\ UNCHANGED <<ended, bodies, body, data, handedOff, served>>

FactsReturn(ok) ==
    /\ at = "facts"
    /\ IF ended \/ ~ok THEN Respond("failure") ELSE Proceed("run")
    /\ UNCHANGED <<ended, bodies, body, data, handedOff, served>>

Refused(answer) ==
    DecisionDisposition(PolicyDecision(answer.reports, answer.kind))
        \in {"terminal_deny", "retryable_correction"}

(* The pipeline has run.  A fault over a missing fact is told apart from   *)
(* the others even when the context has ended too.                         *)
RunReturns(answer, scopeMissing) ==
    LET faulted ==
            DecisionDisposition(PolicyDecision(answer.reports, answer.kind)) = "system_fault"
    IN  /\ at = "run"
        /\ answer \in RunAnswers({data}, ReportLists, ended)
        /\ scopeMissing => answer.fault
        /\ data' = data
        /\ IF ~answer.fault /\ ~faulted /\ ~Refused(answer)
           THEN /\ RestoreHTTPBody(bodies)
                /\ Proceed(IF Decision(answer.reports).action = "redact"
                           THEN "inject" ELSE "handoff")
           ELSE /\ Respond(IF scopeMissing THEN "scope_missing"
                           ELSE IF answer.fault \/ faulted THEN "failure"
                           ELSE "decision")
                /\ UNCHANGED <<bodies, body>>
        /\ UNCHANGED <<ended, handedOff, served>>

(* The injector has put the redacted value on the request, or failed.      *)
InjectorReturns(deed) ==
    LET current == Current(deed)
        all     == Installed(bodies, deed, "injector")
        keep    == ~Interrupted(deed.answer) /\ deed.answer = "ok"
    IN  /\ at = "inject"
        /\ bodies' = Closed(all, FinishHTTPCallback(current, keep)
                                    \cup (IF deed.closes THEN {body} ELSE {}))
        /\ IF keep
           THEN body' = current /\ Proceed("handoff")
           ELSE body' = 0 /\ Respond("failure")
        /\ UNCHANGED <<ended, data, handedOff, served>>

\* Mutant: no last look at the context.
HandOffUnchecked ==
    /\ at = "handoff"
    /\ handedOff' = Append(handedOff, body)
    /\ Proceed(IF Len(handedOff) + 1 < Guards THEN "enter" ELSE "handler")
    /\ served' = IF Len(handedOff) + 1 < Guards THEN served ELSE <<Content(body)>>
    /\ UNCHANGED <<ended, bodies, body, data>>

(* The last look at the context; the next guard or the handler gets the    *)
(* request, and the body is remembered to be closed.                       *)
HandOff ==
    /\ at = "handoff"
    /\ handedOff' = Append(handedOff, body)
    /\ IF ended
       THEN Respond("failure") /\ UNCHANGED served
       ELSE IF Len(handedOff) + 1 < Guards
       THEN Proceed("enter") /\ UNCHANGED served
       ELSE Proceed("handler") /\ served' = <<Content(body)>>
    /\ UNCHANGED <<ended, bodies, body, data>>

(* The handler may close the body, and leave another one of its own.       *)
HandlerReturns(closes, replaces) ==
    /\ at = "handler"
    /\ bodies' = IF closes THEN Closed(bodies, {body}) ELSE bodies
    /\ body' = IF replaces THEN 0 ELSE body
    /\ Proceed("return")
    /\ UNCHANGED <<ended, data, handedOff, served>>

\* Mutant: what is on the request is closed, not what was handed on.
ReturnClosesCurrent ==
    /\ at = "return"
    /\ IF handedOff = <<>>
       THEN Proceed("done") /\ UNCHANGED <<bodies, handedOff>>
       ELSE /\ bodies' = Closed(bodies, {body})
            /\ handedOff' = SubSeq(handedOff, 1, Len(handedOff) - 1)
            /\ UNCHANGED <<at, written>>
    /\ UNCHANGED <<ended, body, data, served>>

(* A guard that handed a body on closes it when the call returns.          *)
Return ==
    /\ at = "return"
    /\ IF handedOff = <<>>
       THEN Proceed("done") /\ UNCHANGED <<bodies, handedOff>>
       ELSE /\ bodies' = Closed(bodies, {handedOff[Len(handedOff)]})
            /\ handedOff' = SubSeq(handedOff, 1, Len(handedOff) - 1)
            /\ UNCHANGED <<at, written>>
    /\ UNCHANGED <<ended, body, data, served>>

Finished == at = "done" /\ UNCHANGED vars

Guard ==
    \/ Enter
    \/ \E outcome \in {"ok", "too_large", "invalid", "canceled"} : ReadBody(outcome)
    \/ \E deed \in Deeds : ExtractorReturns(deed) \/ InjectorReturns(deed)
    \/ ResolveScope
    \/ \E ok \in BOOLEAN : FactsReturn(ok)
    \/ \E answer \in RunAnswers({data}, ReportLists, FALSE), scopeMissing \in BOOLEAN :
          RunReturns(answer, scopeMissing)
    \/ HandOff
    \/ Return

Next ==
    \/ Guard
    \/ \E closes \in BOOLEAN, replaces \in BOOLEAN : HandlerReturns(closes, replaces)
    \/ ContextEnds
    \/ Finished

Spec == Init /\ [][Next]_vars

-----------------------------------------------------------------------------
(* Properties.                                                             *)

(* When the request is over, every body that was ever on it, the client's, *)
(* a restored one or one a callback installed, has been closed exactly     *)
(* once, whichever check failed and whoever else closed it, and either one *)
(* guard has answered or the handler was called.                           *)
BodiesClosedOnce ==
    at = "done" =>
        /\ \A b \in DOMAIN bodies : bodies[b].closes = 1
        /\ Len(written) + Len(served) = 1

(* A request goes on to a next guard or the handler under a live context   *)
(* only, with a body that nobody has closed, with every other body         *)
(* released, and never with what an extractor put there.                   *)
HandedOnSafely ==
    [][at = "handoff" /\ at' \in {"enter", "handler"} =>
          /\ ~ended
          /\ Content(body) # "extractor"
          /\ \A b \in DOMAIN bodies : b = body <=> bodies[b].closes = 0]_vars

(* A client or policy status is written only under a live context: an end  *)
(* of the request is the server's failure.  A missing fact is reported as  *)
(* such in either case.                                                    *)
StatusBlamesCaller ==
    [][at' = "return" /\ written' # written
         /\ written'[Len(written')] \in {"too_large", "invalid", "decision"}
       => ~ended]_vars
=============================================================================
