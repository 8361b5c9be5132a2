-------------------------- MODULE StreamProcessor --------------------------
(***************************************************************************)
(* A StreamProcessor: bounded buffering, framing into release units,       *)
(* checked delivery of each unit, and a sticky terminal outcome.           *)
(*                                                                         *)
(* Every public method holds the mutex until it returns, so one call runs  *)
(* at a time: pc is "idle" between calls and says inside a call how far it *)
(* has come.  What runs under the lock without the processor's control is  *)
(* nondeterministic: the guard's answer (Answers, what Delivery.tla is     *)
(* shown to give), the approved value, the transport, and whether the      *)
(* call's context or the validation timeout has ended when it is looked    *)
(* at; an ended context ends the stream, so it need not be remembered.     *)
(*                                                                         *)
(* A byte is one of a few classes: "a" a digit, "lead" and "cont" the two  *)
(* bytes of a two-byte rune, "bad" a byte no UTF-8 text has, and the       *)
(* structural bytes of the two framings.  The pending ring is the queue    *)
(* that StreamBuffer.tla is shown to implement.                            *)
(***************************************************************************)
EXTENDS Reports, Integers, FiniteSetsExt

CONSTANTS
    Formats,      \* the release profiles under study
    Alphabet,     \* the bytes a caller of each format may write
    MaxChunk,     \* bound on the bytes of one Write
    MaxInput,     \* MaxInputBytes
    MaxPending,   \* MaxPendingBytes, per format
    MaxUnit,      \* MaxUnitBytes
    MaxOutput,    \* MaxOutputBytes
    OutputSizes,  \* sizes of the values the guard may approve
    Candidates    \* values Delivery.Fallback may be configured with

Byte ==
    {"a", "lead", "cont", "bad", "nl", "space", "[", "]", "{", "}", "quote", "bslash"}

\* Profile and JSONValues of a configuration.
AllFormats == {"whole", "whole_json", "newline", "json", "partial"}

\* CompileStream rejects any other configuration.
ASSUME FormatsAssumption == Formats \subseteq AllFormats
ASSUME AlphabetAssumption == Alphabet \in [Formats -> SUBSET Byte]
ASSUME LimitsAssumption ==
    /\ {MaxInput, MaxUnit, MaxOutput} \subseteq Nat \ {0}
    /\ MaxPending \in [Formats -> Nat \ {0}]
    /\ "json" \in Formats => MaxPending["json"] > MaxUnit
    /\ "partial" \in Formats => MaxUnit >= 4
ASSUME BoundsAssumption ==
    MaxChunk \in Nat /\ OutputSizes \subseteq Nat /\ Candidates \subseteq Seq(Byte)

VARIABLES
    format,      \* the configured profile
    pending,     \* the accepted bytes no unit has taken
    framer,      \* frameScanner
    outcome,     \* StreamOutcome ("open" before it is terminal), with the cause of
                 \* its ReleaseError
    attempted,   \* fallbackAttempted
    pc,          \* where the running call is
    final,       \* the running call, or the last one, is Complete
    rest,        \* what WriteContext has not accepted yet
    unit,        \* size of the unit being released
    approved,    \* size of the value approved for it
    \* History, which no code reads.
    offered,     \* the bytes of every admitted Write
    cuts,        \* where in the input each released unit ends
    fallbackOut  \* what DeliverFallback returned

running == <<final, rest, unit, approved>>
history == <<offered, cuts, fallbackOut>>
vars    == <<format, pending, framer, outcome, attempted, pc, running, history>>

-----------------------------------------------------------------------------
(* Text.                                                                   *)

Space == {"space", "nl"}

\* The byte at i cannot be part of valid UTF-8; a lead byte that ends s may be.
InvalidAt(s, i) ==
    \/ s[i] = "bad"
    \/ s[i] = "cont" /\ (i = 1 \/ s[i - 1] # "lead")
    \/ s[i] = "lead" /\ i < Len(s) /\ s[i + 1] # "cont"

\* utf8.ValidString.
ValidUTF8(s) ==
    /\ \A i \in DOMAIN s : ~InvalidAt(s, i)
    /\ s # <<>> => s[Len(s)] # "lead"

Trimmed(s) ==
    LET solid == {i \in DOMAIN s : s[i] \notin Space}
    IN  IF solid = {} THEN <<>> ELSE SubSeq(s, Min(solid), Max(solid))

Inner(s) == SubSeq(s, 2, Len(s) - 1)

\* An odd run of backslashes ends just before i.
Escaped(s, i) ==
    \E k \in 1..(i - 2) :
        /\ k % 2 = 1
        /\ \A j \in (i - k)..(i - 1) : s[j] = "bslash"
        /\ s[i - k - 1] # "bslash"

ValidJSONString(s) ==
    /\ Len(s) >= 2
    /\ s[1] = "quote" /\ s[Len(s)] = "quote"
    /\ ~Escaped(s, Len(s))
    /\ \A i \in 2..(Len(s) - 1) :
          IF Escaped(s, i) THEN s[i] \in {"quote", "bslash"}
          ELSE s[i] \notin {"quote", "nl"}

\* json.Valid over these bytes: they hold no comma and no colon, so an array
\* has at most one element and an object no member.
ValidJSON[s \in Seq(Byte)] ==
    LET t == Trimmed(s)
    IN  \/ t # <<>> /\ \A i \in DOMAIN t : t[i] = "a"
        \/ ValidJSONString(t)
        \/ /\ Len(t) >= 2 /\ t[1] = "{" /\ t[Len(t)] = "}"
           /\ Trimmed(Inner(t)) = <<>>
        \/ /\ Len(t) >= 2 /\ t[1] = "[" /\ t[Len(t)] = "]"
           /\ Trimmed(Inner(t)) = <<>> \/ ValidJSON[Inner(t)]

\* newlineUnitBoundary(s, true).
NewlineBoundary(s) ==
    LET ends == {i \in DOMAIN s : s[i] = "nl"}
    IN  IF ends = {} THEN Len(s) ELSE Min(ends)

ValidRepresentation(s) ==
    /\ ValidUTF8(s)
    /\ format \in {"whole_json", "json"} => ValidJSON[s]
    /\ format = "json" => Trimmed(s)[1] \in {"{", "["}
    /\ format = "newline" => NewlineBoundary(s) = Len(s)

-----------------------------------------------------------------------------
(* frameScanner.                                                           *)

FreshFramer ==
    [offset |-> 0, objects |-> 0, arrays |-> 0, started |-> FALSE,
     inString |-> FALSE, escape |-> FALSE, complete |-> FALSE]

\* Mutant: an escaped quote ends the string.
ScanInStringNoEscape(f, c) == [f EXCEPT !.inString = c # "quote"]

\* scanJSONByte, the string part.
ScanInString(f, c) ==
    IF f.escape THEN [f EXCEPT !.escape = FALSE]
    ELSE [f EXCEPT !.escape = c = "bslash", !.inString = c # "quote"]

\* A closing bracket that nothing opened.
Unopened(f, c) ==
    ~f.inString /\ \/ c = "}" /\ f.objects = 0
                   \/ c = "]" /\ f.arrays = 0

\* scanJSONByte for any other byte; the depths are both zero at the end.
ScanOutside(f, c) ==
    LET g == [f EXCEPT
                !.inString = c = "quote",
                !.objects  = @ + (IF c = "{" THEN 1 ELSE IF c = "}" THEN -1 ELSE 0),
                !.arrays   = @ + (IF c = "[" THEN 1 ELSE IF c = "]" THEN -1 ELSE 0)]
    IN  [g EXCEPT !.complete = g.objects = 0 /\ g.arrays = 0]

ScanJSONByte(f, c) == IF f.inString THEN ScanInString(f, c) ELSE ScanOutside(f, c)

-----------------------------------------------------------------------------
(* Ends of a call.                                                         *)

Terminal == outcome.category # "open"

Whole == format \in {"whole", "whole_json"}

Init ==
    /\ format \in Formats
    /\ pending = <<>>
    /\ framer = FreshFramer
    /\ outcome = [category |-> "open", disposition |-> "none", cause |-> "none",
                   sequence |-> 0, released |-> 0, received |-> 0]
    /\ attempted = FALSE
    /\ pc = "idle"
    /\ final = FALSE
    /\ rest = <<>>
    /\ unit = 0
    /\ approved = 0
    /\ offered = <<>>
    /\ cuts = <<>>
    /\ fallbackOut = <<>>

\* The buffers of a stream that is over.
Discard ==
    /\ pending' = <<>>
    /\ framer' = FreshFramer
    /\ rest' = <<>>
    /\ unit' = 0
    /\ approved' = 0
    /\ pc' = "idle"

\* fail, with the disposition of the decision it is given.
FailCounting(category, cause, disposition, sent) ==
    /\ outcome' = [outcome EXCEPT
                      !.category    = category,
                      !.cause       = cause,
                      !.released    = @ + sent,
                      !.disposition = IF category = "timeout" \/ disposition = "none"
                                      THEN "system_fault" ELSE disposition]
    /\ Discard

Fail(category, cause, disposition) == FailCounting(category, cause, disposition, 0)

\* The tail of Complete.
Succeed == outcome' = [outcome EXCEPT !.category = "success"] /\ Discard

-----------------------------------------------------------------------------
(* WriteContext.                                                           *)

Chunks == UNION {[1..n -> Alphabet[format]] : n \in 0..MaxChunk}

WriteRefused ==
    /\ pc = "idle"
    /\ ~Terminal
    /\ \/ /\ \E p \in Chunks : Len(p) > MaxInput - outcome.received
          /\ Fail("limit", "input limit", "none")
       \/ Fail("timeout", "context", "none")
    /\ final' = FALSE
    /\ UNCHANGED <<format, attempted, history>>

WriteContext(p) ==
    /\ pc = "idle"
    /\ ~Terminal
    /\ Len(p) <= MaxInput - outcome.received
    /\ final' = FALSE
    /\ rest' = p
    /\ offered' = offered \o p
    /\ pc' = "accept"
    /\ UNCHANGED <<format, pending, framer, outcome, attempted, unit, approved,
                   cuts, fallbackOut>>

WriteReturns ==
    /\ pc = "accept"
    /\ rest = <<>>
    /\ pc' = "idle"
    /\ UNCHANGED <<format, pending, framer, outcome, attempted, running, history>>

\* Only the newline framing bounds the buffer by the unit.
UnitRoom == IF format = "newline" THEN MaxUnit - Len(pending) ELSE Len(rest)

PendingRoom == MaxPending[format] - Len(pending)

\* Accept what fits and look for a unit, unless nothing is released early.
Buffer ==
    LET n == Min({UnitRoom, PendingRoom, Len(rest)})
    IN  /\ pending' = pending \o SubSeq(rest, 1, n)
        /\ rest' = SubSeq(rest, n + 1, Len(rest))
        /\ outcome' = [outcome EXCEPT !.received = @ + n]
        /\ pc' = IF Whole THEN "accept" ELSE "scan"
        /\ UNCHANGED <<framer, unit, approved>>

\* Mutant: a full buffer is not noticed.
AcceptUnchecked ==
    /\ pc = "accept"
    /\ rest # <<>>
    /\ Buffer
    /\ UNCHANGED <<format, attempted, final, history>>

(* One round of acceptInput's loop.                                        *)
AcceptInput ==
    /\ pc = "accept"
    /\ rest # <<>>
    /\ IF UnitRoom <= 0 THEN Fail("limit", "unit limit", "none")
       ELSE IF PendingRoom <= 0 THEN Fail("limit", "pending limit", "none")
       ELSE Buffer
    /\ UNCHANGED <<format, attempted, final, history>>

-----------------------------------------------------------------------------
(* releasePending: one round is to find a unit, validate it and write it.  *)

\* No unit can be taken now: Complete is done, acceptInput goes on.
NoUnit ==
    \/ /\ final
       /\ Succeed
    \/ /\ ~final
       /\ pc' = "accept"
       /\ UNCHANGED <<pending, outcome, rest, unit, approved>>

\* nextUnit has answered n and left the framer at f.
Take(n, f) ==
    IF n > MaxUnit THEN Fail("limit", "unit limit", "none")
    ELSE /\ unit' = n
         /\ framer' = f
         /\ pc' = "validate"
         /\ UNCHANGED <<pending, outcome, rest, approved>>

Wait(f) == NoUnit /\ framer' = IF final THEN FreshFramer ELSE f

NothingPending ==
    /\ pc = "scan"
    /\ pending = <<>>
    /\ Wait(framer)
    /\ UNCHANGED <<format, attempted, final, history>>

(* frameScanner.newline.                                                   *)
ScanNewline ==
    LET ends == {i \in (framer.offset + 1)..Len(pending) : pending[i] = "nl"}
        offset == IF ends = {} THEN Len(pending) ELSE Min(ends)
        f == [framer EXCEPT !.offset = offset]
    IN  /\ pc = "scan"
        /\ format = "newline"
        /\ pending # <<>>
        /\ IF ends # {} \/ final THEN Take(offset, f) ELSE Wait(f)
        /\ UNCHANGED <<format, attempted, final, history>>

(* The incremental profile: a full window, cut before an unfinished rune.  *)
ScanPartial ==
    LET window == SubSeq(pending, 1, Min({Len(pending), MaxUnit}))
        n == IF window[Len(window)] = "lead" THEN Len(window) - 1 ELSE Len(window)
    IN  /\ pc = "scan"
        /\ format = "partial"
        /\ pending # <<>>
        /\ IF Len(pending) < MaxUnit /\ ~final THEN Wait(framer)
           ELSE IF n = 0 \/ \E i \in 1..n : InvalidAt(window, i)
           THEN Fail("incomplete", "encoding", "none")
           ELSE Take(n, framer)
        /\ UNCHANGED <<format, attempted, final, history>>

(* One round of frameScanner.json's loop.                                  *)
ScanJSON ==
    LET c == pending[framer.offset + 1]
        f == [framer EXCEPT !.offset = @ + 1]
        skip == f.complete \/ (~f.started /\ c \in Space)
        g == IF skip THEN f ELSE ScanJSONByte([f EXCEPT !.started = TRUE], c)
    IN  /\ pc = "scan"
        /\ format = "json"
        /\ framer.offset < Len(pending)
        /\ IF framer.complete /\ c \notin Space THEN Take(framer.offset, framer)
           ELSE IF ~skip /\ ((~f.started /\ c \notin {"{", "["}) \/ Unopened(f, c))
           THEN Fail("malformed", "framing", "none")
           ELSE IF f.offset > MaxUnit \/ (~g.complete /\ f.offset >= MaxUnit)
           THEN Fail("limit", "unit limit", "none")
           ELSE framer' = g /\ UNCHANGED <<pending, outcome, rest, unit, approved, pc>>
        /\ UNCHANGED <<format, attempted, final, history>>

\* Mutant: a complete value is taken without waiting for what follows it.
FinishJSONEager ==
    /\ pc = "scan"
    /\ format = "json"
    /\ pending # <<>>
    /\ framer.offset = Len(pending)
    /\ IF framer.complete THEN Take(framer.offset, framer)
       ELSE IF final THEN Fail("incomplete", "framing", "none")
       ELSE Wait(framer)
    /\ UNCHANGED <<format, attempted, final, history>>

\* Mutant: Complete takes an unfinished value for the end of the stream.
FinishJSONSilent ==
    /\ pc = "scan"
    /\ format = "json"
    /\ pending # <<>>
    /\ framer.offset = Len(pending)
    /\ IF framer.complete /\ final THEN Take(framer.offset, framer) ELSE Wait(framer)
    /\ UNCHANGED <<format, attempted, final, history>>

(* finishJSON: every pending byte has been scanned.  Trailing space belongs *)
(* to the value before it, so a value ends when the next byte is known not  *)
(* to be space.  (The limits finishJSON checks again were met per byte.)    *)
FinishJSON ==
    /\ pc = "scan"
    /\ format = "json"
    /\ pending # <<>>
    /\ framer.offset = Len(pending)
    /\ IF final /\ framer.complete THEN Take(framer.offset, framer)
       ELSE IF final THEN Fail("incomplete", "framing", "none")
       ELSE Wait(framer)
    /\ UNCHANGED <<format, attempted, final, history>>

-----------------------------------------------------------------------------
(* Complete and Abort.                                                     *)

(* A trusted Complete; its context may already have ended.                 *)
Complete ==
    /\ pc = "idle"
    /\ ~Terminal
    /\ final' = TRUE
    /\ \/ Fail("timeout", "context", "none")
       \/ /\ Whole
          /\ IF Len(pending) > MaxUnit THEN Fail("limit", "unit limit", "none")
             ELSE Take(Len(pending), framer)
       \/ /\ ~Whole
          /\ pc' = "scan"
          /\ UNCHANGED <<pending, framer, outcome, rest, unit, approved>>
    /\ UNCHANGED <<format, attempted, history>>

(* Abort, and Close, which aborts.                                         *)
Abort ==
    /\ pc = "idle"
    /\ ~Terminal
    /\ Fail("incomplete", "abort", "none")
    /\ UNCHANGED <<format, attempted, final, history>>

-----------------------------------------------------------------------------
(* validateAndRelease.                                                     *)

UnitBytes == SubSeq(pending, 1, unit)

RejectUnit ==
    /\ pc = "validate"
    /\ ~ValidRepresentation(UnitBytes)
    /\ IF ValidUTF8(UnitBytes) THEN Fail("malformed", "framing", "none")
       ELSE Fail("incomplete", "encoding", "none")
    /\ UNCHANGED <<format, attempted, final, history>>

\* ScopeFactory fails.
ScopeFails ==
    /\ pc = "validate"
    /\ ValidRepresentation(UnitBytes)
    /\ Fail("fault", "scope", "none")
    /\ UNCHANGED <<format, attempted, final, history>>

\* The answers of a GuardDelivery whose policy has no fallback.
UnitAnswers == {a \in Answers : ~a.fallback}

\* The context has ended by the time the guard is back, whatever it says.
GuardLate ==
    /\ pc = "validate"
    /\ ValidRepresentation(UnitBytes)
    /\ \E a \in UnitAnswers : Fail("timeout", "context", a.disposition)
    /\ UNCHANGED <<format, attempted, final, history>>

GuardStops ==
    /\ pc = "validate"
    /\ ValidRepresentation(UnitBytes)
    /\ \E a \in UnitAnswers :
          /\ ~a.deliverable
          /\ Fail(IF a.disposition = "system_fault" THEN "fault" ELSE "blocked",
                  "guard", a.disposition)
    /\ UNCHANGED <<format, attempted, final, history>>

\* Mutant: every value has the whole output budget.
RoomForEach(size) == size <= MaxOutput

\* What is left of the output budget admits size bytes.
OutputRoom(size) == size <= MaxOutput - outcome.released

\* A unit may not grow past its bound, a whole response may.
Expanded(size) == ~Whole /\ size > MaxUnit

(* The guard approves a value of that size, in the shape of a unit or not. *)
GuardApproves(size, valid) ==
    /\ pc = "validate"
    /\ ValidRepresentation(UnitBytes)
    /\ IF ~valid THEN Fail("fault", "guard", "none")
       ELSE IF Expanded(size) THEN Fail("limit", "expansion", "none")
       ELSE IF ~OutputRoom(size) THEN Fail("limit", "output limit", "none")
       ELSE /\ outcome' = [outcome EXCEPT !.sequence = @ + 1, !.disposition = "none"]
            /\ approved' = size
            /\ pc' = "write"
            /\ UNCHANGED <<pending, framer, rest, unit>>
    /\ UNCHANGED <<format, attempted, final, history>>

(* The writer reports a count no write can have.                           *)
InvalidCount ==
    /\ pc = "write"
    /\ Fail("transport", "transfer", "none")
    /\ UNCHANGED <<format, attempted, final, history>>

(* The writer took n bytes and failed, or took fewer than it was given.    *)
ShortWrite(n) ==
    /\ pc = "write"
    /\ FailCounting("transport", "transfer", "none", n)
    /\ UNCHANGED <<format, attempted, final, history>>

(* The unit is out: consume it.  It was all there is of a whole response.  *)
Written ==
    /\ pc = "write"
    /\ cuts' = Append(cuts, Len(offered) - Len(rest) - Len(pending) + unit)
    /\ outcome' = [outcome EXCEPT !.released = @ + approved,
                                  !.category = IF Whole THEN "success" ELSE @]
    /\ pending' = SubSeq(pending, unit + 1, Len(pending))
    /\ framer' = FreshFramer
    /\ pc' = IF Whole THEN "idle" ELSE "scan"
    /\ unit' = 0
    /\ approved' = 0
    /\ UNCHANGED <<format, attempted, final, rest, offered, fallbackOut>>

-----------------------------------------------------------------------------
(* DeliverFallback.                                                        *)

Answer(category, sent) == [category |-> category, released |-> sent]

\* What a fallback of an approved size can end in.
SentFallback(size) ==
    IF Expanded(size) \/ ~OutputRoom(size) THEN {Answer("limit", 0)}
    ELSE {Answer("success", size)} \cup {Answer("transport", n) : n \in 0..size}

\* The rest of DeliverFallback for a configured candidate.
CheckedFallback(candidate) ==
    IF Len(candidate) > MaxUnit \/ Len(candidate) > MaxInput
    THEN {Answer("limit", 0)}
    ELSE IF ~ValidRepresentation(candidate)
    THEN {Answer(IF format = "newline" /\ ValidUTF8(candidate)
                 THEN "unsupported" ELSE "malformed", 0)}
    ELSE {Answer(category, 0) : category \in {"fault", "timeout", "blocked"}}
         \cup UNION {SentFallback(size) : size \in OutputSizes}

\* Mutant: any ended stream may send its fallback.
DeliverFallbackAnytime ==
    /\ pc = "idle"
    /\ Terminal
    /\ ~attempted
    /\ attempted' = TRUE
    /\ \/ UNCHANGED fallbackOut
       \/ \E candidate \in Candidates :
            \E answer \in CheckedFallback(candidate) : fallbackOut' = <<answer>>
    /\ UNCHANGED <<format, pending, framer, outcome, pc, running, offered, cuts>>

(* The separate, checked delivery after a policy stop.  The configuration  *)
(* is read only here, so that is where the candidate is chosen; there may  *)
(* be none.                                                                *)
DeliverFallback ==
    /\ pc = "idle"
    /\ outcome.category = "blocked"
    /\ ~attempted
    /\ attempted' = TRUE
    /\ \/ UNCHANGED fallbackOut
       \/ \E candidate \in Candidates :
            \E answer \in CheckedFallback(candidate) : fallbackOut' = <<answer>>
    /\ UNCHANGED <<format, pending, framer, outcome, pc, running, offered, cuts>>

-----------------------------------------------------------------------------

\* A step of the running call.
Proceed ==
    \/ WriteReturns \/ AcceptInput
    \/ NothingPending \/ ScanNewline \/ ScanPartial \/ ScanJSON \/ FinishJSON
    \/ RejectUnit \/ ScopeFails \/ GuardLate \/ GuardStops
    \/ \E size \in OutputSizes, valid \in BOOLEAN : GuardApproves(size, valid)
    \/ InvalidCount \/ Written
    \/ \E n \in 0..approved : ShortWrite(n)

\* A stream that is over answers every further call with its outcome.
Closed ==
    /\ pc = "idle"
    /\ Terminal
    /\ UNCHANGED vars

\* A caller's call.
Call ==
    \/ \E p \in Chunks : WriteContext(p)
    \/ WriteRefused \/ Complete \/ Abort
    \/ DeliverFallback
    \/ Closed

Next == Call \/ Proceed

\* The contract has validators, writer and observer return.
Spec == Init /\ [][Next]_vars /\ WF_vars(Proceed)

-----------------------------------------------------------------------------
(* Properties.                                                             *)

\* The end of the value at the start of s, zero if s starts with none.
ValueEnd(s) ==
    LET ends == {e \in DOMAIN s : LET t == SubSeq(s, 1, e)
                                  IN  ValidJSON[t] /\ Trimmed(t)[1] \in {"{", "["}}
    IN  IF ends = {} THEN 0 ELSE Max(ends)

\* The length of the first unit of s, zero if s starts with none: up to a
\* newline; a JSON value with the space around it; a full window of runes.
FirstUnit(s) ==
    CASE Whole              -> Len(s)
      [] format = "newline" -> NewlineBoundary(s)
      [] format = "json"    -> ValueEnd(s)
      [] format = "partial" ->
            LET window == SubSeq(s, 1, Min({Len(s), MaxUnit}))
            IN  Len(window) - (IF window[Len(window)] = "lead" THEN 1 ELSE 0)

\* s is a sequence of units within the bounds, and nothing else.
WellFramed[s \in Seq(Byte)] ==
    IF Whole THEN Len(s) <= MaxUnit /\ ValidRepresentation(s)
    ELSE \/ s = <<>>
         \/ LET n == FirstUnit(s)
            IN  /\ n \in 1..MaxUnit
                /\ ValidRepresentation(SubSeq(s, 1, n))
                /\ WellFramed[SubSeq(s, n + 1, Len(s))]

\* Where the k-th released unit starts.
Start(k) == IF k = 1 THEN 0 ELSE cuts[k - 1]

Unreleased == SubSeq(offered, Start(Len(cuts) + 1) + 1, Len(offered))

\* Partition independence: the k-th unit delivered is the k-th unit of the
\* input, however Write was called, and whatever is written after it.
FramingCanonical ==
    \A k \in DOMAIN cuts :
        cuts[k] = Start(k) + FirstUnit(SubSeq(offered, Start(k) + 1, Len(offered)))

\* An input is refused for its framing only if it is past saving: neither it
\* nor, while more may be written, any continuation of it is well framed.
FramingComplete ==
    outcome.cause \in {"unit limit", "framing", "encoding"} =>
        \A p \in (IF final THEN {<<>>} ELSE Chunks) : ~WellFramed[offered \o p]

\* No admitted byte is lost, repeated or reordered between calls: what no unit
\* has taken is still there, and success means that nothing is.
NothingLost ==
    /\ ~Terminal => pending \o rest = Unreleased
    /\ outcome.category = "success" => Unreleased = <<>>
    /\ outcome.category # "transport" /\ pc # "write" =>
          outcome.sequence = Len(cuts)

FallbackReleased == IF fallbackOut = <<>> THEN 0 ELSE fallbackOut[1].released

\* The byte budgets hold at every step, the fallback counted in the output,
\* and an ended stream retains nothing.
BudgetsHold ==
    /\ outcome.received <= MaxInput
    /\ Len(pending) <= MaxPending[format]
    /\ unit <= MaxUnit
    /\ outcome.released + FallbackReleased <= MaxOutput
    /\ Terminal => pending = <<>>

\* The terminal outcome is final, and only a policy stop, never a fault or a
\* timeout, is followed by a fallback, once.
OutcomeSticky ==
    [][Terminal =>
         /\ UNCHANGED <<outcome, cuts>>
         /\ fallbackOut' # fallbackOut =>
               /\ fallbackOut = <<>>
               /\ outcome.disposition \in {"terminal_deny", "retryable_correction"}]_vars

\* Every call returns: each round of a loop under the lock makes progress.
CallsReturn == pc # "idle" ~> pc = "idle"
=============================================================================
