---------------------------- MODULE StreamProofs ----------------------------
(***************************************************************************)
(* The stream processor of StreamProcessor.tla and its text consumer, for  *)
(* every alphabet, every bound and every stream.                           *)
(***************************************************************************)
EXTENDS TextConsumer, StreamBuffer, SequenceTheorems, ReportProofs

-----------------------------------------------------------------------------
(* The inductive invariant of a processor.                                 *)

Categories ==
    {"open", "success", "limit", "timeout", "incomplete", "malformed", "fault",
     "blocked", "transport"}

Causes ==
    {"none", "context", "input limit", "unit limit", "pending limit", "encoding",
     "framing", "abort", "scope", "guard", "expansion", "output limit", "transfer"}

Outcome ==
    [category : Categories, disposition : Dispositions, cause : Causes,
     sequence : Nat, released : Nat, received : Nat]

Framer ==
    [offset : Nat, objects : Int, arrays : Int, started : BOOLEAN,
     inString : BOOLEAN, escape : BOOLEAN, complete : BOOLEAN]

FallbackAnswer == [category : Categories \cup {"unsupported"}, released : Nat]

StreamType ==
    /\ format \in Formats
    /\ pending \in Seq(Byte) /\ rest \in Seq(Byte) /\ offered \in Seq(Byte)
    /\ framer \in Framer /\ framer.offset <= Len(pending)
    /\ outcome \in Outcome
    /\ attempted \in BOOLEAN /\ final \in BOOLEAN
    /\ pc \in {"idle", "accept", "scan", "validate", "write"}
    /\ unit \in 0..MaxUnit /\ approved \in Nat
    /\ cuts \in Seq(Nat)
    /\ fallbackOut \in AtMostOne(FallbackAnswer)

InUnit == pc \in {"validate", "write"}

(* What the place in a call says of the buffers: an ended stream holds     *)
(* none, Complete runs when every write is buffered, and only Complete     *)
(* releases a whole response.                                              *)
Control ==
    /\ Terminal => pc = "idle" /\ pending = <<>>
    /\ pc = "idle" => rest = <<>>
    /\ final => IF pc = "idle" THEN Terminal ELSE rest = <<>> /\ pc # "accept"
    /\ InUnit => unit <= Len(pending)
    /\ Whole => pc # "scan"
    /\ Whole /\ InUnit => final /\ unit = Len(pending)
    /\ Whole /\ outcome.released > 0 => final

(* What is still to be accepted has room, and what is approved has room    *)
(* until it is written.                                                    *)
Budget ==
    /\ outcome.received + Len(rest) <= MaxInput
    /\ Len(pending) <= MaxPending[format]
    /\ outcome.released + FallbackReleased <= MaxOutput
    /\ pc = "write" => approved <= MaxOutput - outcome.released
    /\ fallbackOut # <<>> => Terminal /\ attempted
    /\ outcome.category = "blocked" =>
          outcome.disposition \in {"terminal_deny", "retryable_correction"}

Taken == Start(Len(cuts) + 1)

(* The units released are a prefix of the input, and the buffers are what  *)
(* comes after it.                                                         *)
Conserved ==
    /\ Taken \in 0..Len(offered)
    /\ ~Terminal => pending \o rest = Unreleased
    /\ outcome.category = "success" => final /\ Taken = Len(offered)
    /\ outcome.category # "transport" =>
          outcome.sequence = Len(cuts) + (IF pc = "write" THEN 1 ELSE 0)

StreamInv == StreamType /\ Control /\ Budget /\ Conserved

-----------------------------------------------------------------------------
(* Numbers and sequences.                                                  *)

LEMMA Limits ==
    /\ MaxInput \in Nat /\ MaxUnit \in Nat \ {0} /\ MaxOutput \in Nat
    /\ \A f \in Formats : MaxPending[f] \in Nat \ {0}
    /\ OutputSizes \subseteq Nat /\ Candidates \subseteq Seq(Byte)
BY LimitsAssumption, BoundsAssumption

LEMMA MinOfSet ==
    ASSUME NEW n \in Nat, NEW T \in SUBSET (1..n), T # {}
    PROVE  Min(T) \in T /\ \A i \in T : Min(T) <= i
<1> DEFINE Flip == {n + 1 - i : i \in T}
<1>1. Flip \in SUBSET (1..n) /\ Flip # {}
  OBVIOUS
<1>2. PICK m \in Flip : \A i \in Flip : i <= m
  <2> HIDE DEF Flip
  <2>1. QED
    BY <1>1, LastPosition
<1>3. PICK t \in T : m = n + 1 - t
  BY <1>2
<1>4. ASSUME NEW i \in T PROVE t <= i
  <2>1. n + 1 - i <= m
    BY <1>2
  <2>2. i \in 1..n /\ t \in 1..n
    OBVIOUS
  <2>3. QED
    BY <1>3, <2>1, <2>2
<1>5. \E x \in T : \A y \in T : x =< y
  BY <1>4
<1>6. QED
  BY <1>5 DEF Min

LEMMA MinOfTwo ==
    ASSUME NEW a \in Int, NEW b \in Int
    PROVE  Min({a, b}) = IF a <= b THEN a ELSE b
<1>1. \E x \in {a, b} : \A y \in {a, b} : x =< y
  OBVIOUS
<1>2. Min({a, b}) \in {a, b} /\ \A y \in {a, b} : Min({a, b}) =< y
  BY <1>1 DEF Min
<1>3. QED
  BY <1>2

LEMMA MinOfThree ==
    ASSUME NEW a \in Int, NEW b \in Int, NEW c \in Int
    PROVE  /\ Min({a, b, c}) \in {a, b, c}
           /\ Min({a, b, c}) <= a /\ Min({a, b, c}) <= b /\ Min({a, b, c}) <= c
<1>1. \E x \in {a, b, c} : \A y \in {a, b, c} : x =< y
  OBVIOUS
<1>2. Min({a, b, c}) \in {a, b, c} /\ \A y \in {a, b, c} : Min({a, b, c}) =< y
  BY <1>1 DEF Min
<1>3. QED
  BY <1>2

(* A sequence cut in two.                                                  *)
LEMMA CutAt ==
    ASSUME NEW S, NEW s \in Seq(S), NEW n \in 0..Len(s)
    PROVE  /\ SubSeq(s, 1, n) \in Seq(S) /\ Len(SubSeq(s, 1, n)) = n
           /\ SubSeq(s, n + 1, Len(s)) \in Seq(S)
           /\ Len(SubSeq(s, n + 1, Len(s))) = Len(s) - n
           /\ SubSeq(s, 1, n) \o SubSeq(s, n + 1, Len(s)) = s
           /\ \A i \in 1..n : SubSeq(s, 1, n)[i] = s[i]
           /\ \A i \in 1..(Len(s) - n) : SubSeq(s, n + 1, Len(s))[i] = s[n + i]
<1>1. Len(s) \in Nat /\ \A i \in 1..Len(s) : s[i] \in S
  OBVIOUS
<1>2. /\ SubSeq(s, 1, n) \in Seq(S) /\ Len(SubSeq(s, 1, n)) = n
      /\ \A i \in 1..n : SubSeq(s, 1, n)[i] = s[i]
  BY <1>1, SubSeqProperties, Z3
<1>3. /\ SubSeq(s, n + 1, Len(s)) \in Seq(S)
      /\ Len(SubSeq(s, n + 1, Len(s))) = Len(s) - n
      /\ \A i \in 1..(Len(s) - n) : SubSeq(s, n + 1, Len(s))[i] = s[n + i]
  BY <1>1, SubSeqProperties
<1>4. SubSeq(s, 1, n) \o SubSeq(s, n + 1, Len(s)) = s
  <2>1. 1 \in 1..(Len(s) + 1) /\ n \in (1 - 1)..Len(s) /\ Len(s) \in n..Len(s)
    BY <1>1
  <2>2. SubSeq(s, 1, n) \o SubSeq(s, n + 1, Len(s)) = SubSeq(s, 1, Len(s))
    BY <2>1, ConcatAdjacentSubSeq
  <2>3. QED
    BY <2>2, SubSeqFull
<1>5. QED
  BY <1>2, <1>3, <1>4

(* The rest of a concatenation, cut inside its first part.                 *)
LEMMA RestOfConcat ==
    ASSUME NEW S, NEW s \in Seq(S), NEW t \in Seq(S), NEW n \in 0..Len(s)
    PROVE  SubSeq(s \o t, n + 1, Len(s \o t)) = SubSeq(s, n + 1, Len(s)) \o t
<1>1. /\ s \o t \in Seq(S) /\ Len(s \o t) = Len(s) + Len(t)
      /\ Len(s) \in Nat /\ Len(t) \in Nat
  OBVIOUS
<1>2. SubSeq(s, n + 1, Len(s)) \in Seq(S) /\ Len(SubSeq(s, n + 1, Len(s))) = Len(s) - n
  BY CutAt
<1>3. /\ SubSeq(s \o t, n + 1, Len(s \o t)) \in Seq(S)
      /\ Len(SubSeq(s \o t, n + 1, Len(s \o t))) = Len(s) + Len(t) - n
      /\ \A i \in 1..(Len(s) + Len(t) - n) :
            SubSeq(s \o t, n + 1, Len(s \o t))[i] = (s \o t)[n + i]
  BY <1>1, CutAt
<1>4. \A i \in 1..(Len(s) + Len(t) - n) :
         (SubSeq(s, n + 1, Len(s)) \o t)[i] = (s \o t)[n + i]
  BY <1>1, <1>2, CutAt
<1>5. QED
  <2> DEFINE u == SubSeq(s \o t, n + 1, Len(s \o t))
             v == SubSeq(s, n + 1, Len(s)) \o t
  <2>1. /\ u \in Seq(S) /\ v \in Seq(S) /\ Len(u) = Len(v)
        /\ Len(u) = Len(s) + Len(t) - n
    BY <1>1, <1>2, <1>3
  <2>2. \A i \in 1..Len(u) : u[i] = v[i]
    BY <1>3, <1>4, <2>1
  <2> HIDE DEF u, v
  <2>3. u = v
    BY <2>1, <2>2, SeqEqual
  <2>4. QED
    BY <2>3 DEF u, v

LEMMA ChunksAreText ==
    ASSUME format \in Formats
    PROVE  Chunks \subseteq Seq(Byte)
<1>1. Alphabet[format] \subseteq Byte
  BY AlphabetAssumption
<1>2. QED
  BY <1>1, BoundsAssumption DEF Chunks

LEMMA OutcomeField ==
    ASSUME outcome \in Outcome
    PROVE  /\ outcome.category \in Categories /\ outcome.disposition \in Dispositions
           /\ outcome.cause \in Causes /\ outcome.sequence \in Nat
           /\ outcome.released \in Nat /\ outcome.received \in Nat
BY DEF Outcome

-----------------------------------------------------------------------------
(* The ends of a call.                                                     *)

LEMMA InitStream == Init => StreamInv
<1> SUFFICES ASSUME Init PROVE StreamInv
  OBVIOUS
<1>1. /\ outcome.category = "open" /\ outcome.disposition = "none"
      /\ outcome.sequence = 0 /\ outcome.released = 0 /\ outcome.received = 0
      /\ outcome \in Outcome
  BY DEF Init, Outcome, Categories, Dispositions, Causes
<1>2. framer \in Framer /\ framer.offset = 0
  BY DEF Init, FreshFramer, Framer
<1>3. /\ <<>> \in Seq(Byte) /\ <<>> \in Seq(Nat) /\ <<>> \in Seq(FallbackAnswer)
      /\ Len(<<>>) = 0
  OBVIOUS
<1>4. StreamType
  <2>1. fallbackOut \in AtMostOne(FallbackAnswer)
    BY <1>3 DEF Init, AtMostOne
  <2>2. framer.offset <= Len(pending) /\ unit \in 0..MaxUnit
    BY <1>2, <1>3, Limits DEF Init
  <2>3. QED
    BY <1>1, <1>2, <1>3, <2>1, <2>2 DEF Init, StreamType
<1>5. Control /\ Budget
  BY <1>1, <1>4, Limits
     DEF Init, Control, Budget, Terminal, Whole, InUnit, FallbackReleased, StreamType
<1>6. Taken = 0
  BY DEF Init, Taken, Start
<1>7. Unreleased = <<>>
  BY <1>6, SubSeqEmpty DEF Init, Unreleased, Taken
<1>8. Conserved
  BY <1>1, <1>6, <1>7 DEF Init, Conserved, Terminal
<1>9. QED
  BY <1>4, <1>5, <1>8 DEF StreamInv

(* Any end of the stream but success.                                      *)
LEMMA FailKeeps ==
    ASSUME StreamInv, ~Terminal,
           NEW category \in Categories \ {"open", "success"}, NEW cause \in Causes,
           NEW d \in Dispositions, NEW sent \in Nat,
           FailCounting(category, cause, d, sent),
           UNCHANGED <<format, attempted, history>>,
           final' \in BOOLEAN, pc # "idle" => final' = final,
           IF pc = "write" THEN sent <= approved /\ category = "transport" ELSE sent = 0,
           category = "blocked" => d \in {"terminal_deny", "retryable_correction"}
    PROVE  StreamInv'
<1>1. /\ outcome'.category = category /\ outcome'.released = outcome.released + sent
      /\ outcome'.sequence = outcome.sequence /\ outcome'.received = outcome.received
      /\ outcome'.disposition = (IF category = "timeout" \/ d = "none"
                                 THEN "system_fault" ELSE d)
      /\ outcome' \in Outcome
  <2> DEFINE now == IF category = "timeout" \/ d = "none" THEN "system_fault" ELSE d
  <2>1. now \in Dispositions /\ outcome \in Outcome
    BY DEF Dispositions, StreamInv, StreamType
  <2>2. outcome' = [outcome EXCEPT !.category = category, !.cause = cause,
                                   !.released = @ + sent, !.disposition = now]
    BY DEF FailCounting
  <2> HIDE DEF now
  <2>3. outcome' \in Outcome
    <3> DEFINE total == outcome.released + sent
    <3>1. total \in Nat
      BY <2>1 DEF Outcome
    <3>2. outcome' = [outcome EXCEPT !.category = category, !.cause = cause,
                                     !.released = total, !.disposition = now]
      BY <2>2
    <3> HIDE DEF total
    <3>3. QED
      BY <2>1, <3>1, <3>2 DEF Outcome
  <2>4. /\ outcome'.category = category /\ outcome'.released = outcome.released + sent
        /\ outcome'.sequence = outcome.sequence /\ outcome'.received = outcome.received
        /\ outcome'.disposition = now
    BY <2>1, <2>2 DEF Outcome
  <2>5. QED
    BY <2>3, <2>4 DEF now
<1>2. /\ pending' = <<>> /\ rest' = <<>> /\ unit' = 0 /\ approved' = 0 /\ pc' = "idle"
      /\ framer' \in Framer /\ framer'.offset = 0
  BY DEF FailCounting, Discard, FreshFramer, Framer
<1>3. <<>> \in Seq(Byte)
  OBVIOUS
<1>4. StreamType'
  BY <1>1, <1>2, <1>3, Limits DEF StreamInv, StreamType, history
<1>5. outcome.category = "open" /\ fallbackOut = <<>>
  BY DEF StreamInv, Budget, Terminal
<1>6. Control'
  BY <1>1, <1>2, <1>5 DEF StreamInv, Control, Terminal, Whole, InUnit, StreamType, Outcome
<1>7. /\ outcome.received \in Nat /\ outcome.released \in Nat /\ Len(rest) \in Nat
      /\ format \in Formats
  BY DEF StreamInv, StreamType, Outcome
<1>8. Budget'
  <2>1. fallbackOut' = <<>> /\ FallbackReleased = 0 /\ FallbackReleased' = 0
    BY <1>5 DEF FallbackReleased, history
  <2>2. outcome.released + sent <= MaxOutput
    BY <1>7, <2>1, Limits DEF StreamInv, StreamType, Budget
  <2>3. Len(pending') = 0 /\ Len(rest') = 0
    BY <1>2
  <2>4. outcome.received <= MaxInput /\ MaxPending[format] \in Nat
    BY <1>7, Limits DEF StreamInv, Budget
  <2>5. category = "blocked" => outcome'.disposition = d
    BY <1>1
  <2>6. QED
    BY <1>1, <1>2, <1>7, <2>1, <2>2, <2>3, <2>4, <2>5 DEF Budget
<1>9. Taken' = Taken /\ offered' = offered /\ cuts' = cuts
  BY DEF Taken, Start, history
<1>10. Conserved'
  BY <1>1, <1>2, <1>5, <1>9 DEF StreamInv, Conserved, Terminal
<1>11. QED
  BY <1>4, <1>6, <1>8, <1>10 DEF StreamInv

(* Complete has found nothing left.                                        *)
LEMMA SucceedKeeps ==
    ASSUME StreamInv, pc = "scan", final, pending = <<>>, Succeed,
           UNCHANGED <<format, attempted, final, history>>
    PROVE  StreamInv'
<1>1. /\ outcome'.category = "success" /\ outcome'.released = outcome.released
      /\ outcome'.sequence = outcome.sequence /\ outcome'.received = outcome.received
      /\ outcome' \in Outcome
  BY DEF Succeed, StreamInv, StreamType, Outcome, Categories
<1>2. /\ pending' = <<>> /\ rest' = <<>> /\ unit' = 0 /\ approved' = 0 /\ pc' = "idle"
      /\ framer' \in Framer /\ framer'.offset = 0
  BY DEF Succeed, Discard, FreshFramer, Framer
<1>3. <<>> \in Seq(Byte)
  OBVIOUS
<1>4. StreamType'
  BY <1>1, <1>2, <1>3, Limits DEF StreamInv, StreamType, history
<1>5. /\ outcome.category = "open" /\ fallbackOut = <<>> /\ ~Terminal
      /\ rest = <<>>
  BY DEF StreamInv, Budget, Control, Terminal
<1>6. Control'
  BY <1>1, <1>2, <1>5 DEF StreamInv, Control, Terminal, Whole, InUnit, StreamType, Outcome
<1>7. /\ outcome.received \in Nat /\ outcome.released \in Nat /\ Len(rest) \in Nat
      /\ format \in Formats
  BY DEF StreamInv, StreamType, Outcome
<1>8. Budget'
  BY <1>1, <1>2, <1>5, <1>7, Limits
     DEF StreamInv, StreamType, Budget, Terminal, FallbackReleased, history
<1>9. Taken' = Taken /\ offered' = offered /\ cuts' = cuts
  BY DEF Taken, Start, history
<1>10. Taken = Len(offered)
  <2>1. Unreleased = <<>>
    BY <1>3, <1>5, ConcatEmptySeq DEF StreamInv, Conserved
  <2>2. Taken \in 0..Len(offered) /\ offered \in Seq(Byte)
    BY DEF StreamInv, Conserved, StreamType
  <2>3. Len(Unreleased) = Len(offered) - Taken
    BY <2>2, CutAt DEF Unreleased, Taken
  <2>4. QED
    BY <2>1, <2>2, <2>3
<1>11. Conserved'
  BY <1>1, <1>2, <1>5, <1>9, <1>10 DEF StreamInv, Conserved, Terminal
<1>12. QED
  BY <1>4, <1>6, <1>8, <1>11 DEF StreamInv

-----------------------------------------------------------------------------
(* The steps of a call.                                                    *)

(* What a step that only moves the call along leaves as it was.            *)
LEMMA BuffersKept ==
    ASSUME Budget, Conserved, pc # "write", pc' # "write",
           UNCHANGED <<pending, rest, outcome, format, attempted, history>>,
           outcome.category = "success" => final'
    PROVE  Budget' /\ Conserved'
<1>1. Taken' = Taken /\ Unreleased' = Unreleased /\ FallbackReleased' = FallbackReleased
  BY DEF Taken, Start, Unreleased, FallbackReleased, history
<1>2. Budget'
  BY <1>1 DEF Budget, Terminal, history
<1>3. Conserved'
  BY <1>1 DEF Conserved, Terminal, history
<1>4. QED
  BY <1>2, <1>3

LEMMA TakeKeeps ==
    ASSUME StreamInv, ~Terminal, final' \in BOOLEAN,
           \/ pc = "scan" /\ final' = final
           \/ Whole /\ pc = "idle" /\ final' = TRUE,
           NEW n \in 0..Len(pending), NEW f \in Framer, f.offset <= Len(pending),
           Whole => n = Len(pending),
           Take(n, f), UNCHANGED <<format, attempted, history>>
    PROVE  StreamInv'
<1>1. CASE n > MaxUnit
  <2>1. FailCounting("limit", "unit limit", "none", 0)
    BY <1>1 DEF Take, Fail
  <2>2. "limit" \in Categories \ {"open", "success"} /\ "unit limit" \in Causes
        /\ "none" \in Dispositions
    BY DEF Categories, Causes, Dispositions
  <2>3. QED
    BY <2>1, <2>2, FailKeeps
<1>2. CASE ~(n > MaxUnit)
  <2>1. /\ unit' = n /\ framer' = f /\ pc' = "validate"
        /\ UNCHANGED <<pending, outcome, rest, approved>>
    BY <1>2 DEF Take
  <2>2. pending \in Seq(Byte) /\ Len(pending) \in Nat
    BY DEF StreamInv, StreamType
  <2>3. StreamType'
    BY <1>2, <2>1, <2>2, Limits DEF StreamInv, StreamType, history
  <2>4. Control'
    BY <2>1, <2>2 DEF StreamInv, Control, Terminal, Whole, InUnit, StreamType
  <2>5. Budget' /\ Conserved'
    BY <2>1, BuffersKept DEF StreamInv, Conserved, Terminal
  <2>6. QED
    BY <2>3, <2>4, <2>5 DEF StreamInv
<1>3. QED
  BY <1>1, <1>2

LEMMA WaitKeeps ==
    ASSUME StreamInv, pc = "scan", final => pending = <<>>,
           NEW f \in Framer, f.offset <= Len(pending),
           Wait(f), UNCHANGED <<format, attempted, final, history>>
    PROVE  StreamInv'
<1>1. CASE final
  <2>1. Succeed
    BY <1>1 DEF Wait, NoUnit
  <2>2. QED
    BY <1>1, <2>1, SucceedKeeps
<1>2. CASE ~final
  <2>1. /\ framer' = f /\ pc' = "accept"
        /\ UNCHANGED <<pending, outcome, rest, unit, approved>>
    BY <1>2 DEF Wait, NoUnit
  <2>2. StreamType'
    BY <2>1 DEF StreamInv, StreamType, history
  <2>3. Control'
    BY <1>2, <2>1 DEF StreamInv, Control, Terminal, Whole, InUnit
  <2>4. Budget' /\ Conserved'
    BY <2>1, BuffersKept DEF StreamInv, Conserved
  <2>5. QED
    BY <2>2, <2>3, <2>4 DEF StreamInv
<1>3. QED
  BY <1>1, <1>2

(* A call that is on its way is not over, so the stream is not.            *)
LEMMA RunningIsOpen ==
    ASSUME StreamInv, pc # "idle"
    PROVE  ~Terminal /\ (final => rest = <<>>) /\ (pc = "scan" => ~Whole)
BY DEF StreamInv, Control

LEMMA FailStep ==
    ASSUME StreamInv, ~Terminal, pc # "write",
           NEW category \in Categories \ {"open", "success", "blocked"},
           NEW cause \in Causes, NEW d \in Dispositions,
           Fail(category, cause, d),
           UNCHANGED <<format, attempted, history>>,
           final' \in BOOLEAN, pc # "idle" => final' = final
    PROVE  StreamInv'
<1>1. FailCounting(category, cause, d, 0)
  BY DEF Fail
<1>2. QED
  BY <1>1, FailKeeps

(* The members of these enumerations that the code names.                  *)
LEMMA Names ==
    /\ {"limit", "timeout", "incomplete", "malformed", "fault", "transport"}
         \subseteq Categories \ {"open", "success", "blocked"}
    /\ {"input limit", "context", "unit limit", "pending limit", "encoding", "framing",
        "abort", "scope", "guard", "expansion", "output limit", "transfer"} \subseteq Causes
    /\ "none" \in Dispositions
BY DEF Categories, Causes, Dispositions

-----------------------------------------------------------------------------
(* The calls.                                                              *)

LEMMA WriteRefusedStep ==
    ASSUME StreamInv, WriteRefused
    PROVE  StreamInv'
<1>1. /\ pc = "idle" /\ ~Terminal /\ final' = FALSE
      /\ UNCHANGED <<format, attempted, history>>
  BY DEF WriteRefused
<1>2. Fail("limit", "input limit", "none") \/ Fail("timeout", "context", "none")
  BY DEF WriteRefused
<1>3. QED
  BY <1>1, <1>2, FailStep, Names

LEMMA WriteContextStep ==
    ASSUME StreamInv, NEW p \in Chunks, WriteContext(p)
    PROVE  StreamInv'
<1>1. /\ pc = "idle" /\ ~Terminal /\ Len(p) <= MaxInput - outcome.received
      /\ final' = FALSE /\ rest' = p /\ offered' = offered \o p /\ pc' = "accept"
      /\ UNCHANGED <<format, pending, framer, outcome, attempted, unit, approved,
                     cuts, fallbackOut>>
  BY DEF WriteContext
<1>2. /\ p \in Seq(Byte) /\ offered \in Seq(Byte) /\ pending \in Seq(Byte)
      /\ rest = <<>> /\ ~final /\ outcome.received \in Nat /\ outcome.released \in Nat
      /\ Len(p) \in Nat
  BY <1>1, ChunksAreText DEF StreamInv, StreamType, Control, Outcome
<1>3. /\ offered \o p \in Seq(Byte) /\ Len(offered \o p) = Len(offered) + Len(p)
  BY <1>2
<1>4. StreamType'
  BY <1>1, <1>2, <1>3 DEF StreamInv, StreamType
<1>5. Control'
  BY <1>1, <1>2 DEF StreamInv, Control, Terminal, Whole, InUnit
<1>6. Budget'
  BY <1>1, <1>2, Limits DEF StreamInv, Budget, Terminal, FallbackReleased
<1>7. Taken' = Taken /\ Taken \in 0..Len(offered)
  BY <1>1 DEF Taken, Start, StreamInv, Conserved
<1>8. pending = Unreleased
  BY <1>1, <1>2, ConcatEmptySeq DEF StreamInv, Conserved
<1>9. Unreleased' = Unreleased \o p
  BY <1>1, <1>2, <1>7, RestOfConcat DEF Unreleased, Taken
<1>10. Conserved'
  BY <1>1, <1>2, <1>3, <1>7, <1>8, <1>9 DEF StreamInv, Conserved, Terminal
<1>11. QED
  BY <1>4, <1>5, <1>6, <1>10 DEF StreamInv

LEMMA CompleteStep ==
    ASSUME StreamInv, Complete
    PROVE  StreamInv'
<1>1. /\ pc = "idle" /\ ~Terminal /\ final' = TRUE
      /\ UNCHANGED <<format, attempted, history>>
  BY DEF Complete
<1>2. /\ pending \in Seq(Byte) /\ Len(pending) \in Nat /\ rest = <<>>
      /\ framer \in Framer /\ framer.offset \in Nat /\ framer.offset <= Len(pending)
  BY <1>1 DEF StreamInv, StreamType, Control, Framer
<1>3. CASE Fail("timeout", "context", "none")
  BY <1>1, <1>3, FailStep, Names
<1>4. CASE Whole /\ IF Len(pending) > MaxUnit THEN Fail("limit", "unit limit", "none")
                    ELSE Take(Len(pending), framer)
  <2>1. Take(Len(pending), framer)
    BY <1>4 DEF Take
  <2>2. Len(pending) \in 0..Len(pending) /\ final' \in BOOLEAN
    BY <1>1, <1>2
  <2>3. QED
    BY <1>1, <1>2, <1>4, <2>1, <2>2, TakeKeeps
<1>5. CASE ~Whole /\ pc' = "scan" /\ UNCHANGED <<pending, framer, outcome, rest, unit, approved>>
  <2>1. StreamType'
    BY <1>1, <1>5 DEF StreamInv, StreamType, history
  <2>2. Control'
    BY <1>1, <1>2, <1>5 DEF StreamInv, Control, Terminal, Whole, InUnit
  <2>3. Budget' /\ Conserved'
    BY <1>1, <1>5, BuffersKept DEF StreamInv, Conserved, Terminal
  <2>4. QED
    BY <2>1, <2>2, <2>3 DEF StreamInv
<1>6. QED
  BY <1>3, <1>4, <1>5 DEF Complete

LEMMA AbortStep ==
    ASSUME StreamInv, Abort
    PROVE  StreamInv'
<1>1. /\ pc = "idle" /\ ~Terminal /\ Fail("incomplete", "abort", "none")
      /\ UNCHANGED <<format, attempted, final, history>> /\ final \in BOOLEAN
  BY DEF Abort, StreamInv, StreamType
<1>2. QED
  BY <1>1, FailStep, Names

(* The fallback is checked against what is left of the output budget.      *)
LEMMA FallbackFits ==
    ASSUME outcome \in Outcome, outcome.released <= MaxOutput, format \in Formats,
           NEW candidate \in Candidates, NEW answer \in CheckedFallback(candidate)
    PROVE  answer \in FallbackAnswer /\ outcome.released + answer.released <= MaxOutput
<1>1. ASSUME NEW c \in Categories \cup {"unsupported"}, NEW n \in Nat,
             outcome.released + n <= MaxOutput, answer = Answer(c, n)
      PROVE  answer \in FallbackAnswer /\ outcome.released + answer.released <= MaxOutput
  BY <1>1 DEF Answer, FallbackAnswer
<1>2. /\ outcome.released \in Nat /\ 0 \in Nat /\ MaxOutput \in Nat
      /\ outcome.released + 0 <= MaxOutput
      /\ {"limit", "unsupported", "malformed", "fault", "timeout", "blocked", "success",
          "transport"} \subseteq Categories \cup {"unsupported"}
  BY Limits DEF Outcome, Categories
<1>3. \/ \E c \in {"limit", "unsupported", "malformed", "fault", "timeout", "blocked"} :
            answer = Answer(c, 0)
      \/ \E grown \in OutputSizes : answer \in SentFallback(grown)
  BY DEF CheckedFallback
<1>4. ASSUME NEW grown \in OutputSizes, answer \in SentFallback(grown)
      PROVE  answer \in FallbackAnswer /\ outcome.released + answer.released <= MaxOutput
  <2>1. grown \in Nat
    BY Limits
  <2>2. CASE answer = Answer("limit", 0)
    BY <2>2, <1>1, <1>2
  <2>3. ASSUME NEW n \in 0..grown, grown <= MaxOutput - outcome.released,
               \/ answer = Answer("success", n)
               \/ answer = Answer("transport", n)
        PROVE  answer \in FallbackAnswer /\ outcome.released + answer.released <= MaxOutput
    <3>1. n \in Nat /\ outcome.released + n <= MaxOutput
      BY <2>1, <2>3, <1>2
    <3>2. QED
      BY <2>3, <3>1, <1>1, <1>2
  <2>4. grown \in 0..grown
    BY <2>1
  <2>5. QED
    BY <1>4, <2>2, <2>3, <2>4 DEF SentFallback, OutputRoom
<1>5. QED
  BY <1>1, <1>2, <1>3, <1>4

LEMMA DeliverFallbackStep ==
    ASSUME StreamInv, DeliverFallback
    PROVE  StreamInv'
<1>1. /\ pc = "idle" /\ outcome.category = "blocked" /\ ~attempted /\ attempted' = TRUE
      /\ UNCHANGED <<format, pending, framer, outcome, pc, running, offered, cuts>>
  BY DEF DeliverFallback
<1>2. Terminal /\ fallbackOut = <<>>
  BY <1>1 DEF StreamInv, Budget, Terminal
<1>3. /\ outcome \in Outcome /\ outcome.released \in Nat /\ format \in Formats
      /\ outcome.released + 0 <= MaxOutput
  BY <1>2 DEF StreamInv, StreamType, Budget, FallbackReleased, Outcome
<1>4. /\ fallbackOut' \in AtMostOne(FallbackAnswer)
      /\ outcome.released + FallbackReleased' <= MaxOutput
  <2>1. CASE UNCHANGED fallbackOut
    BY <2>1, <1>2 DEF StreamInv, StreamType, Budget, FallbackReleased
  <2>2. ASSUME NEW candidate \in Candidates, NEW answer \in CheckedFallback(candidate),
               fallbackOut' = <<answer>>
        PROVE  /\ fallbackOut' \in AtMostOne(FallbackAnswer)
               /\ outcome.released + FallbackReleased' <= MaxOutput
    <3>1. answer \in FallbackAnswer /\ outcome.released + answer.released <= MaxOutput
      BY <1>3, FallbackFits, Limits
    <3>2. <<answer>> \in Seq(FallbackAnswer) /\ Len(<<answer>>) = 1 /\ <<answer>> # <<>>
          /\ <<answer>>[1] = answer
      BY <3>1
    <3>3. fallbackOut' \in AtMostOne(FallbackAnswer)
      BY <2>2, <3>2 DEF AtMostOne
    <3>4. FallbackReleased' = answer.released
      BY <2>2, <3>2 DEF FallbackReleased
    <3>5. QED
      BY <3>1, <3>3, <3>4
  <2>3. QED
    BY <2>1, <2>2 DEF DeliverFallback
<1>5. StreamType'
  BY <1>1, <1>4 DEF StreamInv, StreamType, running
<1>6. Control'
  BY <1>1 DEF StreamInv, Control, Terminal, Whole, InUnit, running
<1>7. Budget'
  BY <1>1, <1>2, <1>4 DEF StreamInv, Budget, Terminal, running
<1>8. Conserved'
  <2>1. Taken' = Taken /\ Unreleased' = Unreleased
    BY <1>1 DEF Taken, Start, Unreleased
  <2>2. QED
    BY <1>1, <2>1 DEF StreamInv, Conserved, Terminal, running
<1>9. QED
  BY <1>5, <1>6, <1>7, <1>8 DEF StreamInv

LEMMA StutterKeeps ==
    ASSUME StreamInv, UNCHANGED vars
    PROVE  StreamInv'
<1>1. StreamType'
  BY DEF vars, running, history, StreamInv, StreamType
<1>2. Control'
  BY DEF vars, running, history, StreamInv, Control, Terminal, Whole, InUnit
<1>3. Budget'
  BY DEF vars, running, history, StreamInv, Budget, Terminal, FallbackReleased
<1>4. Taken' = Taken /\ Unreleased' = Unreleased
  BY DEF vars, running, history, Taken, Start, Unreleased
<1>5. Conserved'
  BY <1>4 DEF vars, running, history, StreamInv, Conserved, Terminal, Whole
<1>6. QED
  BY <1>1, <1>2, <1>3, <1>5 DEF StreamInv

LEMMA CallStep ==
    ASSUME StreamInv, Call
    PROVE  StreamInv'
<1>1. CASE Closed
  BY <1>1, StutterKeeps DEF Closed
<1>2. QED
  BY <1>1, WriteContextStep, WriteRefusedStep, CompleteStep, AbortStep, DeliverFallbackStep
     DEF Call

-----------------------------------------------------------------------------
(* Accepting input and finding a unit.                                     *)

LEMMA WriteReturnsStep ==
    ASSUME StreamInv, WriteReturns
    PROVE  StreamInv'
<1>1. /\ pc = "accept" /\ rest = <<>> /\ pc' = "idle"
      /\ UNCHANGED <<format, pending, framer, outcome, attempted, running, history>>
  BY DEF WriteReturns
<1>2. StreamType'
  BY <1>1 DEF StreamInv, StreamType, running, history
<1>3. Control'
  BY <1>1 DEF StreamInv, Control, Terminal, Whole, InUnit, running
<1>4. Budget' /\ Conserved'
  BY <1>1, BuffersKept DEF StreamInv, Conserved, running
<1>5. QED
  BY <1>2, <1>3, <1>4 DEF StreamInv

LEMMA AcceptInputStep ==
    ASSUME StreamInv, AcceptInput
    PROVE  StreamInv'
<1>1. /\ pc = "accept" /\ rest # <<>> /\ UNCHANGED <<format, attempted, final, history>>
      /\ ~Terminal /\ ~final
  BY RunningIsOpen DEF AcceptInput
<1>2. /\ rest \in Seq(Byte) /\ Len(rest) \in Nat /\ pending \in Seq(Byte)
      /\ Len(pending) \in Nat /\ outcome \in Outcome /\ outcome.received \in Nat
      /\ MaxPending[format] \in Nat /\ final \in BOOLEAN /\ format \in Formats
  BY Limits DEF StreamInv, StreamType, Outcome
<1>3. CASE Fail("limit", "unit limit", "none") \/ Fail("limit", "pending limit", "none")
  BY <1>1, <1>2, <1>3, FailStep, Names
<1>4. CASE ~(UnitRoom <= 0) /\ ~(PendingRoom <= 0) /\ Buffer
  <2> DEFINE n == Min({UnitRoom, PendingRoom, Len(rest)})
  <2>1. UnitRoom \in Int /\ PendingRoom \in Int /\ Len(rest) \in Int
    BY <1>2, Limits DEF UnitRoom, PendingRoom
  <2>2. n \in 0..Len(rest) /\ n <= PendingRoom
    <3>1. Len(rest) \in Nat \ {0}
      BY <1>1, <1>2
    <3>2. /\ n \in {UnitRoom, PendingRoom, Len(rest)}
          /\ n <= UnitRoom /\ n <= PendingRoom /\ n <= Len(rest)
      BY <2>1, MinOfThree
    <3> HIDE DEF n
    <3>3. QED
      BY <1>4, <2>1, <3>1, <3>2
  <2>3. /\ pending' = pending \o SubSeq(rest, 1, n)
        /\ rest' = SubSeq(rest, n + 1, Len(rest))
        /\ outcome' = [outcome EXCEPT !.received = @ + n]
        /\ pc' = (IF Whole THEN "accept" ELSE "scan")
        /\ UNCHANGED <<framer, unit, approved>>
    BY <1>4 DEF Buffer
  <2> HIDE DEF n
  <2>4. /\ SubSeq(rest, 1, n) \in Seq(Byte) /\ Len(SubSeq(rest, 1, n)) = n
        /\ rest' \in Seq(Byte) /\ Len(rest') = Len(rest) - n
        /\ SubSeq(rest, 1, n) \o rest' = rest
    BY <1>2, <2>2, <2>3, CutAt
  <2>5. /\ pending' \in Seq(Byte) /\ Len(pending') = Len(pending) + n
        /\ pending' \o rest' = pending \o rest
    <3>1. pending' \in Seq(Byte) /\ Len(pending') = Len(pending) + n
      BY <1>2, <2>3, <2>4, ConcatProperties
    <3> DEFINE taken == SubSeq(rest, 1, n)
               left  == SubSeq(rest, n + 1, Len(rest))
    <3>2. taken \in Seq(Byte) /\ left \in Seq(Byte) /\ pending \in Seq(Byte)
          /\ pending' = pending \o taken /\ rest' = left
      BY <1>2, <2>3, <2>4
    <3> HIDE DEF taken, left
    <3>3. (pending \o taken) \o left = pending \o (taken \o left)
      BY <3>2
    <3>4. taken \o left = rest
      BY <2>4, <3>2 DEF taken
    <3>5. QED
      BY <3>1, <3>2, <3>3, <3>4
  <2>6. /\ outcome'.received = outcome.received + n
        /\ outcome'.released = outcome.released /\ outcome'.sequence = outcome.sequence
        /\ outcome'.category = outcome.category
        /\ outcome'.disposition = outcome.disposition /\ outcome' \in Outcome
    <3> DEFINE total == outcome.received + n
    <3>1. total \in Nat /\ outcome' = [outcome EXCEPT !.received = total]
      BY <1>2, <2>2, <2>3
    <3> HIDE DEF total
    <3>2. QED
      BY <1>2, <3>1 DEF Outcome, total
  <2>7. StreamType'
    <3>1. framer' \in Framer /\ framer'.offset <= Len(pending')
      <4>1. /\ framer' = framer /\ framer \in Framer
            /\ framer.offset \in Nat /\ framer.offset <= Len(pending)
        BY <2>3 DEF StreamInv, StreamType, Framer
      <4>2. Len(pending') \in Nat /\ Len(pending) <= Len(pending')
        BY <1>2, <2>2, <2>5
      <4>3. QED
        BY <1>2, <4>1, <4>2
    <3>2. pc' \in {"accept", "scan"} /\ unit' = unit /\ approved' = approved
      BY <2>3
    <3>3. pending' \in Seq(Byte) /\ rest' \in Seq(Byte) /\ outcome' \in Outcome
      BY <2>4, <2>5, <2>6
    <3>4. QED
      BY <1>1, <3>1, <3>2, <3>3 DEF StreamInv, StreamType, history
  <2>8. Control'
    BY <1>1, <2>3, <2>6 DEF StreamInv, Control, Terminal, Whole, InUnit
  <2>9. Budget'
    <3>1. Len(pending') <= MaxPending[format]
      BY <1>2, <2>2, <2>5 DEF PendingRoom
    <3>2. outcome'.received + Len(rest') <= MaxInput
      <4>1. outcome.received + Len(rest) <= MaxInput
        BY DEF StreamInv, Budget
      <4>2. QED
        BY <1>2, <2>2, <2>4, <2>6, <4>1, Limits
    <3>3. FallbackReleased' = FallbackReleased
      BY <1>1 DEF FallbackReleased, history
    <3>4. QED
      BY <1>1, <2>3, <2>6, <3>1, <3>2, <3>3 DEF StreamInv, Budget, Terminal, history
  <2>10. Conserved'
    <3>1. Taken' = Taken /\ Unreleased' = Unreleased
      BY <1>1 DEF Taken, Start, Unreleased, history
    <3>2. QED
      BY <1>1, <2>3, <2>5, <2>6, <3>1 DEF StreamInv, Conserved, Terminal, history
  <2>11. QED
    BY <2>7, <2>8, <2>9, <2>10 DEF StreamInv
<1>5. QED
  BY <1>3, <1>4 DEF AcceptInput

(* The window of the incremental profile is not empty.                     *)
LEMMA WindowOf ==
    ASSUME NEW s \in Seq(Byte), s # <<>>
    PROVE  LET window == SubSeq(s, 1, Min({Len(s), MaxUnit}))
           IN  /\ Len(window) = IF Len(s) <= MaxUnit THEN Len(s) ELSE MaxUnit
               /\ Len(window) \in 1..Len(s)
               /\ window \in Seq(Byte)
               /\ \A i \in 1..Len(window) : window[i] = s[i]
<1>1. Len(s) \in Nat \ {0} /\ MaxUnit \in Nat \ {0}
  BY Limits
<1>2. Min({Len(s), MaxUnit}) = IF Len(s) <= MaxUnit THEN Len(s) ELSE MaxUnit
  BY <1>1, MinOfTwo
<1>3. Min({Len(s), MaxUnit}) \in 1..Len(s)
  BY <1>1, <1>2
<1>4. QED
  <2> DEFINE m == Min({Len(s), MaxUnit})
             window == SubSeq(s, 1, m)
  <2>1. m \in 0..Len(s) /\ m \in 1..Len(s)
    BY <1>1, <1>3
  <2>2. m = IF Len(s) <= MaxUnit THEN Len(s) ELSE MaxUnit
    BY <1>2
  <2> HIDE DEF m
  <2>3. window \in Seq(Byte) /\ Len(window) = m /\ \A i \in 1..m : window[i] = s[i]
    BY <2>1, CutAt
  <2>4. QED
    BY <2>1, <2>2, <2>3 DEF m

LEMMA ScanStep ==
    ASSUME StreamInv,
           NothingPending \/ ScanNewline \/ ScanPartial \/ FinishJSON
    PROVE  StreamInv'
<1>1. /\ pc = "scan" /\ UNCHANGED <<format, attempted, final, history>>
      /\ final \in BOOLEAN /\ final' \in BOOLEAN
  BY DEF NothingPending, ScanNewline, ScanPartial, FinishJSON, StreamInv, StreamType
<1>2. ~Terminal /\ ~Whole
  BY <1>1, RunningIsOpen
<1>3. /\ pending \in Seq(Byte) /\ Len(pending) \in Nat
      /\ framer \in Framer /\ framer.offset \in Nat /\ framer.offset <= Len(pending)
  BY DEF StreamInv, StreamType, Framer
<1>4. CASE NothingPending
  BY <1>1, <1>3, <1>4, WaitKeeps DEF NothingPending
<1>5. CASE ScanNewline
  <2> DEFINE ends   == {i \in (framer.offset + 1)..Len(pending) : pending[i] = "nl"}
             offset == IF ends = {} THEN Len(pending) ELSE Min(ends)
             f      == [framer EXCEPT !.offset = offset]
  <2>1. offset \in 0..Len(pending)
    <3>1. ends \in SUBSET (1..Len(pending))
      BY <1>3
    <3> HIDE DEF ends
    <3>2. ends # {} => Min(ends) \in ends
      BY <1>3, <3>1, MinOfSet
    <3>3. ends # {} => Min(ends) \in 1..Len(pending)
      BY <3>1, <3>2
    <3> DEFINE first == Min(ends)
    <3> HIDE DEF first
    <3>4. (IF ends = {} THEN Len(pending) ELSE first) \in 0..Len(pending)
      BY <1>3, <3>3 DEF first
    <3>5. QED
      BY <3>4 DEF first
  <2>2. IF ends # {} \/ final THEN Take(offset, f) ELSE Wait(f)
    BY <1>5 DEF ScanNewline
  <2>3. f \in Framer /\ f.offset = offset
    <3>1. offset \in Nat
      BY <2>1
    <3> HIDE DEF offset
    <3>2. QED
      BY <1>3, <3>1 DEF Framer
  <2> HIDE DEF ends, offset, f
  <2>4. QED
    BY <1>1, <1>2, <1>3, <2>1, <2>2, <2>3, TakeKeeps, WaitKeeps
<1>6. CASE ScanPartial
  <2> DEFINE window == SubSeq(pending, 1, Min({Len(pending), MaxUnit}))
             n == IF window[Len(window)] = "lead" THEN Len(window) - 1 ELSE Len(window)
  <2>1. n \in 0..Len(pending)
    <3>1. pending # <<>>
      BY <1>6 DEF ScanPartial
    <3>2. Len(window) \in 1..Len(pending)
      BY <1>3, <3>1, WindowOf
    <3> HIDE DEF window
    <3>3. QED
      BY <1>3, <3>2
  <2>2. \/ ~final /\ Wait(framer)
        \/ Fail("incomplete", "encoding", "none")
        \/ Take(n, framer)
    BY <1>6 DEF ScanPartial
  <2> HIDE DEF window, n
  <2>3. QED
    BY <1>1, <1>2, <1>3, <2>1, <2>2, TakeKeeps, WaitKeeps, FailStep, Names
<1>7. CASE FinishJSON
  <2>1. \/ final /\ framer.complete /\ Take(framer.offset, framer)
        \/ Fail("incomplete", "framing", "none")
        \/ ~final /\ Wait(framer)
    BY <1>7 DEF FinishJSON
  <2>2. framer.offset \in 0..Len(pending)
    BY <1>3
  <2>3. CASE Take(framer.offset, framer)
    BY <1>1, <1>2, <1>3, <2>2, <2>3, TakeKeeps
  <2>4. CASE ~final /\ Wait(framer)
    BY <1>1, <1>2, <1>3, <2>4, WaitKeeps
  <2>5. CASE Fail("incomplete", "framing", "none")
    BY <1>1, <1>2, <2>5, FailStep, Names
  <2>6. QED
    BY <2>1, <2>3, <2>4, <2>5
<1>8. QED
  BY <1>4, <1>5, <1>6, <1>7

LEMMA ScanByteType ==
    ASSUME NEW f \in Framer, NEW c
    PROVE  ScanJSONByte(f, c) \in Framer /\ ScanJSONByte(f, c).offset = f.offset
<1>1. ScanInString(f, c) \in Framer /\ ScanInString(f, c).offset = f.offset
  BY DEF ScanInString, Framer
<1>2. ScanOutside(f, c) \in Framer /\ ScanOutside(f, c).offset = f.offset
  <2> DEFINE o == f.objects + (IF c = "{" THEN 1 ELSE IF c = "}" THEN -1 ELSE 0)
             a == f.arrays + (IF c = "[" THEN 1 ELSE IF c = "]" THEN -1 ELSE 0)
             q == c = "quote"
             g == [f EXCEPT !.inString = q, !.objects = o, !.arrays = a]
  <2>1. o \in Int /\ a \in Int /\ q \in BOOLEAN
    <3>1. f.objects \in Int /\ f.arrays \in Int
      BY DEF Framer
    <3>2. ASSUME NEW x, NEW y
          PROVE  (IF c = x THEN 1 ELSE IF c = y THEN -1 ELSE 0) \in Int
      OBVIOUS
    <3> DEFINE do == IF c = "{" THEN 1 ELSE IF c = "}" THEN -1 ELSE 0
               da == IF c = "[" THEN 1 ELSE IF c = "]" THEN -1 ELSE 0
    <3>3. do \in Int /\ da \in Int
      BY <3>2
    <3>4. o = f.objects + do /\ a = f.arrays + da
      OBVIOUS
    <3> HIDE DEF do, da, o, a
    <3>5. o \in Int /\ a \in Int
      BY <3>1, <3>3, <3>4
    <3>6. QED
      BY <3>5
  <2>2. ScanOutside(f, c) = [g EXCEPT !.complete = g.objects = 0 /\ g.arrays = 0]
    BY DEF ScanOutside
  <2> HIDE DEF o, a, q
  <2>3. g \in Framer /\ g.offset = f.offset
    BY <2>1 DEF Framer
  <2> HIDE DEF g
  <2>4. QED
    BY <2>2, <2>3 DEF Framer
<1>3. QED
  BY <1>1, <1>2 DEF ScanJSONByte

LEMMA ScanJSONStep ==
    ASSUME StreamInv, ScanJSON
    PROVE  StreamInv'
<1>1. /\ pc = "scan" /\ framer.offset < Len(pending)
      /\ UNCHANGED <<format, attempted, final, history>>
      /\ final \in BOOLEAN /\ final' \in BOOLEAN
  BY DEF ScanJSON, StreamInv, StreamType
<1>2. ~Terminal /\ ~Whole
  BY <1>1, RunningIsOpen
<1>3. /\ pending \in Seq(Byte) /\ Len(pending) \in Nat
      /\ framer \in Framer /\ framer.offset \in Nat
  BY DEF StreamInv, StreamType, Framer
<1> DEFINE c == pending[framer.offset + 1]
           f == [framer EXCEPT !.offset = @ + 1]
           skip == f.complete \/ (~f.started /\ c \in Space)
           g == IF skip THEN f ELSE ScanJSONByte([f EXCEPT !.started = TRUE], c)
<1>4. g \in Framer /\ g.offset <= Len(pending)
  <2>1. f \in Framer /\ f.offset = framer.offset + 1
    <3> DEFINE next == framer.offset + 1
    <3>1. next \in Nat /\ f = [framer EXCEPT !.offset = next]
      BY <1>3
    <3> HIDE DEF next, f
    <3>2. QED
      BY <1>3, <3>1 DEF Framer, next
  <2> HIDE DEF f, c
  <2>2. [f EXCEPT !.started = TRUE] \in Framer /\ [f EXCEPT !.started = TRUE].offset = f.offset
    BY <2>1 DEF Framer
  <2>3. g \in Framer /\ g.offset = f.offset
    BY <2>1, <2>2, ScanByteType
  <2>4. QED
    BY <1>1, <1>3, <2>1, <2>3
<1>5. \/ Take(framer.offset, framer)
      \/ Fail("malformed", "framing", "none")
      \/ Fail("limit", "unit limit", "none")
      \/ framer' = g /\ UNCHANGED <<pending, outcome, rest, unit, approved, pc>>
  BY DEF ScanJSON
<1> HIDE DEF g
<1>6. CASE Take(framer.offset, framer)
  <2>1. framer.offset \in 0..Len(pending) /\ framer.offset <= Len(pending)
    BY <1>1, <1>3
  <2>2. QED
    BY <1>1, <1>2, <1>3, <1>6, <2>1, TakeKeeps
<1>7. CASE Fail("malformed", "framing", "none") \/ Fail("limit", "unit limit", "none")
  BY <1>1, <1>2, <1>7, FailStep, Names
<1>8. CASE framer' = g /\ UNCHANGED <<pending, outcome, rest, unit, approved, pc>>
  <2>1. StreamType'
    BY <1>1, <1>4, <1>8 DEF StreamInv, StreamType, history
  <2>2. Control'
    BY <1>1, <1>8 DEF StreamInv, Control, Terminal, Whole, InUnit
  <2>3. Budget' /\ Conserved'
    BY <1>1, <1>8, BuffersKept DEF StreamInv, Conserved
  <2>4. QED
    BY <2>1, <2>2, <2>3 DEF StreamInv
<1>9. QED
  BY <1>5, <1>6, <1>7, <1>8

-----------------------------------------------------------------------------
(* Releasing a unit.                                                       *)

LEMMA AnswerDispositions ==
    \A a \in UnitAnswers :
        /\ a.disposition \in Dispositions
        /\ ~a.deliverable /\ a.disposition # "system_fault" =>
              a.disposition \in {"terminal_deny", "retryable_correction"}
BY DEF UnitAnswers, Answers, Dispositions

LEMMA RejectStep ==
    ASSUME StreamInv, RejectUnit \/ ScopeFails \/ GuardLate \/ GuardStops
    PROVE  StreamInv'
<1>1. /\ pc = "validate" /\ UNCHANGED <<format, attempted, final, history>>
      /\ final' \in BOOLEAN /\ ~Terminal
  BY RunningIsOpen DEF RejectUnit, ScopeFails, GuardLate, GuardStops, StreamInv, StreamType
<1>2. CASE RejectUnit \/ ScopeFails
  <2>1. \/ Fail("malformed", "framing", "none") \/ Fail("incomplete", "encoding", "none")
        \/ Fail("fault", "scope", "none")
    BY <1>2 DEF RejectUnit, ScopeFails
  <2>2. QED
    BY <1>1, <2>1, FailStep, Names
<1>3. CASE GuardLate
  <2>1. PICK a \in UnitAnswers : Fail("timeout", "context", a.disposition)
    BY <1>3 DEF GuardLate
  <2>2. QED
    BY <1>1, <2>1, FailStep, Names, AnswerDispositions
<1>4. CASE GuardStops
  <2>1. PICK a \in UnitAnswers :
           /\ ~a.deliverable
           /\ Fail(IF a.disposition = "system_fault" THEN "fault" ELSE "blocked",
                   "guard", a.disposition)
    BY <1>4 DEF GuardStops
  <2>2. /\ "blocked" \in Categories \ {"open", "success"} /\ "guard" \in Causes
        /\ 0 \in Nat /\ a.disposition \in Dispositions
    BY AnswerDispositions DEF Categories, Causes
  <2>3. CASE a.disposition = "system_fault"
    BY <1>1, <2>1, <2>2, <2>3, FailStep, Names
  <2>4. CASE a.disposition # "system_fault"
    <3>1. FailCounting("blocked", "guard", a.disposition, 0)
      BY <2>1, <2>4 DEF Fail
    <3>2. QED
      BY <1>1, <2>1, <2>2, <2>4, <3>1, FailKeeps, AnswerDispositions
  <2>5. QED
    BY <2>3, <2>4
<1>5. QED
  BY <1>2, <1>3, <1>4

LEMMA GuardApprovesStep ==
    ASSUME StreamInv, NEW grown \in OutputSizes, NEW valid \in BOOLEAN,
           GuardApproves(grown, valid)
    PROVE  StreamInv'
<1>1. /\ pc = "validate" /\ UNCHANGED <<format, attempted, final, history>>
      /\ final' \in BOOLEAN /\ ~Terminal /\ grown \in Nat
  BY RunningIsOpen, Limits DEF GuardApproves, StreamInv, StreamType
<1>2. CASE \/ Fail("fault", "guard", "none") \/ Fail("limit", "expansion", "none")
           \/ Fail("limit", "output limit", "none")
  BY <1>1, <1>2, FailStep, Names
<1>3. CASE /\ OutputRoom(grown)
           /\ outcome' = [outcome EXCEPT !.sequence = @ + 1, !.disposition = "none"]
           /\ approved' = grown
           /\ pc' = "write"
           /\ UNCHANGED <<pending, framer, rest, unit>>
  <2>1. /\ outcome'.category = outcome.category /\ outcome'.released = outcome.released
        /\ outcome'.sequence = outcome.sequence + 1
        /\ outcome'.received = outcome.received
        /\ outcome' \in Outcome /\ outcome.sequence \in Nat
    <3> DEFINE next == outcome.sequence + 1
    <3>1. next \in Nat /\ outcome \in Outcome /\ "none" \in Dispositions
          /\ outcome.sequence \in Nat
      <4>1. outcome \in Outcome /\ outcome.sequence \in Nat
        BY DEF StreamInv, StreamType, Outcome
      <4>2. "none" \in Dispositions
        BY DEF Dispositions
      <4>3. next \in Nat
        BY <4>1
      <4>4. QED
        BY <4>1, <4>2, <4>3
    <3>2. outcome' = [outcome EXCEPT !.sequence = next, !.disposition = "none"]
      BY <1>3
    <3> HIDE DEF next
    <3>3. QED
      BY <3>1, <3>2 DEF Outcome, next
  <2>2. StreamType'
    BY <1>1, <1>3, <2>1 DEF StreamInv, StreamType, history
  <2>3. Control'
    BY <1>1, <1>3, <2>1 DEF StreamInv, Control, Terminal, Whole, InUnit
  <2>4. FallbackReleased' = FallbackReleased /\ Taken' = Taken /\ Unreleased' = Unreleased
    BY <1>1 DEF FallbackReleased, Taken, Start, Unreleased, history
  <2>5. Budget'
    BY <1>1, <1>3, <2>1, <2>4 DEF StreamInv, Budget, Terminal, OutputRoom, history
  <2>6. Conserved'
    <3>1. outcome'.sequence = Len(cuts') + 1
      BY <1>1, <2>1 DEF StreamInv, Conserved, Terminal, history
    <3>2. QED
      BY <1>1, <1>3, <2>1, <2>4, <3>1 DEF StreamInv, Conserved, Terminal, history
  <2>7. QED
    BY <2>2, <2>3, <2>5, <2>6 DEF StreamInv
<1>4. QED
  BY <1>2, <1>3 DEF GuardApproves

LEMMA FailedWriteStep ==
    ASSUME StreamInv,
           InvalidCount \/ \E n \in 0..approved : ShortWrite(n)
    PROVE  StreamInv'
<1>1. /\ pc = "write" /\ UNCHANGED <<format, attempted, final, history>>
      /\ final' \in BOOLEAN /\ ~Terminal /\ approved \in Nat
  BY RunningIsOpen DEF InvalidCount, ShortWrite, StreamInv, StreamType
<1>2. PICK n \in 0..approved : FailCounting("transport", "transfer", "none", n)
  <2>1. 0 \in 0..approved
    BY <1>1
  <2>2. QED
    BY <2>1 DEF InvalidCount, ShortWrite, Fail
<1>3. n \in Nat /\ n <= approved
  BY <1>1
<1>4. "transport" # "blocked"
  OBVIOUS
<1>5. QED
  BY <1>1, <1>2, <1>3, <1>4, FailKeeps, Names

LEMMA RestOfRest ==
    ASSUME NEW S, NEW s \in Seq(S), NEW m \in 0..Len(s), NEW n \in 0..(Len(s) - m)
    PROVE  LET u == SubSeq(s, m + 1, Len(s))
           IN  SubSeq(u, n + 1, Len(u)) = SubSeq(s, m + n + 1, Len(s))
<1> DEFINE u == SubSeq(s, m + 1, Len(s))
           v == SubSeq(u, n + 1, Len(u))
           w == SubSeq(s, m + n + 1, Len(s))
<1>1. /\ Len(s) \in Nat /\ m \in Nat /\ n \in Nat /\ m + n \in 0..Len(s)
  OBVIOUS
<1>2. /\ u \in Seq(S) /\ Len(u) = Len(s) - m
      /\ \A i \in 1..(Len(s) - m) : u[i] = s[m + i]
  BY CutAt
<1>3. n \in 0..Len(u)
  BY <1>1, <1>2
<1>4. /\ w \in Seq(S) /\ Len(w) = Len(s) - (m + n)
      /\ \A i \in 1..(Len(s) - (m + n)) : w[i] = s[m + n + i]
  <2> DEFINE k == m + n
  <2>1. k \in 0..Len(s) /\ w = SubSeq(s, k + 1, Len(s))
    BY <1>1
  <2> HIDE DEF k, w
  <2>2. /\ w \in Seq(S) /\ Len(w) = Len(s) - k
        /\ \A i \in 1..(Len(s) - k) : w[i] = s[k + i]
    BY <2>1, CutAt
  <2>3. QED
    BY <2>2 DEF k
<1> HIDE DEF u, w
<1>5. /\ v \in Seq(S) /\ Len(v) = Len(u) - n
      /\ \A i \in 1..(Len(u) - n) : v[i] = u[n + i]
  BY <1>2, <1>3, CutAt
<1> HIDE DEF v
<1>6. Len(v) = Len(w) /\ Len(v) = Len(s) - (m + n)
  BY <1>1, <1>2, <1>4, <1>5
<1>7. ASSUME NEW i \in 1..Len(v) PROVE v[i] = w[i]
  <2>1. i \in 1..(Len(u) - n) /\ n + i \in 1..(Len(s) - m) /\ i \in 1..(Len(s) - (m + n))
    BY <1>1, <1>2, <1>5, <1>6
  <2>2. v[i] = s[m + (n + i)] /\ w[i] = s[m + n + i]
    BY <1>2, <1>4, <1>5, <2>1
  <2>3. QED
    BY <1>1, <2>1, <2>2, SMTT(30)
<1>8. v = w
  BY <1>4, <1>5, <1>6, <1>7, SeqEqual
<1>9. QED
  BY <1>8 DEF u, v, w

(* How far the released units reach, and what that leaves.                 *)
LEMMA StillHeld ==
    ASSUME StreamInv, ~Terminal
    PROVE  /\ Taken \in 0..Len(offered) /\ offered \in Seq(Byte)
           /\ pending \in Seq(Byte) /\ rest \in Seq(Byte)
           /\ Len(offered) = Taken + Len(pending) + Len(rest)
           /\ Len(pending) \in Nat /\ Len(rest) \in Nat
           /\ \A i \in 1..Len(pending) : pending[i] = offered[Taken + i]
<1>1. /\ Taken \in 0..Len(offered) /\ offered \in Seq(Byte)
      /\ pending \in Seq(Byte) /\ rest \in Seq(Byte)
      /\ pending \o rest = Unreleased
      /\ Len(pending) \in Nat /\ Len(rest) \in Nat /\ Len(offered) \in Nat
  BY DEF StreamInv, Conserved, StreamType
<1>2. /\ Len(Unreleased) = Len(offered) - Taken
      /\ \A i \in 1..(Len(offered) - Taken) : Unreleased[i] = offered[Taken + i]
  BY <1>1, CutAt DEF Unreleased, Taken
<1>3. /\ Len(pending \o rest) = Len(pending) + Len(rest)
      /\ \A i \in 1..Len(pending) : (pending \o rest)[i] = pending[i]
  BY <1>1, ConcatProperties
<1> DEFINE t == Taken
           u == Unreleased
<1> HIDE DEF t, u
<1>4. Len(offered) = t + Len(pending) + Len(rest)
  <2>1. Len(Unreleased) = Len(offered) - t /\ Len(Unreleased) = Len(pending) + Len(rest)
    BY <1>1, <1>2, <1>3 DEF t
  <2>2. t \in Nat /\ Len(offered) \in Nat /\ Len(pending) \in Nat /\ Len(rest) \in Nat
    BY <1>1 DEF t
  <2> DEFINE a == Len(pending)
             b == Len(rest)
             c == Len(offered)
  <2> HIDE DEF a, b, c
  <2>3. c - t = a + b /\ a \in Nat /\ b \in Nat /\ c \in Nat
    BY <2>1, <2>2 DEF a, b, c
  <2>4. c = t + a + b
    BY <2>2, <2>3
  <2>5. QED
    BY <2>4 DEF a, b, c
<1>5. ASSUME NEW i \in 1..Len(pending) PROVE pending[i] = offered[t + i]
  <2>1. i \in 1..(Len(offered) - t)
    BY <1>1, <1>4 DEF t
  <2>2. QED
    BY <1>1, <1>2, <1>3, <2>1 DEF t, u
<1>6. QED
  BY <1>1, <1>4, <1>5 DEF t

(* A unit that is out moves the end of the released prefix by its length.  *)
LEMMA WrittenMoves ==
    ASSUME StreamInv, Written
    PROVE  /\ cuts' = Append(cuts, Taken + unit) /\ cuts' \in Seq(Nat)
           /\ Taken' = Taken + unit /\ Taken' \in 0..Len(offered)
           /\ pending' \in Seq(Byte) /\ Len(pending') = Len(pending) - unit
           /\ pending' \o rest = Unreleased'
<1>1. /\ pc = "write" /\ offered' = offered /\ rest' = rest
      /\ cuts' = Append(cuts, Len(offered) - Len(rest) - Len(pending) + unit)
      /\ pending' = SubSeq(pending, unit + 1, Len(pending))
  BY DEF Written
<1>2. ~Terminal /\ unit \in 0..Len(pending) /\ cuts \in Seq(Nat)
  BY <1>1, RunningIsOpen DEF StreamInv, StreamType, Control, InUnit
<1>3. /\ Taken \in 0..Len(offered) /\ offered \in Seq(Byte)
      /\ pending \in Seq(Byte) /\ rest \in Seq(Byte)
      /\ Len(offered) = Taken + Len(pending) + Len(rest)
      /\ Len(pending) \in Nat /\ Len(rest) \in Nat /\ Len(offered) \in Nat
  BY <1>2, StillHeld
<1> DEFINE t == Taken
<1>4. t \in 0..Len(offered) /\ t = Taken
  BY <1>3
<1> HIDE DEF t
<1>5. /\ Len(offered) - Len(rest) - Len(pending) + unit = t + unit
      /\ t + unit \in 0..Len(offered) /\ t + unit \in Nat
      /\ unit \in 0..(Len(offered) - t)
  BY <1>2, <1>3, <1>4
<1>6. cuts' = Append(cuts, t + unit) /\ cuts' \in Seq(Nat)
  BY <1>1, <1>2, <1>5
<1>7. Taken' = t + unit
  <2>1. Len(cuts') = Len(cuts) + 1 /\ cuts'[Len(cuts) + 1] = t + unit /\ Len(cuts) \in Nat
    BY <1>2, <1>5, <1>6, AppendProperties
  <2>2. Len(cuts') + 1 # 1 /\ Len(cuts') + 1 - 1 = Len(cuts) + 1
    BY <2>1
  <2>3. QED
    BY <2>1, <2>2 DEF Taken, Start
<1>8. pending' \in Seq(Byte) /\ Len(pending') = Len(pending) - unit
  BY <1>1, <1>2, <1>3, CutAt
<1>9. pending' \o rest = Unreleased'
  <2>1. pending \o rest = SubSeq(offered, t + 1, Len(offered))
    BY <1>2, <1>4 DEF StreamInv, Conserved, Unreleased, Taken
  <2> DEFINE u == pending \o rest
  <2>2. SubSeq(u, unit + 1, Len(u)) = pending' \o rest
    BY <1>1, <1>2, <1>3, RestOfConcat
  <2>3. SubSeq(u, unit + 1, Len(u)) = SubSeq(offered, t + unit + 1, Len(offered))
    <3>1. u = SubSeq(offered, t + 1, Len(offered))
      BY <2>1
    <3> HIDE DEF u
    <3>2. QED
      BY <1>3, <1>4, <1>5, <3>1, RestOfRest
  <2>4. Unreleased' = SubSeq(offered, t + unit + 1, Len(offered))
    BY <1>1, <1>7 DEF Unreleased, Taken
  <2>5. QED
    BY <2>2, <2>3, <2>4
<1>10. QED
  BY <1>4, <1>5, <1>6, <1>7, <1>8, <1>9

LEMMA WrittenStep ==
    ASSUME StreamInv, Written
    PROVE  StreamInv'
<1>1. /\ pc = "write" /\ rest' = rest /\ offered' = offered /\ fallbackOut' = fallbackOut
      /\ format' = format /\ attempted' = attempted /\ final' = final
      /\ unit' = 0 /\ approved' = 0 /\ framer' = FreshFramer
      /\ pc' = (IF Whole THEN "idle" ELSE "scan")
      /\ outcome' = [outcome EXCEPT !.released = @ + approved,
                                    !.category = IF Whole THEN "success" ELSE @]
  BY DEF Written
<1>2. /\ ~Terminal /\ outcome.category = "open" /\ unit \in 0..Len(pending)
      /\ outcome \in Outcome /\ outcome.released \in Nat /\ outcome.received \in Nat
      /\ approved \in Nat /\ approved <= MaxOutput - outcome.released
      /\ fallbackOut = <<>> /\ Len(pending) \in Nat /\ format \in Formats
      /\ outcome.sequence = Len(cuts) + 1
  BY <1>1, RunningIsOpen
     DEF StreamInv, StreamType, Control, InUnit, Outcome, Budget, Conserved, Terminal
<1>3. /\ cuts' = Append(cuts, Taken + unit) /\ cuts' \in Seq(Nat)
      /\ Taken' = Taken + unit /\ Taken' \in 0..Len(offered)
      /\ pending' \in Seq(Byte) /\ Len(pending') = Len(pending) - unit
      /\ pending' \o rest = Unreleased'
  BY WrittenMoves
<1>4. Len(cuts') = Len(cuts) + 1
  <2>1. Len(cuts') = Len(cuts) + 1
    BY DEF Written, StreamInv, StreamType
  <2>2. QED
    BY <2>1
<1>5. /\ outcome'.released = outcome.released + approved
      /\ outcome'.received = outcome.received /\ outcome'.sequence = outcome.sequence
      /\ outcome'.disposition = outcome.disposition
      /\ outcome'.category = (IF Whole THEN "success" ELSE "open")
      /\ outcome' \in Outcome
  <2> DEFINE total == outcome.released + approved
             now   == IF Whole THEN "success" ELSE outcome.category
  <2>1. /\ total \in Nat /\ now \in Categories
        /\ outcome' = [outcome EXCEPT !.released = total, !.category = now]
    BY <1>1, <1>2 DEF Categories
  <2> HIDE DEF total, now
  <2>2. /\ outcome'.released = total /\ outcome'.category = now
        /\ outcome'.received = outcome.received /\ outcome'.sequence = outcome.sequence
        /\ outcome'.disposition = outcome.disposition /\ outcome' \in Outcome
    BY <1>2, <2>1 DEF Outcome
  <2>3. QED
    BY <1>2, <2>2 DEF total, now
<1>6. framer' \in Framer /\ framer'.offset = 0 /\ Len(pending') \in Nat
  BY <1>1, <1>2, <1>3 DEF FreshFramer, Framer
<1>7. StreamType'
  BY <1>1, <1>3, <1>5, <1>6, Limits DEF StreamInv, StreamType
<1>8. ASSUME Whole PROVE final /\ unit = Len(pending) /\ pending' = <<>> /\ rest = <<>>
  BY <1>1, <1>2, <1>3, <1>8 DEF StreamInv, Control, InUnit
<1>9. Control'
  BY <1>1, <1>5, <1>8 DEF StreamInv, Control, Terminal, Whole, InUnit
<1>10. Budget'
  <2>1. FallbackReleased' = 0 /\ outcome'.released <= MaxOutput
    BY <1>1, <1>2, <1>5, Limits DEF FallbackReleased
  <2>2. Len(pending') <= MaxPending[format]
    <3>1. Len(pending) <= MaxPending[format] /\ MaxPending[format] \in Nat
      BY <1>2, Limits DEF StreamInv, Budget
    <3>2. unit \in Nat /\ Len(pending') = Len(pending) - unit
      BY <1>2, <1>3
    <3>3. QED
      BY <1>2, <3>1, <3>2
  <2>3. outcome'.category # "blocked" /\ pc' # "write"
    BY <1>1, <1>5
  <2>4. outcome'.released + FallbackReleased' <= MaxOutput
    BY <1>2, <1>5, <2>1
  <2>5. QED
    BY <1>1, <1>2, <1>5, <2>2, <2>3, <2>4 DEF StreamInv, Budget
<1>11. Conserved'
  <2>1. ASSUME Whole PROVE Taken' = Len(offered)
    BY <1>2, <1>3, <1>8, <2>1, StillHeld
  <2>2. QED
    BY <1>1, <1>2, <1>3, <1>4, <1>5, <1>8, <2>1 DEF Conserved, Terminal
<1>12. QED
  BY <1>7, <1>9, <1>10, <1>11 DEF StreamInv

LEMMA ProceedStep ==
    ASSUME StreamInv, Proceed
    PROVE  StreamInv'
BY WriteReturnsStep, AcceptInputStep, ScanStep, ScanJSONStep, RejectStep,
   GuardApprovesStep, FailedWriteStep, WrittenStep DEF Proceed

LEMMA StreamStep == StreamInv /\ [Next]_vars => StreamInv'
<1> SUFFICES ASSUME StreamInv, [Next]_vars PROVE StreamInv'
  OBVIOUS
<1>1. CASE UNCHANGED vars
  BY <1>1, StutterKeeps
<1>2. QED
  BY <1>1, CallStep, ProceedStep DEF Next

LEMMA StreamInvariant == Spec => []StreamInv
BY InitStream, StreamStep, PTL DEF Spec

-----------------------------------------------------------------------------
(* What the invariant says of a processor.                                 *)

LEMMA InvHolds ==
    ASSUME StreamInv
    PROVE  NothingLost /\ BudgetsHold
<1>1. NothingLost
  <2>1. ASSUME outcome.category = "success" PROVE Unreleased = <<>>
    <3>1. Taken = Len(offered) /\ Len(offered) \in Nat
      BY <2>1 DEF StreamInv, Conserved, StreamType
    <3>2. Unreleased = SubSeq(offered, Len(offered) + 1, Len(offered))
      BY <3>1 DEF Unreleased, Taken
    <3>3. QED
      BY <3>1, <3>2, SubSeqEmpty
  <2>2. QED
    BY <2>1 DEF NothingLost, StreamInv, Conserved
<1>2. BudgetsHold
  <2>1. outcome.received \in Nat /\ Len(rest) \in Nat
    BY DEF StreamInv, StreamType, Outcome
  <2>2. outcome.received <= MaxInput
    BY <2>1, Limits DEF StreamInv, Budget
  <2>3. unit <= MaxUnit
    BY Limits DEF StreamInv, StreamType
  <2>4. QED
    BY <2>2, <2>3 DEF BudgetsHold, StreamInv, Budget, Control
<1>3. QED
  BY <1>1, <1>2

(* Whatever is written, in whatever pieces, and however it ends, the       *)
(* released units are a prefix of the input, what follows it is buffered   *)
(* until the stream is over, and success leaves nothing behind.            *)
THEOREM NothingEverLost == Spec => []NothingLost
BY InvHolds, StreamInvariant, PTL

(* No budget is exceeded at any step, by the checked fallback neither.     *)
THEOREM BudgetsAlwaysHold == Spec => []BudgetsHold
BY InvHolds, StreamInvariant, PTL

(* Once a stream is over, nothing happens to it but one fallback, and that *)
(* after a policy stop.                                                    *)
LEMMA OverStays ==
    ASSUME StreamInv, Terminal, [Next]_vars
    PROVE  /\ UNCHANGED <<outcome, cuts, offered, format, final>>
           /\ fallbackOut' # fallbackOut =>
                 /\ fallbackOut = <<>>
                 /\ outcome.disposition \in {"terminal_deny", "retryable_correction"}
<1>1. pc = "idle"
  BY DEF StreamInv, Control
<1>2. ~Proceed
  BY <1>1 DEF Proceed, WriteReturns, AcceptInput, NothingPending, ScanNewline, ScanPartial,
              ScanJSON, FinishJSON, RejectUnit, ScopeFails, GuardLate, GuardStops,
              GuardApproves, InvalidCount, Written, ShortWrite
<1>3. DeliverFallback \/ UNCHANGED vars
  BY <1>2 DEF Next, Call, WriteContext, WriteRefused, Complete, Abort, Closed
<1>4. CASE UNCHANGED vars
  BY <1>4 DEF vars, running, history
<1>5. CASE DeliverFallback
  BY <1>5 DEF DeliverFallback, running, StreamInv, Budget
<1>6. QED
  BY <1>3, <1>4, <1>5

(* The terminal outcome never changes, and only a policy stop is followed  *)
(* by a fallback, once.                                                    *)
THEOREM OutcomeAlwaysSticky == Spec => OutcomeSticky
<1>1. StreamInv /\ [Next]_vars =>
         [Terminal =>
            /\ UNCHANGED <<outcome, cuts>>
            /\ fallbackOut' # fallbackOut =>
                  /\ fallbackOut = <<>>
                  /\ outcome.disposition \in {"terminal_deny", "retryable_correction"}]_vars
  BY OverStays
<1>2. QED
  BY <1>1, StreamInvariant, PTL DEF Spec, OutcomeSticky

-----------------------------------------------------------------------------
(* The text consumer.                                                      *)

Text(ps) == FlattenSeq(FlattenSeq(ps))

(* Where the consumer is says what its processor has been told: every text *)
(* before the chunk at hand, and of that what is no longer in parts.       *)
TextInv ==
    /\ at \in {"host", "start", "events", "writing", "completing", "done"}
    /\ parts \in Seq(Parts) /\ told \in Seq(Byte)
    /\ at \in {"start", "events", "done"} => pc = "idle"
    /\ at \in {"start", "events", "writing"} => ~final
    /\ at = "start" => /\ ~Terminal /\ offered = <<>>
                       /\ parts = <<>> /\ told = <<>>
    /\ at = "events" => ~Terminal
    /\ at \in {"events", "writing"} /\ ~Terminal => told = offered \o Text(parts)
    /\ at \in {"completing", "done"} /\ final => terminal /\ status = "completed"
    /\ at = "completing" => told = offered /\ final
    /\ at = "done" =>
          /\ route = "completed" <=> outcome.category = "success"
          /\ route = "completed" => told = offered
          /\ Terminal \/ offered = <<>>
          /\ producer # "open"

LEMMA PartsAreTexts ==
    ASSUME format \in Formats
    PROVE  /\ Parts \subseteq Seq(Seq(Byte))
           /\ \A part \in Parts : part # <<>> => part[1] \in Chunks /\ part = <<part[1]>>
<1>1. Chunks \subseteq Seq(Byte)
  BY ChunksAreText
<1>2. ASSUME NEW p \in Chunks
      PROVE  <<p>> \in Seq(Seq(Byte)) /\ <<p>>[1] = p
  BY <1>1, <1>2
<1>3. <<>> \in Seq(Seq(Byte))
  OBVIOUS
<1>4. QED
  BY <1>2, <1>3 DEF Parts

LEMMA NoText == Text(<<>>) = <<>>
BY FlattenEmpty DEF Text

LEMMA TextType ==
    ASSUME format \in Formats, NEW ps \in Seq(Parts)
    PROVE  /\ ps \in Seq(Seq(Seq(Byte)))
           /\ FlattenSeq(ps) \in Seq(Seq(Byte))
           /\ Text(ps) \in Seq(Byte)
<1>1. ps \in Seq(Seq(Seq(Byte)))
  BY PartsAreTexts, SeqMonotonic
<1>2. FlattenSeq(ps) \in Seq(Seq(Byte))
  <2>1. <<>> \in Seq(Seq(Byte))
    OBVIOUS
  <2>2. CASE ps = <<>>
    BY <2>1, <2>2, FlattenEmpty
  <2>3. CASE ps # <<>>
    BY <1>1, <2>3, FlattenFirst
  <2>4. QED
    BY <2>2, <2>3
<1>3. Text(ps) \in Seq(Byte)
  <2> DEFINE ts == FlattenSeq(ps)
  <2>1. ts \in Seq(Seq(Byte))
    BY <1>2
  <2> HIDE DEF ts
  <2>2. <<>> \in Seq(Byte)
    OBVIOUS
  <2>3. CASE ts = <<>>
    BY <2>2, <2>3, FlattenEmpty DEF Text, ts
  <2>4. CASE ts # <<>>
    BY <2>1, <2>4, FlattenFirst DEF Text, ts
  <2>5. QED
    BY <2>3, <2>4
<1>4. QED
  BY <1>1, <1>2, <1>3

(* Taking the first part takes its text off the front.                     *)
LEMMA TextFirst ==
    ASSUME format \in Formats, NEW ps \in Seq(Parts), ps # <<>>, Head(ps) # <<>>
    PROVE  /\ Head(ps)[1] \in Chunks /\ Tail(ps) \in Seq(Parts)
           /\ Text(ps) = Head(ps)[1] \o Text(Tail(ps))
<1> DEFINE p == Head(ps)[1]
           r == FlattenSeq(Tail(ps))
           ts == FlattenSeq(ps)
<1>1. Head(ps) \in Parts /\ Tail(ps) \in Seq(Parts)
  BY HeadTailProperties
<1>2. p \in Chunks /\ Head(ps) = <<p>>
  BY <1>1, PartsAreTexts
<1>3. p \in Seq(Byte)
  BY <1>2, ChunksAreText
<1>4. ps \in Seq(Seq(Seq(Byte)))
  BY TextType
<1>5. r \in Seq(Seq(Byte)) /\ ts = <<p>> \o r
  BY <1>2, <1>4, FlattenFirst
<1> HIDE DEF p, r, ts
<1>6. ts \in Seq(Seq(Byte)) /\ ts # <<>> /\ Head(ts) = p /\ Tail(ts) = r
  <2>1. <<p>> \in Seq(Seq(Byte)) /\ Len(<<p>>) = 1 /\ <<p>>[1] = p
    BY <1>3
  <2>2. ts \in Seq(Seq(Byte)) /\ Len(ts) = 1 + Len(r) /\ Len(r) \in Nat /\ ts[1] = p
        /\ \A i \in 1..Len(r) : ts[i + 1] = r[i]
    BY <1>5, <2>1, ConcatProperties
  <2>3. ts # <<>>
    BY <2>2
  <2>4. Head(ts) = p /\ Tail(ts) \in Seq(Seq(Byte)) /\ Len(Tail(ts)) = Len(r)
        /\ \A i \in 1..Len(r) : Tail(ts)[i] = r[i]
    BY <2>2, <2>3, HeadTailProperties
  <2>5. Tail(ts) = r
    BY <1>5, <2>2, <2>4, SeqEqual, SMTT(30)
  <2>6. QED
    BY <2>2, <2>3, <2>4, <2>5
<1>7. FlattenSeq(ts) = p \o FlattenSeq(r)
  BY <1>6, FlattenFirst
<1>8. QED
  BY <1>1, <1>2, <1>7 DEF Text, p, r, ts

LEMMA ContentsAreParts ==
    ASSUME NEW content \in Contents
    PROVE  content \in Seq(Parts)
BY ProducerAssumption DEF Contents

(* A caller ends the call it makes before it makes another.                *)
LEMMA ProceedFacts ==
    ASSUME Proceed
    PROVE  pc # "idle" /\ UNCHANGED <<final, offered, format>>
BY DEF Proceed, WriteReturns, AcceptInput, NothingPending, ScanNewline, ScanPartial,
       ScanJSON, FinishJSON, RejectUnit, ScopeFails, GuardLate, GuardStops,
       GuardApproves, InvalidCount, Written, ShortWrite, running, history

LEMMA AbortFacts ==
    ASSUME StreamInv, Abort
    PROVE  /\ pc = "idle" /\ ~Terminal /\ pc' = "idle" /\ Terminal'
           /\ outcome'.category = "incomplete"
           /\ UNCHANGED <<final, offered, format>>
<1>1. outcome'.category = "incomplete"
  BY DEF Abort, Fail, FailCounting, StreamInv, StreamType, Outcome
<1>2. QED
  BY <1>1 DEF Abort, Fail, FailCounting, Discard, Terminal, history

LEMMA CallFormat ==
    ASSUME Call
    PROVE  format' = format
BY DEF Call, WriteContext, WriteRefused, Complete, Abort, DeliverFallback, Closed,
       vars, history

(* What the consumer does to its processor, its processor's callers may.   *)
LEMMA ConsumerCalls ==
    ASSUME StreamInv, TextInv, [TextNext]_textVars
    PROVE  [Next]_vars /\ format' = format
<1>1. format \in Formats
  BY DEF StreamInv, StreamType
<1>2. CASE HostCalls
  BY <1>2, CallFormat DEF HostCalls, Next
<1>3. CASE Processing
  BY <1>3, ProceedFacts DEF Processing, Next
<1>4. CASE WritePart
  <2>1. parts \in Seq(Parts) /\ parts # <<>> /\ Head(parts) # <<>>
    BY <1>4 DEF WritePart, TextInv
  <2>2. Head(parts)[1] \in Chunks
    BY <1>1, <2>1, TextFirst
  <2>3. WriteContext(Head(parts)[1]) \/ WriteRefused
    BY <1>4 DEF WritePart
  <2>4. Call
    BY <2>2, <2>3 DEF Call
  <2>5. QED
    BY <2>4, CallFormat DEF Next
<1>5. CASE NoProducer \/ BadEvent \/ NonTextPart \/ \E s \in Statuses : ReadStatus(s)
  <2>1. Abort \/ Complete
    BY <1>5 DEF NoProducer, BadEvent, NonTextPart, ReadStatus, AbortText
  <2>2. Call
    BY <2>1 DEF Call
  <2>3. QED
    BY <2>2, CallFormat DEF Next
<1>6. CASE \/ ConfigurationRefused \/ Begin \/ TerminalEvent \/ ContentEvent
           \/ PartWritten \/ CompleteReturned \/ Returned \/ UNCHANGED textVars
  <2>1. UNCHANGED vars
    BY <1>6 DEF ConfigurationRefused, Begin, TerminalEvent, ContentEvent, PartWritten,
                CompleteReturned, Returned, textVars
  <2>2. QED
    BY <2>1 DEF vars
<1>7. QED
  BY <1>2, <1>3, <1>4, <1>5, <1>6 DEF TextNext

LEMMA InitText == TextInit => TextInv
<1> SUFFICES ASSUME TextInit PROVE TextInv
  OBVIOUS
<1>1. <<>> \in Seq(Parts) /\ <<>> \in Seq(Byte)
  OBVIOUS
<1>2. outcome.category = "open" /\ pc = "idle" /\ ~final /\ offered = <<>>
  BY DEF TextInit, Init
<1>3. QED
  BY <1>1, <1>2 DEF TextInit, TextInv, Terminal

(* A consumer that aborts is done, without success.                        *)
LEMMA AbortTextStep ==
    ASSUME StreamInv, TextInv, at # "host", NEW r, r # "completed", AbortText(r),
           parts' = parts, told' = told, terminal' = terminal,
           final => terminal /\ status' = "completed"
    PROVE  TextInv'
<1>1. /\ at' = "done" /\ route' = r /\ producer' # "open"
  BY DEF AbortText, Return
<1>2. /\ pc' = "idle" /\ Terminal' /\ outcome'.category = "incomplete"
      /\ UNCHANGED <<final, offered, format>>
  BY AbortFacts DEF AbortText
<1>3. parts' \in Seq(Parts)' /\ told' \in Seq(Byte)
  BY <1>2 DEF TextInv, Parts, Chunks
<1>4. QED
  BY <1>1, <1>2, <1>3 DEF TextInv

LEMMA WritePartStep ==
    ASSUME StreamInv, TextInv, WritePart
    PROVE  TextInv'
<1>1. /\ at = "events" /\ parts # <<>> /\ Head(parts) # <<>> /\ at' = "writing"
      /\ parts' = Tail(parts) /\ UNCHANGED <<producer, terminal, status, route, told>>
      /\ WriteContext(Head(parts)[1]) \/ WriteRefused
  BY DEF WritePart
<1>2. /\ format \in Formats /\ parts \in Seq(Parts) /\ offered \in Seq(Byte) /\ ~Terminal
      /\ told = offered \o Text(parts) /\ told \in Seq(Byte)
  BY <1>1 DEF StreamInv, StreamType, TextInv
<1> DEFINE p == Head(parts)[1]
<1>3. /\ p \in Chunks /\ Tail(parts) \in Seq(Parts)
      /\ Text(parts) = p \o Text(Tail(parts))
  BY <1>1, <1>2, TextFirst
<1>4. p \in Seq(Byte) /\ Text(Tail(parts)) \in Seq(Byte)
  BY <1>2, <1>3, ChunksAreText, TextType
<1> HIDE DEF p
<1>5. format' = format /\ final' = FALSE
  BY <1>1 DEF WriteContext, WriteRefused
<1>6. parts' \in Seq(Parts)'
  BY <1>1, <1>3, <1>5 DEF Parts, Chunks
<1>7. CASE WriteContext(p)
  <2>1. offered' = offered \o p
    BY <1>7 DEF WriteContext
  <2>2. (offered \o p) \o Text(Tail(parts)) = offered \o (p \o Text(Tail(parts)))
    <3> DEFINE r == Text(Tail(parts))
    <3> HIDE DEF r
    <3>1. offered \in Seq(Byte) /\ p \in Seq(Byte) /\ r \in Seq(Byte)
      BY <1>2, <1>4 DEF r
    <3>2. (offered \o p) \o r = offered \o (p \o r)
      BY <3>1
    <3>3. QED
      BY <3>2 DEF r
  <2>3. told' = offered' \o Text(parts')
    BY <1>1, <1>2, <1>3, <2>1, <2>2
  <2>4. QED
    BY <1>1, <1>2, <1>5, <1>6, <2>3 DEF TextInv
<1>8. CASE WriteRefused
  <2>1. Terminal'
    BY <1>8 DEF WriteRefused, Fail, FailCounting, Terminal, StreamInv, StreamType, Outcome
  <2>2. QED
    BY <1>1, <1>2, <1>5, <1>6, <2>1 DEF TextInv
<1>9. QED
  BY <1>1, <1>7, <1>8 DEF p

LEMMA ReadStatusStep ==
    ASSUME StreamInv, TextInv, NEW s \in Statuses, ReadStatus(s)
    PROVE  TextInv'
<1>1. /\ at = "events" /\ parts = <<>> /\ status' = s
      /\ UNCHANGED <<terminal, parts, told>> /\ ~final
  BY DEF ReadStatus, Listening, TextInv
<1>2. CASE LifecycleRoute(s) # "completed"
  <2>1. AbortText(LifecycleRoute(s))
    BY <1>2 DEF ReadStatus
  <2>2. QED
    BY <1>1, <1>2, <2>1, AbortTextStep
<1>3. CASE LifecycleRoute(s) = "completed"
  <2>1. Complete /\ at' = "completing" /\ UNCHANGED <<producer, route>>
    BY <1>3 DEF ReadStatus
  <2>2. offered' = offered /\ format' = format
    BY <2>1 DEF Complete, history
  <2>3. terminal /\ s = "completed"
    BY <1>3 DEF LifecycleRoute
  <2>4. told = offered
    <3>1. told = offered \o Text(parts) /\ offered \in Seq(Byte)
      BY <1>1 DEF TextInv, StreamInv, StreamType
    <3>2. QED
      BY <1>1, <3>1, NoText, ConcatEmptySeq
  <2>5. parts' \in Seq(Parts)' /\ told' \in Seq(Byte)
    BY <1>1, <2>2 DEF TextInv, Parts, Chunks
  <2>6. QED
    <3>1. final' = TRUE
      BY <2>1 DEF Complete
    <3>2. QED
      BY <1>1, <2>1, <2>2, <2>3, <2>4, <2>5, <3>1 DEF TextInv
<1>4. QED
  BY <1>2, <1>3

LEMMA TextStep == StreamInv /\ TextInv /\ StreamInv' /\ [TextNext]_textVars => TextInv'
<1> SUFFICES ASSUME StreamInv, TextInv, StreamInv', [TextNext]_textVars PROVE TextInv'
  OBVIOUS
<1>1. format' = format
  BY ConsumerCalls
<1>2. parts' = parts => parts' \in Seq(Parts)'
  BY <1>1 DEF TextInv, Parts, Chunks
<1>3. CASE HostCalls
  BY <1>2, <1>3 DEF HostCalls, consumer, TextInv
<1>4. CASE Processing
  <2>1. pc # "idle" /\ UNCHANGED <<final, offered, format>> /\ UNCHANGED consumer
    BY <1>4, ProceedFacts DEF Processing
  <2>2. ~Terminal
    BY <2>1, RunningIsOpen
  <2>3. at \in {"host", "writing", "completing"}
    BY <2>1 DEF TextInv
  <2>4. QED
    BY <1>2, <2>1, <2>2, <2>3 DEF consumer, TextInv
<1>5. CASE ConfigurationRefused
  <2>1. outcome.category # "success"
    BY <1>5 DEF ConfigurationRefused, TextInv, Terminal
  <2>2. QED
    BY <1>2, <1>5, <2>1 DEF ConfigurationRefused, Return, TextInv, vars, running, history
<1>6. CASE NoProducer
  BY <1>6, AbortTextStep DEF NoProducer, TextInv
<1>7. CASE Begin
  <2>1. told = offered \o Text(parts)
    BY <1>7, NoText DEF Begin, TextInv
  <2>2. Text(parts') = Text(parts)
    BY <1>7 DEF Begin
  <2>3. QED
    BY <1>2, <1>7, <2>1, <2>2 DEF Begin, TextInv, vars, running, history, Terminal
<1>8. CASE BadEvent
  <2>1. PICK r \in {"canceled", "producer", "unsupported"} : AbortText(r)
    BY <1>8 DEF BadEvent
  <2>2. r # "completed"
    OBVIOUS
  <2>3. QED
    BY <1>8, <2>1, <2>2, AbortTextStep DEF BadEvent, Listening, TextInv
<1>9. CASE TerminalEvent
  <2>1. Text(parts') = Text(parts)
    BY <1>9 DEF TerminalEvent
  <2>2. QED
    BY <1>2, <1>9, <2>1 DEF TerminalEvent, Listening, TextInv, vars, running, history, Terminal
<1>10. CASE ContentEvent
  <2>1. PICK content \in Contents :
           parts' = content /\ told' = told \o FlattenSeq(FlattenSeq(content))
    BY <1>10 DEF ContentEvent
  <2>2. /\ at = "events" /\ parts = <<>> /\ at' = at /\ UNCHANGED vars
        /\ UNCHANGED <<producer, terminal, status, route>>
    BY <1>10 DEF ContentEvent, Listening
  <2>3. /\ told \in Seq(Byte) /\ offered \in Seq(Byte) /\ format \in Formats
        /\ told = offered \o Text(parts)
    BY <2>2 DEF TextInv, StreamInv, StreamType
  <2>4. told = offered
    BY <2>2, <2>3, NoText, ConcatEmptySeq
  <2>5. content \in Seq(Parts) /\ Text(content) \in Seq(Byte)
    BY <2>1, <2>3, ContentsAreParts, TextType
  <2>6. told' = offered \o Text(content) /\ told' \in Seq(Byte)
    BY <2>1, <2>3, <2>4, <2>5, ConcatProperties DEF Text
  <2>7. parts' \in Seq(Parts)'
    BY <1>1, <2>1, <2>5 DEF Parts, Chunks
  <2>8. Text(parts') = Text(content)
    BY <2>1
  <2>9. QED
    BY <2>2, <2>6, <2>7, <2>8 DEF TextInv, vars, running, history, Terminal
<1>11. CASE NonTextPart
  <2>1. "unsupported" # "completed"
    OBVIOUS
  <2>2. QED
    BY <1>11, <2>1, AbortTextStep DEF NonTextPart, TextInv
<1>12. CASE WritePart
  BY <1>12, WritePartStep
<1>13. CASE PartWritten
  <2>1. CASE Terminal
    <3>1. outcome.category # "success"
      BY <1>13 DEF PartWritten, TextInv, StreamInv, Conserved
    <3>2. QED
      BY <1>2, <1>13, <2>1, <3>1
         DEF PartWritten, Return, TextInv, vars, running, history, Terminal
  <2>2. CASE ~Terminal
    <3>1. Text(parts') = Text(parts)
      BY <1>13 DEF PartWritten
    <3>2. QED
      BY <1>2, <1>13, <2>2, <3>1 DEF PartWritten, TextInv, vars, running, history, Terminal
  <2>3. QED
    BY <2>1, <2>2
<1>14. CASE \E s \in Statuses : ReadStatus(s)
  BY <1>14, ReadStatusStep
<1>15. CASE CompleteReturned
  <2>1. Terminal
    BY <1>15 DEF CompleteReturned, TextInv, StreamInv, Control
  <2>2. QED
    BY <1>2, <1>15, <2>1 DEF CompleteReturned, Return, TextInv, vars, running, history, Terminal
<1>16. CASE Returned \/ UNCHANGED textVars
  <2>1. UNCHANGED textVars
    BY <1>16 DEF Returned
  <2>2. Text(parts') = Text(parts)
    BY <2>1 DEF textVars, consumer
  <2>3. QED
    BY <1>2, <2>1, <2>2 DEF textVars, consumer, TextInv, vars, running, history, Terminal
<1>17. QED
  BY <1>3, <1>4, <1>5, <1>6, <1>7, <1>8, <1>9, <1>10, <1>11, <1>12, <1>13, <1>14, <1>15,
     <1>16 DEF TextNext

LEMMA TextInvariant == TextSpec => [](StreamInv /\ TextInv)
<1>1. TextInit => StreamInv /\ TextInv
  BY InitStream, InitText DEF TextInit
<1>2. StreamInv /\ TextInv /\ [TextNext]_textVars => (StreamInv /\ TextInv)'
  BY ConsumerCalls, StreamStep, TextStep
<1>3. QED
  BY <1>1, <1>2, PTL DEF TextSpec

(* The text consumer is one of a processor's callers: whatever holds of a  *)
(* processor holds of the one it reads a producer into.                    *)
THEOREM ConsumerUsesProcessor == TextSpec => Spec
<1>1. TextInit => Init
  BY DEF TextInit
<1>2. StreamInv /\ TextInv /\ [TextNext]_textVars => [Next]_vars
  BY ConsumerCalls
<1>3. QED
  BY <1>1, <1>2, TextInvariant, PTL DEF TextSpec, Spec

(* A consumed stream succeeds, or sends a byte of a whole response, only   *)
(* after its terminal event and with a completed result.                   *)
THEOREM LifecycleAlwaysGoverns == TextSpec => []LifecycleGoverns
<1>1. StreamInv /\ TextInv => LifecycleGoverns
  <2> SUFFICES ASSUME StreamInv, TextInv, at # "host",
                      outcome.category = "success" \/ (Whole /\ outcome.released > 0)
               PROVE  terminal /\ status = "completed"
    BY DEF LifecycleGoverns
  <2>1. final
    BY DEF StreamInv, Conserved, Control
  <2>2. QED
    BY <2>1 DEF TextInv
<1>2. QED
  BY <1>1, TextInvariant, PTL

(* The route of a consumed stream tells its outcome: completed exactly on  *)
(* success, and then every text of every chunk was released, in order.     *)
THEOREM RouteAlwaysTellsOutcome == TextSpec => []RouteTellsOutcome
<1>1. StreamInv /\ TextInv => RouteTellsOutcome
  <2> SUFFICES ASSUME StreamInv, TextInv, at = "done"
               PROVE  /\ route = "completed" <=> outcome.category = "success"
                      /\ route = "completed" => offered = told /\ Unreleased = <<>>
                      /\ Terminal \/ offered = <<>>
                      /\ producer # "open"
    BY DEF RouteTellsOutcome
  <2>1. outcome.category = "success" => Unreleased = <<>>
    BY InvHolds DEF NothingLost
  <2>2. QED
    BY <2>1 DEF TextInv
<1>2. QED
  BY <1>1, TextInvariant, PTL

-----------------------------------------------------------------------------
(* JSON values.  What a value is, and so where it ends, is a recursion on  *)
(* the text.  That the recursion has a solution is shown by the set of the *)
(* values nested in a text; facts about all values are shown by climbing   *)
(* over their lengths.                                                     *)

LEMMA MinIs ==
    ASSUME NEW T \in SUBSET Int, NEW n \in T, \A i \in T : n <= i
    PROVE  Min(T) = n
<1>1. \E x \in T : \A y \in T : x =< y
  OBVIOUS
<1>2. Min(T) \in T /\ \A y \in T : Min(T) =< y
  BY <1>1 DEF Min
<1> DEFINE m == Min(T)
<1>3. m \in T /\ m =< n /\ n <= m
  BY <1>2
<1> HIDE DEF m
<1>4. m = n
  BY <1>3
<1>5. QED
  BY <1>4 DEF m

(* The text of a JSON value, by the values nested in it: W holds s and,    *)
(* with each of its members, what is inside the brackets of that one.      *)
Nests(s, W) ==
    /\ s \in W
    /\ \A w \in W :
          LET t == Trimmed(w)
          IN  \/ t # <<>> /\ \A i \in DOMAIN t : t[i] = "a"
              \/ ValidJSONString(t)
              \/ /\ Len(t) >= 2 /\ t[1] = "{" /\ t[Len(t)] = "}"
                 /\ Trimmed(Inner(t)) = <<>>
              \/ /\ Len(t) >= 2 /\ t[1] = "[" /\ t[Len(t)] = "]"
                 /\ Trimmed(Inner(t)) = <<>> \/ Inner(t) \in W

Value(s) == \E W : Nests(s, W)

\* The value of s is not an array, or an array of none.
Simple(s) ==
    LET t == Trimmed(s)
    IN  \/ t # <<>> /\ \A i \in DOMAIN t : t[i] = "a"
        \/ ValidJSONString(t)
        \/ /\ Len(t) >= 2 /\ t[1] = "{" /\ t[Len(t)] = "}"
           /\ Trimmed(Inner(t)) = <<>>

Bracketed(s) ==
    LET t == Trimmed(s) IN Len(t) >= 2 /\ t[1] = "[" /\ t[Len(t)] = "]"

LEMMA ValueNests ==
    ASSUME NEW s
    PROVE  Value(s) <=> \/ Simple(s)
                        \/ /\ Bracketed(s)
                           /\ \/ Trimmed(Inner(Trimmed(s))) = <<>>
                              \/ Value(Inner(Trimmed(s)))
<1>1. ASSUME Value(s)
      PROVE  \/ Simple(s)
             \/ /\ Bracketed(s)
                /\ \/ Trimmed(Inner(Trimmed(s))) = <<>>
                   \/ Value(Inner(Trimmed(s)))
  <2>1. PICK W : Nests(s, W)
    BY <1>1 DEF Value
  <2>2. ASSUME Inner(Trimmed(s)) \in W PROVE Value(Inner(Trimmed(s)))
    <3>1. Nests(Inner(Trimmed(s)), W)
      BY <2>1, <2>2 DEF Nests
    <3>2. QED
      BY <3>1 DEF Value
  <2>3. QED
    BY <2>1, <2>2 DEF Nests, Simple, Bracketed
<1>2. ASSUME Simple(s) \/ (Bracketed(s) /\ Trimmed(Inner(Trimmed(s))) = <<>>)
      PROVE  Value(s)
  <2>1. Nests(s, {s})
    BY <1>2 DEF Nests, Simple, Bracketed
  <2>2. QED
    BY <2>1 DEF Value
<1>3. ASSUME Bracketed(s), Value(Inner(Trimmed(s)))
      PROVE  Value(s)
  <2>1. PICK W : Nests(Inner(Trimmed(s)), W)
    BY <1>3 DEF Value
  <2>2. Nests(s, W \cup {s})
    BY <1>3, <2>1 DEF Nests, Bracketed
  <2>3. QED
    BY <2>2 DEF Value
<1>4. QED
  BY <1>1, <1>2, <1>3

\* first and last are the first and the last byte of s that is not space.
Solid(s, first, last) ==
    /\ first \in 1..Len(s) /\ last \in first..Len(s)
    /\ s[first] \notin Space /\ s[last] \notin Space
    /\ \A i \in 1..Len(s) : i < first \/ i > last => s[i] \in Space

LEMMA MaxIs ==
    ASSUME NEW T \in SUBSET Int, NEW n \in T, \A i \in T : i <= n
    PROVE  Max(T) = n
<1>1. \E x \in T : \A y \in T : x >= y
  OBVIOUS
<1>2. Max(T) \in T /\ \A y \in T : Max(T) >= y
  BY <1>1 DEF Max
<1> DEFINE m == Max(T)
<1>3. m \in T /\ m >= n /\ m <= n
  BY <1>2
<1> HIDE DEF m
<1>4. m = n
  BY <1>3
<1>5. QED
  BY <1>4 DEF m

LEMMA TrimmedIs ==
    ASSUME NEW s \in Seq(Byte), NEW first, NEW last, Solid(s, first, last)
    PROVE  /\ Trimmed(s) = SubSeq(s, first, last) /\ Trimmed(s) \in Seq(Byte)
           /\ Len(Trimmed(s)) = last - first + 1
           /\ \A i \in 1..(last - first + 1) : Trimmed(s)[i] = s[first - 1 + i]
<1> DEFINE solid == {i \in DOMAIN s : s[i] \notin Space}
<1>1. /\ Len(s) \in Nat /\ first \in 1..Len(s) /\ last \in first..Len(s)
      /\ first \in Nat /\ last \in Nat
  BY DEF Solid
<1>2. solid \in SUBSET Int /\ first \in solid /\ last \in solid
  BY <1>1 DEF Solid
<1>3. \A i \in solid : first <= i /\ i <= last
  BY <1>1 DEF Solid
<1>4. Min(solid) = first /\ Max(solid) = last /\ solid # {}
  <2> HIDE DEF solid
  <2>1. QED
    BY <1>2, <1>3, MinIs, MaxIs
<1>5. Trimmed(s) = SubSeq(s, first, last)
  BY <1>4 DEF Trimmed
<1>6. \A i \in first..last : s[i] \in Byte
  BY <1>1
<1>7. /\ SubSeq(s, first, last) \in Seq(Byte)
      /\ Len(SubSeq(s, first, last)) = last - first + 1
      /\ \A i \in 1..(last - first + 1) : SubSeq(s, first, last)[i] = s[first - 1 + i]
  BY <1>1, <1>6, SubSeqProperties
<1>8. QED
  BY <1>5, <1>7

LEMMA SolidOrSpace ==
    ASSUME NEW s \in Seq(Byte)
    PROVE  \/ Trimmed(s) = <<>> /\ \A i \in 1..Len(s) : s[i] \in Space
           \/ Trimmed(s) # <<>> /\ \E first, last \in Nat : Solid(s, first, last)
<1> DEFINE solid == {i \in DOMAIN s : s[i] \notin Space}
<1>1. solid \in SUBSET (1..Len(s)) /\ Len(s) \in Nat
  OBVIOUS
<1>2. CASE solid = {}
  BY <1>2 DEF Trimmed
<1>3. CASE solid # {}
  <2> HIDE DEF solid
  <2>1. PICK first \in solid : \A i \in solid : first <= i
    BY <1>1, <1>3, MinOfSet
  <2>2. PICK last \in solid : \A i \in solid : i <= last
    BY <1>1, <1>3, LastPosition
  <2>3. first \in Nat /\ last \in Nat /\ first \in 1..Len(s) /\ last \in first..Len(s)
    BY <1>1, <2>1, <2>2
  <2>4. Solid(s, first, last)
    BY <1>1, <2>1, <2>2, <2>3 DEF Solid, solid
  <2>5. Len(Trimmed(s)) = last - first + 1
    BY <2>4, TrimmedIs
  <2>6. Trimmed(s) # <<>>
    BY <2>3, <2>5
  <2>7. QED
    BY <2>3, <2>4, <2>6
<1>4. QED
  BY <1>2, <1>3

LEMMA ValidJSONDef ==
    ValidJSON =
        [s \in Seq(Byte) |->
            LET t == Trimmed(s)
            IN  \/ t # <<>> /\ \A i \in DOMAIN t : t[i] = "a"
                \/ ValidJSONString(t)
                \/ /\ Len(t) >= 2 /\ t[1] = "{" /\ t[Len(t)] = "}"
                   /\ Trimmed(Inner(t)) = <<>>
                \/ /\ Len(t) >= 2 /\ t[1] = "[" /\ t[Len(t)] = "]"
                   /\ Trimmed(Inner(t)) = <<>> \/ ValidJSON[Inner(t)]]
<1> DEFINE G(f) ==
             [s \in Seq(Byte) |->
                LET t == Trimmed(s)
                IN  \/ t # <<>> /\ \A i \in DOMAIN t : t[i] = "a"
                    \/ ValidJSONString(t)
                    \/ /\ Len(t) >= 2 /\ t[1] = "{" /\ t[Len(t)] = "}"
                       /\ Trimmed(Inner(t)) = <<>>
                    \/ /\ Len(t) >= 2 /\ t[1] = "[" /\ t[Len(t)] = "]"
                       /\ Trimmed(Inner(t)) = <<>> \/ f[Inner(t)]]
           h == [s \in Seq(Byte) |-> Value(s)]
<1>1. ASSUME NEW s \in Seq(Byte), Bracketed(s) PROVE h[Inner(Trimmed(s))] = Value(Inner(Trimmed(s)))
  <2> DEFINE t == Trimmed(s)
             u == Inner(t)
  <2>1. t \in Seq(Byte)
    <3>1. CASE t = <<>>
      BY <3>1
    <3>2. CASE t # <<>>
      BY <3>2, SolidOrSpace, TrimmedIs
    <3>3. QED
      BY <3>1, <3>2
  <2>2. Len(t) >= 2
    BY <1>1 DEF Bracketed
  <2> HIDE DEF t
  <2>3. Len(t) \in Nat /\ \A i \in 2..(Len(t) - 1) : t[i] \in Byte
    BY <2>1
  <2>4. u \in Seq(Byte)
    BY <2>2, <2>3, SubSeqProperties DEF Inner
  <2> HIDE DEF u
  <2>5. h[u] = Value(u)
    BY <2>4
  <2>6. QED
    BY <2>5 DEF u, t
<1>2. h = G(h)
  <2>1. ASSUME NEW s \in Seq(Byte) PROVE h[s] = G(h)[s]
    <3>1. h[s] = Value(s) /\ Value(s) \in BOOLEAN
      BY DEF Value
    <3> HIDE DEF h
    <3>2. G(h)[s] = (Simple(s) \/ (Bracketed(s) /\ (\/ Trimmed(Inner(Trimmed(s))) = <<>>
                                                   \/ h[Inner(Trimmed(s))])))
      BY DEF Simple, Bracketed
    <3>3. G(h)[s] = (Simple(s) \/ (Bracketed(s) /\ (\/ Trimmed(Inner(Trimmed(s))) = <<>>
                                                   \/ Value(Inner(Trimmed(s))))))
      BY <1>1, <3>2
    <3> HIDE DEF G
    <3>4. QED
      BY <3>1, <3>3, ValueNests
  <2>2. QED
    BY <2>1
<1>3. \E f : f = G(f)
  <2> HIDE DEF G, h
  <2>1. QED
    BY <1>2
<1>4. ValidJSON = G(ValidJSON)
  BY <1>3 DEF ValidJSON
<1>5. QED
  BY <1>4

LEMMA JSONCases ==
    ASSUME NEW s \in Seq(Byte), ValidJSON[s]
    PROVE  \/ Simple(s)
           \/ /\ Bracketed(s)
              /\ \/ Trimmed(Inner(Trimmed(s))) = <<>>
                 \/ ValidJSON[Inner(Trimmed(s))]
<1> DEFINE f == ValidJSON
<1>1. f = [x \in Seq(Byte) |->
            LET t == Trimmed(x)
            IN  \/ t # <<>> /\ \A i \in DOMAIN t : t[i] = "a"
                \/ ValidJSONString(t)
                \/ /\ Len(t) >= 2 /\ t[1] = "{" /\ t[Len(t)] = "}"
                   /\ Trimmed(Inner(t)) = <<>>
                \/ /\ Len(t) >= 2 /\ t[1] = "[" /\ t[Len(t)] = "]"
                   /\ Trimmed(Inner(t)) = <<>> \/ f[Inner(t)]]
  BY ValidJSONDef
<1>2. f[s]
  OBVIOUS
<1> HIDE DEF f
<1>3. LET t == Trimmed(s)
      IN  \/ t # <<>> /\ \A i \in DOMAIN t : t[i] = "a"
          \/ ValidJSONString(t)
          \/ /\ Len(t) >= 2 /\ t[1] = "{" /\ t[Len(t)] = "}"
             /\ Trimmed(Inner(t)) = <<>>
          \/ /\ Len(t) >= 2 /\ t[1] = "[" /\ t[Len(t)] = "]"
             /\ Trimmed(Inner(t)) = <<>> \/ f[Inner(t)]
  BY <1>1, <1>2
<1>4. QED
  BY <1>3 DEF Simple, Bracketed, f

LEMMA JSONIsSolid ==
    ASSUME NEW s \in Seq(Byte), ValidJSON[s]
    PROVE  \E first, last \in Nat : Solid(s, first, last)
<1>1. ASSUME Trimmed(s) = <<>> PROVE FALSE
  <2>1. Len(Trimmed(s)) = 0
    BY <1>1
  <2> DEFINE t == Trimmed(s)
  <2>2. ~Bracketed(s)
    BY <2>1 DEF Bracketed
  <2>3. ~ValidJSONString(t)
    BY <2>1 DEF ValidJSONString
  <2>4. Simple(s)
    BY <2>2, JSONCases
  <2>5. QED
    BY <1>1, <2>1, <2>3, <2>4 DEF Simple
<1>2. QED
  BY <1>1, SolidOrSpace

\* The bytes of s between first and last.
Within(s, first, last) == SubSeq(s, first + 1, last - 1)

LEMMA WithinIs ==
    ASSUME NEW s \in Seq(Byte), NEW first \in 1..Len(s), NEW last \in (first + 1)..Len(s)
    PROVE  /\ Within(s, first, last) \in Seq(Byte)
           /\ Len(Within(s, first, last)) = last - first - 1
           /\ \A i \in 1..(last - first - 1) : Within(s, first, last)[i] = s[first + i]
<1>1. Len(s) \in Nat /\ first \in Nat /\ last \in Nat /\ first + 1 <= last
  OBVIOUS
<1> DEFINE m == first + 1
           n == last - 1
<1>2. m \in Int /\ n \in Int /\ \A i \in m..n : i \in 1..Len(s)
  BY <1>1
<1>3. \A i \in m..n : s[i] \in Byte
  BY <1>2
<1> HIDE DEF m, n
<1>4. /\ SubSeq(s, m, n) \in Seq(Byte)
      /\ Len(SubSeq(s, m, n)) = IF m <= n THEN n - m + 1 ELSE 0
      /\ \A i \in 1..(n - m + 1) : SubSeq(s, m, n)[i] = s[m + i - 1]
  BY <1>2, <1>3, SubSeqProperties
<1> DEFINE w == SubSeq(s, m, n)
<1> HIDE DEF w
<1>5. w \in Seq(Byte) /\ (Len(w) = IF m <= n THEN n - m + 1 ELSE 0)
      /\ \A i \in 1..(n - m + 1) : w[i] = s[m + i - 1]
  BY <1>4 DEF w
<1>6. Len(w) = last - first - 1
  BY <1>1, <1>5 DEF m, n
<1>7. ASSUME NEW i \in 1..(last - first - 1) PROVE w[i] = s[first + i]
  <2>1. i \in 1..(n - m + 1) /\ m + i - 1 = first + i
    BY <1>1 DEF m, n
  <2>2. QED
    BY <1>5, <2>1
<1>8. QED
  BY <1>5, <1>6, <1>7 DEF w, m, n, Within

LEMMA InnerIs ==
    ASSUME NEW s \in Seq(Byte), NEW first, NEW last, Solid(s, first, last), first < last
    PROVE  Inner(Trimmed(s)) = Within(s, first, last)
<1> DEFINE t == Trimmed(s)
           u == Inner(t)
           w == Within(s, first, last)
<1>1. /\ Len(s) \in Nat /\ first \in 1..Len(s) /\ last \in (first + 1)..Len(s)
      /\ first \in Nat /\ last \in Nat
  BY DEF Solid
<1>2. t \in Seq(Byte) /\ Len(t) = last - first + 1
      /\ \A i \in 1..(last - first + 1) : t[i] = s[first - 1 + i]
  BY TrimmedIs
<1>3. w \in Seq(Byte) /\ Len(w) = last - first - 1
      /\ \A i \in 1..(last - first - 1) : w[i] = s[first + i]
  BY <1>1, WithinIs
<1> HIDE DEF t, w
<1>4. u = Within(t, 1, Len(t))
  BY DEF Inner, Within
<1>5. 1 \in 1..Len(t) /\ Len(t) \in (1 + 1)..Len(t)
  <2> DEFINE n == Len(t)
  <2>1. n \in Nat /\ n = last - first + 1
    BY <1>1, <1>2
  <2> HIDE DEF n
  <2>2. n >= 2
    BY <1>1, <2>1
  <2>3. 1 \in 1..n /\ n \in (1 + 1)..n
    BY <2>1, <2>2
  <2>4. QED
    BY <2>3 DEF n
<1>6. u \in Seq(Byte) /\ Len(u) = Len(t) - 1 - 1 /\ \A i \in 1..(Len(t) - 1 - 1) : u[i] = t[1 + i]
  <2>1. /\ Within(t, 1, Len(t)) \in Seq(Byte) /\ Len(Within(t, 1, Len(t))) = Len(t) - 1 - 1
        /\ \A i \in 1..(Len(t) - 1 - 1) : Within(t, 1, Len(t))[i] = t[1 + i]
    BY <1>2, <1>5, WithinIs
  <2> HIDE DEF u
  <2>2. QED
    BY <1>4, <2>1
<1> HIDE DEF u
<1> DEFINE n == Len(t)
<1>7. n = last - first + 1 /\ Len(u) = n - 1 - 1 /\ \A i \in 1..(n - 1 - 1) : u[i] = t[1 + i]
  BY <1>2, <1>6
<1> HIDE DEF n
<1>8. Len(u) = last - first - 1 /\ \A i \in 1..(last - first - 1) : u[i] = s[first + i]
  <2>1. n - 1 - 1 = last - first - 1
    BY <1>1, <1>7
  <2>2. ASSUME NEW i \in 1..(last - first - 1) PROVE u[i] = s[first + i]
    <3>1. 1 + i \in 1..(last - first + 1) /\ first - 1 + (1 + i) = first + i
      BY <1>1
    <3>2. QED
      BY <1>2, <1>7, <2>1, <3>1
  <2>3. QED
    BY <1>7, <2>1, <2>2
<1>9. u = w
  BY <1>3, <1>6, <1>8, SeqEqual
<1>10. QED
  BY <1>9 DEF u, w, t

\* What a JSON value that takes first..last can be.
Shape(s, first, last) ==
    \/ \A i \in first..last : s[i] = "a"
    \/ s[first] = "quote" /\ ValidJSONString(SubSeq(s, first, last))
    \/ /\ first < last /\ s[first] = "{" /\ s[last] = "}"
       /\ \A i \in (first + 1)..(last - 1) : s[i] \in Space
    \/ /\ first < last /\ s[first] = "[" /\ s[last] = "]"
       /\ \/ \A i \in (first + 1)..(last - 1) : s[i] \in Space
          \/ ValidJSON[Within(s, first, last)]

LEMMA InnerSpace ==
    ASSUME NEW s \in Seq(Byte), NEW first, NEW last, Solid(s, first, last), first < last,
           Trimmed(Inner(Trimmed(s))) = <<>>
    PROVE  \A i \in (first + 1)..(last - 1) : s[i] \in Space
<1> DEFINE w == Within(s, first, last)
<1>1. /\ Len(s) \in Nat /\ first \in 1..Len(s) /\ last \in (first + 1)..Len(s)
      /\ first \in Nat /\ last \in Nat
  BY DEF Solid
<1>2. w \in Seq(Byte) /\ Len(w) = last - first - 1
      /\ \A i \in 1..(last - first - 1) : w[i] = s[first + i]
  BY <1>1, WithinIs
<1>3. Trimmed(w) = <<>>
  BY InnerIs
<1> HIDE DEF w
<1>4. \A i \in 1..Len(w) : w[i] \in Space
  BY <1>2, <1>3, SolidOrSpace
<1>5. ASSUME NEW i \in (first + 1)..(last - 1) PROVE s[i] \in Space
  <2>1. i - first \in 1..(last - first - 1) /\ first + (i - first) = i
    BY <1>1
  <2>2. QED
    BY <1>2, <1>4, <2>1
<1>6. QED
  BY <1>5

LEMMA JSONShape ==
    ASSUME NEW s \in Seq(Byte), NEW first, NEW last, Solid(s, first, last), ValidJSON[s]
    PROVE  Shape(s, first, last)
<1> DEFINE t == Trimmed(s)
<1>1. /\ Len(s) \in Nat /\ first \in 1..Len(s) /\ last \in first..Len(s)
      /\ first \in Nat /\ last \in Nat
  BY DEF Solid
<1>2. t \in Seq(Byte) /\ Len(t) = last - first + 1 /\ t = SubSeq(s, first, last)
      /\ \A i \in 1..(last - first + 1) : t[i] = s[first - 1 + i]
  BY TrimmedIs
<1>3. /\ 1 \in 1..(last - first + 1) /\ last - first + 1 \in 1..(last - first + 1)
      /\ first - 1 + 1 = first /\ first - 1 + (last - first + 1) = last
  BY <1>1
<1>4. t[1] = s[first] /\ t[Len(t)] = s[last]
  BY <1>2, <1>3
<1>5. Len(t) >= 2 => first < last
  BY <1>1, <1>2
<1>6. CASE \A i \in DOMAIN t : t[i] = "a"
  <2>1. ASSUME NEW i \in first..last PROVE s[i] = "a"
    <3>1. /\ i - first + 1 \in 1..(last - first + 1)
          /\ first - 1 + (i - first + 1) = i
      BY <1>1
    <3>2. QED
      BY <1>2, <1>6, <3>1
  <2>2. QED
    BY <2>1 DEF Shape
<1>7. CASE ValidJSONString(t)
  BY <1>2, <1>4, <1>7 DEF Shape, ValidJSONString
<1>8. CASE /\ Len(t) >= 2 /\ t[1] = "{" /\ t[Len(t)] = "}"
           /\ Trimmed(Inner(t)) = <<>>
  BY <1>4, <1>5, <1>8, InnerSpace DEF Shape
<1>9. CASE Bracketed(s) /\ Trimmed(Inner(t)) = <<>>
  BY <1>4, <1>5, <1>9, InnerSpace DEF Shape, Bracketed
<1>10. CASE Bracketed(s) /\ ValidJSON[Inner(t)]
  <2>1. first < last /\ s[first] = "[" /\ s[last] = "]"
    BY <1>4, <1>5, <1>10 DEF Bracketed
  <2>2. ValidJSON[Within(s, first, last)]
    BY <1>10, <2>1, InnerIs
  <2>3. QED
    BY <2>1, <2>2 DEF Shape
<1>11. QED
  BY <1>6, <1>7, <1>8, <1>9, <1>10, JSONCases DEF Simple

\* u starts with s.
Continues(s, u) == Len(s) <= Len(u) /\ \A i \in 1..Len(s) : u[i] = s[i]

LEMMA SameFirst ==
    ASSUME NEW s \in Seq(Byte), NEW u \in Seq(Byte), Continues(s, u),
           NEW a, NEW b, NEW d, NEW c, Solid(s, a, b), Solid(u, d, c)
    PROVE  d = a /\ b <= c
<1>1. /\ Len(s) \in Nat /\ Len(u) \in Nat /\ Len(s) <= Len(u)
      /\ \A i \in 1..Len(s) : u[i] = s[i]
  BY DEF Continues
<1>2. /\ a \in 1..Len(s) /\ b \in a..Len(s) /\ s[a] \notin Space /\ s[b] \notin Space
      /\ \A i \in 1..Len(s) : i < a \/ i > b => s[i] \in Space
  BY DEF Solid
<1>3. /\ d \in 1..Len(u) /\ c \in d..Len(u) /\ u[d] \notin Space
      /\ \A i \in 1..Len(u) : i < d \/ i > c => u[i] \in Space
  BY DEF Solid
<1>4. ~(d < a)
  <2>1. SUFFICES ASSUME d < a PROVE FALSE
    OBVIOUS
  <2>2. d \in 1..Len(s)
    BY <1>1, <1>2, <1>3, <2>1
  <2>3. QED
    BY <1>1, <1>2, <1>3, <2>1, <2>2
<1>5. a \in 1..Len(u) /\ b \in 1..Len(u) /\ b \in 1..Len(s)
  BY <1>1, <1>2
<1>6. ~(a < d) /\ ~(b > c)
  BY <1>1, <1>2, <1>3, <1>5
<1>7. QED
  BY <1>1, <1>2, <1>3, <1>4, <1>6

LEMMA FirstOfValue ==
    ASSUME NEW s, NEW a, NEW b, a \in Nat, b \in a..Len(s), Len(s) \in Nat, Shape(s, a, b)
    PROVE  s[a] \in {"a", "quote", "{", "["}
<1>1. a \in a..b
  OBVIOUS
<1>2. QED
  BY <1>1 DEF Shape

\* A string does not end where a shorter one did.
LEMMA StringEnds ==
    ASSUME NEW s \in Seq(Byte), NEW u \in Seq(Byte),
           NEW a \in Nat, NEW b \in Nat, NEW c \in Nat,
           1 <= a, a <= b, b < c, b <= Len(s), c <= Len(u), \A i \in a..b : u[i] = s[i],
           ValidJSONString(SubSeq(s, a, b)), ValidJSONString(SubSeq(u, a, c))
    PROVE  FALSE
<1> DEFINE x == SubSeq(s, a, b)
           y == SubSeq(u, a, c)
           m == b - a + 1
<1>1. Len(s) \in Nat /\ Len(u) \in Nat
  OBVIOUS
<1>2. /\ Len(x) = m /\ \A i \in 1..m : x[i] = s[a + i - 1]
  <2>1. \A i \in a..b : s[i] \in Byte
    BY <1>1
  <2>2. QED
    BY <1>1, <2>1, SubSeqProperties
<1>3. /\ Len(y) = c - a + 1 /\ \A i \in 1..(c - a + 1) : y[i] = u[a + i - 1]
  <2>1. \A i \in a..c : u[i] \in Byte
    BY <1>1
  <2>2. QED
    BY <1>1, <2>1, SubSeqProperties
<1>4. ValidJSONString(x) /\ ValidJSONString(y)
  OBVIOUS
<1> HIDE DEF x, y
<1>5. m \in Nat /\ m < c - a + 1 /\ c - a + 1 \in Nat
  OBVIOUS
<1>6. \A i \in 1..m : y[i] = x[i]
  <2>1. SUFFICES ASSUME NEW i \in 1..m PROVE y[i] = x[i]
    OBVIOUS
  <2>2. a + i - 1 \in a..b /\ i \in 1..(c - a + 1)
    OBVIOUS
  <2>3. QED
    BY <1>2, <1>3, <2>2
<1> HIDE DEF m
<1>7. Len(x) >= 2 /\ x[m] = "quote" /\ ~Escaped(x, m)
  BY <1>2, <1>4 DEF ValidJSONString
<1>8. m \in 2..(Len(y) - 1) /\ m \in 1..m
  BY <1>2, <1>3, <1>5, <1>7
<1>9. y[m] = "quote"
  BY <1>6, <1>7, <1>8
<1>10. Escaped(y, m)
  <2>1. \A i \in 2..(Len(y) - 1) :
           IF Escaped(y, i) THEN y[i] \in {"quote", "bslash"} ELSE y[i] \notin {"quote", "nl"}
    BY <1>4 DEF ValidJSONString
  <2>2. IF Escaped(y, m) THEN y[m] \in {"quote", "bslash"} ELSE y[m] \notin {"quote", "nl"}
    BY <1>8, <2>1
  <2>3. QED
    BY <1>9, <2>2
<1>11. PICK k \in 1..(m - 2) :
          /\ k % 2 = 1 /\ \A j \in (m - k)..(m - 1) : y[j] = "bslash"
          /\ y[m - k - 1] # "bslash"
  BY <1>10 DEF Escaped
<1>12. /\ \A j \in (m - k)..(m - 1) : x[j] = "bslash"
       /\ x[m - k - 1] # "bslash"
  <2>1. m - k - 1 \in 1..m /\ \A j \in (m - k)..(m - 1) : j \in 1..m
    BY <1>5
  <2>2. QED
    BY <1>6, <1>11, <2>1
<1>13. Escaped(x, m)
  BY <1>11, <1>12 DEF Escaped
<1>14. QED
  BY <1>7, <1>13

\* Of two JSON values, one of which continues the other, only a number can be
\* longer.
Unique(s) ==
    \A u \in Seq(Byte) : \A a, b, c \in Nat :
        /\ ValidJSON[s] /\ ValidJSON[u] /\ Continues(s, u)
        /\ Solid(s, a, b) /\ Solid(u, a, c) /\ b < c
        => u[a] = "a"

LEMMA UniqueStep ==
    ASSUME NEW s \in Seq(Byte), \A w \in Seq(Byte) : Len(w) < Len(s) => Unique(w)
    PROVE  Unique(s)
<1> SUFFICES ASSUME NEW u \in Seq(Byte), NEW a \in Nat, NEW b \in Nat, NEW c \in Nat,
                    ValidJSON[s], ValidJSON[u], Continues(s, u),
                    Solid(s, a, b), Solid(u, a, c), b < c, u[a] # "a"
             PROVE  FALSE
  BY DEF Unique
<1>1. /\ Len(s) \in Nat /\ Len(u) \in Nat /\ Len(s) <= Len(u)
      /\ \A i \in 1..Len(s) : u[i] = s[i]
  BY DEF Continues
<1>2. /\ a \in 1..Len(s) /\ b \in a..Len(s) /\ b \in 1..Len(s) /\ c \in a..Len(u)
      /\ \A i \in a..b : i \in 1..Len(s)
  BY <1>1 DEF Solid
<1>3. u[a] = s[a] /\ u[b] = s[b] /\ \A i \in a..b : u[i] = s[i]
  BY <1>1, <1>2
<1>4. Shape(s, a, b) /\ Shape(u, a, c)
  BY JSONShape
<1>5. u[a] \in {"quote", "{", "["}
  <2>1. s[a] \in {"a", "quote", "{", "["}
    BY <1>1, <1>2, <1>4, FirstOfValue
  <2>2. QED
    BY <1>3, <2>1
<1>6. a \in a..b /\ a \in a..c
  BY <1>1, <1>2
<1>7. CASE u[a] = "quote"
  <2>1. ValidJSONString(SubSeq(s, a, b)) /\ ValidJSONString(SubSeq(u, a, c))
    BY <1>3, <1>4, <1>6, <1>7 DEF Shape
  <2>2. 1 <= a /\ a <= b /\ b <= Len(s) /\ c <= Len(u)
    BY <1>1, <1>2
  <2>3. QED
    BY <1>3, <2>1, <2>2, StringEnds
<1>8. ASSUME u[a] \in {"{", "["} PROVE a < b /\ b \in (a + 1)..(c - 1)
  <2>1. a < b
    BY <1>3, <1>4, <1>6, <1>8 DEF Shape
  <2>2. QED
    BY <1>1, <1>2, <2>1
<1>9. CASE u[a] = "{"
  <2>1. u[b] = "}"
    BY <1>3, <1>4, <1>6, <1>9 DEF Shape
  <2>2. \A i \in (a + 1)..(c - 1) : u[i] \in Space
    BY <1>4, <1>6, <1>9 DEF Shape
  <2>3. QED
    BY <1>8, <1>9, <2>1, <2>2 DEF Space
<1>10. CASE u[a] = "["
  <2> DEFINE v == Within(u, a, c)
             w == Within(s, a, b)
             e == b - a
  <2>1. s[b] = "]" /\ u[b] = "]" /\ b \in (a + 1)..(c - 1) /\ a < b
    BY <1>3, <1>4, <1>6, <1>8, <1>10 DEF Shape
  <2>2. ValidJSON[v]
    <3>1. \/ \A i \in (a + 1)..(c - 1) : u[i] \in Space
          \/ ValidJSON[v]
      BY <1>4, <1>6, <1>10 DEF Shape
    <3>2. QED
      BY <2>1, <3>1 DEF Space
  <2>3. \/ \A i \in (a + 1)..(b - 1) : s[i] \in Space
        \/ ValidJSON[w]
    BY <1>3, <1>4, <1>6, <1>10 DEF Shape
  <2>4. /\ v \in Seq(Byte) /\ Len(v) = c - a - 1
        /\ \A i \in 1..(c - a - 1) : v[i] = u[a + i]
    <3>1. a \in 1..Len(u) /\ c \in (a + 1)..Len(u)
      BY <1>1, <1>2
    <3>2. QED
      BY <3>1, WithinIs
  <2>5. /\ w \in Seq(Byte) /\ Len(w) = b - a - 1
        /\ \A i \in 1..(b - a - 1) : w[i] = s[a + i]
    <3>1. a \in 1..Len(s) /\ b \in (a + 1)..Len(s)
      BY <1>1, <1>2, <2>1
    <3>2. QED
      BY <3>1, WithinIs
  <2> HIDE DEF v, w
  <2>6. e \in 1..(c - a - 1) /\ a + e = b /\ e \in Nat /\ b - a - 1 = e - 1
        /\ e - 1 <= c - a - 1 /\ c - a - 1 \in Nat
    BY <1>1, <1>2, <2>1
  <2>7. v[e] = "]" /\ v[e] \notin Space
    BY <2>1, <2>4, <2>6 DEF Space
  <2>8. PICK d, f \in Nat : Solid(v, d, f)
    BY <2>2, <2>4, JSONIsSolid
  <2>9. d \in 1..Len(v) /\ f \in d..Len(v) /\ d <= e /\ e <= f
    BY <2>4, <2>6, <2>7, <2>8 DEF Solid
  <2>10. Shape(v, d, f)
    BY <2>2, <2>4, <2>8, JSONShape
  <2>11. v[d] \in {"a", "quote", "{", "["}
    BY <2>4, <2>6, <2>9, <2>10, FirstOfValue
  <2> HIDE DEF e
  <2>12. d < e
    <3>1. d # e
      BY <2>7, <2>11
    <3>2. QED
      BY <2>4, <2>6, <2>9, <3>1
  <2>13. CASE \A i \in (a + 1)..(b - 1) : s[i] \in Space
    <3>1. a + d \in (a + 1)..(b - 1) /\ d \in 1..(c - a - 1)
      BY <2>6, <2>9, <2>12
    <3>2. u[a + d] = s[a + d]
      BY <1>1, <1>2, <1>3, <3>1
    <3>3. v[d] \in Space
      BY <2>4, <2>13, <3>1, <3>2
    <3>4. QED
      BY <2>11, <3>3 DEF Space
  <2>14. CASE ValidJSON[w]
    <3>1. Continues(w, v)
      <4>1. ASSUME NEW i \in 1..Len(w) PROVE v[i] = w[i]
        <5>1. i \in 1..(b - a - 1) /\ i \in 1..(c - a - 1) /\ a + i \in a..b
          BY <2>5, <2>6, <4>1
        <5>2. QED
          BY <1>3, <2>4, <2>5, <5>1
      <4>2. QED
        BY <2>4, <2>5, <2>6, <4>1 DEF Continues
    <3>2. PICK g, h \in Nat : Solid(w, g, h)
      BY <2>5, <2>14, JSONIsSolid
    <3>3. g = d
      BY <2>4, <2>5, <2>8, <3>1, <3>2, SameFirst
    <3>4. h <= Len(w)
      BY <2>5, <3>2 DEF Solid
    <3>5. h < f
      BY <2>5, <2>6, <2>9, <3>4
    <3>6. Unique(w)
      <4>1. Len(w) < Len(s)
        BY <1>1, <1>2, <2>5
      <4>2. QED
        BY <2>5, <4>1
    <3>7. v[d] = "a"
      BY <2>2, <2>4, <2>5, <2>8, <2>14, <3>1, <3>2, <3>3, <3>5, <3>6 DEF Unique
    <3>8. d \in d..f
      BY <2>9
    <3>9. \A i \in d..f : v[i] = "a"
      BY <2>10, <3>7, <3>8 DEF Shape
    <3>10. e \in d..f
      BY <2>6, <2>9
    <3>11. QED
      BY <2>7, <3>9, <3>10
  <2>15. QED
    BY <2>3, <2>13, <2>14
<1>11. QED
  BY <1>5, <1>7, <1>9, <1>10

LEMMA AllUnique == \A s \in Seq(Byte) : Unique(s)
<1> SUFFICES ASSUME NEW s \in Seq(Byte) PROVE Unique(s)
  OBVIOUS
<1> DEFINE T == {m \in Nat : \A w \in Seq(Byte) : Len(w) <= m => Unique(w)}
<1>1. 0 \in T
  <2>1. ASSUME NEW w \in Seq(Byte), Len(w) <= 0 PROVE Unique(w)
    <3>1. \A v \in Seq(Byte) : ~(Len(v) < Len(w))
      BY <2>1
    <3>2. QED
      BY <3>1, UniqueStep
  <2>2. QED
    BY <2>1
<1>2. ASSUME NEW m \in Nat, m \in T PROVE m + 1 \in T
  <2>1. ASSUME NEW w \in Seq(Byte), Len(w) <= m + 1 PROVE Unique(w)
    <3>1. ASSUME NEW v \in Seq(Byte), Len(v) < Len(w) PROVE Unique(v)
      <4>1. Len(v) <= m
        BY <2>1, <3>1
      <4>2. QED
        BY <1>2, <4>1
    <3>2. QED
      BY <3>1, UniqueStep
  <2>2. QED
    BY <2>1
<1>3. Len(s) \in Nat
  OBVIOUS
<1>4. Len(s) \in T
  <2> DEFINE n == Len(s)
  <2> HIDE DEF T, n
  <2>1. n \in Nat /\ \A m \in 0..(n - 1) : m \in T => m + 1 \in T
    BY <1>2, <1>3 DEF n
  <2>2. \A m \in 0..n : m \in T
    BY <1>1, <2>1, Climb
  <2>3. QED
    BY <2>1, <2>2 DEF n
<1>5. QED
  BY <1>3, <1>4

\* A JSON value that a unit may hold.
Structural(s) == ValidJSON[s] /\ Trimmed(s)[1] \in {"{", "["}

LEMMA FirstTrimmed ==
    ASSUME NEW s \in Seq(Byte), NEW a, NEW b, Solid(s, a, b)
    PROVE  Trimmed(s)[1] = s[a]
<1>1. \A i \in 1..(b - a + 1) : Trimmed(s)[i] = s[a - 1 + i]
  BY TrimmedIs
<1>2. 1 \in 1..(b - a + 1) /\ a - 1 + 1 = a
  BY DEF Solid
<1>3. QED
  BY <1>1, <1>2

LEMMA OneEnd ==
    ASSUME NEW s \in Seq(Byte), NEW u \in Seq(Byte), Continues(s, u),
           Structural(s), Structural(u)
    PROVE  \E a, b \in Nat : Solid(s, a, b) /\ Solid(u, a, b) /\ s[a] \in {"{", "["}
<1>1. PICK a, b \in Nat : Solid(s, a, b)
  BY JSONIsSolid DEF Structural
<1>2. PICK d, c \in Nat : Solid(u, d, c)
  BY JSONIsSolid DEF Structural
<1>3. d = a /\ b <= c
  BY <1>1, <1>2, SameFirst
<1>4. u[a] \in {"{", "["} /\ s[a] \in {"{", "["}
  <2>1. Trimmed(s)[1] = s[a]
    BY <1>1, FirstTrimmed
  <2>2. Trimmed(u)[1] = u[a]
    BY <1>2, <1>3, FirstTrimmed
  <2>3. QED
    BY <2>1, <2>2 DEF Structural
<1>5. ~(b < c)
  BY <1>1, <1>2, <1>3, <1>4, AllUnique DEF Unique, Structural
<1>6. b = c
  BY <1>3, <1>5
<1>7. QED
  BY <1>1, <1>2, <1>3, <1>4, <1>6

\* The value at the start of s ends after n bytes: the space after it is its own.
EndsAfter(s, n) ==
    /\ n \in 1..Len(s) /\ Structural(SubSeq(s, 1, n))
    /\ n < Len(s) => s[n + 1] \notin Space

LEMMA ValueEndIs ==
    ASSUME NEW s \in Seq(Byte), NEW n, EndsAfter(s, n)
    PROVE  ValueEnd(s) = n
<1> DEFINE x    == SubSeq(s, 1, n)
           ends == {e \in 1..Len(s) : Structural(SubSeq(s, 1, e))}
<1>1. Len(s) \in Nat /\ n \in 1..Len(s) /\ Structural(x)
  BY DEF EndsAfter
<1>2. x \in Seq(Byte) /\ Len(x) = n /\ \A i \in 1..n : x[i] = s[i]
  BY <1>1, CutAt
<1>3. ASSUME NEW e \in ends PROVE e <= n
  <2> DEFINE y == SubSeq(s, 1, e)
  <2>1. SUFFICES ASSUME n < e PROVE FALSE
    BY <1>1
  <2>2. e \in 1..Len(s) /\ Structural(y)
    BY <1>3
  <2>3. y \in Seq(Byte) /\ Len(y) = e /\ \A i \in 1..e : y[i] = s[i]
    BY <1>1, <2>2, CutAt
  <2> HIDE DEF x, y, ends
  <2>4. Continues(x, y)
    BY <1>1, <1>2, <2>1, <2>2, <2>3 DEF Continues
  <2>5. PICK a, b \in Nat : Solid(x, a, b) /\ Solid(y, a, b)
    BY <1>1, <1>2, <2>2, <2>3, <2>4, OneEnd
  <2>6. b <= n
    BY <1>1, <1>2, <2>5 DEF Solid
  <2>7. n + 1 \in 1..e /\ n + 1 > b /\ n < Len(s)
    BY <1>1, <2>1, <2>2, <2>6
  <2>8. y[n + 1] \in Space
    BY <2>3, <2>5, <2>7 DEF Solid
  <2>9. QED
    BY <2>3, <2>7, <2>8 DEF EndsAfter
<1>4. n \in ends /\ ends \in SUBSET Int
  BY <1>1
<1>5. ValueEnd(s) = IF ends = {} THEN 0 ELSE Max(ends)
  <2>1. DOMAIN s = 1..Len(s)
    OBVIOUS
  <2>2. ends = {e \in DOMAIN s : LET t == SubSeq(s, 1, e)
                                 IN  ValidJSON[t] /\ Trimmed(t)[1] \in {"{", "["}}
    BY <2>1 DEF Structural
  <2> HIDE DEF ends
  <2>3. QED
    BY <2>2 DEF ValueEnd
<1> HIDE DEF ends
<1>6. Max(ends) = n
  BY <1>3, <1>4, MaxIs
<1>7. QED
  BY <1>4, <1>5, <1>6

\* Adding to s what follows it does not move that end.
LEMMA EndStays ==
    ASSUME NEW s \in Seq(Byte), NEW t \in Seq(Byte), NEW n, EndsAfter(s, n), n < Len(s)
    PROVE  EndsAfter(s \o t, n) /\ n < Len(s \o t)
<1> DEFINE u == s \o t
<1>1. /\ u \in Seq(Byte) /\ Len(u) = Len(s) + Len(t) /\ Len(s) \in Nat /\ Len(t) \in Nat
      /\ \A i \in 1..Len(s) : u[i] = s[i]
  BY ConcatProperties
<1>2. n \in 1..Len(s) /\ n + 1 \in 1..Len(s) /\ 1 \in 1..Len(s)
  BY <1>1 DEF EndsAfter
<1>3. SubSeq(u, 1, n) = SubSeq(s, 1, n)
  BY <1>2, SubSeqOfConcat1
<1> HIDE DEF u
<1>4. n \in 1..Len(u) /\ n < Len(u) /\ u[n + 1] = s[n + 1]
  BY <1>1, <1>2
<1>5. QED
  BY <1>3, <1>4 DEF EndsAfter, u

-----------------------------------------------------------------------------
(* The scanner of JSON frames, against the grammar: it accepts every byte  *)
(* of a value and notices its last bracket.                                *)

\* What a round of frameScanner.json's loop makes of the next byte.
ScanNext(f, c) ==
    LET g == [f EXCEPT !.offset = @ + 1]
    IN  IF g.complete \/ (~g.started /\ c \in Space) THEN g
        ELSE ScanJSONByte([g EXCEPT !.started = TRUE], c)

\* Outside strings, with d objects and r arrays open.
At0(f, d, r) ==
    /\ ~f.complete /\ ~f.inString /\ ~f.escape
    /\ d \in Nat /\ r \in Nat /\ f.objects = d /\ f.arrays = r

Open(f, d, r) == At0(f, d, r) /\ f.started /\ d + r >= 1

InText(f, d, r) ==
    /\ ~f.complete /\ f.inString /\ f.started
    /\ d \in Nat /\ r \in Nat /\ f.objects = d /\ f.arrays = r /\ d + r >= 1

\* What a byte does to the two depths.
Objects(c) == IF c = "{" THEN 1 ELSE IF c = "}" THEN -1 ELSE 0
Arrays(c)  == IF c = "[" THEN 1 ELSE IF c = "]" THEN -1 ELSE 0

LEMMA ChangeIs ==
    ASSUME NEW c
    PROVE  /\ Objects(c) \in Int /\ Arrays(c) \in Int
           /\ c = "{" => Objects(c) = 1 /\ Arrays(c) = 0
           /\ c = "}" => Objects(c) = -1 /\ Arrays(c) = 0
           /\ c = "[" => Objects(c) = 0 /\ Arrays(c) = 1
           /\ c = "]" => Objects(c) = 0 /\ Arrays(c) = -1
           /\ c \notin {"{", "}", "[", "]"} => Objects(c) = 0 /\ Arrays(c) = 0
<1>1. Objects(c) \in {1, -1, 0} /\ Arrays(c) \in {1, -1, 0}
  BY DEF Objects, Arrays
<1>2. Objects(c) \in Int /\ Arrays(c) \in Int
  <2> DEFINE x == Objects(c)
             y == Arrays(c)
  <2>1. x \in {1, -1, 0} /\ y \in {1, -1, 0}
    BY <1>1
  <2> HIDE DEF x, y
  <2>2. x \in Int /\ y \in Int
    BY <2>1
  <2>3. QED
    BY <2>2 DEF x, y
<1>3. /\ c = "{" => Objects(c) = 1 /\ Arrays(c) = 0
      /\ c = "}" => Objects(c) = -1 /\ Arrays(c) = 0
      /\ c = "[" => Objects(c) = 0 /\ Arrays(c) = 1
      /\ c = "]" => Objects(c) = 0 /\ Arrays(c) = -1
      /\ c \notin {"{", "}", "[", "]"} => Objects(c) = 0 /\ Arrays(c) = 0
  BY DEF Objects, Arrays
<1>4. QED
  BY <1>2, <1>3

LEMMA ScanOutsideIs ==
    ASSUME NEW f \in Framer, NEW c
    PROVE  /\ ScanOutside(f, c) \in Framer /\ ScanOutside(f, c).offset = f.offset
           /\ ScanOutside(f, c).started = f.started
           /\ ScanOutside(f, c).escape = f.escape
           /\ ScanOutside(f, c).inString <=> c = "quote"
           /\ ScanOutside(f, c).objects = f.objects + Objects(c)
           /\ ScanOutside(f, c).arrays = f.arrays + Arrays(c)
           /\ ScanOutside(f, c).complete <=>
                 ScanOutside(f, c).objects = 0 /\ ScanOutside(f, c).arrays = 0
<1> DEFINE d == f.objects + Objects(c)
           r == f.arrays + Arrays(c)
           q == (c = "quote")
           g == [f EXCEPT !.inString = q, !.objects = d, !.arrays = r]
           e == (g.objects = 0 /\ g.arrays = 0)
           h == [g EXCEPT !.complete = e]
<1>1. h = ScanOutside(f, c)
  BY DEF ScanOutside, Objects, Arrays
<1>2. f.objects \in Int /\ f.arrays \in Int
  BY DEF Framer
<1>3. d \in Int /\ r \in Int /\ q \in BOOLEAN
  <2> DEFINE x == Objects(c)
             y == Arrays(c)
  <2>1. x \in Int /\ y \in Int
    BY ChangeIs
  <2> HIDE DEF x, y, q
  <2>2. f.objects + x \in Int /\ f.arrays + y \in Int
    BY <1>2, <2>1
  <2>3. q \in BOOLEAN
    BY DEF q
  <2>4. QED
    BY <2>2, <2>3 DEF x, y
<1> HIDE DEF d, r, q
<1>4. /\ g \in Framer /\ g.offset = f.offset /\ g.started = f.started /\ g.escape = f.escape
      /\ g.inString = q /\ g.objects = d /\ g.arrays = r
  BY <1>3 DEF Framer
<1>5. e \in BOOLEAN
  OBVIOUS
<1> HIDE DEF g
<1>6. /\ h.objects = g.objects /\ h.arrays = g.arrays /\ h.offset = g.offset
      /\ h.started = g.started /\ h.escape = g.escape /\ h.inString = g.inString
      /\ h.complete = e /\ h \in Framer
  <2> HIDE DEF e
  <2>1. QED
    BY <1>4, <1>5 DEF Framer
<1> HIDE DEF h
<1>7. h.complete <=> h.objects = 0 /\ h.arrays = 0
  BY <1>6
<1>8. h.inString <=> c = "quote"
  BY <1>4, <1>6 DEF q
<1>9. h.objects = d /\ h.arrays = r
  BY <1>4, <1>6
<1>10. /\ h.objects = f.objects + Objects(c)
       /\ h.arrays = f.arrays + Arrays(c)
  BY <1>9 DEF d, r
<1>11. h \in Framer /\ h.offset = f.offset /\ h.started = f.started /\ h.escape = f.escape
  BY <1>4, <1>6
<1>12. QED
  BY ONLY <1>1, <1>7, <1>8, <1>10, <1>11, Zenon

LEMMA ScanInStringIs ==
    ASSUME NEW f \in Framer, NEW c
    PROVE  /\ ScanInString(f, c) \in Framer /\ ScanInString(f, c).offset = f.offset
           /\ ScanInString(f, c).started = f.started
           /\ ScanInString(f, c).complete = f.complete
           /\ ScanInString(f, c).objects = f.objects /\ ScanInString(f, c).arrays = f.arrays
           /\ ScanInString(f, c).escape <=> ~f.escape /\ c = "bslash"
           /\ f.inString => (ScanInString(f, c).inString <=> f.escape \/ c # "quote")
<1>1. CASE f.escape
  BY <1>1 DEF ScanInString, Framer
<1>2. CASE ~f.escape
  <2> DEFINE x == (c = "bslash")
             y == (c # "quote")
             g == [f EXCEPT !.escape = x, !.inString = y]
  <2>1. ScanInString(f, c) = g /\ x \in BOOLEAN /\ y \in BOOLEAN
    BY <1>2 DEF ScanInString
  <2> HIDE DEF x, y
  <2>2. /\ g \in Framer /\ g.offset = f.offset /\ g.started = f.started
        /\ g.complete = f.complete /\ g.objects = f.objects /\ g.arrays = f.arrays
        /\ g.escape = x /\ g.inString = y
    BY <2>1 DEF Framer
  <2> HIDE DEF g
  <2>3. (g.escape <=> c = "bslash") /\ (g.inString <=> c # "quote")
    BY <2>2 DEF x, y
  <2>4. QED
    BY <1>2, <2>1, <2>2, <2>3
<1>3. QED
  BY <1>1, <1>2

LEMMA ScanSkips ==
    ASSUME NEW f \in Framer, NEW c, f.complete \/ (~f.started /\ c \in Space)
    PROVE  LET g == ScanNext(f, c)
           IN  /\ g \in Framer /\ g.offset = f.offset + 1 /\ g.objects = f.objects
               /\ g.arrays = f.arrays /\ g.started = f.started /\ g.inString = f.inString
               /\ g.escape = f.escape /\ g.complete = f.complete
<1> DEFINE g == [f EXCEPT !.offset = @ + 1]
<1>1. /\ g \in Framer /\ g.offset = f.offset + 1 /\ g.objects = f.objects
      /\ g.arrays = f.arrays /\ g.started = f.started /\ g.inString = f.inString
      /\ g.escape = f.escape /\ g.complete = f.complete
  BY DEF Framer
<1>2. ScanNext(f, c) = IF g.complete \/ (~g.started /\ c \in Space) THEN g
                       ELSE ScanJSONByte([g EXCEPT !.started = TRUE], c)
  BY DEF ScanNext
<1> HIDE DEF g
<1>3. QED
  BY <1>1, <1>2

LEMMA ScanScans ==
    ASSUME NEW f \in Framer, NEW c, ~f.complete, f.started \/ c \notin Space
    PROVE  \E g \in Framer :
              /\ g.offset = f.offset + 1 /\ g.objects = f.objects
              /\ g.arrays = f.arrays /\ g.started /\ g.inString = f.inString
              /\ g.escape = f.escape /\ ~g.complete
              /\ ScanNext(f, c) = IF g.inString THEN ScanInString(g, c) ELSE ScanOutside(g, c)
<1> DEFINE h == [f EXCEPT !.offset = @ + 1]
           g == [h EXCEPT !.started = TRUE]
<1>1. /\ h \in Framer /\ h.offset = f.offset + 1 /\ h.objects = f.objects
      /\ h.arrays = f.arrays /\ h.started = f.started /\ h.inString = f.inString
      /\ h.escape = f.escape /\ h.complete = f.complete
  BY DEF Framer
<1>2. ScanNext(f, c) = IF h.complete \/ (~h.started /\ c \in Space) THEN h
                       ELSE ScanJSONByte(g, c)
  BY DEF ScanNext
<1> HIDE DEF h
<1>3. /\ g \in Framer /\ g.offset = h.offset /\ g.objects = h.objects
      /\ g.arrays = h.arrays /\ g.started /\ g.inString = h.inString
      /\ g.escape = h.escape /\ g.complete = h.complete
  BY <1>1 DEF Framer
<1> HIDE DEF g
<1>4. ScanNext(f, c) = ScanJSONByte(g, c)
  BY <1>1, <1>2
<1>5. QED
  BY <1>1, <1>3, <1>4 DEF ScanJSONByte

LEMMA ScanTyped ==
    ASSUME NEW f \in Framer, NEW c
    PROVE  ScanNext(f, c) \in Framer /\ ScanNext(f, c).offset = f.offset + 1
<1>1. CASE f.complete \/ (~f.started /\ c \in Space)
  BY <1>1, ScanSkips
<1>2. CASE ~f.complete /\ (f.started \/ c \notin Space)
  <2>1. PICK g \in Framer :
           /\ g.offset = f.offset + 1
           /\ ScanNext(f, c) = IF g.inString THEN ScanInString(g, c) ELSE ScanOutside(g, c)
    BY <1>2, ScanScans
  <2>2. /\ ScanInString(g, c) \in Framer /\ ScanInString(g, c).offset = g.offset
        /\ ScanOutside(g, c) \in Framer /\ ScanOutside(g, c).offset = g.offset
    BY ScanInStringIs, ScanOutsideIs, ZenonT(30)
  <2>3. QED
    BY <2>1, <2>2, Zenon
<1>3. QED
  BY <1>1, <1>2

LEMMA ScanOut ==
    ASSUME NEW f \in Framer, NEW c, ~f.complete, f.started \/ c \notin Space, ~f.inString
    PROVE  LET g == ScanNext(f, c)
           IN  /\ g.started /\ g.escape = f.escape /\ (g.inString <=> c = "quote")
               /\ g.objects = f.objects + Objects(c)
               /\ g.arrays = f.arrays + Arrays(c)
               /\ g.complete <=> g.objects = 0 /\ g.arrays = 0
<1>1. PICK g \in Framer :
         /\ g.objects = f.objects /\ g.arrays = f.arrays /\ g.started
         /\ g.inString = f.inString /\ g.escape = f.escape
         /\ ScanNext(f, c) = IF g.inString THEN ScanInString(g, c) ELSE ScanOutside(g, c)
  BY ScanScans
<1> DEFINE h == ScanOutside(g, c)
<1>2. /\ h.started = g.started /\ h.escape = g.escape /\ (h.inString <=> c = "quote")
      /\ h.objects = g.objects + Objects(c)
      /\ h.arrays = g.arrays + Arrays(c)
      /\ h.complete <=> h.objects = 0 /\ h.arrays = 0
  BY ScanOutsideIs
<1>3. ScanNext(f, c) = h
  BY <1>1
<1> HIDE DEF h
<1>4. QED
  BY <1>1, <1>2, <1>3, Zenon

LEMMA ScanIdle ==
    ASSUME NEW f \in Framer, NEW d, NEW r, Open(f, d, r), NEW c, c \in Space \/ c = "a"
    PROVE  Open(ScanNext(f, c), d, r) /\ ~Unopened(f, c)
<1>1. c \notin {"{", "}", "[", "]", "quote"}
  BY DEF Space
<1>2. ~f.complete /\ f.started /\ ~f.inString /\ ~f.escape
  BY DEF Open, At0
<1> DEFINE g == ScanNext(f, c)
           x == Objects(c)
           y == Arrays(c)
<1>3. /\ g.started /\ ~g.escape /\ ~g.inString
      /\ g.objects = f.objects + x /\ g.arrays = f.arrays + y
      /\ g.complete <=> g.objects = 0 /\ g.arrays = 0
  BY <1>1, <1>2, ScanOut
<1>4. x = 0 /\ y = 0
  BY <1>1, ChangeIs
<1> HIDE DEF g, x, y
<1>5. Open(g, d, r)
  BY <1>3, <1>4 DEF Open, At0
<1>6. QED
  BY <1>1, <1>5 DEF Unopened, g

LEMMA ScanOpens ==
    ASSUME NEW f \in Framer, NEW d, NEW r, At0(f, d, r), NEW c
    PROVE  /\ c = "{" => Open(ScanNext(f, c), d + 1, r) /\ ~Unopened(f, c)
           /\ c = "[" => Open(ScanNext(f, c), d, r + 1) /\ ~Unopened(f, c)
<1>1. SUFFICES ASSUME c \in {"{", "["}
               PROVE  /\ c = "{" => Open(ScanNext(f, c), d + 1, r)
                      /\ c = "[" => Open(ScanNext(f, c), d, r + 1)
  BY DEF Unopened
<1>2. c \notin {"}", "]", "quote"} /\ c \notin Space
  BY <1>1 DEF Space
<1>3. ~f.complete /\ ~f.inString /\ ~f.escape
  BY DEF At0
<1> DEFINE g == ScanNext(f, c)
           x == Objects(c)
           y == Arrays(c)
<1>4. /\ g.started /\ ~g.escape /\ ~g.inString
      /\ g.objects = f.objects + x /\ g.arrays = f.arrays + y
      /\ g.complete <=> g.objects = 0 /\ g.arrays = 0
  BY <1>2, <1>3, ScanOut
<1>5. (c = "{" => x = 1 /\ y = 0) /\ (c = "[" => x = 0 /\ y = 1)
  BY ChangeIs
<1> HIDE DEF g, x, y
<1>6. ASSUME x = 1, y = 0 PROVE Open(g, d + 1, r)
  BY <1>4, <1>6 DEF Open, At0
<1>7. ASSUME x = 0, y = 1 PROVE Open(g, d, r + 1)
  BY <1>4, <1>7 DEF Open, At0
<1>8. QED
  BY <1>5, <1>6, <1>7 DEF g

\* Out of d objects and r arrays, with no more open; the value is complete if
\* there are none.
Back(f, d, r) ==
    /\ f.started /\ ~f.inString /\ ~f.escape /\ f.objects = d /\ f.arrays = r
    /\ f.complete <=> d = 0 /\ r = 0

LEMMA ScanCloses ==
    ASSUME NEW f \in Framer, NEW d \in Nat, NEW r \in Nat, NEW c
    PROVE  /\ c = "}" /\ Open(f, d + 1, r) => Back(ScanNext(f, c), d, r) /\ ~Unopened(f, c)
           /\ c = "]" /\ Open(f, d, r + 1) => Back(ScanNext(f, c), d, r) /\ ~Unopened(f, c)
<1> DEFINE g == ScanNext(f, c)
           x == Objects(c)
           y == Arrays(c)
<1>1. ASSUME c \in {"}", "]"}, NEW e, NEW q, Open(f, e, q)
      PROVE  /\ g.started /\ ~g.escape /\ ~g.inString
             /\ g.objects = f.objects + x /\ g.arrays = f.arrays + y
             /\ g.complete <=> g.objects = 0 /\ g.arrays = 0
  <2>1. c # "quote" /\ c \notin Space
    BY <1>1 DEF Space
  <2>2. ~f.complete /\ ~f.inString /\ ~f.escape
    BY <1>1 DEF Open, At0
  <2>3. QED
    BY <2>1, <2>2, ScanOut
<1>2. (c = "}" => x = -1 /\ y = 0) /\ (c = "]" => x = 0 /\ y = -1)
  BY ChangeIs
<1> HIDE DEF g, x, y
<1>3. ASSUME c = "}", Open(f, d + 1, r) PROVE Back(g, d, r) /\ ~Unopened(f, c)
  <2>1. f.objects = d + 1 /\ f.arrays = r /\ x = -1 /\ y = 0
    BY <1>2, <1>3 DEF Open, At0
  <2>2. /\ g.started /\ ~g.escape /\ ~g.inString
        /\ g.objects = f.objects + x /\ g.arrays = f.arrays + y
        /\ g.complete <=> g.objects = 0 /\ g.arrays = 0
    BY <1>1, <1>3
  <2>3. g.objects = d /\ g.arrays = r /\ f.objects # 0
    BY <2>1, <2>2
  <2>4. Back(g, d, r)
    BY <2>2, <2>3 DEF Back
  <2>5. QED
    BY <1>3, <2>3, <2>4 DEF Unopened
<1>4. ASSUME c = "]", Open(f, d, r + 1) PROVE Back(g, d, r) /\ ~Unopened(f, c)
  <2>1. f.objects = d /\ f.arrays = r + 1 /\ x = 0 /\ y = -1
    BY <1>2, <1>4 DEF Open, At0
  <2>2. /\ g.started /\ ~g.escape /\ ~g.inString
        /\ g.objects = f.objects + x /\ g.arrays = f.arrays + y
        /\ g.complete <=> g.objects = 0 /\ g.arrays = 0
    BY <1>1, <1>4
  <2>3. g.objects = d /\ g.arrays = r /\ f.arrays # 0
    BY <2>1, <2>2
  <2>4. Back(g, d, r)
    BY <2>2, <2>3 DEF Back
  <2>5. QED
    BY <1>4, <2>3, <2>4 DEF Unopened
<1>5. QED
  BY <1>3, <1>4 DEF g

LEMMA ScanQuotes ==
    ASSUME NEW f \in Framer, NEW d, NEW r, Open(f, d, r)
    PROVE  /\ InText(ScanNext(f, "quote"), d, r) /\ ~ScanNext(f, "quote").escape
           /\ ~Unopened(f, "quote")
<1>1. ~f.complete /\ ~f.inString /\ f.started /\ ~f.escape
  BY DEF Open, At0
<1> DEFINE g == ScanNext(f, "quote")
           x == Objects("quote")
           y == Arrays("quote")
<1>2. /\ g.started /\ ~g.escape /\ g.inString
      /\ g.objects = f.objects + x /\ g.arrays = f.arrays + y
      /\ g.complete <=> g.objects = 0 /\ g.arrays = 0
  BY <1>1, ScanOut
<1>3. x = 0 /\ y = 0
  BY ChangeIs
<1> HIDE DEF g, x, y
<1>4. InText(g, d, r)
  BY <1>2, <1>3 DEF InText, Open, At0
<1>5. QED
  BY <1>1, <1>2, <1>4 DEF Unopened, g

LEMMA ScanIn ==
    ASSUME NEW f \in Framer, NEW d, NEW r, InText(f, d, r), NEW c
    PROVE  /\ ~Unopened(f, c)
           /\ f.escape \/ c # "quote" => InText(ScanNext(f, c), d, r)
           /\ (ScanNext(f, c).escape <=> ~f.escape /\ c = "bslash")
           /\ ~f.escape /\ c = "quote" => Open(ScanNext(f, c), d, r)
<1> DEFINE g == ScanNext(f, c)
<1>1. ~f.complete /\ f.inString /\ f.started
  BY DEF InText
<1>2. /\ g.started /\ ~g.complete /\ g.objects = f.objects /\ g.arrays = f.arrays
      /\ (g.escape <=> ~f.escape /\ c = "bslash")
      /\ (g.inString <=> f.escape \/ c # "quote")
  BY <1>1, ScanScans, ScanInStringIs
<1> HIDE DEF g
<1>3. f.escape \/ c # "quote" => InText(g, d, r)
  BY <1>2 DEF InText
<1>4. ASSUME ~f.escape, c = "quote" PROVE Open(g, d, r)
  <2>1. ~g.escape /\ ~g.inString
    BY <1>2, <1>4
  <2>2. QED
    BY <1>2, <2>1 DEF InText, Open, At0
<1>5. QED
  BY <1>1, <1>2, <1>3, <1>4 DEF Unopened, g

\* A backslash escapes what follows it unless it is itself escaped.
LEMMA EscapedNext ==
    ASSUME NEW y, NEW i \in Nat, i >= 2, y[1] # "bslash"
    PROVE  Escaped(y, i + 1) <=> ~Escaped(y, i) /\ y[i] = "bslash"
<1>1. ASSUME Escaped(y, i + 1) PROVE y[i] = "bslash" /\ ~Escaped(y, i)
  <2>1. PICK k \in 1..(i + 1 - 2) :
           /\ k % 2 = 1
           /\ \A j \in (i + 1 - k)..(i + 1 - 1) : y[j] = "bslash"
           /\ y[i + 1 - k - 1] # "bslash"
    BY <1>1 DEF Escaped
  <2>2. /\ k \in Nat /\ k >= 1 /\ k <= i - 1 /\ i + 1 - k - 1 = i - k
        /\ i \in (i + 1 - k)..(i + 1 - 1)
        /\ \A j \in Int : i + 1 - k <= j /\ j <= i => j \in (i + 1 - k)..(i + 1 - 1)
    OBVIOUS
  <2>3. y[i] = "bslash" /\ y[i - k] # "bslash"
        /\ \A j \in Int : i + 1 - k <= j /\ j <= i => y[j] = "bslash"
    BY <2>1, <2>2
  <2>4. SUFFICES ASSUME Escaped(y, i) PROVE FALSE
    BY <2>3
  <2>5. PICK h \in 1..(i - 2) :
           /\ h % 2 = 1
           /\ \A j \in (i - h)..(i - 1) : y[j] = "bslash"
           /\ y[i - h - 1] # "bslash"
    BY <2>4 DEF Escaped
  <2>6. h = k - 1
    <3>1. ~(h < k - 1)
      <4>1. SUFFICES ASSUME h < k - 1 PROVE FALSE
        OBVIOUS
      <4>2. i - h - 1 \in Int /\ i + 1 - k <= i - h - 1 /\ i - h - 1 <= i
        BY <2>2, <4>1
      <4>3. QED
        BY <2>3, <2>5, <4>2
    <3>2. ~(h > k - 1)
      <4>1. SUFFICES ASSUME h > k - 1 PROVE FALSE
        OBVIOUS
      <4>2. i - k \in (i - h)..(i - 1)
        BY <2>2, <4>1
      <4>3. QED
        BY <2>3, <2>5, <4>2
    <3>3. QED
      BY <2>2, <3>1, <3>2
  <2>7. (k - 1) % 2 = 1 /\ k % 2 = 1
    BY <2>1, <2>5, <2>6
  <2>8. QED
    BY <2>2, <2>7
<1>2. ASSUME y[i] = "bslash", ~Escaped(y, i) PROVE Escaped(y, i + 1)
  <2> DEFINE T == {j \in 1..(i - 1) : y[j] # "bslash"}
  <2>1. T # {} /\ T \in SUBSET (1..(i - 1)) /\ i - 1 \in Nat
    <3>1. 1 \in 1..(i - 1)
      OBVIOUS
    <3>2. QED
      BY <3>1
  <2>2. PICK e \in T : \A j \in T : j <= e
    <3> HIDE DEF T
    <3>1. QED
      BY <2>1, LastPosition
  <2>3. /\ e \in Nat /\ e >= 1 /\ e <= i - 1 /\ y[e] # "bslash"
        /\ \A j \in 1..(i - 1) : j > e => y[j] = "bslash"
    BY <2>2
  <2> DEFINE k == i - e
  <2>4. k \in 1..(i + 1 - 2) /\ i + 1 - k - 1 = e
    BY <2>3
  <2>5. \A j \in (i + 1 - k)..(i + 1 - 1) : y[j] = "bslash"
    <3>1. ASSUME NEW j \in (i + 1 - k)..(i + 1 - 1), j # i PROVE y[j] = "bslash"
      <4>1. j \in 1..(i - 1) /\ j > e
        BY <2>3, <3>1
      <4>2. QED
        BY <2>3, <4>1
    <3>2. QED
      BY <1>2, <3>1
  <2>6. k % 2 = 1
    <3>1. CASE k = 1
      BY <3>1
    <3>2. CASE k # 1
      <4> DEFINE h == k - 1
      <4>1. h \in 1..(i - 2) /\ i - h - 1 = e
        BY <2>3, <2>4, <3>2
      <4>2. \A j \in (i - h)..(i - 1) : y[j] = "bslash"
        <5>1. ASSUME NEW j \in (i - h)..(i - 1) PROVE j \in 1..(i - 1) /\ j > e
          BY <2>3
        <5>2. QED
          BY <2>3, <5>1
      <4>3. h % 2 # 1
        <5> HIDE DEF h
        <5>1. QED
          BY <1>2, <2>3, <4>1, <4>2 DEF Escaped
      <4>4. k \in Nat /\ (k - 1) % 2 # 1
        BY <2>4, <4>3
      <4> HIDE DEF k
      <4>5. QED
        BY <4>4
    <3>3. QED
      BY <3>1, <3>2
  <2> HIDE DEF k
  <2>7. QED
    BY <2>3, <2>4, <2>5, <2>6 DEF Escaped
<1>3. QED
  BY <1>1, <1>2

LEMMA EscapedFirst ==
    ASSUME NEW y
    PROVE  ~Escaped(y, 2)
BY DEF Escaped

\* The states tr of the scanner from position k on, over the bytes of s.
Run(tr, k, s) ==
    /\ k \in Nat
    /\ \A i \in 0..Len(s) : tr[k + i] \in Framer
    /\ \A i \in 1..Len(s) : tr[k + i] = ScanNext(tr[k + i - 1], s[i])

\* The scanner accepts the i-th byte and the value goes on.
Calm(tr, k, s, i) ==
    /\ tr[k + i - 1].started /\ ~tr[k + i].complete
    /\ ~Unopened(tr[k + i - 1], s[i])

LEMMA RunStep ==
    ASSUME NEW tr, NEW k, NEW s \in Seq(Byte), Run(tr, k, s),
           NEW i \in Nat, i < Len(s)
    PROVE  /\ tr[k + i] \in Framer /\ k + (i + 1) - 1 = k + i
           /\ tr[k + (i + 1)] = ScanNext(tr[k + i], s[i + 1])
<1>1. Len(s) \in Nat /\ i \in 0..Len(s) /\ i + 1 \in 1..Len(s)
  OBVIOUS
<1>2. tr[k + (i + 1)] = ScanNext(tr[k + (i + 1) - 1], s[i + 1]) /\ tr[k + i] \in Framer
  BY <1>1 DEF Run
<1>3. k + (i + 1) - 1 = k + i
  BY DEF Run
<1>4. QED
  BY <1>2, <1>3

\* Between brackets, space and digits change nothing.
LEMMA IdleRun ==
    ASSUME NEW tr, NEW k, NEW s \in Seq(Byte), Run(tr, k, s),
           NEW p \in Nat, NEW q \in Nat, p <= q, q <= Len(s),
           NEW d, NEW r, Open(tr[k + p], d, r),
           \A i \in (p + 1)..q : s[i] \in Space \/ s[i] = "a"
    PROVE  /\ Open(tr[k + q], d, r)
           /\ \A i \in (p + 1)..q : Calm(tr, k, s, i)
<1> DEFINE T == {m \in Nat : /\ Open(tr[k + (p + m)], d, r)
                             /\ \A i \in (p + 1)..(p + m) : Calm(tr, k, s, i)}
           n == q - p
<1>1. 0 \in T
  <2>1. p + 0 = p /\ (p + 1)..p = {}
    OBVIOUS
  <2>2. QED
    BY <2>1
<1>2. ASSUME NEW m \in 0..(n - 1), m \in T PROVE m + 1 \in T
  <2> DEFINE e == p + m
             f == tr[k + e]
             g == tr[k + (e + 1)]
  <2>1. e \in Nat /\ e < Len(s) /\ e + 1 \in (p + 1)..q /\ m + 1 \in Nat
    OBVIOUS
  <2>2. f \in Framer /\ k + (e + 1) - 1 = k + e /\ g = ScanNext(f, s[e + 1])
    BY <2>1, RunStep
  <2>3. Open(f, d, r) /\ \A i \in (p + 1)..e : Calm(tr, k, s, i)
    BY <1>2
  <2>4. Open(g, d, r) /\ ~Unopened(f, s[e + 1])
    <3> HIDE DEF e, f, g
    <3>1. s[e + 1] \in Space \/ s[e + 1] = "a"
      BY <2>1
    <3>2. QED
      BY <2>2, <2>3, <3>1, ScanIdle
  <2>5. Calm(tr, k, s, e + 1)
    <3> HIDE DEF e
    <3>1. tr[k + (e + 1) - 1] = f
      BY <2>2
    <3>2. QED
      BY <2>3, <2>4, <3>1 DEF Calm, Open, At0
  <2>6. \A i \in (p + 1)..(e + 1) : i \in (p + 1)..e \/ i = e + 1
    BY <2>1
  <2>7. p + (m + 1) = e + 1
    OBVIOUS
  <2> HIDE DEF e
  <2>8. QED
    BY <2>1, <2>3, <2>4, <2>5, <2>6, <2>7
<1>3. n \in Nat /\ p + n = q /\ n \in 0..n
  OBVIOUS
<1>4. n \in T
  <2> HIDE DEF T, n
  <2>1. \A m \in 0..n : m \in T
    BY <1>1, <1>2, <1>3, Climb
  <2>2. QED
    BY <1>3, <2>1
<1> HIDE DEF n
<1>5. QED
  BY <1>3, <1>4

\* A string is read to its end, and no further.
LEMMA StringRun ==
    ASSUME NEW tr, NEW k, NEW s \in Seq(Byte), Run(tr, k, s),
           NEW p \in Nat, NEW q \in Nat, p < q, q <= Len(s),
           NEW d, NEW r, Open(tr[k + p], d, r),
           ValidJSONString(SubSeq(s, p + 1, q))
    PROVE  /\ Open(tr[k + q], d, r)
           /\ \A i \in (p + 1)..q : Calm(tr, k, s, i)
<1> DEFINE y == SubSeq(s, p + 1, q)
           n == q - p - 2
           e(m) == p + 1 + m
           T == {m \in Nat : /\ InText(tr[k + e(m)], d, r)
                             /\ tr[k + e(m)].escape <=> Escaped(y, m + 2)
                             /\ \A i \in (p + 1)..e(m) : Calm(tr, k, s, i)}
<1>1. Len(y) = q - p /\ \A i \in 1..(q - p) : y[i] = s[p + i]
  <2>1. \A i \in (p + 1)..q : s[i] \in Byte
    OBVIOUS
  <2>2. p + 1 \in Int /\ p + 1 <= q /\ q - (p + 1) + 1 = q - p
        /\ \A i \in 1..(q - p) : p + 1 + i - 1 = p + i
    OBVIOUS
  <2>3. QED
    BY <2>1, <2>2, SubSeqProperties
<1>2. /\ Len(y) >= 2 /\ y[1] = "quote" /\ y[Len(y)] = "quote" /\ ~Escaped(y, Len(y))
      /\ \A i \in 2..(Len(y) - 1) :
            IF Escaped(y, i) THEN y[i] \in {"quote", "bslash"}
            ELSE y[i] \notin {"quote", "nl"}
  BY DEF ValidJSONString
<1> HIDE DEF y
<1>3. /\ n \in Nat /\ Len(s) \in Nat /\ q = p + n + 2 /\ Len(y) = n + 2
      /\ y[1] = s[p + 1] /\ \A m \in 0..n : y[m + 2] = s[e(m) + 1]
  <2>1. q - p >= 2 /\ q - p \in Nat
    BY <1>1, <1>2
  <2>2. 1 \in 1..(q - p) /\ \A m \in 0..n : m + 2 \in 1..(q - p) /\ p + (m + 2) = e(m) + 1
    BY <2>1
  <2>3. n \in Nat /\ Len(s) \in Nat /\ q = p + n + 2 /\ q - p = n + 2
    BY <2>1
  <2> HIDE DEF e, n
  <2>4. y[1] = s[p + 1] /\ \A m \in 0..n : y[m + 2] = s[e(m) + 1]
    BY <1>1, <2>2
  <2>5. QED
    BY <1>1, <2>3, <2>4
<1>4. 0 \in T
  <2> DEFINE f == tr[k + p]
             g == tr[k + (p + 1)]
  <2>1. f \in Framer /\ k + (p + 1) - 1 = k + p /\ g = ScanNext(f, "quote")
    <3>1. p < Len(s)
      BY <1>3
    <3>2. QED
      BY <1>2, <1>3, <3>1, RunStep
  <2>2. InText(g, d, r) /\ ~g.escape /\ ~Unopened(f, "quote")
    <3> HIDE DEF f, g
    <3>1. Open(f, d, r)
      BY DEF f
    <3>2. QED
      BY <2>1, <3>1, ScanQuotes
  <2>3. Calm(tr, k, s, p + 1)
    <3>1. tr[k + (p + 1) - 1] = f /\ s[p + 1] = "quote"
      BY <1>2, <1>3, <2>1
    <3>2. f.started /\ ~g.complete
      BY <2>2 DEF Open, InText
    <3>3. QED
      BY <2>2, <3>1, <3>2 DEF Calm
  <2>4. ~Escaped(y, 0 + 2) /\ e(0) = p + 1 /\ 0 \in Nat /\ (p + 1)..(p + 1) = {p + 1}
    <3>1. 0 + 2 = 2 /\ e(0) = p + 1 /\ (p + 1)..(p + 1) = {p + 1}
      OBVIOUS
    <3>2. QED
      BY <3>1, EscapedFirst
  <2> HIDE DEF e
  <2>5. QED
    BY <2>2, <2>3, <2>4
<1>5. ASSUME NEW m \in 0..(n - 1), m \in T PROVE m + 1 \in T
  <2> DEFINE f == tr[k + e(m)]
             g == tr[k + (e(m) + 1)]
             c == s[e(m) + 1]
  <2>1. /\ e(m) \in Nat /\ e(m) < Len(s) /\ e(m + 1) = e(m) + 1 /\ m + 1 \in Nat
        /\ m + 2 \in Nat /\ m + 2 >= 2 /\ (m + 1) + 2 = (m + 2) + 1
        /\ m \in 0..n /\ m + 2 \in 2..(Len(y) - 1)
        /\ \A i \in (p + 1)..(e(m) + 1) : i \in (p + 1)..e(m) \/ i = e(m) + 1
    <3> DEFINE h == Len(y)
    <3>1. h = n + 2 /\ n \in Nat /\ q = p + n + 2 /\ Len(s) \in Nat /\ m \in 0..(n - 1)
          /\ q <= Len(s)
      BY <1>3
    <3> HIDE DEF h, n
    <3>2. m \in Nat /\ m <= n - 1
      BY <3>1
    <3>3. m + 2 \in 2..(h - 1) /\ e(m) \in Nat /\ e(m) < Len(s)
      BY <3>1, <3>2
    <3>4. QED
      BY <3>1, <3>2, <3>3 DEF h
  <2>2. f \in Framer /\ k + (e(m) + 1) - 1 = k + e(m) /\ g = ScanNext(f, c)
    <3> HIDE DEF e
    <3>1. QED
      BY <2>1, RunStep
  <2>3. /\ InText(f, d, r) /\ \A i \in (p + 1)..e(m) : Calm(tr, k, s, i)
        /\ f.escape <=> Escaped(y, m + 2)
    BY <1>5
  <2>4. y[m + 2] = c
    <3> HIDE DEF e
    <3>1. QED
      BY <1>3, <2>1
  <2>5. IF Escaped(y, m + 2) THEN c \in {"quote", "bslash"} ELSE c \notin {"quote", "nl"}
    BY <1>2, <2>1, <2>4
  <2>6. f.escape \/ c # "quote"
    BY <2>3, <2>5
  <2>7. /\ InText(g, d, r) /\ ~Unopened(f, c)
        /\ g.escape <=> ~f.escape /\ c = "bslash"
    <3> HIDE DEF e, f, g, c
    <3>1. QED
      BY <2>2, <2>3, <2>6, ScanIn
  <2>8. Escaped(y, (m + 2) + 1) <=> ~Escaped(y, m + 2) /\ c = "bslash"
    <3>1. y[1] # "bslash"
      BY <1>2
    <3> DEFINE i == m + 2
    <3> HIDE DEF c, i
    <3>2. i \in Nat /\ i >= 2
      BY <2>1 DEF i
    <3>3. Escaped(y, i + 1) <=> ~Escaped(y, i) /\ y[i] = "bslash"
      BY <3>1, <3>2, EscapedNext
    <3>4. QED
      BY <2>4, <3>3 DEF i
  <2>9. Calm(tr, k, s, e(m) + 1)
    <3> HIDE DEF e
    <3>1. tr[k + (e(m) + 1) - 1] = f
      BY <2>2
    <3>2. f.started /\ ~g.complete
      BY <2>3, <2>7 DEF InText
    <3>3. QED
      BY <2>7, <3>1, <3>2 DEF Calm
  <2>10. g.escape <=> Escaped(y, (m + 1) + 2)
    <3> HIDE DEF e, f, g, c
    <3>1. QED
      BY <2>1, <2>3, <2>7, <2>8
  <2>11. \A i \in (p + 1)..(e(m) + 1) : Calm(tr, k, s, i)
    <3> HIDE DEF e
    <3>1. QED
      BY <2>1, <2>3, <2>9
  <2> HIDE DEF e
  <2>12. QED
    BY <2>1, <2>7, <2>10, <2>11
<1>6. n \in T
  <2> HIDE DEF T, n
  <2>1. \A m \in 0..n : m \in T
    BY <1>3, <1>4, <1>5, Climb
  <2>2. n \in 0..n
    BY <1>3
  <2>3. QED
    BY <2>1, <2>2
<1> DEFINE b == e(n)
           f == tr[k + b]
           g == tr[k + (b + 1)]
<1>7. b \in Nat /\ b + 1 = q /\ b < Len(s) /\ n \in 0..n
      /\ \A i \in (p + 1)..q : i \in (p + 1)..b \/ i = b + 1
  BY <1>3
<1>8. /\ InText(f, d, r)
      /\ f.escape <=> Escaped(y, n + 2)
      /\ \A i \in (p + 1)..b : Calm(tr, k, s, i)
  BY <1>6
<1> HIDE DEF b, T, n, e
<1>9. f \in Framer /\ k + (b + 1) - 1 = k + b /\ g = ScanNext(f, s[b + 1])
  BY <1>7, RunStep
<1>10. s[b + 1] = "quote" /\ ~f.escape
  <2>1. y[n + 2] = s[b + 1]
    BY <1>3, <1>7 DEF b
  <2>2. y[n + 2] = "quote" /\ ~Escaped(y, n + 2)
    BY <1>2, <1>3
  <2>3. QED
    BY <1>8, <2>1, <2>2
<1>11. Open(g, d, r) /\ ~Unopened(f, "quote")
  <2> HIDE DEF f, g
  <2>1. f \in Framer /\ InText(f, d, r) /\ g = ScanNext(f, "quote") /\ ~f.escape
    BY <1>8, <1>9, <1>10
  <2>2. /\ ~Unopened(f, "quote")
        /\ ~f.escape /\ "quote" = "quote" => Open(ScanNext(f, "quote"), d, r)
    BY <2>1, ScanIn
  <2>3. QED
    BY <2>1, <2>2
<1>12. Calm(tr, k, s, b + 1)
  <2>1. tr[k + (b + 1) - 1] = f
    BY <1>9
  <2>2. f.started /\ ~g.complete
    <3> HIDE DEF f, g
    <3>1. QED
      BY <1>8, <1>11 DEF InText, Open, At0
  <2>3. QED
    BY <1>10, <1>11, <2>1, <2>2 DEF Calm
<1>13. \A i \in (p + 1)..q : Calm(tr, k, s, i)
  BY <1>7, <1>8, <1>12
<1>14. QED
  BY <1>7, <1>11, <1>13

\* Inside an array or an object, a value leaves the depths as they were.
Balanced(s) ==
    ValidJSON[s] =>
        \A tr, k, d, r :
            Run(tr, k, s) /\ Open(tr[k], d, r) =>
                /\ Open(tr[k + Len(s)], d, r)
                /\ \A i \in 1..Len(s) : Calm(tr, k, s, i)

Opening(c) == c \in {"{", "["}

PartsBalanced(s) == \A w \in Seq(Byte) : Len(w) < Len(s) => Balanced(w)

\* What is read between the brackets of a value that takes p + 1 .. q.
LEMMA InnerRun ==
    ASSUME NEW s \in Seq(Byte), PartsBalanced(s),
           NEW p \in Nat, NEW q \in Nat, p + 1 < q, q <= Len(s),
           \/ \A i \in (p + 1 + 1)..(q - 1) : s[i] \in Space
           \/ ValidJSON[Within(s, p + 1, q)],
           NEW tr, NEW k, Run(tr, k, s), NEW d, NEW r, Open(tr[k + (p + 1)], d, r)
    PROVE  /\ Open(tr[k + (q - 1)], d, r)
           /\ \A i \in (p + 2)..(q - 1) : Calm(tr, k, s, i)
<1>1. CASE \A i \in (p + 1 + 1)..(q - 1) : s[i] \in Space
  <2>1. p + 1 \in Nat /\ q - 1 \in Nat /\ p + 1 <= q - 1 /\ q - 1 <= Len(s) /\ p + 1 + 1 = p + 2
    OBVIOUS
  <2>2. QED
    BY <1>1, <2>1, IdleRun
<1>2. CASE ValidJSON[Within(s, p + 1, q)]
  <2> DEFINE w == Within(s, p + 1, q)
             h == k + (p + 1)
             n == q - 1 - (p + 1)
  <2>1. p + 1 \in 1..Len(s) /\ q \in (p + 1 + 1)..Len(s) /\ Len(s) \in Nat /\ n \in Nat
        /\ q - (p + 1) - 1 = n /\ k \in Nat /\ h \in Nat
    BY DEF Run
  <2>2. /\ w \in Seq(Byte) /\ Len(w) = n
        /\ \A i \in 1..n : w[i] = s[p + 1 + i]
    <3> HIDE DEF n
    <3>1. QED
      BY <2>1, WithinIs
  <2>3. Balanced(w)
    <3>1. Len(w) < Len(s)
      BY <2>1, <2>2
    <3>2. QED
      BY <2>2, <3>1 DEF PartsBalanced
  <2> HIDE DEF w
  <2>4. ASSUME NEW i \in 0..n PROVE h + i = k + (p + 1 + i) /\ p + 1 + i \in 0..Len(s)
    BY <2>1
  <2>5. ASSUME NEW i \in 1..n
        PROVE  /\ h + i = k + (p + 1 + i) /\ h + i - 1 = k + (p + 1 + i) - 1
               /\ p + 1 + i \in 1..Len(s)
    BY <2>1
  <2>6. Run(tr, h, w)
    <3>1. \A i \in 0..n : tr[h + i] \in Framer
      BY <2>4 DEF Run
    <3>2. ASSUME NEW i \in 1..n PROVE tr[h + i] = ScanNext(tr[h + i - 1], w[i])
      <4>1. tr[k + (p + 1 + i)] = ScanNext(tr[k + (p + 1 + i) - 1], s[p + 1 + i])
        BY <2>5 DEF Run
      <4>2. h + i = k + (p + 1 + i) /\ h + i - 1 = k + (p + 1 + i) - 1
        BY <2>5
      <4>3. w[i] = s[p + 1 + i]
        BY <2>2
      <4> HIDE DEF h, n
      <4>4. QED
        BY <4>1, <4>2, <4>3
    <3> HIDE DEF h, n
    <3>3. QED
      BY <2>1, <2>2, <3>1, <3>2 DEF Run
  <2>7. Open(tr[h + Len(w)], d, r) /\ \A i \in 1..Len(w) : Calm(tr, h, w, i)
    <3>1. Open(tr[h], d, r)
      OBVIOUS
    <3> HIDE DEF h
    <3>2. QED
      BY <1>2, <2>3, <2>6, <3>1 DEF Balanced, w
  <2>8. h + Len(w) = k + (q - 1)
    BY <2>1, <2>2
  <2>9. ASSUME NEW i \in (p + 2)..(q - 1) PROVE Calm(tr, k, s, i)
    <3> DEFINE j == i - (p + 1)
    <3>1. j \in 1..n /\ p + 1 + j = i /\ h + j = k + i /\ h + j - 1 = k + i - 1
      BY <2>1
    <3>2. Calm(tr, h, w, j) /\ w[j] = s[i]
      <4> HIDE DEF h, j, n
      <4>1. QED
        BY <2>2, <2>7, <3>1
    <3> HIDE DEF h, j, n
    <3>3. QED
      BY <3>1, <3>2 DEF Calm
  <2>10. QED
    BY <2>7, <2>8, <2>9
<1>3. QED
  BY <1>1, <1>2

\* An array or an object is read up to its own last bracket.
LEMMA BracketRun ==
    ASSUME NEW s \in Seq(Byte), PartsBalanced(s),
           NEW p \in Nat, NEW q \in Nat, p < q, q <= Len(s),
           Shape(s, p + 1, q), Opening(s[p + 1]),
           NEW tr, NEW k, Run(tr, k, s),
           NEW d \in Nat, NEW r \in Nat, At0(tr[k + p], d, r)
    PROVE  /\ p + 1 < q
           /\ Back(tr[k + q], d, r)
           /\ ~Unopened(tr[k + p], s[p + 1]) /\ ~tr[k + (p + 1)].complete
           /\ \A i \in (p + 2)..(q - 1) : Calm(tr, k, s, i)
           /\ tr[k + (q - 1)].started /\ ~Unopened(tr[k + (q - 1)], s[q])
<1>1. /\ p + 1 \in (p + 1)..q /\ p < Len(s) /\ Len(s) \in Nat
      /\ q - 1 \in Nat /\ q - 1 < Len(s) /\ (q - 1) + 1 = q
  <2>1. p \in Nat /\ q \in Nat /\ p < q /\ q <= Len(s) /\ s \in Seq(Byte)
    OBVIOUS
  <2>2. QED
    BY ONLY <2>1
<1>2. /\ p + 1 < q
      /\ \/ s[p + 1] = "{" /\ s[q] = "}"
         \/ s[p + 1] = "[" /\ s[q] = "]"
      /\ \/ \A i \in (p + 1 + 1)..(q - 1) : s[i] \in Space
         \/ ValidJSON[Within(s, p + 1, q)]
  BY <1>1 DEF Shape, Opening
<1> DEFINE f == tr[k + p]
           g == tr[k + (p + 1)]
           h == tr[k + (q - 1)]
           z == tr[k + q]
<1>3. f \in Framer /\ g = ScanNext(f, s[p + 1])
  <2> HIDE DEF f, g
  <2>1. tr[k + p] \in Framer /\ tr[k + (p + 1)] = ScanNext(tr[k + p], s[p + 1])
    BY <1>1, RunStep
  <2>2. QED
    BY <2>1 DEF f, g
<1>4. h \in Framer /\ z = ScanNext(h, s[q])
  <2> DEFINE m == q - 1
  <2>1. m \in Nat /\ m < Len(s) /\ m + 1 = q
    BY <1>1
  <2> HIDE DEF m, f, g, h, z
  <2>2. tr[k + m] \in Framer /\ tr[k + (m + 1)] = ScanNext(tr[k + m], s[m + 1])
    BY <2>1, RunStep
  <2>3. QED
    BY <2>1, <2>2 DEF h, z, m
<1>5. ASSUME NEW e, NEW v, Open(g, e, v)
      PROVE  Open(h, e, v) /\ \A i \in (p + 2)..(q - 1) : Calm(tr, k, s, i)
  BY <1>2, <1>5, InnerRun
<1>6. At0(f, d, r)
  OBVIOUS
<1> HIDE DEF f, g, h, z
<1>7. CASE s[p + 1] = "{" /\ s[q] = "}"
  <2>1. Open(g, d + 1, r) /\ ~Unopened(f, s[p + 1])
    BY <1>3, <1>6, <1>7, ScanOpens
  <2>2. Open(h, d + 1, r)
    BY <1>5, <2>1
  <2>3. Back(z, d, r) /\ ~Unopened(h, s[q])
    BY <1>4, <1>7, <2>2, ScanCloses
  <2>4. ~g.complete /\ h.started
    BY <2>1, <2>2 DEF Open, At0
  <2>5. QED
    BY <1>2, <1>5, <2>1, <2>3, <2>4 DEF f, g, h, z
<1>8. CASE s[p + 1] = "[" /\ s[q] = "]"
  <2>1. Open(g, d, r + 1) /\ ~Unopened(f, s[p + 1])
    BY <1>3, <1>6, <1>8, ScanOpens
  <2>2. Open(h, d, r + 1)
    BY <1>5, <2>1
  <2>3. Back(z, d, r) /\ ~Unopened(h, s[q])
    BY <1>4, <1>8, <2>2, ScanCloses
  <2>4. ~g.complete /\ h.started
    BY <2>1, <2>2 DEF Open, At0
  <2>5. QED
    BY <1>2, <1>5, <2>1, <2>3, <2>4 DEF f, g, h, z
<1>9. QED
  BY <1>2, <1>7, <1>8

LEMMA BalancedStep ==
    ASSUME NEW s \in Seq(Byte), PartsBalanced(s)
    PROVE  Balanced(s)
<1> SUFFICES ASSUME ValidJSON[s], NEW tr, NEW k, NEW d, NEW r,
                    Run(tr, k, s), Open(tr[k], d, r)
             PROVE  /\ Open(tr[k + Len(s)], d, r)
                    /\ \A i \in 1..Len(s) : Calm(tr, k, s, i)
  BY DEF Balanced
<1>1. PICK first, last \in Nat : Solid(s, first, last)
  BY JSONIsSolid
<1> DEFINE p == first - 1
           n == Len(s)
<1>2. /\ p \in Nat /\ p < last /\ last <= n /\ n \in Nat /\ first = p + 1 /\ 0 <= p /\ 0 \in Nat
      /\ k \in Nat /\ k + 0 = k
  <2>1. first \in 1..n /\ last \in first..n /\ n \in Nat
    BY <1>1 DEF Solid
  <2>2. k \in Nat
    BY DEF Run
  <2> HIDE DEF n
  <2>3. QED
    BY <2>1, <2>2
<1>3. Shape(s, p + 1, last)
  BY <1>1, <1>2, JSONShape
<1>4. /\ \A i \in (0 + 1)..p : s[i] \in Space
      /\ \A i \in (last + 1)..n : s[i] \in Space
  <2>1. \A i \in 1..n : i < first \/ i > last => s[i] \in Space
    BY <1>1 DEF Solid
  <2> HIDE DEF n, p
  <2>2. \A i \in (0 + 1)..p : i \in 1..n /\ i < first
    BY <1>2
  <2>3. \A i \in (last + 1)..n : i \in 1..n /\ i > last
    BY <1>2
  <2>4. QED
    BY <2>1, <2>2, <2>3
<1> HIDE DEF p, n
<1>5. Open(tr[k + p], d, r) /\ \A i \in (0 + 1)..p : Calm(tr, k, s, i)
  <2>1. Open(tr[k + 0], d, r)
    BY <1>2
  <2>2. p <= Len(s)
    BY <1>2 DEF n
  <2>3. QED
    BY <1>2, <1>4, <2>1, <2>2, IdleRun
<1>6. Open(tr[k + last], d, r) /\ \A i \in (p + 1)..last : Calm(tr, k, s, i)
  <2>1. p <= last /\ last <= Len(s) /\ p + 1 \in (p + 1)..last
    BY <1>2 DEF n
  <2>2. CASE \A i \in (p + 1)..last : s[i] = "a"
    BY <1>2, <1>5, <2>1, <2>2, IdleRun
  <2>3. CASE ValidJSONString(SubSeq(s, p + 1, last))
    BY <1>2, <1>5, <2>1, <2>3, StringRun
  <2>4. CASE Opening(s[p + 1])
    <3>1. At0(tr[k + p], d, r) /\ d \in Nat /\ r \in Nat /\ d + r >= 1 /\ tr[k + p].started
      BY <1>5 DEF Open, At0
    <3>2. /\ p + 1 < last
          /\ Back(tr[k + last], d, r)
          /\ ~Unopened(tr[k + p], s[p + 1]) /\ ~tr[k + (p + 1)].complete
          /\ \A i \in (p + 2)..(last - 1) : Calm(tr, k, s, i)
          /\ tr[k + (last - 1)].started /\ ~Unopened(tr[k + (last - 1)], s[last])
      BY <1>2, <1>3, <2>1, <2>4, <3>1, BracketRun
    <3>3. Open(tr[k + last], d, r) /\ ~tr[k + last].complete
      <4> DEFINE z == tr[k + last]
      <4>1. Back(z, d, r)
        BY <3>2
      <4> HIDE DEF z
      <4>2. ~(d = 0 /\ r = 0)
        BY <3>1
      <4>3. Open(z, d, r) /\ ~z.complete
        BY <3>1, <4>1, <4>2 DEF Back, Open, At0
      <4>4. QED
        BY <4>3 DEF z
    <3>4. /\ k + (p + 1) - 1 = k + p /\ k + last - 1 = k + (last - 1)
          /\ \A i \in (p + 1)..last : i = p + 1 \/ i = last \/ i \in (p + 2)..(last - 1)
      BY <1>2
    <3>5. Calm(tr, k, s, p + 1) /\ Calm(tr, k, s, last)
      BY <3>1, <3>2, <3>3, <3>4 DEF Calm
    <3>6. QED
      BY <3>2, <3>3, <3>4, <3>5
  <2>5. QED
    BY <1>3, <2>1, <2>2, <2>3, <2>4 DEF Shape, Opening
<1>7. Open(tr[k + n], d, r) /\ \A i \in (last + 1)..n : Calm(tr, k, s, i)
  <2>1. last <= n /\ n <= Len(s)
    BY <1>2 DEF n
  <2>2. QED
    BY <1>2, <1>4, <1>6, <2>1, IdleRun
<1>8. \A i \in 1..n : i \in (0 + 1)..p \/ i \in (p + 1)..last \/ i \in (last + 1)..n
  BY <1>2
<1>9. QED
  BY <1>5, <1>6, <1>7, <1>8 DEF n

LEMMA AllBalanced == \A s : s \in Seq(Byte) => Balanced(s) /\ PartsBalanced(s)
<1> DEFINE T == {m \in Nat : \A w \in Seq(Byte) : Len(w) <= m => Balanced(w)}
<1>1. 0 \in T
  <2>1. ASSUME NEW w \in Seq(Byte), Len(w) <= 0 PROVE Balanced(w)
    <3>1. \A v \in Seq(Byte) : ~(Len(v) < Len(w))
      BY <2>1
    <3>2. QED
      BY <3>1, BalancedStep DEF PartsBalanced
  <2>2. QED
    BY <2>1
<1>2. ASSUME NEW m \in Nat, m \in T PROVE m + 1 \in T
  <2>1. ASSUME NEW w \in Seq(Byte), Len(w) <= m + 1 PROVE Balanced(w)
    <3>1. ASSUME NEW v \in Seq(Byte), Len(v) < Len(w) PROVE Balanced(v)
      <4>1. Len(v) <= m
        BY <2>1, <3>1
      <4>2. QED
        BY <1>2, <4>1
    <3>2. QED
      BY <3>1, BalancedStep DEF PartsBalanced
  <2>2. QED
    BY <2>1
<1>3. ASSUME NEW s \in Seq(Byte) PROVE Balanced(s)
  <2> DEFINE n == Len(s)
  <2>1. n \in Nat
    OBVIOUS
  <2>2. n \in T
    <3> HIDE DEF T, n
    <3>1. n \in Nat /\ \A m \in 0..(n - 1) : m \in T => m + 1 \in T
      BY <1>2, <2>1
    <3>2. \A m \in 0..n : m \in T
      BY <1>1, <3>1, Climb
    <3>3. QED
      BY <3>1, <3>2
  <2>3. QED
    BY <2>1, <2>2
<1>4. QED
  BY <1>3 DEF PartsBalanced

\* tr are the states of the scanner over the first m bytes of s.
Scans(tr, s, m) ==
    /\ tr[0] = FreshFramer
    /\ \A i \in 0..m : tr[i] \in Framer
    /\ \A i \in 1..m : tr[i] = ScanNext(tr[i - 1], s[i])

LEMMA ScanMore ==
    ASSUME NEW u \in Seq(Byte), NEW tr, NEW m \in Nat, m < Len(u), Scans(tr, u, m)
    PROVE  \E v : /\ Scans(v, u, m + 1) /\ \A i \in 0..m : v[i] = tr[i]
                  /\ v[m + 1] = ScanNext(tr[m], u[m + 1])
<1> DEFINE g == ScanNext(tr[m], u[m + 1])
           v == [i \in 0..(m + 1) |-> IF i = m + 1 THEN g ELSE tr[i]]
<1>1. /\ \A i \in 0..m : i # m + 1 /\ i \in 0..(m + 1)
      /\ \A i \in 0..(m + 1) : i = m + 1 \/ i \in 0..m
      /\ m + 1 \in 0..(m + 1) /\ m \in 0..m /\ 0 \in 0..m
      /\ \A i \in 1..(m + 1) : i - 1 \in 0..m /\ (i = m + 1 \/ i \in 1..m)
      /\ m + 1 - 1 = m
  OBVIOUS
<1>2. (\A i \in 0..m : v[i] = tr[i]) /\ v[m + 1] = g
  BY <1>1
<1>3. g \in Framer
  <2>1. tr[m] \in Framer
    BY <1>1 DEF Scans
  <2>2. QED
    BY <2>1, ScanTyped
<1> HIDE DEF v, g
<1>4. v[0] = FreshFramer /\ \A i \in 0..(m + 1) : v[i] \in Framer
  BY <1>1, <1>2, <1>3 DEF Scans
<1>5. ASSUME NEW i \in 1..(m + 1) PROVE v[i] = ScanNext(v[i - 1], u[i])
  <2>1. CASE i = m + 1
    BY <1>1, <1>2, <2>1 DEF g
  <2>2. CASE i \in 1..m
    <3>1. i \in 0..m /\ i - 1 \in 0..m
      BY <2>2
    <3>2. QED
      BY <1>2, <2>2, <3>1 DEF Scans
  <2>3. QED
    BY <1>1, <2>1, <2>2
<1>6. Scans(v, u, m + 1)
  BY <1>4, <1>5 DEF Scans
<1>7. QED
  BY <1>2, <1>6 DEF g

LEMMA ScanOn ==
    ASSUME NEW u \in Seq(Byte), NEW tr, NEW o \in Nat, NEW n \in Nat, o <= n, n <= Len(u),
           Scans(tr, u, o)
    PROVE  \E v : Scans(v, u, n) /\ \A i \in 0..o : v[i] = tr[i]
<1> DEFINE T == {m \in Nat : \E v : Scans(v, u, o + m) /\ \A i \in 0..o : v[i] = tr[i]}
           b == n - o
<1>1. 0 \in T
  <2>1. o + 0 = o
    OBVIOUS
  <2>2. QED
    BY <2>1
<1>2. ASSUME NEW m \in 0..(b - 1), m \in T PROVE m + 1 \in T
  <2>1. PICK v : Scans(v, u, o + m) /\ \A i \in 0..o : v[i] = tr[i]
    BY <1>2
  <2>2. o + m \in Nat /\ o + m < Len(u) /\ o + (m + 1) = (o + m) + 1 /\ m + 1 \in Nat
        /\ \A i \in 0..o : i \in 0..(o + m)
    OBVIOUS
  <2>3. PICK w : Scans(w, u, (o + m) + 1) /\ \A i \in 0..(o + m) : w[i] = v[i]
    <3> DEFINE e == o + m
    <3>1. e \in Nat /\ e < Len(u) /\ Scans(v, u, e)
      BY <2>1, <2>2
    <3> HIDE DEF e
    <3>2. \E w : Scans(w, u, e + 1) /\ \A i \in 0..e : w[i] = v[i]
      BY <3>1, ScanMore
    <3>3. QED
      BY <3>2 DEF e
  <2>4. QED
    BY <2>1, <2>2, <2>3
<1>3. b \in Nat /\ o + b = n /\ b \in 0..b
  OBVIOUS
<1>4. b \in T
  <2> HIDE DEF T, b
  <2>1. \A m \in 0..b : m \in T
    BY <1>1, <1>2, <1>3, Climb
  <2>2. QED
    BY <1>3, <2>1
<1> HIDE DEF b
<1>5. QED
  BY <1>3, <1>4

LEMMA SpaceRun ==
    ASSUME NEW u \in Seq(Byte), NEW m \in Nat, NEW tr, Scans(tr, u, m),
           NEW a \in Nat, a <= m, \A i \in 1..a : u[i] \in Space
    PROVE  \A j \in 0..a : ~tr[j].started /\ At0(tr[j], 0, 0)
<1> DEFINE T == {j \in Nat : ~tr[j].started /\ At0(tr[j], 0, 0)}
<1>1. 0 \in T
  BY DEF Scans, FreshFramer, At0
<1>2. ASSUME NEW j \in 0..(a - 1), j \in T PROVE j + 1 \in T
  <2> DEFINE f == tr[j]
             g == tr[j + 1]
             c == u[j + 1]
  <2>1. j \in 0..m /\ j + 1 \in 1..m /\ j + 1 \in 1..a /\ j + 1 - 1 = j /\ j + 1 \in Nat
    OBVIOUS
  <2>2. f \in Framer /\ g = ScanNext(f, c)
    BY <2>1 DEF Scans
  <2>3. ~f.started /\ At0(f, 0, 0) /\ c \in Space
    BY <1>2, <2>1
  <2> HIDE DEF f, c, g
  <2>4. ~g.started /\ At0(g, 0, 0)
    BY <2>2, <2>3, ScanSkips DEF At0
  <2>5. QED
    BY <2>1, <2>4 DEF g
<1>3. \A j \in 0..a : j \in T
  <2> HIDE DEF T
  <2>1. QED
    BY <1>1, <1>2, Climb
<1>4. QED
  BY <1>3

LEMMA CompleteStays ==
    ASSUME NEW u \in Seq(Byte), NEW m \in Nat, NEW tr, Scans(tr, u, m),
           NEW b \in 0..m, tr[b].complete
    PROVE  \A j \in b..m : tr[j].complete
<1> DEFINE T == {j \in Nat : tr[b + j].complete}
           n == m - b
<1>1. 0 \in T /\ n \in Nat
  OBVIOUS
<1>2. ASSUME NEW j \in 0..(n - 1), j \in T PROVE j + 1 \in T
  <2> DEFINE e == b + j
             f == tr[e]
             g == tr[e + 1]
  <2>1. /\ e \in 0..m /\ e + 1 \in 1..m /\ e + 1 - 1 = e /\ j + 1 \in Nat
        /\ b + (j + 1) = e + 1
    OBVIOUS
  <2>2. f.complete
    BY <1>2
  <2> HIDE DEF e
  <2>3. f \in Framer /\ g = ScanNext(f, u[e + 1])
    BY <2>1 DEF Scans
  <2> HIDE DEF f, g
  <2>4. g.complete
    BY <2>2, <2>3, ScanSkips
  <2>5. QED
    BY <2>1, <2>4 DEF g
<1>3. \A j \in 0..n : j \in T
  <2> HIDE DEF T, n
  <2>1. QED
    BY <1>1, <1>2, Climb
<1>4. ASSUME NEW j \in b..m PROVE j - b \in 0..n /\ b + (j - b) = j
  OBVIOUS
<1>5. QED
  BY <1>3, <1>4

\* The scanner agrees with the grammar: it accepts every byte of a value and
\* notices its last bracket.
LEMMA ScanValue ==
    ASSUME NEW u \in Seq(Byte), NEW n \in 1..Len(u), Structural(SubSeq(u, 1, n)),
           NEW tr, Scans(tr, u, n)
    PROVE  \E b \in 1..n :
              /\ \A j \in 0..(b - 1) : ~tr[j].complete
              /\ \A j \in b..n : tr[j].complete
              /\ \A i \in (b + 1)..n : u[i] \in Space
              /\ \A i \in 1..b : \/ ~tr[i - 1].started /\ u[i] \in Space
                                 \/ /\ ~Unopened(tr[i - 1], u[i])
                                    /\ tr[i - 1].started \/ Opening(u[i])
<1> DEFINE x == SubSeq(u, 1, n)
<1>1. x \in Seq(Byte) /\ Len(x) = n /\ \A i \in 1..n : x[i] = u[i]
  BY CutAt
<1>2. Structural(x) /\ Len(u) \in Nat /\ n \in Nat
  OBVIOUS
<1> HIDE DEF x
<1>3. PICK a, b \in Nat : Solid(x, a, b)
  BY <1>1, <1>2, JSONIsSolid DEF Structural
<1> DEFINE p == a - 1
<1>4. /\ p \in Nat /\ p < b /\ b <= n /\ p + 1 = a /\ p <= n /\ b \in 1..n /\ b \in 0..n
      /\ p + 1 \in 1..n
  BY <1>1, <1>2, <1>3 DEF Solid
<1>5. /\ \A i \in 1..p : u[i] \in Space
      /\ \A i \in (b + 1)..n : u[i] \in Space
  <2>1. \A i \in 1..n : i < a \/ i > b => u[i] \in Space
    BY <1>1, <1>3 DEF Solid
  <2>2. /\ \A i \in 1..p : i \in 1..n /\ i < a
        /\ \A i \in (b + 1)..n : i \in 1..n /\ i > b
    BY <1>4
  <2>3. QED
    BY <2>1, <2>2
<1>6. Opening(x[p + 1]) /\ Opening(u[p + 1])
  <2>1. Trimmed(x)[1] = x[a]
    BY <1>1, <1>3, FirstTrimmed
  <2>2. Opening(x[a])
    BY <1>2, <2>1 DEF Structural, Opening
  <2>3. QED
    BY <1>1, <1>4, <2>2
<1>7. Shape(x, p + 1, b)
  BY <1>1, <1>2, <1>3, <1>4, JSONShape DEF Structural
<1> HIDE DEF p
<1>8. \A j \in 0..p : ~tr[j].started /\ At0(tr[j], 0, 0)
  BY <1>2, <1>4, <1>5, SpaceRun
<1>9. Run(tr, 0, x)
  <2>1. \A i \in 0..n : 0 + i = i
    BY <1>2
  <2>2. \A i \in 1..n : 0 + i = i /\ 0 + i - 1 = i - 1
    BY <1>2
  <2>3. ASSUME NEW i \in 1..n PROVE tr[0 + i] = ScanNext(tr[0 + i - 1], x[i])
    BY <1>1, <2>2 DEF Scans
  <2>4. \A i \in 0..n : tr[0 + i] \in Framer
    BY <2>1 DEF Scans
  <2>5. QED
    BY <1>1, <2>3, <2>4 DEF Run
<1>10. /\ p + 1 < b
       /\ Back(tr[b], 0, 0)
       /\ ~Unopened(tr[p], x[p + 1]) /\ ~tr[p + 1].complete
       /\ \A i \in (p + 2)..(b - 1) : Calm(tr, 0, x, i)
       /\ tr[b - 1].started /\ ~Unopened(tr[b - 1], x[b])
  <2>1. 0 + p = p /\ 0 + b = b /\ 0 + (p + 1) = p + 1 /\ 0 + (b - 1) = b - 1 /\ 0 \in Nat
        /\ p \in 0..p
    BY <1>4
  <2>2. At0(tr[0 + p], 0, 0) /\ PartsBalanced(x) /\ b <= Len(x)
    BY <1>1, <1>4, <1>8, <2>1, AllBalanced
  <2>3. /\ p + 1 < b
        /\ Back(tr[0 + b], 0, 0)
        /\ ~Unopened(tr[0 + p], x[p + 1]) /\ ~tr[0 + (p + 1)].complete
        /\ \A i \in (p + 2)..(b - 1) : Calm(tr, 0, x, i)
        /\ tr[0 + (b - 1)].started /\ ~Unopened(tr[0 + (b - 1)], x[b])
    BY <1>1, <1>4, <1>6, <1>7, <1>9, <2>1, <2>2, BracketRun
  <2>4. QED
    BY <2>1, <2>3
<1>11. ASSUME NEW i \in (p + 2)..(b - 1)
       PROVE  tr[i - 1].started /\ ~tr[i].complete /\ ~Unopened(tr[i - 1], x[i])
  <2>1. 0 + i = i /\ 0 + i - 1 = i - 1
    BY <1>4
  <2>2. Calm(tr, 0, x, i)
    BY <1>10
  <2>3. QED
    BY <2>1, <2>2 DEF Calm
<1>12. \A j \in b..n : tr[j].complete
  <2>1. tr[b].complete
    BY <1>10 DEF Back
  <2>2. QED
    BY <1>2, <1>4, <2>1, CompleteStays
<1>13. ASSUME NEW j \in 0..(b - 1) PROVE ~tr[j].complete
  <2>1. j \in 0..p \/ j = p + 1 \/ j \in (p + 2)..(b - 1)
    BY <1>4
  <2>2. QED
    BY <1>8, <1>10, <1>11, <2>1 DEF At0
<1>14. ASSUME NEW i \in 1..b
       PROVE  \/ ~tr[i - 1].started /\ u[i] \in Space
              \/ /\ ~Unopened(tr[i - 1], u[i])
                 /\ tr[i - 1].started \/ Opening(u[i])
  <2>1. i \in 1..n /\ (i \in 1..p \/ i = p + 1 \/ i = b \/ i \in (p + 2)..(b - 1))
    BY <1>4
  <2>2. x[i] = u[i]
    BY <1>1, <2>1
  <2>3. CASE i \in 1..p
    <3>1. i - 1 \in 0..p
      BY <1>4, <2>3
    <3>2. QED
      BY <1>5, <1>8, <2>3, <3>1
  <2>4. CASE i = p + 1
    <3>1. i - 1 = p
      BY <1>4, <2>4
    <3>2. QED
      BY <1>6, <1>10, <2>2, <2>4, <3>1
  <2>5. CASE i = b
    BY <1>10, <2>2, <2>5
  <2>6. CASE i \in (p + 2)..(b - 1)
    BY <1>11, <2>2, <2>6
  <2>7. QED
    BY <2>1, <2>3, <2>4, <2>5, <2>6
<1>15. QED
  BY <1>4, <1>5, <1>12, <1>13, <1>14

LEMMA SameTrim ==
    ASSUME NEW s \in Seq(Byte), NEW u \in Seq(Byte), Trimmed(s) = Trimmed(u), ValidJSON[s]
    PROVE  ValidJSON[u]
<1> DEFINE f == ValidJSON
           P(t) == \/ t # <<>> /\ \A i \in DOMAIN t : t[i] = "a"
                   \/ ValidJSONString(t)
                   \/ /\ Len(t) >= 2 /\ t[1] = "{" /\ t[Len(t)] = "}"
                      /\ Trimmed(Inner(t)) = <<>>
                   \/ /\ Len(t) >= 2 /\ t[1] = "[" /\ t[Len(t)] = "]"
                      /\ Trimmed(Inner(t)) = <<>> \/ f[Inner(t)]
<1>1. f = [x \in Seq(Byte) |-> P(Trimmed(x))]
  BY ValidJSONDef
<1>2. f[s]
  OBVIOUS
<1> HIDE DEF f, P
<1>3. f[u]
  BY <1>1, <1>2
<1>4. QED
  BY <1>3 DEF f

LEMMA SameSolid ==
    ASSUME NEW x \in Seq(Byte), NEW y \in Seq(Byte), NEW a, NEW b,
           Solid(x, a, b), Solid(y, a, b), \A i \in a..b : x[i] = y[i]
    PROVE  Trimmed(x) = Trimmed(y)
<1> DEFINE v == Trimmed(x)
           w == Trimmed(y)
           e == b - a + 1
<1>1. v \in Seq(Byte) /\ Len(v) = e /\ \A i \in 1..e : v[i] = x[a - 1 + i]
  BY TrimmedIs
<1>2. w \in Seq(Byte) /\ Len(w) = e /\ \A i \in 1..e : w[i] = y[a - 1 + i]
  BY TrimmedIs
<1>3. \A i \in 1..e : a - 1 + i \in a..b
  BY DEF Solid
<1> HIDE DEF v, w, e
<1>4. \A i \in 1..Len(v) : v[i] = w[i]
  BY <1>1, <1>2, <1>3
<1>5. v = w
  BY <1>1, <1>2, <1>4, SeqEqual
<1>6. QED
  BY <1>5 DEF v, w

\* The value at the start of s takes the space after it.
LEMMA ValueEnds ==
    ASSUME NEW s \in Seq(Byte), NEW n \in Nat, n = ValueEnd(s), n # 0
    PROVE  EndsAfter(s, n)
<1> DEFINE ends == {e \in 1..Len(s) : Structural(SubSeq(s, 1, e))}
<1>1. ValueEnd(s) = IF ends = {} THEN 0 ELSE Max(ends)
  <2>1. DOMAIN s = 1..Len(s)
    OBVIOUS
  <2>2. ends = {e \in DOMAIN s : LET t == SubSeq(s, 1, e)
                                 IN  ValidJSON[t] /\ Trimmed(t)[1] \in {"{", "["}}
    BY <2>1 DEF Structural
  <2> HIDE DEF ends
  <2>3. QED
    BY <2>2 DEF ValueEnd
<1>2. ends \in SUBSET (1..Len(s)) /\ Len(s) \in Nat
  OBVIOUS
<1>3. ends # {} /\ n = Max(ends)
  <2> HIDE DEF ends
  <2>1. QED
    BY <1>1
<1>4. n \in ends /\ \A e \in ends : e <= n
  <2> HIDE DEF ends
  <2>1. PICK m \in ends : \A e \in ends : e <= m
    BY <1>2, <1>3, LastPosition
  <2>2. ends \in SUBSET Int
    BY <1>2
  <2>3. Max(ends) = m
    BY <2>1, <2>2, MaxIs
  <2>4. QED
    BY <1>3, <2>1, <2>3
<1> DEFINE x == SubSeq(s, 1, n)
           y == SubSeq(s, 1, n + 1)
<1>5. n \in 1..Len(s) /\ Structural(x)
  BY <1>4
<1>6. ASSUME n < Len(s), s[n + 1] \in Space PROVE FALSE
  <2>1. n + 1 \in 1..Len(s) /\ n \in Nat
    BY <1>2, <1>5, <1>6
  <2>2. x \in Seq(Byte) /\ Len(x) = n /\ \A i \in 1..n : x[i] = s[i]
    BY <1>5, CutAt
  <2>3. y \in Seq(Byte) /\ Len(y) = n + 1 /\ \A i \in 1..(n + 1) : y[i] = s[i]
    BY <2>1, CutAt
  <2> HIDE DEF x, y, ends
  <2>4. PICK a, b \in Nat : Solid(x, a, b)
    BY <1>5, <2>2, JSONIsSolid DEF Structural
  <2>5. /\ a \in 1..n /\ b \in a..n /\ x[a] \notin Space /\ x[b] \notin Space
        /\ \A i \in 1..n : i < a \/ i > b => x[i] \in Space
    BY <2>2, <2>4 DEF Solid
  <2>6. \A i \in 1..n : y[i] = x[i] /\ i \in 1..(n + 1)
    <3>1. \A i \in 1..n : i \in 1..(n + 1)
      BY <2>1
    <3>2. QED
      BY <2>2, <2>3, <3>1
  <2>7. Solid(y, a, b)
    <3>1. a \in 1..(n + 1) /\ b \in a..(n + 1) /\ b \in 1..n
      BY <2>1, <2>5
    <3>2. ASSUME NEW i \in 1..(n + 1), i < a \/ i > b PROVE y[i] \in Space
      <4>1. CASE i = n + 1
        BY <1>6, <2>3, <4>1
      <4>2. CASE i \in 1..n
        BY <2>5, <2>6, <3>2, <4>2
      <4>3. i \in 1..n \/ i = n + 1
        BY <2>1
      <4>4. QED
        BY <4>1, <4>2, <4>3
    <3>3. QED
      BY <2>3, <2>5, <2>6, <3>1, <3>2 DEF Solid
  <2>8. Trimmed(x) = Trimmed(y)
    <3>1. \A i \in a..b : x[i] = y[i]
      <4>1. \A i \in a..b : i \in 1..n
        BY <2>1, <2>5
      <4>2. QED
        BY <2>6, <4>1
    <3>2. QED
      BY <2>2, <2>3, <2>4, <2>7, <3>1, SameSolid
  <2>9. Structural(y)
    BY <1>5, <2>2, <2>3, <2>8, SameTrim DEF Structural
  <2>10. n + 1 <= n
    BY <1>4, <2>1, <2>9 DEF y, ends
  <2>11. QED
    BY <2>1, <2>10
<1>7. QED
  BY <1>5, <1>6 DEF EndsAfter

\* f has read the first bytes of s and has stopped at the end of a value.
Scanned(s, f) ==
    \E tr : /\ Scans(tr, s, f.offset)
            /\ tr[f.offset] = f
            /\ \A j \in 0..(f.offset - 1) : tr[j].complete => s[j + 1] \in Space

\* How the scanner stands to the value that takes the first n bytes of s: it is
\* behind its last bracket, in the space after it, or before it, and accepts
\* the next byte.
Ahead(s, f, n) ==
    \/ /\ f.complete /\ f.offset \in 1..n
       /\ f.offset < n => s[f.offset + 1] \in Space
    \/ /\ ~f.complete /\ f.offset < n
       /\ \/ ~f.started /\ s[f.offset + 1] \in Space
          \/ /\ ~Unopened(f, s[f.offset + 1])
             /\ f.started \/ Opening(s[f.offset + 1])
       /\ f.offset + 1 = n => ScanNext(f, s[f.offset + 1]).complete

LEMMA ScannedValue ==
    ASSUME NEW u \in Seq(Byte), NEW n, EndsAfter(u, n),
           NEW f, f.offset \in Nat, f.offset <= Len(u), Scanned(u, f)
    PROVE  Ahead(u, f, n)
<1> DEFINE o == f.offset
<1>1. /\ Len(u) \in Nat /\ n \in 1..Len(u) /\ n \in Nat /\ n <= Len(u) /\ o \in Nat
      /\ o <= Len(u) /\ Structural(SubSeq(u, 1, n)) /\ (n < Len(u) => u[n + 1] \notin Space)
  BY DEF EndsAfter
<1>2. PICK tr : /\ Scans(tr, u, o)
                /\ tr[o] = f
                /\ \A j \in 0..(o - 1) : tr[j].complete => u[j + 1] \in Space
  BY DEF Scanned
<1> HIDE DEF o
<1>3. CASE o < n
  <2>1. PICK v : Scans(v, u, n) /\ \A i \in 0..o : v[i] = tr[i]
    <3>1. o <= n
      BY <1>1, <1>3
    <3>2. QED
      BY <1>1, <1>2, <3>1, ScanOn
  <2>2. PICK b \in 1..n :
           /\ \A j \in 0..(b - 1) : ~v[j].complete
           /\ \A j \in b..n : v[j].complete
           /\ \A i \in (b + 1)..n : u[i] \in Space
           /\ \A i \in 1..b : \/ ~v[i - 1].started /\ u[i] \in Space
                              \/ /\ ~Unopened(v[i - 1], u[i])
                                 /\ v[i - 1].started \/ Opening(u[i])
    BY <1>1, <2>1, ScanValue
  <2>3. v[o] = f
    <3>1. o \in 0..o
      BY <1>1
    <3>2. QED
      BY <1>2, <2>1, <3>1
  <2>4. CASE o < b
    <3>1. o \in 0..(b - 1) /\ o + 1 \in 1..b /\ o + 1 - 1 = o /\ o + 1 \in 1..n
      BY <1>1, <2>4
    <3>2. ~f.complete
      BY <2>2, <2>3, <3>1
    <3>3. \/ ~f.started /\ u[o + 1] \in Space
          \/ /\ ~Unopened(f, u[o + 1])
             /\ f.started \/ Opening(u[o + 1])
      BY <2>2, <2>3, <3>1
    <3>4. ASSUME o + 1 = n PROVE ScanNext(f, u[o + 1]).complete
      <4>1. v[o + 1] = ScanNext(f, u[o + 1])
        BY <2>1, <2>3, <3>1 DEF Scans
      <4>2. o + 1 \in b..n
        BY <1>1, <2>4, <3>4
      <4>3. QED
        BY <2>2, <4>1, <4>2
    <3>5. QED
      BY <1>3, <3>2, <3>3, <3>4 DEF Ahead, o
  <2>5. CASE ~(o < b)
    <3>1. o \in b..n /\ o \in 1..n /\ o + 1 \in (b + 1)..n
      BY <1>1, <1>3, <2>5
    <3>2. f.complete /\ u[o + 1] \in Space
      BY <2>2, <2>3, <3>1
    <3>3. QED
      BY <3>1, <3>2 DEF Ahead, o
  <2>6. QED
    BY <2>4, <2>5
<1>4. CASE ~(o < n)
  <2>1. Scans(tr, u, n) /\ n \in 0..o /\ o \in 0..o
    <3>1. \A i \in 0..n : i \in 0..o
      BY <1>1, <1>4
    <3>2. \A i \in 1..n : i \in 1..o
      BY <1>1, <1>4
    <3>3. n \in 0..o /\ o \in 0..o
      BY <1>1, <1>4
    <3>4. QED
      BY <1>2, <3>1, <3>2, <3>3 DEF Scans
  <2>2. PICK b \in 1..n : \A j \in b..n : tr[j].complete
    <3>1. \E b \in 1..n : \A j \in b..n : tr[j].complete
      BY <1>1, <2>1, ScanValue
    <3>2. QED
      BY <3>1
  <2>3. tr[n].complete
    <3>1. n \in b..n
      BY <1>1
    <3>2. QED
      BY <2>2, <3>1
  <2>4. f.complete
    <3>1. o \in n..o
      BY <1>1, <1>4
    <3>2. QED
      BY <1>1, <1>2, <2>1, <2>3, <3>1, CompleteStays
  <2>5. o = n
    <3>1. SUFFICES ASSUME n < o PROVE FALSE
      BY <1>1, <1>4
    <3>2. n \in 0..(o - 1) /\ n < Len(u)
      BY <1>1, <3>1
    <3>3. QED
      BY <1>1, <1>2, <2>3, <3>2
  <2>6. QED
    BY <1>1, <2>4, <2>5 DEF Ahead, o
<1>5. QED
  BY <1>3, <1>4

LEMMA FreshIsScanned ==
    /\ FreshFramer \in Framer /\ FreshFramer.offset = 0
    /\ \A s : Scanned(s, FreshFramer)
<1>1. FreshFramer \in Framer /\ FreshFramer.offset = 0
  BY DEF FreshFramer, Framer
<1> DEFINE g == FreshFramer
<1>2. ASSUME NEW s PROVE Scanned(s, FreshFramer)
  <2> DEFINE tr == [i \in {0} |-> g]
  <2>1. tr[0] = g /\ 0..0 = {0} /\ 1..0 = {} /\ 0..(0 - 1) = {}
    OBVIOUS
  <2> HIDE DEF tr
  <2>2. Scans(tr, s, 0)
    BY <1>1, <2>1 DEF Scans
  <2>3. QED
    BY <1>1, <2>1, <2>2 DEF Scanned
<1>3. QED
  BY <1>1, <1>2

LEMMA ScannedPrefix ==
    ASSUME NEW s \in Seq(Byte), NEW t \in Seq(Byte), NEW f, f.offset \in Nat,
           f.offset <= Len(s), Scanned(s, f)
    PROVE  Scanned(s \o t, f)
<1> DEFINE u == s \o t
           o == f.offset
<1>1. Len(s) \in Nat /\ \A i \in 1..Len(s) : u[i] = s[i]
  BY ConcatProperties
<1>2. PICK tr : /\ Scans(tr, s, o)
                /\ tr[o] = f
                /\ \A j \in 0..(o - 1) : tr[j].complete => s[j + 1] \in Space
  BY DEF Scanned
<1> HIDE DEF u
<1>3. /\ \A i \in 1..o : i \in 1..Len(s)
      /\ \A j \in 0..(o - 1) : j + 1 \in 1..Len(s)
  <2>1. o \in Nat /\ o <= Len(s)
    OBVIOUS
  <2> HIDE DEF o
  <2>2. QED
    BY <1>1, <2>1
<1>4. Scans(tr, u, o) /\ \A j \in 0..(o - 1) : tr[j].complete => u[j + 1] \in Space
  BY <1>1, <1>2, <1>3 DEF Scans
<1>5. QED
  BY <1>2, <1>4 DEF Scanned, u

LEMMA ScannedByte ==
    ASSUME NEW s \in Seq(Byte), NEW f \in Framer, f.offset < Len(s), Scanned(s, f),
           f.complete => s[f.offset + 1] \in Space
    PROVE  Scanned(s, ScanNext(f, s[f.offset + 1]))
<1> DEFINE o == f.offset
           g == ScanNext(f, s[o + 1])
<1>1. o \in Nat /\ g.offset = o + 1
  BY ScanTyped DEF Framer
<1>2. PICK tr : /\ Scans(tr, s, o)
                /\ tr[o] = f
                /\ \A j \in 0..(o - 1) : tr[j].complete => s[j + 1] \in Space
  BY DEF Scanned
<1>3. PICK v : /\ Scans(v, s, o + 1) /\ \A i \in 0..o : v[i] = tr[i]
               /\ v[o + 1] = ScanNext(tr[o], s[o + 1])
  <2>1. o < Len(s)
    OBVIOUS
  <2> HIDE DEF o
  <2>2. QED
    BY <1>1, <1>2, <2>1, ScanMore
<1>4. v[o + 1] = g
  BY <1>2, <1>3
<1>5. ASSUME NEW j \in 0..(o + 1 - 1), v[j].complete PROVE s[j + 1] \in Space
  <2>1. f.complete => s[o + 1] \in Space
    OBVIOUS
  <2> HIDE DEF o, g
  <2>2. j \in 0..o /\ (j = o \/ j \in 0..(o - 1))
    BY <1>1
  <2>3. v[j] = tr[j]
    BY <1>3, <2>2
  <2>4. QED
    BY <1>2, <1>5, <2>1, <2>2, <2>3
<1> HIDE DEF o, g
<1>6. Scanned(s, g)
  BY <1>1, <1>3, <1>4, <1>5 DEF Scanned
<1>7. QED
  BY <1>6 DEF o, g

-----------------------------------------------------------------------------
(* Framing.                                                                *)

(* The first unit of s is its first unit whatever comes after s.           *)
Determined(s) ==
    \/ format = "newline" /\ \E i \in DOMAIN s : s[i] = "nl"
    \/ format = "partial" /\ Len(s) >= MaxUnit
    \/ format = "json" /\ \E n \in 1..Len(s) : EndsAfter(s, n) /\ n < Len(s)

After(k) == SubSeq(offered, Start(k) + 1, Len(offered))

(* The k-th unit is the first of the input after it starts, and stays so.  *)
Settled(k) ==
    /\ Start(k) \in 0..Len(offered)
    /\ cuts[k] = Start(k) + FirstUnit(After(k))
    /\ final \/ Determined(After(k))

(* A unit taken is the first one of the pending bytes.  Of a JSON unit that *)
(* is known when it has been validated; before, only that the next byte is *)
(* no space.                                                               *)
UnitInv ==
    /\ InUnit /\ format # "json" =>
          unit = FirstUnit(pending) /\ (final \/ Determined(pending))
    /\ InUnit /\ format = "json" =>
          /\ unit \in 0..Len(pending)
          /\ IF unit < Len(pending) THEN pending[unit + 1] \notin Space ELSE final
          /\ pc = "write" => Structural(SubSeq(pending, 1, unit))
    /\ format = "newline" /\ ~InUnit =>
          \A i \in 1..framer.offset : pending[i] # "nl"

FrameInv == UnitInv /\ \A k \in DOMAIN cuts : Settled(k)

LEMMA FirstUnitIs ==
    /\ Whole => \A s : FirstUnit(s) = Len(s)
    /\ format = "newline" => \A s : FirstUnit(s) = NewlineBoundary(s)
    /\ format = "partial" =>
          \A s : FirstUnit(s) =
                   LET window == SubSeq(s, 1, Min({Len(s), MaxUnit}))
                   IN  Len(window) - (IF window[Len(window)] = "lead" THEN 1 ELSE 0)
    /\ format = "json" => \A s : FirstUnit(s) = ValueEnd(s)
<1>1. ASSUME Whole, NEW s PROVE FirstUnit(s) = Len(s)
  BY <1>1 DEF FirstUnit, Whole
<1>2. ASSUME format = "newline", NEW s PROVE FirstUnit(s) = NewlineBoundary(s)
  BY <1>2 DEF FirstUnit, Whole
<1>3. ASSUME format = "partial", NEW s
      PROVE  FirstUnit(s) =
               LET window == SubSeq(s, 1, Min({Len(s), MaxUnit}))
               IN  Len(window) - (IF window[Len(window)] = "lead" THEN 1 ELSE 0)
  BY <1>3 DEF FirstUnit, Whole
<1>4. ASSUME format = "json", NEW s PROVE FirstUnit(s) = ValueEnd(s)
  BY <1>4 DEF FirstUnit, Whole
<1>5. QED
  BY <1>1, <1>2, <1>3, <1>4

LEMMA NewlineBoundaryIs ==
    ASSUME NEW s \in Seq(Byte), NEW n \in 1..Len(s),
           \A i \in 1..(n - 1) : s[i] # "nl", s[n] = "nl"
    PROVE  NewlineBoundary(s) = n
<1> DEFINE ends == {i \in DOMAIN s : s[i] = "nl"}
<1>1. ends \in SUBSET Int /\ n \in ends
  OBVIOUS
<1>2. \A i \in ends : n <= i
  OBVIOUS
<1> HIDE DEF ends
<1>3. ends # {} /\ Min(ends) = n
  BY <1>1, <1>2, MinIs
<1>4. QED
  BY <1>3 DEF NewlineBoundary, ends

LEMMA NoNewline ==
    ASSUME NEW s \in Seq(Byte), \A i \in 1..Len(s) : s[i] # "nl"
    PROVE  NewlineBoundary(s) = Len(s)
<1>1. {i \in DOMAIN s : s[i] = "nl"} = {}
  OBVIOUS
<1>2. QED
  BY <1>1 DEF NewlineBoundary

LEMMA FirstNewline ==
    ASSUME NEW s \in Seq(Byte), NEW j \in 1..Len(s), s[j] = "nl"
    PROVE  \E n \in 1..Len(s) :
              s[n] = "nl" /\ (\A i \in 1..(n - 1) : s[i] # "nl") /\ NewlineBoundary(s) = n
<1> DEFINE ends == {i \in 1..Len(s) : s[i] = "nl"}
<1>1. ends \in SUBSET (1..Len(s)) /\ ends # {} /\ Len(s) \in Nat
  OBVIOUS
<1>2. PICK n \in ends : \A i \in ends : n <= i
  <2> HIDE DEF ends
  <2>1. QED
    BY <1>1, MinOfSet
<1>3. n \in 1..Len(s) /\ s[n] = "nl"
  BY <1>2
<1>4. \A i \in 1..(n - 1) : s[i] # "nl"
  BY <1>1, <1>2, <1>3
<1>5. QED
  BY <1>3, <1>4, NewlineBoundaryIs

LEMMA FirstUnitGrows ==
    ASSUME NEW s \in Seq(Byte), NEW t \in Seq(Byte), Determined(s)
    PROVE  Determined(s \o t) /\ FirstUnit(s \o t) = FirstUnit(s)
<1> DEFINE u == s \o t
<1>1. /\ u \in Seq(Byte) /\ Len(u) = Len(s) + Len(t) /\ Len(s) \in Nat /\ Len(t) \in Nat
      /\ \A i \in 1..Len(s) : u[i] = s[i]
  BY ConcatProperties
<1> HIDE DEF u
<1>2. CASE format = "newline"
  <2>1. PICK j \in 1..Len(s) : s[j] = "nl"
    BY <1>2 DEF Determined
  <2>2. PICK n \in 1..Len(s) :
           s[n] = "nl" /\ (\A i \in 1..(n - 1) : s[i] # "nl") /\ NewlineBoundary(s) = n
    BY <2>1, FirstNewline
  <2>3. n \in 1..Len(u) /\ u[n] = "nl" /\ \A i \in 1..(n - 1) : u[i] # "nl"
    <3>1. n \in 1..Len(u) /\ u[n] = s[n]
      BY <1>1, SMTT(30)
    <3>2. \A i \in 1..(n - 1) : i \in 1..Len(s)
      BY <1>1
    <3>3. \A i \in 1..(n - 1) : u[i] = s[i]
      BY <1>1, <3>2
    <3>4. QED
      BY <2>2, <3>1, <3>3
  <2>4. NewlineBoundary(u) = n
    BY <1>1, <2>3, NewlineBoundaryIs
  <2>5. n \in DOMAIN u
    BY <1>1, <2>3
  <2>6. QED
    BY <1>2, <2>2, <2>3, <2>4, <2>5, FirstUnitIs DEF Determined, u
<1>3. CASE format = "partial"
  <2>1. Len(s) >= MaxUnit /\ Len(u) >= MaxUnit /\ MaxUnit \in Nat \ {0}
    BY <1>1, <1>3, Limits DEF Determined
  <2>2. Min({Len(s), MaxUnit}) = MaxUnit /\ Min({Len(u), MaxUnit}) = MaxUnit
    BY <1>1, <2>1, MinOfTwo
  <2>3. SubSeq(u, 1, MaxUnit) = SubSeq(s, 1, MaxUnit)
    <3>1. 1 \in 1..Len(s) /\ MaxUnit \in 1..Len(s)
      BY <1>1, <2>1
    <3>2. QED
      BY <3>1, SubSeqOfConcat1 DEF u
  <2>4. FirstUnit(u) = FirstUnit(s)
    BY <1>3, <2>2, <2>3, FirstUnitIs
  <2>5. QED
    BY <1>3, <2>1, <2>4 DEF Determined, u
<1>4. CASE format = "json"
  <2>1. PICK n \in 1..Len(s) : EndsAfter(s, n) /\ n < Len(s)
    BY <1>4 DEF Determined
  <2>2. EndsAfter(u, n) /\ n < Len(u)
    BY <2>1, EndStays DEF u
  <2>3. ValueEnd(u) = n /\ ValueEnd(s) = n /\ n \in 1..Len(u)
    BY <1>1, <2>1, <2>2, ValueEndIs
  <2>4. QED
    BY <1>4, <2>2, <2>3, FirstUnitIs DEF Determined, u
<1>5. QED
  BY <1>2, <1>3, <1>4 DEF Determined

(* The two ways a step can touch the input: a write adds to it, which a    *)
(* Complete rules out, and a released unit is noted.                       *)
LEMMA InputSteps ==
    ASSUME StreamInv, [Next]_vars
    PROVE  /\ format' = format
           /\ \/ offered' = offered /\ (final => final')
              \/ ~final /\ \E p \in Seq(Byte) : offered' = offered \o p
           /\ cuts' = cuts \/ Written
<1>1. pc = "idle" /\ ~Terminal => ~final
  BY DEF StreamInv, Control
<1>2. Chunks \subseteq Seq(Byte)
  BY ChunksAreText DEF StreamInv, StreamType
<1>3. CASE UNCHANGED vars
  BY <1>3 DEF vars, running, history
<1>4. CASE Proceed
  <2>1. UNCHANGED <<final, offered, format>>
    BY <1>4, ProceedFacts
  <2>2. cuts' = cuts \/ Written
    BY <1>4
       DEF Proceed, WriteReturns, AcceptInput, NothingPending, ScanNewline, ScanPartial,
           ScanJSON, FinishJSON, RejectUnit, ScopeFails, GuardLate, GuardStops,
           GuardApproves, InvalidCount, ShortWrite, history
  <2>3. QED
    BY <2>1, <2>2
<1>5. ASSUME NEW p \in Chunks, WriteContext(p)
      PROVE  /\ format' = format /\ cuts' = cuts
             /\ ~final /\ \E q \in Seq(Byte) : offered' = offered \o q
  BY <1>1, <1>2, <1>5 DEF WriteContext
<1>6. CASE WriteRefused \/ Complete \/ Abort \/ DeliverFallback \/ Closed
  <2>1. format' = format /\ offered' = offered /\ cuts' = cuts
    BY <1>6 DEF WriteRefused, Complete, Abort, DeliverFallback, Closed, vars, history
  <2>2. final => final'
    BY <1>1, <1>6
       DEF WriteRefused, Complete, Abort, DeliverFallback, Closed, vars, running
  <2>3. QED
    BY <2>1, <2>2
<1>7. QED
  BY <1>3, <1>4, <1>5, <1>6 DEF Next, Call

(* A unit settled once stays settled.                                      *)
LEMMA SettledStays ==
    ASSUME StreamInv, [Next]_vars, NEW k \in 1..Len(cuts), Settled(k),
           Start(k)' = Start(k), cuts'[k] = cuts[k]
    PROVE  Settled(k)'
<1>1. format' = format /\ offered \in Seq(Byte) /\ Len(offered) \in Nat
  BY InputSteps DEF StreamInv, StreamType
<1>2. CASE offered' = offered /\ (final => final')
  <2>1. After(k)' = After(k)
    BY <1>2 DEF After
  <2>2. FirstUnit(After(k))' = FirstUnit(After(k)) /\ Determined(After(k))' = Determined(After(k))
    BY <1>1, <2>1 DEF FirstUnit, Determined, Whole
  <2>3. QED
    BY <1>2, <2>1, <2>2 DEF Settled
<1>3. ASSUME ~final, NEW p \in Seq(Byte), offered' = offered \o p PROVE Settled(k)'
  <2> DEFINE n == Start(k)
             s == After(k)
  <2>1. n \in 0..Len(offered) /\ Determined(s) /\ cuts[k] = n + FirstUnit(s)
    BY <1>3 DEF Settled
  <2>2. s \in Seq(Byte)
    BY <1>1, <2>1, CutAt DEF After
  <2>3. After(k)' = s \o p
    BY <1>1, <1>3, <2>1, RestOfConcat DEF After
  <2> HIDE DEF n, s
  <2>4. Determined(s \o p) /\ FirstUnit(s \o p) = FirstUnit(s)
    BY <1>3, <2>1, <2>2, FirstUnitGrows
  <2>5. FirstUnit(After(k))' = FirstUnit(s \o p) /\ Determined(After(k))' = Determined(s \o p)
    BY <1>1, <2>3 DEF FirstUnit, Determined, Whole
  <2>6. Len(offered') = Len(offered) + Len(p) /\ Len(p) \in Nat
    BY <1>1, <1>3, ConcatProperties
  <2>7. Start(k)' \in 0..Len(offered')
    BY <1>1, <2>1, <2>6 DEF n
  <2>8. QED
    BY <2>1, <2>4, <2>5, <2>7 DEF Settled, n
<1>4. QED
  BY <1>2, <1>3, InputSteps

(* A unit that is written is the first one.                                *)
LEMMA UnitEnds ==
    ASSUME StreamInv, UnitInv, pc = "write"
    PROVE  unit = FirstUnit(pending) /\ (final \/ Determined(pending))
<1>1. CASE format # "json"
  BY <1>1 DEF UnitInv, InUnit
<1>2. CASE format = "json"
  <2> DEFINE x == SubSeq(pending, 1, unit)
  <2>1. pending \in Seq(Byte) /\ Len(pending) \in Nat
    BY DEF StreamInv, StreamType
  <2>2. /\ unit \in 0..Len(pending) /\ Structural(x)
        /\ IF unit < Len(pending) THEN pending[unit + 1] \notin Space ELSE final
    BY <1>2 DEF UnitInv, InUnit
  <2>3. x \in Seq(Byte) /\ Len(x) = unit
    BY <2>1, <2>2, CutAt
  <2> HIDE DEF x
  <2>4. PICK a, b \in Nat : Solid(x, a, b)
    BY <2>2, <2>3, JSONIsSolid DEF Structural
  <2>5. unit \in 1..Len(pending)
    BY <2>1, <2>2, <2>3, <2>4 DEF Solid
  <2>6. EndsAfter(pending, unit)
    BY <2>2, <2>5 DEF EndsAfter, x
  <2>7. unit = FirstUnit(pending)
    BY <1>2, <2>1, <2>6, ValueEndIs, FirstUnitIs
  <2>8. QED
    BY <1>2, <2>2, <2>5, <2>6, <2>7 DEF Determined
<1>3. QED
  BY <1>1, <1>2

(* A unit that is out is settled.                                          *)
LEMMA WrittenSettles ==
    ASSUME StreamInv, UnitInv, Written, NEW k, k = Len(cuts) + 1
    PROVE  Settled(k)'
<1>1. /\ pc = "write" /\ offered' = offered /\ final' = final /\ format' = format
      /\ ~Terminal /\ cuts \in Seq(Nat) /\ Len(cuts) \in Nat
      /\ unit = FirstUnit(pending) /\ (final \/ Determined(pending))
      /\ pending \in Seq(Byte) /\ rest \in Seq(Byte) /\ (final => rest = <<>>)
      /\ pending \o rest = Unreleased /\ Taken \in 0..Len(offered)
  <2>1. /\ pc = "write" /\ offered' = offered /\ final' = final /\ format' = format
    BY DEF Written
  <2>2. ~Terminal /\ (final => rest = <<>>)
    BY <2>1, RunningIsOpen
  <2>3. unit = FirstUnit(pending) /\ (final \/ Determined(pending))
    BY <2>1, UnitEnds
  <2>4. /\ cuts \in Seq(Nat) /\ Len(cuts) \in Nat
        /\ pending \in Seq(Byte) /\ rest \in Seq(Byte)
    BY DEF StreamInv, StreamType
  <2>5. pending \o rest = Unreleased /\ Taken \in 0..Len(offered)
    BY <2>2 DEF StreamInv, Conserved
  <2>6. QED
    BY <2>1, <2>2, <2>3, <2>4, <2>5
<1>2. cuts' = Append(cuts, Taken + unit) /\ Taken + unit \in Nat
  BY <1>1, WrittenMoves DEF StreamInv, StreamType
<1>3. cuts'[k] = Taken + unit /\ \A i \in 1..Len(cuts) : cuts'[i] = cuts[i]
  BY <1>1, <1>2, AppendProperties
<1>4. Start(k)' = Taken
  <2>1. CASE k = 1
    BY <1>1, <2>1 DEF Start, Taken
  <2>2. CASE k # 1
    <3>1. Len(cuts) \in 1..Len(cuts) /\ k - 1 = Len(cuts)
      BY <1>1, <2>2
    <3>2. QED
      BY <1>3, <2>2, <3>1 DEF Start, Taken
  <2>3. QED
    BY <2>1, <2>2
<1>5. After(k)' = Unreleased
  BY <1>1, <1>4 DEF After, Unreleased, Taken
<1>6. /\ FirstUnit(pending \o rest) = unit
      /\ final \/ Determined(pending \o rest)
  <2>1. CASE final
    BY <1>1, <2>1, ConcatEmptySeq
  <2>2. CASE ~final
    BY <1>1, <2>2, FirstUnitGrows
  <2>3. QED
    BY <2>1, <2>2
<1>7. FirstUnit(After(k))' = FirstUnit(pending \o rest)
      /\ Determined(After(k))' = Determined(pending \o rest)
  BY <1>1, <1>5 DEF FirstUnit, Determined, Whole
<1>8. QED
  BY <1>1, <1>3, <1>4, <1>6, <1>7 DEF Settled

LEMMA EndedUnit ==
    ASSUME pc' \in {"idle", "scan"}, framer' = FreshFramer
    PROVE  UnitInv'
<1>1. framer'.offset = 0
  BY DEF FreshFramer
<1>2. QED
  BY <1>1 DEF UnitInv, InUnit

LEMMA KeptUnit ==
    ASSUME UnitInv, ~InUnit, pc' \in {"idle", "accept", "scan"},
           UNCHANGED <<format, pending, framer>>
    PROVE  UnitInv'
BY DEF UnitInv, InUnit

LEMMA FailEnds ==
    ASSUME NEW category, NEW cause, NEW d, NEW sent,
           FailCounting(category, cause, d, sent) \/ Fail(category, cause, d) \/ Succeed
    PROVE  UnitInv'
BY EndedUnit DEF FailCounting, Fail, Succeed, Discard

LEMMA TakeUnit ==
    ASSUME NEW n, NEW f, Take(n, f), format' = format, format # "json",
           n = FirstUnit(pending), final' \/ Determined(pending)
    PROVE  UnitInv'
<1>1. CASE n > MaxUnit
  BY <1>1, FailEnds DEF Take
<1>2. CASE ~(n > MaxUnit)
  <2>1. unit' = n /\ pc' = "validate" /\ pending' = pending
    BY <1>2 DEF Take
  <2>2. FirstUnit(pending)' = FirstUnit(pending) /\ Determined(pending)' = Determined(pending)
    BY <2>1 DEF FirstUnit, Determined, Whole
  <2>3. QED
    BY <2>1, <2>2 DEF UnitInv, InUnit
<1>3. QED
  BY <1>1, <1>2

LEMMA TakeValue ==
    ASSUME NEW n \in 0..Len(pending), NEW f, Take(n, f), format' = format, final' = final,
           format = "json", IF n < Len(pending) THEN pending[n + 1] \notin Space ELSE final
    PROVE  UnitInv'
<1>1. CASE n > MaxUnit
  BY <1>1, FailEnds DEF Take
<1>2. CASE ~(n > MaxUnit)
  <2>1. unit' = n /\ pc' = "validate" /\ pending' = pending
    BY <1>2 DEF Take
  <2>2. QED
    BY <2>1 DEF UnitInv, InUnit
<1>3. QED
  BY <1>1, <1>2

LEMMA WaitUnit ==
    ASSUME UnitInv, ~InUnit, format' = format, NEW f, Wait(f),
           format = "newline" => \A i \in 1..f.offset : pending[i] # "nl"
    PROVE  UnitInv'
<1>1. CASE final
  BY <1>1, FailEnds DEF Wait, NoUnit
<1>2. CASE ~final
  <2>1. pc' = "accept" /\ pending' = pending /\ framer' = f
    BY <1>2 DEF Wait, NoUnit
  <2>2. QED
    BY <2>1 DEF UnitInv, InUnit
<1>3. QED
  BY <1>1, <1>2

(* What frameScanner.newline answers: the first line, or that none ends.   *)
LEMMA NewlineAnswers ==
    ASSUME StreamInv, UnitInv, ScanNewline
    PROVE  \E f : \/ /\ \E n \in 0..Len(pending) : Take(n, f) /\ n = FirstUnit(pending)
                     /\ final \/ Determined(pending)
                  \/ /\ Wait(f) /\ ~final /\ f.offset = Len(pending)
                     /\ \A i \in 1..Len(pending) : pending[i] # "nl"
<1> DEFINE ends   == {i \in (framer.offset + 1)..Len(pending) : pending[i] = "nl"}
           offset == IF ends = {} THEN Len(pending) ELSE Min(ends)
           f      == [framer EXCEPT !.offset = offset]
<1>1. /\ pc = "scan" /\ format = "newline" /\ pending # <<>>
      /\ IF ends # {} \/ final THEN Take(offset, f) ELSE Wait(f)
  BY DEF ScanNewline
<1>2. /\ pending \in Seq(Byte) /\ Len(pending) \in Nat \ {0}
      /\ framer \in Framer /\ framer.offset \in Nat
  BY <1>1 DEF StreamInv, StreamType, Framer
<1>3. ~InUnit /\ \A i \in 1..framer.offset : pending[i] # "nl"
  BY <1>1 DEF UnitInv, InUnit
<1>4. CASE ends # {}
  <2>1. PICK j \in 1..Len(pending) : pending[j] = "nl"
    BY <1>2, <1>4
  <2>2. PICK n \in 1..Len(pending) :
           /\ pending[n] = "nl" /\ \A i \in 1..(n - 1) : pending[i] # "nl"
           /\ NewlineBoundary(pending) = n
    BY <1>2, <2>1, FirstNewline
  <2>3. n \in ends /\ \A i \in ends : n <= i
    BY <1>2, <1>3, <2>2
  <2>4. ends \in SUBSET Int
    OBVIOUS
  <2> HIDE DEF ends
  <2>5. Min(ends) = n
    BY <2>3, <2>4, MinIs
  <2>6. offset = FirstUnit(pending) /\ offset = n
    BY <1>1, <1>4, <2>2, <2>5, FirstUnitIs
  <2>7. Determined(pending)
    BY <1>1, <1>2, <2>2 DEF Determined
  <2>8. Take(offset, f) /\ offset \in 0..Len(pending)
    BY <1>1, <1>2, <1>4, <2>6
  <2> HIDE DEF offset, f
  <2>9. QED
    BY <2>6, <2>7, <2>8
<1>5. CASE ends = {}
  <2>1. \A i \in 1..Len(pending) : pending[i] # "nl"
    BY <1>2, <1>3, <1>5
  <2> HIDE DEF ends
  <2>2. offset = Len(pending)
    BY <1>5
  <2>3. CASE final
    <3>1. offset = FirstUnit(pending) /\ offset \in 0..Len(pending)
      BY <1>1, <1>2, <2>1, <2>2, NoNewline, FirstUnitIs
    <3>2. Take(offset, f)
      BY <1>1, <2>3
    <3> HIDE DEF offset, f
    <3>3. QED
      BY <2>3, <3>1, <3>2
  <2>4. CASE ~final
    <3>1. Wait(f)
      BY <1>1, <1>5, <2>4
    <3>2. f.offset = Len(pending)
      <4> HIDE DEF offset
      <4>1. QED
        BY <1>2, <2>2 DEF Framer
    <3> HIDE DEF f
    <3>3. QED
      BY <2>1, <2>4, <3>1, <3>2
  <2>5. QED
    BY <2>3, <2>4
<1>6. QED
  BY <1>4, <1>5

LEMMA NewlineUnit ==
    ASSUME StreamInv, UnitInv, ScanNewline
    PROVE  UnitInv'
<1>1. pc = "scan" /\ format = "newline" /\ format' = format /\ final' = final /\ ~InUnit
  BY DEF ScanNewline, history, InUnit
<1>2. PICK f : \/ /\ \E n \in 0..Len(pending) : Take(n, f) /\ n = FirstUnit(pending)
                  /\ final \/ Determined(pending)
               \/ /\ Wait(f) /\ ~final /\ f.offset = Len(pending)
                  /\ \A i \in 1..Len(pending) : pending[i] # "nl"
  BY NewlineAnswers
<1>3. ASSUME NEW n \in 0..Len(pending), Take(n, f), n = FirstUnit(pending),
             final \/ Determined(pending)
      PROVE  UnitInv'
  BY <1>1, <1>3, TakeUnit
<1>4. QED
  BY <1>1, <1>2, <1>3, WaitUnit

(* A byte that is wrong in the window is wrong in the unit cut from it, or *)
(* was cut off, and then the unit ends in the byte before it.              *)
LEMMA WrongInWindow ==
    ASSUME NEW s \in Seq(Byte), NEW w \in 1..Len(s), NEW n \in {w - 1, w},
           NEW i \in 1..n, InvalidAt(SubSeq(s, 1, w), i)
    PROVE  ~ValidUTF8(SubSeq(s, 1, n))
<1> DEFINE a == SubSeq(s, 1, w)
           b == SubSeq(s, 1, n)
<1>1. Len(s) \in Nat /\ w \in 0..Len(s) /\ n \in 0..Len(s) /\ n \in Nat /\ w \in Nat
  OBVIOUS
<1>2. /\ a \in Seq(Byte) /\ Len(a) = w /\ \A j \in 1..w : a[j] = s[j]
      /\ b \in Seq(Byte) /\ Len(b) = n /\ \A j \in 1..n : b[j] = s[j]
  BY <1>1, CutAt
<1>3. InvalidAt(a, i)
  OBVIOUS
<1> HIDE DEF a, b
<1>4. \A j \in 1..n : a[j] = b[j]
  <2>1. \A j \in 1..n : j \in 1..w
    BY <1>1
  <2>2. QED
    BY <1>2, <2>1
<1>5. CASE InvalidAt(b, i)
  <2>1. i \in DOMAIN b
    BY <1>2
  <2>2. QED
    BY <1>5, <2>1 DEF ValidUTF8, b
<1>6. CASE ~InvalidAt(b, i)
  <2>1. i # 1 => i - 1 \in 1..n
    BY <1>1
  <2>2. a[i] = b[i] /\ (i # 1 => a[i - 1] = b[i - 1]) /\ (i < n => a[i + 1] = b[i + 1])
    BY <1>1, <1>4, <2>1
  <2>3. a[i] = "lead" /\ i < w /\ ~(i < n)
    <3>1. Len(a) = w /\ Len(b) = n
      BY <1>2
    <3>2. \/ a[i] = "bad"
          \/ a[i] = "cont" /\ (i = 1 \/ a[i - 1] # "lead")
          \/ a[i] = "lead" /\ i < w /\ a[i + 1] # "cont"
      BY <1>3, <3>1 DEF InvalidAt
    <3>3. ~(\/ b[i] = "bad"
            \/ b[i] = "cont" /\ (i = 1 \/ b[i - 1] # "lead")
            \/ b[i] = "lead" /\ i < n /\ b[i + 1] # "cont")
      BY <1>6, <3>1 DEF InvalidAt
    <3>4. QED
      BY <2>2, <3>2, <3>3, Zenon
  <2>4. i = n
    BY <1>1, <2>3
  <2>5. b # <<>>
    BY <1>1, <1>2, <2>4
  <2>6. b[Len(b)] = "lead"
    BY <1>2, <2>2, <2>3, <2>4
  <2>7. QED
    BY <2>5, <2>6 DEF ValidUTF8, b
<1>7. QED
  BY <1>5, <1>6 DEF b

(* What the incremental framing answers.                                   *)
LEMMA PartialAnswers ==
    ASSUME StreamInv, ScanPartial
    PROVE  \/ Wait(framer)
           \/ \E n \in 0..Len(pending) :
                 /\ n = FirstUnit(pending)
                 /\ final \/ Determined(pending)
                 /\ \/ Take(n, framer)
                    \/ /\ Fail("incomplete", "encoding", "none")
                       /\ n = 0 \/ ~ValidUTF8(SubSeq(pending, 1, n))
<1> DEFINE w == Min({Len(pending), MaxUnit})
           window == SubSeq(pending, 1, w)
           n == IF window[Len(window)] = "lead" THEN Len(window) - 1 ELSE Len(window)
<1>1. /\ format = "partial" /\ pending # <<>>
      /\ IF Len(pending) < MaxUnit /\ ~final THEN Wait(framer)
         ELSE IF n = 0 \/ \E i \in 1..n : InvalidAt(window, i)
         THEN Fail("incomplete", "encoding", "none")
         ELSE Take(n, framer)
  BY DEF ScanPartial
<1>2. pending \in Seq(Byte) /\ Len(pending) \in Nat /\ MaxUnit \in Nat
  BY Limits DEF StreamInv, StreamType
<1>3. CASE Len(pending) < MaxUnit /\ ~final
  BY <1>1, <1>3
<1>4. CASE ~(Len(pending) < MaxUnit /\ ~final)
  <2>1. final \/ Determined(pending)
    BY <1>1, <1>2, <1>4 DEF Determined
  <2>2. Len(window) \in 1..Len(pending)
    BY <1>1, <1>2, WindowOf
  <2>3. Len(window) = w /\ w \in 1..Len(pending)
    <3>1. w = IF Len(pending) <= MaxUnit THEN Len(pending) ELSE MaxUnit
      BY <1>2, MinOfTwo
    <3>2. Len(window) = IF Len(pending) <= MaxUnit THEN Len(pending) ELSE MaxUnit
      BY <1>1, <1>2, WindowOf
    <3>3. QED
      BY <2>2, <3>1, <3>2
  <2> HIDE DEF w
  <2>4. n = FirstUnit(pending)
    <3>1. FirstUnit(pending) = Len(window) - (IF window[Len(window)] = "lead" THEN 1 ELSE 0)
      BY <1>1, FirstUnitIs DEF w
    <3> HIDE DEF window
    <3>2. QED
      BY <2>2, <3>1
  <2>5. n \in {w - 1, w} /\ n \in 0..Len(pending)
    <3> HIDE DEF window
    <3>1. QED
      BY <1>2, <2>3
  <2> HIDE DEF n
  <2>6. CASE n = 0 \/ \E i \in 1..n : InvalidAt(window, i)
    <3>1. n = 0 \/ ~ValidUTF8(SubSeq(pending, 1, n))
      BY <1>2, <2>3, <2>5, <2>6, WrongInWindow
    <3>2. Fail("incomplete", "encoding", "none")
      BY <1>1, <1>4, <2>6
    <3>3. QED
      BY <2>1, <2>4, <2>5, <3>1, <3>2
  <2>7. CASE ~(n = 0 \/ \E i \in 1..n : InvalidAt(window, i))
    <3>1. Take(n, framer)
      BY <1>1, <1>4, <2>7
    <3>2. QED
      BY <2>1, <2>4, <2>5, <3>1
  <2>8. QED
    BY <2>6, <2>7
<1>5. QED
  BY <1>3, <1>4

LEMMA PartialUnit ==
    ASSUME StreamInv, UnitInv, ScanPartial
    PROVE  UnitInv'
<1>1. pc = "scan" /\ format = "partial" /\ format' = format /\ final' = final /\ ~InUnit
  BY DEF ScanPartial, history, InUnit
<1>2. ASSUME NEW n \in 0..Len(pending), n = FirstUnit(pending), final \/ Determined(pending),
             Take(n, framer) \/ Fail("incomplete", "encoding", "none")
      PROVE  UnitInv'
  BY <1>1, <1>2, TakeUnit, FailEnds
<1>3. QED
  BY <1>1, <1>2, WaitUnit, PartialAnswers

LEMMA ValueUnit ==
    ASSUME StreamInv, UnitInv, ScanJSON \/ FinishJSON
    PROVE  UnitInv'
<1>1. pc = "scan" /\ format = "json" /\ format' = format /\ final' = final /\ ~InUnit
  BY DEF ScanJSON, FinishJSON, history, InUnit
<1>2. /\ pending \in Seq(Byte) /\ Len(pending) \in Nat /\ framer.offset \in Nat
      /\ framer.offset <= Len(pending)
  BY DEF StreamInv, StreamType, Framer
<1> DEFINE n == framer.offset
<1>3. CASE Take(n, framer) /\ n < Len(pending) /\ pending[n + 1] \notin Space
  <2>1. n \in 0..Len(pending)
    BY <1>2
  <2>2. QED
    BY <1>1, <1>3, <2>1, TakeValue
<1>4. CASE Take(n, framer) /\ n = Len(pending) /\ final
  <2>1. n \in 0..Len(pending) /\ ~(n < Len(pending))
    BY <1>2, <1>4
  <2>2. QED
    BY <1>1, <1>4, <2>1, TakeValue
<1>5. CASE pc' = pc
  BY <1>1, <1>5 DEF UnitInv, InUnit
<1>6. CASE Wait(framer)
  BY <1>1, <1>6, WaitUnit
<1>7. CASE \/ Fail("malformed", "framing", "none") \/ Fail("limit", "unit limit", "none")
           \/ Fail("incomplete", "framing", "none")
  BY <1>7, FailEnds
<1>8. QED
  BY <1>3, <1>4, <1>5, <1>6, <1>7 DEF ScanJSON, FinishJSON

LEMMA AcceptUnit ==
    ASSUME StreamInv, StreamInv', UnitInv, AcceptInput
    PROVE  UnitInv'
<1>1. pc = "accept" /\ ~InUnit /\ format' = format
  BY DEF AcceptInput, InUnit
<1>2. CASE Fail("limit", "unit limit", "none") \/ Fail("limit", "pending limit", "none")
  BY <1>2, FailEnds
<1>3. CASE ~(UnitRoom <= 0) /\ ~(PendingRoom <= 0) /\ Buffer
  <2> DEFINE n == Min({UnitRoom, PendingRoom, Len(rest)})
  <2>1. /\ pending' = pending \o SubSeq(rest, 1, n) /\ framer' = framer
        /\ pc' \in {"accept", "scan"}
    BY <1>3 DEF Buffer
  <2>2. /\ pending \in Seq(Byte) /\ Len(pending) \in Nat /\ framer.offset \in Nat
        /\ framer.offset <= Len(pending)
    BY DEF StreamInv, StreamType, Framer
  <2> DEFINE t == SubSeq(rest, 1, n)
  <2> HIDE DEF n
  <2>3. t \in Seq(Byte)
    <3>1. rest \in Seq(Byte) /\ format \in Formats /\ Len(rest) \in Nat
          /\ MaxPending[format] \in Nat /\ MaxUnit \in Nat
      BY Limits DEF StreamInv, StreamType
    <3>2. UnitRoom \in Int /\ PendingRoom \in Int /\ Len(rest) \in Int
      BY <2>2, <3>1 DEF UnitRoom, PendingRoom
    <3>3. /\ n \in {UnitRoom, PendingRoom, Len(rest)} /\ n <= Len(rest)
      BY <3>2, MinOfThree DEF n
    <3>4. n \in Int /\ \A i \in 1..n : rest[i] \in Byte
      BY <3>1, <3>2, <3>3
    <3>5. QED
      BY <3>4, SubSeqProperties
  <2> HIDE DEF t
  <2>4. \A i \in 1..Len(pending) : (pending \o t)[i] = pending[i]
    BY <2>2, <2>3, ConcatProperties
  <2>5. \A i \in 1..framer.offset : pending'[i] = pending[i]
    BY <2>1, <2>2, <2>4 DEF t
  <2>6. QED
    BY <1>1, <2>1, <2>5 DEF UnitInv, InUnit
<1>4. QED
  BY <1>2, <1>3 DEF AcceptInput

LEMMA UnitStep ==
    ASSUME StreamInv, StreamInv', UnitInv, [Next]_vars
    PROVE  UnitInv'
<1>1. format' = format
  BY InputSteps
<1>2. CASE UNCHANGED vars
  <2>1. UNCHANGED <<format, pending, framer, pc, unit, final>>
    BY <1>2 DEF vars, running
  <2>2. FirstUnit(pending)' = FirstUnit(pending) /\ Determined(pending)' = Determined(pending)
    BY <2>1 DEF FirstUnit, Determined, Whole
  <2>3. QED
    BY <2>1, <2>2 DEF UnitInv, InUnit
<1>3. ASSUME NEW p \in Chunks, WriteContext(p) PROVE UnitInv'
  BY <1>3, KeptUnit DEF WriteContext, InUnit
<1>4. CASE WriteRefused \/ Abort \/ RejectUnit \/ ScopeFails \/ GuardLate \/ GuardStops
           \/ InvalidCount
  BY <1>4, FailEnds
     DEF WriteRefused, Abort, RejectUnit, ScopeFails, GuardLate, GuardStops, InvalidCount
<1>5. CASE Complete
  <2>1. pc = "idle" /\ final' = TRUE
    BY <1>5 DEF Complete
  <2>2. CASE Fail("timeout", "context", "none") \/ Fail("limit", "unit limit", "none")
    BY <2>2, FailEnds
  <2>3. CASE Whole /\ Take(Len(pending), framer)
    BY <1>1, <2>1, <2>3, FirstUnitIs, TakeUnit DEF Whole
  <2>4. CASE pc' = "scan" /\ UNCHANGED <<pending, framer, outcome, rest, unit, approved>>
    BY <1>1, <2>1, <2>4, KeptUnit DEF InUnit
  <2>5. QED
    BY <1>5, <2>2, <2>3, <2>4 DEF Complete
<1>6. CASE DeliverFallback \/ WriteReturns
  BY <1>6, KeptUnit DEF DeliverFallback, WriteReturns, InUnit
<1>7. CASE Closed
  BY <1>2, <1>7 DEF Closed
<1>8. CASE NothingPending
  BY <1>1, <1>8, WaitUnit DEF NothingPending, UnitInv, InUnit
<1>9. CASE ScanJSON \/ FinishJSON
  BY <1>9, ValueUnit
<1>10. ASSUME NEW grown \in OutputSizes, NEW valid \in BOOLEAN, GuardApproves(grown, valid)
       PROVE  UnitInv'
  <2>1. pc = "validate" /\ final' = final
    BY <1>10 DEF GuardApproves
  <2>2. CASE \/ Fail("fault", "guard", "none") \/ Fail("limit", "expansion", "none")
             \/ Fail("limit", "output limit", "none")
    BY <2>2, FailEnds
  <2>3. CASE pc' = "write" /\ UNCHANGED <<pending, framer, rest, unit>>
    <3>1. /\ FirstUnit(pending)' = FirstUnit(pending)
          /\ Determined(pending)' = Determined(pending)
      BY <1>1, <2>3 DEF FirstUnit, Determined, Whole
    <3>2. format = "json" => Structural(SubSeq(pending, 1, unit))
      BY <1>10 DEF GuardApproves, UnitBytes, ValidRepresentation, Structural
    <3>3. QED
      BY <1>1, <2>1, <2>3, <3>1, <3>2 DEF UnitInv, InUnit
  <2>4. QED
    BY <1>10, <2>2, <2>3 DEF GuardApproves
<1>11. CASE Written
  BY <1>11, EndedUnit DEF Written
<1>12. ASSUME NEW n \in 0..approved, ShortWrite(n) PROVE UnitInv'
  BY <1>12, FailEnds DEF ShortWrite
<1>13. QED
  BY <1>2, <1>3, <1>4, <1>5, <1>6, <1>7, <1>8, <1>9, <1>10, <1>11, <1>12,
     AcceptUnit, NewlineUnit, PartialUnit DEF Next, Call, Proceed

LEMMA FrameStep ==
    StreamInv /\ StreamInv' /\ FrameInv /\ [Next]_vars => FrameInv'
<1> SUFFICES ASSUME StreamInv, StreamInv', FrameInv, [Next]_vars
             PROVE  UnitInv' /\ \A k \in DOMAIN cuts' : Settled(k)'
  BY DEF FrameInv
<1>1. format' = format /\ UnitInv /\ (\A k \in 1..Len(cuts) : Settled(k))
      /\ cuts \in Seq(Nat) /\ Len(cuts) \in Nat
  BY InputSteps DEF FrameInv, StreamInv, StreamType
<1>2. UnitInv'
  BY <1>1, UnitStep
<1>3. CASE cuts' = cuts
  <2>1. ASSUME NEW k \in 1..Len(cuts) PROVE Settled(k)'
    <3>1. Start(k)' = Start(k)
      BY <1>3 DEF Start
    <3>2. QED
      BY <1>1, <1>3, <3>1, SettledStays
  <2>2. QED
    BY <1>1, <1>2, <1>3, <2>1
<1>4. CASE Written
  <2>1. PICK e \in Nat : cuts' = Append(cuts, e)
    <3>1. cuts' = Append(cuts, Taken + unit) /\ Taken' = Taken + unit
          /\ Taken' \in 0..Len(offered)
      BY <1>4, WrittenMoves
    <3>2. Len(offered) \in Nat
      BY DEF StreamInv, StreamType
    <3> HIDE DEF Taken
    <3>3. Taken + unit \in Nat
      BY <3>1, <3>2
    <3>4. QED
      BY <3>1, <3>3
  <2>2. /\ Len(cuts') = Len(cuts) + 1 /\ cuts' \in Seq(Nat)
        /\ \A k \in 1..Len(cuts) : cuts'[k] = cuts[k]
    BY <1>1, <2>1, AppendProperties
  <2>3. ASSUME NEW k \in 1..Len(cuts) PROVE Settled(k)'
    <3>1. Start(k)' = Start(k)
      <4>1. k # 1 => k - 1 \in 1..Len(cuts)
        BY <1>1
      <4>2. QED
        BY <2>2, <4>1 DEF Start
    <3>2. QED
      BY <1>1, <2>2, <3>1, SettledStays
  <2>4. ASSUME NEW k \in 1..Len(cuts'), k \notin 1..Len(cuts) PROVE Settled(k)'
    <3>1. k = Len(cuts) + 1
      BY <1>1, <2>2, <2>4
    <3>2. QED
      BY <1>1, <1>4, <3>1, WrittenSettles
  <2>5. QED
    BY <1>2, <2>2, <2>3, <2>4
<1>5. QED
  BY <1>3, <1>4, InputSteps

LEMMA FrameInvariant == Spec => []FrameInv
<1>1. Init => FrameInv
  <2> SUFFICES ASSUME Init PROVE UnitInv /\ \A k \in DOMAIN cuts : Settled(k)
    BY DEF FrameInv
  <2>1. framer.offset = 0 /\ pc = "idle" /\ cuts = <<>>
    BY DEF Init, FreshFramer
  <2>2. QED
    BY <2>1 DEF UnitInv, InUnit
<1>2. QED
  BY <1>1, FrameStep, StreamInvariant, PTL DEF Spec

(* However the input is cut into writes, and whatever is written later,    *)
(* the k-th unit released of a whole response, of lines, of JSON values or *)
(* of an incremental text is the k-th unit of the input.                   *)
THEOREM FramingAlwaysCanonical == Spec => []FramingCanonical
<1>1. FrameInv => FramingCanonical
  BY DEF FrameInv, Settled, FramingCanonical, After
<1>2. QED
  BY <1>1, FrameInvariant, PTL

-----------------------------------------------------------------------------
(* Refusals.  What well framed means is a recursion on the text; all that  *)
(* is used of it is that it satisfies its equation.  That some function    *)
(* does is shown by one without recursion: the places where units end.     *)

(* ends holds 0 and where each unit of s ends that starts in ends.         *)
Units(s, ends) ==
    /\ 0 \in ends
    /\ \A e \in ends :
          \/ e >= Len(s)
          \/ LET left == SubSeq(s, e + 1, Len(s))
                 n    == FirstUnit(left)
             IN  n \in 1..MaxUnit /\ ValidRepresentation(SubSeq(left, 1, n)) /\ e + n \in ends

\* Cut unit by unit, s comes to its end.
Divides(s) == \E ends \in SUBSET Nat : Units(s, ends)

LEMMA AfterUnit ==
    ASSUME NEW s \in Seq(Byte), NEW n \in Nat \ {0}
    PROVE  /\ SubSeq(s, n + 1, Len(s)) \in Seq(Byte)
           /\ Len(SubSeq(s, n + 1, Len(s))) = IF n <= Len(s) THEN Len(s) - n ELSE 0
<1>1. Len(s) \in Nat
  OBVIOUS
<1>2. CASE n <= Len(s)
  <2>1. n \in 0..Len(s)
    BY <1>1, <1>2
  <2>2. QED
    BY <1>2, <2>1, CutAt
<1>3. CASE ~(n <= Len(s))
  <2>1. n + 1 \in Nat /\ n + 1 > Len(s)
    BY <1>1, <1>3
  <2>2. SubSeq(s, n + 1, Len(s)) = <<>>
    BY <1>1, <2>1
  <2>3. QED
    BY <1>3, <2>2
<1>4. QED
  BY <1>2, <1>3

(* The recursion, read off such a set from left to right and back.         *)
LEMMA DividesFirst ==
    ASSUME NEW s \in Seq(Byte), s # <<>>, Divides(s)
    PROVE  LET n == FirstUnit(s)
           IN  /\ n \in 1..MaxUnit
               /\ ValidRepresentation(SubSeq(s, 1, n))
               /\ Divides(SubSeq(s, n + 1, Len(s)))
<1> DEFINE n == FirstUnit(s)
           u == SubSeq(s, n + 1, Len(s))
           extent == Len(s)
<1>1. PICK ends \in SUBSET Nat : Units(s, ends)
  BY DEF Divides
<1>2. extent \in Nat /\ extent # 0 /\ 0 \in 0..extent
  OBVIOUS
<1>3. SubSeq(s, 0 + 1, extent) = s
  OBVIOUS
<1>4. 0 \in ends /\ ~(0 >= extent)
  BY <1>1, <1>2 DEF Units
<1>5. n \in 1..MaxUnit /\ ValidRepresentation(SubSeq(s, 1, n)) /\ 0 + n \in ends
  BY <1>1, <1>3, <1>4 DEF Units
<1>6. n \in Nat \ {0} /\ MaxUnit \in Nat /\ n \in ends
  BY <1>5, Limits
<1> HIDE DEF n
<1>7. u \in Seq(Byte) /\ Len(u) = IF n <= extent THEN extent - n ELSE 0
  BY <1>6, AfterUnit
<1> DEFINE later == {e \in Nat : n + e \in ends}
<1>8. 0 \in later
  BY <1>6
<1>9. ASSUME NEW e \in later, ~(e >= Len(u))
      PROVE  LET left == SubSeq(u, e + 1, Len(u))
                 m    == FirstUnit(left)
             IN  m \in 1..MaxUnit /\ ValidRepresentation(SubSeq(left, 1, m)) /\ e + m \in later
  <2>1. e \in Nat /\ n + e \in ends
    OBVIOUS
  <2>2. n <= extent /\ e \in 0..(extent - n) /\ ~(n + e >= extent) /\ n \in 0..extent
    BY <1>2, <1>6, <1>7, <1>9, <2>1
  <2>3. SubSeq(u, e + 1, Len(u)) = SubSeq(s, n + e + 1, extent)
    BY <2>2, RestOfRest
  <2> DEFINE left == SubSeq(s, n + e + 1, extent)
             m    == FirstUnit(left)
  <2>4. m \in 1..MaxUnit /\ ValidRepresentation(SubSeq(left, 1, m)) /\ (n + e) + m \in ends
    BY <1>1, <2>1, <2>2 DEF Units
  <2> HIDE DEF m, left
  <2>5. (n + e) + m = n + (e + m) /\ e + m \in Nat
    BY <1>6, <2>1, <2>4
  <2>6. e + m \in later
    BY <2>4, <2>5
  <2>7. QED
    BY <2>3, <2>4, <2>6 DEF m, left
<1> HIDE DEF u
<1>10. Units(u, later)
  <2> HIDE DEF later
  <2>1. QED
    BY <1>8, <1>9 DEF Units
<1>11. later \in SUBSET Nat
  OBVIOUS
<1>12. Divides(u)
  <2> HIDE DEF later
  <2>1. QED
    BY <1>10, <1>11 DEF Divides
<1>13. QED
  BY <1>5, <1>12 DEF n, u

LEMMA DividesMore ==
    ASSUME NEW s \in Seq(Byte), FirstUnit(s) \in 1..MaxUnit,
           ValidRepresentation(SubSeq(s, 1, FirstUnit(s))),
           Divides(SubSeq(s, FirstUnit(s) + 1, Len(s)))
    PROVE  Divides(s)
<1> DEFINE n == FirstUnit(s)
           u == SubSeq(s, n + 1, Len(s))
           extent == Len(s)
<1>1. PICK later \in SUBSET Nat : Units(u, later)
  BY DEF Divides
<1>2. extent \in Nat /\ SubSeq(s, 0 + 1, extent) = s
  OBVIOUS
<1>3. n \in Nat \ {0} /\ n \in 1..MaxUnit /\ ValidRepresentation(SubSeq(s, 1, n))
  BY Limits
<1> HIDE DEF n
<1>4. u \in Seq(Byte) /\ Len(u) = IF n <= extent THEN extent - n ELSE 0
  BY <1>3, AfterUnit
<1> DEFINE ends == {0} \cup {n + e : e \in later}
<1>5. 0 \in later
  BY <1>1 DEF Units
<1>6. n \in ends
  BY <1>3, <1>5
<1>7. ASSUME NEW e \in later, ~(n + e >= extent)
      PROVE  LET left == SubSeq(s, (n + e) + 1, extent)
                 m    == FirstUnit(left)
             IN  /\ m \in 1..MaxUnit /\ ValidRepresentation(SubSeq(left, 1, m))
                 /\ (n + e) + m \in ends
  <2>1. e \in Nat
    OBVIOUS
  <2>2. n <= extent /\ e \in 0..(extent - n) /\ ~(e >= Len(u)) /\ n \in 0..extent
    BY <1>2, <1>3, <1>4, <1>7, <2>1
  <2>3. SubSeq(u, e + 1, Len(u)) = SubSeq(s, n + e + 1, extent)
    BY <2>2, RestOfRest
  <2> DEFINE left == SubSeq(u, e + 1, Len(u))
             m    == FirstUnit(left)
  <2> HIDE DEF u
  <2>4. m \in 1..MaxUnit /\ ValidRepresentation(SubSeq(left, 1, m)) /\ e + m \in later
    BY <1>1, <2>2 DEF Units
  <2> HIDE DEF m, left
  <2>5. (n + e) + m = n + (e + m)
    BY <1>3, <2>1, <2>4
  <2>6. (n + e) + m \in ends
    BY <2>4, <2>5
  <2>7. QED
    BY <2>3, <2>4, <2>6 DEF m, left
<1>8. \A e \in ends : e = 0 \/ \E x \in later : e = n + x
  OBVIOUS
<1>9. 0 \in ends /\ ends \in SUBSET Nat
  BY <1>3
<1> HIDE DEF ends, u
<1>10. Units(s, ends)
  <2>1. ASSUME NEW e \in ends, ~(e >= extent)
        PROVE  LET left == SubSeq(s, e + 1, extent)
                   m    == FirstUnit(left)
               IN  /\ m \in 1..MaxUnit /\ ValidRepresentation(SubSeq(left, 1, m))
                   /\ e + m \in ends
    <3>1. CASE e = 0
      <4>1. 0 + n \in ends
        BY <1>3, <1>6
      <4>2. QED
        BY <1>2, <1>3, <3>1, <4>1 DEF n
    <3>2. ASSUME NEW x \in later, e = n + x
          PROVE  LET left == SubSeq(s, e + 1, extent)
                     m    == FirstUnit(left)
                 IN  /\ m \in 1..MaxUnit /\ ValidRepresentation(SubSeq(left, 1, m))
                     /\ e + m \in ends
      BY <1>7, <2>1, <3>2
    <3>3. QED
      BY <1>8, <3>1, <3>2
  <2>2. QED
    BY <1>9, <2>1 DEF Units
<1>11. QED
  BY <1>9, <1>10 DEF Divides

LEMMA EmptyDivides == Divides(<<>>)
<1>1. Units(<<>>, {0})
  BY DEF Units
<1>2. QED
  BY <1>1 DEF Divides

LEMMA WellFramedDef ==
    WellFramed = [s \in Seq(Byte) |->
                     IF Whole THEN Len(s) <= MaxUnit /\ ValidRepresentation(s)
                     ELSE \/ s = <<>>
                          \/ LET n == FirstUnit(s)
                             IN  /\ n \in 1..MaxUnit
                                 /\ ValidRepresentation(SubSeq(s, 1, n))
                                 /\ WellFramed[SubSeq(s, n + 1, Len(s))]]
<1> DEFINE G(f) == [s \in Seq(Byte) |->
                     IF Whole THEN Len(s) <= MaxUnit /\ ValidRepresentation(s)
                     ELSE \/ s = <<>>
                          \/ LET n == FirstUnit(s)
                             IN  /\ n \in 1..MaxUnit
                                 /\ ValidRepresentation(SubSeq(s, 1, n))
                                 /\ f[SubSeq(s, n + 1, Len(s))]]
           h == [s \in Seq(Byte) |->
                     IF Whole THEN Len(s) <= MaxUnit /\ ValidRepresentation(s)
                     ELSE Divides(s)]
<1>1. ASSUME ~Whole, NEW s \in Seq(Byte)
      PROVE  Divides(s) <=> \/ s = <<>>
                            \/ LET n == FirstUnit(s)
                               IN  /\ n \in 1..MaxUnit
                                   /\ ValidRepresentation(SubSeq(s, 1, n))
                                   /\ h[SubSeq(s, n + 1, Len(s))]
  <2> DEFINE n == FirstUnit(s)
             u == SubSeq(s, n + 1, Len(s))
  <2>1. ASSUME n \in 1..MaxUnit PROVE h[u] <=> Divides(u)
    <3>1. n \in Nat \ {0}
      BY <2>1, Limits
    <3>2. u \in Seq(Byte)
      <4> HIDE DEF n
      <4>1. QED
        BY <3>1, AfterUnit
    <3> HIDE DEF u
    <3>3. QED
      BY <1>1, <3>2
  <2>2. QED
    <3> HIDE DEF h
    <3>1. QED
      BY <2>1, DividesFirst, DividesMore, EmptyDivides
<1>2. h = G(h)
  <2>1. ASSUME NEW s \in Seq(Byte) PROVE h[s] = G(h)[s]
    <3>1. CASE Whole
      BY <3>1
    <3>2. CASE ~Whole
      <4>1. h[s] = Divides(s)
        BY <3>2
      <4> HIDE DEF h
      <4>2. G(h)[s] = (\/ s = <<>>
                       \/ LET n == FirstUnit(s)
                          IN  /\ n \in 1..MaxUnit
                              /\ ValidRepresentation(SubSeq(s, 1, n))
                              /\ h[SubSeq(s, n + 1, Len(s))])
        BY <3>2
      <4>3. Divides(s) \in BOOLEAN
        BY DEF Divides
      <4> HIDE DEF G
      <4>4. QED
        BY <1>1, <3>2, <4>1, <4>2, <4>3
    <3>3. QED
      BY <3>1, <3>2
  <2>2. QED
    BY <2>1
<1>3. \E f : f = G(f)
  <2> HIDE DEF G, h
  <2>1. QED
    BY <1>2
<1>4. WellFramed = G(WellFramed)
  BY <1>3 DEF WellFramed
<1>5. QED
  BY <1>4

LEMMA WellFramedStarts ==
    ASSUME ~Whole, NEW s \in Seq(Byte), s # <<>>, WellFramed[s]
    PROVE  LET n == FirstUnit(s)
           IN  /\ n \in 1..MaxUnit
               /\ ValidRepresentation(SubSeq(s, 1, n))
               /\ WellFramed[SubSeq(s, n + 1, Len(s))]
<1> DEFINE f == WellFramed
<1>1. f = [x \in Seq(Byte) |->
                     IF Whole THEN Len(x) <= MaxUnit /\ ValidRepresentation(x)
                     ELSE \/ x = <<>>
                          \/ LET n == FirstUnit(x)
                             IN  /\ n \in 1..MaxUnit
                                 /\ ValidRepresentation(SubSeq(x, 1, n))
                                 /\ f[SubSeq(x, n + 1, Len(x))]]
  BY WellFramedDef
<1>2. f[s]
  OBVIOUS
<1> HIDE DEF f
<1>3. QED
  <2>1. LET n == FirstUnit(s)
        IN  n \in 1..MaxUnit /\ ValidRepresentation(SubSeq(s, 1, n))
            /\ f[SubSeq(s, n + 1, Len(s))]
    BY <1>1, <1>2
  <2>2. QED
    BY <2>1 DEF f

LEMMA WholeFramed ==
    ASSUME Whole, NEW s \in Seq(Byte), WellFramed[s]
    PROVE  Len(s) <= MaxUnit /\ ValidRepresentation(s)
<1> DEFINE f == WellFramed
<1>1. f = [x \in Seq(Byte) |->
                     IF Whole THEN Len(x) <= MaxUnit /\ ValidRepresentation(x)
                     ELSE \/ x = <<>>
                          \/ LET n == FirstUnit(x)
                             IN  /\ n \in 1..MaxUnit
                                 /\ ValidRepresentation(SubSeq(x, 1, n))
                                 /\ f[SubSeq(x, n + 1, Len(x))]]
  BY WellFramedDef
<1>2. f[s]
  OBVIOUS
<1> HIDE DEF f
<1>3. QED
  BY <1>1, <1>2

(* What the released units leave of a well framed input is well framed.    *)
LEMMA Peeled ==
    ASSUME StreamInv, ~Whole,
           \A k \in 1..Len(cuts) : Settled(k) /\ Start(k) < Len(offered),
           NEW p \in Seq(Byte), final => p = <<>>, WellFramed[offered \o p]
    PROVE  WellFramed[Unreleased \o p]
<1> DEFINE extent == Len(offered)
           N    == Len(cuts)
           T    == {j \in 0..N : WellFramed[After(j + 1) \o p]}
<1>1. /\ offered \in Seq(Byte) /\ extent \in Nat /\ cuts \in Seq(Nat) /\ N \in Nat
      /\ Taken \in 0..extent
  BY DEF StreamInv, StreamType, Conserved
<1>2. 0 \in T
  <2>1. After(1) = offered
    BY <1>1 DEF After, Start
  <2>2. QED
    BY <1>1, <2>1
<1>3. ASSUME NEW j \in 0..(N - 1), j \in T PROVE j + 1 \in T
  <2> DEFINE k == j + 1
             s == After(k)
             m == FirstUnit(s)
             u == s \o p
  <2>1. k \in 1..N /\ k \in Nat /\ j + 1 \in 0..N /\ WellFramed[u]
    BY <1>1, <1>3
  <2> HIDE DEF k
  <2>2. Settled(k) /\ Start(k) \in 0..extent /\ Start(k) < extent /\ cuts[k] = Start(k) + m
    BY <2>1 DEF Settled
  <2>3. s \in Seq(Byte) /\ Len(s) = extent - Start(k) /\ s # <<>>
    <3>1. SubSeq(offered, Start(k) + 1, Len(offered)) \in Seq(Byte)
          /\ Len(SubSeq(offered, Start(k) + 1, Len(offered))) = extent - Start(k)
      BY <1>1, <2>2, CutAt
    <3>2. s \in Seq(Byte) /\ Len(s) = extent - Start(k)
      BY <3>1 DEF After
    <3>3. Len(s) # 0
      BY <1>1, <2>2, <3>2
    <3>4. QED
      BY <3>2, <3>3
  <2>4. FirstUnit(u) = m
    <3>1. CASE final
      BY <2>3, <3>1, ConcatEmptySeq
    <3>2. CASE ~final
      <4>1. Determined(s)
        BY <2>2, <3>2 DEF Settled
      <4>2. QED
        BY <2>3, <4>1, FirstUnitGrows
    <3>3. QED
      BY <3>1, <3>2
  <2> HIDE DEF s
  <2>5. u \in Seq(Byte) /\ u # <<>>
    <3>1. u \in Seq(Byte) /\ Len(u) = Len(s) + Len(p) /\ Len(p) \in Nat /\ Len(s) \in Nat \ {0}
      BY <2>3, ConcatProperties, EmptySeq
    <3>2. Len(u) # 0
      BY <3>1
    <3>3. QED
      BY <3>1, <3>2
  <2>6. m \in 1..MaxUnit /\ WellFramed[SubSeq(u, m + 1, Len(u))]
    <3> HIDE DEF u, m
    <3>1. QED
      BY <2>1, <2>4, <2>5, WellFramedStarts
  <2>7. Start(k + 1) = Start(k) + m /\ Start(k) + m \in 0..extent
    <3>1. Start(k + 1) = cuts[k]
      BY <2>1 DEF Start
    <3>2. CASE k = N
      <4>1. Taken = cuts[k]
        BY <3>1, <3>2 DEF Taken
      <4>2. QED
        BY <1>1, <2>2, <3>1, <4>1
    <3>3. CASE k # N
      <4>1. k + 1 \in 1..N
        BY <1>1, <2>1, <3>3
      <4>2. Start(k + 1) \in 0..extent
        BY <4>1 DEF Settled
      <4>3. QED
        BY <2>2, <3>1, <4>2
    <3>4. QED
      BY <3>2, <3>3
  <2>8. m \in 0..Len(s) /\ m \in 0..(extent - Start(k)) /\ m \in Nat
    <3> DEFINE a == Start(k)
    <3>1. /\ a \in Nat /\ m \in 1..MaxUnit /\ MaxUnit \in Nat /\ a + m \in 0..extent
          /\ Len(s) = extent - a
      BY <2>2, <2>3, <2>6, <2>7, Limits
    <3> HIDE DEF a, m
    <3>2. m \in Nat /\ a + m <= extent
      BY <1>1, <3>1
    <3>3. m \in 0..(extent - a)
      BY <1>1, <3>1, <3>2
    <3>4. QED
      BY <3>1, <3>2, <3>3 DEF a
  <2>9. SubSeq(u, m + 1, Len(u)) = SubSeq(s, m + 1, Len(s)) \o p
    <3> HIDE DEF m
    <3>1. QED
      BY <2>3, <2>8, RestOfConcat
  <2>10. SubSeq(s, m + 1, Len(s)) = After(k + 1)
    <3> DEFINE a == Start(k)
    <3>1. a \in 0..Len(offered) /\ m \in 0..(Len(offered) - a)
          /\ s = SubSeq(offered, a + 1, Len(offered)) /\ Start(k + 1) = a + m
      BY <2>2, <2>7, <2>8 DEF s, After
    <3> HIDE DEF a, m
    <3>2. SubSeq(s, m + 1, Len(s)) = SubSeq(offered, a + m + 1, Len(offered))
      BY <1>1, <3>1, RestOfRest
    <3>3. QED
      BY <3>1, <3>2 DEF After
  <2>11. WellFramed[After(k + 1) \o p]
    BY <2>6, <2>9, <2>10
  <2>12. QED
    BY <2>1, <2>11 DEF k
<1>4. N \in T
  <2> HIDE DEF T
  <2>1. \A j \in 0..N : j \in T
    BY <1>1, <1>2, <1>3, Climb
  <2>2. QED
    BY <1>1, <2>1
<1>5. QED
  BY <1>4 DEF After, Unreleased

\* Between calls the buffer holds an unfinished line; a unit is taken of something.
Waiting ==
    /\ format = "newline" /\ pc \in {"idle", "accept"} =>
          \A i \in 1..Len(pending) : pending[i] # "nl"
    /\ InUnit /\ ~Whole => pending # <<>>

\* Every unit that was released took a byte, but for that of a whole response,
\* which is released once and ends the stream.
UnitsNonempty ==
    /\ ~Whole => \A k \in DOMAIN cuts : Start(k) < Len(offered)
    /\ Whole /\ ~Terminal => cuts = <<>>

LEMMA UnreleasedWellFramed ==
    ASSUME StreamInv, FrameInv, UnitsNonempty, ~Whole, ~Terminal,
           NEW p \in Seq(Byte), final => p = <<>>, WellFramed[offered \o p]
    PROVE  /\ pending \in Seq(Byte) /\ rest \o p \in Seq(Byte)
           /\ Len(rest \o p) = Len(rest) + Len(p)
           /\ WellFramed[pending \o (rest \o p)]
<1>1. /\ pending \in Seq(Byte) /\ rest \in Seq(Byte) /\ cuts \in Seq(Nat)
      /\ pending \o rest = Unreleased
  BY DEF StreamInv, StreamType, Conserved
<1>2. \A k \in 1..Len(cuts) : Settled(k) /\ Start(k) < Len(offered)
  BY <1>1 DEF FrameInv, UnitsNonempty
<1>3. WellFramed[(pending \o rest) \o p]
  BY <1>1, <1>2, Peeled
<1>4. (pending \o rest) \o p = pending \o (rest \o p)
  <2>1. pending \in Seq(Byte) /\ rest \in Seq(Byte) /\ p \in Seq(Byte)
    BY <1>1
  <2>2. QED
    BY ONLY <2>1, SMTT(40)
<1>5. rest \o p \in Seq(Byte) /\ Len(rest \o p) = Len(rest) + Len(p)
  BY <1>1, ConcatProperties
<1>6. QED
  BY <1>1, <1>3, <1>4, <1>5

(* A first unit that is too long or not valid condemns the input, if the   *)
(* input has ended or nothing that follows can change that unit.           *)
LEMMA UnitCondemns ==
    ASSUME StreamInv, FrameInv, UnitsNonempty, ~Whole, ~Terminal,
           NEW ended \in BOOLEAN, final => ended, ended => rest = <<>>,
           NEW p \in Seq(Byte), ended => p = <<>>,
           pending # <<>>, ended \/ Determined(pending),
           NEW n \in 0..Len(pending), n = FirstUnit(pending),
           n \notin 1..MaxUnit \/ ~ValidRepresentation(SubSeq(pending, 1, n))
    PROVE  ~WellFramed[offered \o p]
<1>1. SUFFICES ASSUME WellFramed[offered \o p] PROVE FALSE
  OBVIOUS
<1> DEFINE t == rest \o p
           s == pending \o t
<1>2. pending \in Seq(Byte) /\ t \in Seq(Byte) /\ WellFramed[s] /\ Len(pending) \in Nat
  BY <1>1, UnreleasedWellFramed
<1>3. FirstUnit(s) = n
  <2>1. CASE ended
    <3>1. <<>> \o <<>> = <<>>
      OBVIOUS
    <3>2. t = <<>>
      BY <2>1, <3>1
    <3> HIDE DEF t
    <3>3. QED
      BY <1>2, <3>2, ConcatEmptySeq
  <2>2. CASE ~ended
    <3> HIDE DEF t
    <3>1. QED
      BY <1>2, <2>2, FirstUnitGrows
  <2>3. QED
    BY <2>1, <2>2
<1> HIDE DEF t
<1>4. s \in Seq(Byte) /\ Len(s) = Len(pending) + Len(t) /\ Len(t) \in Nat
      /\ \A i \in 1..Len(pending) : s[i] = pending[i]
  BY <1>2, ConcatProperties
<1> HIDE DEF s
<1>5. s # <<>>
  <2>1. Len(pending) # 0
    BY <1>2
  <2>2. Len(s) # 0
    BY <1>2, <1>4, <2>1
  <2>3. QED
    BY <1>4, <2>2
<1>6. n \in 1..MaxUnit /\ ValidRepresentation(SubSeq(s, 1, n))
  BY <1>2, <1>3, <1>4, <1>5, WellFramedStarts
<1>7. SubSeq(s, 1, n) = SubSeq(pending, 1, n)
  <2> DEFINE a == SubSeq(s, 1, n)
             b == SubSeq(pending, 1, n)
  <2>1. n \in 0..Len(pending) /\ n \in 0..Len(s)
    BY <1>2, <1>4
  <2>2. /\ a \in Seq(Byte) /\ Len(a) = n /\ \A i \in 1..n : a[i] = s[i]
        /\ b \in Seq(Byte) /\ Len(b) = n /\ \A i \in 1..n : b[i] = pending[i]
    BY <1>2, <1>4, <2>1, CutAt
  <2> HIDE DEF a, b
  <2>3. \A i \in 1..n : i \in 1..Len(pending)
    BY <1>2, <2>1
  <2>4. \A i \in 1..Len(a) : a[i] = b[i]
    BY <1>4, <2>2, <2>3
  <2>5. a = b
    BY <2>2, <2>4, SeqEqual
  <2>6. QED
    BY <2>5 DEF a, b
<1>8. QED
  BY <1>6, <1>7

LEMMA WholeCondemns ==
    ASSUME StreamInv, UnitsNonempty, Whole, ~Terminal, rest = <<>>,
           Len(pending) > MaxUnit \/ ~ValidRepresentation(pending)
    PROVE  ~WellFramed[offered \o <<>>]
<1>1. /\ pending \in Seq(Byte) /\ offered \in Seq(Byte) /\ cuts = <<>>
      /\ pending \o rest = Unreleased
  BY DEF StreamInv, StreamType, Conserved, UnitsNonempty
<1>2. Unreleased = offered
  <2>1. Len(cuts) = 0
    BY <1>1
  <2>2. Unreleased = SubSeq(offered, 1, Len(offered))
    BY <2>1 DEF Unreleased, Start
  <2>3. QED
    BY <1>1, <2>2
<1>3. offered \o <<>> = pending
  BY <1>1, <1>2, ConcatEmptySeq
<1>4. Len(pending) \in Nat /\ MaxUnit \in Nat
  BY <1>1, Limits
<1>5. QED
  BY <1>1, <1>3, <1>4, WholeFramed

(* A line that has filled the unit and goes on.                            *)
LEMMA LineCondemns ==
    ASSUME StreamInv, FrameInv, UnitsNonempty, Waiting, pc = "accept", rest # <<>>, UnitRoom <= 0,
           NEW p \in Seq(Byte)
    PROVE  ~WellFramed[offered \o p]
<1>1. SUFFICES ASSUME WellFramed[offered \o p] PROVE FALSE
  OBVIOUS
<1>2. ~Terminal /\ ~final
  BY DEF StreamInv, Control
<1>3. /\ pending \in Seq(Byte) /\ rest \in Seq(Byte)
      /\ Len(pending) \in Nat /\ Len(rest) \in Nat /\ Len(rest) # 0
  BY DEF StreamInv, StreamType
<1>4. format = "newline" /\ Len(pending) >= MaxUnit /\ MaxUnit \in Nat
  BY <1>3, Limits DEF UnitRoom
<1>5. ~Whole /\ \A i \in 1..Len(pending) : pending[i] # "nl"
  BY <1>4 DEF Whole, Waiting
<1> DEFINE t == rest \o p
           s == pending \o t
<1>6. t \in Seq(Byte) /\ WellFramed[s] /\ Len(t) = Len(rest) + Len(p)
  BY <1>1, <1>2, <1>4, <1>5, UnreleasedWellFramed
<1> HIDE DEF t
<1>7. s \in Seq(Byte) /\ Len(s) = Len(pending) + Len(t)
      /\ \A i \in 1..Len(pending) : s[i] = pending[i]
  <2>1. pending \in Seq(Byte) /\ t \in Seq(Byte) /\ Len(pending) \in Nat
    BY <1>3, <1>6
  <2>2. QED
    BY <2>1, ConcatProperties
<1>8. Len(p) \in Nat
  OBVIOUS
<1> HIDE DEF s
<1>9. Len(s) > MaxUnit /\ Len(s) \in Nat
  BY <1>3, <1>4, <1>6, <1>7, <1>8
<1>10. s # <<>>
  BY <1>4, <1>7, <1>9
<1>11. NewlineBoundary(s) \in 1..MaxUnit
  BY <1>4, <1>5, <1>6, <1>7, <1>10, WellFramedStarts, FirstUnitIs
<1>12. CASE \A i \in 1..Len(s) : s[i] # "nl"
  BY <1>4, <1>7, <1>9, <1>11, <1>12, NoNewline
<1>13. ASSUME NEW j \in 1..Len(s), s[j] = "nl" PROVE FALSE
  <2>1. PICK n \in 1..Len(s) : s[n] = "nl" /\ NewlineBoundary(s) = n
    BY <1>7, <1>13, FirstNewline
  <2>2. n \in 1..Len(pending)
    BY <1>3, <1>4, <1>11, <2>1
  <2>3. QED
    BY <1>5, <1>7, <2>1, <2>2
<1>14. QED
  BY <1>12, <1>13

LEMMA EndedWaits ==
    ASSUME pc' \notin {"validate", "write"}, pending' = <<>> \/ pc' = "scan"
    PROVE  Waiting'
<1>1. pending' = <<>> => \A i \in 1..Len(pending') : FALSE
  OBVIOUS
<1>2. QED
  BY <1>1 DEF Waiting, InUnit

LEMMA FailWaits ==
    ASSUME NEW category, NEW cause, NEW d, NEW sent,
           FailCounting(category, cause, d, sent) \/ Fail(category, cause, d) \/ Succeed
    PROVE  Waiting'
<1>1. pc' = "idle" /\ pending' = <<>>
  BY DEF FailCounting, Fail, Succeed, Discard
<1>2. QED
  BY <1>1, EndedWaits

LEMMA TakeWaits ==
    ASSUME NEW n, NEW f, Take(n, f), format' = format, Whole \/ pending # <<>>
    PROVE  Waiting'
<1>1. CASE n > MaxUnit
  BY <1>1, FailWaits DEF Take
<1>2. CASE ~(n > MaxUnit)
  BY <1>2 DEF Take, Waiting, InUnit, Whole
<1>3. QED
  BY <1>1, <1>2

LEMMA WaitWaits ==
    ASSUME NEW f, Wait(f), format' = format,
           format = "newline" => \A i \in 1..Len(pending) : pending[i] # "nl"
    PROVE  Waiting'
<1>1. CASE final
  BY <1>1, FailWaits DEF Wait, NoUnit
<1>2. CASE ~final
  BY <1>2 DEF Wait, NoUnit, Waiting, InUnit
<1>3. QED
  BY <1>1, <1>2

LEMMA WaitingStep ==
    ASSUME StreamInv, FrameInv, Waiting, [Next]_vars
    PROVE  Waiting'
<1>1. format' = format /\ pending \in Seq(Byte) /\ (format = "newline" => UnitInv)
  BY InputSteps DEF StreamInv, StreamType, FrameInv
<1>2. CASE /\ UNCHANGED pending
           /\ InUnit' => InUnit
           /\ pc' \in {"idle", "accept"} => pc \in {"idle", "accept"}
  BY <1>1, <1>2 DEF Waiting, Whole
<1>3. CASE UNCHANGED vars
  BY <1>2, <1>3 DEF vars, InUnit
<1>4. CASE DeliverFallback \/ Closed \/ WriteReturns \/ \E p \in Chunks : WriteContext(p)
  BY <1>2, <1>4 DEF DeliverFallback, Closed, WriteReturns, WriteContext, InUnit, vars
<1>5. CASE WriteRefused \/ Abort \/ RejectUnit \/ ScopeFails \/ GuardLate \/ GuardStops
           \/ InvalidCount
  BY <1>5, FailWaits
     DEF WriteRefused, Abort, RejectUnit, ScopeFails, GuardLate, GuardStops, InvalidCount
<1>6. CASE Complete
  <2>1. CASE Fail("timeout", "context", "none") \/ Fail("limit", "unit limit", "none")
    BY <2>1, FailWaits
  <2>2. CASE Whole /\ Take(Len(pending), framer)
    BY <1>1, <2>2, TakeWaits
  <2>3. CASE pc' = "scan"
    BY <2>3, EndedWaits
  <2>4. QED
    BY <1>6, <2>1, <2>2, <2>3 DEF Complete
<1>7. CASE AcceptInput
  <2>1. pc' = "accept" => format # "newline"
    BY <1>7 DEF AcceptInput, Buffer, Fail, FailCounting, Discard, Whole
  <2>2. CASE Fail("limit", "unit limit", "none") \/ Fail("limit", "pending limit", "none")
    BY <2>2, FailWaits
  <2>3. CASE pc' \in {"accept", "scan"}
    BY <1>1, <2>1, <2>3 DEF Waiting, InUnit
  <2>4. QED
    BY <1>7, <2>2, <2>3 DEF AcceptInput, Buffer
<1>8. CASE NothingPending
  <2>1. \A i \in 1..Len(pending) : pending[i] # "nl"
    BY <1>8 DEF NothingPending
  <2>2. QED
    BY <1>1, <1>8, <2>1, WaitWaits DEF NothingPending
<1>9. CASE ScanNewline
  <2>1. PICK f : \/ \E n \in 0..Len(pending) : Take(n, f)
                 \/ Wait(f) /\ \A i \in 1..Len(pending) : pending[i] # "nl"
    BY <1>1, <1>9, NewlineAnswers DEF ScanNewline
  <2>2. pending # <<>>
    BY <1>9 DEF ScanNewline
  <2>3. QED
    BY <1>1, <2>1, <2>2, TakeWaits, WaitWaits
<1>10. CASE ScanPartial
  <2>1. /\ pending # <<>> /\ format = "partial"
        /\ \/ Wait(framer)
           \/ \E n \in 0..Len(pending) : Take(n, framer)
           \/ Fail("incomplete", "encoding", "none")
    <3>1. pending # <<>> /\ format = "partial"
      BY <1>10 DEF ScanPartial
    <3>2. QED
      BY <1>10, <3>1, PartialAnswers
  <2>2. QED
    BY <1>1, <2>1, TakeWaits, WaitWaits, FailWaits
<1>11. CASE ScanJSON
  <2>1. format = "json" /\ pending # <<>>
    <3>1. format = "json" /\ framer.offset < Len(pending)
      BY <1>11 DEF ScanJSON
    <3>2. framer.offset \in Nat
      BY DEF StreamInv, StreamType, Framer
    <3>3. Len(pending) # 0
      BY <1>1, <3>1, <3>2
    <3>4. QED
      BY <3>1, <3>3
  <2>2. \/ Take(framer.offset, framer)
        \/ Fail("malformed", "framing", "none") \/ Fail("limit", "unit limit", "none")
        \/ pc' = pc
    BY <1>11, Zenon DEF ScanJSON
  <2>3. CASE pc' = pc
    BY <1>11, <2>3, EndedWaits DEF ScanJSON
  <2>4. QED
    BY <1>1, <2>1, <2>2, <2>3, TakeWaits, FailWaits
<1>12. CASE FinishJSON
  <2>1. /\ pending # <<>> /\ format = "json"
        /\ \/ Take(framer.offset, framer) \/ Wait(framer)
           \/ Fail("incomplete", "framing", "none")
    BY <1>12 DEF FinishJSON
  <2>2. QED
    BY <1>1, <2>1, TakeWaits, WaitWaits, FailWaits
<1>13. ASSUME NEW grown \in OutputSizes, NEW valid \in BOOLEAN, GuardApproves(grown, valid)
       PROVE  Waiting'
  <2>1. pc = "validate"
    BY <1>13 DEF GuardApproves
  <2>2. CASE \/ Fail("fault", "guard", "none") \/ Fail("limit", "expansion", "none")
             \/ Fail("limit", "output limit", "none")
    BY <2>2, FailWaits
  <2>3. CASE pc' = "write" /\ UNCHANGED <<pending, framer, rest, unit>>
    BY <1>2, <2>1, <2>3 DEF InUnit
  <2>4. QED
    BY <1>13, <2>2, <2>3 DEF GuardApproves
<1>14. CASE Written
  <2>1. CASE ~Whole
    BY <1>14, <2>1, EndedWaits DEF Written
  <2>2. CASE Whole
    <3>1. pc' = "idle" /\ format # "newline"
      BY <1>14, <2>2 DEF Written, Whole
    <3>2. QED
      BY <1>1, <3>1 DEF Waiting, InUnit
  <2>3. QED
    BY <2>1, <2>2
<1>15. ASSUME NEW n \in 0..approved, ShortWrite(n) PROVE Waiting'
  BY <1>15, FailWaits DEF ShortWrite
<1>16. QED
  BY <1>3, <1>4, <1>5, <1>6, <1>7, <1>8, <1>9, <1>10, <1>11, <1>12, <1>13, <1>14, <1>15
     DEF Next, Call, Proceed

(* Every unit of the incremental framings took a byte; a whole response is *)
(* released once.                                                          *)
LEMMA UnitsNonemptyStep ==
    ASSUME StreamInv, StreamInv', Waiting, UnitsNonempty, [Next]_vars
    PROVE  UnitsNonempty'
<1>1. /\ format' = format /\ Whole' = Whole
      /\ cuts \in Seq(Nat) /\ Len(cuts) \in Nat /\ cuts' \in Seq(Nat)
      /\ offered \in Seq(Byte) /\ Len(offered) \in Nat /\ Len(offered') \in Nat
  BY InputSteps DEF StreamInv, StreamType, Whole
<1>2. Len(offered) <= Len(offered')
  <2>1. CASE offered' = offered
    BY <1>1, <2>1
  <2>2. ASSUME NEW p \in Seq(Byte), offered' = offered \o p PROVE Len(offered) <= Len(offered')
    <3>1. Len(offered') = Len(offered) + Len(p) /\ Len(p) \in Nat
      BY <1>1, <2>2, ConcatProperties
    <3>2. QED
      BY <1>1, <3>1
  <2>3. QED
    BY <2>1, <2>2, InputSteps
<1>3. ~Terminal' => ~Terminal
  <2>1. Terminal => outcome' = outcome
    BY OverStays
  <2>2. QED
    BY <2>1 DEF Terminal
<1>4. CASE cuts' = cuts
  <2>1. ASSUME ~Whole, NEW k \in 1..Len(cuts) PROVE Start(k)' < Len(offered')
    <3>1. Start(k)' = Start(k) /\ Start(k) < Len(offered)
      <4>1. Start(k)' = Start(k)
        BY <1>4 DEF Start
      <4>2. k \in DOMAIN cuts
        BY <1>1
      <4>3. QED
        BY <2>1, <4>1, <4>2 DEF UnitsNonempty
    <3>2. Start(k) \in Nat
      <4>1. k # 1 => k - 1 \in 1..Len(cuts)
        BY <1>1
      <4>2. QED
        BY <1>1, <4>1 DEF Start
    <3>3. QED
      BY <1>1, <1>2, <3>1, <3>2
  <2>2. QED
    BY <1>1, <1>3, <1>4, <2>1 DEF UnitsNonempty
<1>5. CASE Written
  <2>1. pc = "write" /\ offered' = offered /\ (Whole => Terminal')
    BY <1>5 DEF Written, Terminal, StreamInv, StreamType, Outcome
  <2>2. CASE Whole
    BY <1>1, <2>1, <2>2 DEF UnitsNonempty
  <2>3. CASE ~Whole
    <3>1. cuts' = Append(cuts, Taken + unit) /\ Taken + unit \in Nat
      BY <1>5, WrittenMoves DEF StreamInv, StreamType
    <3>2. Len(cuts') = Len(cuts) + 1 /\ \A k \in 1..Len(cuts) : cuts'[k] = cuts[k]
      BY <1>1, <3>1, AppendProperties
    <3>3. Taken < Len(offered)
      <4>1. ~Terminal /\ pending # <<>>
        BY <2>1, <2>3, RunningIsOpen DEF Waiting, InUnit
      <4>2. /\ Taken \in 0..Len(offered) /\ pending \in Seq(Byte)
            /\ Len(offered) = Taken + Len(pending) + Len(rest)
            /\ Len(pending) \in Nat /\ Len(rest) \in Nat
        BY <4>1, StillHeld
      <4>3. Len(pending) # 0
        BY <4>1, <4>2
      <4> HIDE DEF Taken
      <4>4. QED
        BY <4>2, <4>3
    <3>4. ASSUME NEW k \in 1..Len(cuts') PROVE Start(k)' < Len(offered')
      <4>1. CASE k \in 1..Len(cuts)
        <5>1. k # 1 => k - 1 \in 1..Len(cuts)
          BY <1>1, <4>1
        <5>2. Start(k)' = Start(k)
          BY <3>2, <5>1 DEF Start
        <5>3. Start(k) < Len(offered)
          BY <1>1, <2>3, <4>1 DEF UnitsNonempty
        <5>4. QED
          BY <2>1, <5>2, <5>3
      <4>2. CASE k \notin 1..Len(cuts)
        <5>1. k = Len(cuts) + 1
          BY <1>1, <3>2, <4>2
        <5>2. Start(k)' = Taken
          <6>1. CASE k = 1
            BY <5>1, <6>1 DEF Start, Taken
          <6>2. CASE k # 1
            <7>1. k - 1 = Len(cuts) /\ Len(cuts) \in 1..Len(cuts)
              BY <1>1, <5>1, <6>2
            <7>2. QED
              BY <3>2, <5>1, <6>2, <7>1 DEF Start, Taken
          <6>3. QED
            BY <6>1, <6>2
        <5>3. QED
          BY <2>1, <3>3, <5>2
      <4>3. QED
        BY <4>1, <4>2
    <3>5. QED
      BY <1>1, <2>3, <3>4 DEF UnitsNonempty
  <2>4. QED
    BY <2>2, <2>3
<1>6. QED
  BY <1>4, <1>5, InputSteps

\* The causes of a refusal for what the bytes are.
Refusals == {"unit limit", "framing", "encoding"}

\* No input that begins with what was offered is well framed.
Condemned(ended) ==
    \A p \in (IF ended THEN {<<>>} ELSE Chunks) : ~WellFramed[offered \o p]

\* Only an end has a cause.
Justified == (~Terminal => outcome.cause = "none") /\ FramingComplete

LEMMA SameFraming ==
    format' = format => WellFramed' = WellFramed /\ Chunks' = Chunks
<1>1. format' = format => WellFramed' = WellFramed
  BY DEF WellFramed, FirstUnit, Whole, ValidRepresentation
<1>2. format' = format => Chunks' = Chunks
  BY DEF Chunks
<1>3. QED
  BY <1>1, <1>2

LEMMA SameCondemned ==
    format' = format /\ offered' = offered =>
        FramingComplete' = (outcome'.cause \in Refusals => Condemned(final'))
<1>1. SUFFICES ASSUME format' = format, offered' = offered
      PROVE  FramingComplete' = (outcome'.cause \in Refusals => Condemned(final'))
  OBVIOUS
<1>2. WellFramed' = WellFramed /\ Chunks' = Chunks
  BY <1>1, SameFraming
<1>3. QED
  BY <1>1, <1>2 DEF FramingComplete, Refusals, Condemned

LEMMA KeptJustified ==
    ASSUME Justified, ~Terminal, outcome'.cause = outcome.cause
    PROVE  Justified'
BY DEF Justified, FramingComplete

LEMMA FailJustified ==
    ASSUME StreamInv, NEW category, category # "open", NEW cause, NEW d, NEW sent,
           FailCounting(category, cause, d, sent),
           format' = format, offered' = offered,
           cause \in Refusals => Condemned(final')
    PROVE  Justified'
<1>1. outcome'.category = category /\ outcome'.cause = cause
  BY DEF FailCounting, StreamInv, StreamType, Outcome
<1>2. QED
  BY <1>1, SameCondemned DEF Justified, Terminal

LEMMA FailedJustified ==
    ASSUME StreamInv, NEW category, category # "open", NEW cause, NEW d,
           Fail(category, cause, d),
           format' = format, offered' = offered,
           cause \in Refusals => Condemned(final')
    PROVE  Justified'
BY FailJustified DEF Fail

LEMMA UnitCondemned ==
    ASSUME StreamInv, FrameInv, UnitsNonempty, ~Whole, ~Terminal,
           pending # <<>>, final \/ Determined(pending), final => rest = <<>>,
           NEW n \in 0..Len(pending), n = FirstUnit(pending),
           n \notin 1..MaxUnit \/ ~ValidRepresentation(SubSeq(pending, 1, n))
    PROVE  Condemned(final)
<1>1. final \in BOOLEAN /\ Chunks \subseteq Seq(Byte) /\ <<>> \in Seq(Byte)
  BY ChunksAreText DEF StreamInv, StreamType
<1>2. ASSUME NEW p \in (IF final THEN {<<>>} ELSE Chunks) PROVE ~WellFramed[offered \o p]
  <2>1. p \in Seq(Byte) /\ (final => p = <<>>)
    BY <1>1
  <2>2. QED
    BY <1>1, <2>1, UnitCondemns
<1>3. QED
  BY <1>2 DEF Condemned

LEMMA TakeJustified ==
    ASSUME StreamInv, FrameInv, UnitsNonempty, Justified, ~Whole, ~Terminal,
           pending # <<>>, final \/ Determined(pending), final => rest = <<>>,
           NEW n \in 0..Len(pending), n = FirstUnit(pending), NEW f, Take(n, f),
           UNCHANGED <<format, offered, final>>
    PROVE  Justified'
<1>1. CASE n > MaxUnit
  <2>1. n \notin 1..MaxUnit
    <3>1. MaxUnit \in Nat /\ n \in Int
      BY Limits
    <3>2. QED
      BY <1>1, <3>1
  <2>2. Condemned(final')
    BY <2>1, UnitCondemned
  <2>3. QED
    BY <1>1, <2>2, FailedJustified DEF Take
<1>2. CASE ~(n > MaxUnit)
  BY <1>2, KeptJustified DEF Take
<1>3. QED
  BY <1>1, <1>2

LEMMA WaitJustified ==
    ASSUME StreamInv, Justified, ~Terminal, NEW f, Wait(f)
    PROVE  Justified'
<1>1. CASE final
  <2>1. Succeed
    BY <1>1 DEF Wait, NoUnit
  <2>2. outcome'.cause = outcome.cause
    BY <2>1 DEF Succeed, StreamInv, StreamType, Outcome
  <2>3. QED
    BY <2>2, KeptJustified
<1>2. CASE ~final
  BY <1>2, KeptJustified DEF Wait, NoUnit
<1>3. QED
  BY <1>1, <1>2

(* The scanner has read the pending bytes up to its offset; a unit ends    *)
(* where it stopped.                                                       *)
ScanInv ==
    format = "json" =>
        /\ Scanned(pending, framer)
        /\ InUnit => unit = framer.offset /\ framer.complete

LEMMA EndedScan ==
    ASSUME pc' \in {"idle", "scan"}, framer' = FreshFramer
    PROVE  ScanInv'
<1>1. Scanned(pending', framer')
  BY FreshIsScanned
<1>2. ~InUnit'
  BY DEF InUnit
<1>3. QED
  BY <1>1, <1>2 DEF ScanInv

LEMMA FailEndsScan ==
    ASSUME NEW category, NEW cause, NEW d, NEW sent,
           FailCounting(category, cause, d, sent) \/ Fail(category, cause, d) \/ Succeed
    PROVE  ScanInv'
BY EndedScan DEF FailCounting, Fail, Succeed, Discard

LEMMA KeptScan ==
    ASSUME ScanInv, UNCHANGED <<format, pending, framer>>,
           InUnit' => InUnit /\ unit' = unit
    PROVE  ScanInv'
BY DEF ScanInv

LEMMA TakeScan ==
    ASSUME ScanInv, UNCHANGED format, NEW n, NEW f, Take(n, f),
           format = "json" => f = framer /\ n = framer.offset /\ framer.complete
    PROVE  ScanInv'
<1>1. CASE n > MaxUnit
  BY <1>1, FailEndsScan DEF Take
<1>2. CASE ~(n > MaxUnit)
  BY <1>2 DEF Take, ScanInv
<1>3. QED
  BY <1>1, <1>2

LEMMA WaitScan ==
    ASSUME ScanInv, UNCHANGED format, NEW f, Wait(f), format = "json" => f = framer
    PROVE  ScanInv'
<1>1. CASE final
  BY <1>1, FailEndsScan DEF Wait, NoUnit
<1>2. CASE ~final
  <2>1. pc' = "accept" /\ pending' = pending /\ framer' = f
    BY <1>2 DEF Wait, NoUnit
  <2>2. ~InUnit'
    BY <2>1 DEF InUnit
  <2>3. QED
    BY <2>1, <2>2 DEF ScanInv
<1>3. QED
  BY <1>1, <1>2

(* What frameScanner.json answers to the next byte.                        *)
LEMMA ScanAnswers ==
    ASSUME StreamInv, ScanJSON
    PROVE  LET o == framer.offset
               c == pending[o + 1]
           IN  \/ Take(o, framer) /\ framer.complete /\ c \notin Space
               \/ /\ Fail("malformed", "framing", "none")
                  /\ ~framer.complete /\ ~(~framer.started /\ c \in Space)
                  /\ Unopened(framer, c) \/ (~framer.started /\ ~Opening(c))
               \/ /\ ~(framer.complete /\ c \notin Space)
                  /\ \/ /\ Fail("limit", "unit limit", "none")
                        /\ \/ o + 1 > MaxUnit
                           \/ ~ScanNext(framer, c).complete /\ o + 1 >= MaxUnit
                     \/ /\ framer' = ScanNext(framer, c)
                        /\ UNCHANGED <<pending, outcome, rest, unit, approved, pc>>
<1> DEFINE o == framer.offset
           c == pending[o + 1]
           f == [framer EXCEPT !.offset = @ + 1]
           skip == f.complete \/ (~f.started /\ c \in Space)
           g == IF skip THEN f ELSE ScanJSONByte([f EXCEPT !.started = TRUE], c)
<1>1. /\ f.complete = framer.complete /\ f.started = framer.started /\ f.offset = o + 1
      /\ f.inString = framer.inString /\ f.objects = framer.objects /\ f.arrays = framer.arrays
      /\ framer.complete \in BOOLEAN /\ framer.started \in BOOLEAN
  BY DEF StreamInv, StreamType, Framer
<1>2. g = ScanNext(framer, c)
  BY DEF ScanNext
<1>3. Unopened(f, c) <=> Unopened(framer, c)
  BY <1>1 DEF Unopened
<1>4. IF framer.complete /\ c \notin Space THEN Take(o, framer)
      ELSE IF ~skip /\ ((~f.started /\ c \notin {"{", "["}) \/ Unopened(f, c))
      THEN Fail("malformed", "framing", "none")
      ELSE IF f.offset > MaxUnit \/ (~g.complete /\ f.offset >= MaxUnit)
      THEN Fail("limit", "unit limit", "none")
      ELSE framer' = g /\ UNCHANGED <<pending, outcome, rest, unit, approved, pc>>
  BY DEF ScanJSON
<1>5. skip <=> framer.complete \/ (~framer.started /\ c \in Space)
  BY <1>1
<1> HIDE DEF f, g, skip
<1>6. QED
  BY <1>1, <1>2, <1>3, <1>4, <1>5 DEF Opening

LEMMA ScanInvStep ==
    ASSUME StreamInv, StreamInv', ScanInv, [Next]_vars
    PROVE  ScanInv'
<1>1. format' = format
  BY InputSteps
<1>2. /\ pending \in Seq(Byte) /\ framer \in Framer /\ framer.offset \in Nat
      /\ framer.offset <= Len(pending) /\ Len(pending) \in Nat
  BY DEF StreamInv, StreamType, Framer
<1>3. CASE UNCHANGED vars \/ Closed \/ DeliverFallback \/ WriteReturns
           \/ \E p \in Chunks : WriteContext(p)
  <2>1. UNCHANGED <<pending, framer>> /\ (InUnit' => InUnit /\ unit' = unit)
    BY <1>3 DEF vars, Closed, DeliverFallback, WriteReturns, WriteContext, running, InUnit
  <2>2. QED
    BY <1>1, <2>1, KeptScan
<1>4. CASE WriteRefused \/ Abort \/ RejectUnit \/ ScopeFails \/ GuardLate \/ GuardStops
           \/ InvalidCount
  BY <1>4, FailEndsScan
     DEF WriteRefused, Abort, RejectUnit, ScopeFails, GuardLate, GuardStops, InvalidCount
<1>5. CASE Complete
  <2>1. CASE Fail("timeout", "context", "none") \/ Fail("limit", "unit limit", "none")
    BY <2>1, FailEndsScan
  <2>2. CASE Whole /\ Take(Len(pending), framer)
    BY <1>1, <2>2, TakeScan DEF Whole
  <2>3. CASE pc' = "scan" /\ UNCHANGED <<pending, framer, outcome, rest, unit, approved>>
    BY <1>1, <2>3, KeptScan DEF InUnit
  <2>4. QED
    BY <1>5, <2>1, <2>2, <2>3 DEF Complete
<1>6. CASE AcceptInput
  <2>1. CASE Fail("limit", "unit limit", "none") \/ Fail("limit", "pending limit", "none")
    BY <2>1, FailEndsScan
  <2>2. CASE Buffer
    <3>1. PICK t : pending' = pending \o t /\ framer' = framer /\ ~InUnit' /\ t \in Seq(Byte)
      <4> DEFINE n == Min({UnitRoom, PendingRoom, Len(rest)})
                 t == SubSeq(rest, 1, n)
      <4>1. pending' = pending \o t /\ framer' = framer /\ pc' \in {"accept", "scan"}
        BY <2>2 DEF Buffer
      <4>2. n \in Int /\ n <= Len(rest) /\ rest \in Seq(Byte) /\ Len(rest) \in Nat
        <5>1. rest \in Seq(Byte) /\ format \in Formats /\ Len(rest) \in Nat
              /\ MaxPending[format] \in Nat /\ MaxUnit \in Nat
          BY Limits DEF StreamInv, StreamType
        <5>2. UnitRoom \in Int /\ PendingRoom \in Int /\ Len(rest) \in Int
          BY <1>2, <5>1 DEF UnitRoom, PendingRoom
        <5>3. n \in {UnitRoom, PendingRoom, Len(rest)} /\ n <= Len(rest)
          BY <5>2, MinOfThree
        <5> HIDE DEF n
        <5>4. QED
          BY <5>1, <5>2, <5>3
      <4> HIDE DEF n
      <4>3. \A i \in 1..n : rest[i] \in Byte
        BY <4>2
      <4>4. t \in Seq(Byte)
        BY <4>2, <4>3, SubSeqProperties
      <4> HIDE DEF t
      <4>5. QED
        BY <4>1, <4>4 DEF InUnit
    <3>2. format = "json" => Scanned(pending \o t, framer)
      BY <1>2, <3>1, ScannedPrefix DEF ScanInv
    <3>3. QED
      BY <1>1, <3>1, <3>2 DEF ScanInv
  <2>3. QED
    BY <1>6, <2>1, <2>2 DEF AcceptInput
<1>7. CASE NothingPending
  BY <1>1, <1>7, WaitScan DEF NothingPending
<1>8. CASE ScanNewline
  <2>1. format # "json"
    BY <1>8 DEF ScanNewline
  <2>2. QED
    BY <1>1, <2>1 DEF ScanInv
<1>9. CASE ScanPartial
  <2>1. format # "json"
    BY <1>9 DEF ScanPartial
  <2>2. QED
    BY <1>1, <2>1 DEF ScanInv
<1>10. CASE ScanJSON
  <2> DEFINE o == framer.offset
             c == pending[o + 1]
  <2>1. format = "json" /\ o < Len(pending) /\ pc = "scan" /\ ~InUnit
    BY <1>10 DEF ScanJSON, InUnit
  <2>2. CASE Take(o, framer) /\ framer.complete
    BY <1>1, <2>2, TakeScan
  <2>3. CASE Fail("malformed", "framing", "none") \/ Fail("limit", "unit limit", "none")
    BY <2>3, FailEndsScan
  <2>4. CASE /\ framer' = ScanNext(framer, c)
             /\ UNCHANGED <<pending, outcome, rest, unit, approved, pc>>
             /\ ~(framer.complete /\ c \notin Space)
    <3>1. Scanned(pending, ScanNext(framer, c))
      BY <1>2, <2>1, <2>4, ScannedByte DEF ScanInv
    <3>2. ~InUnit'
      BY <2>1, <2>4 DEF InUnit
    <3>3. QED
      BY <2>4, <3>1, <3>2 DEF ScanInv
  <2>5. QED
    BY <1>10, <2>2, <2>3, <2>4, ScanAnswers
<1>11. CASE FinishJSON
  <2>1. CASE Take(framer.offset, framer) /\ framer.complete
    BY <1>1, <2>1, TakeScan
  <2>2. CASE Fail("incomplete", "framing", "none")
    BY <2>2, FailEndsScan
  <2>3. CASE Wait(framer)
    BY <1>1, <2>3, WaitScan
  <2>4. QED
    BY <1>11, <2>1, <2>2, <2>3 DEF FinishJSON
<1>12. ASSUME NEW grown \in OutputSizes, NEW valid \in BOOLEAN, GuardApproves(grown, valid)
       PROVE  ScanInv'
  <2>1. CASE \/ Fail("fault", "guard", "none") \/ Fail("limit", "expansion", "none")
             \/ Fail("limit", "output limit", "none")
    BY <2>1, FailEndsScan
  <2>2. CASE pc = "validate" /\ UNCHANGED <<pending, framer, rest, unit>>
    BY <1>1, <2>2, KeptScan DEF InUnit
  <2>3. QED
    BY <1>12, <2>1, <2>2 DEF GuardApproves
<1>13. CASE Written
  BY <1>13, EndedScan DEF Written
<1>14. ASSUME NEW n \in 0..approved, ShortWrite(n) PROVE ScanInv'
  BY <1>14, FailEndsScan DEF ShortWrite
<1>15. QED
  BY <1>3, <1>4, <1>5, <1>6, <1>7, <1>8, <1>9, <1>10, <1>11, <1>12, <1>13, <1>14
     DEF Next, Call, Proceed

(* A well framed input starts with a value, and the scanner is on its way  *)
(* to the end of it.                                                       *)
LEMMA ValueAhead ==
    ASSUME StreamInv, FrameInv, UnitsNonempty, ScanInv, format = "json", ~Terminal,
           pending # <<>>, NEW p \in Seq(Byte), final => rest = <<>> /\ p = <<>>,
           WellFramed[offered \o p]
    PROVE  \E t \in Seq(Byte) : \E n \in 1..MaxUnit :
              /\ final => t = <<>>
              /\ EndsAfter(pending \o t, n) /\ Ahead(pending \o t, framer, n)
              /\ ValidRepresentation(SubSeq(pending \o t, 1, n))
<1> DEFINE t == rest \o p
           u == pending \o t
           n == FirstUnit(u)
<1>1. /\ pending \in Seq(Byte) /\ t \in Seq(Byte) /\ WellFramed[u] /\ Len(pending) \in Nat
      /\ framer \in Framer /\ framer.offset \in Nat /\ framer.offset <= Len(pending)
      /\ ~Whole /\ Scanned(pending, framer)
  <2>1. ~Whole
    BY DEF Whole
  <2>2. pending \in Seq(Byte) /\ t \in Seq(Byte) /\ WellFramed[u]
    BY <2>1, UnreleasedWellFramed
  <2>3. framer \in Framer /\ framer.offset \in Nat /\ framer.offset <= Len(pending)
    BY DEF StreamInv, StreamType, Framer
  <2>4. Scanned(pending, framer)
    BY DEF ScanInv
  <2> HIDE DEF u
  <2>5. QED
    BY <2>1, <2>2, <2>3, <2>4
<1>2. final => t = <<>>
  <2>1. <<>> \o <<>> = <<>>
    OBVIOUS
  <2>2. QED
    BY <2>1
<1> HIDE DEF t
<1>3. u \in Seq(Byte) /\ Len(u) = Len(pending) + Len(t) /\ Len(t) \in Nat
  BY <1>1, ConcatProperties
<1>4. Scanned(u, framer) /\ framer.offset <= Len(u)
  <2>1. Scanned(u, framer)
    BY <1>1, ScannedPrefix
  <2>2. QED
    BY <1>1, <1>3, <2>1
<1> HIDE DEF u
<1>5. u # <<>>
  <2>1. Len(pending) # 0
    BY <1>1
  <2>2. Len(u) # 0
    BY <1>1, <1>3, <2>1
  <2>3. QED
    BY <1>3, <2>2
<1>6. n \in 1..MaxUnit /\ ValidRepresentation(SubSeq(u, 1, n))
  BY <1>1, <1>3, <1>5, WellFramedStarts
<1>7. n = ValueEnd(u) /\ n \in Nat /\ n # 0
  BY <1>6, FirstUnitIs, Limits
<1> HIDE DEF n
<1>8. EndsAfter(u, n)
  BY <1>3, <1>7, ValueEnds
<1>9. Ahead(u, framer, n)
  BY <1>1, <1>3, <1>4, <1>8, ScannedValue
<1>10. QED
  BY <1>1, <1>2, <1>6, <1>8, <1>9 DEF u

(* What the scanner refuses: a byte no value has there, a value that is    *)
(* too long, one that does not end, or one that is none.                   *)
Refused ==
    LET o == framer.offset
        c == pending[o + 1]
    IN  \/ /\ o < Len(pending) /\ ~framer.complete /\ ~(~framer.started /\ c \in Space)
           /\ Unopened(framer, c) \/ (~framer.started /\ ~Opening(c))
        \/ /\ o < Len(pending) /\ ~(framer.complete /\ c \notin Space)
           /\ o + 1 > MaxUnit \/ (~ScanNext(framer, c).complete /\ o + 1 >= MaxUnit)
        \/ o = Len(pending) /\ final /\ ~framer.complete
        \/ /\ framer.complete
           /\ IF o < Len(pending) THEN c \notin Space ELSE final
           /\ o \notin 1..MaxUnit \/ ~ValidRepresentation(SubSeq(pending, 1, o))

LEMMA RefusedIsNone ==
    ASSUME StreamInv, format = "json", Refused,
           NEW t \in Seq(Byte), NEW n \in 1..MaxUnit, final => t = <<>>,
           EndsAfter(pending \o t, n), Ahead(pending \o t, framer, n),
           ValidRepresentation(SubSeq(pending \o t, 1, n))
    PROVE  FALSE
<1> DEFINE u == pending \o t
           o == framer.offset
           c == pending[o + 1]
           d == u[o + 1]
           N == Len(pending)
<1>1. /\ pending \in Seq(Byte) /\ N \in Nat /\ MaxUnit \in Nat
      /\ framer \in Framer /\ o \in Nat /\ o <= N
  BY Limits DEF StreamInv, StreamType, Framer
<1>2. /\ u \in Seq(Byte) /\ Len(u) = N + Len(t) /\ Len(t) \in Nat
      /\ \A i \in 1..N : u[i] = pending[i]
  BY <1>1, ConcatProperties
<1>3. final => Len(u) = N
  BY <1>1, <1>2
<1>4. EndsAfter(u, n) /\ Ahead(u, framer, n) /\ ValidRepresentation(SubSeq(u, 1, n))
  OBVIOUS
<1> HIDE DEF u
<1>5. /\ n \in 1..Len(u) /\ n \in Nat /\ n <= MaxUnit /\ n <= Len(u) /\ 1 <= n
      /\ n < Len(u) => u[n + 1] \notin Space
  <2>1. MaxUnit \in Nat /\ n \in 1..MaxUnit
    BY <1>1
  <2>2. n \in 1..Len(u) /\ (n < Len(u) => u[n + 1] \notin Space)
    BY <1>4 DEF EndsAfter
  <2>3. Len(u) \in Nat
    BY <1>2
  <2>4. QED
    BY <2>1, <2>2, <2>3
<1>6. o < N => d = c
  <2>1. o < N => o + 1 \in 1..N
    BY <1>1
  <2>2. QED
    BY <1>2, <2>1
<1>7. \/ framer.complete /\ o \in 1..n /\ (o < n => d \in Space)
      \/ /\ ~framer.complete /\ o < n
         /\ \/ ~framer.started /\ d \in Space
            \/ ~Unopened(framer, d) /\ (framer.started \/ Opening(d))
         /\ o + 1 = n => ScanNext(framer, d).complete
  BY <1>4 DEF Ahead
<1> HIDE DEF d, c, N
<1>8. CASE /\ o < N /\ ~framer.complete /\ ~(~framer.started /\ c \in Space)
           /\ Unopened(framer, c) \/ (~framer.started /\ ~Opening(c))
  BY <1>6, <1>7, <1>8
<1>9. CASE /\ o < N /\ ~(framer.complete /\ c \notin Space)
           /\ o + 1 > MaxUnit \/ (~ScanNext(framer, c).complete /\ o + 1 >= MaxUnit)
  <2>1. CASE framer.complete
    <3>1. ScanNext(framer, c).complete
      BY <1>1, <2>1, ScanSkips
    <3>2. o + 1 > MaxUnit /\ d \in Space /\ o \in 1..n
      BY <1>6, <1>7, <1>9, <2>1, <3>1
    <3>3. o = n /\ n < Len(u)
      BY <1>1, <1>2, <1>5, <1>9, <3>2
    <3>4. QED
      BY <1>5, <3>2, <3>3 DEF d
  <2>2. CASE ~framer.complete
    <3>1. o < n /\ (o + 1 = n => ScanNext(framer, c).complete)
      BY <1>6, <1>7, <1>9, <2>2
    <3>2. CASE o + 1 > MaxUnit
      BY <1>1, <1>5, <3>1, <3>2
    <3>3. CASE ~ScanNext(framer, c).complete /\ o + 1 >= MaxUnit
      <4>1. o + 1 = n
        BY <1>1, <1>5, <3>1, <3>3
      <4>2. QED
        BY <3>1, <3>3, <4>1
    <3>4. QED
      BY <1>9, <3>2, <3>3
  <2>3. QED
    BY <2>1, <2>2
<1>10. CASE o = N /\ final /\ ~framer.complete
  <2>1. o < n
    BY <1>7, <1>10
  <2>2. Len(u) = N
    BY <1>3, <1>10
  <2>3. QED
    BY <1>1, <1>5, <1>10, <2>1, <2>2
<1>11. CASE /\ framer.complete
            /\ IF o < N THEN c \notin Space ELSE final
            /\ o \notin 1..MaxUnit \/ ~ValidRepresentation(SubSeq(pending, 1, o))
  <2>1. o \in 1..n /\ (o < n => d \in Space)
    BY <1>7, <1>11
  <2>2. o = n
    <3>1. SUFFICES ASSUME o < n PROVE FALSE
      BY <1>5, <2>1
    <3>2. CASE o < N
      BY <1>6, <1>11, <2>1, <3>1, <3>2
    <3>3. CASE ~(o < N)
      <4>1. Len(u) = N
        BY <1>3, <1>11, <3>3
      <4>2. QED
        BY <1>1, <1>5, <3>1, <3>3, <4>1
    <3>4. QED
      BY <3>2, <3>3
  <2>3. SubSeq(u, 1, n) = SubSeq(pending, 1, n)
    <3> DEFINE a == SubSeq(u, 1, n)
               b == SubSeq(pending, 1, n)
    <3>1. n \in 1..N /\ n \in 0..N /\ n \in 0..Len(u)
      BY <1>1, <1>5, <2>2
    <3>2. /\ a \in Seq(Byte) /\ Len(a) = n /\ \A i \in 1..n : a[i] = u[i]
          /\ b \in Seq(Byte) /\ Len(b) = n /\ \A i \in 1..n : b[i] = pending[i]
      BY <1>1, <1>2, <3>1, CutAt DEF N
    <3> HIDE DEF a, b
    <3>3. \A i \in 1..n : i \in 1..N
      BY <1>1, <3>1
    <3>4. \A i \in 1..Len(a) : a[i] = b[i]
      BY <1>2, <3>2, <3>3
    <3>5. a = b
      BY <3>2, <3>4, SeqEqual
    <3>6. QED
      BY <3>5 DEF a, b
  <2>4. o \in 1..MaxUnit /\ ValidRepresentation(SubSeq(pending, 1, o))
    BY <1>4, <2>2, <2>3
  <2>5. QED
    BY <1>11, <2>4
<1>12. QED
  BY <1>8, <1>9, <1>10, <1>11 DEF Refused, N, c

LEMMA ValueCondemned ==
    ASSUME StreamInv, FrameInv, UnitsNonempty, ScanInv, format = "json", ~Terminal,
           pending # <<>>, final => rest = <<>>, Refused
    PROVE  Condemned(final)
<1>1. ASSUME NEW p \in (IF final THEN {<<>>} ELSE Chunks), WellFramed[offered \o p]
      PROVE  FALSE
  <2>1. Chunks \subseteq Seq(Byte) /\ <<>> \in Seq(Byte)
    BY ChunksAreText DEF StreamInv, StreamType
  <2>2. p \in Seq(Byte) /\ (final => rest = <<>> /\ p = <<>>)
    BY <1>1, <2>1
  <2>3. PICK t \in Seq(Byte) : \E n \in 1..MaxUnit :
           /\ final => t = <<>>
           /\ EndsAfter(pending \o t, n) /\ Ahead(pending \o t, framer, n)
           /\ ValidRepresentation(SubSeq(pending \o t, 1, n))
    BY <1>1, <2>2, ValueAhead
  <2>4. QED
    BY <2>3, RefusedIsNone
<1>2. QED
  BY <1>1 DEF Condemned

LEMMA ScanJustified ==
    ASSUME StreamInv, FrameInv, Waiting, UnitsNonempty, ScanInv, Justified,
           ScanJSON \/ FinishJSON
    PROVE  Justified'
<1>1. /\ pc = "scan" /\ pending # <<>> /\ UNCHANGED <<format, offered, final>> /\ ~Terminal
      /\ format = "json" /\ (final => rest = <<>>) /\ framer.offset <= Len(pending)
      /\ framer.offset \in Nat /\ Len(pending) \in Nat
  <2>1. pc = "scan" /\ format = "json" /\ UNCHANGED <<format, offered, final>>
    BY DEF ScanJSON, FinishJSON, history
  <2>2. ~Terminal /\ (final => rest = <<>>)
    BY <2>1, RunningIsOpen
  <2>3. /\ framer.offset <= Len(pending) /\ framer.offset \in Nat /\ Len(pending) \in Nat
        /\ pending \in Seq(Byte)
    BY DEF StreamInv, StreamType, Framer
  <2>4. pending # <<>>
    <3>1. CASE ScanJSON
      <4>1. framer.offset < Len(pending)
        BY <3>1 DEF ScanJSON
      <4>2. Len(pending) # 0
        BY <2>3, <4>1
      <4>3. QED
        BY <4>2
    <3>2. CASE FinishJSON
      BY <3>2 DEF FinishJSON
    <3>3. QED
      BY <3>1, <3>2
  <2>5. QED
    BY <2>1, <2>2, <2>3, <2>4
<1>2. ASSUME Refused, NEW category, category # "open", NEW cause, Fail(category, cause, "none")
      PROVE  Justified'
  <2>1. Condemned(final')
    BY <1>1, <1>2, ValueCondemned
  <2>2. QED
    BY <1>1, <1>2, <2>1, FailedJustified
<1>3. ASSUME Take(framer.offset, framer), framer.complete,
             IF framer.offset < Len(pending) THEN pending[framer.offset + 1] \notin Space
             ELSE final
      PROVE  Justified'
  <2>1. CASE framer.offset > MaxUnit
    <3>1. framer.offset \notin 1..MaxUnit
      BY <1>1, <2>1, Limits
    <3>2. Refused
      BY <1>3, <3>1 DEF Refused
    <3>3. QED
      BY <1>2, <1>3, <2>1, <3>2 DEF Take
  <2>2. CASE ~(framer.offset > MaxUnit)
    BY <1>1, <1>3, <2>2, KeptJustified DEF Take
  <2>3. QED
    BY <2>1, <2>2
<1>4. CASE ScanJSON
  <2> DEFINE o == framer.offset
             c == pending[o + 1]
  <2>1. o < Len(pending)
    BY <1>4 DEF ScanJSON
  <2>2. CASE Take(o, framer) /\ framer.complete /\ c \notin Space
    BY <1>3, <2>1, <2>2
  <2>3. CASE /\ Fail("malformed", "framing", "none")
             /\ ~framer.complete /\ ~(~framer.started /\ c \in Space)
             /\ Unopened(framer, c) \/ (~framer.started /\ ~Opening(c))
    <3>1. Refused
      BY <2>1, <2>3 DEF Refused
    <3>2. QED
      BY <1>2, <2>3, <3>1
  <2>4. CASE /\ ~(framer.complete /\ c \notin Space)
             /\ Fail("limit", "unit limit", "none")
             /\ \/ o + 1 > MaxUnit
                \/ ~ScanNext(framer, c).complete /\ o + 1 >= MaxUnit
    <3>1. Refused
      BY <2>1, <2>4 DEF Refused
    <3>2. QED
      BY <1>2, <2>4, <3>1
  <2>5. CASE outcome' = outcome
    BY <1>1, <2>5, KeptJustified
  <2>6. QED
    BY <1>4, <2>2, <2>3, <2>4, <2>5, ScanAnswers
<1>5. CASE FinishJSON
  <2>1. framer.offset = Len(pending)
    BY <1>5 DEF FinishJSON
  <2>2. CASE final /\ framer.complete /\ Take(framer.offset, framer)
    BY <1>1, <1>3, <2>1, <2>2
  <2>3. CASE final /\ ~framer.complete /\ Fail("incomplete", "framing", "none")
    <3>1. Refused
      BY <2>1, <2>3 DEF Refused
    <3>2. QED
      BY <1>2, <2>3, <3>1
  <2>4. CASE Wait(framer)
    BY <1>1, <2>4, WaitJustified
  <2>5. QED
    BY <1>5, <2>2, <2>3, <2>4 DEF FinishJSON
<1>6. QED
  BY <1>4, <1>5

LEMMA AcceptJustified ==
    ASSUME StreamInv, FrameInv, Waiting, UnitsNonempty, Justified, AcceptInput
    PROVE  Justified'
<1>1. pc = "accept" /\ rest # <<>> /\ UNCHANGED <<format, offered, final>> /\ ~Terminal
  BY DEF AcceptInput, history, StreamInv, Control
<1>2. CASE UnitRoom <= 0 /\ Fail("limit", "unit limit", "none")
  <2>1. ASSUME NEW p \in (IF final THEN {<<>>} ELSE Chunks) PROVE ~WellFramed[offered \o p]
    <3>1. p \in Seq(Byte)
      <4>1. Chunks \subseteq Seq(Byte) /\ <<>> \in Seq(Byte)
        BY ChunksAreText DEF StreamInv, StreamType
      <4>2. QED
        BY <2>1, <4>1
    <3>2. QED
      BY <1>1, <1>2, <3>1, LineCondemns
  <2>2. Condemned(final')
    BY <1>1, <2>1 DEF Condemned
  <2>3. QED
    BY <1>1, <1>2, <2>2, FailedJustified
<1>3. CASE Fail("limit", "pending limit", "none")
  <2>1. "pending limit" \notin Refusals
    BY DEF Refusals
  <2>2. QED
    BY <1>1, <1>3, <2>1, FailedJustified
<1>4. CASE Buffer
  <2>1. outcome'.cause = outcome.cause
    BY <1>4 DEF Buffer, StreamInv, StreamType, Outcome
  <2>2. QED
    BY <1>1, <2>1, KeptJustified
<1>5. QED
  BY <1>2, <1>3, <1>4 DEF AcceptInput

LEMMA RejectJustified ==
    ASSUME StreamInv, FrameInv, Waiting, UnitsNonempty, ScanInv, Justified, RejectUnit
    PROVE  Justified'
<1>1. /\ pc = "validate" /\ UNCHANGED <<format, offered, final>> /\ ~Terminal
      /\ ~ValidRepresentation(SubSeq(pending, 1, unit)) /\ unit \in 0..Len(pending)
      /\ (final => rest = <<>>) /\ pending \in Seq(Byte)
  BY DEF RejectUnit, UnitBytes, history, StreamInv, StreamType, Control, InUnit
<1>2. Condemned(final)
  <2>1. CASE Whole
    <3>1. final /\ unit = Len(pending)
      BY <1>1, <2>1 DEF StreamInv, Control, InUnit
    <3>2. ~ValidRepresentation(pending) /\ rest = <<>>
      <4>1. SubSeq(pending, 1, Len(pending)) = pending
        BY <1>1
      <4>2. QED
        BY <1>1, <3>1, <4>1
    <3>3. QED
      BY <1>1, <2>1, <3>1, <3>2, WholeCondemns DEF Condemned
  <2>2. CASE format = "json"
    <3>1. /\ pending # <<>> /\ unit = framer.offset /\ framer.complete
          /\ IF unit < Len(pending) THEN pending[unit + 1] \notin Space ELSE final
      BY <1>1, <2>2 DEF Waiting, InUnit, FrameInv, UnitInv, ScanInv, Whole
    <3>2. Refused
      BY <1>1, <3>1 DEF Refused
    <3>3. QED
      BY <1>1, <2>2, <3>1, <3>2, ValueCondemned
  <2>3. CASE ~Whole /\ format # "json"
    <3>1. pending # <<>> /\ unit = FirstUnit(pending) /\ (final \/ Determined(pending))
      BY <1>1, <2>3 DEF Waiting, InUnit, FrameInv, UnitInv
    <3>2. QED
      BY <1>1, <2>3, <3>1, UnitCondemned
  <2>4. QED
    BY <2>1, <2>2, <2>3
<1>3. QED
  BY <1>1, <1>2, FailedJustified DEF RejectUnit

LEMMA CompleteJustified ==
    ASSUME StreamInv, UnitsNonempty, Justified, Complete
    PROVE  Justified'
<1>1. /\ pc = "idle" /\ ~Terminal /\ final' = TRUE /\ UNCHANGED <<format, offered>>
      /\ rest = <<>>
  BY DEF Complete, history, StreamInv, Control
<1>2. CASE Fail("timeout", "context", "none")
  <2>1. "context" \notin Refusals
    BY DEF Refusals
  <2>2. QED
    BY <1>1, <1>2, <2>1, FailedJustified
<1>3. CASE Whole /\ Len(pending) > MaxUnit
           /\ (Fail("limit", "unit limit", "none") \/ Take(Len(pending), framer))
  <2>1. Condemned(final')
    BY <1>1, <1>3, WholeCondemns DEF Condemned
  <2>2. Fail("limit", "unit limit", "none")
    BY <1>3 DEF Take
  <2>3. QED
    BY <1>1, <2>1, <2>2, FailedJustified
<1>4. CASE outcome' = outcome
  BY <1>1, <1>4, KeptJustified
<1>5. QED
  BY <1>2, <1>3, <1>4 DEF Complete, Take

LEMMA OverJustified ==
    ASSUME StreamInv, Justified, Terminal, [Next]_vars
    PROVE  Justified'
<1>1. UNCHANGED <<outcome, offered, format, final>>
  BY OverStays
<1>2. WellFramed' = WellFramed /\ Chunks' = Chunks
  BY <1>1, SameFraming
<1>3. FramingComplete' = FramingComplete
  BY <1>1, <1>2 DEF FramingComplete
<1>4. QED
  BY <1>1, <1>3 DEF Justified, Terminal

LEMMA JustifiedStep ==
    ASSUME StreamInv, FrameInv, Waiting, UnitsNonempty, ScanInv, Justified, [Next]_vars
    PROVE  Justified'
<1>1. CASE Terminal
  BY <1>1, OverJustified
<1>2. CASE ~Terminal
  <2>1. UnitInv
    BY DEF FrameInv
  <2>2. {"input limit", "context", "abort", "scope", "guard", "expansion", "output limit",
         "transfer"} \cap Refusals = {}
    BY DEF Refusals
  <2>3. CASE outcome' = outcome
    BY <1>2, <2>3, KeptJustified
  <2>4. CASE UNCHANGED vars \/ DeliverFallback \/ Closed \/ WriteReturns
             \/ \E p \in Chunks : WriteContext(p)
    BY <2>3, <2>4 DEF vars, DeliverFallback, Closed, WriteReturns, WriteContext
  <2>5. CASE WriteRefused
    BY <2>2, <2>5, FailedJustified DEF WriteRefused, history
  <2>6. CASE Abort \/ ScopeFails \/ GuardLate
    <3>1. /\ UNCHANGED <<format, offered>>
          /\ \E category \in {"incomplete", "fault", "timeout"},
                cause \in {"abort", "scope", "context"} :
                \E d : Fail(category, cause, d)
      BY <2>6, Zenon DEF Abort, ScopeFails, GuardLate, history
    <3>2. QED
      BY <2>2, <3>1, FailedJustified
  <2>7. CASE GuardStops
    <3>1. /\ UNCHANGED <<format, offered>>
          /\ \E category \in {"fault", "blocked"} : \E d : Fail(category, "guard", d)
      BY <2>7 DEF GuardStops, history
    <3>2. QED
      BY <2>2, <3>1, FailedJustified
  <2>8. ASSUME NEW grown \in OutputSizes, NEW valid \in BOOLEAN, GuardApproves(grown, valid)
        PROVE  Justified'
    <3>1. UNCHANGED <<format, offered>>
      BY <2>8 DEF GuardApproves, history
    <3>2. CASE \/ Fail("fault", "guard", "none") \/ Fail("limit", "expansion", "none")
               \/ Fail("limit", "output limit", "none")
      BY <2>2, <3>1, <3>2, FailedJustified
    <3>3. CASE outcome' = [outcome EXCEPT !.sequence = @ + 1, !.disposition = "none"]
      <4>1. outcome'.cause = outcome.cause
        BY <3>3 DEF StreamInv, StreamType, Outcome
      <4>2. QED
        BY <1>2, <4>1, KeptJustified
    <3>4. QED
      BY <2>8, <3>2, <3>3 DEF GuardApproves
  <2>9. CASE InvalidCount
    BY <2>2, <2>9, FailedJustified DEF InvalidCount, history
  <2>10. ASSUME NEW n \in 0..approved, ShortWrite(n) PROVE Justified'
    BY <2>2, <2>10, FailJustified DEF ShortWrite, history
  <2>11. CASE Written
    <3>1. outcome'.cause = outcome.cause
      BY <2>11 DEF Written, StreamInv, StreamType, Outcome
    <3>2. QED
      BY <1>2, <3>1, KeptJustified
  <2>12. CASE NothingPending
    BY <1>2, <2>12, WaitJustified DEF NothingPending
  <2>13. CASE ScanNewline
    <3>1. /\ pc = "scan" /\ pending # <<>> /\ UNCHANGED <<format, offered, final>>
          /\ ~Whole /\ (final => rest = <<>>)
      BY <2>13, RunningIsOpen DEF ScanNewline, history
    <3>2. PICK f : \/ /\ \E n \in 0..Len(pending) : Take(n, f) /\ n = FirstUnit(pending)
                      /\ final \/ Determined(pending)
                   \/ Wait(f)
      BY <2>1, <2>13, NewlineAnswers
    <3>3. QED
      BY <1>2, <3>1, <3>2, TakeJustified, WaitJustified
  <2>14. CASE ScanPartial
    <3>1. /\ pc = "scan" /\ pending # <<>> /\ UNCHANGED <<format, offered, final>>
          /\ ~Whole /\ (final => rest = <<>>)
      BY <2>14, RunningIsOpen DEF ScanPartial, history
    <3>2. ASSUME NEW n \in 0..Len(pending), n = FirstUnit(pending),
                 final \/ Determined(pending), Take(n, framer)
          PROVE  Justified'
      BY <1>2, <3>1, <3>2, TakeJustified
    <3>3. ASSUME NEW n \in 0..Len(pending), n = FirstUnit(pending),
                 final \/ Determined(pending), Fail("incomplete", "encoding", "none"),
                 n = 0 \/ ~ValidUTF8(SubSeq(pending, 1, n))
          PROVE  Justified'
      <4>1. n \notin 1..MaxUnit \/ ~ValidRepresentation(SubSeq(pending, 1, n))
        <5>1. CASE n = 0
          BY <5>1, Limits
        <5>2. CASE ~ValidUTF8(SubSeq(pending, 1, n))
          BY <5>2 DEF ValidRepresentation
        <5>3. QED
          BY <3>3, <5>1, <5>2
      <4>2. Condemned(final')
        BY <1>2, <3>1, <3>3, <4>1, UnitCondemned
      <4>3. QED
        BY <3>1, <3>3, <4>2, FailedJustified
    <3>4. CASE Wait(framer)
      BY <1>2, <3>4, WaitJustified
    <3>5. CASE \E n \in 0..Len(pending) :
                  /\ n = FirstUnit(pending)
                  /\ final \/ Determined(pending)
                  /\ \/ Take(n, framer)
                     \/ /\ Fail("incomplete", "encoding", "none")
                        /\ n = 0 \/ ~ValidUTF8(SubSeq(pending, 1, n))
      BY <3>2, <3>3, <3>5
    <3>6. QED
      BY <2>14, <3>4, <3>5, PartialAnswers
  <2>15. QED
    BY <2>4, <2>5, <2>6, <2>7, <2>8, <2>9, <2>10, <2>11, <2>12, <2>13, <2>14,
       ScanJustified, AcceptJustified, RejectJustified, CompleteJustified DEF Next, Call, Proceed
<1>3. QED
  BY <1>1, <1>2

RefusalInv == Waiting /\ UnitsNonempty /\ ScanInv /\ Justified

LEMMA RefusalInit == Init => RefusalInv
<1>1. SUFFICES ASSUME Init PROVE RefusalInv
  OBVIOUS
<1>2. /\ pending = <<>> /\ pc = "idle" /\ cuts = <<>> /\ outcome.cause = "none"
      /\ framer = FreshFramer
  BY <1>1 DEF Init
<1>3. Waiting /\ UnitsNonempty
  BY <1>2 DEF Waiting, UnitsNonempty, InUnit
<1>4. ScanInv
  BY <1>2, FreshIsScanned DEF ScanInv, InUnit
<1>5. Justified
  BY <1>2 DEF Justified, FramingComplete
<1>6. QED
  BY <1>3, <1>4, <1>5 DEF RefusalInv

LEMMA RefusalStep ==
    StreamInv /\ StreamInv' /\ FrameInv /\ RefusalInv /\ [Next]_vars => RefusalInv'
<1>1. SUFFICES ASSUME StreamInv, StreamInv', FrameInv, RefusalInv, [Next]_vars
               PROVE  RefusalInv'
  OBVIOUS
<1>2. Waiting /\ UnitsNonempty /\ ScanInv /\ Justified
  BY <1>1 DEF RefusalInv
<1>3. Waiting' /\ UnitsNonempty'
  BY <1>1, <1>2, WaitingStep, UnitsNonemptyStep
<1>4. ScanInv'
  BY <1>1, <1>2, ScanInvStep
<1>5. Justified'
  BY <1>1, <1>2, JustifiedStep
<1>6. QED
  BY <1>3, <1>4, <1>5 DEF RefusalInv

(* An input is refused for its framing only when no continuation could     *)
(* make it well framed.                                                    *)
THEOREM FramingAlwaysComplete == Spec => []FramingComplete
<1>1. RefusalInv => FramingComplete
  BY DEF RefusalInv, Justified
<1>2. QED
  BY <1>1, RefusalInit, RefusalStep, FrameInvariant, StreamInvariant, PTL DEF Spec

-----------------------------------------------------------------------------
(* The ring of StreamBuffer.tla, for every bound and every set of bytes:   *)
(* it stays within its allocation, the allocation within its bound, and    *)
(* the live bytes behave as the queue of ByteQueue.tla.                    *)

(* A cell number that has passed the end at most once.                     *)
LEMMA WrapOnce ==
    ASSUME NEW a \in Nat, NEW c \in Nat \ {0}, a < 2 * c
    PROVE  a % c = IF a < c THEN a ELSE a - c
<1>1. CASE a < c
  BY <1>1
<1>2. CASE ~(a < c)
  <2>1. a - c \in Nat /\ a - c < c
    BY <1>2
  <2>2. a = 1 * c + (a - c)
    OBVIOUS
  <2>3. QED
    BY <1>2, <2>1, <2>2
<1>3. QED
  BY <1>1, <1>2

(* Every live byte was written: no cell of a new allocation shows through. *)
LiveWritten == \A i \in 0..(size - 1) : At(i) \in Bytes

RingInv == TypeOK /\ AllocationBounded /\ LiveWritten

LEMMA GrownCapacityRange ==
    ASSUME RingInv, NEW required \in 0..MaxBytes, required > capacity
    PROVE  /\ GrownCapacity(required) \in 0..MaxBytes
           /\ required <= GrownCapacity(required)
BY MaxBytesAssumption DEF RingInv, TypeOK, GrownCapacity

LEMMA InitRingInv == RingInit => RingInv
<1>1. <<>> \in [0..(0 - 1) -> Cell]
  OBVIOUS
<1>2. QED
  BY <1>1, MaxBytesAssumption
  DEF RingInit, RingInv, TypeOK, AllocationBounded, LiveWritten

(* Where the i-th byte after the start of a ring is written: behind the    *)
(* live bytes, and on none of them.                                        *)
LEMMA WrittenAt ==
    ASSUME NEW cap \in Nat \ {0}, NEW h \in 0..(cap - 1), NEW d,
           NEW p \in Seq(Bytes), size \in Nat, size + Len(p) <= cap,
           NEW i \in 0..(size + Len(p) - 1)
    PROVE  WrittenInto(d, cap, h, p)[(h + i) % cap]
             = IF i < size THEN d[(h + i) % cap] ELSE p[i - size + 1]
<1> DEFINE tail == (h + size) % cap
           c    == (h + i) % cap
           k    == (c + cap - tail) % cap
<1>1. Len(p) \in Nat
  OBVIOUS
<1>2. tail = IF h + size < cap THEN h + size ELSE h + size - cap
  <2> DEFINE a == h + size
  <2>1. a \in Nat /\ a < 2 * cap
    BY <1>1
  <2> HIDE DEF a
  <2>2. a % cap = IF a < cap THEN a ELSE a - cap
    BY <2>1, WrapOnce
  <2>3. QED
    BY <2>2 DEF a
<1>3. c = IF h + i < cap THEN h + i ELSE h + i - cap
  <2> DEFINE a == h + i
  <2>1. a \in Nat /\ a < 2 * cap
    BY <1>1
  <2> HIDE DEF a
  <2>2. a % cap = IF a < cap THEN a ELSE a - cap
    BY <2>1, WrapOnce
  <2>3. QED
    BY <2>2 DEF a
<1>4. tail \in 0..(cap - 1) /\ c \in 0..(cap - 1)
  BY <1>1, <1>2, <1>3
<1>5. WrittenInto(d, cap, h, p)[c] = IF k < Len(p) THEN p[k + 1] ELSE d[c]
  BY <1>4 DEF WrittenInto
<1> HIDE DEF tail, c
<1>6. k = IF c < tail THEN c + cap - tail ELSE c - tail
  <2> DEFINE a == c + cap - tail
  <2>1. a \in Nat /\ a < 2 * cap
    BY <1>4
  <2> HIDE DEF a
  <2>2. a % cap = IF a < cap THEN a ELSE a - cap
    BY <2>1, WrapOnce
  <2>3. QED
    BY <2>2, <1>4 DEF a
<1> HIDE DEF k
<1>7. CASE i < size
  <2>1. ~(k < Len(p))
    BY <1>1, <1>2, <1>3, <1>6, <1>7
  <2>2. QED
    BY <2>1, <1>5, <1>7 DEF c
<1>8. CASE ~(i < size)
  <2>1. k = i - size /\ k < Len(p)
    BY <1>1, <1>2, <1>3, <1>6, <1>8
  <2>2. QED
    BY <2>1, <1>5, <1>8 DEF c
<1>9. QED
  BY <1>7, <1>8

(* Appending leaves the live bytes where a reader finds them, and puts the *)
(* new ones behind them.                                                   *)
LEMMA AppendStep ==
    ASSUME RingInv, NEW p \in RingChunks, AppendBytes(p)
    PROVE  /\ TypeOK' /\ AllocationBounded'
           /\ p \in Seq(Bytes) /\ size' = size + Len(p) /\ size' <= MaxBytes
           /\ \A i \in 0..(size' - 1) :
                 At(i)' = IF i < size THEN At(i) ELSE p[i - size + 1]
<1> DEFINE required == size + Len(p)
           grows    == required > capacity
           cap      == IF grows THEN GrownCapacity(required) ELSE capacity
           ring     == IF grows THEN Grown(cap) ELSE data
           start    == IF grows THEN 0 ELSE head
<1>1. p \in Seq(Bytes) /\ Len(p) \in 1..MaxBytes
  BY MaxBytesAssumption DEF RingChunks
<1>2. /\ required \in 1..MaxBytes /\ size \in Nat /\ capacity \in 0..MaxBytes
      /\ data \in [0..(capacity - 1) -> Cell]
  BY <1>1, MaxBytesAssumption DEF AppendBytes, RingInv, TypeOK
<1>3. cap \in 1..MaxBytes /\ required <= cap /\ capacity <= cap
  BY <1>2, MaxBytesAssumption, GrownCapacityRange DEF RingInv, TypeOK, GrownCapacity
<1>4. start \in 0..(cap - 1)
  BY <1>2, <1>3 DEF RingInv, TypeOK
<1>5. /\ data' = WrittenInto(ring, cap, start, p) /\ capacity' = cap /\ head' = start
      /\ size' = required /\ peak' = IF cap > peak THEN cap ELSE peak
  BY DEF AppendBytes
<1>6. \A i \in 0..(size - 1) : At(i) \in Cell
  BY DEF RingInv, LiveWritten, Cell
<1>7. ring \in [0..(cap - 1) -> Cell]
  BY <1>2, <1>3, <1>6 DEF Grown, Cell
<1>8. WrittenInto(ring, cap, start, p) \in [0..(cap - 1) -> Cell]
  <2> DEFINE i(c) == (c + cap - ((start + size) % cap)) % cap
  <2>1. ASSUME NEW c \in 0..(cap - 1)
        PROVE  (IF i(c) < Len(p) THEN p[i(c) + 1] ELSE ring[c]) \in Cell
    <3>1. (start + size) % cap \in 0..(cap - 1)
      BY <1>2, <1>3, <1>4
    <3>2. i(c) \in 0..(cap - 1)
      BY <1>3, <3>1
    <3> HIDE DEF i, ring
    <3>3. ring[c] \in Cell
      BY <1>7
    <3>4. i(c) < Len(p) => p[i(c) + 1] \in Bytes
      BY <1>1, <3>2
    <3>5. QED
      BY <3>3, <3>4 DEF Cell
  <2>2. QED
    BY <2>1 DEF WrittenInto
<1>9. TypeOK' /\ AllocationBounded'
  BY <1>2, <1>3, <1>4, <1>5, <1>8 DEF RingInv, TypeOK, AllocationBounded
<1>10. ASSUME NEW i \in 0..(size' - 1)
       PROVE  At(i)' = IF i < size THEN At(i) ELSE p[i - size + 1]
  <2>1. At(i)' = WrittenInto(ring, cap, start, p)[(start + i) % cap]
    BY <1>5 DEF At, CellOf
  <2>2. WrittenInto(ring, cap, start, p)[(start + i) % cap]
          = IF i < size THEN ring[(start + i) % cap] ELSE p[i - size + 1]
    <3>1. /\ cap \in Nat \ {0} /\ start \in 0..(cap - 1) /\ p \in Seq(Bytes)
          /\ size \in Nat /\ size + Len(p) <= cap
          /\ i \in 0..(size + Len(p) - 1)
      BY <1>1, <1>2, <1>3, <1>4, <1>5
    <3> HIDE DEF cap, ring, start
    <3>2. QED
      BY <3>1, WrittenAt
  <2>3. ASSUME i < size PROVE ring[(start + i) % cap] = At(i)
    <3>1. CASE grows
      <4>1. i \in 0..(cap - 1)
        BY <2>3, <1>2, <1>3
      <4>2. (start + i) % cap = i
        BY <4>1, <3>1, <1>3
      <4>3. ring = Grown(cap)
        BY <3>1
      <4> HIDE DEF ring, start, cap
      <4>4. QED
        BY <4>1, <4>2, <4>3, <2>3 DEF Grown
    <3>2. CASE ~grows
      BY <3>2 DEF At, CellOf
    <3>3. QED
      BY <3>1, <3>2
  <2>4. QED
    BY <2>1, <2>2, <2>3
<1>11. QED
  BY <1>1, <1>2, <1>5, <1>9, <1>10

(* Consuming n bytes makes the n-th live byte the first.                   *)
LEMMA ConsumeStep ==
    ASSUME RingInv, NEW n \in 1..MaxBytes, ConsumeBytes(n)
    PROVE  /\ TypeOK' /\ AllocationBounded'
           /\ n \in 1..size /\ size' = size - n
           /\ \A i \in 0..(size' - 1) : At(i)' = At(n + i)
<1>1. /\ n \in 1..size /\ size' = size - n /\ UNCHANGED <<data, capacity, peak>>
      /\ head' = IF n = size THEN 0 ELSE CellOf(n)
  BY DEF ConsumeBytes
<1>2. size \in 1..capacity /\ capacity \in 1..MaxBytes /\ head \in 0..(capacity - 1)
  BY <1>1, MaxBytesAssumption DEF RingInv, TypeOK
<1>3. CellOf(n) \in 0..(capacity - 1)
  BY <1>1, <1>2 DEF CellOf
<1>4. TypeOK' /\ AllocationBounded'
  BY <1>1, <1>2, <1>3, MaxBytesAssumption DEF RingInv, TypeOK, AllocationBounded
<1>5. ASSUME NEW i \in 0..(size' - 1)
      PROVE  At(i)' = At(n + i)
  <2>1. n < size /\ i \in Nat /\ n + i < size
    BY <1>1, <1>2
  <2>2. head' = CellOf(n)
    BY <1>1, <2>1
  <2> DEFINE a == head + n
             b == CellOf(n) + i
             c == head + (n + i)
  <2>3. a \in Nat /\ a < 2 * capacity /\ b \in Nat /\ b < 2 * capacity
        /\ c \in Nat /\ c < 2 * capacity
    BY <1>2, <1>3, <2>1
  <2>4. /\ a % capacity = IF a < capacity THEN a ELSE a - capacity
        /\ b % capacity = IF b < capacity THEN b ELSE b - capacity
        /\ c % capacity = IF c < capacity THEN c ELSE c - capacity
    <3> HIDE DEF a, b, c
    <3>1. capacity \in Nat \ {0}
      BY <1>2, MaxBytesAssumption
    <3>2. a % capacity = IF a < capacity THEN a ELSE a - capacity
      BY <3>1, <2>3, WrapOnce
    <3>3. b % capacity = IF b < capacity THEN b ELSE b - capacity
      BY <3>1, <2>3, WrapOnce
    <3>4. c % capacity = IF c < capacity THEN c ELSE c - capacity
      BY <3>1, <2>3, WrapOnce
    <3>5. QED
      BY <3>2, <3>3, <3>4
  <2>5. CellOf(n) = a % capacity
    BY DEF CellOf
  <2>6. b % capacity = c % capacity
    <3> DEFINE k == CellOf(n)
    <3>1. k = IF a < capacity THEN a ELSE a - capacity
      BY <2>4, <2>5
    <3>2. b = k + i
      OBVIOUS
    <3>3. a = head + n /\ c = a + i
      BY <1>1, <1>2, <2>1
    <3> HIDE DEF a, b, c, k
    <3>4. QED
      BY <1>1, <1>2, <2>1, <2>3, <2>4, <3>1, <3>2, <3>3
  <2>7. QED
    BY <1>1, <2>2, <2>6 DEF At, CellOf
<1>6. QED
  BY <1>1, <1>4, <1>5

LEMMA NextRingInv == RingInv /\ [RingNext]_ringVars => RingInv'
<1> SUFFICES ASSUME RingInv, [RingNext]_ringVars PROVE RingInv'
  OBVIOUS
<1>1. ASSUME NEW p \in RingChunks, AppendBytes(p) PROVE RingInv'
  <2>1. ASSUME NEW i \in 0..(size' - 1) PROVE At(i)' \in Bytes
    <3>1. /\ p \in Seq(Bytes) /\ size' = size + Len(p) /\ size \in Nat
          /\ At(i)' = IF i < size THEN At(i) ELSE p[i - size + 1]
      BY <1>1, AppendStep DEF RingInv, TypeOK
    <3>2. CASE i < size
      BY <3>1, <3>2 DEF RingInv, LiveWritten
    <3>3. CASE ~(i < size)
      <4>1. i - size + 1 \in 1..Len(p)
        BY <3>1, <3>3
      <4>2. QED
        BY <3>1, <3>3, <4>1
    <3>4. QED
      BY <3>2, <3>3
  <2>2. QED
    BY <1>1, <2>1, AppendStep DEF RingInv, LiveWritten
<1>2. ASSUME NEW n \in 1..MaxBytes, ConsumeBytes(n) PROVE RingInv'
  <2>1. ASSUME NEW i \in 0..(size' - 1) PROVE At(i)' \in Bytes
    <3>1. /\ n \in 1..size /\ size' = size - n /\ size \in Nat
          /\ At(i)' = At(n + i)
      BY <1>2, ConsumeStep DEF RingInv, TypeOK
    <3>2. n + i \in 0..(size - 1)
      BY <3>1
    <3>3. QED
      BY <3>1, <3>2 DEF RingInv, LiveWritten
  <2>2. QED
    BY <1>2, <2>1, ConsumeStep DEF RingInv, LiveWritten
<1>3. CASE ClearBytes
  <2>1. <<>> \in [0..(0 - 1) -> Cell]
    OBVIOUS
  <2>2. QED
    BY <1>3, <2>1, MaxBytesAssumption
    DEF ClearBytes, RingInv, TypeOK, AllocationBounded, LiveWritten
<1>4. CASE UNCHANGED ringVars
  BY <1>4 DEF ringVars, RingInv, TypeOK, AllocationBounded, LiveWritten, At, CellOf
<1>5. QED
  BY <1>1, <1>2, <1>3, <1>4 DEF RingNext

LEMMA RingInvariant == RingSpec => []RingInv
<1>1. QED
  BY InitRingInv, NextRingInv, PTL DEF RingSpec

(* The head, the size and the allocation stay consistent, and every live   *)
(* cell lies within the allocation.                                        *)
THEOREM RingTypeCorrect == RingSpec => []TypeOK
<1>1. RingInv => TypeOK
  BY DEF RingInv
<1>2. QED
  BY <1>1, RingInvariant, PTL

(* Whatever is written and released, the allocation never passes the bound *)
(* of the configuration, nor the peak reported for it.                     *)
THEOREM AllocationAlwaysBounded == RingSpec => []AllocationBounded
<1>1. RingInv => AllocationBounded
  BY DEF RingInv
<1>2. QED
  BY <1>1, RingInvariant, PTL

-----------------------------------------------------------------------------
(* The ring implements the queue.                                          *)

LEMMA PrefixType ==
    ASSUME RingInv
    PROVE  /\ Prefix(size) \in Seq(Bytes)
           /\ Len(Prefix(size)) = size /\ size \in 0..MaxBytes
           /\ \A i \in 1..size : Prefix(size)[i] = At(i - 1)
<1>1. size \in 0..MaxBytes
  BY MaxBytesAssumption DEF RingInv, TypeOK
<1>2. \A i \in 1..size : At(i - 1) \in Bytes
  BY <1>1 DEF RingInv, LiveWritten
<1>3. Prefix(size) \in [1..size -> Bytes]
  BY <1>2 DEF Prefix
<1>4. QED
  BY <1>1, <1>3 DEF Prefix

LEMMA QueueStep ==
    ASSUME RingInv, RingInv', [RingNext]_ringVars
    PROVE  [Queue!Next]_(Prefix(size))
<1> DEFINE q == Prefix(size)
<1>1. /\ q \in Seq(Bytes) /\ Len(q) = size /\ size \in 0..MaxBytes
      /\ \A i \in 1..size : q[i] = At(i - 1)
  BY PrefixType
<1>2. /\ q' \in Seq(Bytes) /\ Len(q') = size' /\ size' \in 0..MaxBytes
      /\ \A i \in 1..size' : q'[i] = At(i - 1)'
  <2>1. size' \in 0..MaxBytes
    BY MaxBytesAssumption DEF RingInv, TypeOK
  <2>2. ASSUME NEW i \in 1..size' PROVE At(i - 1)' \in Bytes
    <3> DEFINE last == size'
    <3>1. last \in Nat /\ i \in 1..last
      BY <2>1, MaxBytesAssumption
    <3> HIDE DEF last
    <3>2. i - 1 \in 0..(last - 1)
      BY <3>1
    <3>3. QED
      BY <3>2 DEF RingInv, LiveWritten, At, CellOf, last
  <2>3. q' = [i \in 1..size' |-> At(i - 1)']
    BY DEF Prefix, At, CellOf
  <2>4. q' \in [1..size' -> Bytes]
    BY <2>2, <2>3
  <2>5. QED
    BY <2>1, <2>3, <2>4
<1> HIDE DEF q
<1>3. ASSUME NEW p \in RingChunks, AppendBytes(p)
      PROVE  Queue!AppendBytes
  <2>1. /\ size' = size + Len(p) /\ p \in Seq(Bytes)
        /\ \A i \in 0..(size' - 1) :
              At(i)' = IF i < size THEN At(i) ELSE p[i - size + 1]
    BY <1>3, AppendStep
  <2>2. ASSUME NEW i \in 1..size PROVE q'[i] = q[i]
    <3>1. size \in Nat /\ Len(p) \in Nat
      BY <1>1, <2>1
    <3>2. i \in 1..size' /\ i - 1 \in 0..(size' - 1) /\ i - 1 < size
      BY <2>1, <3>1
    <3>3. q'[i] = At(i - 1)'
      BY <1>2, <3>2
    <3>4. At(i - 1)' = At(i - 1)
      BY <2>1, <3>2
    <3>5. QED
      BY <1>1, <3>3, <3>4
  <2>3. SubSeq(q', 1, Len(q)) = q
    BY <1>1, <1>2, <2>1, <2>2
  <2>4. QED
    BY <1>1, <1>2, <2>1, <2>3 DEF Queue!AppendBytes, q
<1>4. ASSUME NEW n \in 1..MaxBytes, ConsumeBytes(n)
      PROVE  Queue!ConsumeBytes
  <2>1. /\ n \in 1..size /\ size' = size - n
        /\ \A i \in 0..(size' - 1) : At(i)' = At(n + i)
    BY <1>4, ConsumeStep
  <2>2. \A i \in 1..size' : q'[i] = q[n + i]
    BY <1>1, <1>2, <2>1
  <2>3. q' = SubSeq(q, n + 1, Len(q))
    BY <1>1, <1>2, <2>1, <2>2
  <2>4. QED
    BY <1>1, <2>1, <2>3 DEF Queue!ConsumeBytes, q
<1>5. ASSUME ClearBytes PROVE Queue!ClearBytes
  <2>1. q' = <<>>
    BY <1>2, <1>5 DEF ClearBytes
  <2>2. QED
    BY <2>1 DEF Queue!ClearBytes, q
<1>6. ASSUME UNCHANGED ringVars PROVE q' = q
  BY <1>6 DEF ringVars, q, Prefix, At, CellOf
<1>7. QED
  BY <1>3, <1>4, <1>5, <1>6 DEF RingNext, Queue!Next, q

(* Wrapping, growing and consuming are invisible: for every bound and      *)
(* every set of bytes, the ring is a bounded first-in first-out queue.     *)
THEOREM RingIsQueue == RingSpec => IsQueue
<1>1. RingInit => Queue!Init
  BY DEF RingInit, Queue!Init, Prefix
<1>2. QED
  BY <1>1, RingInvariant, QueueStep, PTL DEF RingSpec, IsQueue, Queue!Spec
=============================================================================
