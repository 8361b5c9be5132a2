-------------------------- MODULE ReportLogProofs --------------------------
(***************************************************************************)
(* What the reduction of a report slice promises however long the slice    *)
(* grows, whatever reports are appended, and in whatever order.            *)
(***************************************************************************)
EXTENDS ReportLog, ReportProofs, SequenceTheorems

TypeInv == reports \in Seq(Report)

LEMMA LogType == Spec => []TypeInv
<1>1. Init => TypeInv
  BY DEF Init, TypeInv
<1>2. TypeInv /\ [Next]_vars => TypeInv'
  <2>1. ASSUME TypeInv, NEW rep \in Samples, Append1(rep) PROVE TypeInv'
    BY <2>1, SamplesAssumption DEF Append1, TypeInv
  <2>2. QED
    BY <2>1 DEF Next, vars, TypeInv
<1>3. QED
  BY <1>1, <1>2, PTL DEF Spec

-----------------------------------------------------------------------------
(* Classes and ranks.                                                      *)

LEMMA FaultRank ==
    ASSUME NEW rep \in Report
    PROVE  /\ IsSystemFault(rep) <=> ReportPriority(rep) = 7
           /\ Malformed(rep) => IsSystemFault(rep)
<1>1. Malformed(rep) => IsSystemFault(rep)
  BY DEF IsSystemFault, EffectiveDisposition
<1>2. IsSystemFault(rep) \in BOOLEAN
  BY DEF IsSystemFault
<1>3. IsSystemFault(rep) => ReportPriority(rep) = 7
  BY DEF ReportPriority, IsSystemFault, IsTerminalDeny, IsRetryableCorrection
<1>4. ~IsSystemFault(rep) => ReportPriority(rep) # 7
  BY DEF ReportPriority
<1>5. QED
  BY <1>1, <1>2, <1>3, <1>4

(* A fault is never merely observed.                                       *)
LEMMA FaultEnforces ==
    ASSUME NEW rep \in Report, IsSystemFault(rep)
    PROVE  ~IsObservation(rep)
BY DEF IsObservation, IsSystemFault, IsTerminalDeny

LEMMA DefaultIsNil ==
    LET d == FinishReport(BlankReport("pass", "safe"), "pass", FALSE)
    IN  ErrorFromDecision(d) = "nil" /\ ~IsObservation(d)
<1> DEFINE b == BlankReport("pass", "safe")
           e == [b EXCEPT !.retryable = FALSE, !.fatal = FALSE]
           d == NormalizeReport(e)
<1>1. b \in Report /\ b.action = "pass" /\ b.disposition = "none" /\ ~b.fatal
      /\ ~b.retryable /\ b.kind = "safe" /\ b.finite
  BY DEF BlankReport, Report, Actions, Dispositions, PayloadKinds
<1>2. FinishReport(b, "pass", FALSE) = d
  BY <1>1 DEF FinishReport, BlankReport
<1>3. e \in Report /\ e.action = "pass" /\ e.disposition = "none" /\ ~e.fatal
      /\ ~e.retryable /\ e.kind = "safe" /\ e.finite
  <2> HIDE DEF b
  <2>1. QED
    BY <1>1 DEF Report
<1>4. EffectiveDisposition(e) = "none"
  <2> HIDE DEF e
  <2>1. QED
    BY <1>3 DEF EffectiveDisposition, Malformed, DeriveDisposition,
                Actions, Dispositions, PayloadKinds
<1>5. d.action = "pass" /\ EffectiveDisposition(d) = "none"
  <2> HIDE DEF e
  <2>1. QED
    BY <1>3, <1>4, NormalizeKeepsClass
<1>6. QED
  <2> HIDE DEF d
  <2>1. QED
    BY <1>2, <1>5 DEF ErrorFromDecision, IsRetryableCorrection, IsTerminalDeny,
                      IsObservation

-----------------------------------------------------------------------------
(* Faults and shadow blocks.                                               *)

LEMMA FaultsStep == TypeInv => FaultsOutrankShadow
<1> SUFFICES ASSUME TypeInv PROVE FaultsOutrankShadow
  OBVIOUS
<1> DEFINE d == Decision(reports)
<1>1. d \in Report
  BY DecisionType DEF TypeInv
<1>2. ASSUME NEW i \in DOMAIN reports, IsSystemFault(reports[i]) \/ Malformed(reports[i])
      PROVE  IsSystemFault(d)
  <2>1. reports[i] \in Report
    BY DEF TypeInv
  <2>2. IsSystemFault(reports[i]) /\ ReportPriority(reports[i]) = 7
    BY <1>2, <2>1, FaultRank
  <2>3. i \in Enforcing(reports)
    BY <2>1, <2>2, FaultEnforces DEF Enforcing
  <2>4. ReportPriority(reports[i]) <= ReportPriority(d)
    BY <2>3, DecisionIsStrongest DEF TypeInv
  <2>5. ReportPriority(d) \in 1..7
    BY PriorityRange
  <2> HIDE DEF d
  <2>6. QED
    BY <1>1, <2>2, <2>4, <2>5, FaultRank
<1>3. ASSUME \A i \in DOMAIN reports : IsObservation(reports[i])
      PROVE  ErrorFromDecision(d) = "nil"
  BY <1>3, DefaultIsNil DEF Enforcing, Decision
<1>4. QED
  <2> HIDE DEF d
  <2>1. QED
    BY <1>2, <1>3 DEF FaultsOutrankShadow, d

(* A fault or a malformed report enforces beside anything, and shadow      *)
(* blocks alone enforce nothing, in a slice of any length (report.go, the  *)
(* reduction of RunResult.Decision).                                       *)
THEOREM FaultsAlwaysOutrankShadow == Spec => []FaultsOutrankShadow
BY LogType, FaultsStep, PTL

-----------------------------------------------------------------------------
(* The order of the slice.                                                 *)

\* The rank a slice enforces: that of its strongest enforcing report, and that
\* of the default decision in a slice without one.
IsRank(s, p) ==
    /\ \A i \in Enforcing(s) : ReportPriority(s[i]) <= p
    /\ p = 1 \/ \E i \in Enforcing(s) : ReportPriority(s[i]) = p

LEMMA DecisionRank ==
    ASSUME NEW s \in Seq(Report)
    PROVE  IsRank(s, ReportPriority(Decision(s)))
BY DecisionIsStrongest, DecisionHasWitness DEF IsRank

LEMMA RankUnique ==
    ASSUME NEW s, NEW p \in 1..7, NEW q \in 1..7, IsRank(s, p), IsRank(s, q)
    PROVE  p = q
<1>1. p <= q
  BY PriorityRange DEF IsRank
<1>2. q <= p
  BY PriorityRange DEF IsRank
<1>3. QED
  BY <1>1, <1>2

(* The rank is all there is to the disposition.                            *)
LEMMA RankGivesDisposition ==
    ASSUME NEW a \in Report, NEW b \in Report, ReportPriority(a) = ReportPriority(b)
    PROVE  EffectiveDisposition(a) = EffectiveDisposition(b)
<1>1. EffectiveDisposition(a) \in Dispositions /\ EffectiveDisposition(b) \in Dispositions
  BY DispositionType
<1>2. ASSUME NEW r \in Report
      PROVE  /\ EffectiveDisposition(r) = "system_fault" <=> ReportPriority(r) = 7
             /\ EffectiveDisposition(r) = "terminal_deny" <=> ReportPriority(r) \in 4..6
             /\ EffectiveDisposition(r) = "retryable_correction" <=> ReportPriority(r) = 3
  BY DEF ReportPriority, IsSystemFault, IsTerminalDeny, IsRetryableCorrection
<1>3. QED
  BY <1>1, <1>2 DEF Dispositions

(* Exchanging two reports only renames the positions.                      *)
LEMMA SwapRenames ==
    ASSUME NEW s \in Seq(Report), NEW i \in DOMAIN s, NEW j \in DOMAIN s
    PROVE  /\ Swapped(s, i, j) \in Seq(Report)
           /\ DOMAIN Swapped(s, i, j) = DOMAIN s
           /\ \A k \in DOMAIN s : \E l \in DOMAIN s :
                 Swapped(s, i, j)[k] = s[l]
           /\ \A k \in DOMAIN s : \E l \in DOMAIN s :
                 s[k] = Swapped(s, i, j)[l]
<1> DEFINE t == Swapped(s, i, j)
<1>1. t = [s EXCEPT ![i] = s[j], ![j] = s[i]]
  BY DEF Swapped
<1>2. DOMAIN t = DOMAIN s /\ t \in Seq(Report)
  BY <1>1
<1>3. \A k \in DOMAIN s : t[k] = IF k = j THEN s[i] ELSE IF k = i THEN s[j] ELSE s[k]
  BY <1>1
<1> HIDE DEF t
<1>4. \A k \in DOMAIN s : \E l \in DOMAIN s : t[k] = s[l]
  BY <1>3
<1>5. ASSUME NEW k \in DOMAIN s PROVE \E l \in DOMAIN s : s[k] = t[l]
  <2>1. CASE k = i
    BY <1>3, <2>1
  <2>2. CASE k = j /\ k # i
    BY <1>3, <2>2
  <2>3. CASE k # i /\ k # j
    BY <1>3, <2>3
  <2>4. QED
    BY <2>1, <2>2, <2>3
<1>6. QED
  BY <1>2, <1>4, <1>5 DEF t

LEMMA SameReportsSameVerdict ==
    ASSUME NEW s \in Seq(Report), NEW t \in Seq(Report),
           \A k \in DOMAIN s : \E l \in DOMAIN t : s[k] = t[l],
           \A k \in DOMAIN t : \E l \in DOMAIN s : t[k] = s[l]
    PROVE  Verdict(s) = Verdict(t)
<1>1. IsRank(s, ReportPriority(Decision(t)))
  <2>1. IsRank(t, ReportPriority(Decision(t)))
    BY DecisionRank
  <2> DEFINE p == ReportPriority(Decision(t))
  <2> HIDE DEF p
  <2>2. \A k \in Enforcing(s) : \E l \in Enforcing(t) : s[k] = t[l]
    BY DEF Enforcing
  <2>3. \A k \in Enforcing(t) : \E l \in Enforcing(s) : t[k] = s[l]
    BY DEF Enforcing
  <2>4. IsRank(t, p)
    BY <2>1 DEF p
  <2>5. IsRank(s, p)
    BY <2>2, <2>3, <2>4 DEF IsRank
  <2>6. QED
    BY <2>5 DEF p
<1>2. ReportPriority(Decision(s)) = ReportPriority(Decision(t))
  BY <1>1, DecisionRank, PriorityRange, RankUnique
<1>3. EffectiveDisposition(Decision(s)) = EffectiveDisposition(Decision(t))
  BY <1>2, DecisionType, RankGivesDisposition
<1>4. KindsOf(s) = KindsOf(t)
  BY DEF KindsOf
<1>5. QED
  BY <1>2, <1>3, <1>4 DEF Verdict, AggregatePayloadKind

LEMMA OrderStep == TypeInv => OrderIndependent
<1> SUFFICES ASSUME TypeInv, NEW i \in DOMAIN reports, NEW j \in DOMAIN reports
             PROVE  Verdict(Swapped(reports, i, j)) = Verdict(reports)
  BY DEF OrderIndependent
<1> DEFINE t == Swapped(reports, i, j)
<1>1. reports \in Seq(Report)
  BY DEF TypeInv
<1>2. /\ t \in Seq(Report) /\ DOMAIN t = DOMAIN reports
      /\ \A k \in DOMAIN reports : \E l \in DOMAIN reports : t[k] = reports[l]
      /\ \A k \in DOMAIN reports : \E l \in DOMAIN reports : reports[k] = t[l]
  BY <1>1, SwapRenames
<1> HIDE DEF t
<1>3. /\ \A k \in DOMAIN t : \E l \in DOMAIN reports : t[k] = reports[l]
      /\ \A k \in DOMAIN reports : \E l \in DOMAIN t : reports[k] = t[l]
  BY <1>2
<1>4. Verdict(t) = Verdict(reports)
  BY <1>1, <1>2, <1>3, SameReportsSameVerdict
<1>5. QED
  BY <1>4 DEF t

(* Enforcement and payload kind do not depend on the order in which        *)
(* parallel validators happened to append.                                 *)
THEOREM OrderNeverMatters == Spec => []OrderIndependent
BY LogType, OrderStep, PTL

-----------------------------------------------------------------------------
(* Growth.                                                                 *)

(* However the slice grows, its verdict only ever becomes stricter.        *)
THEOREM VerdictOnlyEscalates == Spec => EscalationOnly
<1> DEFINE Escalates ==
        /\ ReportPriority(Decision(reports')) >= ReportPriority(Decision(reports))
        /\ PayloadKindPriority(AggregatePayloadKind(reports'))
             >= PayloadKindPriority(AggregatePayloadKind(reports))
<1>1. ASSUME TypeInv, TypeInv', NEW rep \in Samples, Append1(rep) PROVE Escalates
  <2> DEFINE s == reports
             t == reports'
  <2>1. /\ s \in Seq(Report) /\ t \in Seq(Report) /\ t = Append(s, rep)
    BY <1>1 DEF Append1, TypeInv
  <2>2. \A k \in DOMAIN s : k \in DOMAIN t /\ t[k] = s[k]
    BY <2>1
  <2> HIDE DEF s, t
  <2>3. Enforcing(s) \subseteq Enforcing(t)
    BY <2>2 DEF Enforcing
  <2>4. IsRank(s, ReportPriority(Decision(s))) /\ IsRank(t, ReportPriority(Decision(t)))
    BY <2>1, DecisionRank
  <2>5. ReportPriority(Decision(s)) \in 1..7 /\ ReportPriority(Decision(t)) \in 1..7
    BY PriorityRange
  <2>6. ReportPriority(Decision(s)) <= ReportPriority(Decision(t))
    <3>1. CASE ReportPriority(Decision(s)) = 1
      BY <2>5, <3>1
    <3>2. ASSUME NEW k \in Enforcing(s), ReportPriority(s[k]) = ReportPriority(Decision(s))
          PROVE  ReportPriority(Decision(s)) <= ReportPriority(Decision(t))
      <4>1. k \in Enforcing(t) /\ t[k] = s[k]
        BY <2>2, <2>3, <3>2 DEF Enforcing
      <4>2. QED
        BY <2>4, <3>2, <4>1 DEF IsRank
    <3>3. QED
      BY <2>4, <3>1, <3>2 DEF IsRank
  <2>7. PayloadKindPriority(AggregatePayloadKind(s))
           <= PayloadKindPriority(AggregatePayloadKind(t))
    <3>1. KindsOf(s) \subseteq KindsOf(t)
      BY <2>2 DEF KindsOf
    <3>2. AggregatePayloadKind(s) \in KindsOf(s)
      BY <2>1, AggregateInKinds
    <3>3. QED
      BY <2>1, <3>1, <3>2, AggregateInKinds
  <2>8. PayloadKindPriority(AggregatePayloadKind(s)) \in 0..3
        /\ PayloadKindPriority(AggregatePayloadKind(t)) \in 0..3
    BY DEF PayloadKindPriority
  <2>9. QED
    BY <2>5, <2>6, <2>7, <2>8 DEF s, t
<1>2. TypeInv /\ TypeInv' /\ [Next]_vars => [Escalates]_reports
  BY <1>1 DEF Next, vars
<1>3. QED
  BY <1>2, LogType, PTL DEF Spec, EscalationOnly

-----------------------------------------------------------------------------
(* Nesting and projection.                                                 *)

\* What every decision over a slice is: normalised, and no mere observation.
LEMMA DecisionSettled ==
    ASSUME NEW s \in Seq(Report)
    PROVE  LET d == Decision(s)
           IN  /\ d \in Report
               /\ d.disposition = EffectiveDisposition(d)
               /\ ~IsObservation(d)
<1> DEFINE d == Decision(s)
<1>1. ASSUME NEW r \in Report
      PROVE  NormalizeReport(r).disposition = EffectiveDisposition(NormalizeReport(r))
  <2>1. NormalizeReport(r).disposition = EffectiveDisposition(r)
    BY DEF NormalizeReport, Report
  <2>2. QED
    BY <2>1, NormalizeKeepsClass
<1>2. CASE Enforcing(s) = {}
  <2> DEFINE b == BlankReport("pass", "safe")
             e == [b EXCEPT !.retryable = FALSE, !.fatal = FALSE]
  <2>1. b \in Report /\ b.action = "pass" /\ b.disposition = "none" /\ ~b.fatal
        /\ ~b.retryable
    BY DEF BlankReport, Report, Actions, Dispositions, PayloadKinds
  <2>2. d = NormalizeReport(e)
    <3>1. d = FinishReport(b, "pass", FALSE)
      BY <1>2 DEF Decision
    <3>2. FinishReport(b, "pass", FALSE) = NormalizeReport(e)
      BY <2>1 DEF FinishReport, BlankReport
    <3>3. QED
      BY <3>1, <3>2
  <2>3. e \in Report
    <3> HIDE DEF b
    <3>1. QED
      BY <2>1 DEF Report
  <2>4. ~IsObservation(d)
    BY <1>2, DefaultIsNil DEF Decision
  <2> HIDE DEF d, e
  <2>5. QED
    BY <1>1, <2>2, <2>3, <2>4, NormalizeType DEF d
<1>3. CASE Enforcing(s) # {}
  <2> DEFINE r == s[Selected(s)]
  <2>1. r \in Report /\ ~IsObservation(r)
    BY <1>3, SelectedIsStrongest DEF Enforcing
  <2>2. d = NormalizeReport(r)
    BY <1>3 DEF Decision
  <2> HIDE DEF d, r
  <2>3. QED
    BY <1>1, <2>1, <2>2, NormalizeType, NormalizeKeepsClass DEF d
<1>4. QED
  BY <1>2, <1>3

(* A composed slice carries its rank and its kind, and enforces.           *)
LEMMA ComposeRank ==
    ASSUME NEW s \in Seq(Report)
    PROVE  LET c == ComposeReports(s)
           IN  /\ c \in Report
               /\ ~IsObservation(c)
               /\ IsRank(s, ReportPriority(c))
               /\ c.kind = AggregatePayloadKind(s)
<1> DEFINE n == NormalizeAll(s)
           d == Decision(n)
           c == ComposeReports(s)
<1>1. n \in Seq(Report) /\ DOMAIN n = DOMAIN s
      /\ \A i \in DOMAIN s : n[i] = NormalizeReport(s[i])
  BY NormalizeType DEF NormalizeAll
<1>2. \A i \in DOMAIN s : /\ IsObservation(n[i]) = IsObservation(s[i])
                          /\ ReportPriority(n[i]) = ReportPriority(s[i])
  <2> HIDE DEF n
  <2>1. QED
    BY <1>1, NormalizeKeepsClass
<1> HIDE DEF n
<1>3. Enforcing(n) = Enforcing(s)
  BY <1>1, <1>2 DEF Enforcing
<1>4. IsRank(s, ReportPriority(d))
  <2>1. IsRank(n, ReportPriority(d))
    BY <1>1, DecisionRank
  <2>2. \A i \in Enforcing(s) : ReportPriority(n[i]) = ReportPriority(s[i])
    BY <1>2 DEF Enforcing
  <2> HIDE DEF d
  <2>3. QED
    BY <1>3, <2>1, <2>2 DEF IsRank
<1>5. c = [d EXCEPT !.kind = AggregatePayloadKind(s)]
  BY DEF ComposeReports, n
<1>6. AggregatePayloadKind(s) \in PayloadKinds
  BY AggregateIsStrictest
<1>7. d \in Report /\ d.disposition = EffectiveDisposition(d) /\ ~IsObservation(d)
  BY <1>1, DecisionSettled
<1> HIDE DEF c, d
<1>8. QED
  BY <1>4, <1>5, <1>6, <1>7, KindHarmless DEF c

LEMMA Prepended ==
    ASSUME NEW one \in Seq(Report), Len(one) = 1, NEW q \in Seq(Report)
    PROVE  LET t == one \o q
           IN  /\ t \in Seq(Report) /\ Len(t) = Len(q) + 1 /\ t[1] = one[1]
               /\ \A i \in 1..Len(q) : t[i + 1] = q[i]
<1> DEFINE t == one \o q
<1>1. /\ t \in Seq(Report) /\ Len(t) = Len(one) + Len(q)
      /\ \A i \in 1..(Len(one) + Len(q)) :
            t[i] = IF i <= Len(one) THEN one[i] ELSE q[i - Len(one)]
  BY ConcatProperties
<1> HIDE DEF t
<1>2. Len(q) \in Nat
  OBVIOUS
<1>3. t[1] = one[1]
  BY <1>1, <1>2
<1>4. ASSUME NEW i \in 1..Len(q) PROVE t[i + 1] = q[i]
  <2>1. i + 1 \in 1..(1 + Len(q)) /\ ~(i + 1 <= 1) /\ (i + 1) - 1 = i
    BY <1>2
  <2>2. QED
    BY <1>1, <2>1
<1>5. QED
  BY <1>1, <1>2, <1>3, <1>4 DEF t

LEMMA NestingStep == TypeInv => NestingTransparent
<1> SUFFICES ASSUME TypeInv, NEW n \in 1..Len(reports)
             PROVE  Verdict(<<ComposeReports(SubSeq(reports, 1, n))>>
                               \o SubSeq(reports, n + 1, Len(reports)))
                       = Verdict(reports)
  BY DEF NestingTransparent
<1> DEFINE s == reports
           p == SubSeq(s, 1, n)
           q == SubSeq(s, n + 1, Len(s))
           c == ComposeReports(p)
           t == <<c>> \o q
<1>1. s \in Seq(Report) /\ n \in Nat /\ Len(s) \in Nat /\ n <= Len(s)
  BY DEF TypeInv
<1> HIDE DEF s
<1>2. /\ p \in Seq(Report) /\ Len(p) = n
      /\ \A i \in 1..n : p[i] = s[i]
  BY <1>1
<1>3. /\ q \in Seq(Report) /\ Len(q) = Len(s) - n
      /\ \A i \in 1..(Len(s) - n) : q[i] = s[n + i]
  BY <1>1
<1> HIDE DEF p, q
<1>4. /\ c \in Report /\ ~IsObservation(c)
      /\ IsRank(p, ReportPriority(c)) /\ c.kind = AggregatePayloadKind(p)
  BY <1>2, ComposeRank
<1> HIDE DEF c
<1>5. /\ t \in Seq(Report) /\ Len(t) = Len(s) - n + 1 /\ t[1] = c
      /\ \A i \in 1..(Len(s) - n) : t[i + 1] = s[n + i]
  <2>1. <<c>> \in Seq(Report) /\ Len(<<c>>) = 1 /\ <<c>>[1] = c
    BY <1>4
  <2>2. /\ t \in Seq(Report) /\ Len(t) = Len(q) + 1 /\ t[1] = <<c>>[1]
        /\ \A i \in 1..Len(q) : t[i + 1] = q[i]
    BY <1>3, <2>1, Prepended
  <2> HIDE DEF t
  <2>3. QED
    BY <1>1, <1>3, <2>1, <2>2
<1> HIDE DEF t
<1>6. ASSUME NEW i \in DOMAIN s
      PROVE  \/ i \in DOMAIN p /\ p[i] = s[i]
             \/ \E l \in DOMAIN t : t[l] = s[i]
  <2>1. CASE i <= n
    BY <1>1, <1>2, <2>1
  <2>2. CASE i > n
    <3>1. PICK m \in 1..(Len(s) - n) : n + m = i
      <4>1. i - n \in 1..(Len(s) - n) /\ n + (i - n) = i
        BY <1>1, <2>2
      <4>2. QED
        BY <4>1
    <3>2. t[m + 1] = s[i] /\ m + 1 \in DOMAIN t
      BY <1>1, <1>5, <3>1
    <3>3. QED
      BY <3>2
  <2>3. QED
    BY <1>1, <2>1, <2>2
<1>7. ASSUME NEW l \in DOMAIN t
      PROVE  l = 1 \/ \E i \in DOMAIN s : t[l] = s[i]
  <2>1. CASE l = 1
    BY <2>1
  <2>2. CASE l # 1
    <3>1. l - 1 \in 1..(Len(s) - n) /\ (l - 1) + 1 = l
      BY <1>1, <1>5, <2>2
    <3>2. t[l] = s[n + (l - 1)] /\ n + (l - 1) \in DOMAIN s
      BY <1>1, <1>5, <3>1, SMTT(30)
    <3>3. QED
      BY <3>2
  <2>3. QED
    BY <2>1, <2>2
<1>8. 1 \in DOMAIN t /\ 1 \in Enforcing(t)
      /\ \A i \in DOMAIN p : i \in DOMAIN s /\ p[i] = s[i]
  BY <1>1, <1>2, <1>4, <1>5 DEF Enforcing
<1>9. ReportPriority(Decision(t)) = ReportPriority(Decision(s))
  <2> DEFINE r == ReportPriority(Decision(t))
  <2>1. IsRank(t, r) /\ r \in 1..7
    BY <1>5, DecisionRank, PriorityRange
  <2>2. ReportPriority(c) <= r /\ ReportPriority(c) \in 1..7
    BY <1>5, <1>8, <2>1, PriorityRange DEF IsRank
  <2> HIDE DEF r
  <2>3. ASSUME NEW i \in Enforcing(s) PROVE ReportPriority(s[i]) <= r
    <3>1. CASE i \in DOMAIN p /\ p[i] = s[i]
      <4>1. ReportPriority(s[i]) <= ReportPriority(c)
        BY <1>4, <3>1 DEF Enforcing, IsRank
      <4>2. QED
        BY <2>1, <2>2, <4>1, PriorityRange
    <3>2. CASE \E l \in DOMAIN t : t[l] = s[i]
      BY <2>1, <3>2 DEF Enforcing, IsRank
    <3>3. QED
      BY <1>6, <3>1, <3>2 DEF Enforcing
  <2>4. r = 1 \/ \E i \in Enforcing(s) : ReportPriority(s[i]) = r
    <3>1. ASSUME NEW l \in Enforcing(t), ReportPriority(t[l]) = r
          PROVE  r = 1 \/ \E i \in Enforcing(s) : ReportPriority(s[i]) = r
      <4>1. CASE l = 1
        <5>1. r = 1 \/ \E i \in Enforcing(p) : ReportPriority(p[i]) = r
          BY <1>4, <1>5, <3>1, <4>1 DEF IsRank
        <5>2. QED
          BY <1>8, <5>1 DEF Enforcing
      <4>2. CASE l # 1
        BY <1>7, <3>1, <4>2 DEF Enforcing
      <4>3. QED
        BY <4>1, <4>2
    <3>2. QED
      BY <2>1, <3>1 DEF IsRank
  <2>5. IsRank(s, r)
    BY <2>3, <2>4 DEF IsRank
  <2>6. IsRank(s, ReportPriority(Decision(s))) /\ ReportPriority(Decision(s)) \in 1..7
    BY <1>1, DecisionRank, PriorityRange
  <2>7. QED
    BY <2>1, <2>5, <2>6, RankUnique DEF r
<1>10. EffectiveDisposition(Decision(t)) = EffectiveDisposition(Decision(s))
  BY <1>1, <1>5, <1>9, DecisionType, RankGivesDisposition
<1>11. AggregatePayloadKind(t) = AggregatePayloadKind(s)
  <2> DEFINE F(x) == PayloadKindPriority(x)
             kt == AggregatePayloadKind(t)
             ks == AggregatePayloadKind(s)
             kp == AggregatePayloadKind(p)
  <2>1. /\ kt \in PayloadKinds /\ ks \in PayloadKinds /\ kp \in PayloadKinds
        /\ kt \in KindsOf(t) /\ ks \in KindsOf(s) /\ kp \in KindsOf(p)
        /\ \A x \in KindsOf(t) : F(x) <= F(kt)
        /\ \A x \in KindsOf(s) : F(x) <= F(ks)
        /\ \A x \in KindsOf(p) : F(x) <= F(kp)
    BY <1>1, <1>2, <1>5, AggregateIsStrictest, AggregateInKinds
  <2>2. \A x : F(x) \in 0..3
    BY DEF PayloadKindPriority
  <2> HIDE DEF F, kt, ks, kp
  <2>3. kp \in KindsOf(t) /\ KindsOf(p) \subseteq KindsOf(s)
    BY <1>4, <1>5, <1>8, <2>1 DEF KindsOf, kp
  <2>4. KindsOf(s) \subseteq KindsOf(p) \cup KindsOf(t)
    BY <1>6 DEF KindsOf
  <2>5. KindsOf(t) \subseteq KindsOf(s) \cup {kp}
    BY <1>4, <1>5, <1>7 DEF KindsOf, kp
  <2>6. F(kp) <= F(kt) /\ F(kp) <= F(ks)
    BY <2>1, <2>3
  <2>7. F(ks) <= F(kt)
    BY <2>1, <2>2, <2>4, <2>6
  <2>8. F(kt) <= F(ks)
    BY <2>1, <2>5, <2>6
  <2>9. QED
    BY <2>1, <2>7, <2>8, KindsApart DEF F, kt, ks
<1>12. QED
  BY <1>9, <1>10, <1>11 DEF Verdict, s, t, c, p, q

(* A nested pipeline, or the carrier of completed checks, may be composed  *)
(* into one report: the outer verdict is the one over the flat slice.      *)
THEOREM NestingAlwaysTransparent == Spec => []NestingTransparent
BY LogType, NestingStep, PTL

LEMMA ProjectionStep == TypeInv => ProjectionFaithful
<1> SUFFICES ASSUME TypeInv PROVE ProjectionFaithful
  OBVIOUS
<1> DEFINE rep  == Decision(reports)
           E    == EffectiveDisposition(rep)
           kind == AggregatePayloadKind(reports)
           d    == PolicyDecision(reports, kind)
           x    == [BlankReport(d.action, d.kind) EXCEPT !.disposition = d.disposition]
<1>1. rep \in Report /\ rep.disposition = E /\ ~IsObservation(rep)
  BY DecisionSettled DEF TypeInv
<1>2. kind \in PayloadKinds
  BY AggregateIsStrictest DEF TypeInv
<1>3. E \in Dispositions
  BY <1>1, DispositionType
<1> HIDE DEF kind, rep
<1>4. /\ d.action = rep.action /\ d.disposition = E
      /\ d.kind = kind \/ d.kind = rep.kind
  <2> DEFINE cp == NormalizeReport(rep)
             h  == DecisionFromReport(rep)
  <2>1. /\ cp \in Report /\ cp.action = rep.action /\ cp.kind = rep.kind
        /\ cp.disposition = E /\ ~IsObservation(cp)
    <3>1. cp.disposition = E
      BY <1>1 DEF NormalizeReport, Report
    <3> HIDE DEF E
    <3>2. QED
      BY <1>1, <3>1, NormalizeType, NormalizeKeepsClass
  <2>2. h = ToHostDecision(cp)
    BY <2>1 DEF DecisionFromReport
  <2> HIDE DEF cp
  <2>3. /\ h.action = rep.action /\ h.disposition = E /\ h.kind = rep.kind
        /\ h = [action |-> cp.action, disposition |-> cp.disposition, kind |-> cp.kind]
    BY <2>1, <2>2 DEF ToHostDecision
  <2>4. d = WithOutputKind(h, kind)
    BY DEF PolicyDecision, rep
  <2> HIDE DEF h, E
  <2>5. QED
    BY <2>3, <2>4 DEF WithOutputKind
<1> HIDE DEF d
<1>5. /\ x.action = rep.action /\ x.disposition = E /\ x.kind = d.kind /\ x.finite
      /\ ~x.fatal /\ ~x.retryable
  <2> HIDE DEF E
  <2>1. QED
    BY <1>4 DEF BlankReport
<1> HIDE DEF x
<1>6. ~IsSystemFault(rep) =>
        /\ ~Malformed(rep)
        /\ E \in {"none", "terminal_deny", "retryable_correction"}
        /\ E = "retryable_correction" => rep.action = "retry"
        /\ E = "none" => rep.action \in {"pass", "redact"}
  BY <1>1, <1>3 DEF IsSystemFault, EffectiveDisposition, DeriveDisposition, Malformed,
                    Dispositions, Actions
<1>7. EffectiveDisposition(x) = E
  <2>1. CASE IsSystemFault(rep)
    BY <1>5, <2>1 DEF IsSystemFault, EffectiveDisposition
  <2>2. CASE ~IsSystemFault(rep)
    <3>1. ~Malformed(x)
      BY <1>2, <1>4, <1>5, <1>6, <2>2 DEF Malformed, Dispositions
    <3> HIDE DEF E
    <3>2. QED
      BY <1>5, <1>6, <2>2, <3>1 DEF EffectiveDisposition, DeriveDisposition
  <2>3. QED
    BY <2>1, <2>2
<1>8. DecisionDisposition(d) = E
  BY <1>7 DEF DecisionDisposition, x
<1>9. ErrorFromDecision(rep) =
        [none |-> "nil", terminal_deny |-> "blocked", retryable_correction |-> "retry",
         system_fault |-> "fault"][E]
  <2>1. CASE E = "system_fault"
    BY <2>1 DEF ErrorFromDecision, IsRetryableCorrection, IsTerminalDeny
  <2>2. CASE E = "terminal_deny"
    BY <2>2 DEF ErrorFromDecision, IsRetryableCorrection, IsTerminalDeny
  <2>3. CASE E = "retryable_correction"
    BY <2>3 DEF ErrorFromDecision, IsRetryableCorrection, IsTerminalDeny
  <2>4. CASE E = "none"
    BY <1>6, <2>4 DEF ErrorFromDecision, IsRetryableCorrection, IsTerminalDeny, IsSystemFault
  <2>5. QED
    BY <1>3, <2>1, <2>2, <2>3, <2>4 DEF Dispositions
<1>10. QED
  BY <1>8, <1>9 DEF ProjectionFaithful, rep, d, kind

(* The decision handed to the host classifies as the report it was made    *)
(* of, and the returned error is of that class, for any slice.             *)
THEOREM ProjectionAlwaysFaithful == Spec => []ProjectionFaithful
BY LogType, ProjectionStep, PTL
=============================================================================
