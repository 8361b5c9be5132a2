-------------------------- MODULE RedactionProofs --------------------------
(***************************************************************************)
(* For all jobs, namespaces and workers: whatever concurrent redacting     *)
(* calls store, their vault keeps its promise; a value that is stopped     *)
(* comes back untouched, but for a fatal redaction that no carrier called; *)
(* that one, and a value that is let through, has what was found in it,    *)
(* and nothing else, replaced, and its tokens restore it; and the report   *)
(* of a slice or a document is composed of those of its leaves.            *)
(***************************************************************************)
EXTENDS Redaction, ReportProofs

\* A token was numbered by its own space's counter, and no two pairs share one.
Issued ==
    /\ nextByNS \in [Spaces -> Nat]
    /\ \A key \in DOMAIN pairs : key[1] \in Spaces
    /\ \A key \in DOMAIN pairs :
          \E n \in 1..nextByNS[key[1]] : pairs[key] = <<key[1], n>>
    /\ \A key, other \in DOMAIN pairs : pairs[key] = pairs[other] => key = other

LEMMA IssuedInit == VaultInit => Issued
<1>1. SUFFICES ASSUME VaultInit PROVE Issued
  OBVIOUS
<1>2. nextByNS \in [Spaces -> Nat] /\ DOMAIN pairs = {}
  BY <1>1 DEF VaultInit
<1>3. QED
  BY <1>2 DEF Issued

LEMMA KeyType ==
    ASSUME NEW namespace \in Namespaces, NEW original
    PROVE  /\ normalizeNamespace(namespace) \in Spaces
           /\ Key(namespace, original) = <<normalizeNamespace(namespace), original>>
BY DEF Key, Spaces, normalizeNamespace

(* A new pair gets a number that its space has not used.                   *)
LEMMA FreshToken ==
    ASSUME Issued, NEW namespace \in Namespaces, NEW original,
           Key(namespace, original) \notin DOMAIN pairs
    PROVE  LET space == normalizeNamespace(namespace)
               token == TokenOf(namespace, original)
           IN  /\ token = <<space, nextByNS[space] + 1>>
               /\ nextByNS[space] + 1 \in Nat \ {0}
               /\ token \in Token
               /\ \A other \in DOMAIN pairs : pairs[other] # token
<1> DEFINE space == normalizeNamespace(namespace)
           token == <<space, nextByNS[space] + 1>>
<1>1. space \in Spaces /\ nextByNS[space] \in Nat
  BY KeyType DEF Issued
<1>2. TokenOf(namespace, original) = token
  BY DEF TokenOf
<1>3. token \in Token /\ nextByNS[space] + 1 \in Nat \ {0}
  BY <1>1 DEF Token
<1>4. ASSUME NEW other \in DOMAIN pairs, pairs[other] = token PROVE FALSE
  <2>1. PICK n \in 1..nextByNS[other[1]] : pairs[other] = <<other[1], n>>
    BY DEF Issued
  <2>2. other[1] = space /\ n = nextByNS[space] + 1
    BY <1>4, <2>1
  <2>3. QED
    BY <1>1, <2>1, <2>2
<1>5. QED
  BY <1>2, <1>3, <1>4

\* Store on a new pair, as one update of each map.
LEMMA StoreNew ==
    ASSUME Issued, NEW namespace \in Namespaces, NEW original,
           Store(namespace, original), Key(namespace, original) \notin DOMAIN pairs
    PROVE  LET key   == Key(namespace, original)
               token == TokenOf(namespace, original)
           IN  /\ nextByNS' = [nextByNS EXCEPT ![key[1]] = nextByNS[key[1]] + 1]
               /\ pairs' = [k \in DOMAIN pairs \cup {key} |->
                              IF k = key THEN token ELSE pairs[k]]
               /\ restores' = [t \in DOMAIN restores \cup {token} |->
                                 IF t = token THEN original ELSE restores[t]]
<1>1. Key(namespace, original)[1] = normalizeNamespace(namespace)
  BY KeyType
<1>2. TokenOf(namespace, original) =
        <<normalizeNamespace(namespace), nextByNS[normalizeNamespace(namespace)] + 1>>
  BY FreshToken
<1>3. QED
  BY <1>1, <1>2 DEF Store

LEMMA IssuedStep ==
    ASSUME Issued, NEW namespace \in Namespaces, NEW original, Store(namespace, original)
    PROVE  Issued'
<1>0. CASE Key(namespace, original) \in DOMAIN pairs
  BY <1>0 DEF Store, vaultVars, Issued
<1>1. SUFFICES ASSUME Key(namespace, original) \notin DOMAIN pairs PROVE Issued'
  BY <1>0
<1> DEFINE key == Key(namespace, original)
           space == normalizeNamespace(namespace)
           token == TokenOf(namespace, original)
<1>2. key[1] = space /\ space \in Spaces
  BY KeyType
<1>3. token = <<space, nextByNS[space] + 1>> /\ \A other \in DOMAIN pairs : pairs[other] # token
  BY <1>1, FreshToken
<1>4. nextByNS' = [nextByNS EXCEPT ![space] = nextByNS[space] + 1]
  BY <1>1, <1>2, StoreNew
<1>5. pairs' = [k \in DOMAIN pairs \cup {key} |-> IF k = key THEN token ELSE pairs[k]]
  BY <1>1, StoreNew
<1> HIDE DEF key, space, token
<1>6. nextByNS \in [Spaces -> Nat] /\ \A k \in DOMAIN pairs : k[1] \in Spaces
  BY <1>1 DEF Issued
<1>7. nextByNS' \in [Spaces -> Nat]
  BY <1>4, <1>6, <1>2
<1>8. \A s \in Spaces : nextByNS[s] <= nextByNS'[s] /\ nextByNS'[s] \in Nat
  BY <1>2, <1>4, <1>6
<1>9. DOMAIN pairs' = DOMAIN pairs \cup {key}
  BY <1>5
<1>10. pairs'[key] = token /\ \A k \in DOMAIN pairs \ {key} : pairs'[k] = pairs[k]
  BY <1>5
<1>11. key \notin DOMAIN pairs
  BY <1>1 DEF key
<1>12. ASSUME NEW k \in DOMAIN pairs'
       PROVE  \E n \in 1..nextByNS'[k[1]] : pairs'[k] = <<k[1], n>>
  <2>1. CASE k = key
    <3>1. nextByNS'[space] = nextByNS[space] + 1 /\ nextByNS[space] \in Nat
      BY <1>2, <1>4, <1>6
    <3>2. QED
      BY <1>2, <1>3, <1>10, <2>1, <3>1
  <2>2. CASE k # key
    <3>1. k \in DOMAIN pairs /\ pairs'[k] = pairs[k] /\ k[1] \in Spaces
      BY <1>6, <1>9, <1>10, <2>2
    <3>2. PICK n \in 1..nextByNS[k[1]] : pairs[k] = <<k[1], n>>
      BY <1>1, <3>1 DEF Issued
    <3>3. n \in 1..nextByNS'[k[1]]
      BY <1>6, <1>8, <3>1, <3>2
    <3>4. QED
      BY <3>1, <3>2, <3>3
  <2>3. QED
    BY <2>1, <2>2
<1>13. ASSUME NEW k \in DOMAIN pairs', NEW o \in DOMAIN pairs', pairs'[k] = pairs'[o]
       PROVE  k = o
  <2>1. CASE k # key /\ o # key
    BY <1>1, <1>9, <1>10, <1>13, <2>1 DEF Issued
  <2>2. CASE k = key /\ o # key
    BY <1>3, <1>9, <1>10, <1>13, <2>2
  <2>3. CASE k # key /\ o = key
    BY <1>3, <1>9, <1>10, <1>13, <2>3
  <2>4. QED
    BY <2>1, <2>2, <2>3
<1>14. QED
  BY <1>2, <1>6, <1>7, <1>9, <1>12, <1>13 DEF Issued

-----------------------------------------------------------------------------
(* Refinement.                                                             *)

LEMMA StoreKeepsPromise ==
    ASSUME Issued, NEW namespace \in Namespaces, NEW original, Store(namespace, original)
    PROVE  [Promise!Next]_<<pairs, restores>>
<1>0. CASE Key(namespace, original) \in DOMAIN pairs
  BY <1>0 DEF Store, vaultVars
<1>1. SUFFICES ASSUME Key(namespace, original) \notin DOMAIN pairs PROVE Promise!Next
  BY <1>0
<1> DEFINE key == Key(namespace, original)
           token == TokenOf(namespace, original)
<1>2. key[1] \in Spaces /\ key[2] = original
  BY KeyType
<1>3. token \in Token /\ \A other \in DOMAIN pairs : pairs[other] # token
  BY <1>1, FreshToken
<1>4. /\ pairs' = [k \in DOMAIN pairs \cup {key} |-> IF k = key THEN token ELSE pairs[k]]
      /\ restores' = [t \in DOMAIN restores \cup {token} |->
                        IF t = token THEN original ELSE restores[t]]
  BY <1>1, StoreNew
<1>5. key \notin DOMAIN pairs
  BY <1>1
<1> HIDE DEF key, token
<1>6. pairs'[key] = token /\ key \in DOMAIN pairs' \ DOMAIN pairs
  BY <1>4, <1>5
<1>7. Promise!Give(key, token)
  BY <1>2, <1>3, <1>4 DEF Promise!Give
<1>8. QED
  BY <1>2, <1>6, <1>7 DEF Promise!Next

-----------------------------------------------------------------------------
(* The reports of the checks, and what is composed of them.                *)

\* A report that stops nothing.
LEMMA Unstopped ==
    ASSUME NEW q \in Report, q.action \in {"pass", "redact"}, q.disposition = "none",
           ~q.fatal, q.kind = "safe", q.finite
    PROVE  EffectiveDisposition(q) = "none" /\ Disposition(<<q>>) = "none"
<1>1. EffectiveDisposition(q) = "none" /\ ~IsObservation(q)
  BY DEF EffectiveDisposition, Malformed, DeriveDisposition, IsObservation,
         Actions, Dispositions, PayloadKinds
<1>2. DecisionFromReport(q).disposition = "none"
  BY <1>1, HostKeepsClass DEF PayloadKinds
<1>3. QED
  BY <1>1, <1>2 DEF Disposition

LEMMA Finishing ==
    ASSUME NEW a \in {"pass", "block", "redact"}, NEW fatal \in BOOLEAN
    PROVE  LET q == FinishReport(BlankReport(a, "safe"), a, fatal)
           IN  /\ q \in Report /\ q.action = a /\ q.fatal = fatal
               /\ q.kind = "safe" /\ q.finite
               /\ a # "block" /\ ~fatal => q.disposition = "none"
<1> DEFINE b == BlankReport(a, "safe")
           e == [b EXCEPT !.retryable = FALSE, !.fatal = fatal]
           q == FinishReport(b, a, fatal)
<1>1. b \in Report /\ b.action = a /\ b.disposition = "none" /\ ~b.fatal /\ b.kind = "safe"
      /\ b.finite
  BY DEF BlankReport, Report, Actions, Dispositions, PayloadKinds
<1>2. q = NormalizeReport(e)
  BY <1>1 DEF FinishReport, BlankReport
<1>3. /\ e \in Report /\ e.action = a /\ e.disposition = "none" /\ e.fatal = fatal
      /\ ~e.retryable /\ e.kind = "safe" /\ e.finite
  <2> HIDE DEF b
  <2>1. QED
    BY <1>1 DEF Report
<1> HIDE DEF e, b
<1>4. q \in Report /\ q.action = a /\ q.kind = "safe"
  BY <1>2, <1>3, NormalizeType, NormalizeKeepsClass
<1>5. /\ q.fatal = e.fatal /\ q.finite = e.finite
      /\ q.disposition = EffectiveDisposition(e)
  BY <1>2, <1>3 DEF NormalizeReport, Report
<1>6. a # "block" /\ ~fatal => EffectiveDisposition(e) = "none"
  BY <1>3, Unstopped
<1>7. QED
  BY <1>3, <1>4, <1>5, <1>6 DEF b

\* Only a fatal redaction stops its carrier.
LEMMA CheckReports ==
    /\ PassReport \in Report /\ PassReport.action = "pass"
    /\ Disposition(<<PassReport>>) = "none"
    /\ \A check \in Check :
          LET r == ViolationReport(check)
          IN  /\ r \in Report /\ r.action = check.action
              /\ check.action = "redact" /\ ~check.fatal => Disposition(<<r>>) = "none"
<1>1. /\ PassReport \in Report /\ PassReport.action = "pass"
      /\ Disposition(<<PassReport>>) = "none"
  BY Finishing, Unstopped DEF PassReport
<1>2. ASSUME NEW check \in Check
      PROVE  LET r == ViolationReport(check)
             IN  /\ r \in Report /\ r.action = check.action
                 /\ check.action = "redact" /\ ~check.fatal => Disposition(<<r>>) = "none"
  <2>1. check.action \in {"block", "redact"} /\ check.fatal \in BOOLEAN
        /\ check.retryable \in BOOLEAN
    BY DEF Check
  <2> DEFINE q == FinishReport(BlankReport(check.action, "safe"), check.action, check.fatal)
             r == [q EXCEPT !.retryable = check.retryable]
  <2>2. /\ q \in Report /\ q.action = check.action /\ q.fatal = check.fatal
        /\ q.kind = "safe" /\ q.finite
        /\ check.action = "redact" /\ ~check.fatal => q.disposition = "none"
    BY <2>1, Finishing
  <2> HIDE DEF q
  <2>3. /\ r \in Report /\ r.action = q.action /\ r.disposition = q.disposition
        /\ r.fatal = q.fatal /\ r.kind = q.kind /\ r.finite = q.finite
    BY <2>1, <2>2 DEF Report
  <2> HIDE DEF r
  <2>4. check.action = "redact" /\ ~check.fatal => Disposition(<<r>>) = "none"
    BY <2>2, <2>3, Unstopped
  <2>5. QED
    BY <2>2, <2>3, <2>4 DEF ViolationReport, q, r
<1>3. QED
  BY <1>1, <1>2

LEMMA CorruptedType == Corrupted \in Report
<1> DEFINE b == BlankReport("retry", "safe")
           yes == "retry" = "retry"
           fatal == b.fatal \/ FALSE
           disposition == IF b.action # "retry" THEN "system_fault" ELSE b.disposition
           e == [b EXCEPT !.retryable = yes, !.fatal = fatal, !.disposition = disposition]
<1>1. b \in Report /\ b.action = "retry" /\ b.disposition = "none"
  BY DEF BlankReport, Report, Actions, Dispositions, PayloadKinds
<1>2. Corrupted = NormalizeReport(e)
  BY DEF Corrupted, FinishReport
<1>3. yes \in BOOLEAN /\ fatal \in BOOLEAN /\ disposition \in Dispositions
  BY <1>1 DEF Dispositions
<1>4. e \in Report
  <2> HIDE DEF b, yes, fatal, disposition
  <2>1. QED
    BY <1>1, <1>3 DEF Report
<1> HIDE DEF e
<1>5. QED
  BY <1>2, <1>4, NormalizeType

\* Sequences of one and two reports, and one report more.
LEMMA Growing ==
    ASSUME NEW s \in Seq(Report), NEW r \in Report
    PROVE  /\ s \o <<r>> = Append(s, r) /\ Append(s, r) \in Seq(Report)
           /\ Append(s, r) # <<>>
           /\ \A c \in Report : <<c>> \o <<r>> = <<c, r>> /\ <<c, r>> # <<>>
<1>1. <<r>> \in Seq(Report) /\ Len(<<r>>) = 1 /\ <<r>>[1] = r
  OBVIOUS
<1>2. ASSUME NEW q \in Seq(Report)
      PROVE  q \o <<r>> = Append(q, r) /\ Append(q, r) \in Seq(Report) /\ Append(q, r) # <<>>
  <2> DEFINE a == q \o <<r>>
             b == Append(q, r)
  <2>1. /\ b \in Seq(Report) /\ Len(b) = Len(q) + 1 /\ b[Len(q) + 1] = r
        /\ \A i \in 1..Len(q) : b[i] = q[i]
    OBVIOUS
  <2>2. /\ a \in Seq(Report) /\ Len(a) = Len(q) + 1 /\ a[Len(q) + 1] = <<r>>[1]
        /\ \A i \in 1..Len(q) : a[i] = q[i]
    BY <1>1
  <2>3. Len(q) \in Nat
    OBVIOUS
  <2>4. b # <<>>
    <3> HIDE DEF b
    <3>1. QED
      BY <2>1, <2>3
  <2> HIDE DEF a, b
  <2>5. \A i \in 1..Len(a) : a[i] = b[i]
    BY <1>1, <2>1, <2>2, <2>3
  <2>6. a = b
    BY <2>1, <2>2, <2>5
  <2>7. QED
    BY <2>1, <2>4, <2>6 DEF a, b
<1>3. ASSUME NEW c \in Report PROVE <<c>> \o <<r>> = <<c, r>> /\ <<c, r>> # <<>>
  <2>1. <<c>> \in Seq(Report) /\ <<c, r>> = Append(<<c>>, r)
    BY <1>3
  <2>2. QED
    BY <1>2, <2>1
<1>4. QED
  BY <1>2, <1>3

LEMMA EvidenceType ==
    ASSUME NEW s \in Seq(Report)
    PROVE  Evidence(s) \in Seq(Report)
<1>1. ComposeReports(s) \in Report
  BY ComposeType
<1>2. QED
  BY <1>1, Single DEF Evidence

LEMMA EvidenceEmpty ==
    ASSUME NEW s \in Seq(Report), Evidence(s) = <<>>
    PROVE  s = <<>>
<1> DEFINE c == ComposeReports(s)
<1> HIDE DEF c
<1>1. <<c>> # <<>>
  OBVIOUS
<1>2. QED
  BY <1>1 DEF Evidence, c

LEMMA EvidenceOnce ==
    ASSUME NEW s \in Seq(Report)
    PROVE  Evidence(Evidence(s)) = Evidence(s)
BY ComposeOnce DEF Evidence

\* One more report composed with what has been composed so far.
LEMMA EvidenceFurther ==
    ASSUME NEW s \in Seq(Report), NEW r \in Report
    PROVE  /\ ComposeReports(Evidence(s) \o <<r>>) = ComposeReports(Append(s, r))
           /\ Evidence(Evidence(s) \o <<r>>) = <<ComposeReports(Append(s, r))>>
           /\ Evidence(Append(s, r)) = <<ComposeReports(Append(s, r))>>
<1>1. Append(s, r) # <<>>
  BY Growing
<1>2. CASE s = <<>>
  <2>1. Evidence(s) \o <<r>> = <<r>> /\ Append(s, r) = <<r>> /\ <<r>> # <<>>
    BY <1>2 DEF Evidence
  <2>2. QED
    BY <1>1, <2>1 DEF Evidence
<1>3. CASE s # <<>>
  <2> DEFINE c == ComposeReports(s)
  <2>1. Evidence(s) = <<c>>
    BY <1>3 DEF Evidence
  <2>2. ComposeReports(<<c, r>>) = ComposeReports(Append(s, r))
    BY ComposeFurther
  <2>3. <<c>> \o <<r>> = <<c, r>> /\ <<c, r>> # <<>>
    BY ComposeType, Growing
  <2> HIDE DEF c
  <2>4. QED
    BY <1>1, <2>1, <2>2, <2>3 DEF Evidence
<1>4. QED
  BY <1>2, <1>3

\* What a fault carries, whose error brings a report of its own.
LEMMA EvidenceOwn ==
    ASSUME NEW s \in Seq(Report), s # <<>>, NEW r \in Report
    PROVE  SameDecision(Evidence(Evidence(s) \o Evidence(<<r>>)),
                        ComposeReports(Append(s, r)))
<1> DEFINE c == ComposeReports(s)
           d == ComposeReports(<<r>>)
<1>1. Evidence(s) = <<c>> /\ Evidence(<<r>>) = <<d>>
  BY DEF Evidence
<1>2. DecisionFromReport(ComposeReports(<<c, d>>)) =
         DecisionFromReport(ComposeReports(Append(s, r)))
  BY ComposeSingleFurther
<1>0. c \in Report /\ d \in Report
  BY Single, ComposeType
<1> HIDE DEF c, d
<1>3. Evidence(Evidence(s) \o Evidence(<<r>>)) = <<ComposeReports(<<c, d>>)>>
  <2>1. <<c>> \o <<d>> = <<c, d>> /\ <<c, d>> # <<>>
    BY <1>0, Growing
  <2>2. QED
    BY <1>1, <2>1 DEF Evidence
<1>4. QED
  BY <1>2, <1>3 DEF SameDecision

-----------------------------------------------------------------------------
(* The invariant.                                                          *)

Places == {"start", "next", "check", "detect", "replace", "finish", "done"}

Typed ==
    /\ job \in [Workers -> Jobs]
    /\ at \in [Workers -> Places]
    /\ leaf \in [Workers -> Nat \ {0}]
    /\ combined \in [Workers -> Seq(Report)]
    /\ seen \in [Workers -> Seq(Report)]
    /\ DOMAIN out = Workers
    /\ fault \in [Workers -> BOOLEAN]

Composing(carrier) == carrier \in {"slice", "json"}

AtLeaf(place) == place \in {"check", "detect", "replace"}

(* While a worker is under way, what it has composed is composed of what   *)
(* it has seen, a slice has not been stopped, a carrier of one text has    *)
(* seen nothing, and only a check that redacts replaces.                   *)
Underway(p) ==
    /\ combined[p] = Evidence(seen[p])
    /\ at[p] = "start" => seen[p] = <<>>
    /\ AtLeaf(at[p]) => leaf[p] <= Len(job[p].leaves)
    /\ at[p] = "replace" => Redacts(Current(p))
    /\ ~Composing(job[p].carrier) => leaf[p] = 1 /\ seen[p] = <<>>
    /\ job[p].carrier = "slice" /\ combined[p] # <<>> => Disposition(combined[p]) = "none"

\* The report of a composing carrier that has seen reports.
Answer(report, failed, reports) ==
    \/ report = <<ComposeReports(reports)>>
    \/ /\ failed
       /\ \E own \in Findings : SameDecision(report, ComposeReports(Append(reports, own)))

\* A fatal redaction that no carrier has called.
Escalates(p) ==
    LET found == job[p].leaves[1]
    IN  job[p].carrier = "text" /\ Redacts(found) /\ found.check.fatal

Returned(p) ==
    /\ Composing(job[p].carrier) /\ seen[p] # <<>> => Answer(combined[p], fault[p], seen[p])
    /\ ~LetThrough(p) /\ ~Escalated(p) => out[p] = Input(p)

Kept(p) == IF at[p] = "done" THEN Returned(p) ELSE Underway(p)

RedactionInv == Typed /\ \A p \in Workers : Kept(p)

\* A worker that nothing happens to.
LEMMA OthersKept ==
    ASSUME NEW q \in Workers, Kept(q), job' = job, at'[q] = at[q], leaf'[q] = leaf[q],
           combined'[q] = combined[q], seen'[q] = seen[q], out'[q] = out[q],
           fault'[q] = fault[q]
    PROVE  Kept(q)'
<1>1. CASE at[q] = "done"
  <2>1. Returned(q)
    BY <1>1 DEF Kept
  <2>2. Returned(q)'
    BY <2>1 DEF Returned, LetThrough, Escalated, Input
  <2>3. QED
    BY <1>1, <2>2 DEF Kept
<1>2. CASE at[q] # "done"
  <2>1. Underway(q)
    BY <1>2 DEF Kept
  <2>2. Underway(q)'
    BY <2>1 DEF Underway, Current
  <2>3. QED
    BY <1>2, <2>2 DEF Kept
<1>3. QED
  BY <1>1, <1>2

(* The end of a call.                                                      *)
LEMMA EndKeeps ==
    ASSUME RedactionInv, NEW p \in Workers, NEW result, NEW report \in Seq(Report),
           NEW failed \in BOOLEAN, NEW reports \in Seq(Report),
           End(p, result, report, failed), job' = job,
           seen' = [seen EXCEPT ![p] = reports],
           Composing(job[p].carrier) /\ reports # <<>> => Answer(report, failed, reports),
           failed \/ (report # <<>> /\ Disposition(report) # "none") =>
               result = Input(p) \/ (~failed /\ Escalates(p))
    PROVE  RedactionInv'
<1>1. /\ at' = [at EXCEPT ![p] = "done"] /\ out' = [out EXCEPT ![p] = result]
      /\ combined' = [combined EXCEPT ![p] = report] /\ fault' = [fault EXCEPT ![p] = failed]
      /\ leaf' = leaf
  BY DEF End
<1>2. Typed
  BY DEF RedactionInv
<1>3. Typed'
  BY <1>1, <1>2 DEF Typed, Places
<1>4. at'[p] = "done" /\ out'[p] = result /\ combined'[p] = report /\ fault'[p] = failed
      /\ seen'[p] = reports
  BY <1>1, <1>2 DEF Typed
<1>5. Kept(p)'
  <2>1. Composing(job'[p].carrier) /\ seen'[p] # <<>> => Answer(combined'[p], fault'[p], seen'[p])
    BY <1>4
  <2>2. Input(p)' = Input(p)
    BY DEF Input
  <2>3. LetThrough(p)' <=> (~failed /\ (report = <<>> \/ Disposition(report) = "none"))
    BY <1>4 DEF LetThrough
  <2>4. ~LetThrough(p)' /\ ~Escalated(p)' => out'[p] = Input(p)'
    <3>1. Escalated(p)' <=> ~failed /\ Escalates(p)
      BY <1>4 DEF Escalated, Escalates
    <3>2. QED
      BY <1>4, <2>2, <2>3, <3>1
  <2>5. Returned(p)'
    BY <2>1, <2>4 DEF Returned
  <2>6. QED
    BY <1>4, <2>5 DEF Kept
<1>6. ASSUME NEW q \in Workers \ {p} PROVE Kept(q)'
  <2>1. /\ at'[q] = at[q] /\ leaf'[q] = leaf[q] /\ combined'[q] = combined[q]
        /\ seen'[q] = seen[q] /\ out'[q] = out[q] /\ fault'[q] = fault[q]
    BY <1>1, <1>2 DEF Typed
  <2>2. QED
    BY <2>1, OthersKept DEF RedactionInv
<1>7. QED
  BY <1>3, <1>5, <1>6 DEF RedactionInv

(* A step on the way.                                                      *)
LEMMA MoveKeeps ==
    ASSUME RedactionInv, NEW p \in Workers, NEW place \in Places \ {"start", "done"},
           NEW l \in Nat \ {0}, NEW report \in Seq(Report), NEW reports \in Seq(Report),
           job' = job, at' = [at EXCEPT ![p] = place], leaf' = [leaf EXCEPT ![p] = l],
           combined' = [combined EXCEPT ![p] = report],
           seen' = [seen EXCEPT ![p] = reports],
           DOMAIN out' = Workers, \A q \in Workers \ {p} : out'[q] = out[q],
           fault' = fault,
           report = Evidence(reports),
           AtLeaf(place) => l <= Len(job[p].leaves),
           place = "replace" => Redacts(job[p].leaves[l]),
           ~Composing(job[p].carrier) => l = 1 /\ reports = <<>>,
           job[p].carrier = "slice" /\ report # <<>> => Disposition(report) = "none"
    PROVE  RedactionInv'
<1>1. Typed
  BY DEF RedactionInv
<1>2. Typed'
  BY <1>1 DEF Typed, Places
<1>3. at'[p] = place /\ leaf'[p] = l /\ combined'[p] = report /\ seen'[p] = reports
  BY <1>1 DEF Typed
<1>4. Kept(p)'
  <2>1. Underway(p)'
    BY <1>3 DEF Underway, Current
  <2>2. QED
    BY <1>3, <2>1 DEF Kept
<1>5. ASSUME NEW q \in Workers \ {p} PROVE Kept(q)'
  <2>1. /\ at'[q] = at[q] /\ leaf'[q] = leaf[q] /\ combined'[q] = combined[q]
        /\ seen'[q] = seen[q] /\ out'[q] = out[q] /\ fault'[q] = fault[q]
    BY <1>1 DEF Typed
  <2>2. QED
    BY <2>1, OthersKept DEF RedactionInv
<1>6. QED
  BY <1>2, <1>4, <1>5 DEF RedactionInv

\* A worker under way, and what the invariant says of it.
LEMMA AtWork ==
    ASSUME RedactionInv, NEW p \in Workers, at[p] # "done"
    PROVE  /\ Underway(p) /\ seen[p] \in Seq(Report) /\ combined[p] \in Seq(Report)
           /\ combined[p] = Evidence(seen[p]) /\ leaf[p] \in Nat \ {0}
           /\ seen = [seen EXCEPT ![p] = seen[p]] /\ leaf = [leaf EXCEPT ![p] = leaf[p]]
           /\ combined = [combined EXCEPT ![p] = combined[p]]
           /\ job[p] \in Jobs /\ job[p] \in Job /\ DOMAIN out = Workers
<1>1. Typed /\ Kept(p)
  BY DEF RedactionInv
<1>2. Underway(p)
  BY <1>1 DEF Kept
<1>3. job[p] \in Jobs
  BY <1>1 DEF Typed
<1>4. job[p] \in Job
  BY <1>3, JobsAssumption
<1>5. QED
  BY <1>1, <1>2, <1>3, <1>4 DEF Typed, Underway

LEMMA GoOn ==
    ASSUME RedactionInv, NEW p \in Workers, at[p] # "done",
           NEW place \in Places \ {"start", "done"}, at' = [at EXCEPT ![p] = place],
           UNCHANGED <<job, leaf, out, combined, seen, fault>>,
           AtLeaf(place) => leaf[p] <= Len(job[p].leaves),
           place = "replace" => Redacts(Current(p))
    PROVE  RedactionInv'
<1>1. /\ Underway(p) /\ seen[p] \in Seq(Report) /\ combined[p] \in Seq(Report)
      /\ combined[p] = Evidence(seen[p]) /\ leaf[p] \in Nat \ {0} /\ DOMAIN out = Workers
  BY AtWork
<1>2. leaf' = [leaf EXCEPT ![p] = leaf[p]] /\ seen' = [seen EXCEPT ![p] = seen[p]]
      /\ combined' = [combined EXCEPT ![p] = combined[p]]
  BY AtWork
<1>3. /\ ~Composing(job[p].carrier) => leaf[p] = 1 /\ seen[p] = <<>>
      /\ job[p].carrier = "slice" /\ combined[p] # <<>> => Disposition(combined[p]) = "none"
  BY <1>1 DEF Underway
<1>4. /\ job' = job /\ fault' = fault /\ DOMAIN out' = Workers
      /\ \A q \in Workers \ {p} : out'[q] = out[q]
  BY <1>1
<1> DEFINE l == leaf[p]
           report == combined[p]
           reports == seen[p]
<1>5. leaf' = [leaf EXCEPT ![p] = l] /\ l \in Nat \ {0}
  BY <1>1, <1>2
<1>6. seen' = [seen EXCEPT ![p] = reports] /\ reports \in Seq(Report)
  BY <1>1, <1>2
<1>7. combined' = [combined EXCEPT ![p] = report] /\ report \in Seq(Report)
  BY <1>1, <1>2
<1>8. report = Evidence(reports)
  BY <1>1
<1>9. AtLeaf(place) => l <= Len(job[p].leaves)
  OBVIOUS
<1>10. ~Composing(job[p].carrier) => l = 1 /\ reports = <<>>
  BY <1>3
<1>11. job[p].carrier = "slice" /\ report # <<>> => Disposition(report) = "none"
  BY <1>3
<1>12. place = "replace" => Redacts(job[p].leaves[l])
  BY DEF Current
<1> HIDE DEF l, report, reports
<1>13. QED
  BY <1>4, <1>5, <1>6, <1>7, <1>8, <1>9, <1>10, <1>11, <1>12, MoveKeeps, ZenonT(60)

\* A call ends with an error, which carries what was composed.
LEMMA FaultKeeps ==
    ASSUME RedactionInv, NEW p \in Workers, at[p] # "done",
           NEW completed \in Seq(Report), Fault(p, completed), UNCHANGED <<job, seen>>,
           \/ ~Composing(job[p].carrier)
           \/ completed = combined[p]
           \/ \E own \in Findings : completed = combined[p] \o Evidence(<<own>>)
    PROVE  RedactionInv'
<1>1. /\ seen[p] \in Seq(Report) /\ combined[p] = Evidence(seen[p])
      /\ seen' = [seen EXCEPT ![p] = seen[p]]
  BY AtWork
<1>2. End(p, Input(p), Evidence(completed), TRUE)
  BY DEF Fault
<1>3. Evidence(completed) \in Seq(Report)
  BY EvidenceType
<1>4. ASSUME Composing(job[p].carrier), seen[p] # <<>>
      PROVE  Answer(Evidence(completed), TRUE, seen[p])
  <2>1. CASE completed = combined[p]
    <3>1. Evidence(completed) = <<ComposeReports(seen[p])>>
      BY <1>1, <1>4, <2>1, EvidenceOnce DEF Evidence
    <3>2. QED
      BY <3>1 DEF Answer
  <2>2. CASE \E own \in Findings : completed = combined[p] \o Evidence(<<own>>)
    <3>1. PICK own \in Findings : completed = combined[p] \o Evidence(<<own>>)
      BY <2>2
    <3>2. own \in Report
      BY FindingsAssumption
    <3>3. SameDecision(Evidence(completed), ComposeReports(Append(seen[p], own)))
      BY <1>1, <1>4, <3>1, <3>2, EvidenceOwn
    <3>4. QED
      BY <3>3 DEF Answer
  <2>3. QED
    BY <1>4, <2>1, <2>2
<1>5. QED
  BY <1>1, <1>2, <1>3, <1>4, EndKeeps

LEMMA FailedKeeps ==
    ASSUME RedactionInv, NEW p \in Workers, at[p] # "done",
           NEW own \in Optional(Findings), Failed(p, own), UNCHANGED <<job, seen>>
    PROVE  RedactionInv'
<1>1. combined[p] \in Seq(Report)
  BY AtWork
<1>2. Fault(p, combined[p] \o Evidence(own))
  BY DEF Failed
<1>3. CASE own = <<>>
  <2>1. combined[p] \o Evidence(own) = combined[p]
    BY <1>1, <1>3 DEF Evidence
  <2>2. QED
    BY <1>1, <1>2, <2>1, FaultKeeps
<1>4. CASE own # <<>>
  <2>1. PICK r \in Findings : own = <<r>>
    BY <1>4 DEF Optional
  <2>2. r \in Report
    BY FindingsAssumption
  <2>3. Evidence(own) \in Seq(Report)
    BY <2>1, <2>2, Single, EvidenceType
  <2>4. combined[p] \o Evidence(own) \in Seq(Report)
    BY <1>1, <2>3
  <2>5. QED
    BY <1>2, <2>1, <2>4, FaultKeeps
<1>5. QED
  BY <1>3, <1>4

-----------------------------------------------------------------------------
(* A check returns.                                                        *)

LEMMA SliceKeeps ==
    ASSUME RedactionInv, NEW p \in Workers, at[p] # "done", NEW result, NEW r \in Report,
           NEW corrupted, AcceptedBySlice(p, result, <<r>>, corrupted), job' = job,
           seen' = [seen EXCEPT ![p] = Append(seen[p], r)]
    PROVE  RedactionInv'
<1> DEFINE reports == Append(seen[p], r)
           all == <<ComposeReports(combined[p] \o <<r>>)>>
<1>1. /\ Underway(p) /\ seen[p] \in Seq(Report) /\ combined[p] = Evidence(seen[p])
      /\ leaf[p] \in Nat \ {0} /\ DOMAIN out = Workers
  BY AtWork
<1>2. reports \in Seq(Report) /\ reports # <<>>
  BY <1>1, Growing
<1>3. all = <<ComposeReports(reports)>> /\ all = Evidence(reports)
  BY <1>1, EvidenceFurther
<1>4. all \in Seq(Report) /\ all # <<>>
  BY <1>2, <1>3, ComposeType, Single
<1>5. /\ job[p].carrier = "slice"
      /\ IF Disposition(all) # "none" THEN End(p, Input(p), all, FALSE)
         ELSE /\ combined' = [combined EXCEPT ![p] = all]
              /\ out' = IF <<r>> # <<>> /\ <<r>>[1].action = "redact"
                        THEN [out EXCEPT ![p][leaf[p]] = result] ELSE out
              /\ NextLeaf(p)
  BY DEF AcceptedBySlice
<1> HIDE DEF reports, all
<1>6. CASE Disposition(all) # "none"
  <2>1. End(p, Input(p), all, FALSE)
    BY <1>5, <1>6
  <2>2. Answer(all, FALSE, reports)
    BY <1>3 DEF Answer
  <2>3. seen' = [seen EXCEPT ![p] = reports]
    BY DEF reports
  <2>4. QED
    BY <1>2, <1>4, <2>1, <2>2, <2>3, EndKeeps
<1>7. CASE Disposition(all) = "none"
  <2>1. /\ combined' = [combined EXCEPT ![p] = all] /\ NextLeaf(p)
        /\ out' = IF <<r>> # <<>> /\ <<r>>[1].action = "redact"
                  THEN [out EXCEPT ![p][leaf[p]] = result] ELSE out
    BY <1>5, <1>7
  <2>2. DOMAIN out' = Workers /\ \A q \in Workers \ {p} : out'[q] = out[q]
    BY <1>1, <2>1
  <2>3. at' = [at EXCEPT ![p] = "next"] /\ leaf' = [leaf EXCEPT ![p] = leaf[p] + 1]
        /\ fault' = fault
    BY <2>1 DEF NextLeaf
  <2>4. leaf[p] + 1 \in Nat \ {0} /\ "next" \in Places \ {"start", "done"} /\ ~AtLeaf("next")
    BY <1>1 DEF Places, AtLeaf
  <2>5. Composing(job[p].carrier)
    BY <1>5 DEF Composing
  <2>6. seen' = [seen EXCEPT ![p] = reports]
    BY DEF reports
  <2>7. QED
    BY <1>2, <1>3, <1>4, <1>7, <2>1, <2>2, <2>3, <2>4, <2>5, <2>6, MoveKeeps, ZenonT(60)
<1>8. QED
  BY <1>6, <1>7

LEMMA JSONKeeps ==
    ASSUME RedactionInv, NEW p \in Workers, at[p] # "done", NEW result, NEW r \in Report,
           NEW corrupted, AcceptedByJSON(p, result, <<r>>, corrupted), job' = job,
           seen' = [seen EXCEPT ![p] = Append(seen[p], r)]
    PROVE  RedactionInv'
<1> DEFINE reports == Append(seen[p], r)
           all == <<ComposeReports(combined[p] \o <<r>>)>>
<1>1. /\ Underway(p) /\ seen[p] \in Seq(Report) /\ combined[p] = Evidence(seen[p])
      /\ leaf[p] \in Nat \ {0} /\ DOMAIN out = Workers
  BY AtWork
<1>2. reports \in Seq(Report) /\ reports # <<>>
  BY <1>1, Growing
<1>3. all = Evidence(reports)
  BY <1>1, EvidenceFurther
<1>4. all \in Seq(Report)
  BY <1>2, <1>3, EvidenceType
<1>5. /\ job[p].carrier = "json" /\ combined' = [combined EXCEPT ![p] = all] /\ NextLeaf(p)
      /\ out' = IF Disposition(<<r>>) = "none" /\ <<r>>[1].action = "redact"
                THEN [out EXCEPT ![p][leaf[p]] = result] ELSE out
  BY DEF AcceptedByJSON
<1> HIDE DEF reports, all
<1>6. DOMAIN out' = Workers /\ \A q \in Workers \ {p} : out'[q] = out[q]
  BY <1>1, <1>5
<1>7. at' = [at EXCEPT ![p] = "next"] /\ leaf' = [leaf EXCEPT ![p] = leaf[p] + 1]
      /\ fault' = fault
  BY <1>5 DEF NextLeaf
<1>8. leaf[p] + 1 \in Nat \ {0} /\ "next" \in Places \ {"start", "done"} /\ ~AtLeaf("next")
  BY <1>1 DEF Places, AtLeaf
<1>9. Composing(job[p].carrier) /\ job[p].carrier # "slice"
  BY <1>5 DEF Composing
<1>10. seen' = [seen EXCEPT ![p] = reports]
  BY DEF reports
<1>11. QED
  BY <1>2, <1>3, <1>4, <1>5, <1>6, <1>7, <1>8, <1>9, <1>10, MoveKeeps, ZenonT(60)

\* A redaction that does not stop its carrier lets its value through.
LEMMA RedactionPasses ==
    ASSUME NEW r \in Report, r.action = "redact", ~ShouldShortCircuitValidator(r)
    PROVE  Disposition(NormalizeAll(<<r>>)) = "none"
<1> DEFINE q == NormalizeReport(r)
<1>1. q \in Report /\ ~IsObservation(q) /\ ~IsObservation(r) /\ q.action = "redact"
  <2>1. q \in Report /\ q.action = "redact"
    BY NormalizeType, NormalizeKeepsClass
  <2>2. QED
    BY <2>1 DEF IsObservation
<1>2. EffectiveDisposition(q) = "none"
  <2>1. EffectiveDisposition(q) \in Dispositions
    BY <1>1, DispositionType
  <2>2. EffectiveDisposition(q) \notin
           {"retryable_correction", "terminal_deny", "system_fault"}
    BY <1>1 DEF ShouldShortCircuitValidator, IsRetryableCorrection, IsTerminalDeny,
                IsSystemFault
  <2>3. QED
    BY <2>1, <2>2 DEF Dispositions
<1>3. NormalizeAll(<<r>>)[1] = q
  <2>1. <<r>> \in Seq(Report) /\ 1 \in 1..Len(<<r>>) /\ <<r>>[1] = r
    BY Single
  <2>2. NormalizeAll(<<r>>)[1] = NormalizeReport(<<r>>[1])
    BY <2>1, NormalizeAllType
  <2>3. QED
    BY <2>1, <2>2
<1> HIDE DEF q
<1>4. DecisionFromReport(q).disposition = "none"
  BY <1>1, <1>2, HostKeepsClass DEF PayloadKinds
<1>5. QED
  BY <1>3, <1>4 DEF Disposition

LEMMA MapKeeps ==
    ASSUME RedactionInv, NEW p \in Workers, at[p] # "done", NEW result, NEW r \in Report,
           NEW corrupted, AcceptedByMap(p, result, <<r>>, corrupted), job' = job,
           seen' = [seen EXCEPT ![p] = Append(seen[p], r)]
    PROVE  RedactionInv'
<1> DEFINE reports == Append(seen[p], r)
           normal == NormalizeAll(<<r>>)
           redacts == /\ <<r>> # <<>> /\ ~ShouldShortCircuitValidator(<<r>>[1])
                      /\ <<r>>[1].action = "redact"
           mended == <<ComposeReports(Append(normal, Corrupted))>>
<1>1. reports \in Seq(Report)
  BY AtWork, Growing
<1>2. normal \in Seq(Report)
  BY Single, NormalizeAllType
<1>3. mended \in Seq(Report)
  <2>1. Append(normal, Corrupted) \in Seq(Report)
    BY <1>2, CorruptedType, Growing
  <2>2. QED
    BY <2>1, ComposeType, Single
<1>4. redacts => Disposition(normal) = "none"
  BY RedactionPasses
<1>5. /\ ~Composing(job[p].carrier)
      /\ IF ~redacts THEN End(p, Input(p), normal, FALSE)
         ELSE IF corrupted THEN End(p, Input(p), mended, FALSE)
         ELSE End(p, <<result>>, normal, FALSE)
  BY DEF AcceptedByMap, Composing
<1>6. seen' = [seen EXCEPT ![p] = reports]
  OBVIOUS
<1> HIDE DEF reports, normal, redacts, mended
<1>7. CASE End(p, Input(p), normal, FALSE)
  BY <1>1, <1>2, <1>5, <1>6, <1>7, EndKeeps
<1>8. CASE End(p, Input(p), mended, FALSE)
  BY <1>1, <1>3, <1>5, <1>6, <1>8, EndKeeps
<1>9. CASE redacts /\ End(p, <<result>>, normal, FALSE)
  BY <1>1, <1>2, <1>4, <1>5, <1>6, <1>9, EndKeeps
<1>10. QED
  BY <1>5, <1>7, <1>8, <1>9

\* The value of a carrier that is a text.
LEMMA WholeText ==
    ASSUME RedactionInv, NEW p \in Workers, at[p] # "done", job[p].carrier = "text"
    PROVE  Input(p) = <<Current(p).text>> /\ Current(p) = job[p].leaves[1]
<1>1. Underway(p) /\ job[p] \in Jobs /\ job[p] \in Job
  BY AtWork
<1>2. leaf[p] = 1
  BY <1>1 DEF Underway, Composing
<1>3. Len(job[p].leaves) = 1 /\ job[p].leaves \in Seq(Leaf)
  BY <1>1, JobsAssumption DEF Job
<1> DEFINE leaves == job[p].leaves
<1>4. Input(p) = [i \in DOMAIN leaves |-> leaves[i].text] /\ Current(p) = leaves[1]
  BY <1>2 DEF Input, Current
<1>5. DOMAIN leaves = {1}
  BY <1>3
<1> HIDE DEF leaves
<1>6. Input(p) = [i \in {1} |-> leaves[1].text]
  BY <1>4, <1>5
<1>7. Input(p) = <<Current(p).text>>
  BY <1>4, <1>6
<1>8. QED
  BY <1>4, <1>7 DEF leaves

(* Whatever a check returns, its carrier goes on or ends as it should.     *)
LEMMA ReturnsKeeps ==
    ASSUME RedactionInv, NEW p \in Workers, at[p] # "done", NEW result, NEW rep,
           NEW err \in BOOLEAN, NEW own \in Optional(Findings), NEW corrupted,
           Returns(p, result, rep, err, own, corrupted),
           ~err => \E r \in Report :
                      /\ rep = <<r>>
                      /\ Disposition(rep) # "none" =>
                            result = Current(p).text
                              \/ (Redacts(Current(p)) /\ Current(p).check.fatal)
    PROVE  RedactionInv'
<1>1. job' = job
  BY DEF Returns
<1>2. CASE err \/ (p \in ended /\ job[p].carrier # "text")
  <2>1. seen' = seen
    BY <1>2 DEF Returns
  <2>2. CASE job[p].carrier = "text"
    <3>1. Fault(p, own)
      BY <1>2, <2>2 DEF Returns
    <3>2. own \in Seq(Report)
      <4>1. CASE own = <<>>
        BY <4>1, ComposeNone
      <4>2. CASE \E f \in Findings : own = <<f>>
        BY <4>2, FindingsAssumption, Single
      <4>3. QED
        BY <4>1, <4>2 DEF Optional
    <3>3. ~Composing(job[p].carrier)
      BY <2>2 DEF Composing
    <3>4. QED
      BY <1>1, <2>1, <3>1, <3>2, <3>3, FaultKeeps
  <2>3. CASE job[p].carrier # "text"
    <3>1. Failed(p, own)
      BY <1>2, <2>3 DEF Returns
    <3>2. QED
      BY <1>1, <2>1, <3>1, FailedKeeps
  <2>4. QED
    BY <2>2, <2>3
<1>3. CASE ~(err \/ (p \in ended /\ job[p].carrier # "text"))
  <2>1. PICK r \in Report :
            /\ rep = <<r>>
            /\ Disposition(rep) # "none" =>
                  result = Current(p).text \/ (Redacts(Current(p)) /\ Current(p).check.fatal)
    BY <1>3
  <2>2. seen' = [seen EXCEPT ![p] = Append(seen[p], r)]
    <3>1. seen[p] \o <<r>> = Append(seen[p], r)
      BY AtWork, Growing
    <3>2. seen' = [seen EXCEPT ![p] = seen[p] \o rep]
      BY <1>3 DEF Returns
    <3>3. QED
      BY <2>1, <3>1, <3>2
  <2>3. CASE job[p].carrier = "text"
    <3> DEFINE reports == Append(seen[p], r)
    <3>1. End(p, <<result>>, rep, FALSE)
      BY <1>3, <2>3 DEF Returns
    <3>2. rep \in Seq(Report) /\ reports \in Seq(Report)
      BY <2>1, AtWork, Growing, Single
    <3>3. Disposition(rep) # "none" => <<result>> = Input(p) \/ Escalates(p)
      BY <2>1, <2>3, WholeText DEF Escalates
    <3>4. ~Composing(job[p].carrier)
      BY <2>3 DEF Composing
    <3>5. seen' = [seen EXCEPT ![p] = reports]
      BY <2>2
    <3> HIDE DEF reports
    <3>6. QED
      BY <1>1, <3>1, <3>2, <3>3, <3>4, <3>5, EndKeeps
  <2>4. CASE job[p].carrier # "text"
    <3>1. \/ AcceptedBySlice(p, result, <<r>>, corrupted)
          \/ AcceptedByJSON(p, result, <<r>>, corrupted)
          \/ AcceptedByMap(p, result, <<r>>, corrupted)
      BY <1>3, <2>1, <2>4 DEF Returns
    <3>2. QED
      BY <1>1, <2>2, <3>1, SliceKeeps, JSONKeeps, MapKeeps
  <2>5. QED
    BY <2>3, <2>4
<1>4. QED
  BY <1>2, <1>3

-----------------------------------------------------------------------------
(* The steps.                                                              *)

LEMMA InitKeeps == Init => RedactionInv
<1>1. SUFFICES ASSUME Init PROVE RedactionInv
  OBVIOUS
<1>2. <<>> \in Seq(Report) /\ Evidence(<<>>) = <<>>
  BY ComposeNone DEF Evidence
<1>3. Typed
  BY <1>1, <1>2 DEF Init, Typed, Places
<1>4. ASSUME NEW p \in Workers PROVE Kept(p)
  <2>1. at[p] = "start" /\ leaf[p] = 1 /\ combined[p] = <<>> /\ seen[p] = <<>>
    BY <1>1 DEF Init
  <2>2. Underway(p)
    BY <1>2, <2>1 DEF Underway, AtLeaf
  <2>3. QED
    BY <2>1, <2>2 DEF Kept
<1>5. QED
  BY <1>3, <1>4 DEF RedactionInv

LEMMA StutterKeeps ==
    ASSUME RedactionInv, UNCHANGED <<job, at, leaf, out, combined, seen, fault>>
    PROVE  RedactionInv'
<1>1. Typed'
  BY DEF RedactionInv, Typed
<1>2. ASSUME NEW q \in Workers PROVE Kept(q)'
  BY OthersKept DEF RedactionInv
<1>3. QED
  BY <1>1, <1>2 DEF RedactionInv

LEMMA PlacesApart ==
    /\ {"next", "check", "detect", "replace", "finish"} \subseteq Places \ {"start", "done"}
    /\ ~AtLeaf("next") /\ ~AtLeaf("finish") /\ AtLeaf("check") /\ AtLeaf("detect")
    /\ AtLeaf("replace")
BY DEF Places, AtLeaf

LEMMA StartKeeps ==
    ASSUME RedactionInv, NEW p \in Workers, NEW parses \in BOOLEAN, Start(p, parses)
    PROVE  RedactionInv'
<1>1. at[p] = "start" /\ UNCHANGED <<job, seen>>
  BY DEF Start
<1>2. /\ seen[p] = <<>> /\ combined[p] = <<>> /\ seen' = [seen EXCEPT ![p] = <<>>]
      /\ <<>> \in Seq(Report)
  <2>1. Underway(p) /\ combined[p] = Evidence(seen[p]) /\ seen = [seen EXCEPT ![p] = seen[p]]
    BY <1>1, AtWork
  <2>2. seen[p] = <<>>
    BY <1>1, <2>1 DEF Underway
  <2>3. QED
    BY <1>1, <2>1, <2>2, ComposeNone DEF Evidence
<1>3. CASE Fault(p, <<>>)
  BY <1>1, <1>2, <1>3, FaultKeeps
<1>4. ASSUME NEW r \in {Corrupted, PassReport}, End(p, Input(p), <<r>>, FALSE)
      PROVE  RedactionInv'
  <2>1. <<r>> \in Seq(Report)
    BY <1>4, CorruptedType, CheckReports, Single
  <2>2. QED
    BY <1>1, <1>2, <1>4, <2>1, EndKeeps
<1>5. CASE /\ at' = [at EXCEPT ![p] = "next"]
           /\ UNCHANGED <<leaf, text, todo, out, combined, fault>>
  BY <1>1, <1>5, PlacesApart, GoOn
<1>6. QED
  BY <1>3, <1>4, <1>5 DEF Start

LEMMA TakeLeafKeeps ==
    ASSUME RedactionInv, NEW p \in Workers, TakeLeaf(p)
    PROVE  RedactionInv'
<1>1. at[p] = "next" /\ UNCHANGED <<job, seen>>
  BY DEF TakeLeaf
<1>2. /\ Underway(p) /\ seen[p] \in Seq(Report) /\ combined[p] \in Seq(Report)
      /\ combined[p] = Evidence(seen[p]) /\ leaf[p] \in Nat \ {0} /\ DOMAIN out = Workers
      /\ job[p] \in Job
  BY <1>1, AtWork
<1>3. CASE /\ at' = [at EXCEPT ![p] = "finish"]
           /\ UNCHANGED <<leaf, text, todo, out, combined, fault>>
  BY <1>1, <1>3, PlacesApart, GoOn
<1>4. CASE Fault(p, combined[p])
  BY <1>1, <1>2, <1>4, FaultKeeps
<1>5. CASE job[p].carrier = "json" /\ NextLeaf(p) /\ UNCHANGED <<out, combined>>
  <2> DEFINE l == leaf[p] + 1
             report == combined[p]
             reports == seen[p]
  <2>1. /\ leaf' = [leaf EXCEPT ![p] = l] /\ at' = [at EXCEPT ![p] = "next"]
        /\ fault' = fault /\ job' = job
    BY <1>1, <1>5 DEF NextLeaf
  <2>2. /\ seen' = [seen EXCEPT ![p] = reports] /\ combined' = [combined EXCEPT ![p] = report]
        /\ report = Evidence(reports) /\ report \in Seq(Report) /\ reports \in Seq(Report)
    BY <1>1, <1>2, <1>5, AtWork
  <2>3. l \in Nat \ {0}
    BY <1>2
  <2>4. DOMAIN out' = Workers /\ \A q \in Workers \ {p} : out'[q] = out[q]
    BY <1>2, <1>5
  <2>5. Composing(job[p].carrier) /\ job[p].carrier # "slice"
    BY <1>5 DEF Composing
  <2> HIDE DEF l, report, reports
  <2>6. QED
    BY <2>1, <2>2, <2>3, <2>4, <2>5, PlacesApart, MoveKeeps, ZenonT(60)
<1>6. CASE /\ leaf[p] <= Len(job[p].leaves)
           /\ at' = [at EXCEPT ![p] = "check"]
           /\ UNCHANGED <<leaf, text, todo, out, combined, fault>>
  BY <1>1, <1>6, PlacesApart, GoOn
<1>7. leaf[p] > Len(job[p].leaves) \/ leaf[p] <= Len(job[p].leaves)
  <2>1. Len(job[p].leaves) \in Nat
    BY <1>2 DEF Job
  <2>2. QED
    BY <1>2, <2>1
<1>8. QED
  BY <1>3, <1>4, <1>5, <1>6, <1>7 DEF TakeLeaf

LEMMA PatternKeeps ==
    ASSUME RedactionInv, NEW p \in Workers, NEW corrupted \in BOOLEAN,
           PatternChecks(p, corrupted), Current(p) \in Leaf
    PROVE  RedactionInv'
<1> DEFINE found == Current(p)
           r == IF found.spans = {} THEN PassReport ELSE ViolationReport(found.check)
           result == IF r.action = "redact"
                     THEN ReplaceLiterally(found.text, MergeSpans(found.spans))
                     ELSE found.text
<1>1. at[p] # "done" /\ found.check.kind = "pattern"
      /\ Returns(p, result, <<r>>, FALSE, <<>>, corrupted)
  BY DEF PatternChecks
<1>2. found.check \in Check
  BY DEF Leaf
<1>3. r \in Report
  BY <1>2, CheckReports
<1>4. Disposition(<<r>>) # "none" =>
         result = found.text \/ (Redacts(found) /\ found.check.fatal)
  <2>1. CASE r.action = "redact"
    <3>1. r = ViolationReport(found.check) /\ found.check.action = "redact"
      BY <1>2, <2>1, CheckReports
    <3>2. Disposition(<<r>>) # "none" => found.check.fatal
      BY <1>2, <3>1, CheckReports DEF Check
    <3>3. QED
      BY <1>1, <3>1, <3>2 DEF Redacts
  <2>2. CASE r.action # "redact"
    BY <2>2
  <2>3. QED
    BY <2>1, <2>2
<1>5. <<>> \in Optional(Findings)
  BY DEF Optional
<1> HIDE DEF r, result
<1>6. QED
  BY <1>1, <1>3, <1>4, <1>5, ReturnsKeeps

LEMMA LeafType ==
    ASSUME RedactionInv, NEW p \in Workers, AtLeaf(at[p])
    PROVE  /\ at[p] # "done" /\ leaf[p] <= Len(job[p].leaves)
           /\ Current(p) \in Leaf
<1>1. at[p] # "done"
  BY DEF AtLeaf
<1>2. Underway(p) /\ leaf[p] \in Nat \ {0} /\ job[p] \in Job
  BY <1>1, AtWork
<1>3. leaf[p] <= Len(job[p].leaves) /\ job[p].leaves \in Seq(Leaf)
  BY <1>2 DEF Underway, Job
<1> DEFINE leaves == job[p].leaves
           l == leaf[p]
<1>4. leaves \in Seq(Leaf) /\ l \in Nat \ {0} /\ l <= Len(leaves)
  BY <1>2, <1>3
<1> HIDE DEF leaves, l
<1>5. leaves[l] \in Leaf
  BY <1>4
<1>6. QED
  BY <1>1, <1>3, <1>5 DEF Current, leaves, l

\* A check that fails, without a report of its own.
LEMMA ErrorKeeps ==
    ASSUME RedactionInv, NEW p \in Workers, at[p] # "done",
           NEW own \in Optional(Findings), Returns(p, Current(p).text, <<>>, TRUE, own, FALSE)
    PROVE  RedactionInv'
BY ReturnsKeeps

LEMMA NoneOwn == <<>> \in Optional(Findings)
BY DEF Optional

LEMMA DetectorStartsKeeps ==
    ASSUME RedactionInv, NEW p \in Workers, DetectorStarts(p)
    PROVE  RedactionInv'
<1>1. AtLeaf(at[p])
  BY DEF DetectorStarts, AtLeaf
<1>2. at[p] # "done" /\ leaf[p] <= Len(job[p].leaves)
  BY <1>1, LeafType
<1>3. CASE p \in ended
  <2>1. Returns(p, Current(p).text, <<>>, TRUE, <<>>, FALSE)
    BY <1>3 DEF DetectorStarts
  <2>2. QED
    BY <1>2, <2>1, NoneOwn, ErrorKeeps
<1>4. CASE p \notin ended
  <2>1. at' = [at EXCEPT ![p] = "detect"]
        /\ UNCHANGED <<job, leaf, out, combined, seen, fault>>
    BY <1>4 DEF DetectorStarts
  <2>2. QED
    BY <1>2, <2>1, PlacesApart, GoOn
<1>5. QED
  BY <1>3, <1>4

LEMMA NormalizedOne ==
    ASSUME NEW r \in Report
    PROVE  NormalizeAll(<<r>>) = <<NormalizeReport(r)>> /\ NormalizeReport(r) \in Report
<1>1. <<r>> \in Seq(Report) /\ Len(<<r>>) = 1 /\ <<r>>[1] = r
  BY Single
<1> DEFINE n == NormalizeAll(<<r>>)
<1>2. n \in Seq(Report) /\ Len(n) = Len(<<r>>)
      /\ \A i \in 1..Len(<<r>>) : n[i] = NormalizeReport(<<r>>[i])
  BY <1>1, NormalizeAllType
<1> HIDE DEF n
<1>3. n[1] = NormalizeReport(r)
  BY <1>1, <1>2
<1>4. n = <<NormalizeReport(r)>>
  BY <1>1, <1>2, <1>3
<1>5. QED
  BY <1>4, NormalizeType DEF n

LEMMA DetectorReturnsKeeps ==
    ASSUME RedactionInv, NEW p \in Workers, NEW rep \in Optional(Findings),
           DetectorReturns(p, rep)
    PROVE  RedactionInv'
<1>1. at[p] # "done"
  BY DEF DetectorReturns
<1>2. CASE p \in ended \/ rep = <<>>
  <2>1. PICK own \in Optional(Findings) : Returns(p, Current(p).text, <<>>, TRUE, own, FALSE)
    BY <1>2 DEF DetectorReturns
  <2>2. QED
    BY <1>1, <2>1, ErrorKeeps
<1>3. CASE ~(p \in ended \/ rep = <<>>)
  <2>1. PICK f \in Findings : rep = <<f>>
    BY <1>3 DEF Optional
  <2>2. f \in Report
    BY FindingsAssumption
  <2>3. NormalizeAll(rep) = <<NormalizeReport(f)>> /\ NormalizeReport(f) \in Report
    BY <2>1, <2>2, NormalizedOne
  <2> DEFINE result == Current(p).text
             answer == NormalizeAll(rep)
  <2>4. Returns(p, result, answer, FALSE, <<>>, FALSE)
    BY <1>3 DEF DetectorReturns
  <2>5. /\ result = Current(p).text
        /\ \E r \in Report : answer = <<r>>
    BY <2>3
  <2> HIDE DEF result, answer
  <2>6. QED
    BY <1>1, <2>4, <2>5, NoneOwn, ReturnsKeeps
<1>4. QED
  BY <1>2, <1>3

\* A check that answers one report and leaves the text alone.
LEMMA PlainKeeps ==
    ASSUME RedactionInv, NEW p \in Workers, at[p] # "done", NEW r \in Report,
           Returns(p, Current(p).text, <<r>>, FALSE, <<>>, FALSE)
    PROVE  RedactionInv'
<1> DEFINE result == Current(p).text
           rep == <<r>>
<1>1. result = Current(p).text /\ \E q \in Report : rep = <<q>>
  OBVIOUS
<1>2. Returns(p, result, rep, FALSE, <<>>, FALSE)
  OBVIOUS
<1> HIDE DEF result, rep
<1>3. QED
  BY <1>1, <1>2, NoneOwn, ReturnsKeeps

LEMMA SpansFoundKeeps ==
    ASSUME RedactionInv, NEW p \in Workers, SpansFound(p)
    PROVE  RedactionInv'
<1>1. AtLeaf(at[p])
  BY DEF SpansFound, AtLeaf
<1>2. at[p] # "done" /\ leaf[p] <= Len(job[p].leaves) /\ Current(p).check \in Check
  BY <1>1, LeafType DEF Leaf
<1>3. \/ Returns(p, Current(p).text, <<>>, TRUE, <<>>, FALSE)
      \/ Returns(p, Current(p).text, <<PassReport>>, FALSE, <<>>, FALSE)
      \/ Returns(p, Current(p).text, <<ViolationReport(Current(p).check)>>, FALSE, <<>>, FALSE)
      \/ /\ Current(p).check.kind = "spans" /\ Current(p).check.action # "block"
         /\ at' = [at EXCEPT ![p] = "replace"]
         /\ UNCHANGED <<job, leaf, out, combined, seen, fault>>
  BY DEF SpansFound
<1>4. CASE Returns(p, Current(p).text, <<>>, TRUE, <<>>, FALSE)
  BY <1>2, <1>4, NoneOwn, ErrorKeeps
<1>5. CASE Returns(p, Current(p).text, <<PassReport>>, FALSE, <<>>, FALSE)
  BY <1>2, <1>5, CheckReports, PlainKeeps
<1>6. CASE Returns(p, Current(p).text, <<ViolationReport(Current(p).check)>>, FALSE, <<>>, FALSE)
  BY <1>2, <1>6, CheckReports, PlainKeeps
<1>7. CASE /\ Current(p).check.kind = "spans" /\ Current(p).check.action # "block"
           /\ at' = [at EXCEPT ![p] = "replace"]
           /\ UNCHANGED <<job, leaf, out, combined, seen, fault>>
  <2>1. Redacts(Current(p))
    BY <1>2, <1>7 DEF Redacts, Check
  <2>2. QED
    BY <1>2, <1>7, <2>1, PlacesApart, GoOn
<1>8. QED
  BY <1>3, <1>4, <1>5, <1>6, <1>7

LEMMA ReplaceSpanKeeps ==
    ASSUME RedactionInv, NEW p \in Workers, ReplaceSpan(p)
    PROVE  RedactionInv'
<1>1. at[p] # "done"
  BY DEF ReplaceSpan
<1>2. CASE StoreFails(p)
  <2>1. Returns(p, Current(p).text, <<>>, TRUE, <<>>, FALSE)
    BY <1>2 DEF StoreFails
  <2>2. QED
    BY <1>1, <2>1, NoneOwn, ErrorKeeps
<1>3. CASE StoreSucceeds(p)
  <2>1. UNCHANGED <<job, at, leaf, out, combined, seen, fault>>
    BY <1>3 DEF StoreSucceeds
  <2>2. QED
    BY <2>1, StutterKeeps
<1>4. QED
  BY <1>2, <1>3 DEF ReplaceSpan

LEMMA SpansReplacedKeeps ==
    ASSUME RedactionInv, NEW p \in Workers, NEW corrupted \in BOOLEAN,
           SpansReplaced(p, corrupted)
    PROVE  RedactionInv'
<1>1. at[p] # "done"
  BY DEF SpansReplaced
<1>2. CASE p \in ended
  <2>1. Returns(p, Current(p).text, <<>>, TRUE, <<>>, FALSE)
    BY <1>2 DEF SpansReplaced
  <2>2. QED
    BY <1>1, <2>1, NoneOwn, ErrorKeeps
<1>3. CASE p \notin ended
  <2> DEFINE rep == <<ViolationReport(Current(p).check)>>
             result == text[p]
  <2>1. at[p] = "replace" /\ Returns(p, result, rep, FALSE, <<>>, corrupted)
    BY <1>3 DEF SpansReplaced
  <2>2. Current(p).check \in Check
    BY <2>1, PlacesApart, LeafType DEF Leaf
  <2>3. Redacts(Current(p)) /\ Current(p).check.action = "redact"
    BY <1>1, <2>1, AtWork DEF Underway, Redacts
  <2>4. \E r \in Report :
           /\ rep = <<r>>
           /\ Disposition(rep) # "none" =>
                 result = Current(p).text \/ (Redacts(Current(p)) /\ Current(p).check.fatal)
    BY <2>2, <2>3, CheckReports DEF Check
  <2> HIDE DEF rep, result
  <2>5. QED
    BY <1>1, <2>1, <2>4, NoneOwn, ReturnsKeeps
<1>4. QED
  BY <1>2, <1>3

LEMMA FinishKeeps ==
    ASSUME RedactionInv, NEW p \in Workers, Finish(p)
    PROVE  RedactionInv'
<1>1. at[p] = "finish" /\ UNCHANGED <<job, seen>>
  BY DEF Finish
<1>2. /\ Underway(p) /\ seen[p] \in Seq(Report) /\ combined[p] \in Seq(Report)
      /\ combined[p] = Evidence(seen[p]) /\ seen' = [seen EXCEPT ![p] = seen[p]]
      /\ job[p] \in Job
  BY <1>1, AtWork
<1>3. seen[p] # <<>> => Answer(combined[p], FALSE, seen[p])
  BY <1>2 DEF Answer, Evidence
<1>4. CASE End(p, Input(p), combined[p], FALSE)
  BY <1>1, <1>2, <1>3, <1>4, EndKeeps
<1>5. CASE Fault(p, combined[p])
  BY <1>1, <1>2, <1>5, FaultKeeps
<1>6. ASSUME End(p, out[p], IF combined[p] = <<>> THEN <<PassReport>> ELSE combined[p], FALSE),
             ~(job[p].carrier = "json" /\ combined[p] # <<>>
                 /\ Disposition(combined[p]) # "none")
      PROVE  RedactionInv'
  <2>1. CASE combined[p] = <<>>
    <3> DEFINE rep == <<PassReport>>
               result == out[p]
    <3>1. End(p, result, rep, FALSE)
      BY <1>6, <2>1
    <3>2. seen[p] = <<>>
      BY <1>2, <2>1, EvidenceEmpty
    <3>3. rep \in Seq(Report) /\ Disposition(rep) = "none"
      BY CheckReports, Single
    <3> HIDE DEF rep, result
    <3>4. QED
      BY <1>1, <1>2, <3>1, <3>2, <3>3, EndKeeps
  <2>2. CASE combined[p] # <<>>
    <3> DEFINE rep == combined[p]
               result == out[p]
    <3>1. End(p, result, rep, FALSE)
      BY <1>6, <2>2
    <3>2. Disposition(rep) = "none"
      <4>1. CASE job[p].carrier = "json"
        BY <1>6, <2>2, <4>1
      <4>2. CASE job[p].carrier = "slice"
        BY <1>2, <2>2, <4>2 DEF Underway
      <4>3. CASE ~Composing(job[p].carrier)
        BY <1>2, <2>2, <4>3 DEF Underway, Evidence
      <4>4. QED
        BY <4>1, <4>2, <4>3 DEF Composing
    <3>3. rep \in Seq(Report) /\ (seen[p] # <<>> => Answer(rep, FALSE, seen[p]))
      BY <1>2, <1>3
    <3> HIDE DEF rep, result
    <3>4. QED
      BY <1>1, <1>2, <3>1, <3>2, <3>3, EndKeeps
  <2>3. QED
    BY <2>1, <2>2
<1>7. QED
  BY <1>4, <1>5, <1>6 DEF Finish

LEMMA StepKeeps ==
    ASSUME RedactionInv, NEW p \in Workers, Step(p)
    PROVE  RedactionInv'
<1>1. ASSUME NEW corrupted \in BOOLEAN, PatternChecks(p, corrupted) PROVE RedactionInv'
  <2>1. AtLeaf(at[p])
    BY <1>1 DEF PatternChecks, AtLeaf
  <2>2. QED
    BY <1>1, <2>1, LeafType, PatternKeeps
<1>2. ASSUME NEW corrupted \in BOOLEAN, SpansReplaced(p, corrupted) PROVE RedactionInv'
  BY <1>2, SpansReplacedKeeps
<1>3. ASSUME NEW parses \in BOOLEAN, Start(p, parses) PROVE RedactionInv'
  BY <1>3, StartKeeps
<1>4. ASSUME NEW rep \in Optional(Findings), DetectorReturns(p, rep) PROVE RedactionInv'
  BY <1>4, DetectorReturnsKeeps
<1>5. QED
  BY <1>1, <1>2, <1>3, <1>4, TakeLeafKeeps, DetectorStartsKeeps, SpansFoundKeeps,
     ReplaceSpanKeeps, FinishKeeps DEF Step

LEMMA NextKeeps == RedactionInv /\ [Next]_vars => RedactionInv'
<1>1. SUFFICES ASSUME RedactionInv, [Next]_vars PROVE RedactionInv'
  OBVIOUS
<1>2. ASSUME NEW p \in Workers, Step(p) PROVE RedactionInv'
  BY <1>1, <1>2, StepKeeps
<1>3. ASSUME NEW p \in Workers, ContextEnds(p) PROVE RedactionInv'
  <2>1. UNCHANGED <<job, at, leaf, out, combined, seen, fault>>
    BY <1>3 DEF ContextEnds
  <2>2. QED
    BY <1>1, <2>1, StutterKeeps
<1>4. CASE UNCHANGED vars
  <2>1. UNCHANGED <<job, at, leaf, out, combined, seen, fault>>
    BY <1>4 DEF vars, workVars
  <2>2. QED
    BY <1>1, <2>1, StutterKeeps
<1>5. QED
  BY <1>1, <1>2, <1>3, <1>4 DEF Next, Finished

LEMMA InvAlways == Spec => []RedactionInv
BY InitKeeps, NextKeeps, PTL DEF Spec

(* The report of a slice or a document, and what a fault carries of it, is *)
(* composed of the reports of all leaves that were completed, for any      *)
(* number of leaves and workers and any reports of the detectors.          *)
THEOREM EvidenceAlwaysComposed == Spec => []EvidenceComposed
<1>1. RedactionInv => EvidenceComposed
  BY DEF RedactionInv, Kept, Returned, Answer, Composing, EvidenceComposed
<1>2. QED
  BY <1>1, InvAlways, PTL

(* A value that is stopped comes back as it was, in every carrier: no leaf *)
(* that was rewritten before the stop is left in it.  The one exception is *)
(* a fatal redaction called directly, which answers what it rewrote.       *)
THEOREM StoppedIsUntouched == Spec => []Untouched
<1>1. RedactionInv => Untouched
  BY DEF RedactionInv, Kept, Returned, Untouched
<1>2. QED
  BY <1>1, InvAlways, PTL

-----------------------------------------------------------------------------
(* The vault under concurrent calls.                                       *)

\* Every step of a call leaves the vault alone, or stores one original.
LEMMA VaultStep ==
    ASSUME RedactionInv, [Next]_vars
    PROVE  \/ UNCHANGED vaultVars
           \/ \E namespace \in Namespaces : \E original : Store(namespace, original)
<1>1. ASSUME NEW p \in Workers, ReplaceSpan(p)
      PROVE  \/ UNCHANGED vaultVars
             \/ \E namespace \in Namespaces : \E original : Store(namespace, original)
  <2>1. CASE StoreFails(p)
    BY <2>1 DEF StoreFails
  <2>2. CASE StoreSucceeds(p)
    <3>1. AtLeaf(at[p])
      BY <1>1 DEF ReplaceSpan, AtLeaf
    <3>2. Current(p).check.space \in Namespaces
      BY <3>1, LeafType DEF Leaf, Check
    <3>3. \/ UNCHANGED vaultVars
          \/ Store(Current(p).check.space, Covered(Current(p).text, Head(todo[p])))
      BY <2>2 DEF StoreSucceeds
    <3>4. QED
      BY <3>2, <3>3
  <2>3. QED
    BY <1>1, <2>1, <2>2 DEF ReplaceSpan
<1>2. ASSUME NEW p \in Workers, Step(p), ~ReplaceSpan(p) PROVE UNCHANGED vaultVars
  BY <1>2 DEF Step, Start, TakeLeaf, PatternChecks, SpansReplaced, DetectorStarts,
              DetectorReturns, SpansFound, Finish
<1>3. ASSUME NEW p \in Workers, ContextEnds(p) PROVE UNCHANGED vaultVars
  BY <1>3 DEF ContextEnds, vaultVars
<1>4. CASE UNCHANGED vars
  BY <1>4 DEF vars
<1>5. QED
  BY <1>1, <1>2, <1>3, <1>4 DEF Next, Finished

LEMMA IssuedAlways == Spec => []Issued
<1>1. RedactionInv /\ Issued /\ [Next]_vars => Issued'
  <2>1. SUFFICES ASSUME RedactionInv, Issued, [Next]_vars PROVE Issued'
    OBVIOUS
  <2>2. CASE UNCHANGED vaultVars
    BY <2>1, <2>2 DEF vaultVars, Issued
  <2>3. CASE \E namespace \in Namespaces : \E original : Store(namespace, original)
    BY <2>1, <2>3, IssuedStep
  <2>4. QED
    BY <2>1, <2>2, <2>3, VaultStep
<1>2. Init => Issued
  BY IssuedInit DEF Init
<1>3. QED
  BY <1>1, <1>2, InvAlways, PTL DEF Spec

(* Whatever the namespaces and texts, and however the calls interleave, a  *)
(* token is given to one original of one namespace and stands for it ever  *)
(* after.                                                                  *)
THEOREM VaultAlwaysKeepsPromise == Spec => KeepsVaultPromise
<1>1. Init => Promise!Init
  BY DEF Init, VaultInit, Promise!Init
<1>2. RedactionInv /\ Issued /\ [Next]_vars => [Promise!Next]_<<pairs, restores>>
  <2>1. SUFFICES ASSUME RedactionInv, Issued, [Next]_vars
                 PROVE  [Promise!Next]_<<pairs, restores>>
    OBVIOUS
  <2>2. CASE UNCHANGED vaultVars
    BY <2>2 DEF vaultVars
  <2>3. CASE \E namespace \in Namespaces : \E original : Store(namespace, original)
    BY <2>1, <2>3, StoreKeepsPromise
  <2>4. QED
    BY <2>1, <2>2, <2>3, VaultStep
<1>3. QED
  BY <1>1, <1>2, InvAlways, IssuedAlways, PTL DEF Spec, KeepsVaultPromise, Promise!Spec

-----------------------------------------------------------------------------
(* Texts, spelled symbol by symbol.                                        *)

\* The sequence that g makes of the elements of s.
Mapped(s, g) == [i \in DOMAIN s |-> g[s[i]]]

Spelled(s, g) == FlattenSeq(Mapped(s, g))

\* g makes an element of W of every element of S.
Spells(g, S, W) == \A x \in S : g[x] \in W

LEMMA SameElements ==
    ASSUME NEW W, NEW a \in Seq(W), NEW b \in Seq(W), Len(a) = Len(b),
           \A i \in 1..Len(a) : a[i] = b[i]
    PROVE  a = b
OBVIOUS

\* c is a, of length m, followed by b, of length n.
Joins(a, b, c, m, n) ==
    /\ Len(a) = m /\ Len(b) = n /\ Len(c) = m + n
    /\ \A i \in 1..m : c[i] = a[i]
    /\ \A i \in 1..n : c[m + i] = b[i]

LEMMA ConcatIs ==
    ASSUME NEW W, NEW a \in Seq(W), NEW b \in Seq(W), NEW c \in Seq(W),
           NEW m, NEW n, Joins(a, b, c, m, n)
    PROVE  c = a \o b
<1> DEFINE d == a \o b
<1>0. a \in Seq(W) /\ b \in Seq(W) /\ Len(a) = m /\ Len(b) = n
  BY DEF Joins
<1>1. Len(c) = m + n /\ (\A i \in 1..m : c[i] = a[i]) /\ \A i \in 1..n : c[m + i] = b[i]
  BY DEF Joins
<1>2. /\ d \in Seq(W) /\ Len(d) = m + n /\ \A i \in 1..m : d[i] = a[i]
      /\ \A i \in 1..n : d[m + i] = b[i]
  BY ONLY <1>0, SMTT(40)
<1> HIDE DEF d
<1>3. m \in Nat /\ n \in Nat
  BY <1>0
<1>4. ASSUME NEW i \in 1..(m + n) PROVE d[i] = c[i]
  <2>1. CASE i \in 1..m
    BY <1>1, <1>2, <2>1
  <2>2. CASE i \notin 1..m
    <3>1. PICK j \in 1..n : i = m + j
      <4>1. i - m \in 1..n /\ i = m + (i - m)
        BY <1>3, <1>4, <2>2
      <4>2. QED
        BY <4>1
    <3>2. d[m + j] = b[j] /\ c[m + j] = b[j]
      BY <1>1, <1>2, <3>1
    <3>3. QED
      BY <3>1, <3>2
  <2>3. QED
    BY <2>1, <2>2
<1>5. d = c
  BY <1>1, <1>2, <1>4, SameElements
<1>6. QED
  BY <1>5 DEF d

LEMMA MappedType ==
    ASSUME NEW S, NEW W, NEW g, Spells(g, S, W), NEW s \in Seq(S)
    PROVE  LET m == Mapped(s, g)
           IN  m \in Seq(W) /\ Len(m) = Len(s) /\ \A i \in 1..Len(s) : m[i] = g[s[i]]
<1>1. DOMAIN s = 1..Len(s) /\ Len(s) \in Nat /\ \A i \in 1..Len(s) : s[i] \in S
  OBVIOUS
<1>2. QED
  BY <1>1 DEF Spells, Mapped

LEMMA ConcatMapped ==
    ASSUME NEW S, NEW W, NEW g, Spells(g, S, W), NEW s \in Seq(S), NEW u \in Seq(S)
    PROVE  Mapped(s \o u, g) = Mapped(s, g) \o Mapped(u, g)
<1> DEFINE a == Mapped(s, g)
           b == Mapped(u, g)
           c == Mapped(s \o u, g)
<1>2. a \in Seq(W) /\ Len(a) = Len(s) /\ \A i \in 1..Len(s) : a[i] = g[s[i]]
  BY MappedType
<1>3. b \in Seq(W) /\ Len(b) = Len(u) /\ \A i \in 1..Len(u) : b[i] = g[u[i]]
  BY MappedType
<1>4. /\ s \o u \in Seq(S) /\ Len(s \o u) = Len(s) + Len(u)
      /\ \A i \in 1..Len(s) : (s \o u)[i] = s[i]
      /\ \A i \in 1..Len(u) : (s \o u)[Len(s) + i] = u[i]
  OBVIOUS
<1>5. /\ c \in Seq(W) /\ Len(c) = Len(s \o u)
      /\ \A i \in 1..Len(s \o u) : c[i] = g[(s \o u)[i]]
  <2> DEFINE q == s \o u
  <2>1. q \in Seq(S)
    BY <1>4
  <2> HIDE DEF q
  <2>2. LET d == Mapped(q, g)
        IN  d \in Seq(W) /\ Len(d) = Len(q) /\ \A i \in 1..Len(q) : d[i] = g[q[i]]
    BY <2>1, MappedType
  <2>3. QED
    BY <2>2 DEF q
<1> DEFINE m == Len(s)
           n == Len(u)
<1>6. m \in Nat /\ n \in Nat
  OBVIOUS
<1>7. ASSUME NEW i \in 1..m PROVE c[i] = a[i]
  <2>1. i \in 1..Len(s \o u) /\ (s \o u)[i] = s[i]
    BY <1>4, <1>6
  <2>2. c[i] = g[(s \o u)[i]] /\ a[i] = g[s[i]]
    BY <1>2, <1>5, <2>1
  <2>3. QED
    BY <2>1, <2>2
<1>8. ASSUME NEW i \in 1..n PROVE c[m + i] = b[i]
  <2>1. m + i \in 1..Len(s \o u) /\ (s \o u)[m + i] = u[i]
    BY <1>4, <1>6
  <2>2. c[m + i] = g[(s \o u)[m + i]] /\ b[i] = g[u[i]]
    BY <1>3, <1>5, <2>1
  <2>3. QED
    BY <2>1, <2>2
<1>9. c = a \o b
  <2>1. Len(a) = m /\ Len(b) = n /\ Len(c) = m + n
    BY <1>2, <1>3, <1>4, <1>5
  <2>2. a \in Seq(W) /\ b \in Seq(W) /\ c \in Seq(W)
    BY <1>2, <1>3, <1>5
  <2> HIDE DEF m, n, a, b, c
  <2>3. QED
    <3>1. Joins(a, b, c, m, n)
      BY <1>7, <1>8, <2>1 DEF Joins
    <3>2. QED
      BY <2>2, <3>1, ConcatIs
<1>10. QED
  BY <1>9 DEF a, b, c

LEMMA SpelledConcat ==
    ASSUME NEW S, NEW V, NEW g, Spells(g, S, Seq(V)), NEW s \in Seq(S), NEW u \in Seq(S)
    PROVE  /\ Spelled(s \o u, g) = Spelled(s, g) \o Spelled(u, g)
           /\ Spelled(s, g) \in Seq(V)
<1> DEFINE a == Mapped(s, g)
           b == Mapped(u, g)
           c == Mapped(s \o u, g)
           W == Seq(V)
<1>1. a \in Seq(W) /\ b \in Seq(W) /\ c = a \o b
  <2>1. Spells(g, S, W)
    OBVIOUS
  <2> HIDE DEF W
  <2>2. a \in Seq(W) /\ b \in Seq(W)
    BY <2>1, MappedType
  <2>3. c = a \o b
    BY <2>1, ConcatMapped
  <2>5. QED
    BY <2>2, <2>3
<1> HIDE DEF a, b, c
<1>2. FlattenSeq(a \o b) = FlattenSeq(a) \o FlattenSeq(b) /\ FlattenSeq(a) \in Seq(V)
  BY <1>1, FlattenConcat
<1>3. QED
  BY <1>1, <1>2 DEF Spelled, a, b, c

\* What g spells of two sequences is spelled of each.
Piecewise(g, S, V) ==
    \A s, u \in Seq(S) : /\ Spelled(s \o u, g) = Spelled(s, g) \o Spelled(u, g)
                         /\ Spelled(s, g) \in Seq(V)

LEMMA SpelledPiecewise ==
    ASSUME NEW S, NEW V, NEW g, Spells(g, S, Seq(V))
    PROVE  Piecewise(g, S, V)
BY SpelledConcat DEF Piecewise

LEMMA SpelledSingle ==
    ASSUME NEW S, NEW V, NEW g, Spells(g, S, Seq(V)), NEW x \in S
    PROVE  Spelled(<<x>>, g) = g[x]
<1> DEFINE s == <<x>>
           a == [i \in DOMAIN s |-> g[s[i]]]
<1>1. DOMAIN s = {1} /\ s[1] = x
  OBVIOUS
<1>2. a = [i \in {1} |-> g[x]]
  BY <1>1
<1>3. [i \in {1} |-> g[x]] = <<g[x]>>
  OBVIOUS
<1>4. FlattenSeq(<<g[x]>>) = g[x]
  BY FlattenSingle DEF Spells
<1>5. QED
  BY <1>2, <1>3, <1>4 DEF Spelled, Mapped

LEMMA SequenceOfHeadAndTail ==
    ASSUME NEW S, NEW s \in Seq(S), s # <<>>
    PROVE  /\ <<Head(s)>> \o Tail(s) = s /\ Head(s) \in S /\ Tail(s) \in Seq(S)
           /\ Len(Tail(s)) = Len(s) - 1 /\ Head(s) = s[1]
           /\ \A i \in 1..(Len(s) - 1) : Tail(s)[i] = s[i + 1]
OBVIOUS

(* What spells every element as itself changes nothing.                    *)
LEMMA SpelledAsIs ==
    ASSUME NEW S, NEW s \in Seq(S)
    PROVE  FlattenSeq([i \in DOMAIN s |-> <<s[i]>>]) = s
<1> DEFINE n == Len(s)
           T == {m \in 0..n : \A x \in Seq(S) : Len(x) = m =>
                    FlattenSeq([i \in DOMAIN x |-> <<x[i]>>]) = x}
<1>1. n \in Nat
  OBVIOUS
<1>2. 0 \in T
  <2>1. ASSUME NEW x \in Seq(S), Len(x) = 0
        PROVE  FlattenSeq([i \in DOMAIN x |-> <<x[i]>>]) = x
    <3>1. x = <<>> /\ [i \in DOMAIN x |-> <<x[i]>>] = <<>>
      BY <2>1
    <3>2. QED
      BY <3>1, FlattenEmpty
  <2>2. QED
    BY <1>1, <2>1
<1>3. ASSUME NEW m \in 0..(n - 1), m \in T PROVE m + 1 \in T
  <2>1. ASSUME NEW x \in Seq(S), Len(x) = m + 1
        PROVE  FlattenSeq([i \in DOMAIN x |-> <<x[i]>>]) = x
    <3> DEFINE t == Tail(x)
               a == [i \in DOMAIN x |-> <<x[i]>>]
               b == [i \in DOMAIN t |-> <<t[i]>>]
               one == [y \in S |-> <<y>>]
    <3>1. x # <<>> /\ m \in Nat
      BY <1>1, <2>1
    <3>2. /\ <<Head(x)>> \o t = x /\ Head(x) \in S /\ t \in Seq(S) /\ Head(x) = x[1]
          /\ Len(t) = (m + 1) - 1 /\ \A i \in 1..m : t[i] = x[i + 1]
      BY <2>1, <3>1, SequenceOfHeadAndTail
    <3>3. FlattenSeq(b) = t
      <4> HIDE DEF t
      <4>1. Len(t) = m
        BY <3>1, <3>2
      <4> HIDE DEF T
      <4>2. QED
        BY <1>3, <3>2, <4>1 DEF T
    <3>4. Spells(one, S, Seq(S))
      BY DEF Spells
    <3>5. Spelled(<<Head(x)>> \o t, one) = Spelled(<<Head(x)>>, one) \o Spelled(t, one)
      <4> DEFINE h == <<Head(x)>>
      <4>1. h \in Seq(S) /\ t \in Seq(S)
        BY <3>2
      <4> HIDE DEF one, t, h
      <4>2. Spelled(h \o t, one) = Spelled(h, one) \o Spelled(t, one)
        <5>1. Piecewise(one, S, S)
          BY <3>4, SpelledPiecewise
        <5>2. QED
          BY <4>1, <5>1 DEF Piecewise
      <4>3. QED
        BY <4>2 DEF h
    <3>6. Spelled(<<Head(x)>>, one) = <<Head(x)>>
      <4>1. Spelled(<<Head(x)>>, one) = one[Head(x)]
        <5> HIDE DEF one
        <5>1. QED
          BY <3>2, <3>4, SpelledSingle
      <4>2. QED
        BY <3>2, <4>1
    <3>7. Spelled(x, one) = FlattenSeq(a) /\ Spelled(t, one) = FlattenSeq(b)
      <4>1. \A i \in DOMAIN x : one[x[i]] = <<x[i]>>
        BY <2>1
      <4>2. \A i \in DOMAIN t : one[t[i]] = <<t[i]>>
        BY <3>2
      <4>3. [i \in DOMAIN x |-> one[x[i]]] = a /\ [i \in DOMAIN t |-> one[t[i]]] = b
        <5> HIDE DEF one, t
        <5>1. QED
          BY <4>1, <4>2
      <4>4. QED
        <5> HIDE DEF one, t, a, b
        <5>1. QED
          BY <4>3 DEF Spelled, Mapped
    <3> HIDE DEF a, b, t, one
    <3>8. FlattenSeq(a) = x
      BY <3>2, <3>3, <3>5, <3>6, <3>7
    <3>9. QED
      BY <3>8 DEF a
  <2>2. m + 1 \in 0..n
    BY <1>1
  <2>3. QED
    BY <2>1, <2>2
<1>4. n \in T
  <2> HIDE DEF T
  <2>1. \A m \in 0..n : m \in T
    BY <1>1, <1>2, <1>3, Climb
  <2>2. QED
    BY <1>1, <2>1
<1>5. QED
  BY <1>4

\* Letters, as what is spelled of a text.
Shown(S) == [x \in S |-> IF Letter(x) THEN <<x>> ELSE <<>>]

LEMMA LettersSpelled ==
    ASSUME NEW S, NEW s \in Seq(S)
    PROVE  Letters(s, {}) = Spelled(s, Shown(S)) /\ Spells(Shown(S), S, Seq(S))
<1>1. DOMAIN s = 1..Len(s) /\ \A i \in 1..Len(s) : s[i] \in S
  OBVIOUS
<1> DEFINE a == [i \in DOMAIN s |-> IF Letter(s[i]) /\ i \notin {} THEN <<s[i]>> ELSE <<>>]
           b == [i \in DOMAIN s |-> Shown(S)[s[i]]]
<1>2. \A i \in DOMAIN s : Shown(S)[s[i]] = IF Letter(s[i]) /\ i \notin {} THEN <<s[i]>> ELSE <<>>
  BY <1>1 DEF Shown
<1>3. a = b
  BY <1>2
<1> HIDE DEF a, b
<1>4. Letters(s, {}) = Spelled(s, Shown(S))
  BY <1>3 DEF Letters, Spelled, Mapped, a, b
<1>5. ASSUME NEW x \in S PROVE Shown(S)[x] \in Seq(S)
  <2>1. <<x>> \in Seq(S) /\ <<>> \in Seq(S)
    OBVIOUS
  <2>2. QED
    BY <2>1 DEF Shown
<1>6. QED
  BY <1>4, <1>5 DEF Spells

LEMMA LettersJoin ==
    ASSUME NEW S, NEW s \in Seq(S), NEW u \in Seq(S)
    PROVE  /\ Letters(s \o u, {}) = Letters(s, {}) \o Letters(u, {})
           /\ Letters(s, {}) \in Seq(S)
<1> DEFINE g == Shown(S)
           v == s \o u
<1>1. v \in Seq(S)
  OBVIOUS
<1>2. Letters(s, {}) = Spelled(s, g) /\ Letters(u, {}) = Spelled(u, g) /\ Spells(g, S, Seq(S))
  BY LettersSpelled
<1>3. Letters(v, {}) = Spelled(v, g)
  <2> HIDE DEF v
  <2>1. QED
    BY <1>1, LettersSpelled
<1> HIDE DEF g
<1>4. Piecewise(g, S, S)
  BY <1>2, SpelledPiecewise
<1>5. Spelled(v, g) = Spelled(s, g) \o Spelled(u, g) /\ Spelled(s, g) \in Seq(S)
  BY <1>4 DEF Piecewise
<1>6. QED
  BY <1>2, <1>3, <1>5

\* What is no letter leaves no letter.
LEMMA LettersOfMark ==
    ASSUME NEW x, ~Letter(x)
    PROVE  Letters(<<x>>, {}) = <<>>
<1> DEFINE S == {x}
<1>1. x \in S /\ <<x>> \in Seq(S)
  OBVIOUS
<1>2. Shown(S)[x] = <<>>
  BY <1>1 DEF Shown
<1>3. Letters(<<x>>, {}) = Spelled(<<x>>, Shown(S)) /\ Spells(Shown(S), S, Seq(S))
  BY <1>1, LettersSpelled
<1> HIDE DEF S
<1>4. Spelled(<<x>>, Shown(S)) = Shown(S)[x]
  BY <1>1, <1>3, SpelledSingle
<1>5. QED
  BY <1>2, <1>3, <1>4

-----------------------------------------------------------------------------
(* What tokens stand for.                                                  *)

\* rs gives texts of clients to tokens.
Meanings(rs) == DOMAIN rs \subseteq Token /\ \A t \in DOMAIN rs : rs[t] \in Seq(Symbol)

Visible(rs) == Symbol \cup DOMAIN rs

Meaning(rs) == [x \in Visible(rs) |-> IF x \in DOMAIN rs THEN rs[x] ELSE <<x>>]

Unredacted(s, rs) == Spelled(s, Meaning(rs))

LEMMA UnredactTextIs ==
    ASSUME NEW s, DOMAIN s = 1..Len(s), \A i \in 1..Len(s) : s[i] \in Visible(restores)
    PROVE  UnredactText(s) = Unredacted(s, restores)
<1> DEFINE a == [i \in DOMAIN s |-> LET original == Restore(s[i])
                                   IN  IF original = <<>> THEN <<s[i]>> ELSE original[1]]
           b == [i \in DOMAIN s |-> Meaning(restores)[s[i]]]
<1>1. ASSUME NEW x
      PROVE  (LET original == Restore(x) IN IF original = <<>> THEN <<x>> ELSE original[1]) =
                IF x \in DOMAIN restores THEN restores[x] ELSE <<x>>
  <2>1. CASE x \in DOMAIN restores
    <3> DEFINE r == restores[x]
    <3>1. Restore(x) = <<r>>
      BY <2>1 DEF Restore
    <3> HIDE DEF r
    <3>2. <<r>> # <<>> /\ <<r>>[1] = r
      OBVIOUS
    <3>3. QED
      BY <2>1, <3>1, <3>2 DEF r
  <2>2. CASE x \notin DOMAIN restores
    BY <2>2 DEF Restore
  <2>3. QED
    BY <2>1, <2>2
<1>2. \A i \in DOMAIN s : Meaning(restores)[s[i]] =
         IF s[i] \in DOMAIN restores THEN restores[s[i]] ELSE <<s[i]>>
  BY DEF Meaning
<1>3. a = b
  BY <1>1, <1>2
<1> HIDE DEF a, b
<1>4. QED
  BY <1>3 DEF UnredactText, Unredacted, Spelled, Mapped, a, b

LEMMA SymbolsApart ==
    ASSUME NEW rs, Meanings(rs), NEW x \in Symbol
    PROVE  x \notin DOMAIN rs
<1>1. x[1] \in {"letter", "mark"}
  BY DEF Symbol
<1>2. x \in Token => x[1] \in Spaces
  BY DEF Token
<1>3. QED
  BY <1>1, <1>2, SymbolsAssumption DEF Meanings

LEMMA TokensNoLetters ==
    ASSUME NEW x \in Token
    PROVE  ~Letter(x)
<1>1. x[1] \in Spaces
  BY DEF Token
<1>2. QED
  BY <1>1, SymbolsAssumption DEF Letter

LEMMA MeaningSpells ==
    ASSUME NEW rs, Meanings(rs)
    PROVE  Spells(Meaning(rs), Visible(rs), Seq(Symbol))
<1>1. ASSUME NEW x \in Visible(rs) PROVE Meaning(rs)[x] \in Seq(Symbol)
  <2>1. CASE x \in DOMAIN rs
    BY <2>1 DEF Meaning, Meanings
  <2>2. CASE x \notin DOMAIN rs
    <3>1. x \in Symbol /\ Meaning(rs)[x] = <<x>>
      BY <2>2 DEF Meaning, Visible
    <3>2. <<x>> \in Seq(Symbol)
      <4> DEFINE S == Symbol
      <4>1. x \in S
        BY <3>1
      <4> HIDE DEF S
      <4>2. <<x>> \in Seq(S)
        BY <4>1
      <4>3. QED
        BY <4>2 DEF S
    <3>3. QED
      BY <3>1, <3>2
  <2>3. QED
    BY <2>1, <2>2
<1>2. QED
  BY <1>1 DEF Spells

LEMMA UnredactJoin ==
    ASSUME NEW rs, Meanings(rs), NEW s \in Seq(Visible(rs)), NEW u \in Seq(Visible(rs))
    PROVE  /\ Unredacted(s \o u, rs) = Unredacted(s, rs) \o Unredacted(u, rs)
           /\ Unredacted(s, rs) \in Seq(Symbol)
<1>1. Piecewise(Meaning(rs), Visible(rs), Symbol)
  BY MeaningSpells, SpelledPiecewise
<1>2. QED
  BY <1>1 DEF Piecewise, Unredacted

LEMMA UnredactToken ==
    ASSUME NEW rs, Meanings(rs), NEW t \in DOMAIN rs
    PROVE  Unredacted(<<t>>, rs) = rs[t]
<1>1. t \in Visible(rs) /\ Meaning(rs)[t] = rs[t]
  BY DEF Visible, Meaning
<1>2. Spelled(<<t>>, Meaning(rs)) = Meaning(rs)[t]
  BY <1>1, MeaningSpells, SpelledSingle
<1>3. QED
  BY <1>1, <1>2 DEF Unredacted

\* A client's text restores to itself.
LEMMA UnredactPlain ==
    ASSUME NEW rs, Meanings(rs), NEW s \in Seq(Symbol)
    PROVE  Unredacted(s, rs) = s
<1>1. DOMAIN s = 1..Len(s) /\ \A i \in 1..Len(s) : s[i] \in Symbol
  OBVIOUS
<1>2. ASSUME NEW i \in DOMAIN s PROVE Meaning(rs)[s[i]] = <<s[i]>>
  <2>1. s[i] \in Symbol
    BY <1>1
  <2> DEFINE x == s[i]
  <2> HIDE DEF x
  <2>2. x \in Symbol
    BY <2>1 DEF x
  <2>3. x \notin DOMAIN rs
    BY <2>2, SymbolsApart
  <2>4. Meaning(rs)[x] = <<x>>
    BY <2>2, <2>3 DEF Meaning, Visible
  <2>5. QED
    BY <2>4 DEF x
<1> DEFINE a == [i \in DOMAIN s |-> <<s[i]>>]
           b == [i \in DOMAIN s |-> Meaning(rs)[s[i]]]
<1>3. a = b
  BY <1>2
<1>4. FlattenSeq(a) = s
  BY SpelledAsIs
<1> HIDE DEF a, b
<1>5. QED
  BY <1>3, <1>4 DEF Unredacted, Spelled, Mapped, b

\* Texts written with tokens that are known keep their meaning.
LEMMA UnredactLater ==
    ASSUME NEW rs, NEW more, Meanings(rs), Meanings(more), DOMAIN rs \subseteq DOMAIN more,
           \A t \in DOMAIN rs : more[t] = rs[t], NEW s \in Seq(Visible(rs))
    PROVE  s \in Seq(Visible(more)) /\ Unredacted(s, more) = Unredacted(s, rs)
<1>1. DOMAIN s = 1..Len(s) /\ (\A i \in 1..Len(s) : s[i] \in Visible(rs)) /\ Len(s) \in Nat
      /\ s = [i \in 1..Len(s) |-> s[i]]
  OBVIOUS
<1>2. ASSUME NEW x \in Visible(rs)
      PROVE  x \in Visible(more) /\ Meaning(more)[x] = Meaning(rs)[x]
  <2>1. CASE x \in DOMAIN rs
    BY <2>1 DEF Visible, Meaning
  <2>2. CASE x \notin DOMAIN rs
    <3>1. x \in Symbol
      BY <2>2 DEF Visible
    <3>2. x \notin DOMAIN more
      BY <3>1, SymbolsApart
    <3>3. QED
      BY <2>2, <3>1, <3>2 DEF Visible, Meaning
  <2>3. QED
    BY <2>1, <2>2
<1>3. s \in Seq(Visible(more))
  <2>1. Visible(rs) \subseteq Visible(more)
    BY <1>2
  <2> DEFINE V == Visible(rs)
             W == Visible(more)
  <2>2. V \subseteq W /\ s \in Seq(V)
    BY <2>1
  <2> HIDE DEF V, W
  <2>3. s \in Seq(W)
    BY <2>2
  <2>4. QED
    BY <2>3 DEF W
<1> DEFINE a == [i \in DOMAIN s |-> Meaning(more)[s[i]]]
           b == [i \in DOMAIN s |-> Meaning(rs)[s[i]]]
<1>4. \A i \in DOMAIN s : Meaning(more)[s[i]] = Meaning(rs)[s[i]]
  BY <1>1, <1>2
<1>5. a = b
  BY <1>4
<1> HIDE DEF a, b
<1>6. QED
  BY <1>3, <1>5 DEF Unredacted, Spelled, Mapped, a, b

-----------------------------------------------------------------------------
(* The letters that were not found, stretch by stretch.                    *)

\* The positions after a, up to b.
Run(a, b) == [i \in 1..(b - a) |-> a + i]

Unfound(t, hidden) ==
    [x \in 1..Len(t) |-> IF Letter(t[x]) /\ x \notin hidden THEN <<t[x]>> ELSE <<>>]

LEMMA RunType ==
    ASSUME NEW n \in Nat, NEW b \in 0..n, NEW a \in 0..b
    PROVE  /\ Run(a, b) \in Seq(1..n) /\ Len(Run(a, b)) = b - a
           /\ \A i \in 1..(b - a) : Run(a, b)[i] = a + i
<1>1. b - a \in Nat /\ \A i \in 1..(b - a) : a + i \in 1..n
  OBVIOUS
<1> DEFINE m == b - a
<1> HIDE DEF m
<1>2. Run(a, b) = [i \in 1..m |-> a + i]
  BY DEF Run, m
<1>3. m \in Nat /\ \A i \in 1..m : a + i \in 1..n
  BY <1>1 DEF m
<1>4. [i \in 1..m |-> a + i] \in Seq(1..n) /\ Len([i \in 1..m |-> a + i]) = m
  BY <1>3
<1>5. QED
  BY <1>2, <1>4 DEF m

LEMMA RunJoin ==
    ASSUME NEW n \in Nat, NEW c \in 0..n, NEW b \in 0..c, NEW a \in 0..b
    PROVE  Run(a, c) = Run(a, b) \o Run(b, c)
<1> DEFINE x == Run(a, b)
           y == Run(b, c)
           z == Run(a, c)
           k == b - a
           l == c - b
<1>1. x \in Seq(1..n) /\ Len(x) = k /\ \A i \in 1..k : x[i] = a + i
  BY RunType
<1>2. y \in Seq(1..n) /\ Len(y) = l /\ \A i \in 1..l : y[i] = b + i
  BY RunType
<1>3. z \in Seq(1..n) /\ Len(z) = c - a /\ \A i \in 1..(c - a) : z[i] = a + i
  BY RunType
<1>4. /\ c - a = k + l
      /\ \A i \in 1..k : i \in 1..(c - a)
      /\ \A i \in 1..l : k + i \in 1..(c - a) /\ a + (k + i) = b + i
  OBVIOUS
<1> HIDE DEF x, y, z, k, l
<1>5. Len(z) = k + l
  BY <1>3, <1>4
<1>6. \A i \in 1..k : z[i] = x[i]
  BY <1>1, <1>3, <1>4
<1>7. \A i \in 1..l : z[k + i] = y[i]
  BY <1>2, <1>3, <1>4
<1> DEFINE W == 1..n
<1>8. x \in Seq(W) /\ y \in Seq(W) /\ z \in Seq(W) /\ Len(x) = k /\ Len(y) = l
  BY <1>1, <1>2, <1>3
<1> HIDE DEF W
<1>9. z = x \o y
  <2>1. Joins(x, y, z, k, l)
    BY <1>5, <1>6, <1>7, <1>8 DEF Joins
  <2>2. QED
    BY <1>8, <2>1, ConcatIs
<1>10. QED
  BY <1>9 DEF x, y, z

LEMMA UnfoundSpells ==
    ASSUME NEW S, NEW t \in Seq(S), NEW hidden
    PROVE  Spells(Unfound(t, hidden), 1..Len(t), Seq(S))
<1>1. ASSUME NEW x \in 1..Len(t) PROVE Unfound(t, hidden)[x] \in Seq(S)
  <2>1. t[x] \in S
    OBVIOUS
  <2> DEFINE y == t[x]
  <2>2. Unfound(t, hidden)[x] = <<>> \/ Unfound(t, hidden)[x] = <<y>>
    BY DEF Unfound
  <2>3. y \in S
    BY <2>1
  <2> HIDE DEF y
  <2>4. <<y>> \in Seq(S) /\ <<>> \in Seq(S)
    BY <2>3
  <2>5. QED
    BY <2>2, <2>4
<1>2. QED
  BY <1>1 DEF Spells

LEMMA UnfoundJoin ==
    ASSUME NEW S, NEW t \in Seq(S), NEW hidden, NEW c \in 0..Len(t), NEW b \in 0..c,
           NEW a \in 0..b
    PROVE  /\ Spelled(Run(a, c), Unfound(t, hidden)) =
                 Spelled(Run(a, b), Unfound(t, hidden)) \o Spelled(Run(b, c), Unfound(t, hidden))
           /\ Spelled(Run(a, b), Unfound(t, hidden)) \in Seq(S)
<1> DEFINE n == Len(t)
           g == Unfound(t, hidden)
<1>1. n \in Nat /\ c \in 0..n /\ b \in 0..n /\ a \in 0..c
  OBVIOUS
<1>2. Run(a, b) \in Seq(1..n) /\ Run(b, c) \in Seq(1..n)
  BY <1>1, RunType
<1>3. Run(a, c) = Run(a, b) \o Run(b, c)
  BY <1>1, RunJoin
<1>4. Piecewise(g, 1..n, S)
  BY UnfoundSpells, SpelledPiecewise
<1> HIDE DEF g, n
<1>5. QED
  BY <1>2, <1>3, <1>4 DEF Piecewise, g

\* A stretch that was found holds no such letter.
LEMMA UnfoundCovered ==
    ASSUME NEW S, NEW t \in Seq(S), NEW hidden, NEW b \in 0..Len(t), NEW a \in 0..b,
           (a + 1)..b \subseteq hidden
    PROVE  Spelled(Run(a, b), Unfound(t, hidden)) = <<>>
<1> DEFINE n == Len(t)
           r == Run(a, b)
           g == Unfound(t, hidden)
           e == [i \in DOMAIN r |-> g[r[i]]]
<1>1. n \in Nat /\ b \in 0..n /\ b - a \in Nat
  OBVIOUS
<1>2. r \in Seq(1..n) /\ Len(r) = b - a /\ \A i \in 1..(b - a) : r[i] = a + i
  BY <1>1, RunType
<1>3. ASSUME NEW i \in 1..(b - a) PROVE g[r[i]] = <<>>
  <2>1. r[i] = a + i /\ a + i \in (a + 1)..b /\ a + i \in 1..n
    BY <1>1, <1>2
  <2>2. a + i \in hidden
    BY <2>1
  <2>3. g[a + i] = <<>>
    BY <2>1, <2>2 DEF Unfound
  <2>4. QED
    BY <2>1, <2>3
<1>4. DOMAIN r = 1..(b - a)
  BY <1>2
<1>5. e \in Seq({<<>>})
  <2> DEFINE m == b - a
  <2>1. DOMAIN r = 1..m /\ m \in Nat /\ \A i \in 1..m : g[r[i]] = <<>>
    BY <1>1, <1>3, <1>4
  <2> HIDE DEF m, r, g
  <2>2. QED
    BY <2>1
<1> HIDE DEF e
<1>6. FlattenSeq(e) = <<>>
  BY <1>5, FlattenNothing
<1>7. QED
  BY <1>6 DEF Spelled, Mapped, e

\* In a stretch where nothing was found they are all the letters.
LEMMA UnfoundClear ==
    ASSUME NEW S, NEW t \in Seq(S), NEW hidden, NEW b \in 0..Len(t), NEW a \in 0..b,
           \A x \in (a + 1)..b : x \notin hidden
    PROVE  Spelled(Run(a, b), Unfound(t, hidden)) = Letters(SubSeq(t, a + 1, b), {})
<1> DEFINE n == Len(t)
           m == b - a
           r == Run(a, b)
           g == Unfound(t, hidden)
           s == SubSeq(t, a + 1, b)
           e == [i \in DOMAIN r |-> g[r[i]]]
           f == [i \in DOMAIN s |-> IF Letter(s[i]) /\ i \notin {} THEN <<s[i]>> ELSE <<>>]
<1>1. n \in Nat /\ b \in 0..n /\ m \in Nat /\ \A i \in 1..m : a + i \in (a + 1)..b /\ a + i \in 1..n
  OBVIOUS
<1>2. DOMAIN r = 1..m /\ \A i \in 1..m : r[i] = a + i
  BY <1>1, RunType DEF Run
<1>3. DOMAIN s = 1..m /\ \A i \in 1..m : s[i] = t[a + i]
  <2>1. \A i \in 1..m : (a + 1) + i - 1 = a + i
    BY <1>1
  <2>2. (IF a + 1 <= b THEN b - (a + 1) + 1 ELSE 0) = m
    BY <1>1
  <2>3. QED
    BY <1>1, <2>1, <2>2
<1>4. ASSUME NEW i \in 1..m
      PROVE  g[r[i]] = IF Letter(s[i]) /\ i \notin {} THEN <<s[i]>> ELSE <<>>
  <2>1. r[i] = a + i /\ s[i] = t[a + i] /\ a + i \in 1..n /\ a + i \notin hidden
    BY <1>1, <1>2, <1>3
  <2>2. g[a + i] = IF Letter(t[a + i]) THEN <<t[a + i]>> ELSE <<>>
    BY <2>1 DEF Unfound
  <2>3. QED
    BY <2>1, <2>2
<1>5. e = f
  <2> HIDE DEF m, r, s, g
  <2>1. QED
    BY <1>2, <1>3, <1>4
<1> HIDE DEF e, f
<1>6. QED
  BY <1>5 DEF Spelled, Mapped, Letters, e, f

LEMMA LettersUpTo ==
    ASSUME NEW S, NEW t \in Seq(S), NEW hidden, NEW c \in 0..Len(t)
    PROVE  Letters(SubSeq(t, 1, c), hidden) = Spelled(Run(0, c), Unfound(t, hidden))
<1> DEFINE n == Len(t)
           r == Run(0, c)
           g == Unfound(t, hidden)
           s == SubSeq(t, 1, c)
           e == [i \in DOMAIN r |-> g[r[i]]]
           f == [i \in DOMAIN s |-> IF Letter(s[i]) /\ i \notin hidden THEN <<s[i]>> ELSE <<>>]
<1>1. n \in Nat /\ c \in 0..n /\ c \in Nat /\ \A i \in 1..c : 0 + i = i /\ i \in 1..n
  OBVIOUS
<1>2. DOMAIN r = 1..c /\ \A i \in 1..c : r[i] = i
  <2>1. c - 0 = c
    BY <1>1
  <2>2. QED
    BY <1>1, <2>1 DEF Run
<1>3. DOMAIN s = 1..c /\ \A i \in 1..c : s[i] = t[i]
  BY <1>1
<1>4. ASSUME NEW i \in 1..c
      PROVE  g[r[i]] = IF Letter(s[i]) /\ i \notin hidden THEN <<s[i]>> ELSE <<>>
  BY <1>1, <1>2, <1>3 DEF Unfound
<1>5. e = f
  <2> HIDE DEF r, s, g
  <2>1. QED
    BY <1>2, <1>3, <1>4
<1> HIDE DEF e, f
<1>6. QED
  BY <1>5 DEF Spelled, Mapped, Letters, e, f

\* The letters up to c, when what was found after a ends at b.
LEMMA LettersFurther ==
    ASSUME NEW S, NEW t \in Seq(S), NEW hidden, NEW c \in 0..Len(t), NEW b \in 0..c,
           NEW a \in 0..b, (a + 1)..b \subseteq hidden, \A x \in (b + 1)..c : x \notin hidden
    PROVE  Letters(SubSeq(t, 1, c), hidden) =
              Letters(SubSeq(t, 1, a), hidden) \o Letters(SubSeq(t, b + 1, c), {})
<1> DEFINE g == Unfound(t, hidden)
           x == Spelled(Run(0, a), g)
           y == Spelled(Run(a, b), g)
           z == Spelled(Run(b, c), g)
<1>1. Len(t) \in Nat /\ a \in 0..Len(t) /\ b \in 0..Len(t) /\ a \in 0..c /\ 0 \in 0..a /\ 0 \in 0..b
  OBVIOUS
<1>2. Letters(SubSeq(t, 1, c), hidden) = Spelled(Run(0, c), g)
  BY LettersUpTo
<1>3. Letters(SubSeq(t, 1, a), hidden) = x
  BY <1>1, LettersUpTo
<1>4. y = <<>>
  BY <1>1, UnfoundCovered
<1>5. z = Letters(SubSeq(t, b + 1, c), {})
  BY <1>1, UnfoundClear
<1>6. Spelled(Run(0, c), g) = Spelled(Run(0, b), g) \o z
  BY <1>1, UnfoundJoin, ZenonT(60)
<1>7. Spelled(Run(0, b), g) = x \o y /\ x \in Seq(S)
  BY <1>1, UnfoundJoin
<1> HIDE DEF g, x, y, z
<1>8. x \o <<>> = x
  BY <1>7
<1>9. QED
  BY <1>2, <1>3, <1>4, <1>5, <1>6, <1>7, <1>8

-----------------------------------------------------------------------------
(* A text that is being rewritten.                                         *)

NextStart(t, spans) == IF spans = <<>> THEN Len(t) ELSE Head(spans)[1]

\* Spans within a text that do not overlap, from left to right.
Apart(t, spans) ==
    /\ spans \in Seq(Nat \X Nat)
    /\ \A i \in 1..Len(spans) : spans[i][1] <= spans[i][2] /\ spans[i][2] <= Len(t)
    /\ \A i, j \in 1..Len(spans) : i < j => spans[i][2] <= spans[j][1]

Within(spans, x) == \E i \in 1..Len(spans) : x \in (spans[i][1] + 1)..spans[i][2]

\* What is still to be replaced of what was found, from the first of the spans on.
Ahead(found, spans) ==
    /\ Apart(found.text, spans)
    /\ \A x \in (NextStart(found.text, spans) + 1)..Len(found.text) :
          x \in Positions(found.spans) <=> Within(spans, x)

(* s is the text up to n, rewritten; rs gives the meanings of tokens.      *)
Rewritten(found, s, n, rs) ==
    /\ s \in Seq(Visible(rs))
    /\ Letters(s, {}) = Letters(SubSeq(found.text, 1, n), Positions(found.spans))
    /\ found.check.kind = "spans" /\ found.check.vault # "none" =>
          Unredacted(s, rs) = SubSeq(found.text, 1, n)

LEMMA NextStartType ==
    ASSUME NEW t \in Seq(Symbol), NEW spans, Apart(t, spans)
    PROVE  NextStart(t, spans) \in 0..Len(t)
<1>1. CASE spans = <<>>
  BY <1>1 DEF NextStart
<1>2. CASE spans # <<>>
  <2>1. spans \in Seq(Nat \X Nat) /\ 1 \in 1..Len(spans) /\ Head(spans) = spans[1]
    BY <1>2 DEF Apart
  <2>2. spans[1] \in Nat \X Nat /\ spans[1][1] <= spans[1][2] /\ spans[1][2] <= Len(t)
    BY <2>1 DEF Apart
  <2>3. Len(t) \in Nat
    OBVIOUS
  <2>4. QED
    BY <1>2, <2>1, <2>2, <2>3 DEF NextStart
<1>3. QED
  BY <1>1, <1>2

LEMMA ApartTail ==
    ASSUME NEW t \in Seq(Symbol), NEW spans, Apart(t, spans), spans # <<>>
    PROVE  LET rest == Tail(spans)
               h    == Head(spans)
           IN  /\ Apart(t, rest) /\ h \in Nat \X Nat
               /\ h[2] \in 0..Len(t) /\ h[1] \in 0..h[2]
               /\ NextStart(t, rest) \in h[2]..Len(t)
               /\ \A x \in Nat : Within(spans, x) <=> (x \in (h[1] + 1)..h[2] \/ Within(rest, x))
               /\ \A i \in 1..Len(rest) : NextStart(t, rest) <= rest[i][1]
<1> DEFINE rest == Tail(spans)
           h == Head(spans)
           n == Len(spans)
<1>1. /\ spans \in Seq(Nat \X Nat) /\ n \in Nat \ {0} /\ h = spans[1]
      /\ rest \in Seq(Nat \X Nat) /\ Len(rest) = n - 1
      /\ \A i \in 1..(n - 1) : rest[i] = spans[i + 1]
  <2>1. spans \in Seq(Nat \X Nat)
    BY DEF Apart
  <2>2. QED
    BY <2>1, HeadTailProperties
<1>2. /\ \A i \in 1..n : spans[i] \in Nat \X Nat
      /\ \A i \in 1..n : spans[i][1] <= spans[i][2] /\ spans[i][2] <= Len(t)
      /\ \A i, j \in 1..n : i < j => spans[i][2] <= spans[j][1]
  BY <1>1 DEF Apart
<1>3. Len(t) \in Nat
  OBVIOUS
<1> HIDE DEF rest, h, n
<1>4. \A i \in 1..(n - 1) : i + 1 \in 1..n /\ i \in 1..n
  BY <1>1
<1>5. Apart(t, rest)
  <2>1. ASSUME NEW i \in 1..(n - 1) PROVE rest[i][1] <= rest[i][2] /\ rest[i][2] <= Len(t)
    BY <1>1, <1>2, <1>4
  <2>2. ASSUME NEW i \in 1..(n - 1), NEW j \in 1..(n - 1), i < j
        PROVE  rest[i][2] <= rest[j][1]
    <3>1. i + 1 \in 1..n /\ j + 1 \in 1..n /\ i + 1 < j + 1
      BY <1>1, <2>2
    <3>2. spans[i + 1][2] <= spans[j + 1][1]
      BY <1>2, <3>1
    <3>3. QED
      BY <1>1, <3>2
  <2>3. QED
    BY <1>1, <2>1, <2>2 DEF Apart
<1>6. h \in Nat \X Nat /\ h[2] \in 0..Len(t) /\ h[1] \in 0..h[2]
  <2>1. 1 \in 1..n
    BY <1>1
  <2>2. spans[1] \in Nat \X Nat /\ spans[1][1] <= spans[1][2] /\ spans[1][2] <= Len(t)
    BY <1>2, <2>1
  <2>3. QED
    BY <1>1, <1>3, <2>2
<1>7. ASSUME NEW i \in 1..(n - 1)
      PROVE  h[2] <= rest[i][1] /\ NextStart(t, rest) <= rest[i][1]
             /\ NextStart(t, rest) = rest[1][1]
  <2>1. 1 \in 1..n /\ i + 1 \in 1..n /\ 1 < i + 1 /\ 1 \in 1..(n - 1)
    BY <1>1
  <2>2. spans[1][2] <= spans[i + 1][1]
    BY <1>2, <2>1
  <2>3. rest # <<>> /\ Head(rest) = rest[1] /\ rest[1] \in Nat \X Nat
        /\ rest[i] \in Nat \X Nat
    BY <1>1, <2>1, SMTT(40)
  <2>4. NextStart(t, rest) = rest[1][1]
    BY <2>3 DEF NextStart
  <2>5. CASE i = 1
    BY <1>1, <2>2, <2>3, <2>4, <2>5, SMTT(40)
  <2>6. CASE i # 1
    <3>1. 1 < i /\ i \in 1..Len(rest) /\ 1 \in 1..Len(rest)
      BY <1>1, <2>1, <2>6
    <3>2. rest[1][1] <= rest[1][2] /\ rest[1][2] <= rest[i][1]
      BY <1>5, <3>1 DEF Apart
    <3>3. h[2] <= rest[i][1]
      BY <1>1, <2>2
    <3>4. rest[1][1] \in Nat /\ rest[1][2] \in Nat /\ rest[i][1] \in Nat
      BY <2>3
    <3> DEFINE r1 == rest[1][1]
               r2 == rest[1][2]
               ri == rest[i][1]
    <3> HIDE DEF r1, r2, ri
    <3>5. r1 <= ri
      BY <3>2, <3>4 DEF r1, r2, ri
    <3>6. QED
      BY <2>4, <3>3, <3>5 DEF r1, ri
  <2>7. QED
    BY <2>5, <2>6
<1>8. NextStart(t, rest) \in h[2]..Len(t)
  <2>1. NextStart(t, rest) \in 0..Len(t)
    BY <1>5, NextStartType
  <2>2. CASE rest = <<>>
    BY <1>3, <1>6, <2>2 DEF NextStart
  <2>3. CASE rest # <<>>
    <3>1. 1 \in 1..(n - 1)
      BY <1>1, <2>3
    <3>2. h[2] <= NextStart(t, rest)
      BY <1>7, <3>1
    <3>3. QED
      BY <1>3, <1>6, <2>1, <3>2
  <2>4. QED
    BY <2>2, <2>3
<1>9. ASSUME NEW x \in Nat
      PROVE  Within(spans, x) <=> (x \in (h[1] + 1)..h[2] \/ Within(rest, x))
  <2>1. ASSUME Within(spans, x) PROVE x \in (h[1] + 1)..h[2] \/ Within(rest, x)
    <3>1. PICK i \in 1..n : x \in (spans[i][1] + 1)..spans[i][2]
      BY <2>1 DEF Within, n
    <3>2. CASE i = 1
      BY <1>1, <3>1, <3>2
    <3>3. CASE i # 1
      <4> DEFINE j == i - 1
      <4>1. j \in 1..(n - 1) /\ j + 1 = i
        BY <1>1, <3>3
      <4> HIDE DEF j
      <4>2. rest[j] = spans[i]
        BY <1>1, <4>1
      <4>3. QED
        BY <1>1, <3>1, <4>1, <4>2 DEF Within
    <3>4. QED
      BY <3>2, <3>3
  <2>2. ASSUME x \in (h[1] + 1)..h[2] PROVE Within(spans, x)
    <3>1. 1 \in 1..Len(spans)
      BY <1>1 DEF n
    <3>2. QED
      BY <1>1, <2>2, <3>1 DEF Within
  <2>3. ASSUME Within(rest, x) PROVE Within(spans, x)
    <3>1. PICK i \in 1..(n - 1) : x \in (rest[i][1] + 1)..rest[i][2]
      BY <1>1, <2>3 DEF Within
    <3>2. i + 1 \in 1..n /\ rest[i] = spans[i + 1]
      BY <1>1, <1>4
    <3>3. QED
      BY <3>1, <3>2 DEF Within, n
  <2>4. QED
    BY <2>1, <2>2, <2>3
<1>10. QED
  BY <1>1, <1>5, <1>6, <1>7, <1>8, <1>9 DEF rest, h

\* The next span is replaced.
LEMMA AheadTail ==
    ASSUME NEW found, found.text \in Seq(Symbol), NEW spans, Ahead(found, spans),
           spans # <<>>
    PROVE  LET rest == Tail(spans)
               h    == Head(spans)
               c    == NextStart(found.text, rest)
           IN  /\ h[2] \in 0..Len(found.text) /\ h[1] \in 0..h[2]
               /\ c \in h[2]..Len(found.text)
               /\ Ahead(found, rest)
               /\ (h[1] + 1)..h[2] \subseteq Positions(found.spans)
               /\ \A x \in (h[2] + 1)..c : x \notin Positions(found.spans)
<1> DEFINE t == found.text
           rest == Tail(spans)
           h == Head(spans)
           c == NextStart(t, rest)
           P == Positions(found.spans)
<1>1. Apart(t, spans)
  BY DEF Ahead
<1>2. NextStart(t, spans) = h[1]
  BY DEF NextStart
<1>3. \A x \in (h[1] + 1)..Len(t) : x \in P <=> Within(spans, x)
  BY <1>2 DEF Ahead
<1>4. Len(t) \in Nat
  OBVIOUS
<1> HIDE DEF P
<1>5. /\ Apart(t, rest) /\ h \in Nat \X Nat
      /\ h[2] \in 0..Len(t) /\ h[1] \in 0..h[2] /\ c \in h[2]..Len(t)
      /\ \A x \in Nat : Within(spans, x) <=> (x \in (h[1] + 1)..h[2] \/ Within(rest, x))
      /\ \A i \in 1..Len(rest) : c <= rest[i][1]
  BY <1>1, ApartTail
<1> HIDE DEF t, rest, h, c
<1>6. (h[1] + 1)..h[2] \subseteq P
  <2>1. ASSUME NEW x \in (h[1] + 1)..h[2] PROVE x \in P
    <3>1. x \in Nat /\ x \in (h[1] + 1)..Len(t)
      BY <1>4, <1>5
    <3>2. QED
      BY <1>3, <1>5, <3>1
  <2>2. QED
    BY <2>1
<1>7. ASSUME NEW x \in (h[2] + 1)..c PROVE x \notin P
  <2>1. x \in Nat /\ x \in (h[1] + 1)..Len(t) /\ x \notin (h[1] + 1)..h[2] /\ x <= c
    BY <1>4, <1>5
  <2>2. ~Within(rest, x)
    <3>1. SUFFICES ASSUME NEW i \in 1..Len(rest), x \in (rest[i][1] + 1)..rest[i][2] PROVE FALSE
      BY DEF Within
    <3>2. c <= rest[i][1] /\ rest[i] \in Nat \X Nat
      BY <1>5, SMTT(30) DEF Apart
    <3>3. QED
      BY <1>4, <1>5, <2>1, <3>1, <3>2
  <2>3. QED
    BY <1>3, <1>5, <2>1, <2>2
<1>8. ASSUME NEW x \in (c + 1)..Len(t) PROVE x \in P <=> Within(rest, x)
  <2>1. x \in Nat /\ x \in (h[1] + 1)..Len(t) /\ x \notin (h[1] + 1)..h[2]
    BY <1>4, <1>5
  <2>2. QED
    BY <1>3, <1>5, <2>1
<1>9. Ahead(found, rest)
  BY <1>5, <1>8 DEF Ahead, c, t, P
<1>10. QED
  BY <1>5, <1>6, <1>7, <1>9 DEF c, h, rest, t, P

LEMMA SubSeqParts ==
    ASSUME NEW S, NEW t \in Seq(S), NEW c \in 0..Len(t), NEW b \in 0..c, NEW a \in 0..b
    PROVE  /\ SubSeq(t, a + 1, b) \in Seq(S)
           /\ SubSeq(t, a + 1, c) = SubSeq(t, a + 1, b) \o SubSeq(t, b + 1, c)
<1> DEFINE k == b - a
           l == c - b
           x == SubSeq(t, a + 1, b)
           y == SubSeq(t, b + 1, c)
           z == SubSeq(t, a + 1, c)
<1>1. ASSUME NEW p \in 0..Len(t), NEW q \in p..Len(t)
      PROVE  /\ SubSeq(t, p + 1, q) \in Seq(S) /\ Len(SubSeq(t, p + 1, q)) = q - p
             /\ \A i \in 1..(q - p) : SubSeq(t, p + 1, q)[i] = t[p + i]
  <2>1. Len(t) \in Nat /\ (\A i \in 1..(q - p) : p + 1 + i - 1 = p + i)
        /\ q - (p + 1) + 1 = q - p
    OBVIOUS
  <2>2. QED
    BY <2>1
<1>2. /\ a \in 0..Len(t) /\ b \in 0..Len(t) /\ c \in 0..Len(t) /\ b \in a..Len(t)
      /\ c \in b..Len(t) /\ c \in a..Len(t) /\ Len(t) \in Nat
      /\ c - a = k + l /\ \A i \in 1..l : a + (k + i) = b + i /\ k + i \in 1..(c - a)
  OBVIOUS
<1>3. x \in Seq(S) /\ Len(x) = k /\ \A i \in 1..k : x[i] = t[a + i]
  BY <1>1, <1>2
<1>4. y \in Seq(S) /\ Len(y) = l /\ \A i \in 1..l : y[i] = t[b + i]
  BY <1>1, <1>2
<1>5. z \in Seq(S) /\ Len(z) = c - a /\ \A i \in 1..(c - a) : z[i] = t[a + i]
  BY <1>1, <1>2
<1>6. \A i \in 1..k : i \in 1..(c - a)
  OBVIOUS
<1> HIDE DEF k, l, x, y, z
<1>7. Len(x) = k /\ Len(y) = l /\ Len(z) = k + l
  BY <1>2, <1>3, <1>4, <1>5
<1>8. \A i \in 1..k : z[i] = x[i]
  BY <1>3, <1>5, <1>6
<1>9. \A i \in 1..l : z[k + i] = y[i]
  BY <1>2, <1>4, <1>5
<1>10. x \in Seq(S) /\ y \in Seq(S) /\ z \in Seq(S)
  BY <1>3, <1>4, <1>5
<1>11. z = x \o y
  <2>1. Joins(x, y, z, k, l)
    BY <1>7, <1>8, <1>9 DEF Joins
  <2>2. QED
    BY <1>10, <2>1, ConcatIs
<1>12. QED
  BY <1>10, <1>11 DEF x, y, z

(* A text with the replacement of the next span, and what follows it.      *)
LEMMA RewriteFurther ==
    ASSUME NEW rs, Meanings(rs), NEW found, found.text \in Seq(Symbol),
           NEW spans, Ahead(found, spans), spans # <<>>,
           NEW s, Rewritten(found, s, Head(spans)[1], rs),
           NEW x \in Visible(rs), ~Letter(x),
           found.check.kind = "spans" /\ found.check.vault # "none" =>
              x \in DOMAIN rs /\ rs[x] = Covered(found.text, Head(spans))
    PROVE  LET rest == Tail(spans)
           IN  Rewritten(found, (s \o <<x>>) \o Between(found.text, Head(spans)[2], rest),
                         NextStart(found.text, rest), rs)
<1> DEFINE t == found.text
           rest == Tail(spans)
           a == Head(spans)[1]
           b == Head(spans)[2]
           c == NextStart(t, rest)
           P == Positions(found.spans)
           V == Visible(rs)
           one == <<x>>
           more == SubSeq(t, b + 1, c)
           all == (s \o one) \o more
<1>1. /\ b \in 0..Len(t) /\ a \in 0..b /\ c \in b..Len(t)
      /\ (a + 1)..b \subseteq P /\ \A y \in (b + 1)..c : y \notin P
  BY AheadTail
<1>2. Between(t, b, rest) = more
  BY DEF Between, NextStart
<1>3. /\ s \in Seq(V) /\ Letters(s, {}) = Letters(SubSeq(t, 1, a), P)
      /\ found.check.kind = "spans" /\ found.check.vault # "none" =>
           Unredacted(s, rs) = SubSeq(t, 1, a)
  BY DEF Rewritten
<1>4. t \in Seq(Symbol) /\ Len(t) \in Nat
  OBVIOUS
<1>5. c \in 0..Len(t) /\ b \in 0..c /\ b \in Nat /\ c \in Nat /\ a \in Nat /\ a \in 0..c
      /\ 0 \in 0..a /\ 0 \in 0..b /\ 0 + 1 = 1
  BY <1>1, <1>4
<1>6. Covered(t, Head(spans)) = SubSeq(t, a + 1, b)
  BY DEF Covered
<1>7. one \in Seq(V)
  <2> HIDE DEF V
  <2>1. <<x>> \in Seq(V)
    BY DEF V
  <2>2. QED
    BY <2>1
<1> HIDE DEF t, rest, a, b, c, P, one
<1>8. more \in Seq(Symbol)
  BY <1>4, <1>5, SubSeqParts
<1> HIDE DEF more
<1>9. more \in Seq(V)
  <2>1. Symbol \subseteq V
    BY DEF Visible
  <2> DEFINE W == Symbol
  <2>2. more \in Seq(W) /\ W \subseteq V
    BY <1>8, <2>1
  <2> HIDE DEF V, W
  <2>3. QED
    BY <2>2
<1>10. s \o one \in Seq(V) /\ all \in Seq(V)
  <2> HIDE DEF V
  <2>1. QED
    BY <1>3, <1>7, <1>9
<1>11. Letters(all, {}) = Letters(SubSeq(t, 1, c), P)
  <2> DEFINE so == s \o one
  <2>1. Letters(so, {}) = Letters(s, {}) \o Letters(one, {}) /\ Letters(s, {}) \in Seq(V)
    BY <1>3, <1>7, LettersJoin
  <2>2. Letters(one, {}) = <<>>
    BY LettersOfMark DEF one
  <2>3. Letters(s, {}) \o <<>> = Letters(s, {})
    <3> HIDE DEF V
    <3>1. QED
      BY <2>1
  <2>4. Letters(so \o more, {}) = Letters(so, {}) \o Letters(more, {})
    <3>1. so \in Seq(V)
      BY <1>10
    <3> HIDE DEF so
    <3>2. QED
      BY <1>9, <3>1, LettersJoin
  <2>5. Letters(SubSeq(t, 1, c), P) = Letters(SubSeq(t, 1, a), P) \o Letters(more, {})
    <3>1. c \in 0..Len(t) /\ b \in 0..c /\ a \in 0..b
      BY <1>1, <1>5
    <3>2. (a + 1)..b \subseteq P
      BY <1>1
    <3>3. \A y \in (b + 1)..c : y \notin P
      BY <1>1
    <3>4. Letters(SubSeq(t, 1, c), P) =
             Letters(SubSeq(t, 1, a), P) \o Letters(SubSeq(t, b + 1, c), {})
      BY <1>4, <3>1, <3>2, <3>3, LettersFurther, ZenonT(90)
    <3>5. QED
      BY <3>4 DEF more
  <2>6. QED
    BY <1>3, <2>1, <2>2, <2>3, <2>4, <2>5
<1>12. ASSUME found.check.kind = "spans" /\ found.check.vault # "none"
       PROVE  Unredacted(all, rs) = SubSeq(t, 1, c)
  <2> DEFINE so == s \o one
             u == SubSeq(t, 1, a)
             v == SubSeq(t, a + 1, b)
  <2>1. x \in DOMAIN rs /\ rs[x] = v
    BY <1>6, <1>12 DEF t
  <2>2. Unredacted(one, rs) = v
    BY <2>1, UnredactToken DEF one
  <2>3. Unredacted(so, rs) = u \o v
    <3>1. Unredacted(so, rs) = Unredacted(s, rs) \o Unredacted(one, rs)
      BY <1>3, <1>7, UnredactJoin
    <3>2. QED
      BY <1>3, <1>12, <2>2, <3>1
  <2>4. Unredacted(more, rs) = more
    BY <1>8, UnredactPlain
  <2>5. Unredacted(so \o more, rs) = Unredacted(so, rs) \o Unredacted(more, rs)
    <3>1. so \in Seq(V)
      BY <1>10
    <3> HIDE DEF so
    <3>2. QED
      BY <1>9, <3>1, UnredactJoin
  <2>6. SubSeq(t, 1, b) = u \o v
    BY <1>1, <1>4, <1>5, SubSeqParts
  <2>7. SubSeq(t, 1, c) = SubSeq(t, 1, b) \o more
    BY <1>4, <1>5, SubSeqParts DEF more
  <2>8. QED
    BY <2>3, <2>4, <2>5, <2>6, <2>7
<1> HIDE DEF all
<1>13. Rewritten(found, all, c, rs)
  BY <1>10, <1>11, <1>12 DEF Rewritten, t, P
<1>14. QED
  BY <1>2, <1>13 DEF all, one, t, b, c, rest

(* What precedes the first span is kept as it is.                          *)
LEMMA RewriteStart ==
    ASSUME NEW rs, Meanings(rs), NEW found, found.text \in Seq(Symbol),
           NEW spans, Apart(found.text, spans),
           \A x \in 1..NextStart(found.text, spans) : x \notin Positions(found.spans)
    PROVE  Rewritten(found, Between(found.text, 0, spans), NextStart(found.text, spans), rs)
<1> DEFINE t == found.text
           c == NextStart(t, spans)
           P == Positions(found.spans)
           s == SubSeq(t, 1, c)
<1>1. c \in 0..Len(t) /\ Len(t) \in Nat
  BY NextStartType
<1>2. c \in 0..Len(t) /\ 0 \in 0..c /\ 0 + 1 = 1 /\ 0 \in 0..0
  BY <1>1
<1>3. Between(t, 0, spans) = s
  <2>1. Between(t, 0, spans) = SubSeq(t, 0 + 1, c)
    BY DEF Between, NextStart
  <2>2. QED
    BY <1>2, <2>1
<1>4. \A x \in 1..c : x \notin P
  OBVIOUS
<1> HIDE DEF c, P
<1>5. s \in Seq(Symbol)
  <2>1. SubSeq(t, 0 + 1, c) \in Seq(Symbol)
    BY <1>2, SubSeqParts
  <2>2. QED
    BY <1>2, <2>1
<1>6. Letters(s, P) = Letters(s, {})
  <2> DEFINE e == [i \in DOMAIN s |-> IF Letter(s[i]) /\ i \notin P THEN <<s[i]>> ELSE <<>>]
             f == [i \in DOMAIN s |-> IF Letter(s[i]) /\ i \notin {} THEN <<s[i]>> ELSE <<>>]
  <2>1. \A i \in DOMAIN s : i \notin P
    <3>1. DOMAIN s = 1..c
      BY <1>1
    <3>2. QED
      BY <1>4, <3>1
  <2>2. e = f
    <3> HIDE DEF s
    <3>1. QED
      BY <2>1
  <2> HIDE DEF e, f
  <2>3. QED
    BY <2>2 DEF Letters, e, f
<1>7. Unredacted(s, rs) = s
  <2> HIDE DEF s
  <2>1. QED
    BY <1>5, UnredactPlain
<1>8. s \in Seq(Visible(rs))
  <2> DEFINE V == Visible(rs)
             W == Symbol
  <2>1. s \in Seq(W) /\ W \subseteq V
    BY <1>5 DEF Visible
  <2> HIDE DEF s, V, W
  <2>2. s \in Seq(V)
    BY <2>1
  <2>3. QED
    BY <2>2 DEF V
<1>9. QED
  BY <1>3, <1>6, <1>7, <1>8 DEF Rewritten, P, c

-----------------------------------------------------------------------------
(* Spans in order.                                                         *)

\* Spans that were found in a text.
Inside(spans, t) ==
    /\ spans \subseteq Nat \X Nat
    /\ \A span \in spans : span[1] <= span[2] /\ span[2] <= Len(t)

\* The spans that come before one.
Below(spans, x) == {s \in spans : Before(s, x)}

LEMMA BeforeOrders ==
    ASSUME NEW a \in Nat \X Nat, NEW b \in Nat \X Nat, NEW c \in Nat \X Nat
    PROVE  /\ ~Before(a, a) /\ (a # b => Before(a, b) \/ Before(b, a))
           /\ Before(a, b) /\ Before(b, c) => Before(a, c)
           /\ Before(a, b) => a[1] <= b[1]
<1> DEFINE a1 == a[1]
           a2 == a[2]
           b1 == b[1]
           b2 == b[2]
           c1 == c[1]
           c2 == c[2]
<1>1. /\ a1 \in Nat /\ a2 \in Nat /\ b1 \in Nat /\ b2 \in Nat /\ c1 \in Nat /\ c2 \in Nat
      /\ a = <<a1, a2>> /\ b = <<b1, b2>>
  OBVIOUS
<1>2. /\ Before(a, b) <=> a1 < b1 \/ (a1 = b1 /\ a2 > b2)
      /\ Before(b, a) <=> b1 < a1 \/ (b1 = a1 /\ b2 > a2)
      /\ Before(b, c) <=> b1 < c1 \/ (b1 = c1 /\ b2 > c2)
      /\ Before(a, c) <=> a1 < c1 \/ (a1 = c1 /\ a2 > c2)
      /\ Before(a, a) <=> a1 < a1 \/ (a1 = a1 /\ a2 > a2)
  BY DEF Before
<1>3. a # b => a1 # b1 \/ a2 # b2
  BY <1>1
<1> HIDE DEF a1, a2, b1, b2, c1, c2
<1>4. QED
  BY <1>1, <1>2, <1>3 DEF a1, b1

LEMMA InsideFinite ==
    ASSUME NEW t \in Seq(Symbol), NEW spans, Inside(spans, t)
    PROVE  IsFiniteSet(spans)
<1> DEFINE L == Len(t)
           box == (0..L) \X (0..L)
<1>1. L \in Nat
  OBVIOUS
<1>2. spans \in SUBSET box
  <2>1. ASSUME NEW s \in spans PROVE s \in box
    <3>1. s \in Nat \X Nat /\ s[1] <= s[2] /\ s[2] <= L
      BY DEF Inside
    <3>2. s[1] \in 0..L /\ s[2] \in 0..L /\ s = <<s[1], s[2]>>
      BY <1>1, <3>1
    <3>3. QED
      BY <3>2
  <2>2. QED
    BY <2>1
<1>3. IsFiniteSet(0..L)
  BY <1>1, FS_Interval
<1>4. IsFiniteSet(box)
  BY <1>3, FS_Product
<1> HIDE DEF box
<1>5. QED
  BY <1>2, <1>4, FS_Subset

\* Of two spans, the one that comes first has fewer before it.
LEMMA FewerBelow ==
    ASSUME NEW spans \in SUBSET (Nat \X Nat), IsFiniteSet(spans),
           NEW a \in spans, NEW b \in spans
    PROVE  /\ Cardinality(Below(spans, a)) \in 0..(Cardinality(spans) - 1)
           /\ Before(a, b) <=> Cardinality(Below(spans, a)) < Cardinality(Below(spans, b))
<1> DEFINE n == Cardinality(spans)
<1>1. n \in Nat
  BY FS_CardinalityType
<1>2. ASSUME NEW x \in spans
      PROVE  /\ Below(spans, x) \in SUBSET spans /\ x \notin Below(spans, x)
             /\ IsFiniteSet(Below(spans, x)) /\ Cardinality(Below(spans, x)) \in Nat
             /\ Cardinality(Below(spans, x)) < n
  <2>1. Below(spans, x) \in SUBSET spans /\ x \notin Below(spans, x)
    BY BeforeOrders DEF Below
  <2>2. /\ IsFiniteSet(Below(spans, x)) /\ Cardinality(Below(spans, x)) <= n
        /\ (n = Cardinality(Below(spans, x)) => spans = Below(spans, x))
    BY <2>1, FS_Subset
  <2>3. Cardinality(Below(spans, x)) \in Nat
    BY <2>2, FS_CardinalityType
  <2>4. QED
    BY <1>1, <2>1, <2>2, <2>3
<1>3. ASSUME NEW x \in spans, NEW y \in spans, Before(x, y)
      PROVE  Cardinality(Below(spans, x)) < Cardinality(Below(spans, y))
  <2>1. Below(spans, x) \in SUBSET Below(spans, y)
    BY <1>3, BeforeOrders DEF Below
  <2>2. x \in Below(spans, y) /\ x \notin Below(spans, x)
    BY <1>2, <1>3 DEF Below
  <2>3. /\ Cardinality(Below(spans, x)) <= Cardinality(Below(spans, y))
        /\ Cardinality(Below(spans, x)) # Cardinality(Below(spans, y))
    BY <1>2, <2>1, <2>2, FS_Subset
  <2>4. QED
    BY <1>2, <2>3
<1>4. ASSUME Cardinality(Below(spans, a)) < Cardinality(Below(spans, b)) PROVE Before(a, b)
  <2>1. a # b
    BY <1>2, <1>4
  <2>2. ~Before(b, a)
    BY <1>2, <1>3, <1>4
  <2>3. QED
    BY <2>1, <2>2, BeforeOrders
<1>5. QED
  BY <1>1, <1>2, <1>3, <1>4

\* InOrder lists every span once, by start.
LEMMA InOrderLists ==
    ASSUME NEW spans \in SUBSET (Nat \X Nat), IsFiniteSet(spans)
    PROVE  LET sorted == InOrder(spans)
               n      == Cardinality(spans)
           IN  /\ n \in Nat /\ sorted \in Seq(spans) /\ Len(sorted) = n
               /\ \A x \in spans : \E i \in 1..n : sorted[i] = x
               /\ \A i, j \in 1..n : i < j => sorted[i][1] <= sorted[j][1]
<1> DEFINE n == Cardinality(spans)
           sorted == InOrder(spans)
           rank == [x \in spans |-> Cardinality(Below(spans, x)) + 1]
<1>1. n \in Nat
  BY FS_CardinalityType
<1>2. ASSUME NEW x \in spans
      PROVE  rank[x] \in 1..n /\ rank[x] = Cardinality(Below(spans, x)) + 1
  <2>1. Cardinality(Below(spans, x)) \in 0..(n - 1)
    BY FewerBelow
  <2>2. QED
    BY <1>1, <2>1
<1>3. ASSUME NEW x \in spans, NEW y \in spans
      PROVE  Before(x, y) <=> rank[x] < rank[y]
  <2>1. /\ Cardinality(Below(spans, x)) \in 0..(n - 1) /\ Cardinality(Below(spans, y)) \in 0..(n - 1)
        /\ Before(x, y) <=> Cardinality(Below(spans, x)) < Cardinality(Below(spans, y))
    BY FewerBelow
  <2>2. QED
    BY <1>1, <1>2, <2>1
<1>4. ASSUME NEW x \in spans, NEW y \in spans, rank[x] = rank[y]
      PROVE  x = y
  <2>1. ~Before(x, y) /\ ~Before(y, x)
    BY <1>2, <1>3, <1>4
  <2>2. x \in Nat \X Nat /\ y \in Nat \X Nat
    OBVIOUS
  <2>3. QED
    BY <2>1, <2>2, BeforeOrders
<1> HIDE DEF rank
<1>5. rank \in Injection(spans, 1..n)
  <2>1. rank \in [spans -> 1..n]
    BY <1>2 DEF rank
  <2>2. QED
    BY <1>4, <2>1 DEF Injection, IsInjective
<1>6. IsFiniteSet(1..n) /\ Cardinality(1..n) = n
  BY <1>1, FS_Interval
<1>7. rank \in Surjection(spans, 1..n)
  BY <1>5, <1>6, FS_Injection
<1>8. ASSUME NEW i \in 1..n PROVE \E x \in spans : rank[x] = i
  BY <1>7 DEF Surjection
<1>9. ASSUME NEW i \in 1..n
      PROVE  sorted[i] \in spans /\ rank[sorted[i]] = i
  <2> DEFINE R(x) == Cardinality({s \in spans : Before(s, x)}) = i - 1
  <2>1. PICK x \in spans : rank[x] = i
    BY <1>8
  <2>2. ASSUME NEW y \in spans PROVE R(y) <=> rank[y] = i
    <3>1. Cardinality(Below(spans, y)) \in 0..(n - 1) /\ rank[y] = Cardinality(Below(spans, y)) + 1
      BY <1>2, FewerBelow
    <3>2. R(y) <=> Cardinality(Below(spans, y)) = i - 1
      BY DEF Below
    <3>3. QED
      BY <1>1, <3>1, <3>2
  <2>3. sorted[i] = CHOOSE y \in spans : R(y)
    BY DEF InOrder
  <2> HIDE DEF R, sorted
  <2>4. \E y \in spans : R(y)
    BY <2>1, <2>2
  <2>5. sorted[i] \in spans /\ R(sorted[i])
    BY <2>3, <2>4
  <2>6. QED
    BY <2>2, <2>5
<1>10. sorted \in Seq(spans) /\ Len(sorted) = n
  <2>1. sorted = [i \in 1..n |-> sorted[i]]
    BY DEF InOrder
  <2>2. QED
    BY <1>1, <1>9, <2>1
<1> HIDE DEF sorted, n
<1>11. ASSUME NEW x \in spans PROVE \E i \in 1..n : sorted[i] = x
  <2>1. rank[x] \in 1..n
    BY <1>2
  <2>2. sorted[rank[x]] = x
    BY <1>4, <1>9, <2>1
  <2>3. QED
    BY <2>1, <2>2
<1>12. ASSUME NEW i \in 1..n, NEW j \in 1..n, i < j
       PROVE  sorted[i][1] <= sorted[j][1]
  <2>1. Before(sorted[i], sorted[j])
    BY <1>3, <1>9, <1>12
  <2>2. sorted[i] \in Nat \X Nat /\ sorted[j] \in Nat \X Nat
    BY <1>9
  <2>3. QED
    BY <2>1, <2>2, BeforeOrders
<1>13. QED
  BY <1>1, <1>10, <1>11, <1>12 DEF n, sorted

-----------------------------------------------------------------------------
(* Merging.                                                                *)

\* f is the recursive function MergeSpans reads its result from.
Merges(f, s, n) ==
    f = [i \in 0..n |-> IF i = 0 THEN <<>> ELSE Merged(f[i - 1], s[i])]

LEMMA MergesExist ==
    ASSUME NEW s, NEW n \in Nat
    PROVE  \E f : Merges(f, s, n)
<1> DEFINE T == {m \in 0..n : \E f : Merges(f, s, m)}
<1>1. 0 \in T
  <2> DEFINE z == [i \in 0..0 |-> <<>>]
  <2>1. \A i \in 0..0 : i = 0
    OBVIOUS
  <2>2. z = [i \in 0..0 |-> IF i = 0 THEN <<>> ELSE Merged(z[i - 1], s[i])]
    BY <2>1
  <2> HIDE DEF z
  <2>3. Merges(z, s, 0)
    BY <2>2 DEF Merges
  <2>4. QED
    BY <2>3
<1>2. ASSUME NEW m \in 0..(n - 1), m \in T PROVE m + 1 \in T
  <2>1. PICK f : Merges(f, s, m)
    BY <1>2
  <2> DEFINE k == m + 1
             g == [i \in 0..k |-> IF i = k THEN Merged(f[m], s[k]) ELSE f[i]]
  <2>2. k \in 0..n /\ k # 0 /\ k - 1 = m /\ m \in 0..k /\ m # k
    OBVIOUS
  <2>3. ASSUME NEW i \in 0..k
        PROVE  g[i] = IF i = 0 THEN <<>> ELSE Merged(g[i - 1], s[i])
    <3>1. g[i] = IF i = k THEN Merged(f[m], s[k]) ELSE f[i]
      OBVIOUS
    <3>2. CASE i = k
      <4>1. g[m] = f[m]
        BY <2>2
      <4>2. QED
        BY <2>2, <3>1, <3>2, <4>1
    <3>3. CASE i # k
      <4>1. i \in 0..m
        BY <2>2, <3>3
      <4>2. f[i] = IF i = 0 THEN <<>> ELSE Merged(f[i - 1], s[i])
        BY <2>1, <4>1 DEF Merges
      <4>3. i # 0 => i - 1 \in 0..k /\ i - 1 # k
        BY <2>2, <4>1
      <4>4. i # 0 => g[i - 1] = f[i - 1]
        BY <4>3
      <4>5. QED
        BY <3>1, <3>3, <4>2, <4>4
    <3>4. QED
      BY <3>2, <3>3
  <2>4. g = [i \in 0..k |-> g[i]]
    OBVIOUS
  <2> HIDE DEF g
  <2>5. Merges(g, s, k)
    BY <2>3, <2>4 DEF Merges
  <2>6. QED
    BY <2>2, <2>5
<1>3. \A m \in 0..n : m \in T
  <2> HIDE DEF T
  <2>1. QED
    BY <1>1, <1>2, Climb
<1>4. QED
  BY <1>3

\* One more span is merged.
LEMMA MergeFurther ==
    ASSUME NEW t \in Seq(Symbol), NEW merged, Apart(t, merged),
           NEW span \in Nat \X Nat, span[1] <= span[2], span[2] <= Len(t),
           merged # <<>> => merged[Len(merged)][1] <= span[1]
    PROVE  LET more == Merged(merged, span)
           IN  /\ Apart(t, more) /\ more # <<>>
               /\ \A x \in Nat :
                     Within(more, x) <=> (Within(merged, x) \/ x \in (span[1] + 1)..span[2])
               /\ \/ more[Len(more)][1] = span[1]
                  \/ merged # <<>> /\ more[Len(more)][1] = merged[Len(merged)][1]
<1> DEFINE n == Len(merged)
           L == Len(t)
           more == Merged(merged, span)
           last == merged[n]
           new == <<last[1], IF span[2] > last[2] THEN span[2] ELSE last[2]>>
<1>1. /\ merged \in Seq(Nat \X Nat) /\ n \in Nat /\ L \in Nat
      /\ \A i \in 1..n : merged[i] \in Nat \X Nat
  BY DEF Apart
<1>2. /\ \A i \in 1..n : merged[i][1] <= merged[i][2] /\ merged[i][2] <= L
      /\ \A i, j \in 1..n : i < j => merged[i][2] <= merged[j][1]
  BY DEF Apart
<1>3. CASE merged # <<>> /\ span[1] < last[2]
  <2>1. n \in 1..n /\ last \in Nat \X Nat /\ last[1] <= last[2] /\ last[2] <= L
        /\ last[1] \in Nat /\ last[2] \in Nat /\ span[1] \in Nat /\ span[2] \in Nat
    <3>1. n \in 1..n
      BY <1>1, <1>3
    <3>2. QED
      BY <1>1, <1>2, <3>1
  <2>2. /\ new \in Nat \X Nat /\ new[1] = last[1] /\ new[1] <= new[2] /\ new[2] <= L
        /\ \A x \in Nat : x \in (new[1] + 1)..new[2] <=>
              (x \in (last[1] + 1)..last[2] \/ x \in (span[1] + 1)..span[2])
    <3> DEFINE l1 == last[1]
               l2 == last[2]
               s1 == span[1]
               s2 == span[2]
    <3>1. /\ l1 \in Nat /\ l2 \in Nat /\ s1 \in Nat /\ s2 \in Nat /\ l1 <= l2 /\ l1 <= s1
          /\ s1 < l2 /\ s1 <= s2 /\ l2 <= L /\ s2 <= L
      BY <1>3, <2>1
    <3>2. new = <<l1, IF s2 > l2 THEN s2 ELSE l2>>
      OBVIOUS
    <3> HIDE DEF l1, l2, s1, s2, new
    <3>3. new[1] = l1 /\ new[2] = IF s2 > l2 THEN s2 ELSE l2
      BY <3>2
    <3>4. new \in Nat \X Nat
      BY <3>1, <3>2
    <3>5. QED
      BY <1>1, <3>1, <3>3, <3>4, SMTT(30) DEF l1, l2, s1, s2
  <2>3. more = [merged EXCEPT ![n] = new]
    BY <1>3 DEF Merged
  <2> HIDE DEF new, last
  <2>4. /\ more \in Seq(Nat \X Nat) /\ Len(more) = n /\ more[n] = new
        /\ \A i \in 1..n : i # n => more[i] = merged[i]
    BY <1>1, <2>1, <2>2, <2>3
  <2> HIDE DEF more, n
  <2>5. last = merged[n]
    BY DEF last
  <2>6. ASSUME NEW i \in 1..n PROVE more[i][1] <= more[i][2] /\ more[i][2] <= L
    <3>1. CASE i = n
      BY <2>2, <2>4, <3>1
    <3>2. CASE i # n
      BY <1>2, <2>4, <3>2
    <3>3. QED
      BY <3>1, <3>2
  <2>7. ASSUME NEW i \in 1..n, NEW j \in 1..n, i < j PROVE more[i][2] <= more[j][1]
    <3>1. i # n /\ merged[i][2] <= merged[j][1]
      BY <1>1, <1>2, <2>7
    <3>2. more[j][1] = merged[j][1]
      BY <2>2, <2>4, <2>5
    <3>3. QED
      BY <2>4, <3>1, <3>2
  <2>8. Apart(t, more)
    BY <2>4, <2>6, <2>7 DEF Apart
  <2>9. ASSUME NEW x \in Nat
        PROVE  Within(more, x) <=> (Within(merged, x) \/ x \in (span[1] + 1)..span[2])
    <3>1. ASSUME Within(more, x) PROVE Within(merged, x) \/ x \in (span[1] + 1)..span[2]
      <4>1. PICK i \in 1..n : x \in (more[i][1] + 1)..more[i][2]
        BY <2>4, <3>1 DEF Within
      <4>2. CASE i = n
        BY <2>1, <2>2, <2>4, <2>5, <4>1, <4>2 DEF Within, n
      <4>3. CASE i # n
        BY <2>4, <4>1, <4>3 DEF Within, n
      <4>4. QED
        BY <4>2, <4>3
    <3>2. ASSUME Within(merged, x) PROVE Within(more, x)
      <4>1. PICK i \in 1..n : x \in (merged[i][1] + 1)..merged[i][2]
        BY <3>2 DEF Within, n
      <4>2. CASE i = n
        BY <2>2, <2>4, <2>5, <4>1, <4>2 DEF Within
      <4>3. CASE i # n
        BY <2>4, <4>1, <4>3 DEF Within
      <4>4. QED
        BY <4>2, <4>3
    <3>3. ASSUME x \in (span[1] + 1)..span[2] PROVE Within(more, x)
      BY <2>1, <2>2, <2>4, <3>3 DEF Within
    <3>4. QED
      BY <3>1, <3>2, <3>3
  <2>10. more # <<>> /\ more[Len(more)][1] = merged[Len(merged)][1]
    BY <2>1, <2>2, <2>4, <2>5 DEF n
  <2>11. QED
    BY <1>3, <2>8, <2>9, <2>10 DEF more
<1>4. CASE ~(merged # <<>> /\ span[1] < last[2])
  <2>1. more = Append(merged, span)
    BY <1>4 DEF Merged
  <2>2. /\ more \in Seq(Nat \X Nat) /\ Len(more) = n + 1 /\ more[n + 1] = span
        /\ \A i \in 1..n : more[i] = merged[i]
    BY <1>1, <2>1
  <2> HIDE DEF more
  <2>3. ASSUME NEW i \in 1..n PROVE merged[i][2] <= span[1]
    <3>1. n \in 1..n /\ last \in Nat \X Nat /\ last[1] <= last[2] /\ last[2] <= span[1]
          /\ merged[i] \in Nat \X Nat /\ span[1] \in Nat
      <4>1. n \in 1..n /\ merged # <<>>
        BY <1>1
      <4>2. last \in Nat \X Nat /\ last[1] <= last[2]
        BY <1>1, <1>2, <4>1
      <4>3. QED
        BY <1>1, <1>4, <4>1, <4>2
    <3>2. CASE i = n
      BY <3>1, <3>2
    <3>3. CASE i # n
      <4>1. merged[i][2] <= last[1]
        BY <1>1, <1>2, <3>1, <3>3
      <4> DEFINE m2 == merged[i][2]
                 l1 == last[1]
                 l2 == last[2]
                 s1 == span[1]
      <4>2. m2 \in Nat /\ l1 \in Nat /\ l2 \in Nat /\ s1 \in Nat /\ m2 <= l1 /\ l1 <= l2 /\ l2 <= s1
        BY <3>1, <4>1
      <4> HIDE DEF m2, l1, l2, s1
      <4>3. m2 <= s1
        BY <4>2
      <4>4. QED
        BY <4>3 DEF m2, s1
    <3>4. QED
      BY <3>2, <3>3
  <2> HIDE DEF n, last
  <2>4. ASSUME NEW i \in 1..(n + 1) PROVE more[i][1] <= more[i][2] /\ more[i][2] <= L
    <3>1. CASE i = n + 1
      BY <2>2, <3>1
    <3>2. CASE i # n + 1
      <4>1. i \in 1..n
        BY <1>1, <3>2
      <4>2. QED
        BY <1>2, <2>2, <4>1
    <3>3. QED
      BY <3>1, <3>2
  <2>5. ASSUME NEW i \in 1..(n + 1), NEW j \in 1..(n + 1), i < j
        PROVE  more[i][2] <= more[j][1]
    <3>1. i \in 1..n
      BY <1>1, <2>5
    <3>2. CASE j = n + 1
      BY <2>2, <2>3, <3>1, <3>2
    <3>3. CASE j # n + 1
      <4>1. j \in 1..n
        BY <1>1, <3>3
      <4>2. QED
        BY <1>2, <2>2, <2>5, <3>1, <4>1
    <3>4. QED
      BY <3>2, <3>3
  <2>6. Apart(t, more)
    BY <2>2, <2>4, <2>5 DEF Apart
  <2>7. ASSUME NEW x \in Nat
        PROVE  Within(more, x) <=> (Within(merged, x) \/ x \in (span[1] + 1)..span[2])
    <3>1. ASSUME Within(more, x) PROVE Within(merged, x) \/ x \in (span[1] + 1)..span[2]
      <4>1. PICK i \in 1..(n + 1) : x \in (more[i][1] + 1)..more[i][2]
        BY <2>2, <3>1 DEF Within
      <4>2. CASE i = n + 1
        BY <2>2, <4>1, <4>2
      <4>3. CASE i # n + 1
        <5>1. i \in 1..n
          BY <1>1, <4>3
        <5>2. QED
          BY <2>2, <4>1, <5>1 DEF Within, n
      <4>4. QED
        BY <4>2, <4>3
    <3>2. ASSUME Within(merged, x) PROVE Within(more, x)
      <4>1. PICK i \in 1..n : x \in (merged[i][1] + 1)..merged[i][2]
        BY <3>2 DEF Within, n
      <4>2. i \in 1..Len(more)
        BY <1>1, <2>2
      <4>3. QED
        BY <2>2, <4>1, <4>2 DEF Within
    <3>3. ASSUME x \in (span[1] + 1)..span[2] PROVE Within(more, x)
      <4>1. n + 1 \in 1..Len(more)
        BY <1>1, <2>2
      <4>2. QED
        BY <2>2, <3>3, <4>1 DEF Within
    <3>4. QED
      BY <3>1, <3>2, <3>3
  <2>8. more # <<>> /\ more[Len(more)][1] = span[1]
    BY <1>1, <2>2
  <2>9. QED
    BY <2>6, <2>7, <2>8 DEF more
<1>5. QED
  BY <1>3, <1>4

\* The first i spans, merged.
Joined(t, merged, sorted, i) ==
    /\ Apart(t, merged)
    /\ \A x \in Nat : Within(merged, x) <=>
          \E j \in 1..i : x \in (sorted[j][1] + 1)..sorted[j][2]
    /\ merged # <<>> => \E j \in 1..i : merged[Len(merged)][1] = sorted[j][1]

LEMMA JoinedFurther ==
    ASSUME NEW t \in Seq(Symbol), NEW spans, Inside(spans, t), NEW sorted \in Seq(spans),
           NEW n, Len(sorted) = n,
           \A i, j \in 1..n : i < j => sorted[i][1] <= sorted[j][1],
           NEW i \in 0..(n - 1), NEW merged, Joined(t, merged, sorted, i)
    PROVE  Joined(t, Merged(merged, sorted[i + 1]), sorted, i + 1)
<1> DEFINE k == i + 1
           span == sorted[k]
           more == Merged(merged, span)
<1>1. n \in Nat /\ i \in Nat /\ k \in 1..n /\ \A j \in 1..i : j \in 1..n /\ j < k /\ j \in 1..k
  OBVIOUS
<1>2. \A j \in 1..n : sorted[j] \in spans /\ sorted[j] \in Nat \X Nat
  BY DEF Inside
<1>3. span \in Nat \X Nat /\ span[1] <= span[2] /\ span[2] <= Len(t)
  BY <1>1, <1>2 DEF Inside
<1>4. Apart(t, merged)
  BY DEF Joined
<1>5. merged # <<>> => \E j \in 1..i : merged[Len(merged)][1] = sorted[j][1]
  BY DEF Joined
<1>6. merged # <<>> => merged[Len(merged)][1] <= span[1]
  BY <1>1, <1>5
<1>7. /\ Apart(t, more) /\ more # <<>>
      /\ \A x \in Nat :
            Within(more, x) <=> (Within(merged, x) \/ x \in (span[1] + 1)..span[2])
      /\ \/ more[Len(more)][1] = span[1]
         \/ merged # <<>> /\ more[Len(more)][1] = merged[Len(merged)][1]
  <2> HIDE DEF span, k
  <2>1. QED
    BY <1>3, <1>4, <1>6, MergeFurther
<1>8. \A x \in Nat : Within(merged, x) <=>
         \E j \in 1..i : x \in (sorted[j][1] + 1)..sorted[j][2]
  BY DEF Joined
<1>9. \A j \in 1..k : j \in 1..i \/ j = k
  OBVIOUS
<1>10. k \in 1..k
  BY <1>1
<1> HIDE DEF more, k
<1>11. ASSUME NEW x \in Nat
       PROVE  Within(more, x) <=> \E j \in 1..k : x \in (sorted[j][1] + 1)..sorted[j][2]
  BY <1>1, <1>7, <1>8, <1>9, <1>10
<1>12. \E j \in 1..k : more[Len(more)][1] = sorted[j][1]
  BY <1>1, <1>5, <1>7, <1>10
<1>13. Joined(t, more, sorted, k)
  BY <1>7, <1>11, <1>12 DEF Joined
<1>14. QED
  BY <1>13 DEF more, k

(* What piiSpans answers: spans from left to right that do not overlap, in *)
(* which every position that was found lies and no other.                  *)
LEMMA MergedSpans ==
    ASSUME NEW t \in Seq(Symbol), NEW spans, Inside(spans, t)
    PROVE  /\ Apart(t, MergeSpans(spans))
           /\ \A x \in Nat : Within(MergeSpans(spans), x) <=> x \in Positions(spans)
<1> DEFINE sorted == InOrder(spans)
           n == Len(sorted)
           f == CHOOSE f : f = [i \in 0..n |->
                                  IF i = 0 THEN <<>> ELSE Merged(f[i - 1], sorted[i])]
<1>1. /\ n \in Nat /\ sorted \in Seq(spans)
      /\ \A x \in spans : \E i \in 1..n : sorted[i] = x
      /\ \A i, j \in 1..n : i < j => sorted[i][1] <= sorted[j][1]
  <2>1. spans \in SUBSET (Nat \X Nat) /\ IsFiniteSet(spans)
    BY InsideFinite DEF Inside
  <2>2. QED
    BY <2>1, InOrderLists
<1>2. MergeSpans(spans) = f[n]
  BY DEF MergeSpans
<1> HIDE DEF sorted, n
<1>3. f = [i \in 0..n |-> IF i = 0 THEN <<>> ELSE Merged(f[i - 1], sorted[i])]
  <2>1. \E g : g = [i \in 0..n |-> IF i = 0 THEN <<>> ELSE Merged(g[i - 1], sorted[i])]
    BY <1>1, MergesExist DEF Merges
  <2>2. QED
    BY <2>1
<1> HIDE DEF f
<1>4. f[0] = <<>> /\ \A i \in 0..(n - 1) : f[i + 1] = Merged(f[i], sorted[i + 1])
  <2>1. 0 \in 0..n
    BY <1>1
  <2>2. ASSUME NEW i \in 0..(n - 1) PROVE f[i + 1] = Merged(f[i], sorted[i + 1])
    <3>1. i + 1 \in 0..n /\ i + 1 # 0 /\ (i + 1) - 1 = i
      BY <1>1
    <3>2. QED
      BY <1>3, <3>1
  <2>3. f[0] = <<>>
    BY <1>3, <2>1
  <2>4. QED
    BY <2>2, <2>3
<1> DEFINE T == {i \in 0..n : Joined(t, f[i], sorted, i)}
<1>5. 0 \in T
  <2>1. <<>> \in Seq(Nat \X Nat) /\ Len(<<>>) = 0 /\ 1..0 = {}
    OBVIOUS
  <2>2. Joined(t, <<>>, sorted, 0)
    BY <2>1 DEF Joined, Apart, Within
  <2>3. QED
    BY <1>1, <1>4, <2>2
<1>6. ASSUME NEW i \in 0..(n - 1), i \in T PROVE i + 1 \in T
  <2>1. i + 1 \in 0..n /\ Joined(t, f[i], sorted, i) /\ Len(sorted) = n
    BY <1>1, <1>6 DEF n
  <2>2. Joined(t, Merged(f[i], sorted[i + 1]), sorted, i + 1)
    BY <1>1, <2>1, JoinedFurther
  <2>3. QED
    BY <1>4, <2>1, <2>2
<1>7. n \in T
  <2> HIDE DEF T
  <2>1. \A i \in 0..n : i \in T
    BY <1>1, <1>5, <1>6, Climb
  <2>2. QED
    BY <1>1, <2>1
<1>8. Joined(t, f[n], sorted, n)
  BY <1>7
<1>9. ASSUME NEW x \in Nat
      PROVE  (\E j \in 1..n : x \in (sorted[j][1] + 1)..sorted[j][2]) <=> x \in Positions(spans)
  <2>1. \A j \in 1..n : sorted[j] \in spans
    BY <1>1 DEF n
  <2>2. QED
    BY <1>1, <2>1 DEF Positions
<1>10. QED
  BY <1>2, <1>8, <1>9 DEF Joined

\* Before the first span is replaced.
LEMMA MergedAhead ==
    ASSUME NEW found, found.text \in Seq(Symbol), Inside(found.spans, found.text)
    PROVE  LET spans == MergeSpans(found.spans)
           IN  /\ Ahead(found, spans)
               /\ \A x \in 1..NextStart(found.text, spans) : x \notin Positions(found.spans)
<1> DEFINE t == found.text
           spans == MergeSpans(found.spans)
           P == Positions(found.spans)
           c == NextStart(t, spans)
<1>1. Apart(t, spans) /\ \A x \in Nat : Within(spans, x) <=> x \in P
  BY MergedSpans
<1> HIDE DEF spans, P
<1>2. Len(t) \in Nat /\ c \in 0..Len(t)
  BY <1>1, NextStartType
<1>3. Ahead(found, spans)
  <2>1. \A x \in (c + 1)..Len(t) : x \in Nat
    BY <1>2
  <2>2. QED
    BY <1>1, <2>1 DEF Ahead, P
<1>4. ASSUME NEW x \in 1..c PROVE x \notin P
  <2>1. x \in Nat
    BY <1>2
  <2>2. SUFFICES ASSUME NEW i \in 1..Len(spans), x \in (spans[i][1] + 1)..spans[i][2] PROVE FALSE
    BY <1>1, <2>1 DEF Within
  <2> DEFINE s1 == spans[1][1]
             e1 == spans[1][2]
             si == spans[i][1]
             ei == spans[i][2]
  <2>3. /\ spans \in Seq(Nat \X Nat) /\ 1 \in 1..Len(spans) /\ spans # <<>>
        /\ spans[1] \in Nat \X Nat /\ spans[i] \in Nat \X Nat /\ Head(spans) = spans[1]
    BY <1>1, <2>2 DEF Apart
  <2>4. c = s1
    BY <2>3 DEF NextStart
  <2>5. s1 <= si
    <3>1. CASE i = 1
      BY <2>3, <3>1
    <3>2. CASE i # 1
      <4>1. 1 < i
        BY <2>2, <3>2
      <4>2. s1 <= e1 /\ e1 <= si
        BY <1>1, <2>3, <4>1 DEF Apart
      <4>3. s1 \in Nat /\ e1 \in Nat /\ si \in Nat
        BY <2>3
      <4> HIDE DEF s1, e1, si
      <4>4. QED
        BY <4>2, <4>3
    <3>3. QED
      BY <3>1, <3>2
  <2>6. s1 \in Nat /\ si \in Nat /\ ei \in Nat /\ x \in (si + 1)..ei /\ x \in 1..s1
    BY <2>2, <2>3, <2>4
  <2> HIDE DEF s1, e1, si, ei
  <2>7. QED
    BY <2>5, <2>6
<1>5. QED
  BY <1>3, <1>4 DEF c, t, spans, P

-----------------------------------------------------------------------------
(* A literal replacement of every match.                                   *)

\* The i-th replacement, and what follows it.
Piece(t, spans, i) ==
    <<Mark>> \o Between(t, spans[i][2], SubSeq(spans, i + 1, Len(spans)))

Pieces(t, spans, k) == [i \in 1..k |-> Piece(t, spans, i)]

\* The text with the first k matches replaced.
Literally(t, spans, k) == Between(t, 0, spans) \o FlattenSeq(Pieces(t, spans, k))

\* The first k matches of what was found are replaced.
ReplacedFirst(found, spans, k, rs) ==
    /\ Pieces(found.text, spans, k) \in Seq(Seq(Visible(rs)))
    /\ Ahead(found, SubSeq(spans, k + 1, Len(spans)))
    /\ Rewritten(found, Literally(found.text, spans, k),
                 NextStart(found.text, SubSeq(spans, k + 1, Len(spans))), rs)

LEMMA MarkType == Mark \in Symbol /\ ~Letter(Mark)
BY DEF Mark, Symbol, Letter

LEMMA BetweenType ==
    ASSUME NEW rs, NEW found, found.text \in Seq(Symbol),
           NEW spans, Ahead(found, spans), spans # <<>>
    PROVE  Between(found.text, Head(spans)[2], Tail(spans)) \in Seq(Visible(rs))
<1> DEFINE t == found.text
           rest == Tail(spans)
           b == Head(spans)[2]
           c == NextStart(t, rest)
<1>1. b \in 0..Len(t) /\ c \in b..Len(t) /\ Len(t) \in Nat
  BY AheadTail
<1>2. Between(t, b, rest) = SubSeq(t, b + 1, c)
  BY DEF Between, NextStart
<1> HIDE DEF b, c, rest
<1>3. c \in 0..Len(t) /\ b \in 0..c
  BY <1>1
<1>4. SubSeq(t, b + 1, c) \in Seq(Symbol)
  <2> DEFINE a == b
  <2>1. a \in 0..b
    BY <1>3
  <2>2. b \in 0..b /\ t \in Seq(Symbol)
    BY <1>3
  <2>3. QED
    BY <1>3, <2>2, SubSeqParts
<1> DEFINE V == Visible(rs)
           W == Symbol
           u == SubSeq(t, b + 1, c)
<1>5. W \subseteq V /\ u \in Seq(W)
  BY <1>4 DEF Visible
<1> HIDE DEF V, W, u
<1>6. u \in Seq(V)
  BY <1>5, SMTT(40)
<1>7. QED
  BY <1>2, <1>6 DEF u, V, rest, t, b

LEMMA SuffixType ==
    ASSUME NEW S, NEW s \in Seq(S), NEW m \in 0..Len(s)
    PROVE  /\ SubSeq(s, m + 1, Len(s)) \in Seq(S) /\ Len(SubSeq(s, m + 1, Len(s))) = Len(s) - m
           /\ \A i \in 1..(Len(s) - m) : SubSeq(s, m + 1, Len(s))[i] = s[m + i]
<1> DEFINE n == Len(s)
<1>1. n \in Nat /\ s \in Seq(S) /\ m \in 0..n /\ \A i \in 1..n : s[i] \in S
  OBVIOUS
<1> HIDE DEF n
<1>2. /\ m + 1 \in Int /\ n \in Int /\ n - (m + 1) + 1 = n - m
      /\ (IF m + 1 <= n THEN n - (m + 1) + 1 ELSE 0) = n - m
      /\ \A i \in 1..(n - m) : (m + 1) + i - 1 = m + i
      /\ \A i \in (m + 1)..n : i \in 1..n
  BY <1>1
<1>3. \A i \in (m + 1)..n : s[i] \in S
  BY <1>1, <1>2
<1> DEFINE a == m + 1
<1>4. a \in Int /\ \A i \in a..n : s[i] \in S
  BY <1>2, <1>3
<1> HIDE DEF a
<1>5. /\ SubSeq(s, a, n) \in Seq(S) /\ Len(SubSeq(s, a, n)) = IF a <= n THEN n - a + 1 ELSE 0
      /\ \A i \in 1..(n - a + 1) : SubSeq(s, a, n)[i] = s[a + i - 1]
  BY <1>2, <1>4, SubSeqProperties
<1>6. QED
  BY <1>2, <1>5 DEF a, n

LEMMA SpansFrom ==
    ASSUME NEW S, NEW spans \in Seq(S), NEW k \in 0..(Len(spans) - 1)
    PROVE  LET from == SubSeq(spans, k + 1, Len(spans))
           IN  /\ from # <<>> /\ Head(from) = spans[k + 1]
               /\ Tail(from) = SubSeq(spans, (k + 1) + 1, Len(spans))
<1> DEFINE n == Len(spans)
           from == SubSeq(spans, k + 1, n)
           rest == SubSeq(spans, (k + 1) + 1, n)
<1>1. /\ n \in Nat /\ k \in 0..(n - 1) /\ k + 1 \in 1..n /\ n - (k + 1) + 1 = n - k
      /\ \A i \in 1..(n - k) : (k + 1) + i - 1 = k + i /\ k + i \in 1..n
  OBVIOUS
<1>2. from \in Seq(S) /\ Len(from) = n - k /\ \A i \in 1..(n - k) : from[i] = spans[k + i]
  <2>1. k \in 0..Len(spans)
    OBVIOUS
  <2>2. QED
    BY <2>1, SuffixType
<1>3. /\ rest \in Seq(S) /\ Len(rest) = n - (k + 1)
      /\ \A i \in 1..(n - (k + 1)) : rest[i] = spans[(k + 1) + i]
  <2> DEFINE m == k + 1
  <2>1. m \in 0..Len(spans)
    BY <1>1
  <2> HIDE DEF m
  <2>2. /\ SubSeq(spans, m + 1, Len(spans)) \in Seq(S)
        /\ Len(SubSeq(spans, m + 1, Len(spans))) = Len(spans) - m
        /\ \A i \in 1..(Len(spans) - m) :
              SubSeq(spans, m + 1, Len(spans))[i] = spans[m + i]
    BY <2>1, SuffixType
  <2>3. QED
    BY <2>2 DEF m
<1> HIDE DEF from, rest, n
<1>4. from # <<>> /\ Head(from) = spans[k + 1] /\ Head(from) = from[1]
  <2>1. Len(from) # 0 /\ 1 \in 1..(n - k)
    BY <1>1, <1>2
  <2>2. QED
    BY <1>2, <2>1
<1>5. Tail(from) = rest
  <2>1. /\ Tail(from) \in Seq(S) /\ Len(Tail(from)) = Len(from) - 1
        /\ \A i \in 1..(Len(from) - 1) : Tail(from)[i] = from[i + 1]
    BY <1>2, <1>4, SequenceOfHeadAndTail
  <2> DEFINE u == Tail(from)
  <2> HIDE DEF u
  <2>2. u \in Seq(S) /\ Len(u) = n - (k + 1) /\ \A i \in 1..(n - (k + 1)) : u[i] = from[i + 1]
    BY <1>1, <1>2, <2>1 DEF u
  <2>3. ASSUME NEW i \in 1..(n - (k + 1)) PROVE u[i] = rest[i]
    <3>1. i + 1 \in 1..(n - k) /\ k + (i + 1) = (k + 1) + i
      BY <1>1
    <3>2. from[i + 1] = spans[k + (i + 1)]
      BY <1>2, <3>1
    <3>3. QED
      BY <1>3, <2>2, <3>1, <3>2
  <2>4. u = rest
    BY <1>3, <2>2, <2>3, SameElements
  <2>5. QED
    BY <2>4 DEF u
<1>6. QED
  BY <1>4, <1>5 DEF from, rest, n

LEMMA PiecesFurther ==
    ASSUME NEW S, NEW t, NEW spans, NEW k \in Nat, Pieces(t, spans, k) \in Seq(Seq(S)),
           Piece(t, spans, k + 1) \in Seq(S)
    PROVE  /\ Pieces(t, spans, k + 1) = Pieces(t, spans, k) \o <<Piece(t, spans, k + 1)>>
           /\ Pieces(t, spans, k + 1) \in Seq(Seq(S))
<1> DEFINE a == Pieces(t, spans, k)
           x == Piece(t, spans, k + 1)
           b == <<x>>
           c == Pieces(t, spans, k + 1)
           W == Seq(S)
<1>1. a \in Seq(W) /\ Len(a) = k /\ \A i \in 1..k : a[i] = Piece(t, spans, i)
  BY DEF Pieces
<1>2. b \in Seq(W) /\ Len(b) = 1 /\ b[1] = x
  <2> HIDE DEF x
  <2>1. x \in W
    BY DEF x
  <2> HIDE DEF W
  <2>2. QED
    BY <2>1
<1>3. \A i \in 1..(k + 1) : i \in 1..k \/ i = k + 1
  OBVIOUS
<1>4. DOMAIN c = 1..(k + 1) /\ \A i \in 1..(k + 1) : c[i] = Piece(t, spans, i)
  BY DEF Pieces
<1>5. \A i \in 1..(k + 1) : c[i] \in W
  <2> HIDE DEF W, a, c
  <2>1. \A i \in 1..k : a[i] \in W
    BY <1>1
  <2>2. Piece(t, spans, k + 1) \in W
    BY DEF W
  <2>3. QED
    BY <1>1, <1>3, <1>4, <2>1, <2>2
<1>6. c \in Seq(W) /\ Len(c) = k + 1
  <2>1. c = [i \in 1..(k + 1) |-> c[i]]
    BY DEF Pieces
  <2> HIDE DEF W, c
  <2>2. k + 1 \in Nat
    OBVIOUS
  <2>3. QED
    BY <1>5, <2>1, <2>2
<1> HIDE DEF a, b, c, W, x
<1>7. \A i \in 1..k : c[i] = a[i]
  BY <1>1, <1>4
<1>8. \A i \in 1..1 : c[k + i] = b[i]
  BY <1>2, <1>4 DEF x
<1> DEFINE one == 1
<1>9. Len(a) = k /\ Len(b) = one /\ Len(c) = k + one /\ \A i \in 1..one : c[k + i] = b[i]
  BY <1>1, <1>2, <1>6, <1>8
<1> HIDE DEF one
<1>10. a \in Seq(W) /\ b \in Seq(W) /\ c \in Seq(W)
  BY <1>1, <1>2, <1>6
<1>11. c = a \o b
  <2>1. Joins(a, b, c, k, one)
    BY <1>7, <1>9 DEF Joins
  <2>2. QED
    BY <1>10, <2>1, ConcatIs
<1>12. QED
  BY <1>10, <1>11 DEF a, b, c, W, x

\* One more match is replaced.
LEMMA LiteralFurther ==
    ASSUME NEW rs, Meanings(rs), NEW found, found.text \in Seq(Symbol),
           found.check.kind # "spans",
           NEW spans, Apart(found.text, spans), NEW k \in 0..(Len(spans) - 1),
           Between(found.text, 0, spans) \in Seq(Visible(rs)),
           ReplacedFirst(found, spans, k, rs)
    PROVE  ReplacedFirst(found, spans, k + 1, rs)
<1> DEFINE t == found.text
           V == Visible(rs)
           from == SubSeq(spans, k + 1, Len(spans))
           rest == SubSeq(spans, (k + 1) + 1, Len(spans))
           x == Piece(t, spans, k + 1)
           mark == <<Mark>>
           u == Between(t, spans[k + 1][2], rest)
           b == Between(t, 0, spans)
           a == FlattenSeq(Pieces(t, spans, k))
<1>1. spans \in Seq(Nat \X Nat)
  BY DEF Apart
<1>2. from # <<>> /\ Head(from) = spans[k + 1] /\ Tail(from) = rest
  BY <1>1, SpansFrom
<1>3. /\ Pieces(t, spans, k) \in Seq(Seq(V)) /\ Ahead(found, from)
      /\ Rewritten(found, b \o a, NextStart(t, from), rs)
  BY DEF ReplacedFirst, Literally
<1>4. Ahead(found, rest)
  <2> HIDE DEF from, rest
  <2>1. QED
    BY <1>2, <1>3, AheadTail
<1>5. u \in Seq(V)
  <2> HIDE DEF from, rest
  <2>1. Between(t, Head(from)[2], Tail(from)) \in Seq(V)
    BY <1>2, <1>3, BetweenType
  <2>2. QED
    BY <1>2, <2>1
<1>6. Mark \in V /\ ~Letter(Mark)
  BY MarkType DEF Visible
<1>7. Rewritten(found, ((b \o a) \o mark) \o u, NextStart(t, rest), rs)
  <2> DEFINE s == b \o a
  <2> HIDE DEF from, rest, s
  <2>1. Rewritten(found, s, Head(from)[1], rs)
    <3>1. NextStart(t, from) = Head(from)[1]
      BY <1>2 DEF NextStart
    <3>2. QED
      BY <1>3, <3>1 DEF s
  <2>2. Rewritten(found, (s \o <<Mark>>) \o Between(t, Head(from)[2], Tail(from)),
                  NextStart(t, Tail(from)), rs)
    <3>0. Ahead(found, from) /\ from # <<>> /\ found.text \in Seq(Symbol)
      BY <1>2, <1>3
    <3>1. found.check.kind = "spans" /\ found.check.vault # "none" =>
             Mark \in DOMAIN rs /\ rs[Mark] = Covered(found.text, Head(from))
      OBVIOUS
    <3>2. QED
      BY <3>0, <1>6, <2>1, <3>1, RewriteFurther
  <2>3. QED
    BY <1>2, <2>2 DEF s
<1>8. x = mark \o u
  BY DEF Piece
<1> HIDE DEF V, from, rest, x, u, b, a, mark
<1>9. mark \in Seq(V)
  <2>1. <<Mark>> \in Seq(V)
    BY <1>6
  <2>2. QED
    BY <2>1 DEF mark
<1>10. x \in Seq(V)
  BY <1>5, <1>8, <1>9
<1>11. /\ Pieces(t, spans, k + 1) = Pieces(t, spans, k) \o <<x>>
       /\ Pieces(t, spans, k + 1) \in Seq(Seq(V))
  <2>1. k \in Nat
    BY <1>1
  <2>2. QED
    BY <1>3, <1>10, <2>1, PiecesFurther DEF x
<1>12. FlattenSeq(Pieces(t, spans, k + 1)) = a \o x /\ a \in Seq(V)
  <2> DEFINE w == Pieces(t, spans, k)
             one == <<x>>
  <2>1. one \in Seq(Seq(V)) /\ w \in Seq(Seq(V))
    <3> DEFINE W == Seq(V)
    <3>1. x \in W
      BY <1>10
    <3> HIDE DEF W
    <3>2. <<x>> \in Seq(W)
      BY <3>1
    <3>3. QED
      BY <1>3, <3>2 DEF W
  <2>2. FlattenSeq(one) = x
    BY <1>10, FlattenSingle
  <2> HIDE DEF w, one
  <2>3. FlattenSeq(w \o one) = FlattenSeq(w) \o FlattenSeq(one) /\ FlattenSeq(w) \in Seq(V)
    BY <2>1, FlattenConcat
  <2>4. QED
    BY <1>11, <2>2, <2>3 DEF w, one, a
<1>13. b \o (a \o x) = ((b \o a) \o mark) \o u
  <2>1. b \in Seq(V) /\ a \in Seq(V) /\ mark \in Seq(V) /\ u \in Seq(V)
    BY <1>5, <1>9, <1>12 DEF b, V
  <2> DEFINE s == b \o a
  <2>2. s \in Seq(V)
    BY ONLY <2>1
  <2> HIDE DEF s
  <2>3. (s \o mark) \o u = s \o (mark \o u)
    BY ONLY <2>1, <2>2, SMTT(40)
  <2>4. s \o x = b \o (a \o x)
    BY ONLY <1>10, <2>1, SMTT(40) DEF s
  <2>5. QED
    BY <1>8, <2>3, <2>4 DEF s
<1>14. Literally(t, spans, k + 1) = ((b \o a) \o mark) \o u
  BY <1>12, <1>13 DEF Literally, b
<1>15. QED
  BY <1>4, <1>7, <1>11, <1>14 DEF ReplacedFirst, V, rest, t

LEMMA LiteralRewritten ==
    ASSUME NEW rs, Meanings(rs), NEW found, found.text \in Seq(Symbol),
           Inside(found.spans, found.text), found.check.kind # "spans"
    PROVE  Rewritten(found, ReplaceLiterally(found.text, MergeSpans(found.spans)),
                     Len(found.text), rs)
<1> DEFINE t == found.text
           m == MergeSpans(found.spans)
           n == Len(m)
           T == {k \in 0..n : ReplacedFirst(found, m, k, rs)}
<1>1. Ahead(found, m) /\ \A x \in 1..NextStart(t, m) : x \notin Positions(found.spans)
  BY MergedAhead
<1> HIDE DEF m
<1>2. Apart(t, m) /\ m \in Seq(Nat \X Nat) /\ n \in Nat
  BY <1>1 DEF Ahead, Apart
<1>3. Rewritten(found, Between(t, 0, m), NextStart(t, m), rs)
  BY <1>1, <1>2, RewriteStart
<1> DEFINE V == Visible(rs)
           b == Between(t, 0, m)
<1>4. b \in Seq(V)
  BY <1>3 DEF Rewritten
<1>5. Pieces(t, m, 0) = <<>>
  BY DEF Pieces
<1>6. Literally(t, m, 0) = b
  <2>1. FlattenSeq(Pieces(t, m, 0)) = <<>>
    BY <1>5, FlattenEmpty
  <2>2. Literally(t, m, 0) = b \o <<>>
    BY <2>1 DEF Literally
  <2> HIDE DEF b, V
  <2>3. b \o <<>> = b
    BY <1>4
  <2>4. QED
    BY <2>2, <2>3
<1>7. SubSeq(m, 0 + 1, Len(m)) = m
  <2>1. SubSeq(m, 1, Len(m)) = m
    BY <1>2, SubSeqFull
  <2>2. 0 + 1 = 1
    OBVIOUS
  <2>3. QED
    BY <2>1, <2>2
<1>8. 0 \in T
  <2>1. <<>> \in Seq(Seq(V))
    <3> HIDE DEF V
    <3>1. QED
      OBVIOUS
  <2>2. ReplacedFirst(found, m, 0, rs)
    <3> HIDE DEF b
    <3>1. Rewritten(found, b, NextStart(t, m), rs)
      BY <1>3 DEF b
    <3>2. QED
      BY <1>1, <1>5, <1>6, <1>7, <2>1, <3>1 DEF ReplacedFirst
  <2>3. QED
    BY <1>2, <2>2
<1>9. ASSUME NEW k \in 0..(n - 1), k \in T PROVE k + 1 \in T
  <2>1. k + 1 \in 0..n /\ ReplacedFirst(found, m, k, rs)
    BY <1>2, <1>9
  <2>2. ReplacedFirst(found, m, k + 1, rs)
    BY <1>2, <1>4, <2>1, LiteralFurther
  <2>3. QED
    BY <2>1, <2>2
<1>10. n \in T
  <2> HIDE DEF T, n
  <2>1. \A k \in 0..n : k \in T
    BY <1>2, <1>8, <1>9, Climb
  <2>2. QED
    BY <1>2, <2>1
<1>11. ReplacedFirst(found, m, n, rs)
  BY <1>10
<1>12. NextStart(t, SubSeq(m, n + 1, n)) = Len(t)
  <2>1. SubSeq(m, n + 1, n) = <<>>
    <3> HIDE DEF n
    <3>1. n + 1 \in Int /\ n \in Int /\ n < n + 1
      BY <1>2
    <3>2. QED
      BY <3>1, SubSeqEmpty
  <2>2. QED
    BY <2>1 DEF NextStart
<1>13. Literally(t, m, n) = ReplaceLiterally(t, m)
  BY DEF Literally, ReplaceLiterally, Pieces, Piece
<1>14. QED
  BY <1>11, <1>12, <1>13 DEF ReplacedFirst, m

-----------------------------------------------------------------------------
(* What a check lets through.                                              *)

\* Redacted, of a text of symbols and known tokens; rs gives their meanings.
RedactedIn(found, s, rs) ==
    /\ s \in Seq(Visible(rs))
    /\ IF ~Redacts(found) THEN s = found.text
       ELSE /\ Letters(s, {}) = Letters(found.text, Positions(found.spans))
            /\ found.check.kind = "spans" /\ found.check.vault # "none" =>
                  Unredacted(s, rs) = found.text

LEMMA RewrittenWhole ==
    ASSUME NEW rs, NEW found, found.text \in Seq(Symbol), Redacts(found),
           NEW s, Rewritten(found, s, Len(found.text), rs)
    PROVE  RedactedIn(found, s, rs)
<1> DEFINE t == found.text
<1>1. SubSeq(t, 1, Len(t)) = t
  BY SubSeqFull
<1>2. QED
  BY <1>1 DEF Rewritten, RedactedIn

LEMMA LiteralRedacted ==
    ASSUME NEW rs, Meanings(rs), NEW found, found.text \in Seq(Symbol),
           Inside(found.spans, found.text), found.check.kind # "spans", Redacts(found)
    PROVE  RedactedIn(found, ReplaceLiterally(found.text, MergeSpans(found.spans)), rs)
BY LiteralRewritten, RewrittenWhole

\* A check that found nothing, or does not redact, lets the text through as it is.
LEMMA PlainRedacted ==
    ASSUME NEW rs, Meanings(rs), NEW found, found.text \in Seq(Symbol),
           ~Redacts(found) \/ found.spans = {}
    PROVE  RedactedIn(found, found.text, rs)
<1> DEFINE t == found.text
           V == Visible(rs)
           W == Symbol
<1>1. t \in Seq(V)
  <2>1. W \subseteq V /\ t \in Seq(W)
    BY DEF Visible
  <2> HIDE DEF V, W, t
  <2>2. QED
    BY <2>1
<1>2. Unredacted(t, rs) = t
  BY UnredactPlain
<1>3. found.spans = {} => Positions(found.spans) = {}
  BY DEF Positions
<1>4. QED
  BY <1>1, <1>2, <1>3 DEF RedactedIn

LEMMA RedactedInIs ==
    ASSUME NEW found, NEW s, RedactedIn(found, s, restores)
    PROVE  Redacted(found, s)
<1> DEFINE V == Visible(restores)
<1>1. s \in Seq(V)
  BY DEF RedactedIn
<1> HIDE DEF V
<1>2. DOMAIN s = 1..Len(s) /\ \A i \in 1..Len(s) : s[i] \in V
  BY <1>1
<1>3. UnredactText(s) = Unredacted(s, restores)
  BY <1>2, UnredactTextIs DEF V
<1>4. QED
  BY <1>3 DEF RedactedIn, Redacted

\* more is what rs becomes when further originals are stored.
Grows(rs, more) ==
    /\ Meanings(rs) /\ Meanings(more)
    /\ DOMAIN rs \subseteq DOMAIN more
    /\ \A t \in DOMAIN rs : more[t] = rs[t]

LEMMA RewrittenLater ==
    ASSUME NEW rs, NEW more, Grows(rs, more), NEW found, NEW s, NEW n,
           Rewritten(found, s, n, rs)
    PROVE  Rewritten(found, s, n, more)
<1>1. s \in Seq(Visible(rs))
  BY DEF Rewritten
<1>2. s \in Seq(Visible(more)) /\ Unredacted(s, more) = Unredacted(s, rs)
  BY <1>1, UnredactLater DEF Grows
<1>3. QED
  BY <1>2 DEF Rewritten

LEMMA RedactedLater ==
    ASSUME NEW rs, NEW more, Grows(rs, more), NEW found, NEW s, RedactedIn(found, s, rs)
    PROVE  RedactedIn(found, s, more)
<1>1. s \in Seq(Visible(rs))
  BY DEF RedactedIn
<1>2. s \in Seq(Visible(more)) /\ Unredacted(s, more) = Unredacted(s, rs)
  BY <1>1, UnredactLater DEF Grows
<1>3. QED
  BY <1>2 DEF RedactedIn

-----------------------------------------------------------------------------
(* What stops a value.                                                     *)

LEMMA ComposedDisposition ==
    ASSUME NEW s \in Seq(Report)
    PROVE  Disposition(<<ComposeReports(s)>>) = EffectiveDisposition(Decision(NormalizeAll(s)))
<1> DEFINE d == Decision(NormalizeAll(s))
           k == AggregatePayloadKind(s)
           c == [d EXCEPT !.kind = k]
<1>1. d \in Report /\ ~IsObservation(d) /\ d.disposition = EffectiveDisposition(d)
  BY NormalizeAllType, DecisionType, DecisionEnforces
<1>2. k \in PayloadKinds
  BY AggregateIsStrictest
<1>3. ComposeReports(s) = c
  BY DEF ComposeReports
<1> HIDE DEF d, k
<1>4. c \in Report /\ ~IsObservation(c) /\ EffectiveDisposition(c) = EffectiveDisposition(d)
  BY <1>1, <1>2, KindHarmless
<1> HIDE DEF c
<1>5. DecisionFromReport(c).disposition = EffectiveDisposition(c)
  BY <1>2, <1>4, HostKeepsClass
<1>6. Disposition(<<c>>) = DecisionFromReport(c).disposition
  BY DEF Disposition
<1>7. QED
  BY <1>3, <1>4, <1>5, <1>6 DEF d

LEMMA NormalizeAllAppend ==
    ASSUME NEW s \in Seq(Report), NEW r \in Report
    PROVE  /\ NormalizeAll(Append(s, r)) = Append(NormalizeAll(s), NormalizeReport(r))
           /\ NormalizeAll(s) \in Seq(Report) /\ NormalizeReport(r) \in Report
<1> DEFINE a == Append(s, r)
           n == NormalizeAll(s)
           m == NormalizeAll(a)
           q == NormalizeReport(r)
           b == Append(n, q)
<1>1. q \in Report
  BY NormalizeType
<1>2. n \in Seq(Report) /\ Len(n) = Len(s) /\ \A i \in 1..Len(s) : n[i] = NormalizeReport(s[i])
  BY NormalizeAllType
<1>3. a \in Seq(Report) /\ Len(a) = Len(s) + 1 /\ a[Len(s) + 1] = r
      /\ \A i \in 1..Len(s) : a[i] = s[i]
  OBVIOUS
<1> HIDE DEF a, n, q
<1>4. m \in Seq(Report) /\ Len(m) = Len(a) /\ \A i \in 1..Len(a) : m[i] = NormalizeReport(a[i])
  BY <1>3, NormalizeAllType
<1>5. b \in Seq(Report) /\ Len(b) = Len(n) + 1 /\ b[Len(n) + 1] = q
      /\ \A i \in 1..Len(n) : b[i] = n[i]
  BY <1>1, <1>2
<1> HIDE DEF m, b
<1>6. Len(s) \in Nat /\ Len(m) = Len(b)
  BY <1>2, <1>3, <1>4, <1>5
<1>7. ASSUME NEW i \in 1..Len(m) PROVE m[i] = b[i]
  <2>1. CASE i = Len(s) + 1
    BY <1>2, <1>3, <1>4, <1>5, <2>1 DEF q
  <2>2. CASE i # Len(s) + 1
    <3>1. i \in 1..Len(s)
      BY <1>3, <1>4, <1>6, <2>2
    <3>2. QED
      BY <1>2, <1>3, <1>4, <1>5, <3>1
  <2>3. QED
    BY <2>1, <2>2
<1>8. m = b
  BY <1>4, <1>5, <1>6, <1>7, SameElements
<1>9. QED
  BY <1>1, <1>2, <1>8 DEF a, n, m, b, q

\* What is let through after one more report was let through before.
LEMMA LetThroughBefore ==
    ASSUME NEW s \in Seq(Report), NEW r \in Report,
           Disposition(<<ComposeReports(Append(s, r))>>) = "none"
    PROVE  Disposition(<<ComposeReports(s)>>) = "none"
<1> DEFINE n == NormalizeAll(s)
           q == NormalizeReport(r)
<1>1. n \in Seq(Report) /\ q \in Report /\ NormalizeAll(Append(s, r)) = Append(n, q)
  BY NormalizeAllAppend
<1>2. EffectiveDisposition(Decision(Append(n, q))) = "none"
  <2>1. Append(s, r) \in Seq(Report)
    BY Growing
  <2>2. Disposition(<<ComposeReports(Append(s, r))>>) =
           EffectiveDisposition(Decision(NormalizeAll(Append(s, r))))
    BY <2>1, ComposedDisposition
  <2>3. QED
    BY <1>1, <2>2
<1> HIDE DEF n, q
<1>3. Append(n, q) = n \o <<q>> /\ <<q>> \in Seq(Report)
  BY <1>1, Growing, Single
<1>4. EffectiveDisposition(Decision(n)) = "none"
  BY <1>1, <1>2, <1>3, StopStays
<1>5. QED
  BY <1>4, ComposedDisposition DEF n

\* A report that stops a value stops every composition with it.
LEMMA StopComposed ==
    ASSUME NEW s \in Seq(Report), NEW r \in Report, ~IsObservation(r),
           EffectiveDisposition(r) # "none"
    PROVE  Disposition(<<ComposeReports(Append(s, r))>>) # "none"
<1> DEFINE n == NormalizeAll(s)
           c == NormalizeReport(r)
           t == Append(n, c)
<1>1. n \in Seq(Report) /\ c \in Report /\ NormalizeAll(Append(s, r)) = t
  BY NormalizeAllAppend
<1>2. ~IsObservation(c) /\ EffectiveDisposition(c) # "none"
  BY NormalizeKeepsClass
<1> HIDE DEF n, c
<1>3. t \in Seq(Report) /\ Len(t) = Len(n) + 1 /\ t[Len(n) + 1] = c /\ Len(n) \in Nat
  BY <1>1
<1> HIDE DEF t
<1>4. Len(n) + 1 \in Enforcing(t)
  BY <1>2, <1>3 DEF Enforcing
<1>5. ReportPriority(c) \in {3, 4, 5, 6, 7}
  BY <1>1, <1>2, RankOfReport, DispositionType DEF Dispositions
<1>6. ReportPriority(c) <= ReportPriority(Decision(t))
  BY <1>3, <1>4, DecisionIsStrongest
<1>7. ReportPriority(Decision(t)) \notin {1, 2}
  BY <1>1, <1>3, <1>5, <1>6, RankOfReport
<1>8. EffectiveDisposition(Decision(t)) # "none"
  BY <1>3, <1>7, DecisionType, RankOfReport
<1>9. Append(s, r) \in Seq(Report)
  BY Growing
<1>10. QED
  BY <1>1, <1>8, <1>9, ComposedDisposition

\* A redaction that escalates stops its value, and what is composed with it.
LEMMA RedactionStops ==
    ASSUME NEW r \in Report, r.action = "redact"
    PROVE  /\ ShouldShortCircuitValidator(r) => Disposition(NormalizeAll(<<r>>)) # "none"
           /\ Disposition(<<r>>) # "none" =>
                 \A s \in Seq(Report) : Disposition(<<ComposeReports(Append(s, r))>>) # "none"
<1> DEFINE q == NormalizeReport(r)
<1>1. q \in Report /\ ~IsObservation(r) /\ ~IsObservation(q)
      /\ EffectiveDisposition(q) = EffectiveDisposition(r)
  BY NormalizeType, NormalizeKeepsClass DEF IsObservation
<1>2. ASSUME ShouldShortCircuitValidator(r) PROVE Disposition(NormalizeAll(<<r>>)) # "none"
  <2>1. EffectiveDisposition(q) # "none"
    BY <1>2 DEF ShouldShortCircuitValidator, IsRetryableCorrection, IsTerminalDeny, IsSystemFault
  <2>2. NormalizeAll(<<r>>) = <<q>>
    BY NormalizedOne
  <2> HIDE DEF q
  <2>3. DecisionFromReport(q).disposition = EffectiveDisposition(q)
    BY <1>1, HostKeepsClass DEF PayloadKinds
  <2>4. QED
    BY <2>1, <2>2, <2>3 DEF Disposition
<1>3. ASSUME Disposition(<<r>>) # "none", NEW s \in Seq(Report)
      PROVE  Disposition(<<ComposeReports(Append(s, r))>>) # "none"
  <2>1. DecisionFromReport(r).disposition = EffectiveDisposition(r)
    BY <1>1, HostKeepsClass DEF PayloadKinds
  <2>2. EffectiveDisposition(r) # "none"
    BY <1>3, <2>1 DEF Disposition
  <2>3. QED
    BY <1>1, <2>2, StopComposed
<1>4. QED
  BY <1>2, <1>3

LEMMA CorruptedStops ==
    /\ Disposition(<<Corrupted>>) # "none"
    /\ \A s \in Seq(Report) : Disposition(<<ComposeReports(Append(s, Corrupted))>>) # "none"
<1> DEFINE b == BlankReport("retry", "safe")
           yes == "retry" = "retry"
           fatal == b.fatal \/ FALSE
           disposition == IF b.action # "retry" THEN "system_fault" ELSE b.disposition
           e == [b EXCEPT !.retryable = yes, !.fatal = fatal, !.disposition = disposition]
           q == Corrupted
<1>1. b \in Report /\ b.action = "retry" /\ b.disposition = "none" /\ ~b.fatal /\ b.finite
      /\ b.kind = "safe"
  BY DEF BlankReport, Report, Actions, Dispositions, PayloadKinds
<1>2. q = NormalizeReport(e)
  BY DEF Corrupted, FinishReport
<1>3. yes /\ ~fatal /\ disposition = "none" /\ yes \in BOOLEAN /\ fatal \in BOOLEAN
  BY <1>1
<1>4. /\ e \in Report /\ e.action = "retry" /\ e.retryable /\ ~e.fatal /\ e.disposition = "none"
      /\ e.kind = "safe" /\ e.finite
  <2> HIDE DEF b, yes, fatal, disposition
  <2>1. e \in Report
    BY <1>1, <1>3 DEF Report, Dispositions
  <2>2. /\ e.action = b.action /\ e.retryable = yes /\ e.fatal = fatal
        /\ e.disposition = disposition /\ e.kind = b.kind /\ e.finite = b.finite
    BY <1>1 DEF Report
  <2>3. QED
    BY <1>1, <1>3, <2>1, <2>2
<1> HIDE DEF e, b
<1>5. EffectiveDisposition(e) = "retryable_correction"
  BY <1>4 DEF EffectiveDisposition, Malformed, DeriveDisposition, Actions, Dispositions, PayloadKinds
<1> HIDE DEF q
<1>6. q \in Report /\ q.action = "retry" /\ EffectiveDisposition(q) = "retryable_correction"
  BY <1>2, <1>4, <1>5, NormalizeType, NormalizeKeepsClass
<1>7. ~IsObservation(q)
  BY <1>6 DEF IsObservation
<1>8. Disposition(<<q>>) # "none"
  <2>1. DecisionFromReport(q).disposition = EffectiveDisposition(q)
    BY <1>6, <1>7, HostKeepsClass DEF PayloadKinds
  <2>2. QED
    BY <1>6, <2>1 DEF Disposition
<1>9. QED
  BY <1>6, <1>7, <1>8, StopComposed DEF q

(* The vault gives back what was stored: its maps are each other's inverse. *)
Reversible ==
    /\ Meanings(restores)
    /\ \A key \in DOMAIN pairs :
          pairs[key] \in DOMAIN restores /\ restores[pairs[key]] = key[2]
    /\ \A t \in DOMAIN restores : \E key \in DOMAIN pairs : pairs[key] = t

LEMMA ReversibleInit == VaultInit => Reversible
<1>1. SUFFICES ASSUME VaultInit PROVE Reversible
  OBVIOUS
<1>2. DOMAIN pairs = {} /\ DOMAIN restores = {}
  BY <1>1 DEF VaultInit
<1>3. QED
  BY <1>2 DEF Reversible, Meanings

(* Storing a text keeps every token and its meaning, and the token that it *)
(* answers restores that text.                                             *)
LEMMA StoreGrows ==
    ASSUME Issued, Reversible, NEW namespace \in Namespaces, NEW original \in Seq(Symbol),
           Store(namespace, original)
    PROVE  LET token == TokenOf(namespace, original)
           IN  /\ Reversible' /\ Grows(restores, restores')
               /\ token \in Token /\ token \in DOMAIN restores'
               /\ restores'[token] = original
<1> DEFINE key == Key(namespace, original)
           token == TokenOf(namespace, original)
<1>1. key[2] = original
  BY KeyType
<1>2. CASE key \in DOMAIN pairs
  <2>1. UNCHANGED <<pairs, restores>>
    BY <1>2 DEF Store, vaultVars
  <2>2. token = pairs[key]
    BY <1>2 DEF TokenOf
  <2>3. token \in DOMAIN restores /\ restores[token] = original
    BY <1>1, <1>2, <2>2 DEF Reversible
  <2>4. token \in Token
    BY <2>3 DEF Reversible, Meanings
  <2>5. Reversible'
    BY <2>1 DEF Reversible, Meanings
  <2> HIDE DEF token
  <2>6. QED
    BY <2>1, <2>3, <2>4, <2>5 DEF Reversible, Grows, Meanings, token
<1>3. CASE key \notin DOMAIN pairs
  <2>1. token \in Token /\ \A other \in DOMAIN pairs : pairs[other] # token
    BY <1>3, FreshToken
  <2>2. /\ pairs' = [k \in DOMAIN pairs \cup {key} |-> IF k = key THEN token ELSE pairs[k]]
        /\ restores' = [t \in DOMAIN restores \cup {token} |->
                          IF t = token THEN original ELSE restores[t]]
    BY <1>3, StoreNew
  <2> HIDE DEF key, token
  <2>3. token \notin DOMAIN restores
    BY <2>1 DEF Reversible
  <2>4. /\ DOMAIN restores' = DOMAIN restores \cup {token} /\ restores'[token] = original
        /\ \A t \in DOMAIN restores : restores'[t] = restores[t]
    BY <2>2, <2>3
  <2>5. /\ DOMAIN pairs' = DOMAIN pairs \cup {key} /\ pairs'[key] = token
        /\ \A k \in DOMAIN pairs : pairs'[k] = pairs[k]
    BY <1>3, <2>2
  <2>6. DOMAIN restores \subseteq Token /\ \A t \in DOMAIN restores : restores[t] \in Seq(Symbol)
    BY DEF Reversible, Meanings
  <2>7. Meanings(restores')
    BY <2>1, <2>4, <2>6 DEF Meanings
  <2>8. ASSUME NEW k \in DOMAIN pairs'
        PROVE  pairs'[k] \in DOMAIN restores' /\ restores'[pairs'[k]] = k[2]
    <3>1. CASE k = key
      BY <1>1, <2>4, <2>5, <3>1
    <3>2. CASE k # key
      <4>1. k \in DOMAIN pairs /\ pairs'[k] = pairs[k]
        BY <2>5, <2>8, <3>2
      <4>2. pairs[k] \in DOMAIN restores /\ restores[pairs[k]] = k[2]
        BY <4>1 DEF Reversible
      <4>3. QED
        BY <2>4, <4>1, <4>2
    <3>3. QED
      BY <3>1, <3>2
  <2>9. ASSUME NEW t \in DOMAIN restores' PROVE \E k \in DOMAIN pairs' : pairs'[k] = t
    <3>1. CASE t = token
      BY <2>5, <3>1
    <3>2. CASE t # token
      <4>1. t \in DOMAIN restores
        BY <2>4, <2>9, <3>2
      <4>2. PICK k \in DOMAIN pairs : pairs[k] = t
        BY <4>1 DEF Reversible
      <4>3. QED
        BY <2>5, <4>2
    <3>3. QED
      BY <3>1, <3>2
  <2>10. Reversible'
    BY <2>7, <2>8, <2>9 DEF Reversible
  <2>11. Grows(restores, restores')
    BY <2>4, <2>7 DEF Reversible, Grows
  <2>12. QED
    BY <2>1, <2>4, <2>10, <2>11 DEF token
<1>4. QED
  BY <1>2, <1>3

-----------------------------------------------------------------------------
(* The texts of a call.                                                    *)

\* Values whose leaves are all redacted.
WholeRedacted(p, result) ==
    /\ DOMAIN result = DOMAIN job[p].leaves
    /\ \A i \in DOMAIN result : RedactedIn(job[p].leaves[i], result[i], restores)

\* The leaves ahead are as they came; those behind are redacted, unless one
\* of them has stopped the value.
Progress(p) ==
    /\ DOMAIN out[p] = DOMAIN job[p].leaves
    /\ \A i \in DOMAIN out[p] : i >= leaf[p] => out[p][i] = job[p].leaves[i].text
    /\ combined[p] = <<>> \/ Disposition(combined[p]) = "none" =>
          \A i \in DOMAIN out[p] :
             i < leaf[p] => RedactedIn(job[p].leaves[i], out[p][i], restores)

Replacing(p) ==
    /\ Current(p).check.kind = "spans" /\ Current(p).check.action = "redact"
    /\ Ahead(Current(p), todo[p])
    /\ Rewritten(Current(p), text[p], NextStart(Current(p).text, todo[p]), restores)

AtPlace(p) ==
    /\ at[p] = "detect" => Current(p).check.kind = "detector"
    /\ at[p] = "replace" => Replacing(p)
    /\ at[p] = "finish" => leaf[p] > Len(job[p].leaves)

Texts(p) ==
    IF at[p] = "done" THEN LetThrough(p) \/ Escalated(p) => WholeRedacted(p, out[p])
    ELSE Progress(p) /\ AtPlace(p)

TextInv ==
    /\ DOMAIN text = Workers /\ DOMAIN todo = Workers
    /\ Reversible
    /\ \A p \in Workers : Texts(p)

\* A step in which no other worker's call changes.
Elsewhere(p) ==
    /\ job' = job /\ DOMAIN text' = Workers /\ DOMAIN todo' = Workers
    /\ \A q \in Workers \ {p} :
          /\ at'[q] = at[q] /\ leaf'[q] = leaf[q] /\ text'[q] = text[q] /\ todo'[q] = todo[q]
          /\ out'[q] = out[q] /\ combined'[q] = combined[q] /\ fault'[q] = fault[q]

LEMMA GrowsItself == Reversible => Grows(restores, restores)
BY DEF Reversible, Grows

\* Whatever else is stored, what a call has rewritten stays redacted.
LEMMA OthersTexts ==
    ASSUME NEW q \in Workers, Texts(q), job' = job, at'[q] = at[q], leaf'[q] = leaf[q],
           text'[q] = text[q], todo'[q] = todo[q], out'[q] = out[q],
           combined'[q] = combined[q], fault'[q] = fault[q], Grows(restores, restores')
    PROVE  Texts(q)'
<1>1. CASE at[q] = "done"
  <2>1. LetThrough(q)' \/ Escalated(q)' <=> LetThrough(q) \/ Escalated(q)
    BY DEF LetThrough, Escalated
  <2>2. WholeRedacted(q, out[q]) => WholeRedacted(q, out[q])'
    <3>1. SUFFICES ASSUME WholeRedacted(q, out[q])
                   PROVE  WholeRedacted(q, out[q])'
      OBVIOUS
    <3>2. DOMAIN out'[q] = DOMAIN job'[q].leaves
      BY <3>1 DEF WholeRedacted
    <3>3. ASSUME NEW i \in DOMAIN out'[q]
          PROVE  RedactedIn(job'[q].leaves[i], out'[q][i], restores')
      <4>1. RedactedIn(job[q].leaves[i], out[q][i], restores)
        BY <3>1, <3>3 DEF WholeRedacted
      <4>2. RedactedIn(job[q].leaves[i], out[q][i], restores')
        BY <4>1, RedactedLater
      <4>3. QED
        BY <4>2
    <3>4. QED
      BY <3>2, <3>3 DEF WholeRedacted
  <2>3. QED
    BY <1>1, <2>1, <2>2 DEF Texts
<1>2. CASE at[q] # "done"
  <2>1. Progress(q) /\ AtPlace(q)
    BY <1>2 DEF Texts
  <2>2. Progress(q)'
    <3>1. ASSUME NEW i \in DOMAIN out[q], i < leaf[q],
                 combined[q] = <<>> \/ Disposition(combined[q]) = "none"
          PROVE  RedactedIn(job[q].leaves[i], out[q][i], restores')
      <4>1. RedactedIn(job[q].leaves[i], out[q][i], restores)
        BY <2>1, <3>1 DEF Progress
      <4>2. QED
        BY <4>1, RedactedLater
    <3>2. /\ DOMAIN out[q] = DOMAIN job[q].leaves
          /\ \A i \in DOMAIN out[q] : i >= leaf[q] => out[q][i] = job[q].leaves[i].text
      BY <2>1 DEF Progress
    <3>3. QED
      BY <3>1, <3>2 DEF Progress
  <2>3. AtPlace(q)'
    <3>1. Current(q)' = Current(q)
      BY DEF Current
    <3>2. ASSUME at[q] = "replace" PROVE Replacing(q)'
      <4>1. Replacing(q)
        BY <2>1, <3>2 DEF AtPlace
      <4>2. Rewritten(Current(q), text[q], NextStart(Current(q).text, todo[q]), restores')
        BY <4>1, RewrittenLater DEF Replacing
      <4>3. QED
        BY <3>1, <4>1, <4>2 DEF Replacing
    <3>3. QED
      BY <2>1, <3>1, <3>2 DEF AtPlace
  <2>4. QED
    BY <1>2, <2>2, <2>3 DEF Texts
<1>3. QED
  BY <1>1, <1>2

LEMMA StepTexts ==
    ASSUME TextInv, NEW p \in Workers, Elsewhere(p), Reversible', Grows(restores, restores'),
           Texts(p)'
    PROVE  TextInv'
<1>1. ASSUME NEW q \in Workers \ {p} PROVE Texts(q)'
  <2>1. /\ job' = job /\ at'[q] = at[q] /\ leaf'[q] = leaf[q] /\ text'[q] = text[q]
        /\ todo'[q] = todo[q] /\ out'[q] = out[q] /\ combined'[q] = combined[q]
        /\ fault'[q] = fault[q]
    BY DEF Elsewhere
  <2>2. Texts(q)
    BY DEF TextInv
  <2>3. QED
    BY <2>1, <2>2, OthersTexts
<1>2. QED
  BY <1>1 DEF TextInv, Elsewhere

LEMMA VaultAlone ==
    ASSUME TextInv, UNCHANGED vaultVars
    PROVE  Reversible' /\ Grows(restores, restores') /\ restores' = restores
<1>1. UNCHANGED <<pairs, restores>> /\ Reversible
  BY DEF vaultVars, TextInv
<1>2. Reversible'
  BY <1>1 DEF Reversible, Meanings
<1>3. QED
  BY <1>1, <1>2, GrowsItself

(* A call ends; if it lets a value through or escalates on its own, every  *)
(* leaf is redacted.                                                       *)
LEMMA EndTexts ==
    ASSUME RedactionInv, TextInv, NEW p \in Workers, NEW result, NEW report, NEW failed,
           End(p, result, report, failed), job' = job, UNCHANGED vaultVars,
           ~failed /\ (report = <<>> \/ Disposition(report) = "none" \/ Escalates(p)) =>
               WholeRedacted(p, result)
    PROVE  TextInv'
<1>1. /\ at' = [at EXCEPT ![p] = "done"] /\ out' = [out EXCEPT ![p] = result]
      /\ combined' = [combined EXCEPT ![p] = report] /\ fault' = [fault EXCEPT ![p] = failed]
      /\ leaf' = leaf /\ text' = text /\ todo' = todo
  BY DEF End
<1>2. Typed /\ DOMAIN text = Workers /\ DOMAIN todo = Workers
  BY DEF RedactionInv, TextInv
<1>3. at'[p] = "done" /\ out'[p] = result /\ combined'[p] = report /\ fault'[p] = failed
  BY <1>1, <1>2 DEF Typed
<1>4. restores' = restores /\ Reversible' /\ Grows(restores, restores')
  BY VaultAlone
<1>5. Elsewhere(p)
  BY <1>1, <1>2 DEF Elsewhere, Typed
<1>6. LetThrough(p)' \/ Escalated(p)' =>
         ~failed /\ (report = <<>> \/ Disposition(report) = "none" \/ Escalates(p))
  BY <1>3 DEF LetThrough, Escalated, Escalates
<1>7. WholeRedacted(p, result) => WholeRedacted(p, out[p])'
  BY <1>3, <1>4 DEF WholeRedacted
<1>8. Texts(p)'
  BY <1>3, <1>6, <1>7 DEF Texts
<1>9. QED
  BY <1>4, <1>5, <1>8, StepTexts

\* A call on its way.
LEMMA UnderwayTexts ==
    ASSUME TextInv, NEW p \in Workers, at[p] # "done"
    PROVE  Progress(p) /\ AtPlace(p)
BY DEF TextInv, Texts

LEMMA Unfinished ==
    ASSUME RedactionInv, TextInv, NEW p \in Workers, at[p] # "done",
           UNCHANGED <<job, leaf, out, combined, fault>>
    PROVE  restores' = restores => Progress(p)'
<1>1. Progress(p)
  BY UnderwayTexts
<1>2. QED
  BY <1>1 DEF Progress

(* A call goes on at the same leaf.                                        *)
LEMMA GoOnTexts ==
    ASSUME RedactionInv, TextInv, NEW p \in Workers, at[p] # "done",
           NEW place \in {"next", "check", "detect", "finish"},
           at' = [at EXCEPT ![p] = place],
           UNCHANGED <<job, leaf, text, todo, out, combined, fault, vaultVars>>,
           place = "detect" => Current(p).check.kind = "detector",
           place = "finish" => leaf[p] > Len(job[p].leaves)
    PROVE  TextInv'
<1>1. Typed /\ DOMAIN text = Workers /\ DOMAIN todo = Workers
  BY DEF RedactionInv, TextInv
<1>2. at'[p] = place
  BY <1>1 DEF Typed
<1>3. restores' = restores /\ Reversible' /\ Grows(restores, restores')
  BY VaultAlone
<1>4. Elsewhere(p)
  BY <1>1 DEF Elsewhere, Typed
<1>5. Progress(p)'
  BY <1>3, Unfinished
<1>6. AtPlace(p)'
  BY <1>2 DEF AtPlace, Current
<1>7. Texts(p)'
  BY <1>2, <1>5, <1>6 DEF Texts
<1>8. QED
  BY <1>3, <1>4, <1>7, StepTexts

\* The result of a call, with the text of its leaf replaced by result.
LeafBecomes(p, result) ==
    /\ DOMAIN out' = Workers /\ \A q \in Workers \ {p} : out'[q] = out[q]
    /\ DOMAIN out'[p] = DOMAIN out[p] /\ out'[p][leaf[p]] = result
    /\ \A i \in DOMAIN out[p] \ {leaf[p]} : out'[p][i] = out[p][i]

LEMMA LeafReplaced ==
    ASSUME RedactionInv, TextInv, NEW p \in Workers, at[p] # "done",
           leaf[p] \in DOMAIN job[p].leaves,
           NEW result, out' = [out EXCEPT ![p][leaf[p]] = result]
    PROVE  LeafBecomes(p, result)
<1>1. DOMAIN out = Workers /\ DOMAIN out[p] = DOMAIN job[p].leaves
  BY UnderwayTexts, AtWork DEF Progress
<1>2. out'[p] = [out[p] EXCEPT ![leaf[p]] = result]
  BY <1>1
<1>3. DOMAIN out' = Workers /\ \A q \in Workers \ {p} : out'[q] = out[q]
  BY <1>1
<1>4. QED
  BY <1>1, <1>2, <1>3 DEF LeafBecomes

LEMMA LeafLeft ==
    ASSUME RedactionInv, TextInv, NEW p \in Workers, at[p] # "done",
           leaf[p] \in DOMAIN job[p].leaves, out' = out
    PROVE  LeafBecomes(p, Current(p).text)
<1>1. /\ DOMAIN out = Workers /\ DOMAIN out[p] = DOMAIN job[p].leaves
      /\ leaf[p] \in Nat
      /\ \A i \in DOMAIN out[p] : i >= leaf[p] => out[p][i] = job[p].leaves[i].text
  BY UnderwayTexts, AtWork DEF Progress
<1>2. out[p][leaf[p]] = Current(p).text
  BY <1>1 DEF Current
<1>3. QED
  BY <1>1, <1>2 DEF LeafBecomes

(* A call goes on to its next leaf, the text of the last one replaced by   *)
(* result or not.  It must be redacted if nothing stops the value.         *)
LEMMA NextTexts ==
    ASSUME RedactionInv, TextInv, NEW p \in Workers, at[p] # "done", NextLeaf(p),
           NEW report, combined' = [combined EXCEPT ![p] = report],
           NEW result, LeafBecomes(p, result),
           leaf[p] \in DOMAIN job[p].leaves, job' = job, UNCHANGED vaultVars,
           report = <<>> \/ Disposition(report) = "none" =>
              /\ combined[p] = <<>> \/ Disposition(combined[p]) = "none"
              /\ RedactedIn(Current(p), result, restores)
    PROVE  TextInv'
<1> DEFINE l == leaf[p]
           leaves == job[p].leaves
<1>1. Typed /\ DOMAIN text = Workers /\ DOMAIN todo = Workers
  BY DEF RedactionInv, TextInv
<1>2. /\ at' = [at EXCEPT ![p] = "next"] /\ leaf' = [leaf EXCEPT ![p] = l + 1]
      /\ text' = text /\ todo' = todo /\ fault' = fault
  BY DEF NextLeaf
<1>3. at'[p] = "next" /\ leaf'[p] = l + 1 /\ combined'[p] = report /\ l \in Nat
  BY <1>1, <1>2 DEF Typed
<1>4. restores' = restores /\ Reversible' /\ Grows(restores, restores')
  BY VaultAlone
<1>5. Elsewhere(p)
  BY <1>1, <1>2 DEF Elsewhere, Typed, LeafBecomes
<1>6. /\ DOMAIN out[p] = DOMAIN leaves
      /\ \A i \in DOMAIN out[p] : i >= l => out[p][i] = leaves[i].text
      /\ combined[p] = <<>> \/ Disposition(combined[p]) = "none" =>
            \A i \in DOMAIN out[p] : i < l => RedactedIn(leaves[i], out[p][i], restores)
  BY UnderwayTexts DEF Progress
<1>8. /\ DOMAIN out'[p] = DOMAIN leaves /\ out'[p][l] = result
      /\ \A i \in DOMAIN leaves \ {l} : out'[p][i] = out[p][i]
  BY <1>6 DEF LeafBecomes
<1>9. DOMAIN leaves \subseteq Nat
  <2>1. job[p] \in Job
    BY AtWork
  <2>2. leaves \in Seq(Leaf)
    BY <2>1 DEF Job
  <2>3. QED
    BY <2>2
<1>10. Current(p) = leaves[l]
  BY DEF Current
<1> HIDE DEF l, leaves
<1>11. ASSUME NEW i \in DOMAIN leaves, i >= l + 1 PROVE out'[p][i] = leaves[i].text
  <2>1. i # l /\ i >= l
    BY <1>3, <1>9, <1>11
  <2>2. QED
    BY <1>6, <1>8, <2>1
<1>12. ASSUME NEW i \in DOMAIN leaves, i < l + 1, report = <<>> \/ Disposition(report) = "none"
       PROVE  RedactedIn(leaves[i], out'[p][i], restores)
  <2>1. CASE i = l
    BY <1>8, <1>10, <1>12, <2>1
  <2>2. CASE i # l
    <3>1. i < l
      BY <1>3, <1>9, <1>12, <2>2
    <3>2. QED
      BY <1>6, <1>8, <1>12, <2>2, <3>1
  <2>3. QED
    BY <2>1, <2>2
<1>13. Progress(p)'
  <2>1. job'[p].leaves = leaves
    BY DEF leaves
  <2>2. QED
    BY <1>3, <1>4, <1>8, <1>11, <1>12, <2>1 DEF Progress
<1>14. AtPlace(p)'
  BY <1>3 DEF AtPlace
<1>15. Texts(p)'
  BY <1>3, <1>13, <1>14 DEF Texts
<1>16. QED
  BY <1>4, <1>5, <1>15, StepTexts

-----------------------------------------------------------------------------
(* A check returns.                                                        *)

\* A check of found that answers r returns a redacted text, the text as it
\* came unless it says that it redacts.
Lets(found, result, r) ==
    /\ RedactedIn(found, result, restores)
    /\ r.action # "redact" => result = found.text

LEMMA LeafInDomain ==
    ASSUME RedactionInv, NEW p \in Workers, AtLeaf(at[p])
    PROVE  leaf[p] \in DOMAIN job[p].leaves /\ at[p] # "done"
<1>1. at[p] # "done" /\ leaf[p] <= Len(job[p].leaves)
  BY LeafType
<1>2. leaf[p] \in Nat \ {0} /\ job[p] \in Job
  BY <1>1, AtWork
<1>3. job[p].leaves \in Seq(Leaf)
  BY <1>2 DEF Job
<1> DEFINE leaves == job[p].leaves
<1>4. leaves \in Seq(Leaf) /\ leaf[p] <= Len(leaves)
  BY <1>1, <1>3
<1> HIDE DEF leaves
<1>5. leaf[p] \in DOMAIN leaves
  BY <1>2, <1>4
<1>6. QED
  BY <1>1, <1>5 DEF leaves

\* A carrier of one text.
LEMMA OneLeaf ==
    ASSUME RedactionInv, NEW p \in Workers, AtLeaf(at[p]), ~Composing(job[p].carrier),
           NEW s, RedactedIn(Current(p), s, restores)
    PROVE  WholeRedacted(p, <<s>>) /\ (s = Current(p).text => WholeRedacted(p, Input(p)))
<1> DEFINE leaves == job[p].leaves
<1>1. Underway(p) /\ job[p] \in Jobs /\ job[p] \in Job /\ leaf[p] <= Len(leaves)
  BY LeafType, AtWork
<1>2. leaf[p] = 1 /\ leaves \in Seq(Leaf)
  BY <1>1 DEF Underway, Job
<1>3. job[p].carrier \in {"text", "map", "raw"}
  BY <1>1 DEF Composing, Job
<1>4. Len(leaves) = 1
  <2>1. Len(leaves) = 1 \/ Len(leaves) <= 1
    <3>1. /\ job[p].carrier \in {"text", "map"} => Len(job[p].leaves) = 1
          /\ job[p].carrier = "raw" => Len(job[p].leaves) <= 1
      BY <1>1, JobsAssumption
    <3>2. QED
      BY <1>3, <3>1
  <2>2. Len(leaves) \in Nat /\ 1 <= Len(leaves)
    BY <1>1, <1>2
  <2> DEFINE n == Len(leaves)
  <2>3. (n = 1 \/ n <= 1) /\ n \in Nat /\ 1 <= n
    BY <2>1, <2>2
  <2> HIDE DEF n
  <2>4. n = 1
    BY <2>3
  <2>5. QED
    BY <2>4 DEF n
<1>5. Current(p) = leaves[1] /\ Input(p) = [i \in DOMAIN leaves |-> leaves[i].text]
  BY <1>2 DEF Current, Input
<1> HIDE DEF leaves
<1>6. DOMAIN leaves = {1}
  BY <1>2, <1>4
<1>7. DOMAIN <<s>> = {1} /\ <<s>>[1] = s
  OBVIOUS
<1>8. WholeRedacted(p, <<s>>)
  BY <1>5, <1>6, <1>7 DEF WholeRedacted, leaves
<1>9. ASSUME s = Current(p).text PROVE WholeRedacted(p, Input(p))
  <2>1. DOMAIN Input(p) = {1} /\ Input(p)[1] = s
    BY <1>5, <1>6, <1>9
  <2>2. QED
    BY <1>5, <1>6, <2>1 DEF WholeRedacted, leaves
<1>10. QED
  BY <1>8, <1>9

LEMMA SliceTexts ==
    ASSUME RedactionInv, TextInv, NEW p \in Workers, AtLeaf(at[p]), NEW result,
           NEW r \in Report, NEW corrupted, AcceptedBySlice(p, result, <<r>>, corrupted),
           job' = job, UNCHANGED vaultVars, Lets(Current(p), result, r)
    PROVE  TextInv'
<1> DEFINE all == <<ComposeReports(combined[p] \o <<r>>)>>
           new == IF r.action = "redact" THEN result ELSE Current(p).text
<1>1. leaf[p] \in DOMAIN job[p].leaves /\ at[p] # "done"
  BY LeafInDomain
<1>2. /\ job[p].carrier = "slice"
      /\ IF Disposition(all) # "none" THEN End(p, Input(p), all, FALSE)
         ELSE /\ combined' = [combined EXCEPT ![p] = all]
              /\ out' = IF r.action = "redact"
                        THEN [out EXCEPT ![p][leaf[p]] = result] ELSE out
              /\ NextLeaf(p)
  BY DEF AcceptedBySlice
<1>3. all # <<>> /\ ~Escalates(p)
  BY <1>2 DEF Escalates
<1>4. RedactedIn(Current(p), new, restores)
  BY DEF Lets
<1> HIDE DEF all
<1>5. CASE Disposition(all) # "none"
  <2>1. End(p, Input(p), all, FALSE)
    BY <1>2, <1>5
  <2>2. QED
    BY <1>1, <1>3, <1>5, <2>1, EndTexts
<1>6. CASE Disposition(all) = "none"
  <2>1. combined' = [combined EXCEPT ![p] = all] /\ NextLeaf(p)
    BY <1>2, <1>6
  <2>2. LeafBecomes(p, new)
    BY <1>1, <1>2, <1>6, LeafReplaced, LeafLeft
  <2>3. combined[p] = <<>> \/ Disposition(combined[p]) = "none"
    BY <1>1, <1>2, AtWork DEF Underway
  <2> HIDE DEF new
  <2>4. QED
    BY <1>1, <1>4, <2>1, <2>2, <2>3, NextTexts
<1>7. QED
  BY <1>5, <1>6

LEMMA JSONTexts ==
    ASSUME RedactionInv, TextInv, NEW p \in Workers, AtLeaf(at[p]), NEW result,
           NEW r \in Report, NEW corrupted, AcceptedByJSON(p, result, <<r>>, corrupted),
           job' = job, UNCHANGED vaultVars, Lets(Current(p), result, r)
    PROVE  TextInv'
<1> DEFINE all == <<ComposeReports(combined[p] \o <<r>>)>>
           taken == Disposition(<<r>>) = "none" /\ r.action = "redact"
           new == IF taken THEN result ELSE Current(p).text
<1>1. leaf[p] \in DOMAIN job[p].leaves /\ at[p] # "done"
  BY LeafInDomain
<1>2. /\ combined' = [combined EXCEPT ![p] = all] /\ NextLeaf(p)
      /\ out' = IF taken THEN [out EXCEPT ![p][leaf[p]] = result] ELSE out
  BY DEF AcceptedByJSON
<1>3. seen[p] \in Seq(Report) /\ combined[p] = Evidence(seen[p])
      /\ all = <<ComposeReports(Append(seen[p], r))>>
  BY <1>1, AtWork, EvidenceFurther
<1>4. ASSUME all = <<>> \/ Disposition(all) = "none"
      PROVE  /\ combined[p] = <<>> \/ Disposition(combined[p]) = "none"
             /\ RedactedIn(Current(p), new, restores)
  <2>1. Disposition(<<ComposeReports(Append(seen[p], r))>>) = "none"
    BY <1>3, <1>4
  <2>2. Disposition(<<ComposeReports(seen[p])>>) = "none"
    BY <1>3, <2>1, LetThroughBefore
  <2>3. r.action # "redact" \/ taken
    BY <1>3, <2>1, RedactionStops
  <2>4. RedactedIn(Current(p), new, restores)
    BY <2>3 DEF Lets
  <2>5. QED
    BY <1>3, <2>2, <2>4 DEF Evidence
<1>5. LeafBecomes(p, new)
  BY <1>1, <1>2, LeafReplaced, LeafLeft
<1> HIDE DEF all, taken, new
<1>6. QED
  BY <1>1, <1>2, <1>4, <1>5, NextTexts

LEMMA MapTexts ==
    ASSUME RedactionInv, TextInv, NEW p \in Workers, AtLeaf(at[p]), NEW result,
           NEW r \in Report, NEW corrupted, AcceptedByMap(p, result, <<r>>, corrupted),
           job' = job, UNCHANGED vaultVars, Lets(Current(p), result, r)
    PROVE  TextInv'
<1> DEFINE normal == NormalizeAll(<<r>>)
           redacts == ~ShouldShortCircuitValidator(r) /\ r.action = "redact"
           mended == <<ComposeReports(Append(normal, Corrupted))>>
<1>1. at[p] # "done"
  BY LeafInDomain
<1>2. /\ ~Composing(job[p].carrier) /\ ~Escalates(p)
      /\ IF ~redacts THEN End(p, Input(p), normal, FALSE)
         ELSE IF corrupted THEN End(p, Input(p), mended, FALSE)
         ELSE End(p, <<result>>, normal, FALSE)
  BY DEF AcceptedByMap, Composing, Escalates
<1>3. r.action # "redact" => WholeRedacted(p, Input(p))
  BY <1>2, OneLeaf DEF Lets
<1>4. ~redacts /\ (normal = <<>> \/ Disposition(normal) = "none") => WholeRedacted(p, Input(p))
  BY <1>3, NormalizedOne, RedactionStops
<1>5. WholeRedacted(p, <<result>>)
  BY <1>2, OneLeaf DEF Lets
<1>6. Disposition(mended) # "none" /\ mended # <<>>
  <2>1. normal \in Seq(Report)
    BY Single, NormalizeAllType
  <2> HIDE DEF normal
  <2>2. QED
    BY <2>1, CorruptedStops
<1> HIDE DEF normal, redacts, mended
<1>7. CASE ~redacts
  <2>1. End(p, Input(p), normal, FALSE)
    BY <1>2, <1>7
  <2>2. QED
    BY <1>1, <1>2, <1>4, <1>7, <2>1, EndTexts
<1>8. CASE redacts /\ corrupted
  <2>1. End(p, Input(p), mended, FALSE)
    BY <1>2, <1>8
  <2>2. QED
    BY <1>1, <1>2, <1>6, <2>1, EndTexts
<1>9. CASE redacts /\ ~corrupted
  <2> DEFINE one == <<result>>
  <2>1. End(p, one, normal, FALSE) /\ WholeRedacted(p, one)
    BY <1>2, <1>5, <1>9
  <2> HIDE DEF one
  <2>2. QED
    BY <1>1, <2>1, EndTexts
<1>10. QED
  BY <1>7, <1>8, <1>9

(* Whatever a check returns, its carrier takes over a redacted text or     *)
(* stops.                                                                  *)
LEMMA ReturnsTexts ==
    ASSUME RedactionInv, TextInv, NEW p \in Workers, AtLeaf(at[p]), NEW result,
           NEW r \in Report, NEW corrupted, Returns(p, result, <<r>>, FALSE, <<>>, corrupted),
           UNCHANGED vaultVars, Lets(Current(p), result, r)
    PROVE  TextInv'
<1>1. at[p] # "done" /\ job' = job
  BY LeafInDomain DEF Returns
<1>2. CASE job[p].carrier = "text"
  <2> DEFINE one == <<result>>
             rep == <<r>>
  <2>1. End(p, one, rep, FALSE)
    BY <1>2 DEF Returns
  <2>2. WholeRedacted(p, one)
    BY <1>2, OneLeaf DEF Lets, Composing
  <2> HIDE DEF one, rep
  <2>3. QED
    BY <1>1, <2>1, <2>2, EndTexts
<1>3. CASE job[p].carrier # "text" /\ p \in ended
  <2>1. Fault(p, combined[p] \o Evidence(<<>>))
    BY <1>3 DEF Returns, Failed
  <2> DEFINE completed == Evidence(combined[p] \o Evidence(<<>>))
             given == Input(p)
  <2>2. End(p, given, completed, TRUE)
    BY <2>1 DEF Fault
  <2> HIDE DEF completed, given
  <2>3. QED
    BY <1>1, <2>2, EndTexts
<1>4. CASE job[p].carrier # "text" /\ p \notin ended
  <2>1. \/ AcceptedBySlice(p, result, <<r>>, corrupted)
        \/ AcceptedByJSON(p, result, <<r>>, corrupted)
        \/ AcceptedByMap(p, result, <<r>>, corrupted)
    BY <1>4 DEF Returns
  <2>2. QED
    BY <1>1, <2>1, SliceTexts, JSONTexts, MapTexts
<1>5. QED
  BY <1>2, <1>3, <1>4

\* A check that fails.
LEMMA ErrorTexts ==
    ASSUME RedactionInv, TextInv, NEW p \in Workers, AtLeaf(at[p]), NEW result, NEW rep,
           NEW own, NEW corrupted, Returns(p, result, rep, TRUE, own, corrupted),
           UNCHANGED vaultVars
    PROVE  TextInv'
<1>1. at[p] # "done" /\ job' = job
  BY LeafInDomain DEF Returns
<1>2. \E completed : Fault(p, completed)
  BY DEF Returns, Failed
<1>3. PICK completed : Fault(p, completed)
  BY <1>2
<1> DEFINE report == Evidence(completed)
           given == Input(p)
<1>4. End(p, given, report, TRUE)
  BY <1>3 DEF Fault
<1> HIDE DEF report, given
<1>5. QED
  BY <1>1, <1>4, EndTexts

-----------------------------------------------------------------------------
(* The steps of a call, and its texts.                                     *)

LEMMA FoundType ==
    ASSUME RedactionInv, TextInv, NEW p \in Workers, AtLeaf(at[p])
    PROVE  LET found == Current(p)
           IN  /\ found.text \in Seq(Symbol) /\ Inside(found.spans, found.text)
               /\ found.check \in Check /\ found.check.action \in {"block", "redact"}
               /\ found.check.space \in Namespaces
               /\ Meanings(restores)
<1> DEFINE found == Current(p)
<1>1. leaf[p] \in DOMAIN job[p].leaves /\ at[p] # "done" /\ found \in Leaf
  BY LeafInDomain, LeafType
<1>2. job[p] \in Jobs
  BY <1>1, AtWork
<1>3. \A span \in found.spans : span[1] <= span[2] /\ span[2] <= Len(found.text)
  BY <1>1, <1>2, JobsAssumption DEF Current
<1> HIDE DEF found
<1>4. /\ found.text \in Seq(Symbol) /\ found.spans \subseteq Nat \X Nat
      /\ found.check \in Check /\ found.check.action \in {"block", "redact"} /\ found.check.space \in Namespaces
  BY <1>1 DEF Leaf, Check
<1>5. QED
  BY <1>3, <1>4 DEF found, Inside, TextInv, Reversible

LEMMA StartTexts ==
    ASSUME RedactionInv, TextInv, NEW p \in Workers, NEW parses \in BOOLEAN, Start(p, parses)
    PROVE  TextInv'
<1>1. at[p] = "start" /\ job' = job /\ UNCHANGED vaultVars
  BY DEF Start
<1>2. CASE Fault(p, <<>>)
  <2> DEFINE report == Evidence(<<>>)
             given == Input(p)
  <2>1. End(p, given, report, TRUE)
    BY <1>2 DEF Fault
  <2> HIDE DEF report, given
  <2>2. QED
    BY <1>1, <2>1, EndTexts
<1>3. CASE job[p].carrier = "json" /\ End(p, Input(p), <<Corrupted>>, FALSE)
  <2> DEFINE report == <<Corrupted>>
             given == Input(p)
  <2>1. Disposition(report) # "none" /\ report # <<>> /\ ~Escalates(p)
    BY <1>3, CorruptedStops DEF Escalates
  <2>2. End(p, given, report, FALSE)
    BY <1>3
  <2> HIDE DEF report, given
  <2>3. QED
    BY <1>1, <2>1, <2>2, EndTexts
<1>4. CASE job[p].leaves = <<>> /\ End(p, Input(p), <<PassReport>>, FALSE)
  <2> DEFINE report == <<PassReport>>
             given == Input(p)
  <2>1. DOMAIN given = DOMAIN job[p].leaves /\ DOMAIN job[p].leaves = {}
    BY <1>4 DEF Input
  <2> HIDE DEF given
  <2>2. WholeRedacted(p, given)
    BY <2>1 DEF WholeRedacted
  <2>3. End(p, given, report, FALSE)
    BY <1>4 DEF given
  <2> HIDE DEF report
  <2>4. QED
    BY <1>1, <2>2, <2>3, EndTexts
<1>5. CASE /\ at' = [at EXCEPT ![p] = "next"]
           /\ UNCHANGED <<leaf, text, todo, out, combined, fault>>
  BY <1>1, <1>5, GoOnTexts
<1>6. QED
  BY <1>2, <1>3, <1>4, <1>5 DEF Start

LEMMA TakeLeafTexts ==
    ASSUME RedactionInv, TextInv, NEW p \in Workers, TakeLeaf(p)
    PROVE  TextInv'
<1>1. at[p] = "next" /\ job' = job /\ UNCHANGED vaultVars
  BY DEF TakeLeaf
<1>2. /\ leaf[p] \in Nat \ {0} /\ combined = [combined EXCEPT ![p] = combined[p]]
      /\ job[p] \in Job
  BY <1>1, AtWork
<1>3. CASE /\ leaf[p] > Len(job[p].leaves)
           /\ at' = [at EXCEPT ![p] = "finish"]
           /\ UNCHANGED <<leaf, text, todo, out, combined, fault>>
  BY <1>1, <1>3, GoOnTexts
<1>4. CASE Fault(p, combined[p])
  <2> DEFINE report == Evidence(combined[p])
             given == Input(p)
  <2>1. End(p, given, report, TRUE)
    BY <1>4 DEF Fault
  <2> HIDE DEF report, given
  <2>2. QED
    BY <1>1, <2>1, EndTexts
<1>5. CASE /\ ~(leaf[p] > Len(job[p].leaves))
           /\ combined[p] # <<>> /\ Disposition(combined[p]) = "system_fault"
           /\ NextLeaf(p) /\ UNCHANGED <<out, combined>>
  <2> DEFINE leaves == job[p].leaves
             report == combined[p]
             kept == Current(p).text
  <2>1. leaves \in Seq(Leaf) /\ ~(leaf[p] > Len(leaves))
    BY <1>2, <1>5 DEF Job
  <2> HIDE DEF leaves
  <2>2. leaf[p] \in DOMAIN leaves
    BY <1>2, <2>1
  <2>3. leaf[p] \in DOMAIN job[p].leaves
    BY <2>2 DEF leaves
  <2>4. LeafBecomes(p, kept)
    BY <1>1, <1>5, <2>3, LeafLeft
  <2>5. combined' = [combined EXCEPT ![p] = report]
    BY <1>2, <1>5
  <2>6. ~(report = <<>> \/ Disposition(report) = "none") /\ NextLeaf(p)
    BY <1>5
  <2> HIDE DEF report, kept
  <2>7. QED
    BY <1>1, <2>3, <2>4, <2>5, <2>6, NextTexts
<1>6. CASE /\ at' = [at EXCEPT ![p] = "check"]
           /\ UNCHANGED <<leaf, text, todo, out, combined, fault>>
  BY <1>1, <1>6, GoOnTexts
<1>7. QED
  BY <1>3, <1>4, <1>5, <1>6 DEF TakeLeaf

LEMMA PatternTexts ==
    ASSUME RedactionInv, TextInv, NEW p \in Workers, NEW corrupted \in BOOLEAN,
           PatternChecks(p, corrupted)
    PROVE  TextInv'
<1> DEFINE found == Current(p)
           r == IF found.spans = {} THEN PassReport ELSE ViolationReport(found.check)
           result == IF r.action = "redact"
                     THEN ReplaceLiterally(found.text, MergeSpans(found.spans))
                     ELSE found.text
<1>1. /\ at[p] = "check" /\ found.check.kind = "pattern" /\ UNCHANGED vaultVars
      /\ Returns(p, result, <<r>>, FALSE, <<>>, corrupted)
  BY DEF PatternChecks
<1>2. AtLeaf(at[p])
  BY <1>1, PlacesApart
<1>3. /\ found.text \in Seq(Symbol) /\ Inside(found.spans, found.text)
      /\ found.check \in Check /\ found.check.action \in {"block", "redact"}
      /\ Meanings(restores)
  BY <1>2, FoundType
<1> HIDE DEF found
<1>4. r \in Report /\ Lets(found, result, r)
  <2>1. CASE found.spans = {}
    <3>1. r = PassReport /\ result = found.text
      BY <2>1, CheckReports
    <3>2. RedactedIn(found, found.text, restores)
      BY <1>3, <2>1, PlainRedacted
    <3>3. QED
      BY <3>1, <3>2, CheckReports DEF Lets
  <2>2. CASE found.spans # {} /\ found.check.action = "block"
    <3>1. r = ViolationReport(found.check) /\ result = found.text
      BY <1>3, <2>2, CheckReports
    <3>2. RedactedIn(found, found.text, restores)
      BY <1>3, <2>2, PlainRedacted DEF Redacts
    <3>3. QED
      BY <1>3, <3>1, <3>2, CheckReports DEF Lets
  <2>3. CASE found.spans # {} /\ found.check.action = "redact"
    <3>1. r = ViolationReport(found.check)
      BY <2>3
    <3>2. r \in Report /\ r.action = "redact"
      BY <1>3, <2>3, <3>1, CheckReports
    <3>3. result = ReplaceLiterally(found.text, MergeSpans(found.spans))
      BY <3>2
    <3>4. Redacts(found) /\ found.check.kind # "spans"
      BY <1>1, <2>3 DEF Redacts
    <3> HIDE DEF r, result
    <3>5. RedactedIn(found, result, restores)
      BY <1>3, <3>3, <3>4, LiteralRedacted
    <3>6. QED
      BY <3>2, <3>5 DEF Lets
  <2>4. QED
    BY <1>3, <2>1, <2>2, <2>3
<1> HIDE DEF r, result
<1>5. QED
  BY <1>1, <1>2, <1>4, ReturnsTexts DEF found

\* A check that does not redact what it was given.
LEMMA PlainTexts ==
    ASSUME RedactionInv, TextInv, NEW p \in Workers, AtLeaf(at[p]), NEW r \in Report,
           Returns(p, Current(p).text, <<r>>, FALSE, <<>>, FALSE), UNCHANGED vaultVars,
           ~Redacts(Current(p)) \/ Current(p).spans = {}
    PROVE  TextInv'
<1>1. Current(p).text \in Seq(Symbol) /\ Meanings(restores)
  BY FoundType
<1>2. RedactedIn(Current(p), Current(p).text, restores)
  BY <1>1, PlainRedacted
<1>3. Lets(Current(p), Current(p).text, r)
  BY <1>2 DEF Lets
<1> DEFINE result == Current(p).text
<1>4. Lets(Current(p), result, r) /\ Returns(p, result, <<r>>, FALSE, <<>>, FALSE)
  BY <1>3
<1> HIDE DEF result
<1>5. QED
  BY <1>4, ReturnsTexts

\* A check that fails, with its text as it came.
LEMMA FailingTexts ==
    ASSUME RedactionInv, TextInv, NEW p \in Workers, AtLeaf(at[p]), NEW own,
           Returns(p, Current(p).text, <<>>, TRUE, own, FALSE), UNCHANGED vaultVars
    PROVE  TextInv'
<1> DEFINE result == Current(p).text
           none == <<>>
<1>1. Returns(p, result, none, TRUE, own, FALSE)
  OBVIOUS
<1> HIDE DEF result, none
<1>2. QED
  BY <1>1, ErrorTexts

LEMMA DetectorStartsTexts ==
    ASSUME RedactionInv, TextInv, NEW p \in Workers, DetectorStarts(p)
    PROVE  TextInv'
<1>1. at[p] = "check" /\ Current(p).check.kind = "detector" /\ UNCHANGED vaultVars
  BY DEF DetectorStarts
<1>2. AtLeaf(at[p]) /\ at[p] # "done"
  BY <1>1, PlacesApart
<1>3. CASE p \in ended
  BY <1>1, <1>2, <1>3, FailingTexts DEF DetectorStarts
<1>4. CASE p \notin ended
  <2>1. at' = [at EXCEPT ![p] = "detect"]
        /\ UNCHANGED <<job, leaf, text, todo, out, combined, fault>>
    BY <1>4 DEF DetectorStarts
  <2>2. QED
    BY <1>1, <1>2, <2>1, GoOnTexts
<1>5. QED
  BY <1>3, <1>4

LEMMA DetectorReturnsTexts ==
    ASSUME RedactionInv, TextInv, NEW p \in Workers, NEW rep \in Optional(Findings),
           DetectorReturns(p, rep)
    PROVE  TextInv'
<1>1. at[p] = "detect" /\ UNCHANGED vaultVars
  BY DEF DetectorReturns
<1>2. AtLeaf(at[p]) /\ at[p] # "done"
  BY <1>1, PlacesApart
<1>3. CASE p \in ended \/ rep = <<>>
  <2>1. PICK own \in Optional(Findings) : Returns(p, Current(p).text, <<>>, TRUE, own, FALSE)
    BY <1>3 DEF DetectorReturns
  <2>2. QED
    BY <1>1, <1>2, <2>1, FailingTexts
<1>4. CASE ~(p \in ended \/ rep = <<>>)
  <2>1. PICK f \in Findings : rep = <<f>>
    BY <1>4 DEF Optional
  <2>2. f \in Report
    BY FindingsAssumption
  <2>3. NormalizeAll(rep) = <<NormalizeReport(f)>> /\ NormalizeReport(f) \in Report
    BY <2>1, <2>2, NormalizedOne
  <2>4. Returns(p, Current(p).text, <<NormalizeReport(f)>>, FALSE, <<>>, FALSE)
    BY <1>4, <2>3 DEF DetectorReturns
  <2>5. ~Redacts(Current(p))
    BY <1>1, <1>2, UnderwayTexts DEF AtPlace, Redacts
  <2>6. QED
    BY <1>1, <1>2, <2>3, <2>4, <2>5, PlainTexts
<1>5. QED
  BY <1>3, <1>4

(* The first text of a leaf: what comes before the first of its spans.     *)
LEMMA SpansFoundTexts ==
    ASSUME RedactionInv, TextInv, NEW p \in Workers, SpansFound(p)
    PROVE  TextInv'
<1> DEFINE found == Current(p)
           spans == MergeSpans(found.spans)
<1>1. at[p] = "check" /\ found.check.kind = "spans" /\ UNCHANGED vaultVars
  BY DEF SpansFound
<1>2. AtLeaf(at[p]) /\ at[p] # "done"
  BY <1>1, PlacesApart
<1>3. /\ found.text \in Seq(Symbol) /\ Inside(found.spans, found.text)
      /\ found.check \in Check /\ found.check.action \in {"block", "redact"}
      /\ Meanings(restores)
  BY <1>2, FoundType
<1>4. CASE Returns(p, found.text, <<>>, TRUE, <<>>, FALSE)
  BY <1>1, <1>2, <1>4, FailingTexts
<1>5. CASE found.spans = {} /\ Returns(p, found.text, <<PassReport>>, FALSE, <<>>, FALSE)
  BY <1>1, <1>2, <1>5, CheckReports, PlainTexts
<1>6. CASE found.check.action = "block"
           /\ Returns(p, found.text, <<ViolationReport(found.check)>>, FALSE, <<>>, FALSE)
  <2>1. ~Redacts(found)
    BY <1>6 DEF Redacts
  <2>2. QED
    BY <1>1, <1>2, <1>3, <1>6, <2>1, CheckReports, PlainTexts
<1>7. CASE /\ found.check.action # "block" /\ at' = [at EXCEPT ![p] = "replace"]
           /\ todo' = [todo EXCEPT ![p] = spans]
           /\ text' = [text EXCEPT ![p] = Between(found.text, 0, spans)]
           /\ UNCHANGED <<job, leaf, out, combined, fault>>
  <2>1. Typed /\ DOMAIN text = Workers /\ DOMAIN todo = Workers
    BY DEF RedactionInv, TextInv
  <2>2. at'[p] = "replace" /\ todo'[p] = spans /\ text'[p] = Between(found.text, 0, spans)
    BY <1>7, <2>1 DEF Typed
  <2>3. restores' = restores /\ Reversible' /\ Grows(restores, restores')
    BY <1>1, VaultAlone
  <2>4. Elsewhere(p)
    BY <1>7, <2>1 DEF Elsewhere, Typed
  <2>5. Current(p)' = found
    BY <1>7 DEF Current
  <2> HIDE DEF found
  <2>6. /\ Ahead(found, spans)
        /\ \A x \in 1..NextStart(found.text, spans) : x \notin Positions(found.spans)
    BY <1>3, MergedAhead
  <2> HIDE DEF spans
  <2>7. Apart(found.text, spans)
    BY <2>6 DEF Ahead
  <2>8. Rewritten(found, Between(found.text, 0, spans), NextStart(found.text, spans), restores)
    BY <1>3, <2>6, <2>7, RewriteStart
  <2>9. found.check.action = "redact"
    BY <1>3, <1>7
  <2>10. Replacing(p)'
    BY <1>1, <2>2, <2>3, <2>5, <2>6, <2>8, <2>9 DEF Replacing
  <2>11. Progress(p)'
    BY <1>2, <1>7, <2>3, Unfinished
  <2>12. Texts(p)'
    BY <2>2, <2>10, <2>11 DEF Texts, AtPlace
  <2>13. QED
    BY <2>3, <2>4, <2>12, StepTexts
<1>8. QED
  BY <1>4, <1>5, <1>6, <1>7 DEF SpansFound

(* One more span is replaced, with the irreversible mark or with a token   *)
(* that the vault gave for what the span covers.                           *)
LEMMA ReplaceFurther ==
    ASSUME RedactionInv, TextInv, NEW p \in Workers, at[p] = "replace", todo[p] # <<>>,
           Grows(restores, restores'), Reversible', NEW x \in Visible(restores'), ~Letter(x),
           Current(p).check.vault # "none" =>
              x \in DOMAIN restores' /\ restores'[x] = Covered(Current(p).text, Head(todo[p])),
           text' = [text EXCEPT ![p] = Replaced(p, x)], todo' = [todo EXCEPT ![p] = Tail(@)],
           UNCHANGED <<job, at, leaf, out, combined, fault>>
    PROVE  TextInv'
<1> DEFINE found == Current(p)
           spans == todo[p]
           s == text[p]
           more == (s \o <<x>>) \o Between(found.text, Head(spans)[2], Tail(spans))
<1>1. Typed /\ DOMAIN text = Workers /\ DOMAIN todo = Workers
  BY DEF RedactionInv, TextInv
<1>2. AtLeaf(at[p]) /\ at[p] # "done"
  BY PlacesApart
<1>3. found.text \in Seq(Symbol) /\ Meanings(restores')
  BY <1>2, FoundType DEF Grows
<1>4. /\ found.check.kind = "spans" /\ found.check.action = "redact" /\ Ahead(found, spans)
      /\ Rewritten(found, s, NextStart(found.text, spans), restores)
  BY <1>2, UnderwayTexts DEF AtPlace, Replacing
<1>5. Rewritten(found, s, Head(spans)[1], restores')
  <2>1. NextStart(found.text, spans) = Head(spans)[1]
    BY DEF NextStart
  <2>2. QED
    BY <1>4, <2>1, RewrittenLater
<1>6. Append(s, x) = s \o <<x>>
  <2>1. s \in Seq(Visible(restores'))
    BY <1>5 DEF Rewritten
  <2> HIDE DEF s
  <2>2. QED
    BY <2>1, AppendIsConcat
<1>7. text'[p] = more /\ todo'[p] = Tail(spans) /\ at'[p] = "replace"
  BY <1>1, <1>6 DEF Replaced
<1>8. Current(p)' = found
  BY DEF Current
<1>9. Elsewhere(p)
  BY <1>1 DEF Elsewhere, Typed
<1>10. found.check.kind = "spans" /\ found.check.vault # "none" =>
          x \in DOMAIN restores' /\ restores'[x] = Covered(found.text, Head(spans))
  OBVIOUS
<1>11. spans # <<>>
  OBVIOUS
<1> HIDE DEF found, spans, s
<1>12. Rewritten(found, more, NextStart(found.text, Tail(spans)), restores')
  BY <1>3, <1>4, <1>5, <1>10, <1>11, RewriteFurther
<1>13. Ahead(found, Tail(spans))
  BY <1>3, <1>4, <1>11, AheadTail
<1> HIDE DEF more
<1>14. Replacing(p)'
  BY <1>4, <1>7, <1>8, <1>12, <1>13 DEF Replacing
<1>15. Progress(p)'
  <2>1. Progress(p)
    BY <1>2, UnderwayTexts
  <2>2. ASSUME NEW i \in DOMAIN out[p], i < leaf[p],
               combined[p] = <<>> \/ Disposition(combined[p]) = "none"
        PROVE  RedactedIn(job[p].leaves[i], out[p][i], restores')
    <3>1. RedactedIn(job[p].leaves[i], out[p][i], restores)
      BY <2>1, <2>2 DEF Progress
    <3>2. QED
      BY <3>1, RedactedLater
  <2>3. QED
    BY <2>1, <2>2 DEF Progress
<1>16. Texts(p)'
  BY <1>7, <1>14, <1>15 DEF Texts, AtPlace
<1>17. QED
  BY <1>9, <1>16, StepTexts

LEMMA ReplaceSpanTexts ==
    ASSUME RedactionInv, TextInv, Issued, NEW p \in Workers, ReplaceSpan(p)
    PROVE  TextInv'
<1> DEFINE found == Current(p)
           original == Covered(found.text, Head(todo[p]))
           space == found.check.space
           token == TokenOf(space, original)
<1>1. at[p] = "replace" /\ todo[p] # <<>>
  BY DEF ReplaceSpan
<1>2. AtLeaf(at[p]) /\ at[p] # "done"
  BY <1>1, PlacesApart
<1>3. CASE StoreFails(p)
  BY <1>2, <1>3, FailingTexts DEF StoreFails
<1>4. CASE StoreSucceeds(p)
  <2>1. /\ todo' = [todo EXCEPT ![p] = Tail(@)]
        /\ UNCHANGED <<job, at, leaf, out, combined, fault>>
    BY <1>4 DEF StoreSucceeds
  <2>2. CASE found.check.vault = "none"
    <3>1. UNCHANGED vaultVars /\ text' = [text EXCEPT ![p] = Replaced(p, Mark)]
      BY <1>4, <2>2 DEF StoreSucceeds
    <3>2. Reversible' /\ Grows(restores, restores')
      BY <3>1, VaultAlone
    <3>3. Mark \in Visible(restores') /\ ~Letter(Mark)
      BY MarkType DEF Visible
    <3>4. QED
      BY <1>1, <2>1, <2>2, <3>1, <3>2, <3>3, ReplaceFurther
  <2>3. CASE found.check.vault # "none"
    <3>1. Store(space, original) /\ text' = [text EXCEPT ![p] = Replaced(p, token)]
      BY <1>4, <2>3 DEF StoreSucceeds
    <3>2. space \in Namespaces /\ found.text \in Seq(Symbol)
      BY <1>2, FoundType
    <3>3. Ahead(found, todo[p])
      BY <1>1, <1>2, UnderwayTexts DEF AtPlace, Replacing
    <3>4. original \in Seq(Symbol)
      <4> DEFINE a == Head(todo[p])[1]
                 b == Head(todo[p])[2]
      <4>1. b \in 0..Len(found.text) /\ a \in 0..b
        BY <1>1, <3>2, <3>3, AheadTail
      <4>2. Len(found.text) \in 0..Len(found.text)
        BY <3>2
      <4>3. original = SubSeq(found.text, a + 1, b)
        BY DEF Covered
      <4> HIDE DEF a, b, found, original
      <4>4. QED
        BY <3>2, <4>1, <4>3, SubSeqParts, <4>2
    <3>5. Reversible
      BY DEF TextInv
    <3> HIDE DEF space, original
    <3>6. /\ Reversible' /\ Grows(restores, restores') /\ token \in Token
          /\ token \in DOMAIN restores' /\ restores'[token] = original
      BY <3>1, <3>2, <3>4, <3>5, StoreGrows
    <3> HIDE DEF token
    <3>7. token \in Visible(restores') /\ ~Letter(token)
      BY <3>6, TokensNoLetters DEF Visible
    <3>8. restores'[token] = Covered(Current(p).text, Head(todo[p]))
      BY <3>6 DEF original
    <3>9. QED
      BY <1>1, <2>1, <3>1, <3>6, <3>7, <3>8, ReplaceFurther
  <2>4. QED
    BY <2>2, <2>3
<1>5. QED
  BY <1>3, <1>4 DEF ReplaceSpan

(* All spans of a leaf are replaced.                                       *)
LEMMA SpansReplacedTexts ==
    ASSUME RedactionInv, TextInv, NEW p \in Workers, NEW corrupted \in BOOLEAN,
           SpansReplaced(p, corrupted)
    PROVE  TextInv'
<1> DEFINE found == Current(p)
           r == ViolationReport(found.check)
           result == text[p]
<1>1. at[p] = "replace" /\ todo[p] = <<>> /\ UNCHANGED vaultVars
  BY DEF SpansReplaced
<1>2. AtLeaf(at[p]) /\ at[p] # "done"
  BY <1>1, PlacesApart
<1>3. CASE p \in ended
  BY <1>1, <1>2, <1>3, FailingTexts DEF SpansReplaced
<1>4. CASE p \notin ended
  <2>1. Returns(p, result, <<r>>, FALSE, <<>>, corrupted)
    BY <1>4 DEF SpansReplaced
  <2>2. /\ found.check.kind = "spans" /\ found.check.action = "redact"
        /\ Rewritten(found, result, NextStart(found.text, todo[p]), restores)
    BY <1>1, <1>2, UnderwayTexts DEF AtPlace, Replacing
  <2>3. NextStart(found.text, todo[p]) = Len(found.text)
    BY <1>1 DEF NextStart
  <2>4. found.text \in Seq(Symbol) /\ found.check \in Check
    BY <1>2, FoundType
  <2>5. Redacts(found)
    BY <2>2 DEF Redacts
  <2>6. RedactedIn(found, result, restores)
    BY <2>2, <2>3, <2>4, <2>5, RewrittenWhole
  <2>7. Lets(found, result, r) /\ r \in Report
    BY <2>2, <2>4, <2>6, CheckReports DEF Lets
  <2> HIDE DEF r, result
  <2>8. QED
    BY <1>1, <1>2, <2>1, <2>7, ReturnsTexts
<1>5. QED
  BY <1>3, <1>4

(* All leaves are behind: a value that nothing stopped is redacted.        *)
LEMMA FinishTexts ==
    ASSUME RedactionInv, TextInv, NEW p \in Workers, Finish(p)
    PROVE  TextInv'
<1> DEFINE report == combined[p]
           given == Input(p)
           result == out[p]
           last == IF combined[p] = <<>> THEN <<PassReport>> ELSE combined[p]
<1>1. at[p] = "finish" /\ job' = job /\ UNCHANGED vaultVars /\ at[p] # "done"
  BY DEF Finish
<1>2. \/ /\ job[p].carrier = "json" /\ report # <<>> /\ Disposition(report) # "none"
         /\ End(p, given, report, FALSE)
      \/ Fault(p, report)
      \/ End(p, result, last, FALSE)
  BY DEF Finish
<1>3. CASE /\ job[p].carrier = "json" /\ report # <<>> /\ Disposition(report) # "none"
           /\ End(p, given, report, FALSE)
  <2>1. ~Escalates(p)
    BY <1>3 DEF Escalates
  <2> HIDE DEF report, given
  <2>2. QED
    BY <1>1, <1>3, <2>1, EndTexts
<1>4. CASE Fault(p, report)
  <2> DEFINE carried == Evidence(report)
  <2>1. End(p, given, carried, TRUE)
    BY <1>4 DEF Fault
  <2> HIDE DEF carried, given
  <2>2. QED
    BY <1>1, <2>1, EndTexts
<1>5. CASE End(p, result, last, FALSE)
  <2>1. leaf[p] > Len(job[p].leaves) /\ Progress(p)
    BY <1>1, UnderwayTexts DEF AtPlace
  <2>2. leaf[p] \in Nat /\ job[p] \in Job
    BY <1>1, AtWork
  <2>3. last = <<>> \/ Disposition(last) = "none" =>
           combined[p] = <<>> \/ Disposition(combined[p]) = "none"
    OBVIOUS
  <2>4. \A i \in DOMAIN job[p].leaves : i < leaf[p]
    <3> DEFINE leaves == job[p].leaves
    <3>1. leaves \in Seq(Leaf) /\ leaf[p] > Len(leaves)
      BY <2>1, <2>2 DEF Job
    <3> HIDE DEF leaves
    <3>2. \A i \in DOMAIN leaves : i < leaf[p]
      BY <2>2, <3>1
    <3>3. QED
      BY <3>2 DEF leaves
  <2>5. last = <<>> \/ Disposition(last) = "none" => WholeRedacted(p, result)
    BY <2>1, <2>3, <2>4 DEF Progress, WholeRedacted
  <2>6. ~Escalates(p)
    <3>1. ASSUME job[p].carrier = "text" PROVE FALSE
      <4>1. leaf[p] = 1 /\ job[p] \in Jobs
        BY <1>1, <3>1, AtWork DEF Underway, Composing
      <4>2. Len(job[p].leaves) = 1
        BY <3>1, <4>1, JobsAssumption
      <4>3. QED
        BY <2>1, <4>1, <4>2
    <3>2. QED
      BY <3>1 DEF Escalates
  <2> HIDE DEF last, result
  <2>7. QED
    BY <1>1, <1>5, <2>5, <2>6, EndTexts
<1>6. QED
  BY <1>2, <1>3, <1>4, <1>5

LEMMA StutterTexts ==
    ASSUME RedactionInv, TextInv,
           UNCHANGED <<job, at, leaf, text, todo, out, combined, fault, vaultVars>>
    PROVE  TextInv'
<1>1. restores' = restores /\ Reversible' /\ Grows(restores, restores')
  BY VaultAlone
<1>2. DOMAIN text = Workers /\ DOMAIN todo = Workers
  BY DEF TextInv
<1>3. ASSUME NEW q \in Workers PROVE Texts(q)'
  <2>1. Texts(q)
    BY DEF TextInv
  <2>2. QED
    BY <1>1, <2>1, OthersTexts
<1>4. QED
  BY <1>1, <1>2, <1>3 DEF TextInv

LEMMA InitTexts == Init => TextInv
<1>1. SUFFICES ASSUME Init PROVE TextInv
  OBVIOUS
<1>2. RedactionInv /\ Reversible
  BY <1>1, InitKeeps, ReversibleInit DEF Init
<1>3. DOMAIN text = Workers /\ DOMAIN todo = Workers
  BY <1>1 DEF Init
<1>4. ASSUME NEW p \in Workers PROVE Texts(p)
  <2>1. at[p] = "start" /\ leaf[p] = 1 /\ out[p] = Input(p)
    BY <1>1 DEF Init
  <2>2. /\ DOMAIN out[p] = DOMAIN job[p].leaves
        /\ \A i \in DOMAIN out[p] : out[p][i] = job[p].leaves[i].text
    BY <2>1 DEF Input
  <2>3. \A i \in DOMAIN job[p].leaves : ~(i < 1)
    <3> DEFINE leaves == job[p].leaves
    <3>1. job[p] \in Job
      BY <1>2, <2>1, AtWork
    <3>2. leaves \in Seq(Leaf)
      BY <3>1 DEF Job
    <3> HIDE DEF leaves
    <3>3. \A i \in DOMAIN leaves : ~(i < 1)
      BY <3>2
    <3>4. QED
      BY <3>3 DEF leaves
  <2>4. Progress(p)
    BY <2>1, <2>2, <2>3 DEF Progress
  <2>5. QED
    BY <2>1, <2>4 DEF Texts, AtPlace
<1>5. QED
  BY <1>2, <1>3, <1>4 DEF TextInv

LEMMA StepKeepsTexts ==
    ASSUME RedactionInv, TextInv, Issued, NEW p \in Workers, Step(p)
    PROVE  TextInv'
<1>1. ASSUME NEW corrupted \in BOOLEAN, PatternChecks(p, corrupted) PROVE TextInv'
  BY <1>1, PatternTexts
<1>2. ASSUME NEW corrupted \in BOOLEAN, SpansReplaced(p, corrupted) PROVE TextInv'
  BY <1>2, SpansReplacedTexts
<1>3. ASSUME NEW parses \in BOOLEAN, Start(p, parses) PROVE TextInv'
  BY <1>3, StartTexts
<1>4. ASSUME NEW rep \in Optional(Findings), DetectorReturns(p, rep) PROVE TextInv'
  BY <1>4, DetectorReturnsTexts
<1>5. QED
  BY <1>1, <1>2, <1>3, <1>4, TakeLeafTexts, DetectorStartsTexts, SpansFoundTexts,
     ReplaceSpanTexts, FinishTexts DEF Step

LEMMA NextTextsKept == RedactionInv /\ Issued /\ TextInv /\ [Next]_vars => TextInv'
<1>1. SUFFICES ASSUME RedactionInv, Issued, TextInv, [Next]_vars PROVE TextInv'
  OBVIOUS
<1>2. ASSUME NEW p \in Workers, Step(p) PROVE TextInv'
  BY <1>1, <1>2, StepKeepsTexts
<1>3. ASSUME NEW p \in Workers, ContextEnds(p) PROVE TextInv'
  <2>1. UNCHANGED <<job, at, leaf, text, todo, out, combined, fault, vaultVars>>
    BY <1>3 DEF ContextEnds
  <2>2. QED
    BY <1>1, <2>1, StutterTexts
<1>4. CASE UNCHANGED vars
  <2>1. UNCHANGED <<job, at, leaf, text, todo, out, combined, fault, vaultVars>>
    BY <1>4 DEF vars, workVars
  <2>2. QED
    BY <1>1, <2>1, StutterTexts
<1>5. QED
  BY <1>1, <1>2, <1>3, <1>4 DEF Next, Finished

(* A value that is let through, by any carrier and with any spans of its   *)
(* texts, overlapping or not, has every found letter replaced and no other;*)
(* where a vault stood behind the check, its tokens restore every text,    *)
(* however the calls on that vault interleave.  A value that is stopped    *)
(* comes back as it was, or, from a fatal redaction called directly, fully *)
(* redacted.                                                               *)
THEOREM AlwaysRedactedOrUntouched == Spec => []RedactedOrUntouched
<1>1. TextInv /\ Untouched => RedactedOrUntouched
  <2>1. SUFFICES ASSUME TextInv, Untouched, NEW p \in Workers, at[p] = "done",
                        LetThrough(p) \/ Escalated(p)
                 PROVE  /\ DOMAIN out[p] = DOMAIN job[p].leaves
                        /\ \A i \in DOMAIN out[p] : Redacted(job[p].leaves[i], out[p][i])
    BY DEF RedactedOrUntouched
  <2>2. WholeRedacted(p, out[p])
    BY <2>1 DEF TextInv, Texts
  <2>3. QED
    BY <2>2, RedactedInIs DEF WholeRedacted
<1>2. QED
  BY <1>1, InitTexts, NextTextsKept, InvAlways, IssuedAlways, StoppedIsUntouched, PTL DEF Spec
=============================================================================
