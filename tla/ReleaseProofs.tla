--------------------------- MODULE ReleaseProofs ---------------------------
(***************************************************************************)
(* What holds of the release record whatever the number of modules, kills, *)
(* failures and moves of the remote.                                       *)
(***************************************************************************)
EXTENDS Release, TLAPS

Record ==
    [stage : Stages, paths : 0..Modules, candidate : Optional(Candidate),
     refs : Optional(0..Modules), phase : {"preparing", "prepared"},
     status : Statuses]

Session ==
    [op : {"none", "release", "inspect", "finish"}, pushing : BOOLEAN,
     delivered : BOOLEAN, rows : {<<>>} \cup [1..Modules -> Nat]]

\* The state as far as the steps of an invocation depend on its type.
RecordTyped ==
    /\ active \in Record
    /\ session \in Session
    /\ remote \in Remote
    /\ kills \in Nat
    /\ faults \in Nat
    /\ at = "seal" => active.refs # <<>>

-----------------------------------------------------------------------------
(* Typing.                                                                 *)

LEMMA PutTyped ==
    ASSUME RecordTyped,
           NEW field \in {"stage", "paths", "candidate", "refs", "phase", "status"},
           NEW value, Put(field, value),
           field = "stage" => value \in Stages,
           field = "paths" => value \in 0..Modules,
           field = "candidate" => value \in Optional(Candidate),
           field = "refs" => value \in Optional(0..Modules),
           field = "phase" => value \in {"preparing", "prepared"},
           field = "status" => value \in Statuses
    PROVE  /\ active' \in Record
           /\ active'[field] = value
           /\ field # "status" => active'.status = active.status
BY DEF RecordTyped, Record, Put

LEMMA GoTyped ==
    ASSUME RecordTyped, NEW to, Go(to) PROVE session' \in Session /\ at' = to
BY DEF RecordTyped, Go

LEMMA ExitTyped == ASSUME Exit PROVE session' \in Session /\ at' = "idle"
BY DEF Exit, NoSession, Session

LEMMA ObservedStatus == Observed \in Statuses
BY DEF Observed, Statuses

LEMMA FaultsTyped ==
    ASSUME RecordTyped, Faulty \/ Steady PROVE faults' \in Nat
BY DEF RecordTyped, Faulty, Steady

LEMMA OthersKept ==
    ASSUME UNCHANGED others
    PROVE  UNCHANGED <<defects, remote, history, attempted, pushed, kills, moves>>
BY DEF others, ghosts

LEMMA TypedInit == Init => RecordTyped
<1>1. SUFFICES ASSUME Init PROVE RecordTyped
  OBVIOUS
<1>2. NoRecord \in Record
  BY BoundsAssumption DEF NoRecord, Record, Stages, Optional, Statuses
<1>3. NoSession \in Session
  BY DEF NoSession, Session
<1>4. remote \in Remote
  <2>1. PICK main \in {"behind", "at"}, tags \in {[m \in 1..Modules |-> 0]} :
           remote = [main |-> main, tags |-> tags]
    <3>1. remote \in [main : {"behind", "at"}, tags : {[m \in 1..Modules |-> 0]}]
      BY <1>1 DEF Init
    <3>2. QED
      BY <3>1
  <2>2. tags \in [1..Modules -> Nat]
    OBVIOUS
  <2>3. QED
    BY <2>1, <2>2 DEF Remote
<1>5. active = NoRecord /\ session = NoSession /\ kills = 0 /\ faults = 0
  BY <1>1 DEF Init
<1>6. kills \in Nat /\ faults \in Nat
  BY <1>5
<1>7. active \in Record /\ session \in Session
  BY <1>2, <1>3, <1>5
<1>8. at # "seal"
  BY <1>1 DEF Init
<1>9. QED
  BY <1>4, <1>6, <1>7, <1>8 DEF RecordTyped

LEMMA StayTyped == ASSUME RecordTyped, UNCHANGED vars PROVE RecordTyped'
BY DEF RecordTyped, vars, budgets

LEMMA BeginTyped ==
    ASSUME RecordTyped, NEW op \in {"release", "inspect", "finish"},
           NEW to, to # "seal", Begin(op, to)
    PROVE  RecordTyped'
<1>1. remote.tags \in [1..Modules -> Nat]
  BY DEF RecordTyped, Remote
<1>2. session' \in Session
  BY <1>1 DEF Begin, NoSession, Session
<1>3. QED
  BY <1>2, OthersKept DEF Begin, RecordTyped

\* A step that only puts a field and goes somewhere.
LEMMA KeptTyped ==
    ASSUME RecordTyped, active' \in Record, session' \in Session,
           Faulty \/ Steady, UNCHANGED others,
           at' = "seal" => active'.refs # <<>>
    PROVE  RecordTyped'
BY FaultsTyped, OthersKept DEF RecordTyped

LEMMA MakingTyped ==
    ASSUME RecordTyped, MakeRecord \/ CheckModule \/ AllChecked \/ FastForward
    PROVE  RecordTyped'
<1>0. active \in Record
  BY DEF RecordTyped
<1>1. CASE MakeRecord
  <2>1. PICK stage \in Stages, to \in {"records", "checkout", "modules", "paths", "check"} :
           Put("stage", stage) /\ Go(to)
    BY <1>1 DEF MakeRecord, Stages
  <2>2. QED
    BY <1>1, <2>1, PutTyped, GoTyped, KeptTyped DEF MakeRecord
<1>2. CASE CheckModule
  <2>1. session' \in Session /\ at' # "seal"
    BY <1>2, GoTyped, ExitTyped DEF CheckModule
  <2>2. active.paths \in 0..Modules
    BY <1>0 DEF Record
  <2>3. active.paths + 1 <= Modules => active.paths + 1 \in 0..Modules
    BY <2>2, BoundsAssumption
  <2>4. active' \in Record
    BY <1>0, <1>2, <2>3, PutTyped DEF CheckModule
  <2>5. QED
    BY <1>2, <2>1, <2>4, KeptTyped DEF CheckModule
<1>3. CASE AllChecked
  BY <1>0, <1>3, GoTyped, KeptTyped DEF AllChecked
<1>4. CASE FastForward
  <2>1. session' \in Session /\ at' # "seal"
    BY <1>4, GoTyped, ExitTyped DEF FastForward, AfterFastForward
  <2>2. QED
    BY <1>0, <1>4, <2>1, KeptTyped DEF FastForward
<1>5. QED
  BY <1>1, <1>2, <1>3, <1>4

LEMMA PreparingTyped ==
    ASSUME RecordTyped, Phase \/ Prepare \/ StartSeal \/ Seal \/ Validate
    PROVE  RecordTyped'
<1>0. active \in Record /\ kills \in Nat /\ faults \in Nat
  BY DEF RecordTyped
<1>1. <<0>> \in Optional(0..Modules)
  BY BoundsAssumption DEF Optional
<1>2. CASE Phase
  <2>1. session' \in Session
    BY <1>2, GoTyped DEF Phase
  <2>2. active' \in Record /\ (at' = "seal" => active'.refs # <<>>)
    BY <1>0, <1>1, <1>2, PutTyped, GoTyped DEF Phase
  <2>3. QED
    BY <1>2, <2>1, <2>2, KeptTyped DEF Phase
<1>3. CASE Prepare
  <2>1. session' \in Session /\ at' # "seal"
    BY <1>3, GoTyped, ExitTyped DEF Prepare
  <2>2. [number |-> kills + faults + 1, covers |-> active.paths] \in Candidate
    BY <1>0 DEF Record, Candidate
  <2>3. <<[number |-> kills + faults + 1, covers |-> active.paths]>> \in Optional(Candidate)
    BY <2>2 DEF Optional
  <2>4. active' \in Record
    BY <1>0, <1>3, <2>3, PutTyped DEF Prepare
  <2>5. QED
    BY <1>3, <2>1, <2>4, KeptTyped DEF Prepare
<1>4. CASE StartSeal
  BY <1>1, <1>4, PutTyped, GoTyped, KeptTyped DEF StartSeal
<1>5. CASE Seal
  <2>1. PICK n \in 0..Modules : active.refs = <<n>>
    BY <1>0, <1>5 DEF RecordTyped, Record, Optional, Seal
  <2>2. CASE n < Modules
    <3>1. <<n + 1>> \in Optional(0..Modules)
      BY <2>2, BoundsAssumption DEF Optional
    <3>2. Put("refs", <<n + 1>>) /\ Go("seal")
      BY <1>5, <2>1, <2>2 DEF Seal
    <3>3. QED
      BY <1>5, <3>1, <3>2, PutTyped, GoTyped, KeptTyped, SMTT(30) DEF Seal
  <2>3. CASE ~(n < Modules)
    <3>1. Put("phase", "prepared") /\ Go("validate")
      BY <1>5, <2>1, <2>3 DEF Seal
    <3>2. QED
      BY <1>5, <3>1, PutTyped, GoTyped, KeptTyped DEF Seal
  <2>4. QED
    BY <2>2, <2>3
<1>6. CASE Validate
  BY <1>0, <1>6, GoTyped, ExitTyped, KeptTyped DEF Validate
<1>7. QED
  BY <1>2, <1>3, <1>4, <1>5, <1>6

LEMMA ObservingTyped ==
    ASSUME RecordTyped, Unreadable \/ ObserveMain \/ ObserveTags \/ Out
    PROVE  RecordTyped'
<1>0. active \in Record /\ session \in Session
  BY DEF RecordTyped
<1>1. CASE Unreadable
  <2>1. "unknown" \in Statuses
    BY DEF Statuses
  <2>2. QED
    BY <1>1, <2>1, PutTyped, ExitTyped, KeptTyped DEF Unreadable
<1>2. CASE ObserveMain
  <2>1. PICK seen \in BOOLEAN : session' = [session EXCEPT !.delivered = seen]
    <3>1. (remote.main \in {"at", "ahead"}) \in BOOLEAN
      OBVIOUS
    <3>2. QED
      BY <1>2, <3>1, Zenon DEF ObserveMain
  <2>2. session' \in Session
    BY <1>0, <2>1 DEF Session
  <2>3. QED
    BY <1>0, <1>2, <2>2, KeptTyped DEF ObserveMain
<1>3. CASE ObserveTags
  <2>1. session' \in Session /\ at' # "seal"
    BY <1>3, GoTyped, ExitTyped DEF ObserveTags, Conclude
  <2>2. active' \in Record
    BY <1>3, ObservedStatus, PutTyped DEF ObserveTags
  <2>3. QED
    BY <1>3, <2>1, <2>2, FaultsTyped DEF ObserveTags, RecordTyped
<1>4. CASE Out
  BY <1>0, <1>4, ExitTyped, KeptTyped DEF Out
<1>5. QED
  BY <1>1, <1>2, <1>3, <1>4

LEMMA PublishingTyped ==
    ASSUME RecordTyped, Confirm \/ PutUnknown \/ Push \/ Archive,
           at = "push" => active.candidate # <<>>
    PROVE  RecordTyped'
<1>0. active \in Record /\ session \in Session
  BY DEF RecordTyped
<1>1. CASE Confirm
  BY <1>0, <1>1, GoTyped, ExitTyped, KeptTyped DEF Confirm
<1>2. CASE PutUnknown
  <2>1. "unknown" \in Statuses
    BY DEF Statuses
  <2>2. QED
    BY <1>2, <2>1, PutTyped, GoTyped, KeptTyped DEF PutUnknown
<1>3. CASE Push
  <2>1. session' \in Session
    BY <1>0, <1>3 DEF Push, Session
  <2>2. CandidateTag \in Nat
    <3>1. PICK c \in Candidate : active.candidate = <<c>>
      BY <1>0, <1>3 DEF Push, Record, Optional
    <3>2. QED
      BY <3>1 DEF CandidateTag, Candidate
  <2>3. remote' \in Remote
    <3>1. [m \in 1..Modules |-> CandidateTag] \in [1..Modules -> Nat]
      BY <2>2
    <3>2. [main |-> "at", tags |-> [m \in 1..Modules |-> CandidateTag]] \in Remote
      BY <3>1 DEF Remote
    <3>3. QED
      BY <1>3, <3>2 DEF Push, RecordTyped
  <2>4. QED
    BY <1>0, <1>3, <2>1, <2>3, FaultsTyped DEF Push, RecordTyped
<1>4. CASE Archive
  BY <1>0, <1>4, ExitTyped, FaultsTyped DEF Archive, RecordTyped
<1>5. QED
  BY <1>1, <1>2, <1>3, <1>4

LEMMA EnvironmentTyped ==
    ASSUME RecordTyped, Killed \/ ClearLock \/ RemoteMoves
    PROVE  RecordTyped'
<1>0. active \in Record /\ session \in Session /\ remote \in Remote
      /\ kills \in Nat /\ faults \in Nat
  BY DEF RecordTyped
<1>1. CASE Killed
  <2>1. session' \in Session
    BY <1>1 DEF Killed, NoSession, Session
  <2>2. QED
    BY <1>0, <1>1, <2>1 DEF Killed, RecordTyped
<1>2. CASE ClearLock
  BY <1>0, <1>2, OthersKept DEF ClearLock, RecordTyped
<1>3. CASE RemoteMoves
  <2>1. ASSUME NEW main \in {"at", "ahead", "diverged"},
               remote' = [remote EXCEPT !.main = main]
        PROVE  remote' \in Remote
    BY <1>0, <2>1 DEF Remote
  <2>2. ASSUME NEW m \in 1..Modules, remote' = [remote EXCEPT !.tags[m] = Foreign]
        PROVE  remote' \in Remote
    <3>1. [remote.tags EXCEPT ![m] = Foreign] \in [1..Modules -> Nat]
      BY <1>0 DEF Remote, Foreign
    <3>2. remote' = [remote EXCEPT !.tags = [remote.tags EXCEPT ![m] = Foreign]]
      BY <2>2, <1>0 DEF Remote
    <3>3. QED
      BY <1>0, <3>1, <3>2 DEF Remote
  <2>3. remote' \in Remote
    BY <1>3, <2>1, <2>2 DEF RemoteMoves
  <2>4. QED
    BY <1>0, <1>3, <2>3 DEF RemoteMoves, RecordTyped
<1>4. QED
  BY <1>1, <1>2, <1>3

LEMMA BeginsTyped ==
    ASSUME RecordTyped, BeginRelease \/ BeginInspect \/ BeginFinish
    PROVE  RecordTyped'
BY BeginTyped DEF BeginRelease, BeginInspect, BeginFinish

-----------------------------------------------------------------------------
(* Control: which invocation is where, and what it has validated.          *)

\* Where a release invocation has validated its record.
Late ==
    {"main", "tags", "before", "confirm", "again", "unknown", "push", "archive"}

Control ==
    /\ session.op = "inspect" => at \in {"out", "main", "tags"}
    /\ session.op = "finish" => at \in {"validate", "main", "tags", "archive"}
    /\ at \in Late /\ session.op # "inspect" =>
          active.candidate # <<>> /\ active.refs = <<Modules>>
    /\ session.delivered => remote.main \in {"at", "ahead"}
    /\ at = "push" => active.status = "unknown"
    /\ at = "archive" => Published
    /\ history => at = "idle"
    /\ UnknownUntilObserved
    /\ ArchivedIsPublished

LEMMA ExitControl ==
    ASSUME Control, at # "idle", Exit, UNCHANGED <<remote, history, attempted>>,
           active'.status \in {active.status, "unknown"}
    PROVE  Control'
BY DEF Control, Exit, NoSession, Late, UnknownUntilObserved, ArchivedIsPublished

LEMMA GoControl ==
    ASSUME Control, at # "idle", NEW to, Go(to), to \notin {"archive", "idle"},
           UNCHANGED <<remote, history, attempted>>,
           active'.status \in {active.status, "unknown"},
           to = "push" => active'.status = "unknown",
           session.op = "inspect" => to \in {"out", "main", "tags"},
           session.op = "finish" => to \in {"validate", "main", "tags"},
           to \in Late /\ session.op # "inspect" =>
              active'.candidate # <<>> /\ active'.refs = <<Modules>>
    PROVE  Control'
BY DEF Control, Go, Late, UnknownUntilObserved, ArchivedIsPublished

LEMMA BeginControl ==
    ASSUME RecordTyped, Control, BeginRelease \/ BeginInspect \/ BeginFinish
    PROVE  Control'
<1>1. PICK op \in {"release", "inspect", "finish"},
           to \in {"make", "phase", "out", "main", "validate"} :
        /\ Begin(op, to)
        /\ op = "inspect" => to \in {"out", "main"}
        /\ op # "inspect" => to \in {"make", "phase", "validate"}
        /\ op = "finish" => to = "validate"
  BY DEF BeginRelease, BeginInspect, BeginFinish
<1>2. session'.op = op /\ ~session'.delivered
  BY <1>1 DEF Begin, NoSession
<1>3. QED
  BY <1>1, <1>2, OthersKept
     DEF Begin, Control, Late, UnknownUntilObserved, ArchivedIsPublished

LEMMA MakingControl ==
    ASSUME RecordTyped, Control, MakeRecord \/ CheckModule \/ AllChecked
    PROVE  Control'
<1>1. at \in {"make", "records", "checkout", "modules", "paths", "check"}
  BY DEF MakeRecord, CheckModule, AllChecked
<1>2. session.op \notin {"inspect", "finish"}
  BY <1>1 DEF Control
<1>3. UNCHANGED <<remote, history, attempted>>
  BY OthersKept DEF MakeRecord, CheckModule, AllChecked
<1>4. active'.status = active.status
  <2>1. CASE UNCHANGED active
    BY <2>1
  <2>2. ASSUME NEW stage, Put("stage", stage) PROVE active'.status = active.status
    BY <2>2 DEF Put, RecordTyped, Record
  <2>3. ASSUME NEW n, Put("paths", n) PROVE active'.status = active.status
    BY <2>3 DEF Put, RecordTyped, Record
  <2>4. QED
    BY <2>1, <2>2, <2>3 DEF MakeRecord, CheckModule, AllChecked
<1>5. \/ Exit
      \/ \E to \in {"records", "checkout", "modules", "paths", "check", "fast"} : Go(to)
  BY DEF MakeRecord, CheckModule, AllChecked
<1>6. QED
  BY <1>1, <1>2, <1>3, <1>4, <1>5, ExitControl, GoControl DEF Late

LEMMA FastForwardControl ==
    ASSUME RecordTyped, Control, FastForward
    PROVE  Control'
<1>1. at \in {"fast", "before", "again"}
  BY DEF FastForward, AfterFastForward
<1>2. session.op \notin {"inspect", "finish"}
  BY <1>1 DEF Control
<1>3. UNCHANGED <<remote, history, attempted, active>>
  BY OthersKept DEF FastForward
<1>4. \/ Exit
      \/ at = "fast" /\ Go("phase")
      \/ at # "fast" /\ \E to \in {"confirm", "unknown"} : Go(to)
  BY <1>1 DEF FastForward, AfterFastForward
<1>5. at # "fast" => active.candidate # <<>> /\ active.refs = <<Modules>>
  BY <1>1, <1>2 DEF Control, Late
<1>6. QED
  BY <1>1, <1>2, <1>3, <1>4, <1>5, ExitControl, GoControl DEF Late

LEMMA PreparingControl ==
    ASSUME RecordTyped, Control, Phase \/ Prepare \/ StartSeal \/ Seal
    PROVE  Control'
<1>1. at \in {"phase", "prepare", "sealing", "seal"}
  BY DEF Phase, Prepare, StartSeal, Seal
<1>2. session.op \notin {"inspect", "finish"}
  BY <1>1 DEF Control
<1>3. UNCHANGED <<remote, history, attempted>>
  BY OthersKept DEF Phase, Prepare, StartSeal, Seal
<1>4. active'.status = active.status
  <2>1. ASSUME NEW field \in {"candidate", "refs", "phase"}, NEW value, Put(field, value)
        PROVE  active'.status = active.status
    BY <2>1 DEF Put, RecordTyped, Record
  <2>2. QED
    BY <2>1 DEF Phase, Prepare, StartSeal, Seal
<1>5. Exit \/ \E to \in {"validate", "seal", "prepare", "sealing"} : Go(to)
  BY DEF Phase, Prepare, StartSeal, Seal
<1>6. QED
  BY <1>1, <1>2, <1>3, <1>4, <1>5, ExitControl, GoControl DEF Late

LEMMA ValidateControl ==
    ASSUME RecordTyped, Control, Validate
    PROVE  Control'
<1>1. UNCHANGED <<remote, history, attempted, active>> /\ at = "validate"
  BY OthersKept DEF Validate
<1>2. \/ Exit
      \/ Go("main") /\ active.candidate # <<>> /\ active.refs = <<Modules>>
  BY DEF Validate
<1>3. QED
  BY <1>1, <1>2, ExitControl, GoControl

LEMMA ConfirmControl ==
    ASSUME RecordTyped, Control, Confirm \/ PutUnknown \/ Out \/ Unreadable
    PROVE  Control'
<1>1. at \in {"confirm", "unknown", "out", "main", "tags"}
  BY DEF Confirm, PutUnknown, Out, Unreadable
<1>2. UNCHANGED <<remote, history, attempted>>
  BY OthersKept DEF Confirm, PutUnknown, Out, Unreadable
<1>3. Put("status", "unknown") =>
         /\ active'.status = "unknown"
         /\ active'.candidate = active.candidate
         /\ active'.refs = active.refs
  BY DEF Put, RecordTyped, Record
<1>4. CASE Confirm \/ PutUnknown
  <2>1. at \in {"confirm", "unknown"} /\ session.op \notin {"inspect", "finish"}
    BY <1>4 DEF Control, Confirm, PutUnknown
  <2>2. active.candidate # <<>> /\ active.refs = <<Modules>>
    BY <2>1 DEF Control, Late
  <2>3. CASE Confirm
    <3>1. Exit \/ Go("again")
      BY <2>3 DEF Confirm
    <3>2. UNCHANGED active
      BY <2>3 DEF Confirm
    <3>3. QED
      BY <1>1, <1>2, <2>1, <2>2, <3>1, <3>2, ExitControl, GoControl
  <2>4. CASE PutUnknown
    <3>1. Go("push") /\ Put("status", "unknown")
      BY <2>4 DEF PutUnknown
    <3>2. QED
      BY <1>1, <1>2, <1>3, <2>1, <2>2, <3>1, GoControl
  <2>5. QED
    BY <1>4, <2>3, <2>4
<1>5. CASE Out \/ Unreadable
  <2>1. Exit /\ (UNCHANGED active \/ Put("status", "unknown"))
    BY <1>5 DEF Out, Unreadable
  <2>2. QED
    BY <1>1, <1>2, <1>3, <2>1, ExitControl
<1>6. QED
  BY <1>4, <1>5

\* All tags of a validated record are the candidate's, and main has the source.
LEMMA CompleteIsPublished ==
    ASSUME RecordTyped, Control, at = "tags", session.op = "finish", Observed = "complete"
    PROVE  Published
<1>1. active.candidate # <<>> /\ active.refs = <<Modules>>
  BY DEF Control, Late
<1>2. Tags({CandidateTag}) = 1..active.refs[1] /\ session.delivered
  BY DEF Observed
<1>3. \A m \in 1..Modules : remote.tags[m] = CandidateTag
  BY <1>1, <1>2 DEF Tags
<1>4. QED
  BY <1>1, <1>2, <1>3 DEF Published, Control

LEMMA ObserveControl ==
    ASSUME RecordTyped, Control, ObserveMain \/ ObserveTags
    PROVE  Control'
<1>1. CASE ObserveMain
  <2>1. /\ UNCHANGED <<remote, history, attempted, active>>
        /\ at = "main" /\ at' = "tags"
        /\ session' = [session EXCEPT !.delivered = remote.main \in {"at", "ahead"}]
    BY <1>1, OthersKept DEF ObserveMain
  <2>2. session'.op = session.op /\ (session'.delivered => remote.main \in {"at", "ahead"})
    BY <2>1 DEF RecordTyped, Session
  <2>3. QED
    BY <2>1, <2>2 DEF Control, Late, UnknownUntilObserved, ArchivedIsPublished
<1>2. CASE ObserveTags
  <2>1. /\ UNCHANGED <<remote, history>>
        /\ at = "tags" /\ attempted' = FALSE /\ ~history
        /\ Put("status", Observed) /\ Conclude(Observed)
    BY <1>2 DEF ObserveTags, Control
  <2>2. UNCHANGED <<active.candidate, active.refs>>
    BY <2>1 DEF Put, RecordTyped, Record
  <2>3. CASE session.op = "finish" /\ Observed = "complete"
    <3>1. Published'
      BY <2>1, <2>2, <2>3, CompleteIsPublished DEF Published, CandidateTag
    <3>2. at' = "archive" /\ session' = session
      BY <2>1, <2>3 DEF Conclude, Go
    <3>3. active.candidate # <<>> /\ active.refs = <<Modules>>
      BY <2>1, <2>3 DEF Control, Late
    <3>4. QED
      BY <2>1, <2>2, <2>3, <3>1, <3>2, <3>3
         DEF Control, UnknownUntilObserved, ArchivedIsPublished
  <2>4. CASE session.op = "release" /\ Go("before")
    <3>1. active.candidate # <<>> /\ active.refs = <<Modules>>
      BY <2>1, <2>4 DEF Control, Late
    <3>2. QED
      BY <2>1, <2>2, <2>4, <3>1
         DEF Go, Control, UnknownUntilObserved, ArchivedIsPublished
  <2>5. CASE Exit
    BY <2>1, <2>5
       DEF Exit, NoSession, Control, Late, UnknownUntilObserved, ArchivedIsPublished
  <2>6. QED
    BY <2>1, <2>3, <2>4, <2>5 DEF Conclude
<1>3. QED
  BY <1>1, <1>2

LEMMA PushControl ==
    ASSUME RecordTyped, Control, Push
    PROVE  Control'
<1>1. /\ UNCHANGED <<active, history>>
      /\ at = "push" /\ at' = "main" /\ ~history /\ active.status = "unknown"
  BY DEF Push, Control
<1>2. UNCHANGED <<session.op, session.delivered>>
  BY DEF Push, RecordTyped, Session
<1>3. remote.main \in {"at", "ahead"} => remote'.main \in {"at", "ahead"}
  BY DEF Push
<1>4. session.op \notin {"inspect", "finish"}
  BY <1>1 DEF Control
<1>5. active.candidate # <<>> /\ active.refs = <<Modules>>
  BY <1>1, <1>4 DEF Control, Late
<1>6. QED
  BY <1>1, <1>2, <1>3, <1>4, <1>5 DEF Control, UnknownUntilObserved, ArchivedIsPublished

LEMMA ArchiveControl ==
    ASSUME RecordTyped, Control, Archive
    PROVE  Control'
<1>1. /\ UNCHANGED <<active, remote, attempted>>
      /\ at = "archive" /\ at' = "idle"
      /\ session'.op = "none" /\ ~session'.delivered
  BY DEF Archive, ghosts, Exit, NoSession
<1>2. Published'
  BY <1>1 DEF Control, Published, CandidateTag
<1>3. QED
  BY <1>1, <1>2 DEF Control, Late, UnknownUntilObserved, ArchivedIsPublished

\* Others never take back what is published.
LEMMA PublishedStays ==
    ASSUME RecordTyped, RemoteMoves
    PROVE  /\ remote.main \in {"at", "ahead"} => remote'.main \in {"at", "ahead"}
           /\ Published => Published'
<1>1. active' = active /\ remote \in Remote
  BY DEF RemoteMoves, RecordTyped
<1>2. ASSUME NEW main \in {"at", "ahead", "diverged"},
             remote.main = "behind" \/ (remote.main = "at" /\ main = "ahead"),
             remote' = [remote EXCEPT !.main = main]
      PROVE  /\ remote.main \in {"at", "ahead"} => remote'.main \in {"at", "ahead"}
             /\ remote'.tags = remote.tags
  BY <1>1, <1>2 DEF Remote
<1>3. ASSUME NEW m \in 1..Modules, remote.tags[m] = 0,
             remote' = [remote EXCEPT !.tags[m] = Foreign]
      PROVE  remote'.main = remote.main /\ ~Published
  <2>1. remote'.main = remote.main
    BY <1>1, <1>3 DEF Remote
  <2>2. ASSUME Published PROVE FALSE
    <3>1. PICK c \in Candidate : active.candidate = <<c>>
      BY <2>2 DEF Published, RecordTyped, Record, Optional
    <3>2. CandidateTag \in Nat \ {0}
      BY <3>1 DEF CandidateTag, Candidate
    <3>3. QED
      BY <1>3, <2>2, <3>2 DEF Published
  <2>3. QED
    BY <2>1, <2>2
<1>4. QED
  BY <1>1, <1>2, <1>3 DEF RemoteMoves, Published, CandidateTag

LEMMA EnvironmentControl ==
    ASSUME RecordTyped, Control, Killed \/ ClearLock \/ RemoteMoves
    PROVE  Control'
<1>1. CASE Killed
  <2>1. /\ UNCHANGED <<active, remote, history, attempted>>
        /\ at # "idle" /\ at' = "idle"
        /\ session'.op = "none" /\ ~session'.delivered
    BY <1>1 DEF Killed, ghosts, NoSession
  <2>2. QED
    BY <2>1 DEF Control, Late, UnknownUntilObserved, ArchivedIsPublished
<1>2. CASE ClearLock
  BY <1>2, OthersKept
     DEF ClearLock, Control, Late, UnknownUntilObserved, ArchivedIsPublished, Published,
         CandidateTag
<1>3. CASE RemoteMoves
  <2>1. UNCHANGED <<active, at, session, history, attempted>>
    BY <1>3 DEF RemoteMoves, ghosts
  <2>2. QED
    BY <1>3, <2>1, PublishedStays
       DEF Control, Late, UnknownUntilObserved, ArchivedIsPublished
<1>4. QED
  BY <1>1, <1>2, <1>3

-----------------------------------------------------------------------------
(* The invariant, and what follows.                                        *)

Inv == RecordTyped /\ Control

LEMMA InvInit == Init => Inv
BY TypedInit
   DEF Inv, Init, NoSession, Control, Late, UnknownUntilObserved, ArchivedIsPublished

LEMMA InvStep == Inv /\ [Next]_vars => Inv'
<1>1. SUFFICES ASSUME RecordTyped, Control, [Next]_vars PROVE RecordTyped' /\ Control'
  BY DEF Inv
<1>2. CASE UNCHANGED vars
  BY <1>1, <1>2, StayTyped
     DEF vars, budgets, ghosts, Control, Late, UnknownUntilObserved, ArchivedIsPublished,
         Published, CandidateTag
<1>3. CASE MakeRecord \/ CheckModule \/ AllChecked
  BY <1>1, <1>3, MakingTyped, MakingControl
<1>4. CASE FastForward
  BY <1>1, <1>4, MakingTyped, FastForwardControl
<1>5. CASE Phase \/ Prepare \/ StartSeal \/ Seal
  BY <1>1, <1>5, PreparingTyped, PreparingControl
<1>6. CASE Validate
  BY <1>1, <1>6, PreparingTyped, ValidateControl
<1>7. CASE ObserveMain \/ ObserveTags
  BY <1>1, <1>7, ObservingTyped, ObserveControl
<1>8. CASE Unreadable \/ Out
  BY <1>1, <1>8, ObservingTyped, ConfirmControl
<1>9. CASE Confirm \/ PutUnknown
  <2>1. at # "push"
    BY <1>9 DEF Confirm, PutUnknown
  <2>2. QED
    BY <1>1, <1>9, <2>1, PublishingTyped, ConfirmControl
<1>10. CASE Push
  <2>1. active.candidate # <<>>
    BY <1>1, <1>10 DEF Push, Control, Late
  <2>2. QED
    BY <1>1, <1>10, <2>1, PublishingTyped, PushControl
<1>11. CASE Archive
  <2>1. at # "push"
    BY <1>11 DEF Archive
  <2>2. QED
    BY <1>1, <1>11, <2>1, PublishingTyped, ArchiveControl
<1>12. CASE Killed \/ ClearLock \/ RemoteMoves
  BY <1>1, <1>12, EnvironmentTyped, EnvironmentControl
<1>13. CASE BeginRelease \/ BeginInspect \/ BeginFinish
  BY <1>1, <1>13, BeginsTyped, BeginControl
<1>14. QED
  BY <1>1, <1>2, <1>3, <1>4, <1>5, <1>6, <1>7, <1>8, <1>9, <1>10, <1>11, <1>12, <1>13
     DEF Next, Invocation, Operator, Anyhow

THEOREM InvAlways == Spec => []Inv
BY InvInit, InvStep, PTL DEF Spec

(* However often and wherever the script is killed, the record says        *)
(* "unknown" from before a push until somebody has looked at the remote.   *)
THEOREM UnknownRecorded == Spec => []UnknownUntilObserved
<1>1. Inv => UnknownUntilObserved
  BY DEF Inv, Control
<1>2. QED
  BY <1>1, InvAlways, PTL

(* For any number of modules, an archived release is on the remote: main   *)
(* has the source and every module its tag, whoever else moved the remote. *)
THEOREM ArchivedAlwaysPublished == Spec => []ArchivedIsPublished
<1>1. Inv => ArchivedIsPublished
  BY DEF Inv, Control
<1>2. QED
  BY <1>1, InvAlways, PTL
=============================================================================
