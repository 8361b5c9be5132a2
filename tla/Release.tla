------------------------------ MODULE Release ------------------------------
(***************************************************************************)
(* The release script: invocations one after another over the record in    *)
(* library-releases/active and the remote repository.  An invocation may   *)
(* be killed between any two of its steps, which leaves its lock behind;   *)
(* the push may be rejected, or accepted without the script learning so;   *)
(* others move the remote at any time.  Modules are numbered as listed,    *)
(* the root module first.  A tag is the number of the candidate it names,  *)
(* 0 when there is none; others' tags name none of ours.                   *)
(***************************************************************************)
EXTENDS Naturals, Sequences

CONSTANTS
    Modules,      \* the number of modules of the selected source
    MaxKills,     \* bounds: invocations killed,
    MaxFaults,    \*   failed gates, remote reads and refused confirmations,
    MaxMoves      \*   moves of the remote by others

ASSUME BoundsAssumption ==
    /\ Modules \in Nat \ {0}
    /\ {MaxKills, MaxFaults, MaxMoves} \subseteq Nat

VARIABLES
    defects,    \* what is wrong with each module: an unexpected path, a local tag
                \*   (the root module's path is what the others are compared with)
    active,     \* the record
    lock,       \* the lock directory exists
    at,         \* where the running invocation is, or "idle"
    session,    \* what only the running invocation knows
    remote,     \* the remote's main branch and tags
    history,    \* the record has been archived
    attempted,  \* a push was attempted and the remote not looked at since
    pushed,     \* a push was attempted at all
    kills, faults, moves

budgets == <<kills, faults, moves>>
ghosts == <<attempted, pushed>>
vars == <<defects, active, lock, at, session, remote, history, ghosts, budgets>>

Foreign == 1000

\* How far the first invocation came: the directory, its plain records, the
\* checkout, the module list, the list of module paths (paths of them so far).
Stages == {"nothing", "made", "records", "checkout", "modules", "paths"}

\* candidate: number of the candidate commit, and how many modules' paths its
\* manifests were prepared from; refs: how many tags are sealed, if any.
Candidate == [number : Nat \ {0}, covers : 0..Modules]

Optional(S) == {<<>>} \cup {<<x>> : x \in S}

Statuses == {"none", "partial", "complete", "unknown", "collision"}

\* main lies behind the selected source, at it, ahead of it or on another line.
Remote == [main : {"behind", "at", "ahead", "diverged"}, tags : [1..Modules -> Nat]]

NoRecord ==
    [stage |-> "nothing", paths |-> 0, candidate |-> <<>>, refs |-> <<>>,
     phase |-> "preparing", status |-> "none"]

NoSession == [op |-> "none", pushing |-> FALSE, delivered |-> FALSE, rows |-> <<>>]

Go(to) == at' = to /\ UNCHANGED <<lock, session>>

\* Every way out that the script itself takes gives the lock back.
Exit == at' = "idle" /\ lock' = FALSE /\ session' = NoSession

Put(field, value) == active' = [active EXCEPT ![field] = value]

Faulty == faults < MaxFaults /\ faults' = faults + 1

Steady == faults' = faults

others == <<defects, remote, history, ghosts, kills, moves>>

-----------------------------------------------------------------------------

Init ==
    /\ defects \in {d \in [1..Modules -> {"none", "path", "tag"}] : d[1] # "path"}
    /\ active = NoRecord
    /\ lock = FALSE
    /\ at = "idle"
    /\ session = NoSession
    /\ remote \in [main : {"behind", "at"}, tags : {[m \in 1..Modules |-> 0]}]
    /\ history = FALSE
    /\ attempted = FALSE
    /\ pushed = FALSE
    /\ kills = 0 /\ faults = 0 /\ moves = 0

(* A record that can be loaded: all plain records and a checkout.          *)
Loadable == active.stage \in {"checkout", "modules", "paths"}

Begin(op, to) ==
    /\ at = "idle"
    /\ ~lock
    /\ ~history
    /\ lock' = TRUE
    /\ at' = to
    /\ session' = [NoSession EXCEPT !.op = op, !.rows = remote.tags]
    /\ UNCHANGED <<others, active, faults>>

(* The first invocation, or "resume" by another name.                      *)
BeginRelease ==
    IF active.stage = "nothing" THEN Begin("release", "make")
    ELSE Loadable /\ active.status \notin {"unknown", "collision"} /\ Begin("release", "phase")

BeginInspect == Loadable /\ Begin("inspect", IF active.refs = <<>> THEN "out" ELSE "main")

\* Mutant: nothing but the presence of the list of refs is validated.
BeginFinishUnvalidated == Loadable /\ active.refs # <<>> /\ Begin("finish", "main")

BeginFinish == Loadable /\ Begin("finish", "validate")

Out == at = "out" /\ Exit /\ Steady /\ UNCHANGED <<others, active>>

-----------------------------------------------------------------------------
(* The first invocation records what it selected.                          *)

MakeRecord ==
    /\ \/ at = "make" /\ Put("stage", "made") /\ Go("records")
       \/ at = "records" /\ Put("stage", "records") /\ Go("checkout")
       \/ at = "checkout" /\ Put("stage", "checkout") /\ Go("modules")
       \/ at = "modules" /\ Put("stage", "modules") /\ Go("paths")
       \/ at = "paths" /\ Put("stage", "paths") /\ Go("check")
    /\ Steady
    /\ UNCHANGED others

(* The path of the next module, unless it is the root, is checked, then    *)
(* recorded; then its tag is looked for, locally and in the remote's rows. *)
(* (The manifest's own check is left out: Prepare makes it again.)         *)
CheckModule ==
    LET m == active.paths + 1
    IN  /\ at = "check"
        /\ m <= Modules
        /\ IF m > 1 /\ defects[m] = "path" THEN Exit /\ UNCHANGED active
           ELSE /\ Put("paths", m)
                /\ IF defects[m] = "tag" \/ session.rows[m] # 0 THEN Exit ELSE Go("check")
        /\ Steady
        /\ UNCHANGED others

AllChecked ==
    /\ at = "check"
    /\ active.paths = Modules
    /\ Go("fast")
    /\ Steady
    /\ UNCHANGED <<others, active>>

\* Where each look at the remote's main leads.
AfterFastForward == [fast |-> "phase", before |-> "confirm", again |-> "unknown"]

(* fast_forward: main can be read and lies behind or at the source.        *)
FastForward ==
    /\ at \in DOMAIN AfterFastForward
    /\ \/ Faulty /\ Exit
       \/ /\ Steady
          /\ IF remote.main \in {"behind", "at"} THEN Go(AfterFastForward[at]) ELSE Exit
    /\ UNCHANGED <<others, active>>

-----------------------------------------------------------------------------
(* Preparing, sealing and validating the candidate.                        *)

(* An interrupted preparation is rebuilt, an identified candidate is not.  *)
Phase ==
    /\ at = "phase"
    /\ IF active.phase = "prepared" THEN Go("validate") /\ UNCHANGED active
       ELSE IF active.candidate # <<>> THEN Go("seal") /\ Put("refs", <<0>>)
       ELSE Go("prepare") /\ UNCHANGED active
    /\ Steady
    /\ UNCHANGED others

(* The source's own gates run; then the manifests are rewritten for the    *)
(* recorded module paths, committed, and the commit is recorded.           *)
Prepare ==
    /\ at = "prepare"
    /\ \/ Faulty /\ Exit /\ UNCHANGED active
       \/ /\ Steady
          /\ IF active.stage # "paths" THEN Exit /\ UNCHANGED active
             ELSE /\ Put("candidate", <<[number |-> kills + faults + 1, covers |-> active.paths]>>)
                  /\ Go("sealing")
    /\ UNCHANGED others

\* seal starts over with an empty list of refs.
StartSeal ==
    /\ at = "sealing"
    /\ Put("refs", <<0>>)
    /\ Go("seal")
    /\ Steady
    /\ UNCHANGED others

Seal ==
    /\ at = "seal"
    /\ IF active.refs[1] < Modules THEN Put("refs", <<active.refs[1] + 1>>) /\ Go("seal")
       ELSE Put("phase", "prepared") /\ Go("validate")
    /\ Steady
    /\ UNCHANGED others

(* The refs must be those of all modules, each the candidate's.            *)
Validate ==
    /\ at = "validate"
    /\ IF active.candidate # <<>> /\ active.refs = <<Modules>> THEN Go("main") ELSE Exit
    /\ Steady
    /\ UNCHANGED <<others, active>>

-----------------------------------------------------------------------------
(* Observing the remote: main first, then the tags.                        *)

CandidateTag == active.candidate[1].number

Tags(values) == {m \in 1..active.refs[1] : remote.tags[m] \in values}

Observed ==
    IF \E m \in 1..active.refs[1] : remote.tags[m] \notin {0, CandidateTag} THEN "collision"
    ELSE IF Tags({CandidateTag}) = 1..active.refs[1] /\ session.delivered THEN "complete"
    ELSE IF Tags({CandidateTag}) = {} THEN "none"
    ELSE "partial"

\* What an invocation does once it knows the status.
Conclude(status) ==
    IF session.op = "finish" /\ status = "complete" THEN Go("archive")
    ELSE IF session.op = "release" /\ ~session.pushing /\ status \in {"none", "partial"}
    THEN Go("before")
    ELSE Exit

Unreadable ==
    /\ at \in {"main", "tags"}
    /\ Faulty
    /\ Put("status", "unknown")
    /\ Exit
    /\ UNCHANGED others

ObserveMain ==
    /\ at = "main"
    /\ session' = [session EXCEPT !.delivered = remote.main \in {"at", "ahead"}]
    /\ at' = "tags"
    /\ Steady
    /\ UNCHANGED <<others, active, lock>>

\* Mutant: an inspection shows the status without recording it.
ObserveTagsReadOnly ==
    /\ at = "tags"
    /\ IF session.op = "inspect" THEN UNCHANGED active ELSE Put("status", Observed)
    /\ attempted' = FALSE
    /\ Conclude(Observed)
    /\ Steady
    /\ UNCHANGED <<defects, remote, history, pushed, kills, moves>>

ObserveTags ==
    /\ at = "tags"
    /\ Put("status", Observed)
    /\ attempted' = FALSE
    /\ Conclude(Observed)
    /\ Steady
    /\ UNCHANGED <<defects, remote, history, pushed, kills, moves>>

-----------------------------------------------------------------------------
(* Publishing and archiving.                                               *)

(* The exact refs are shown, and confirmed or not.                         *)
Confirm ==
    /\ at = "confirm"
    /\ \/ Faulty /\ Exit
       \/ Steady /\ Go("again")
    /\ UNCHANGED <<others, active>>

\* Mutant: the record says so only once the push has returned.
PutUnknownLate ==
    /\ at = "unknown"
    /\ Go("push")
    /\ Steady
    /\ UNCHANGED <<others, active>>

(* Before the push the record says that its outcome is unknown.            *)
PutUnknown ==
    /\ at = "unknown"
    /\ Put("status", "unknown")
    /\ Go("push")
    /\ Steady
    /\ UNCHANGED others

Acceptable ==
    /\ remote.main \in {"behind", "at"}
    /\ \A m \in 1..Modules : remote.tags[m] \in {0, CandidateTag}

(* One atomic push of main and all tags; whatever it answers, the remote   *)
(* is observed next.  It may be lost before it reaches the remote.         *)
Push ==
    /\ at = "push"
    /\ \/ /\ Acceptable
          /\ remote' = [main |-> "at", tags |-> [m \in 1..Modules |-> CandidateTag]]
          /\ Steady
       \/ ~Acceptable /\ Steady /\ UNCHANGED remote
       \/ Faulty /\ UNCHANGED remote
    /\ attempted' = TRUE
    /\ pushed' = TRUE
    /\ session' = [session EXCEPT !.pushing = TRUE]
    /\ at' = "main"
    /\ UNCHANGED <<defects, active, lock, history, kills, moves>>

Archive ==
    /\ at = "archive"
    /\ history' = TRUE
    /\ Exit
    /\ Steady
    /\ UNCHANGED <<defects, active, remote, ghosts, kills, moves>>

Invocation ==
    \/ MakeRecord \/ CheckModule \/ AllChecked \/ FastForward
    \/ Phase \/ Prepare \/ StartSeal \/ Seal \/ Validate
    \/ Unreadable \/ ObserveMain \/ ObserveTags
    \/ Confirm \/ PutUnknown \/ Push \/ Archive \/ Out

-----------------------------------------------------------------------------
(* The environment.                                                        *)

Killed ==
    /\ at # "idle"
    /\ kills < MaxKills
    /\ kills' = kills + 1
    /\ at' = "idle"
    /\ session' = NoSession
    /\ UNCHANGED <<defects, active, lock, remote, history, ghosts, faults, moves>>

(* The operator removes the lock of a process that is gone.                *)
ClearLock ==
    /\ at = "idle"
    /\ lock
    /\ lock' = FALSE
    /\ UNCHANGED <<others, active, at, session, faults>>

(* Others move main, never back, or create a tag.                          *)
RemoteMoves ==
    /\ moves < MaxMoves
    /\ moves' = moves + 1
    /\ \/ \E main \in {"at", "ahead", "diverged"} :
             /\ remote.main = "behind" \/ (remote.main = "at" /\ main = "ahead")
             /\ remote' = [remote EXCEPT !.main = main]
       \/ \E m \in 1..Modules :
             /\ remote.tags[m] = 0
             /\ remote' = [remote EXCEPT !.tags[m] = Foreign]
    /\ UNCHANGED <<defects, active, lock, at, session, history, ghosts, kills, faults>>

\* What an operator who follows the runbook does next, reading phase and status.
\* (A record whose list of refs a kill truncated may say "complete".)
Operator ==
    \/ ClearLock
    \/ active.status \in {"unknown", "collision"} /\ BeginInspect
    \/ active.status \in {"none", "partial"} /\ BeginRelease
    \/ active.status = "complete" /\ active.phase = "preparing" /\ BeginRelease
    \/ active.status = "complete" /\ active.phase = "prepared" /\ BeginFinish

Anyhow == BeginRelease \/ BeginInspect \/ BeginFinish

Next == Invocation \/ Operator \/ Anyhow \/ Killed \/ RemoteMoves

Spec == Init /\ [][Next]_vars

\* An invocation that runs goes on; an operator comes back to the runbook, even
\* if others start invocations of their own in between.
FairSpec == Spec /\ WF_vars(Invocation) /\ SF_vars(Operator)

-----------------------------------------------------------------------------
(* Properties.                                                             *)

Published ==
    /\ remote.main \in {"at", "ahead"}
    /\ active.candidate # <<>>
    /\ \A m \in 1..Modules : remote.tags[m] = CandidateTag

(* A push whose outcome nobody has looked at is on record as unknown,      *)
(* whenever the process died.                                              *)
UnknownUntilObserved == attempted => active.status = "unknown"

(* Only a release that is on the remote, with a tag for every module and   *)
(* the source on main, is archived: not one that a rejected push, a lost   *)
(* response, others' tags or a list of refs truncated by a kill leaves     *)
(* incomplete.  Nothing is said of what the tagged manifests were prepared *)
(* from.                                                                   *)
ArchivedIsPublished == history => Published

(* Others stand in the way, and no retry can help.                         *)
Blocked ==
    \/ \E m \in 1..Modules : remote.tags[m] = Foreign
    \/ remote.main = "diverged"
    \/ remote.main = "ahead" /\ \E m \in 1..Modules : remote.tags[m] = 0

\* The first invocation has checked every module and found nothing wrong.
PrerequisitesHeld ==
    /\ active.stage = "paths"
    /\ active.paths = Modules
    /\ \A m \in 1..Modules : defects[m] = "none"

(* A release whose prerequisites were checked and held, however often it   *)
(* is killed from then on, whatever response is lost, is published and     *)
(* archived by an operator who follows the runbook, unless others stand in *)
(* the way.                                                                *)
RecoveryCompletes == PrerequisitesHeld ~> (history \/ Blocked)

(* The runbook: the release "updates internal requirements to the new      *)
(* version", those on every module of the selected source, and "a failed   *)
(* prerequisite, source gate, preparation or candidate identity check      *)
(* prevents push".  For the prerequisites that the first invocation checks *)
(* of each module, and for the list of module paths it records.            *)
PushedIsPrepared ==
    pushed => /\ \A m \in 1..Modules : defects[m] = "none"
              /\ active.candidate[1].covers = Modules
=============================================================================
