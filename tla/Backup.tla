------------------------------- MODULE Backup -------------------------------
(***************************************************************************)
(* `alih backup` (internal/cli/backup.go, and the recorder of              *)
(* internal/cli/state.go): several runs, each a process of its own, over   *)
(* the operation lock, the state documents, the event log and the backup   *)
(* root.  A run records that it started, takes the lock of its scope,      *)
(* works in a private directory through the stages of the pipeline, moves  *)
(* that directory to its final name, and records how it ended.  It may     *)
(* fail at any stage, be interrupted (SIGINT, SIGTERM) or be killed.       *)
(*                                                                         *)
(* Taking the lock is one step, which is what OperationLock implements.    *)
(* Updating the document is the three steps of StateStore, because the     *)
(* runs are different processes and the first update is made before the    *)
(* lock is taken.                                                          *)
(*                                                                         *)
(* The final name is made of the NAME of the workspace and of the second   *)
(* the run started; the scope, of connector, workspace ID and root.  So    *)
(* runs of two scopes may be after one final name, under different locks.  *)
(* The same holds of the final name with ".failed", where failed work is   *)
(* moved.  Both names are looked at before they are taken, by two system   *)
(* calls, and what a rename replaces is the platform's (Replaceable).      *)
(***************************************************************************)
EXTENDS StateRecord

CONSTANTS Runs,            (* processes running `alih backup`              *)
          Scopes,          (* connector, workspace and destination         *)
          Names,           (* directories of workspaces under the root     *)
          ScopeOf,         (* the scope of a run                           *)
          NameOf,          (* the directory of a scope's workspace         *)
          MaxTime,         (* bound: ticks of the clock                    *)
          TicksPerSecond,  (* a start time is finer than a final name      *)
          Foreign,         (* what other programs put at these names       *)
          Replaceable,     (* what renaming a directory onto it replaces   *)
          StoreMayFail,    (* reading or writing state and events may fail *)
          Kills,           (* bound: the runs that may be killed           *)
          Interrupts       (* bound: the runs that may be interrupted      *)

(* A directory with something in it, an empty one, a file.                 *)
Things == {"tree", "empty", "file"}

ASSUME BackupAssumption ==
  /\ ScopeOf \in [Runs -> Scopes]
  /\ NameOf \in [Scopes -> Names]
  /\ MaxTime \in Nat
  /\ TicksPerSecond \in Nat \ {0}
  /\ Foreign \subseteq Things
  /\ Replaceable \subseteq {"empty", "file"}
  /\ StoreMayFail \in BOOLEAN
  /\ Kills \subseteq Runs
  /\ Interrupts \subseteq Runs
  /\ Runs \cap (Things \cup {None}) = {}

VARIABLES
  clock,        (* the time of day                                         *)
  pc,           (* where each run is in runBackup                          *)
  job,          (* which transition its recorder is recording              *)
  start,        (* when it started                                         *)
  pending,      (* the record it holds in memory, during an Update only    *)
  refusal,      (* why its recorder stopped recording, or "none"           *)
  recording,    (* its recorder still emits events                         *)
  interrupted,  (* its context is cancelled                                *)
  verdict,      (* the result of its verification                          *)
  work,         (* where it believes its working directory is              *)
  filled,       (* there is something in its working directory             *)
  identified,   (* it could read the manifest of what it published         *)
  told,         (* what its exit code and output said                      *)
  lock,         (* the operation lock of each scope                        *)
  record,       (* the state document of each scope                        *)
  bundle,       (* what stands at each final name                          *)
  evidence,     (* what stands at each final name with ".failed"           *)
  events,       (* the event log                                           *)
  overtaken     (* history: the name a run found free and is about to take *)
                (* is free no longer                                       *)

local == <<start, verdict, work, filled, identified, interrupted>>
recorder == <<job, pending, refusal, recording>>
disk == <<lock, record, bundle, evidence, events, overtaken>>
vars == <<clock, pc, job, start, pending, refusal, recording, interrupted,
          verdict, work, filled, identified, told, lock, record, bundle,
          evidence, events, overtaken>>

-----------------------------------------------------------------------------
Dirs == Names \X (0..MaxTime)
Verdicts == {"VERIFIED", "VERIFIED_WITH_LIMITATIONS"}
Jobs == {"start", "skip", "fail", "succeed"}

(* Where a failed attempt can say that its working directory is.           *)
FailedPaths == ({"partial"} \X Runs) \cup ({"failed"} \X Dirs)

ASSUME NoneAssumption ==
  None \notin Dirs \cup FailedPaths \cup Verdicts \cup Outcomes
               \cup Things

(* finalRoot.                                                              *)
Dir(r) == <<NameOf[ScopeOf[r]], start[r] \div TicksPerSecond>>

(* Bug: the preserved name is recorded whether or not it could be taken.   *)
FailedPathAssumed(r) ==
  IF work[r] = "none" THEN None ELSE <<"failed", Dir(r)>>

(* workingRoot, as a failed attempt records it.                            *)
FailedPath(r) ==
  CASE work[r] = "partial" -> <<"partial", r>>
    [] work[r] = "failed" -> <<"failed", Dir(r)>>
    [] OTHER -> None

(* The record a job makes of the record it read.                           *)
Recorded(r, read) ==
  CASE job[r] = "start" ->
         WithAttempt(read, Attempt(r, start[r], "STARTED", None, None))
    [] job[r] = "skip" ->
         WithAttempt(read, Attempt(r, start[r], "SKIPPED", None, None))
    [] job[r] = "fail" ->
         WithAttempt(read, Attempt(r, start[r], "FAILED", None, FailedPath(r)))
    [] job[r] = "succeed" ->
         WithSuccess(read, Attempt(r, start[r], "SUCCEEDED", Dir(r), None),
                     IF identified[r] THEN Dir(r) ELSE None)

EventOf == [start |-> "operation.started", skip |-> "operation.skipped",
            fail |-> "operation.failed", succeed |-> "operation.completed"]

OutcomeOf == [skip |-> "SKIPPED", fail |-> "FAILED", succeed |-> "SUCCEEDED"]

Stages == {"scan", "extract", "export", "verify", "report"}
After == [scan |-> "extract", extract |-> "export", export |-> "verify",
          verify |-> "report", report |-> "publish"]

(* Holding the lock, between taking it and its deferred release.           *)
InPipeline(r) ==
  pc[r] \in Stages \cup {"lstat", "mkdir", "publish", "rename", "identify",
                         "preserve", "moveAside"}

GoTo(r, l) == pc' = [pc EXCEPT ![r] = l]

(* A name is looked at, for the run to take it, or given up.               *)
Afresh(r) == overtaken' = [overtaken EXCEPT ![r] = FALSE]

(* What gives way to a directory that is renamed onto it: an empty one on  *)
(* POSIX, a file on Windows, according to backup.go.  Where an empty one   *)
(* does, so does the empty working directory of a run.                     *)
Yields(thing) ==
  \/ thing = None
  \/ thing \in Replaceable
  \/ thing \in Runs /\ "empty" \in Replaceable /\ ~filled[thing]

(* Something appears at a name: whoever looked and is about to take it     *)
(* found it free, and it is so no longer.                                  *)
Overtakes(at, d, by) ==
  overtaken' = [q \in Runs |->
                  q # by /\ (overtaken[q] \/ (pc[q] = at /\ Dir(q) = d))]

-----------------------------------------------------------------------------
(* The recorder.                                                           *)

(* skip, fail and succeed do nothing once recording state has failed.      *)
Conclude(r, j) ==
  /\ job' = [job EXCEPT ![r] = j]
  /\ GoTo(r, IF refusal[r] = "none" THEN "load" ELSE "end")

Load(r) ==
  /\ pc[r] = "load"
  /\ pending' = [pending EXCEPT ![r] = Recorded(r, record[ScopeOf[r]])]
  /\ GoTo(r, "check")
  /\ UNCHANGED <<clock, job, refusal, recording, local, told, disk>>

Check(r) ==
  /\ pc[r] = "check"
  /\ Validate(pending[r])
  /\ record[ScopeOf[r]].revision = pending[r].revision
  /\ GoTo(r, "commit")
  /\ UNCHANGED <<clock, recorder, local, told, disk>>

(* Whether or not the document was written, the event follows; that of a   *)
(* success comes after that of its verification, if there is one.          *)
Recount(r) ==
  GoTo(r, IF job[r] = "succeed" /\ identified[r] THEN "emitVerification"
                                                 ELSE "emit")

Refuse(r, why) ==
  /\ refusal' = [refusal EXCEPT ![r] = why]
  /\ pending' = [pending EXCEPT ![r] = ZeroRecord]
  /\ Recount(r)
  /\ UNCHANGED <<clock, job, recording, local, told, disk>>

CheckRefused(r) ==
  /\ pc[r] = "check"
  /\ \/ ~Validate(pending[r]) /\ Refuse(r, "invalid")
     \/ /\ Validate(pending[r])
        /\ record[ScopeOf[r]].revision # pending[r].revision
        /\ Refuse(r, "conflict")

StoreFails(r) ==
  /\ StoreMayFail
  /\ pc[r] \in {"load", "check", "commit"}
  /\ Refuse(r, "io")

Commit(r) ==
  /\ pc[r] = "commit"
  /\ record' = [record EXCEPT ![ScopeOf[r]] =
                  [pending[r] EXCEPT !.revision = @ + 1]]
  /\ pending' = [pending EXCEPT ![r] = ZeroRecord]
  /\ Recount(r)
  /\ UNCHANGED <<clock, job, refusal, recording, local, told, lock, bundle,
                 evidence, events, overtaken>>

(* The first event whose writing fails is the last that is tried; it may   *)
(* be in the log all the same, when only the sync failed.                  *)
Append(r, event) ==
  /\ \/ /\ recording[r]
        /\ events' = events \cup {<<r, event>>}
        /\ UNCHANGED recording
     \/ /\ recording[r] => StoreMayFail
        /\ recording' = [recording EXCEPT ![r] = FALSE]
        /\ \/ UNCHANGED events
           \/ recording[r] /\ events' = events \cup {<<r, event>>}
  /\ UNCHANGED <<clock, job, pending, refusal, local, told, lock, record,
                 bundle, evidence, overtaken>>

EmitVerification(r) ==
  /\ pc[r] = "emitVerification"
  /\ GoTo(r, "emit")
  /\ Append(r, "verification.recorded")

Emit(r) ==
  /\ pc[r] = "emit"
  /\ GoTo(r, IF job[r] = "start" THEN "lock" ELSE "end")
  /\ Append(r, EventOf[job[r]])

(* Bug: the lock is not released when the run ends.                        *)
EndHolding(r) ==
  /\ pc[r] = "end"
  /\ told' = [told EXCEPT ![r] = OutcomeOf[job[r]]]
  /\ GoTo(r, "done")
  /\ UNCHANGED <<clock, recorder, local, disk>>

(* The outcome is printed and the deferred release runs.                   *)
End(r) ==
  /\ pc[r] = "end"
  /\ told' = [told EXCEPT ![r] = OutcomeOf[job[r]]]
  /\ lock' = [s \in Scopes |-> IF lock[s] = r THEN None ELSE lock[s]]
  /\ GoTo(r, "done")
  /\ UNCHANGED <<clock, recorder, local, record, bundle, evidence, events,
                 overtaken>>

-----------------------------------------------------------------------------
(* runBackup, before the pipeline.                                         *)

(* Authentication, the choice of the workspace or the destination fails:   *)
(* there is no scope to record against.                                    *)
NeverBegins(r) ==
  /\ pc[r] = "idle"
  /\ told' = [told EXCEPT ![r] = "FAILED"]
  /\ GoTo(r, "done")
  /\ UNCHANGED <<clock, recorder, local, disk>>

Begin(r) ==
  /\ pc[r] = "idle"
  /\ start' = [start EXCEPT ![r] = clock]
  /\ job' = [job EXCEPT ![r] = "start"]
  /\ GoTo(r, "load")
  /\ UNCHANGED <<clock, pending, refusal, recording, verdict, work, filled,
                 identified, interrupted, told, disk>>

(* No state directory or no operation ID: nothing is recorded at all.      *)
BeginUnrecorded(r) ==
  /\ StoreMayFail
  /\ pc[r] = "idle"
  /\ start' = [start EXCEPT ![r] = clock]
  /\ refusal' = [refusal EXCEPT ![r] = "io"]
  /\ recording' = [recording EXCEPT ![r] = FALSE]
  /\ GoTo(r, "lock")
  /\ UNCHANGED <<clock, job, pending, verdict, work, filled, identified,
                 interrupted, told, disk>>

(* Bug: the lock is taken from whoever has it.                             *)
TakeLockAnyway(r) ==
  /\ pc[r] = "lock"
  /\ lock' = [lock EXCEPT ![ScopeOf[r]] = r]
  /\ GoTo(r, "lstat")
  /\ UNCHANGED <<clock, recorder, local, told, record, bundle, evidence, events,
                 overtaken>>

TakeLock(r) ==
  /\ pc[r] = "lock"
  /\ lock[ScopeOf[r]] = None
  /\ lock' = [lock EXCEPT ![ScopeOf[r]] = r]
  /\ GoTo(r, "lstat")
  /\ UNCHANGED <<clock, recorder, local, told, record, bundle, evidence, events,
                 overtaken>>

(* backupOverlap: ErrHeld is a skip, not a failure.                        *)
LockHeld(r) ==
  /\ pc[r] = "lock"
  /\ lock[ScopeOf[r]] # None
  /\ Conclude(r, "skip")
  /\ UNCHANGED <<clock, pending, refusal, recording, local, told, disk>>

LockFails(r) ==
  /\ pc[r] = "lock"
  /\ Conclude(r, "fail")
  /\ UNCHANGED <<clock, pending, refusal, recording, local, told, disk>>

Lstat(r) ==
  /\ pc[r] = "lstat"
  /\ bundle[Dir(r)] = None
  /\ GoTo(r, "mkdir")
  /\ UNCHANGED <<clock, recorder, local, told, disk>>

(* The final name exists, or a directory cannot be made.                   *)
SetupFails(r) ==
  /\ pc[r] \in {"lstat", "mkdir"}
  /\ Conclude(r, "fail")
  /\ UNCHANGED <<clock, pending, refusal, recording, local, told, disk>>

Mkdir(r) ==
  /\ pc[r] = "mkdir"
  /\ work' = [work EXCEPT ![r] = "partial"]
  /\ GoTo(r, "scan")
  /\ UNCHANGED <<clock, recorder, start, verdict, filled, identified, interrupted,
                 told, disk>>

-----------------------------------------------------------------------------
(* The pipeline.                                                           *)

(* The context is looked at before the scan.  The extraction is the first  *)
(* to put something into the working directory, the snapshot.              *)
StageDone(r) ==
  /\ pc[r] \in {"scan", "extract", "export"}
  /\ pc[r] = "scan" => ~interrupted[r]
  /\ filled' = [filled EXCEPT ![r] = @ \/ pc[r] = "extract"]
  /\ GoTo(r, After[pc[r]])
  /\ UNCHANGED <<clock, recorder, start, verdict, work, identified, interrupted,
                 told, disk>>

Verify(r) ==
  /\ pc[r] = "verify"
  /\ \E result \in Verdicts : verdict' = [verdict EXCEPT ![r] = result]
  /\ GoTo(r, After["verify"])
  /\ UNCHANGED <<clock, recorder, start, work, filled, identified, interrupted,
                 told, disk>>

(* The report verifies again and must agree; the context is looked at for  *)
(* the last time.                                                          *)
Report(r) ==
  /\ pc[r] = "report"
  /\ \E result \in Verdicts : result = verdict[r]
  /\ ~interrupted[r]
  /\ GoTo(r, After["report"])
  /\ UNCHANGED <<clock, recorder, local, told, disk>>

(* A scan that fails leaves the working directory empty, an extraction may *)
(* fail before it made the snapshot.                                       *)
StageFails(r) ==
  /\ pc[r] \in Stages
  /\ \E made \in BOOLEAN :
       filled' = [filled EXCEPT ![r] = @ \/ (pc[r] = "extract" /\ made)]
  /\ GoTo(r, "preserve")
  /\ UNCHANGED <<clock, recorder, start, verdict, work, identified, interrupted,
                 told, disk>>

LstatAgain(r) ==
  /\ pc[r] = "publish"
  /\ GoTo(r, IF bundle[Dir(r)] = None THEN "rename" ELSE "preserve")
  /\ Afresh(r)
  /\ UNCHANGED <<clock, recorder, local, told, lock, record, bundle, evidence,
                 events>>

(* os.Rename of a directory: what yields on this platform is replaced,     *)
(* anything else in the way is an error.                                   *)
Rename(r) ==
  /\ pc[r] = "rename"
  /\ Yields(bundle[Dir(r)])
  /\ bundle' = [bundle EXCEPT ![Dir(r)] = r]
  /\ work' = [work EXCEPT ![r] = "published"]
  /\ Overtakes("rename", Dir(r), r)
  /\ GoTo(r, "identify")
  /\ UNCHANGED <<clock, recorder, start, verdict, filled, identified, interrupted,
                 told, lock, record, evidence, events>>

(* Bug: an error of the rename is not looked at.                           *)
RenameFailsIgnored(r) ==
  /\ pc[r] = "rename"
  /\ GoTo(r, "identify")
  /\ UNCHANGED <<clock, recorder, local, told, disk>>

RenameFails(r) ==
  /\ pc[r] = "rename"
  /\ GoTo(r, "preserve")
  /\ Afresh(r)
  /\ UNCHANGED <<clock, recorder, local, told, lock, record, bundle, evidence,
                 events>>

(* Bug: an archive that cannot be identified fails the run.                *)
IdentifyStrict(r) ==
  /\ pc[r] = "identify"
  /\ \E ok \in BOOLEAN :
       /\ identified' = [identified EXCEPT ![r] = ok]
       /\ Conclude(r, IF ok THEN "succeed" ELSE "fail")
  /\ UNCHANGED <<clock, pending, refusal, recording, start, verdict, work,
                 filled, interrupted, told, disk>>

(* archiveIdentity of the published archive; an error is only a warning.   *)
Identify(r) ==
  /\ pc[r] = "identify"
  /\ \E ok \in BOOLEAN : identified' = [identified EXCEPT ![r] = ok]
  /\ Conclude(r, "succeed")
  /\ UNCHANGED <<clock, pending, refusal, recording, start, verdict, work,
                 filled, interrupted, told, disk>>

(* Bug: the name is taken without a look, whatever stands there.           *)
LookAsideSkipped(r) ==
  /\ pc[r] = "preserve"
  /\ GoTo(r, "moveAside")
  /\ Afresh(r)
  /\ UNCHANGED <<clock, recorder, local, told, lock, record, bundle, evidence,
                 events>>

(* failBackupWorkingState looks at the name with ".failed".  If something  *)
(* is there, or nothing can be seen, the work stays where it is.           *)
LookAside(r) ==
  /\ pc[r] = "preserve"
  /\ evidence[Dir(r)] = None
  /\ GoTo(r, "moveAside")
  /\ Afresh(r)
  /\ UNCHANGED <<clock, recorder, local, told, lock, record, bundle, evidence,
                 events>>

LeaveWork(r) ==
  /\ pc[r] = "preserve"
  /\ Conclude(r, "fail")
  /\ UNCHANGED <<clock, pending, refusal, recording, local, told, disk>>

(* Its os.Rename: other runs and other programs come between.              *)
MoveAside(r) ==
  /\ pc[r] = "moveAside"
  /\ Yields(evidence[Dir(r)])
  /\ evidence' = [evidence EXCEPT ![Dir(r)] = r]
  /\ work' = [work EXCEPT ![r] = "failed"]
  /\ Overtakes("moveAside", Dir(r), r)
  /\ Conclude(r, "fail")
  /\ UNCHANGED <<clock, pending, refusal, recording, start, verdict, filled,
                 identified, interrupted, told, lock, record, bundle, events>>

MoveAsideFails(r) ==
  /\ pc[r] = "moveAside"
  /\ Conclude(r, "fail")
  /\ Afresh(r)
  /\ UNCHANGED <<clock, pending, refusal, recording, local, told, lock, record,
                 bundle, evidence, events>>

-----------------------------------------------------------------------------
(* What happens to a run.                                                  *)

Running(r) == pc[r] \notin {"idle", "done", "killed"}

Interrupt(r) ==
  /\ r \in Interrupts
  /\ Running(r)
  /\ ~interrupted[r]
  /\ interrupted' = [interrupted EXCEPT ![r] = TRUE]
  /\ UNCHANGED <<clock, pc, recorder, start, verdict, work, filled, identified,
                 told, disk>>

(* SIGKILL, or the machine going down: only the lock is given back.        *)
Kill(r) ==
  /\ r \in Kills
  /\ Running(r)
  /\ lock' = [s \in Scopes |-> IF lock[s] = r THEN None ELSE lock[s]]
  /\ pending' = [pending EXCEPT ![r] = ZeroRecord]
  /\ GoTo(r, "killed")
  /\ UNCHANGED <<clock, job, refusal, recording, local, told, record, bundle,
                 evidence, events, overtaken>>

Tick ==
  /\ clock < MaxTime
  /\ clock' = clock + 1
  /\ UNCHANGED <<pc, recorder, local, told, disk>>

(* Somebody else creates something at a final name, or at its ".failed".   *)
SomebodyCreates(d) ==
  /\ \/ /\ bundle[d] = None
        /\ \E thing \in Foreign : bundle' = [bundle EXCEPT ![d] = thing]
        /\ Overtakes("rename", d, None)
        /\ UNCHANGED evidence
     \/ /\ evidence[d] = None
        /\ \E thing \in Foreign : evidence' = [evidence EXCEPT ![d] = thing]
        /\ Overtakes("moveAside", d, None)
        /\ UNCHANGED bundle
  /\ UNCHANGED <<clock, pc, recorder, local, told, lock, record, events>>

-----------------------------------------------------------------------------
Init ==
  /\ clock = 0
  /\ pc = [r \in Runs |-> "idle"]
  /\ job = [r \in Runs |-> "start"]
  /\ start = [r \in Runs |-> 0]
  /\ pending = [r \in Runs |-> ZeroRecord]
  /\ refusal = [r \in Runs |-> "none"]
  /\ recording = [r \in Runs |-> TRUE]
  /\ interrupted = [r \in Runs |-> FALSE]
  /\ verdict = [r \in Runs |-> None]
  /\ work = [r \in Runs |-> "none"]
  /\ filled = [r \in Runs |-> FALSE]
  /\ identified = [r \in Runs |-> FALSE]
  /\ told = [r \in Runs |-> None]
  /\ lock = [s \in Scopes |-> None]
  /\ record = [s \in Scopes |-> ZeroRecord]
  /\ bundle = [d \in Dirs |-> None]
  /\ evidence = [d \in Dirs |-> None]
  /\ events = {}
  /\ overtaken = [r \in Runs |-> FALSE]

(* What a run that has begun does of itself.                               *)
Proceed(r) ==
  \/ Load(r) \/ Check(r) \/ CheckRefused(r) \/ StoreFails(r) \/ Commit(r)
  \/ EmitVerification(r) \/ Emit(r) \/ End(r)
  \/ TakeLock(r) \/ LockHeld(r) \/ LockFails(r)
  \/ Lstat(r) \/ SetupFails(r) \/ Mkdir(r)
  \/ StageDone(r) \/ Verify(r) \/ Report(r) \/ StageFails(r)
  \/ LstatAgain(r) \/ Rename(r) \/ RenameFails(r) \/ Identify(r)
  \/ LookAside(r) \/ LeaveWork(r) \/ MoveAside(r) \/ MoveAsideFails(r)

Next ==
  \/ \E r \in Runs :
       \/ NeverBegins(r) \/ Begin(r) \/ BeginUnrecorded(r)
       \/ Proceed(r) \/ Interrupt(r) \/ Kill(r)
  \/ \E d \in Dirs : SomebodyCreates(d)
  \/ Tick

Spec == Init /\ [][Next]_vars

(* A process that runs keeps running; whether it begins, is interrupted or *)
(* killed, and the hour, are nobody's obligation.                          *)
FairSpec == Spec /\ \A r \in Runs : WF_vars(Proceed(r))

-----------------------------------------------------------------------------
Events == {"operation.started", "operation.skipped", "operation.failed",
           "operation.completed", "verification.recorded"}

AttemptType ==
  [run : Runs, start : 0..MaxTime, outcome : Outcomes,
   archive : Dirs \cup {None}, failedPath : FailedPaths \cup {None}]

RecordType ==
  [revision : Nat, attempt : AttemptType \cup {None},
   success : AttemptType \cup {None}, verification : Dirs \cup {None}]

Labels ==
  Stages \cup {"idle", "load", "check", "commit", "emitVerification", "emit",
               "lock", "lstat", "mkdir", "publish", "rename", "identify",
               "preserve", "moveAside", "end", "done", "killed"}

TypeOK ==
  /\ clock \in 0..MaxTime
  /\ pc \in [Runs -> Labels]
  /\ job \in [Runs -> Jobs]
  /\ start \in [Runs -> 0..MaxTime]
  /\ pending \in [Runs -> RecordType]
  /\ refusal \in [Runs -> {"none", "invalid", "conflict", "io"}]
  /\ recording \in [Runs -> BOOLEAN]
  /\ interrupted \in [Runs -> BOOLEAN]
  /\ verdict \in [Runs -> Verdicts \cup {None}]
  /\ work \in [Runs -> {"none", "partial", "published", "failed"}]
  /\ filled \in [Runs -> BOOLEAN]
  /\ identified \in [Runs -> BOOLEAN]
  /\ told \in [Runs -> {"SKIPPED", "FAILED", "SUCCEEDED", None}]
  /\ lock \in [Scopes -> Runs \cup {None}]
  /\ record \in [Scopes -> RecordType]
  /\ bundle \in [Dirs -> Runs \cup Things \cup {None}]
  /\ evidence \in [Dirs -> Runs \cup Things \cup {None}]
  /\ events \subseteq Runs \X Events
  /\ overtaken \in [Runs -> BOOLEAN]

(* "Never invents a success": whatever updates are lost, refused or cut    *)
(* short, a recorded success or verification points at a bundle that a run *)
(* of that scope verified and published, and that still stands there.      *)
PublishedBy(r, d) == bundle[d] = r /\ d = Dir(r) /\ verdict[r] # None

SuccessIsPublished ==
  \A s \in Scopes :
    /\ record[s].success # None =>
         /\ ScopeOf[record[s].success.run] = s
         /\ PublishedBy(record[s].success.run, record[s].success.archive)
    /\ record[s].verification # None =>
         \E r \in Runs : ScopeOf[r] = s /\ PublishedBy(r, record[s].verification)

(* Two runs of one scope are never both between taking the lock and the    *)
(* end of publication or preservation, and whoever is there has the lock.  *)
OneRunPerScope ==
  \A r \in Runs : InPipeline(r) => lock[ScopeOf[r]] = r

(* What the operator is told is what happened on disk: a success is there  *)
(* under its final name, a failure or a skip published nothing.            *)
ToldIsTrue ==
  \A r \in Runs :
    /\ told[r] = "SUCCEEDED" => bundle[Dir(r)] = r
    /\ told[r] \in {"FAILED", "SKIPPED"} => \A d \in Dirs : bundle[d] # r

(* The event history may be incomplete but never says what did not happen, *)
(* and never says of one run both that it completed and that it did not.   *)
HistoryIsTrue ==
  \A r \in Runs :
    /\ {<<r, "operation.completed">>, <<r, "verification.recorded">>}
         \cap events # {} => bundle[Dir(r)] = r
    /\ {<<r, "operation.failed">>, <<r, "operation.skipped">>}
         \cap events # {} => \A d \in Dirs : bundle[d] # r

(* A failed attempt's working state is where the record says, whichever    *)
(* other run failed in the same second under the same name.  What can take *)
(* its place is the work of a run of another scope, and only if it was     *)
(* empty: the window between failBackupWorkingState's look and its rename  *)
(* loses a name, and nothing that a run had written.                       *)
EvidenceIsWhereRecorded ==
  \A s \in Scopes : \A d \in Dirs :
    /\ record[s].attempt # None
    /\ record[s].attempt.failedPath = <<"failed", d>>
    => \/ evidence[d] = record[s].attempt.run
       \/ /\ ~filled[record[s].attempt.run]
          /\ evidence[d] \in Runs /\ ScopeOf[evidence[d]] # s

(* Whoever takes name d of the final names, or of those with ".failed":    *)
(* the name was free when it looked, and has been taken since.             *)
TakenUnseen(at, d) ==
  \E r \in Runs : pc[r] = at /\ Dir(r) = d /\ overtaken[r]

(* Publication and preservation replace nothing they could have seen: what *)
(* stands at either name goes only if it appeared between a run's look and *)
(* its rename, and then only if it is of what the platform's rename        *)
(* replaces, never a directory with something in it.                       *)
NothingIsReplaced ==
  [][\A d \in Dirs :
       /\ bundle[d] # None /\ bundle'[d] # bundle[d]
            => Yields(bundle[d]) /\ TakenUnseen("rename", d)
       /\ evidence[d] # None /\ evidence'[d] # evidence[d]
            => Yields(evidence[d]) /\ TakenUnseen("moveAside", d)]_vars

(* A run never waits for another, so it ends however the other ends, and   *)
(* leaves the scope free.                                                  *)
EveryRunEnds ==
  \A r \in Runs :
    Running(r) ~> (~Running(r) /\ lock[ScopeOf[r]] # r)

-----------------------------------------------------------------------------
(* Claims the code makes that it does not keep.                            *)

(* backup.go: an operator who reads status sees what they were told.  With *)
(* storage that works, a run that entered the pipeline and is told FAILED  *)
(* was there after every run that succeeded, so status shows no success as *)
(* the last attempt.                                                       *)
FailureIsNotHidden ==
  [][\A r \in Runs :
       /\ told'[r] = "FAILED" /\ told[r] # "FAILED" /\ work[r] # "none"
       /\ record[ScopeOf[r]].attempt # None
       => record[ScopeOf[r]].attempt.outcome # "SUCCEEDED"]_vars

(* HARDENING.md: what a lost update costs is an attempt, so a recorded     *)
(* success is only ever replaced by a success.                             *)
OnlyAttemptsAreLost ==
  [][\A s \in Scopes : \A r \in Runs :
       record[s].success # record'[s].success
         => record'[s].success # None /\ record'[s].success = record'[s].attempt]_vars
=============================================================================
