---------------------------- MODULE BackupProofs ----------------------------
(***************************************************************************)
(* Theorems about Backup for any runs, scopes, names, clock and failures.  *)
(***************************************************************************)
EXTENDS Backup, TLAPS

(* Where a run has not concluded yet.                                      *)
Unconcluded ==
  Stages \cup {"idle", "lock", "lstat", "mkdir", "publish", "rename",
               "identify", "preserve", "moveAside"}

(* What one run knows agrees with where it is: the job says whether it has *)
(* concluded and how, the work where its directory went.                   *)
RunIsConsistent(r) ==
  /\ pc[r] \in Unconcluded => job[r] = "start"
  /\ pc[r] = "end" => job[r] # "start"
  /\ pc[r] = "emitVerification" => job[r] = "succeed"
  /\ pc[r] = "identify" \/ job[r] = "succeed" => work[r] = "published"
  /\ work[r] = "published" =>
       job[r] = "succeed" \/ (job[r] = "start" /\ pc[r] \in {"identify", "killed"})
  /\ work[r] = "failed" => job[r] = "fail"
  /\ pc[r] \in {"report", "publish", "rename"} => verdict[r] # None
  /\ \/ pc[r] \in {"export", "verify", "report", "publish", "rename", "identify"}
     \/ work[r] = "published"
     => filled[r]

ToldAfterwards(r) ==
  /\ told[r] # None => pc[r] = "done"
  /\ told[r] = "SUCCEEDED" => job[r] = "succeed"
  /\ told[r] \in {"FAILED", "SKIPPED"} => job[r] # "succeed"

(* Where a run believes its directory is, it is, unless it was empty and   *)
(* gave way to the work of a run of another scope; and what it published   *)
(* is nowhere else.                                                        *)
GaveWay(r) ==
  /\ ~filled[r]
  /\ evidence[Dir(r)] \in Runs /\ ScopeOf[evidence[Dir(r)]] # ScopeOf[r]

WorkIsOnDisk(r) ==
  /\ work[r] = "published" => bundle[Dir(r)] = r /\ verdict[r] # None
  /\ work[r] = "failed" => evidence[Dir(r)] = r \/ GaveWay(r)
  /\ \A d \in Dirs : bundle[d] = r => work[r] = "published" /\ d = Dir(r)

(* What a run saw of the name it is about to take: it was free, so no run  *)
(* of its scope, whose lock it holds, has failed work there, and anything  *)
(* there now came after the look.                                          *)
LookHolds(r) ==
  /\ pc[r] = "rename" => bundle[Dir(r)] = None \/ overtaken[r]
  /\ pc[r] = "moveAside" =>
       /\ evidence[Dir(r)] = None \/ overtaken[r]
       /\ \A q \in Runs : work[q] = "failed" /\ ScopeOf[q] = ScopeOf[r]
                            => Dir(q) # Dir(r)

EventsAgree(r) ==
  /\ <<r, "operation.completed">> \in events => job[r] = "succeed"
  /\ <<r, "verification.recorded">> \in events => job[r] = "succeed"
  /\ <<r, "operation.failed">> \in events => job[r] = "fail"
  /\ <<r, "operation.skipped">> \in events => job[r] = "skip"

(* A record about scope s, in memory or on disk, that may be believed.     *)
MayBelieve(s, rec) ==
  /\ rec.success # None =>
       /\ ScopeOf[rec.success.run] = s
       /\ PublishedBy(rec.success.run, rec.success.archive)
  /\ rec.verification # None =>
       \E r \in Runs : ScopeOf[r] = s /\ PublishedBy(r, rec.verification)
  /\ rec.attempt # None =>
       \A d \in Dirs :
         rec.attempt.failedPath = <<"failed", d>>
           => /\ work[rec.attempt.run] = "failed" /\ Dir(rec.attempt.run) = d
              /\ ScopeOf[rec.attempt.run] = s

RunsAgree ==
  /\ \A r \in Runs : RunIsConsistent(r)
  /\ \A r \in Runs : ToldAfterwards(r)
  /\ \A r \in Runs : EventsAgree(r)

DiskAgrees == \A r \in Runs : WorkIsOnDisk(r)

LooksAgree == \A r \in Runs : LookHolds(r)

RecordsAgree ==
  /\ \A s \in Scopes : MayBelieve(s, record[s])
  /\ \A r \in Runs : MayBelieve(ScopeOf[r], pending[r])

IInv ==
  TypeOK /\ OneRunPerScope /\ RunsAgree /\ DiskAgrees /\ LooksAgree /\ RecordsAgree

Assumptions == BackupAssumption /\ NoneAssumption

-----------------------------------------------------------------------------
(* Operators.                                                              *)

LEMMA DirType ==
  ASSUME NEW r \in Runs, start \in [Runs -> 0..MaxTime]
  PROVE  Dir(r) \in Dirs
<1>1. start[r] \div TicksPerSecond \in 0..MaxTime
  BY BackupAssumption
<1> QED
  BY <1>1, BackupAssumption DEF Dir, Dirs

LEMMA ZeroRecordType ==
  /\ ZeroRecord \in RecordType
  /\ \A s \in Scopes : MayBelieve(s, ZeroRecord)
BY DEF ZeroRecord, RecordType, MayBelieve

LEMMA FailedPathType ==
  ASSUME TypeOK, NEW r \in Runs
  PROVE  FailedPath(r) \in FailedPaths \cup {None}
BY DirType DEF TypeOK, FailedPath, FailedPaths

LEMMA RecordedType ==
  ASSUME TypeOK, NEW r \in Runs, NEW read \in RecordType
  PROVE  Recorded(r, read) \in RecordType
<1>1. \A o \in Outcomes : \A a \in Dirs \cup {None} : \A f \in FailedPaths \cup {None} :
        Attempt(r, start[r], o, a, f) \in AttemptType
  BY DEF TypeOK, Attempt, AttemptType
<1>2. \A a \in AttemptType : WithAttempt(read, a) \in RecordType
  BY DEF WithAttempt, RecordType
<1>3. \A a \in AttemptType : \A v \in Dirs \cup {None} :
        WithSuccess(read, a, v) \in RecordType
  BY DEF WithSuccess, RecordType
<1>4. Dir(r) \in Dirs /\ FailedPath(r) \in FailedPaths \cup {None}
  BY DirType, FailedPathType DEF TypeOK
<1>5. /\ Attempt(r, start[r], "STARTED", None, None) \in AttemptType
      /\ Attempt(r, start[r], "SKIPPED", None, None) \in AttemptType
      /\ Attempt(r, start[r], "FAILED", None, FailedPath(r)) \in AttemptType
      /\ Attempt(r, start[r], "SUCCEEDED", Dir(r), None) \in AttemptType
  BY <1>1, <1>4 DEF Outcomes
<1> QED
  BY <1>2, <1>3, <1>4, <1>5 DEF Recorded, TypeOK, Jobs

LEMMA RecordedBelief ==
  ASSUME TypeOK, NEW r \in Runs, RunIsConsistent(r), WorkIsOnDisk(r),
         NEW read \in RecordType, MayBelieve(ScopeOf[r], read)
  PROVE  MayBelieve(ScopeOf[r], Recorded(r, read))
<1>1. Dir(r) \in Dirs /\ \A d \in Dirs : None # <<"failed", d>>
  BY DirType, NoneAssumption DEF TypeOK, FailedPaths
<1>2. CASE job[r] \in {"start", "skip"}
  BY <1>1, <1>2 DEF MayBelieve, Recorded, WithAttempt, Attempt, RecordType
<1>3. CASE job[r] = "fail"
  <2>1. \A d \in Dirs : FailedPath(r) = <<"failed", d>>
                           => work[r] = "failed" /\ Dir(r) = d
    BY <1>1 DEF FailedPath
  <2>2. Recorded(r, read) =
          [read EXCEPT !.attempt =
             Attempt(r, start[r], "FAILED", None, FailedPath(r))]
    BY <1>3 DEF Recorded, WithAttempt
  <2> QED
    BY <2>1, <2>2 DEF MayBelieve, Attempt, RecordType
<1>4. CASE job[r] = "succeed"
  <2>1. PublishedBy(r, Dir(r))
    BY <1>4 DEF RunIsConsistent, WorkIsOnDisk, PublishedBy
  <2> DEFINE a == Attempt(r, start[r], "SUCCEEDED", Dir(r), None)
             v == IF identified[r] THEN Dir(r) ELSE None
             new == Recorded(r, read)
  <2>2. new = WithSuccess(read, a, v)
    BY <1>4 DEF Recorded
  <2>3. /\ new.attempt = a /\ new.success \in {a, read.success}
        /\ new.verification \in {Dir(r), read.verification}
    BY <2>2 DEF WithSuccess, RecordType
  <2>4. a.run = r /\ a.archive = Dir(r) /\ a.failedPath = None
    BY DEF Attempt
  <2>5. SUFFICES MayBelieve(ScopeOf[r], new)
    OBVIOUS
  <2> HIDE DEF a, new
  <2> QED
    BY <1>1, <2>1, <2>3, <2>4 DEF MayBelieve
<1> QED
  BY <1>2, <1>3, <1>4 DEF TypeOK, Jobs

(* What a step never undoes of what a record may speak of.                 *)
Kept ==
  /\ \A d \in Dirs : bundle[d] \in Runs => bundle'[d] = bundle[d]
  /\ \A r \in Runs :
       /\ work[r] = "published" => start'[r] = start[r] /\ verdict'[r] = verdict[r]
       /\ work[r] = "failed" => start'[r] = start[r] /\ work'[r] = "failed"

LEMMA BeliefStays ==
  ASSUME TypeOK, DiskAgrees, Kept
  PROVE  \A s \in Scopes : \A rec \in RecordType :
           MayBelieve(s, rec) => MayBelieve(s, rec)'
<1>1. \A r \in Runs : \A d \in Dirs : PublishedBy(r, d) => PublishedBy(r, d)'
  <2>1. \A r \in Runs : \A d \in Dirs : bundle[d] = r => work[r] = "published"
    BY DEF DiskAgrees, WorkIsOnDisk
  <2>2. \A r \in Runs : work[r] = "published"
                         => Dir(r)' = Dir(r) /\ verdict'[r] = verdict[r]
    BY DEF Kept, Dir
  <2> QED
    BY <2>1, <2>2 DEF Kept, PublishedBy
<1>2. \A r \in Runs : work[r] = "failed" => work'[r] = "failed" /\ Dir(r)' = Dir(r)
  BY DEF Kept, Dir
<1>3. \A rec \in RecordType :
        /\ rec.success # None => rec.success.run \in Runs
                                 /\ rec.success.archive \in Dirs \cup {None}
        /\ rec.attempt # None => rec.attempt.run \in Runs
        /\ rec.verification \in Dirs \cup {None}
  BY DEF RecordType, AttemptType
<1>4. \A r \in Runs : ~PublishedBy(r, None)
  BY DirType, NoneAssumption DEF PublishedBy, TypeOK
<1> QED
  BY <1>1, <1>2, <1>3, <1>4 DEF MayBelieve

(* Records that may be believed before a step still may after it.          *)
LEMMA RecordsStep ==
  ASSUME TypeOK, TypeOK', DiskAgrees, Kept,
         \A s \in Scopes : MayBelieve(s, record'[s]),
         \A r \in Runs : MayBelieve(ScopeOf[r], pending'[r])
  PROVE  RecordsAgree'
<1>1. ASSUME NEW s \in Scopes
      PROVE  MayBelieve(s, record[s])'
  <2>1. record'[s] \in RecordType
    BY DEF TypeOK
  <2> QED
    BY <2>1, BeliefStays DEF MayBelieve
<1>2. ASSUME NEW r \in Runs
      PROVE  MayBelieve(ScopeOf[r], pending[r])'
  <2>1. pending'[r] \in RecordType
    BY DEF TypeOK
  <2> QED
    BY <2>1, BeliefStays, BackupAssumption DEF MayBelieve
<1> QED
  BY <1>1, <1>2 DEF RecordsAgree

LEMMA RecordsStay ==
  ASSUME TypeOK, TypeOK', DiskAgrees, RecordsAgree, Kept, record' = record,
         \A r \in Runs : pending'[r] \in {pending[r], ZeroRecord}
  PROVE  RecordsAgree'
<1>1. \A s \in Scopes : MayBelieve(s, record'[s])
  BY DEF RecordsAgree
<1>2. \A r \in Runs : MayBelieve(ScopeOf[r], pending'[r])
  BY ZeroRecordType, BackupAssumption DEF RecordsAgree
<1> QED
  BY <1>1, <1>2, RecordsStep

-----------------------------------------------------------------------------
(* Steps.                                                                  *)

(* A step after which whoever is about to take a name stands where it      *)
(* stood, the names are as they were and no more work has failed.          *)
LEMMA LooksStay ==
  ASSUME LooksAgree, bundle' = bundle, evidence' = evidence,
         \A r \in Runs : pc'[r] \in {"rename", "moveAside"} =>
           pc[r] = pc'[r] /\ start'[r] = start[r] /\ overtaken'[r] = overtaken[r],
         \A r \in Runs : work'[r] = "failed" =>
           work[r] = "failed" /\ start'[r] = start[r]
  PROVE  LooksAgree'
BY DEF LooksAgree, LookHolds, Dir

(* What the history records when something appears at a name.              *)
LEMMA OvertakesEffect ==
  ASSUME TypeOK, NEW at, NEW d, NEW by, Overtakes(at, d, by)
  PROVE  /\ overtaken' \in [Runs -> BOOLEAN]
         /\ \A q \in Runs :
              q # by => (overtaken'[q] <=> overtaken[q] \/ (pc[q] = at /\ Dir(q) = d))
BY DEF Overtakes, TypeOK

LEMMA InitStep == Init => IInv
<1> SUFFICES ASSUME Init PROVE IInv
  OBVIOUS
<1> USE BackupAssumption DEF Init
<1>1. TypeOK
  BY ZeroRecordType DEF TypeOK, Jobs, Labels
<1>2. OneRunPerScope
  BY DEF OneRunPerScope, InPipeline, Stages
<1>3. RunsAgree
  BY NoneAssumption DEF RunsAgree, RunIsConsistent, ToldAfterwards, EventsAgree,
                        Outcomes
<1>4. DiskAgrees
  BY DEF DiskAgrees, WorkIsOnDisk
<1>5. RecordsAgree
  BY ZeroRecordType DEF RecordsAgree
<1>6. LooksAgree
  BY DEF LooksAgree, LookHolds
<1> QED
  BY <1>1, <1>2, <1>3, <1>4, <1>5, <1>6 DEF IInv

LEMMA Unpublished ==
  ASSUME IInv, NEW r \in Runs, pc[r] \in Unconcluded \ {"identify"}
  PROVE  job[r] = "start" /\ work[r] \notin {"published", "failed"}
BY DEF IInv, RunsAgree, RunIsConsistent, Unconcluded, Stages

(* A step after which every directory is where it was.                     *)
LEMMA DiskStays ==
  ASSUME TypeOK, DiskAgrees, start' = start, bundle' = bundle,
         \A r \in Runs :
           /\ work[r] = "published" <=> work'[r] = "published"
           /\ work'[r] = "failed" => work[r] = "failed" /\ filled'[r] = filled[r]
           /\ work[r] = "published" => verdict'[r] = verdict[r],
         evidence' = evidence
  PROVE  DiskAgrees'
<1>1. \A r \in Runs : Dir(r)' = Dir(r) /\ Dir(r) \in Dirs /\ r # None
  BY DirType, BackupAssumption DEF Dir, TypeOK
<1> QED
  BY <1>1 DEF DiskAgrees, WorkIsOnDisk, GaveWay

(* Steps that only move the run.                                           *)
LEMMA MoveStep ==
  ASSUME IInv, NEW r \in Runs,
         \/ Check(r) \/ Lstat(r) \/ Report(r)
  PROVE  IInv'
<1> USE BackupAssumption DEF IInv, local, recorder, disk, GoTo, Check, Lstat,
       Report
<1>0. UNCHANGED <<clock, recorder, local, told, disk>>
  OBVIOUS
<1>1. TypeOK'
  <2>1. pc' \in [Runs -> Labels]
    BY DEF TypeOK, Labels, Stages, After
  <2> QED
    BY <1>0, <2>1 DEF TypeOK
<1>2. Kept
  BY DEF Kept, TypeOK
<1>3. OneRunPerScope'
  BY DEF TypeOK, OneRunPerScope, InPipeline, Stages
<1>4. \A q \in Runs : RunIsConsistent(q)'
  BY DEF TypeOK, RunsAgree, RunIsConsistent, Unconcluded, Stages, After
<1>5. \A q \in Runs : ToldAfterwards(q)'
  BY NoneAssumption DEF TypeOK, RunsAgree, ToldAfterwards, RunIsConsistent,
                        Unconcluded, Stages, Outcomes
<1>6. \A q \in Runs : EventsAgree(q)'
  BY DEF TypeOK, RunsAgree, EventsAgree, RunIsConsistent, Unconcluded, Stages
<1>7. DiskAgrees'
  BY DEF TypeOK, DiskAgrees, WorkIsOnDisk, GaveWay, Dir
<1>8. RecordsAgree'
  BY <1>1, <1>2, RecordsStay DEF TypeOK
<1>9. LooksAgree'
  BY LooksStay DEF TypeOK, Stages, After
<1> QED
  BY <1>1, <1>3, <1>4, <1>5, <1>6, <1>7, <1>8, <1>9 DEF RunsAgree

LEMMA StageStep ==
  ASSUME IInv, NEW r \in Runs, StageDone(r) \/ StageFails(r)
  PROVE  IInv'
<1> USE BackupAssumption DEF IInv, local, recorder, disk, GoTo, StageDone,
       StageFails
<1>0. /\ work[r] \notin {"published", "failed"}
      /\ \A q \in Runs : (q # r => filled'[q] = filled[q]) /\ (filled[q] => filled'[q])
  BY Unpublished DEF TypeOK, Unconcluded, Stages
<1>1. TypeOK'
  <2>1. pc' \in [Runs -> Labels]
    BY DEF TypeOK, Labels, Stages, After
  <2>2. filled' \in [Runs -> BOOLEAN]
    BY DEF TypeOK
  <2> QED
    BY <2>1, <2>2 DEF TypeOK
<1>2. Kept
  BY DEF Kept, TypeOK
<1>3. OneRunPerScope'
  BY DEF TypeOK, OneRunPerScope, InPipeline, Stages
<1>4. \A q \in Runs : RunIsConsistent(q)'
  <2>1. ASSUME NEW q \in Runs, q # r
        PROVE  RunIsConsistent(q)'
    BY <1>0, <2>1 DEF TypeOK, RunsAgree, RunIsConsistent
  <2>2. pc[r] = "extract" /\ StageDone(r) => filled'[r]
    BY DEF TypeOK
  <2>3. RunIsConsistent(r)'
    BY <1>0, <2>2 DEF TypeOK, RunsAgree, RunIsConsistent, Unconcluded, Stages, After
  <2> QED
    BY <2>1, <2>3
<1>5. \A q \in Runs : ToldAfterwards(q)'
  BY NoneAssumption DEF TypeOK, RunsAgree, ToldAfterwards, RunIsConsistent,
                        Unconcluded, Stages, Outcomes
<1>6. \A q \in Runs : EventsAgree(q)'
  BY DEF TypeOK, RunsAgree, EventsAgree, RunIsConsistent, Unconcluded, Stages
<1>7. DiskAgrees'
  BY <1>0, DiskStays
<1>8. RecordsAgree'
  BY <1>1, <1>2, RecordsStay DEF TypeOK
<1>9. LooksAgree'
  BY LooksStay DEF TypeOK, Stages, After
<1> QED
  BY <1>1, <1>3, <1>4, <1>5, <1>6, <1>7, <1>8, <1>9 DEF RunsAgree

(* The looks before a name is taken.                                       *)
LEMMA LookStep ==
  ASSUME IInv, NEW r \in Runs, LstatAgain(r) \/ LookAside(r) \/ RenameFails(r)
  PROVE  IInv'
<1> USE BackupAssumption DEF IInv, local, recorder, disk, GoTo, Afresh, LstatAgain,
       LookAside, RenameFails
<1>1. TypeOK'
  <2>1. pc' \in [Runs -> Labels]
    BY DEF TypeOK, Labels, Stages, After
  <2>2. overtaken' \in [Runs -> BOOLEAN]
    BY DEF TypeOK
  <2> QED
    BY <2>1, <2>2 DEF TypeOK
<1>2. Kept
  BY DEF Kept, TypeOK
<1>3. OneRunPerScope'
  BY DEF TypeOK, OneRunPerScope, InPipeline, Stages
<1>4. \A q \in Runs : RunIsConsistent(q)'
  BY DEF TypeOK, RunsAgree, RunIsConsistent, Unconcluded, Stages, After
<1>5. \A q \in Runs : ToldAfterwards(q)'
  BY NoneAssumption DEF TypeOK, RunsAgree, ToldAfterwards, RunIsConsistent,
                        Unconcluded, Stages, Outcomes
<1>6. \A q \in Runs : EventsAgree(q)'
  BY DEF TypeOK, RunsAgree, EventsAgree, RunIsConsistent, Unconcluded, Stages
<1>7. DiskAgrees'
  BY DEF TypeOK, DiskAgrees, WorkIsOnDisk, GaveWay, Dir
<1>8. RecordsAgree'
  BY <1>1, <1>2, RecordsStay DEF TypeOK
<1>9. LooksAgree'
  <2>1. \A q \in Runs : Dir(q)' = Dir(q) /\ Dir(q) \in Dirs
    BY DirType DEF TypeOK, Dir
  <2>2. \A q \in Runs \ {r} : LookHolds(q)'
    BY <2>1 DEF TypeOK, LooksAgree, LookHolds
  <2>3. evidence[Dir(r)] = None =>
          \A q \in Runs : work[q] = "failed" => Dir(q) # Dir(r)
    BY DEF DiskAgrees, WorkIsOnDisk, GaveWay
  <2>4. LookHolds(r)'
    BY <2>1, <2>3 DEF TypeOK, LookHolds
  <2> QED
    BY <2>2, <2>4 DEF LooksAgree
<1> QED
  BY <1>1, <1>3, <1>4, <1>5, <1>6, <1>7, <1>8, <1>9 DEF RunsAgree

LEMMA TickStep ==
  ASSUME IInv, Tick
  PROVE  IInv'
<1> USE BackupAssumption DEF IInv, local, recorder, disk, GoTo, Tick
<1>1. TypeOK'
  <2>1. pc' \in [Runs -> Labels]
    BY DEF TypeOK, Labels, Stages, After
  <2> QED
    BY <2>1 DEF TypeOK
<1>2. Kept
  BY DEF Kept, TypeOK
<1>3. OneRunPerScope'
  BY DEF TypeOK, OneRunPerScope, InPipeline, Stages
<1>4. \A q \in Runs : RunIsConsistent(q)'
  BY DEF TypeOK, RunsAgree, RunIsConsistent, Unconcluded, Stages, After
<1>5. \A q \in Runs : ToldAfterwards(q)'
  BY NoneAssumption DEF TypeOK, RunsAgree, ToldAfterwards, RunIsConsistent,
                        Unconcluded, Stages, Outcomes
<1>6. \A q \in Runs : EventsAgree(q)'
  BY DEF TypeOK, RunsAgree, EventsAgree, RunIsConsistent, Unconcluded, Stages
<1>7. DiskAgrees'
  BY DEF TypeOK, DiskAgrees, WorkIsOnDisk, GaveWay, Dir
<1>8. RecordsAgree'
  BY <1>1, <1>2, RecordsStay DEF TypeOK
<1>9. LooksAgree'
  BY LooksStay DEF TypeOK, Stages, After
<1> QED
  BY <1>1, <1>3, <1>4, <1>5, <1>6, <1>7, <1>8, <1>9 DEF RunsAgree

LEMMA InterruptStep ==
  ASSUME IInv, NEW r \in Runs, Interrupt(r)
  PROVE  IInv'
<1> USE BackupAssumption DEF IInv, local, recorder, disk, GoTo, Interrupt
<1>1. TypeOK'
  <2>1. pc' \in [Runs -> Labels]
    BY DEF TypeOK, Labels, Stages, After
  <2> QED
    BY <2>1 DEF TypeOK
<1>2. Kept
  BY DEF Kept, TypeOK
<1>3. OneRunPerScope'
  BY DEF TypeOK, OneRunPerScope, InPipeline, Stages
<1>4. \A q \in Runs : RunIsConsistent(q)'
  BY DEF TypeOK, RunsAgree, RunIsConsistent, Unconcluded, Stages, After
<1>5. \A q \in Runs : ToldAfterwards(q)'
  BY NoneAssumption DEF TypeOK, RunsAgree, ToldAfterwards, RunIsConsistent,
                        Unconcluded, Stages, Outcomes
<1>6. \A q \in Runs : EventsAgree(q)'
  BY DEF TypeOK, RunsAgree, EventsAgree, RunIsConsistent, Unconcluded, Stages
<1>7. DiskAgrees'
  BY DEF TypeOK, DiskAgrees, WorkIsOnDisk, GaveWay, Dir
<1>8. RecordsAgree'
  BY <1>1, <1>2, RecordsStay DEF TypeOK
<1>9. LooksAgree'
  BY LooksStay DEF TypeOK, Stages, After
<1> QED
  BY <1>1, <1>3, <1>4, <1>5, <1>6, <1>7, <1>8, <1>9 DEF RunsAgree

LEMMA CreatesStep ==
  ASSUME IInv, NEW d \in Dirs, SomebodyCreates(d)
  PROVE  IInv'
<1> USE BackupAssumption DEF IInv, local, recorder, disk, GoTo, SomebodyCreates
<1>1. TypeOK'
  <2>1. pc' \in [Runs -> Labels]
    BY DEF TypeOK, Labels, Stages, After
  <2>2. overtaken' \in [Runs -> BOOLEAN]
    BY OvertakesEffect
  <2>3. /\ bundle' \in [Dirs -> Runs \cup Things \cup {None}]
        /\ evidence' \in [Dirs -> Runs \cup Things \cup {None}]
    BY DEF TypeOK
  <2> QED
    BY <2>1, <2>2, <2>3 DEF TypeOK
<1>2. Kept
  BY DEF Kept, TypeOK
<1>3. OneRunPerScope'
  BY DEF TypeOK, OneRunPerScope, InPipeline, Stages
<1>4. \A q \in Runs : RunIsConsistent(q)'
  BY DEF TypeOK, RunsAgree, RunIsConsistent, Unconcluded, Stages, After
<1>5. \A q \in Runs : ToldAfterwards(q)'
  BY NoneAssumption DEF TypeOK, RunsAgree, ToldAfterwards, RunIsConsistent,
                        Unconcluded, Stages, Outcomes
<1>6. \A q \in Runs : EventsAgree(q)'
  BY DEF TypeOK, RunsAgree, EventsAgree, RunIsConsistent, Unconcluded, Stages
<1>7. DiskAgrees'
  <2>1. \A q \in Runs : Dir(q)' = Dir(q) /\ Dir(q) \in Dirs
    BY DirType DEF TypeOK, Dir
  <2> QED
    BY <2>1 DEF TypeOK, DiskAgrees, WorkIsOnDisk, GaveWay
<1>8. RecordsAgree'
  BY <1>1, <1>2, RecordsStay DEF TypeOK
<1>9. LooksAgree'
  <2>1. \A q \in Runs : Dir(q)' = Dir(q) /\ Dir(q) \in Dirs /\ q # None
    BY DirType DEF TypeOK, Dir
  <2>2. CASE Overtakes("rename", d, None) /\ evidence' = evidence
             /\ \A e \in Dirs \ {d} : bundle'[e] = bundle[e]
    <3>1. \A q \in Runs : overtaken'[q] <=>
            overtaken[q] \/ (pc[q] = "rename" /\ Dir(q) = d)
      BY <2>1, <2>2, OvertakesEffect
    <3> QED
      BY <2>1, <2>2, <3>1 DEF LooksAgree, LookHolds
  <2>3. CASE Overtakes("moveAside", d, None) /\ bundle' = bundle
             /\ \A e \in Dirs \ {d} : evidence'[e] = evidence[e]
    <3>1. \A q \in Runs : overtaken'[q] <=>
            overtaken[q] \/ (pc[q] = "moveAside" /\ Dir(q) = d)
      BY <2>1, <2>3, OvertakesEffect
    <3> QED
      BY <2>1, <2>3, <3>1 DEF LooksAgree, LookHolds
  <2> QED
    BY <2>2, <2>3 DEF TypeOK
<1> QED
  BY <1>1, <1>3, <1>4, <1>5, <1>6, <1>7, <1>8, <1>9 DEF RunsAgree

LEMMA NeverBeginsStep ==
  ASSUME IInv, NEW r \in Runs, NeverBegins(r)
  PROVE  IInv'
<1> USE BackupAssumption DEF IInv, local, recorder, disk, GoTo, NeverBegins
<1>1. TypeOK'
  <2>1. pc' \in [Runs -> Labels]
    BY DEF TypeOK, Labels, Stages, After
  <2> QED
    BY <2>1 DEF TypeOK
<1>2. Kept
  BY DEF Kept, TypeOK
<1>3. OneRunPerScope'
  BY DEF TypeOK, OneRunPerScope, InPipeline, Stages
<1>4. \A q \in Runs : RunIsConsistent(q)'
  BY DEF TypeOK, RunsAgree, RunIsConsistent, Unconcluded, Stages, After
<1>5. \A q \in Runs : ToldAfterwards(q)'
  BY NoneAssumption DEF TypeOK, RunsAgree, ToldAfterwards, RunIsConsistent,
                        Unconcluded, Stages, Outcomes
<1>6. \A q \in Runs : EventsAgree(q)'
  BY DEF TypeOK, RunsAgree, EventsAgree, RunIsConsistent, Unconcluded, Stages
<1>7. DiskAgrees'
  BY DEF TypeOK, DiskAgrees, WorkIsOnDisk, GaveWay, Dir
<1>8. RecordsAgree'
  BY <1>1, <1>2, RecordsStay DEF TypeOK
<1>9. LooksAgree'
  BY LooksStay DEF TypeOK, Stages, After
<1> QED
  BY <1>1, <1>3, <1>4, <1>5, <1>6, <1>7, <1>8, <1>9 DEF RunsAgree

LEMMA BeginStep ==
  ASSUME IInv, NEW r \in Runs, Begin(r)
  PROVE  IInv'
<1> USE BackupAssumption DEF IInv, local, recorder, disk, GoTo, Begin
<1>0. job' = job /\ work' = work /\ work[r] \notin {"published", "failed"}
  BY Unpublished DEF TypeOK, Unconcluded
<1>1. TypeOK'
  <2>1. pc' \in [Runs -> Labels]
    BY DEF TypeOK, Labels, Stages, After
  <2> QED
    BY <1>0, <2>1 DEF TypeOK
<1>2. Kept
  BY <1>0 DEF Kept, TypeOK
<1>3. OneRunPerScope'
  BY DEF TypeOK, OneRunPerScope, InPipeline, Stages
<1>4. \A q \in Runs : RunIsConsistent(q)'
  BY DEF TypeOK, RunsAgree, RunIsConsistent, Unconcluded, Stages, After
<1>5. \A q \in Runs : ToldAfterwards(q)'
  BY NoneAssumption DEF TypeOK, RunsAgree, ToldAfterwards, RunIsConsistent,
                        Unconcluded, Stages, Outcomes
<1>6. \A q \in Runs : EventsAgree(q)'
  BY <1>0 DEF RunsAgree, EventsAgree
<1>7. DiskAgrees'
  <2>1. \A q \in Runs \ {r} : Dir(q)' = Dir(q)
    BY DEF TypeOK, Dir
  <2> QED
    BY <1>0, <2>1 DEF DiskAgrees, WorkIsOnDisk, GaveWay
<1>8. RecordsAgree'
  BY <1>1, <1>2, RecordsStay DEF TypeOK
<1>9. LooksAgree'
  <2>1. \A q \in Runs \ {r} : start'[q] = start[q] /\ pc'[q] = pc[q]
    BY DEF TypeOK
  <2>2. pc'[r] \notin {"rename", "moveAside"}
    BY DEF TypeOK
  <2> QED
    BY <1>0, <2>1, <2>2, LooksStay
<1> QED
  BY <1>1, <1>3, <1>4, <1>5, <1>6, <1>7, <1>8, <1>9 DEF RunsAgree

LEMMA BeginUnrecordedStep ==
  ASSUME IInv, NEW r \in Runs, BeginUnrecorded(r)
  PROVE  IInv'
<1> USE BackupAssumption DEF IInv, local, recorder, disk, GoTo, BeginUnrecorded
<1>0. job' = job /\ work' = work /\ work[r] \notin {"published", "failed"}
  BY Unpublished DEF TypeOK, Unconcluded
<1>1. TypeOK'
  <2>1. pc' \in [Runs -> Labels]
    BY DEF TypeOK, Labels, Stages, After
  <2> QED
    BY <1>0, <2>1 DEF TypeOK
<1>2. Kept
  BY <1>0 DEF Kept, TypeOK
<1>3. OneRunPerScope'
  BY DEF TypeOK, OneRunPerScope, InPipeline, Stages
<1>4. \A q \in Runs : RunIsConsistent(q)'
  BY DEF TypeOK, RunsAgree, RunIsConsistent, Unconcluded, Stages, After
<1>5. \A q \in Runs : ToldAfterwards(q)'
  BY NoneAssumption DEF TypeOK, RunsAgree, ToldAfterwards, RunIsConsistent,
                        Unconcluded, Stages, Outcomes
<1>6. \A q \in Runs : EventsAgree(q)'
  BY <1>0 DEF RunsAgree, EventsAgree
<1>7. DiskAgrees'
  <2>1. \A q \in Runs \ {r} : Dir(q)' = Dir(q)
    BY DEF TypeOK, Dir
  <2> QED
    BY <1>0, <2>1 DEF DiskAgrees, WorkIsOnDisk, GaveWay
<1>8. RecordsAgree'
  BY <1>1, <1>2, RecordsStay DEF TypeOK
<1>9. LooksAgree'
  <2>1. \A q \in Runs \ {r} : start'[q] = start[q] /\ pc'[q] = pc[q]
    BY DEF TypeOK
  <2>2. pc'[r] \notin {"rename", "moveAside"}
    BY DEF TypeOK
  <2> QED
    BY <1>0, <2>1, <2>2, LooksStay
<1> QED
  BY <1>1, <1>3, <1>4, <1>5, <1>6, <1>7, <1>8, <1>9 DEF RunsAgree

LEMMA ConcludeStep ==
  ASSUME IInv, NEW r \in Runs,
         \/ LockHeld(r) \/ LockFails(r) \/ SetupFails(r) \/ LeaveWork(r)
         \/ MoveAsideFails(r)
  PROVE  IInv'
<1> USE BackupAssumption DEF IInv, local, recorder, disk, GoTo, LockHeld,
       LockFails, SetupFails, LeaveWork, MoveAsideFails, Afresh, Conclude
<1>0. job[r] = "start" /\ \A q \in Runs \ {r} : job'[q] = job[q]
  BY Unpublished DEF TypeOK, Unconcluded
<1>1. TypeOK'
  <2>1. pc' \in [Runs -> Labels]
    BY DEF TypeOK, Labels, Stages, After
  <2>2. overtaken' \in [Runs -> BOOLEAN]
    BY DEF TypeOK
  <2> QED
    BY <2>1, <2>2 DEF TypeOK, Jobs
<1>2. Kept
  BY DEF Kept, TypeOK
<1>3. OneRunPerScope'
  BY DEF TypeOK, OneRunPerScope, InPipeline, Stages
<1>4. \A q \in Runs : RunIsConsistent(q)'
  BY DEF TypeOK, RunsAgree, RunIsConsistent, Unconcluded, Stages, After
<1>5. \A q \in Runs : ToldAfterwards(q)'
  BY NoneAssumption DEF TypeOK, RunsAgree, ToldAfterwards, RunIsConsistent,
                        Unconcluded, Stages, Outcomes
<1>6. \A q \in Runs : EventsAgree(q)'
  BY <1>0 DEF RunsAgree, EventsAgree
<1>7. DiskAgrees'
  BY DEF TypeOK, DiskAgrees, WorkIsOnDisk, GaveWay, Dir
<1>8. RecordsAgree'
  BY <1>1, <1>2, RecordsStay DEF TypeOK
<1>9. LooksAgree'
  BY LooksStay DEF TypeOK, Stages, After
<1> QED
  BY <1>1, <1>3, <1>4, <1>5, <1>6, <1>7, <1>8, <1>9 DEF RunsAgree

LEMMA RefuseStep ==
  ASSUME IInv, NEW r \in Runs, CheckRefused(r) \/ StoreFails(r)
  PROVE  IInv'
<1> USE BackupAssumption DEF IInv, local, recorder, disk, GoTo, CheckRefused,
       StoreFails, Refuse, Recount
<1>1. TypeOK'
  <2>1. pc' \in [Runs -> Labels]
    BY DEF TypeOK, Labels, Stages, After
  <2> QED
    BY <2>1, ZeroRecordType DEF TypeOK, Jobs
<1>2. Kept
  BY DEF Kept, TypeOK
<1>3. OneRunPerScope'
  BY DEF TypeOK, OneRunPerScope, InPipeline, Stages
<1>4. \A q \in Runs : RunIsConsistent(q)'
  BY DEF TypeOK, RunsAgree, RunIsConsistent, Unconcluded, Stages, After
<1>5. \A q \in Runs : ToldAfterwards(q)'
  BY NoneAssumption DEF TypeOK, RunsAgree, ToldAfterwards, RunIsConsistent,
                        Unconcluded, Stages, Outcomes
<1>6. \A q \in Runs : EventsAgree(q)'
  BY DEF TypeOK, RunsAgree, EventsAgree, RunIsConsistent, Unconcluded, Stages
<1>7. DiskAgrees'
  BY DEF TypeOK, DiskAgrees, WorkIsOnDisk, GaveWay, Dir
<1>8. RecordsAgree'
  BY <1>1, <1>2, RecordsStay DEF TypeOK
<1>9. LooksAgree'
  BY LooksStay DEF TypeOK, Stages, After
<1> QED
  BY <1>1, <1>3, <1>4, <1>5, <1>6, <1>7, <1>8, <1>9 DEF RunsAgree

LEMMA LoadStep ==
  ASSUME IInv, NEW r \in Runs, Load(r)
  PROVE  IInv'
<1> USE BackupAssumption DEF IInv, local, recorder, disk, GoTo, Load
<1>0. record[ScopeOf[r]] \in RecordType /\ MayBelieve(ScopeOf[r], record[ScopeOf[r]])
  BY DEF TypeOK, RecordsAgree
<1>1. TypeOK'
  <2>1. pc' \in [Runs -> Labels]
    BY DEF TypeOK, Labels, Stages, After
  <2> QED
    BY <1>0, <2>1, RecordedType DEF TypeOK
<1>2. Kept
  BY DEF Kept, TypeOK
<1>3. OneRunPerScope'
  BY DEF TypeOK, OneRunPerScope, InPipeline, Stages
<1>4. \A q \in Runs : RunIsConsistent(q)'
  BY DEF TypeOK, RunsAgree, RunIsConsistent, Unconcluded, Stages, After
<1>5. \A q \in Runs : ToldAfterwards(q)'
  BY NoneAssumption DEF TypeOK, RunsAgree, ToldAfterwards, RunIsConsistent,
                        Unconcluded, Stages, Outcomes
<1>6. \A q \in Runs : EventsAgree(q)'
  BY DEF TypeOK, RunsAgree, EventsAgree, RunIsConsistent, Unconcluded, Stages
<1>7. DiskAgrees'
  BY DEF TypeOK, DiskAgrees, WorkIsOnDisk, GaveWay, Dir
<1>8. RecordsAgree'
  <2>1. MayBelieve(ScopeOf[r], Recorded(r, record[ScopeOf[r]]))
    BY <1>0, RecordedBelief DEF RunsAgree, DiskAgrees
  <2>2. \A q \in Runs : MayBelieve(ScopeOf[q], pending'[q])
    BY <2>1 DEF TypeOK, RecordsAgree
  <2>3. \A s \in Scopes : MayBelieve(s, record'[s])
    BY DEF RecordsAgree
  <2> QED
    BY <1>1, <1>2, <2>2, <2>3, RecordsStep
<1>9. LooksAgree'
  BY LooksStay DEF TypeOK, Stages, After
<1> QED
  BY <1>1, <1>3, <1>4, <1>5, <1>6, <1>7, <1>8, <1>9 DEF RunsAgree

LEMMA CommitStep ==
  ASSUME IInv, NEW r \in Runs, Commit(r)
  PROVE  IInv'
<1> USE BackupAssumption DEF IInv, local, recorder, disk, GoTo, Commit, Recount
<1>0. pending[r] \in RecordType /\ MayBelieve(ScopeOf[r], pending[r])
  BY DEF TypeOK, RecordsAgree
<1>1. TypeOK'
  <2>1. pc' \in [Runs -> Labels]
    BY DEF TypeOK, Labels, Stages, After
  <2>2. [pending[r] EXCEPT !.revision = @ + 1] \in RecordType
    BY <1>0 DEF RecordType
  <2>3. record' \in [Scopes -> RecordType]
    BY <2>2 DEF TypeOK
  <2> QED
    BY <2>1, <2>3, ZeroRecordType DEF TypeOK
<1>2. Kept
  BY DEF Kept, TypeOK
<1>3. OneRunPerScope'
  BY DEF TypeOK, OneRunPerScope, InPipeline, Stages
<1>4. \A q \in Runs : RunIsConsistent(q)'
  BY DEF TypeOK, RunsAgree, RunIsConsistent, Unconcluded, Stages, After
<1>5. \A q \in Runs : ToldAfterwards(q)'
  BY NoneAssumption DEF TypeOK, RunsAgree, ToldAfterwards, RunIsConsistent,
                        Unconcluded, Stages, Outcomes
<1>6. \A q \in Runs : EventsAgree(q)'
  BY DEF TypeOK, RunsAgree, EventsAgree, RunIsConsistent, Unconcluded, Stages
<1>7. DiskAgrees'
  BY DEF TypeOK, DiskAgrees, WorkIsOnDisk, GaveWay, Dir
<1>8. RecordsAgree'
  <2> DEFINE new == [pending[r] EXCEPT !.revision = @ + 1]
  <2>1. MayBelieve(ScopeOf[r], new)
    BY <1>0 DEF MayBelieve, RecordType
  <2>2. \A s \in Scopes : record'[s] = IF s = ScopeOf[r] THEN new ELSE record[s]
    BY DEF TypeOK
  <2> HIDE DEF new
  <2>3. \A s \in Scopes : MayBelieve(s, record'[s])
    BY <2>1, <2>2 DEF RecordsAgree
  <2>4. \A q \in Runs : MayBelieve(ScopeOf[q], pending'[q])
    BY ZeroRecordType DEF TypeOK, RecordsAgree
  <2> QED
    BY <1>1, <1>2, <2>3, <2>4, RecordsStep
<1>9. LooksAgree'
  BY LooksStay DEF TypeOK, Stages, After
<1> QED
  BY <1>1, <1>3, <1>4, <1>5, <1>6, <1>7, <1>8, <1>9 DEF RunsAgree

LEMMA EmitStep ==
  ASSUME IInv, NEW r \in Runs, EmitVerification(r) \/ Emit(r)
  PROVE  IInv'
<1> USE BackupAssumption DEF IInv, local, recorder, disk, GoTo, EmitVerification,
       Emit, Append
<1>0. events' \subseteq events
        \cup {<<r, IF pc[r] = "emit" THEN EventOf[job[r]] ELSE "verification.recorded">>}
  OBVIOUS
<1>1. TypeOK'
  <2>1. pc' \in [Runs -> Labels]
    BY DEF TypeOK, Labels, Stages, After
  <2>2. events' \subseteq Runs \X Events
    <3>1. EventOf[job[r]] \in Events
      BY DEF TypeOK, Jobs, EventOf, Events
    <3> QED
      BY <1>0, <3>1 DEF TypeOK, Events
  <2>3. recording' \in [Runs -> BOOLEAN]
    BY DEF TypeOK
  <2> QED
    BY <2>1, <2>2, <2>3 DEF TypeOK
<1>2. Kept
  BY DEF Kept, TypeOK
<1>3. OneRunPerScope'
  BY DEF TypeOK, OneRunPerScope, InPipeline, Stages
<1>4. \A q \in Runs : RunIsConsistent(q)'
  BY DEF TypeOK, RunsAgree, RunIsConsistent, Unconcluded, Stages, After
<1>5. \A q \in Runs : ToldAfterwards(q)'
  BY NoneAssumption DEF TypeOK, RunsAgree, ToldAfterwards, RunIsConsistent,
                        Unconcluded, Stages, Outcomes
<1>6. \A q \in Runs : EventsAgree(q)'
  <2>1. job[r] \in Jobs /\ (pc[r] # "emit" => job[r] = "succeed")
    BY DEF TypeOK, RunsAgree, RunIsConsistent
  <2>2. SUFFICES ASSUME NEW q \in Runs PROVE EventsAgree(q)'
    OBVIOUS
  <2>3. CASE q = r
    BY <1>0, <2>1, <2>3 DEF RunsAgree, EventsAgree, EventOf, Jobs
  <2>4. CASE q # r
    BY <1>0, <2>4 DEF RunsAgree, EventsAgree
  <2> QED
    BY <2>3, <2>4
<1>7. DiskAgrees'
  BY DEF TypeOK, DiskAgrees, WorkIsOnDisk, GaveWay, Dir
<1>8. RecordsAgree'
  BY <1>1, <1>2, RecordsStay DEF TypeOK
<1>9. LooksAgree'
  BY LooksStay DEF TypeOK, Stages, After
<1> QED
  BY <1>1, <1>3, <1>4, <1>5, <1>6, <1>7, <1>8, <1>9 DEF RunsAgree

LEMMA EndStep ==
  ASSUME IInv, NEW r \in Runs, End(r)
  PROVE  IInv'
<1> USE BackupAssumption DEF IInv, local, recorder, disk, GoTo, End
<1>0. /\ job[r] \in {"skip", "fail", "succeed"}
      /\ told' = [told EXCEPT ![r] = OutcomeOf[job[r]]]
      /\ OutcomeOf[job[r]] \in {"SKIPPED", "FAILED", "SUCCEEDED"}
      /\ OutcomeOf[job[r]] = "SUCCEEDED" <=> job[r] = "succeed"
  BY DEF TypeOK, Jobs, RunsAgree, RunIsConsistent, OutcomeOf
<1>1. TypeOK'
  <2>1. pc' \in [Runs -> Labels]
    BY DEF TypeOK, Labels, Stages, After
  <2> QED
    BY <1>0, <2>1 DEF TypeOK
<1>2. Kept
  BY DEF Kept, TypeOK
<1>3. OneRunPerScope'
  BY DEF TypeOK, OneRunPerScope, InPipeline, Stages
<1>4. \A q \in Runs : RunIsConsistent(q)'
  BY DEF TypeOK, RunsAgree, RunIsConsistent, Unconcluded, Stages, After
<1>5. \A q \in Runs : ToldAfterwards(q)'
  BY <1>0, NoneAssumption DEF TypeOK, RunsAgree, ToldAfterwards, Outcomes
<1>6. \A q \in Runs : EventsAgree(q)'
  BY DEF TypeOK, RunsAgree, EventsAgree, RunIsConsistent, Unconcluded, Stages
<1>7. DiskAgrees'
  BY DEF TypeOK, DiskAgrees, WorkIsOnDisk, GaveWay, Dir
<1>8. RecordsAgree'
  BY <1>1, <1>2, RecordsStay DEF TypeOK
<1>9. LooksAgree'
  BY LooksStay DEF TypeOK, Stages, After
<1> QED
  BY <1>1, <1>3, <1>4, <1>5, <1>6, <1>7, <1>8, <1>9 DEF RunsAgree

LEMMA KillStep ==
  ASSUME IInv, NEW r \in Runs, Kill(r)
  PROVE  IInv'
<1> USE BackupAssumption DEF IInv, local, recorder, disk, GoTo, Kill, Running
<1>1. TypeOK'
  <2>1. pc' \in [Runs -> Labels]
    BY DEF TypeOK, Labels, Stages, After
  <2> QED
    BY <2>1, ZeroRecordType DEF TypeOK
<1>2. Kept
  BY DEF Kept, TypeOK
<1>3. OneRunPerScope'
  <2>1. \A q \in Runs \ {r} : pc'[q] = pc[q]
    BY DEF TypeOK
  <2>2. pc'[r] = "killed"
    BY DEF TypeOK
  <2>3. \A s \in Scopes : lock[s] # r => lock'[s] = lock[s]
    BY DEF TypeOK
  <2> QED
    BY <2>1, <2>2, <2>3 DEF OneRunPerScope, InPipeline, Stages
<1>4. \A q \in Runs : RunIsConsistent(q)'
  BY DEF TypeOK, RunsAgree, RunIsConsistent, Unconcluded, Stages, After
<1>5. \A q \in Runs : ToldAfterwards(q)'
  BY NoneAssumption DEF TypeOK, RunsAgree, ToldAfterwards, RunIsConsistent,
                        Unconcluded, Stages, Outcomes
<1>6. \A q \in Runs : EventsAgree(q)'
  BY DEF TypeOK, RunsAgree, EventsAgree, RunIsConsistent, Unconcluded, Stages
<1>7. DiskAgrees'
  BY DEF TypeOK, DiskAgrees, WorkIsOnDisk, GaveWay, Dir
<1>8. RecordsAgree'
  BY <1>1, <1>2, RecordsStay DEF TypeOK
<1>9. LooksAgree'
  BY LooksStay DEF TypeOK, Stages, After
<1> QED
  BY <1>1, <1>3, <1>4, <1>5, <1>6, <1>7, <1>8, <1>9 DEF RunsAgree

LEMMA TakeLockStep ==
  ASSUME IInv, NEW r \in Runs, TakeLock(r)
  PROVE  IInv'
<1> USE BackupAssumption DEF IInv, local, recorder, disk, GoTo, TakeLock
<1>1. TypeOK'
  <2>1. pc' \in [Runs -> Labels]
    BY DEF TypeOK, Labels, Stages, After
  <2> QED
    BY <2>1 DEF TypeOK
<1>2. Kept
  BY DEF Kept, TypeOK
<1>3. OneRunPerScope'
  BY DEF TypeOK, OneRunPerScope, InPipeline, Stages
<1>4. \A q \in Runs : RunIsConsistent(q)'
  BY DEF TypeOK, RunsAgree, RunIsConsistent, Unconcluded, Stages, After
<1>5. \A q \in Runs : ToldAfterwards(q)'
  BY NoneAssumption DEF TypeOK, RunsAgree, ToldAfterwards, RunIsConsistent,
                        Unconcluded, Stages, Outcomes
<1>6. \A q \in Runs : EventsAgree(q)'
  BY DEF TypeOK, RunsAgree, EventsAgree, RunIsConsistent, Unconcluded, Stages
<1>7. DiskAgrees'
  BY DEF TypeOK, DiskAgrees, WorkIsOnDisk, GaveWay, Dir
<1>8. RecordsAgree'
  BY <1>1, <1>2, RecordsStay DEF TypeOK
<1>9. LooksAgree'
  BY LooksStay DEF TypeOK, Stages, After
<1> QED
  BY <1>1, <1>3, <1>4, <1>5, <1>6, <1>7, <1>8, <1>9 DEF RunsAgree

LEMMA WorkStep ==
  ASSUME IInv, NEW r \in Runs, Mkdir(r) \/ Verify(r)
  PROVE  IInv'
<1> USE BackupAssumption DEF IInv, local, recorder, disk, GoTo, Mkdir, Verify
<1>0. job[r] = "start" /\ work[r] \notin {"published", "failed"}
  BY Unpublished DEF Unconcluded, Stages
<1>1. TypeOK'
  <2>1. pc' \in [Runs -> Labels]
    BY DEF TypeOK, Labels, Stages, After
  <2> QED
    BY <2>1 DEF TypeOK
<1>2. Kept
  BY <1>0 DEF Kept, TypeOK
<1>3. OneRunPerScope'
  BY DEF TypeOK, OneRunPerScope, InPipeline, Stages
<1>4. \A q \in Runs : RunIsConsistent(q)'
  BY <1>0, NoneAssumption DEF TypeOK, RunsAgree, RunIsConsistent, Unconcluded,
                              Stages, After, Verdicts
<1>5. \A q \in Runs : ToldAfterwards(q)'
  BY NoneAssumption DEF TypeOK, RunsAgree, ToldAfterwards, RunIsConsistent,
                        Unconcluded, Stages, Outcomes
<1>6. \A q \in Runs : EventsAgree(q)'
  BY DEF TypeOK, RunsAgree, EventsAgree, RunIsConsistent, Unconcluded, Stages
<1>7. DiskAgrees'
  BY <1>0, DiskStays DEF TypeOK
<1>8. RecordsAgree'
  BY <1>1, <1>2, RecordsStay DEF TypeOK
<1>9. LooksAgree'
  BY LooksStay DEF TypeOK, Stages, After
<1> QED
  BY <1>1, <1>3, <1>4, <1>5, <1>6, <1>7, <1>8, <1>9 DEF RunsAgree

LEMMA RenameStep ==
  ASSUME IInv, NEW r \in Runs, Rename(r)
  PROVE  IInv'
<1> USE BackupAssumption DEF IInv, local, recorder, disk, GoTo, Rename
<1>0. job[r] = "start" /\ work[r] \notin {"published", "failed"}
  BY Unpublished DEF Unconcluded, Stages, RunsAgree
<1>a. \A q \in Runs : Dir(q)' = Dir(q) /\ Dir(q) \in Dirs
  BY DirType DEF TypeOK, Dir
<1>b. \A q \in Runs : work[q] = "published" => bundle[Dir(r)] # q
  BY DEF TypeOK, Yields, Things, RunsAgree, RunIsConsistent
<1>1. TypeOK'
  <2>1. pc' \in [Runs -> Labels]
    BY DEF TypeOK, Labels, Stages, After
  <2>2. overtaken' \in [Runs -> BOOLEAN]
    BY OvertakesEffect
  <2>3. bundle' \in [Dirs -> Runs \cup Things \cup {None}]
    BY <1>a DEF TypeOK
  <2> QED
    BY <2>1, <2>2, <2>3 DEF TypeOK
<1>2. Kept
  <2>1. \A d \in Dirs : bundle[d] \in Runs => work[bundle[d]] = "published"
    BY DEF DiskAgrees, WorkIsOnDisk
  <2> QED
    BY <1>0, <1>b, <2>1 DEF Kept, TypeOK
<1>3. OneRunPerScope'
  BY DEF TypeOK, OneRunPerScope, InPipeline, Stages
<1>4. \A q \in Runs : RunIsConsistent(q)'
  BY DEF TypeOK, RunsAgree, RunIsConsistent, Unconcluded, Stages, After
<1>5. \A q \in Runs : ToldAfterwards(q)'
  BY NoneAssumption DEF TypeOK, RunsAgree, ToldAfterwards, RunIsConsistent,
                        Unconcluded, Stages, Outcomes
<1>6. \A q \in Runs : EventsAgree(q)'
  BY DEF TypeOK, RunsAgree, EventsAgree, RunIsConsistent, Unconcluded, Stages
<1>7. DiskAgrees'
  <2>1. \A q \in Runs : Dir(q)' = Dir(q) /\ Dir(q) \in Dirs
    BY DirType DEF TypeOK, Dir
  <2>2. verdict[r] # None
    BY DEF RunsAgree, RunIsConsistent
  <2>3. \A d \in Dirs : bundle[d] # r
    BY <1>0 DEF DiskAgrees, WorkIsOnDisk
  <2>4. \A q \in Runs \ {r} : WorkIsOnDisk(q)'
    BY <1>b, <2>1 DEF TypeOK, DiskAgrees, WorkIsOnDisk, GaveWay
  <2>5. WorkIsOnDisk(r)'
    BY <2>1, <2>2, <2>3 DEF TypeOK, WorkIsOnDisk
  <2> QED
    BY <2>4, <2>5 DEF DiskAgrees
<1>8. RecordsAgree'
  BY <1>1, <1>2, RecordsStay DEF TypeOK
<1>9. LooksAgree'
  <2>1. \A q \in Runs \ {r} : overtaken'[q] <=>
          overtaken[q] \/ (pc[q] = "rename" /\ Dir(q) = Dir(r))
    BY OvertakesEffect
  <2>2. ASSUME NEW q \in Runs, q # r
        PROVE  LookHolds(q)'
    BY <1>0, <1>a, <2>1, <2>2 DEF TypeOK, LooksAgree, LookHolds
  <2>3. pc'[r] \notin {"rename", "moveAside"}
    BY DEF TypeOK
  <2> QED
    BY <2>2, <2>3 DEF LooksAgree, LookHolds
<1> QED
  BY <1>1, <1>3, <1>4, <1>5, <1>6, <1>7, <1>8, <1>9 DEF RunsAgree

LEMMA IdentifyStep ==
  ASSUME IInv, NEW r \in Runs, Identify(r)
  PROVE  IInv'
<1> USE BackupAssumption DEF IInv, local, recorder, disk, GoTo, Identify, Conclude
<1>0. /\ job[r] = "start" /\ work[r] = "published"
      /\ job' = [job EXCEPT ![r] = "succeed"] /\ pc'[r] \in {"load", "end"}
      /\ \A q \in Runs \ {r} : pc'[q] = pc[q]
  BY DEF TypeOK, RunsAgree, RunIsConsistent, Unconcluded
<1>1. TypeOK'
  <2>1. pc' \in [Runs -> Labels]
    BY DEF TypeOK, Labels, Stages, After
  <2> QED
    BY <2>1 DEF TypeOK, Jobs
<1>2. Kept
  BY DEF Kept, TypeOK
<1>3. OneRunPerScope'
  BY DEF TypeOK, OneRunPerScope, InPipeline, Stages
<1>4. \A q \in Runs : RunIsConsistent(q)'
  <2>1. \A q \in Runs \ {r} : RunIsConsistent(q)'
    BY <1>0 DEF TypeOK, RunsAgree, RunIsConsistent
  <2>2. RunIsConsistent(r)'
    <3>1. filled[r] /\ job'[r] = "succeed"
      BY <1>0 DEF TypeOK, RunsAgree, RunIsConsistent
    <3> QED
      BY <1>0, <3>1 DEF RunIsConsistent, Unconcluded, Stages
  <2> QED
    BY <2>1, <2>2
<1>5. \A q \in Runs : ToldAfterwards(q)'
  BY NoneAssumption DEF TypeOK, RunsAgree, ToldAfterwards, RunIsConsistent,
                        Unconcluded, Stages, Outcomes
<1>6. \A q \in Runs : EventsAgree(q)'
  BY DEF TypeOK, RunsAgree, EventsAgree, RunIsConsistent, Unconcluded, Stages
<1>7. DiskAgrees'
  BY DEF TypeOK, DiskAgrees, WorkIsOnDisk, GaveWay, Dir
<1>8. RecordsAgree'
  BY <1>1, <1>2, RecordsStay DEF TypeOK
<1>9. LooksAgree'
  BY LooksStay DEF TypeOK, Stages, After
<1> QED
  BY <1>1, <1>3, <1>4, <1>5, <1>6, <1>7, <1>8, <1>9 DEF RunsAgree

LEMMA MoveAsideStep ==
  ASSUME IInv, NEW r \in Runs, MoveAside(r)
  PROVE  IInv'
<1> USE BackupAssumption DEF IInv, local, recorder, disk, GoTo, MoveAside,
       Conclude
<1>0. job[r] = "start" /\ work[r] \notin {"published", "failed"}
  BY Unpublished DEF Unconcluded, Stages
<1>a. \A q \in Runs : Dir(q)' = Dir(q) /\ Dir(q) \in Dirs
  BY DirType DEF TypeOK, Dir
<1>1. TypeOK'
  <2>1. pc' \in [Runs -> Labels]
    BY DEF TypeOK, Labels, Stages, After
  <2>2. overtaken' \in [Runs -> BOOLEAN]
    BY OvertakesEffect
  <2>3. evidence' \in [Dirs -> Runs \cup Things \cup {None}]
    BY <1>a DEF TypeOK
  <2> QED
    BY <2>1, <2>2, <2>3 DEF TypeOK, Jobs
<1>2. Kept
  BY <1>0 DEF Kept, TypeOK
<1>3. OneRunPerScope'
  BY DEF TypeOK, OneRunPerScope, InPipeline, Stages
<1>4. \A q \in Runs : RunIsConsistent(q)'
  BY <1>0 DEF TypeOK, RunsAgree, RunIsConsistent, Unconcluded, Stages
<1>5. \A q \in Runs : ToldAfterwards(q)'
  BY NoneAssumption DEF TypeOK, RunsAgree, ToldAfterwards, RunIsConsistent,
                        Unconcluded, Stages, Outcomes
<1>6. \A q \in Runs : EventsAgree(q)'
  BY DEF TypeOK, RunsAgree, EventsAgree, RunIsConsistent, Unconcluded, Stages
<1>7. DiskAgrees'
  <2>1. \A q \in Runs : work[q] = "failed" /\ Dir(q) = Dir(r)
                         => ScopeOf[q] # ScopeOf[r]
    BY DEF LooksAgree, LookHolds
  <2>2. \A q \in Runs : work[q] = "failed" /\ Dir(q) = Dir(r) => ~filled[q]
    <3>1. \A q \in Runs : evidence[Dir(r)] = q => ~filled[q]
      BY DEF Yields, Things
    <3> QED
      BY <3>1 DEF DiskAgrees, WorkIsOnDisk, GaveWay
  <2>3. ASSUME NEW q \in Runs, q # r
        PROVE  WorkIsOnDisk(q)'
    BY <1>a, <2>1, <2>2, <2>3 DEF TypeOK, DiskAgrees, WorkIsOnDisk, GaveWay
  <2>4. WorkIsOnDisk(r)'
    BY <1>0, <1>a DEF TypeOK, DiskAgrees, WorkIsOnDisk
  <2> QED
    BY <2>3, <2>4 DEF DiskAgrees
<1>8. RecordsAgree'
  BY <1>1, <1>2, RecordsStay DEF TypeOK
<1>9. LooksAgree'
  <2>1. \A q \in Runs : pc[q] = "moveAside" /\ ScopeOf[q] = ScopeOf[r] => q = r
    BY DEF TypeOK, OneRunPerScope, InPipeline
  <2>2. pc'[r] # "moveAside" /\ pc'[r] # "rename"
    BY DEF TypeOK
  <2>3. ASSUME NEW q \in Runs, q # r
        PROVE  LookHolds(q)'
    <3>1. overtaken'[q] <=> overtaken[q] \/ (pc[q] = "moveAside" /\ Dir(q) = Dir(r))
      BY <2>3, OvertakesEffect
    <3>2. pc'[q] = pc[q] /\ work' = [work EXCEPT ![r] = "failed"]
      BY <2>3 DEF TypeOK
    <3>3. LookHolds(q)
      BY DEF LooksAgree
    <3>4. \A e \in Dirs : e # Dir(r) => evidence'[e] = evidence[e]
      BY DEF TypeOK
    <3>5. pc[q] = "moveAside" => ScopeOf[q] # ScopeOf[r]
      BY <2>1, <2>3
    <3>6. \A p \in Runs : work'[p] = "failed" => work[p] = "failed" \/ p = r
      BY <3>2 DEF TypeOK
    <3> QED
      BY <1>a, <3>1, <3>2, <3>3, <3>4, <3>5, <3>6 DEF LookHolds
  <2> QED
    BY <2>2, <2>3 DEF LooksAgree, LookHolds
<1> QED
  BY <1>1, <1>3, <1>4, <1>5, <1>6, <1>7, <1>8, <1>9 DEF RunsAgree

LEMMA NextStep == IInv /\ [Next]_vars => IInv'
<1> SUFFICES ASSUME IInv, [Next]_vars PROVE IInv'
  OBVIOUS
<1>1. ASSUME NEW r \in Runs, Proceed(r)
      PROVE  IInv'
  BY <1>1, LoadStep, MoveStep, RefuseStep, CommitStep, EmitStep, EndStep,
     TakeLockStep, ConcludeStep, WorkStep, StageStep, LookStep, RenameStep,
     IdentifyStep, MoveAsideStep
     DEF Proceed
<1>2. CASE UNCHANGED vars
  <2> USE <1>2 DEF vars, IInv
  <2>1. TypeOK'
    BY DEF TypeOK
  <2>2. OneRunPerScope' /\ RunsAgree'
    BY DEF OneRunPerScope, InPipeline, RunsAgree, RunIsConsistent,
           ToldAfterwards, EventsAgree
  <2>3. DiskAgrees' /\ RecordsAgree' /\ LooksAgree'
    BY DEF DiskAgrees, WorkIsOnDisk, GaveWay, RecordsAgree, MayBelieve, PublishedBy,
           LooksAgree, LookHolds, Dir
  <2> QED
    BY <2>1, <2>2, <2>3
<1> QED
  BY <1>1, <1>2, NeverBeginsStep, BeginStep, BeginUnrecordedStep, InterruptStep,
     KillStep, CreatesStep, TickStep DEF Next

THEOREM Invariance == Spec => []IInv
BY InitStep, NextStep, PTL DEF Spec

-----------------------------------------------------------------------------
(* The variables keep their types.                                         *)
THEOREM TypeCorrect == Spec => []TypeOK
<1>1. IInv => TypeOK
  BY DEF IInv
<1> QED
  BY <1>1, Invariance, PTL

(* Whatever is lost, refused or cut short, a recorded success points at a  *)
(* bundle that a run of that scope verified and published.                 *)
THEOREM SuccessCorrect == Spec => []SuccessIsPublished
<1>1. IInv => SuccessIsPublished
  BY DEF IInv, RecordsAgree, MayBelieve, SuccessIsPublished
<1> QED
  BY <1>1, Invariance, PTL

(* One run of a scope is in the pipeline, and it has the lock.             *)
THEOREM OneRunCorrect == Spec => []OneRunPerScope
<1>1. IInv => OneRunPerScope
  BY DEF IInv
<1> QED
  BY <1>1, Invariance, PTL

(* The exit code agrees with what is on disk.                              *)
THEOREM ToldCorrect == Spec => []ToldIsTrue
<1>1. IInv => ToldIsTrue
  BY NoneAssumption DEF IInv, RunsAgree, RunIsConsistent, ToldAfterwards,
                        DiskAgrees, WorkIsOnDisk, ToldIsTrue, Outcomes
<1> QED
  BY <1>1, Invariance, PTL

(* The event history agrees with what is on disk.                          *)
THEOREM HistoryCorrect == Spec => []HistoryIsTrue
<1>1. IInv => HistoryIsTrue
  <2>1. ASSUME IInv, NEW r \in Runs
        PROVE  /\ job[r] = "succeed" => bundle[Dir(r)] = r
               /\ job[r] \in {"fail", "skip"} => \A d \in Dirs : bundle[d] # r
    BY <2>1 DEF IInv, RunsAgree, RunIsConsistent, DiskAgrees, WorkIsOnDisk
  <2> QED
    BY <2>1 DEF IInv, RunsAgree, EventsAgree, HistoryIsTrue
<1> QED
  BY <1>1, Invariance, PTL

(* A failed attempt's working state is where its record says, unless it    *)
(* was empty and a run of another scope took the name unseen.              *)
THEOREM EvidenceCorrect == Spec => []EvidenceIsWhereRecorded
<1>1. IInv => EvidenceIsWhereRecorded
  <2> SUFFICES ASSUME IInv, NEW s \in Scopes, NEW d \in Dirs,
                      record[s].attempt # None,
                      record[s].attempt.failedPath = <<"failed", d>>
               PROVE  LET q == record[s].attempt.run
                      IN  evidence[d] = q \/ (~filled[q] /\ evidence[d] \in Runs
                                              /\ ScopeOf[evidence[d]] # s)
    BY DEF EvidenceIsWhereRecorded
  <2> DEFINE q == record[s].attempt.run
  <2>1. q \in Runs
    BY DEF IInv, TypeOK, RecordType, AttemptType
  <2>2. work[q] = "failed" /\ Dir(q) = d /\ ScopeOf[q] = s
    BY DEF IInv, RecordsAgree, MayBelieve
  <2> QED
    BY <2>1, <2>2 DEF IInv, DiskAgrees, WorkIsOnDisk, GaveWay
<1> QED
  BY <1>1, Invariance, PTL

(* What stands at a final name or at its ".failed" is replaced only by a   *)
(* run that saw the name free, and only if the platform lets it go.        *)
THEOREM NothingReplaced == Spec => NothingIsReplaced
<1> DEFINE Intact ==
      \A d \in Dirs :
        /\ bundle[d] # None /\ bundle'[d] # bundle[d]
             => Yields(bundle[d]) /\ TakenUnseen("rename", d)
        /\ evidence[d] # None /\ evidence'[d] # evidence[d]
             => Yields(evidence[d]) /\ TakenUnseen("moveAside", d)
<1>1. ASSUME IInv, [Next]_vars
      PROVE  Intact
  <2> USE DEF IInv, TypeOK
  <2>1. CASE UNCHANGED <<bundle, evidence>>
    BY <2>1
  <2>2. ASSUME NEW r \in Runs, Rename(r)
        PROVE  Intact
    BY <1>1, <2>2 DEF Rename, LooksAgree, LookHolds, TakenUnseen
  <2>3. ASSUME NEW r \in Runs, MoveAside(r)
        PROVE  Intact
    BY <1>1, <2>3 DEF MoveAside, LooksAgree, LookHolds, TakenUnseen
  <2>4. ASSUME NEW d \in Dirs, SomebodyCreates(d)
        PROVE  Intact
    BY <1>1, <2>4 DEF SomebodyCreates
  <2>5. ASSUME NEW r \in Runs, Proceed(r), ~Rename(r), ~MoveAside(r)
        PROVE  UNCHANGED <<bundle, evidence>>
    BY <2>5 DEF Proceed, Load, Check, CheckRefused, StoreFails, Refuse, Commit,
       EmitVerification, Emit, Append, End, TakeLock, LockHeld, LockFails, Lstat,
       SetupFails, Mkdir, StageDone, Verify, Report, StageFails, LstatAgain,
       RenameFails, Identify, LookAside, LeaveWork, MoveAsideFails, disk
  <2>6. ASSUME NEW r \in Runs,
               \/ NeverBegins(r) \/ Begin(r) \/ BeginUnrecorded(r)
               \/ Interrupt(r) \/ Kill(r) \/ Tick
        PROVE  UNCHANGED <<bundle, evidence>>
    BY <2>6 DEF NeverBegins, Begin, BeginUnrecorded, Interrupt, Kill, Tick, disk
  <2>7. Tick \/ UNCHANGED vars => UNCHANGED <<bundle, evidence>>
    BY DEF Tick, disk, vars
  <2> HIDE DEF Intact
  <2> QED
    BY <1>1, <2>1, <2>2, <2>3, <2>4, <2>5, <2>6, <2>7 DEF Next
<1>2. NothingIsReplaced <=> [][Intact]_vars
  BY PTL DEF NothingIsReplaced
<1> QED
  BY <1>1, <1>2, Invariance, PTL DEF Spec
=============================================================================
