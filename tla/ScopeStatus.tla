------------------------------ MODULE ScopeStatus ------------------------------
(***************************************************************************)
(* The state record of one scope, between the commands that write it and   *)
(* the archives on disk it speaks of: `alih backup`, `alih verify`,        *)
(* `alih status --reconcile` and `alih status --refresh` in several        *)
(* processes, and what `alih status` makes of it.  Only backups take the   *)
(* operation lock.  Archives are edited, damaged, removed and brought back *)
(* by their owner, and the state file itself may be lost.                  *)
(*                                                                         *)
(* An Update of the record is one step: what overlapping Updates of two    *)
(* processes lose is the subject of StateStore, the working directory of a *)
(* run and runs that wait for the lock that of Backup.                     *)
(***************************************************************************)
EXTENDS Naturals, Sequences

CONSTANTS
  Commands,     (* the processes that run Alih                             *)
  MaxRuns,      (* bound on the number of backups                          *)
  MaxChanges,   (* bound on the changes the owner makes to archives        *)
  MaxOthers,    (* bound on the questions to the source and the losses of  *)
                (* the state file, together                                *)
  Stamps,       (* the times an owner writes into a manifest; 0 is none    *)
  None

VARIABLES
  now,     (* the clock                                                    *)
  disk,    (* by run, what is at the path of its archive                   *)
  seals,   (* by run, the manifest its archive was sealed with             *)
  record,  (* the state record of the scope, or None                       *)
  cmd,     (* by process, the command it runs and what it remembers        *)
  noted,   (* the newest success and failure since the file was last lost, *)
           (* and when that failure started                                *)
  count    (* of runs, refreshes, changes and losses                       *)

vars == <<now, disk, seals, record, cmd, noted, count>>

Runs == 1..MaxRuns

(***************************************************************************)
(* What the documents say: manifests, with when the archive was taken and  *)
(* completed, attempts, claims of a verification, assessments, and the     *)
(* record of them.  A manifest is edited when its bytes are not those that *)
(* were sealed; its times may be others then, or missing.  An attempt that *)
(* was reconstructed from a manifest is named after it (of).               *)
(***************************************************************************)
Manifests == [edited : BOOLEAN, taken : Nat, completed : Nat \cup {None}]

Attempts ==
  [run : Nat, outcome : {"STARTED", "FAILED", "SUCCEEDED"},
   started : Nat, ended : Nat \cup {None}, of : Manifests \cup {None}]

Claims ==
  [archive : Runs, seal : Manifests, proven : BOOLEAN,
   judged : Manifests \cup {None}, overtaken : BOOLEAN]

Healths == [at : Nat, ok : BOOLEAN]

Records ==
  [attempt : Attempts \cup {None}, success : Attempts \cup {None},
   claim : Claims \cup {None}, health : Healths \cup {None}]

(* What the theorems assume of the constants.                              *)
ScopeAssumption ==
  /\ MaxRuns \in Nat
  /\ Stamps \subseteq Nat
  /\ None \notin Nat
  /\ None \notin Manifests
  /\ None \notin Attempts
  /\ None \notin Records

(***************************************************************************)
(* What may be at the path of an archive: nothing, or a directory with a   *)
(* manifest or without a readable one, and whose content verification      *)
(* proves or does not.  Verification does not look at a manifest's times.  *)
(***************************************************************************)
Edited(a) ==
  [edited : {TRUE}, taken : Stamps \union {seals[a].taken},
   completed : Stamps \union {seals[a].completed, None}]

Contents(a) ==
  {None, [seal |-> None, sound |-> FALSE]}
  \union [seal : {seals[a]} \union Edited(a), sound : BOOLEAN]

HasManifest(a) == disk[a] # None /\ disk[a].seal # None

Proves(a) == HasManifest(a) /\ disk[a].sound

(* Bug: the directory is enough.                                           *)
InspectDirectory(claim) ==
  IF disk[claim.archive] = None THEN "MISSING" ELSE "PRESENT"

(* What a recorded claim is worth now.                                     *)
InspectArchive(claim) ==
  LET there == disk[claim.archive]
  IN  CASE there = None -> "MISSING"
        [] there # None /\ there.seal # claim.seal -> "CHANGED"
        [] OTHER -> "PRESENT"

(***************************************************************************)
(* The record.                                                             *)
(***************************************************************************)
Fresh == [attempt |-> None, success |-> None, claim |-> None, health |-> None]

Stored == IF record = None THEN Fresh ELSE record

(* Validate: an attempt does not start before the success it follows.      *)
Valid(r) ==
  \/ r.attempt = None
  \/ r.success = None
  \/ r.attempt.started >= r.success.started

Update(r) == record' = IF Valid(r) THEN r ELSE record

(* describeRecord: what needs attention, then what is unknown.             *)
Attention(r) ==
  \/ r.health # None /\ ~r.health.ok
  \/ r.attempt # None /\ r.attempt.outcome \in {"FAILED", "STARTED"}
  \/ r.claim # None /\ (~r.claim.proven \/ InspectArchive(r.claim) # "PRESENT")

Unknown(r) ==
  \/ r.health = None
  \/ r.attempt = None
  \/ r.claim = None /\ r.success # None

Status ==
  IF record = None THEN "UNKNOWN"
  ELSE IF Attention(record) THEN "ATTENTION"
  ELSE IF Unknown(record) THEN "UNKNOWN"
  ELSE "HEALTHY"

(***************************************************************************)
(* Processes.                                                              *)
(***************************************************************************)
Idle == [at |-> "idle", archive |-> None, seal |-> None, proven |-> FALSE,
         judged |-> None, started |-> 0, health |-> None, todo |-> <<>>,
         overtaken |-> FALSE]

Step(c, from) == cmd[c].at = from

Goto(c, to) == cmd' = [cmd EXCEPT ![c].at = to]

Done(c) == cmd' = [cmd EXCEPT ![c] = Idle]

InBackup(c) == cmd[c].at \in {"backup", "published", "identified"}

Attempt(n, outcome, started, ended) ==
  [run |-> n, outcome |-> outcome, started |-> started, ended |-> ended,
   of |-> None]

Claim(c) ==
  [archive |-> cmd[c].archive, seal |-> cmd[c].seal, proven |-> cmd[c].proven,
   judged |-> cmd[c].judged, overtaken |-> cmd[c].overtaken]

Unchanged == UNCHANGED <<now, disk, seals, noted, count>>

(***************************************************************************)
(* alih backup.                                                            *)
(***************************************************************************)
BeginBackup(c) ==
  /\ Step(c, "idle")
  /\ ~ \E d \in Commands : InBackup(d)
  /\ count.runs < MaxRuns
  /\ now' = now + 1
  /\ count' = [count EXCEPT !.runs = @ + 1]
  /\ Update([Stored EXCEPT
               !.attempt = Attempt(count.runs + 1, "STARTED", now', None)])
  /\ cmd' = [cmd EXCEPT ![c] = [Idle EXCEPT !.at = "backup", !.started = now',
                                            !.archive = count.runs + 1]]
  /\ UNCHANGED <<disk, seals, noted>>

(* The bundle, verified in the working directory, gets its final name.     *)
Publish(c) ==
  LET n == cmd[c].archive
      manifest == [edited |-> FALSE, taken |-> now + 1, completed |-> now + 2]
  IN  /\ Step(c, "backup")
      /\ now' = now + 2
      /\ disk' = [disk EXCEPT ![n] = [seal |-> manifest, sound |-> TRUE]]
      /\ seals' = [seals EXCEPT ![n] = manifest]
      /\ cmd' = [cmd EXCEPT ![c].at = "published", ![c].proven = TRUE,
                            ![c].judged = manifest]
      /\ UNCHANGED <<record, noted, count>>

(* archiveIdentity of the published archive; without it the run succeeds   *)
(* all the same and records no verification.                               *)
IdentifyPublished(c) ==
  /\ Step(c, "published")
  /\ cmd' = [cmd EXCEPT
               ![c].at = "identified",
               ![c].seal = IF HasManifest(cmd[c].archive)
                             THEN disk[cmd[c].archive].seal ELSE None]
  /\ UNCHANGED record
  /\ Unchanged

Succeed(c) ==
  LET n == cmd[c].archive
      new == Attempt(n, "SUCCEEDED", cmd[c].started, now')
  IN  /\ Step(c, "identified")
      /\ now' = now + 1
      /\ Update([Stored EXCEPT
                   !.attempt = new, !.success = new,
                   !.health = [at |-> cmd[c].started, ok |-> TRUE],
                   !.claim = IF cmd[c].seal = None THEN @ ELSE Claim(c)])
      /\ noted' = [noted EXCEPT !.success = n]
      /\ Done(c)
      /\ UNCHANGED <<disk, seals, count>>

(* Some stage fails; the working directory gets its .failed name.  A typed *)
(* failure of the connector comes with an assessment.                      *)
Fail(c) ==
  LET n == cmd[c].archive
  IN  /\ Step(c, "backup")
      /\ now' = now + 1
      /\ \E health \in {Stored.health, [at |-> now', ok |-> FALSE]} :
           Update([Stored EXCEPT
                     !.attempt = Attempt(n, "FAILED", cmd[c].started, now'),
                     !.health = health])
      /\ noted' = [noted EXCEPT !.failure = n, !.since = cmd[c].started]
      /\ Done(c)
      /\ UNCHANGED <<disk, seals, count>>

(***************************************************************************)
(* alih verify ARCHIVE: the archive is judged, then looked up in the       *)
(* records, then identified, then the record of its scope is updated.      *)
(***************************************************************************)
Judge(c) ==
  \E a \in Runs :
    /\ Step(c, "idle")
    /\ disk[a] # None
    /\ cmd' = [cmd EXCEPT ![c] = [Idle EXCEPT
                 !.at = "judged", !.archive = a, !.proven = Proves(a),
                 !.judged = disk[a].seal]]
    /\ UNCHANGED record
    /\ Unchanged

RefersTo(r, a) ==
  \/ r.success # None /\ r.success.run = a
  \/ r.attempt # None /\ r.attempt.outcome = "SUCCEEDED" /\ r.attempt.run = a
  \/ r.claim # None /\ r.claim.archive = a

LookUp(c) ==
  /\ Step(c, "judged")
  /\ IF record # None /\ RefersTo(record, cmd[c].archive)
       THEN Goto(c, "known") ELSE Done(c)
  /\ UNCHANGED record
  /\ Unchanged

IdentifyJudged(c) ==
  /\ Step(c, "known")
  /\ IF HasManifest(cmd[c].archive)
       THEN cmd' = [cmd EXCEPT ![c].at = "verified",
                               ![c].seal = disk[cmd[c].archive].seal]
       ELSE Done(c)
  /\ UNCHANGED record
  /\ Unchanged

RecordVerification(c) ==
  /\ Step(c, "verified")
  /\ Update([Stored EXCEPT !.claim = Claim(c)])
  /\ Done(c)
  /\ Unchanged

(***************************************************************************)
(* alih status --reconcile: the archives found are put in order of their   *)
(* completion, if they say when that was, then each is identified, judged  *)
(* and recorded.  It is the manifest on disk that is asked.                *)
(***************************************************************************)
Discover(c) ==
  LET found == {a \in Runs : HasManifest(a) /\ disk[a].seal.completed # None}
  IN  \E n \in Runs : \E archives \in [1..n -> found] :
        /\ Step(c, "idle")
        /\ {archives[i] : i \in 1..n} = found
        /\ \A i, j \in 1..n : i < j =>
             /\ archives[i] # archives[j]
             /\ disk[archives[i]].seal.completed
                  <= disk[archives[j]].seal.completed
        /\ cmd' = [cmd EXCEPT ![c] = [Idle EXCEPT
                     !.at = "next", !.todo = archives]]
        /\ UNCHANGED record
        /\ Unchanged

NextArchive(c) ==
  LET rest == Tail(cmd[c].todo)
  IN  cmd' = [cmd EXCEPT ![c] = IF rest = <<>> THEN Idle
                                ELSE [Idle EXCEPT !.at = "next", !.todo = rest]]

ReadSealed(c) ==
  LET a == Head(cmd[c].todo)
  IN  /\ Step(c, "next")
      /\ IF HasManifest(a)
           THEN cmd' = [cmd EXCEPT ![c].at = "sealed", ![c].archive = a,
                                   ![c].seal = disk[a].seal]
           ELSE NextArchive(c)
      /\ UNCHANGED record
      /\ Unchanged

JudgeSealed(c) ==
  LET a == cmd[c].archive
  IN  /\ Step(c, "sealed")
      /\ IF disk[a] # None
           THEN cmd' = [cmd EXCEPT ![c].at = "reconciled",
                                   ![c].proven = Proves(a),
                                   ![c].judged = disk[a].seal]
           ELSE NextArchive(c)
      /\ UNCHANGED record
      /\ Unchanged

(* Bug: what was found replaces what is recorded.                          *)
SupersedesAlways(r, manifest) == manifest.completed \in Nat

Supersedes(r, manifest) ==
  r.success = None \/ manifest.completed > r.success.ended

(* The health of the manifest is that of its run.                          *)
Restored(r, manifest) ==
  LET told == [at |-> manifest.taken, ok |-> TRUE]
  IN  IF r.health = None \/ told.at > r.health.at THEN told ELSE r.health

(* The run of an archive, as its manifest tells it.                        *)
Reconstructed(a, manifest) ==
  [run |-> a, outcome |-> "SUCCEEDED",
   started |-> IF manifest.taken \in 1..manifest.completed
                 THEN manifest.taken ELSE manifest.completed,
   ended |-> manifest.completed, of |-> manifest]

RecordReconciled(c) ==
  LET manifest == cmd[c].seal
      told == Reconstructed(cmd[c].archive, manifest)
      old == Stored
      known == [old EXCEPT !.claim = Claim(c), !.health = Restored(old, manifest)]
  IN  /\ Step(c, "reconciled")
      /\ manifest.completed # None
      /\ Update(IF ~(cmd[c].proven /\ Supersedes(old, manifest)) THEN known
                ELSE [known EXCEPT
                        !.success = told,
                        !.attempt = IF @ = None THEN told
                                    ELSE IF @.started < told.started THEN told
                                    ELSE @])
      /\ NextArchive(c)
      /\ Unchanged

(* The completion was there when the archives were put in order, and is    *)
(* not looked for again: without it the process panics.                    *)
Panic(c) ==
  /\ Step(c, "reconciled")
  /\ cmd[c].seal.completed = None
  /\ Done(c)
  /\ UNCHANGED record
  /\ Unchanged

(***************************************************************************)
(* alih status --refresh: the scopes are listed, the source is asked, and  *)
(* the answer is recorded.                                                 *)
(***************************************************************************)
Ask(c) ==
  \E ok \in BOOLEAN :
    /\ Step(c, "idle")
    /\ record # None
    /\ count.refreshes + count.losses < MaxOthers
    /\ count' = [count EXCEPT !.refreshes = @ + 1]
    /\ now' = now + 1
    /\ cmd' = [cmd EXCEPT ![c] = [Idle EXCEPT
                 !.at = "answered", !.health = [at |-> now', ok |-> ok]]]
    /\ UNCHANGED <<disk, seals, record, noted>>

ApplyAssessment(c) ==
  /\ Step(c, "answered")
  /\ Update([Stored EXCEPT !.health = cmd[c].health])
  /\ Done(c)
  /\ Unchanged

(***************************************************************************)
(* A backup is killed, and what it recorded stays (any other command has   *)
(* recorded nothing yet: that it stops is that it never goes on); the      *)
(* owner changes an archive, or brings it back; the state file is lost.    *)
(***************************************************************************)
Kill(c) ==
  /\ InBackup(c)
  /\ Done(c)
  /\ UNCHANGED record
  /\ Unchanged

(* What was judged is not identified yet, or the other way round.          *)
HalfSeen(c) == cmd[c].at \in {"published", "judged", "known", "sealed"}

Change ==
  \E a \in {n \in Runs : seals[n] # None} : \E what \in Contents(a) \ {disk[a]} :
    /\ count.changes < MaxChanges
    /\ count' = [count EXCEPT !.changes = @ + 1]
    /\ disk' = [disk EXCEPT ![a] = what]
    /\ cmd' = [c \in Commands |->
                 IF cmd[c].archive = a /\ HalfSeen(c)
                   THEN [cmd[c] EXCEPT !.overtaken = TRUE] ELSE cmd[c]]
    /\ UNCHANGED <<now, seals, record, noted>>

Lose ==
  /\ record # None
  /\ count.refreshes + count.losses < MaxOthers
  /\ count' = [count EXCEPT !.losses = @ + 1]
  /\ record' = None
  /\ noted' = [success |-> 0, failure |-> 0, since |-> 0]
  /\ UNCHANGED <<now, disk, seals, cmd>>

(***************************************************************************)
(* Specification.                                                          *)
(***************************************************************************)
Init ==
  /\ now = 0
  /\ disk = [n \in Runs |-> None]
  /\ seals = [n \in Runs |-> None]
  /\ record = None
  /\ cmd = [c \in Commands |-> Idle]
  /\ noted = [success |-> 0, failure |-> 0, since |-> 0]
  /\ count = [runs |-> 0, refreshes |-> 0, changes |-> 0, losses |-> 0]

Next ==
  \/ \E c \in Commands :
       \/ BeginBackup(c) \/ Publish(c) \/ IdentifyPublished(c)
       \/ Succeed(c) \/ Fail(c)
       \/ Judge(c) \/ LookUp(c) \/ IdentifyJudged(c) \/ RecordVerification(c)
       \/ Discover(c) \/ ReadSealed(c) \/ JudgeSealed(c) \/ RecordReconciled(c)
       \/ Panic(c)
       \/ Ask(c) \/ ApplyAssessment(c)
       \/ Kill(c)
  \/ Change
  \/ Lose

Spec == Init /\ [][Next]_vars

(***************************************************************************)
(* Properties.                                                             *)
(***************************************************************************)

(* Only PRESENT means that the archive which was verified is the archive   *)
(* on disk: a claim that status calls present is about the manifest that   *)
(* was judged, whatever happened to the archive, unless that was changed   *)
(* between the two readings of one command, the one that judged it and the *)
(* one that identified it.                                                 *)
PresentIsProven ==
  record # None /\ record.claim # None =>
    \/ record.claim.overtaken
    \/ InspectArchive(record.claim) # "PRESENT"
    \/ disk[record.claim.archive].seal = record.claim.judged

(* Neither a reconciliation nor a verification, whenever it began and in   *)
(* whatever order it found the archives, puts an older success in place of *)
(* a newer one, or hides the failure of the newest run; only a manifest    *)
(* that was edited after it was sealed, and verifies all the same, can.    *)
Forged(attempt) == attempt.of # None /\ attempt.of.edited

NewerIsKept ==
  /\ noted.success # 0 =>
       /\ record.success # None
       /\ record.success.run >= noted.success \/ Forged(record.success)
  /\ noted.failure # 0 /\ record.attempt.run <= noted.failure =>
       \/ Forged(record.attempt)
       \/ record.attempt.outcome = "FAILED" /\ Status = "ATTENTION"

(* A claim of the documentation the code does not keep: no status reads    *)
(* healthy on a false success.  While the archive of the last success is   *)
(* gone, a status that asks for attention because of it would not turn     *)
(* healthy without a newer success or a change on disk; a reconciliation   *)
(* that finds only an older archive makes it so.                           *)
Troubled ==
  /\ record # None
  /\ record.success # None
  /\ record.claim # None
  /\ record.claim.archive = record.success.run
  /\ InspectArchive(record.claim) = "MISSING"

AttentionStands ==
  [][Troubled /\ Status' = "HEALTHY" =>
       disk' # disk \/ record'.success # record.success]_vars
=============================================================================
