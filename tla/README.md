# alih: a verification development

alih copies a workspace of a provider (ClickUp, Notion) into a self-contained
archive on a local disk, verifies it, and keeps on the side a small amount of
operational state: when the last attempt was, when the last success was, and
what happened in between. These modules describe the parts of it that several
processes touch at once, or that must survive a process that stops halfway, and
say what is true of them. TLC checks the modules on small instances; TLAPS
checks the theorems for every value of the constants.

Paths below are relative to the repository, and `backup.go:262` is
`internal/cli/backup.go`, line 262.

## 1. The system

| Component | State it keeps | Operations | Talks to |
| --- | --- | --- | --- |
| Operation lock (`internal/oplock`) | one file per scope with a system lock on it, and a note of its owner | `Acquire`, `Release` | taken by `backup`; the note is read by whoever is refused |
| State store (`internal/state/store.go`) | one JSON document per scope, with a revision | `Update` (read, change, read again, rename), `Load`, `List` | the recorder, `status`, `reconcile`, `verify` |
| State record (`internal/state/state.go`) | last attempt, last success, last verification, notification problem | `Validate`, `Marshal`, `Unmarshal`, `InspectArchive` | inside the document |
| Operation recorder (`internal/cli/state.go`) | one operation ID, start time, "still recording" flags, in the memory of one run | `beginOperation`, `skip`, `fail`, `succeed`, `recordVerification` | state store, event log, notifications |
| Backup pipeline (`internal/cli/backup.go`) | a private working directory, then the final directory or `<final>.failed` | `runBackup` | all of the above, provider, builder, verifier |
| Event log (`internal/event`) | `events.jsonl`, `events.1.jsonl` | `Emit` (rotate if full, append, sync), `Read`, `Latest` | the recorder; `status` reads it |
| Notifications (`internal/notify`, `internal/cli/notify.go`) | none of its own; a delivery problem is put in the state document | `Deliver` with at most five attempts | a webhook |
| Setup, configuration, entry point (`internal/config`, `internal/usage`, `cmd/alih`) | a configuration file | prompts, flags | starts the commands |
| Raw snapshot (`internal/snapshot`) | `run.json`, request ledger, recorded responses | `Begin`, `RecordResponse`, `RecordFailure`, `Complete`, `Fail`, `LoadComplete` | provider clients write it, the archive builder reads it |
| Provider clients (`internal/connector`) | the request ledger of the current snapshot | `getWithQuery` with retries, scan | provider over HTTP |
| Archive builder (`internal/archive`) | a staging directory, then the archive | `Build` | snapshot, SQLite, attachments |
| Verifier and report (`internal/verify`, `internal/report`) | none | `Verify`, aggregation of outcomes | archive |
| Connector contract (`internal/connector`) | none | capabilities and the health they add up to | clients, manifest, report |
| Status, reconcile, manual verify (`internal/cli`) | none; they write the state document | `status`, `--reconcile`, `--refresh`, `verify`, `extract` | state store, event log, archives, provider |
| Credentials (`internal/credentials`) | one JSON file for all connectors | `Save`, `Load` | every command |
| Schedules (`internal/schedule`) | files of the platform's scheduler | `Install`, `Remove`, `Inspect` | launchd, systemd, Task Scheduler |
| Organized view (`internal/organize`) | a directory made from an archive | `Build` | archive, verifier |

The parts meet in files. There is no server: every command is a process, two
commands may run at once (an operator and a scheduler), and nothing but the
operation lock keeps them apart. `verify`, `status --reconcile`, `status --refresh` and the
first record of `backup` write the state document without that lock.

What is hard here:

* **Interleaving of processes.** The state document, the event log and the
  credentials file are read, changed in memory and written back. Two workspaces
  with one name share a final directory but no lock.
* **Crashes.** A run can be killed between any two system calls; what it has
  renamed stays, what it has not written is lost, and its lock is dropped.
* **Partial failure.** Recording can fail in a run whose work succeeds, and the
  other way round. After the first failure the recorder goes quiet.
* **Ordering.** Runs take the lock in another order than they started in.
* **Retries and bounds.** Provider requests, downloads and deliveries are retried a
  bounded number of times; the event log is bounded.
* **A world that does not stand still.** A source is edited while it is read page by
  page; an archive is edited, damaged or removed while it is verified, reported on
  or browsed; requests arrive after their sender gave up.
* **Evidence.** Verification has to tell an archive that is the source from one
  that only counts the same, with nothing but the archive.

What makes each component correct is stated as the properties of its module; the
hazards, with their lines, are in `PROJECT.json`.

## 2. Modules

```
AtomicRecord  <-- implements --  StateStore     MCStateStore     HostProofs
ScopeLock     <-- implements --  OperationLock  MCOperationLock  OperationLockProofs
StateRecord   <-- EXTENDS    --  Backup         MCBackup         BackupProofs
                                 EventLog       MCEventLog       EventLogProofs
Snapshot      <-- EXTENDS    --  NotionExtraction, ClickUpEvidence <-- ClickUpExtraction
Recording     <-- implement  --  both, together Extraction   MCExtraction  ExtractionProofs
      ^-- RecordingProofs                       (MCNotionExtraction: Notion's alone)  ClickUpProofs
PortableArchive <-- ArchiveBuild ---+
      ^------------ RecoveryReport --+--> OrganizedView   MCArchive  ArchiveProofs
StateStore, ScopeStatus, Credentials, Notify, Schedule --> Host  MCHost  HostProofs
```

### StateStore, AtomicRecord

`StateStore` is `Store.Update` (store.go:228): `Call`, then `Lock` (the mutex of
the `Store`, one per process), `Load` or `LoadRefused`, `Check` or `CheckRefused`
(the second read in `save`, and the comparison of revisions), and `Rename` or
`WriteFails` (`writeAtomically`). `file` is the document on disk: absent, corrupt,
of a future schema, or a record with its revision and the set of updates that
are in it. `Crash` ends a process anywhere; `Damage`, `Upgrade` and `Remove` are
what happens to the file from outside (a bad disk, a newer alih, an operator).

`saved`, `refused`, `contended` and the like are history: they remember what the
callers were told and which updates overlapped an Update of another process, so
that properties can speak about it. No action looks at them.

`AtomicRecord` is what a caller would like to believe: an update is applied in
one step or refused. `StateStore` implements it inside one process
(`UpdateIsAtomic`); between processes it does not, and `OnlyOverlapLoses` says
exactly how far it falls short.

### OperationLock, ScopeLock

`OperationLock` is `Acquire` and `Release` (lock.go:91, 168): the file is opened
and locked in one non-blocking call, the note is truncated, written and synced,
each a step; an error in any of them closes the file, which drops the lock. A
process that finds the lock held reads the note (`ReadOwner`) and returns what it
read, which may be nothing. `Crash` drops the lock and leaves the note.
`ScopeLock` is the lock the callers rely on, two actions long.

### StateRecord, Backup

`StateRecord` has the fields of the document that properties tell apart and the
functions that rewrite them. `Validate` is kept to its one rule about two
fields: the last attempt may not have started before the last success.

`Backup` is `runBackup` with the recorder, for several runs, each a process:

| pc | code |
| --- | --- |
| `idle` | before the scope is known; a failure here records nothing (`NeverBegins`) |
| `load`, `check`, `commit` | one `Update` of the document: `Load`, `Check`/`CheckRefused`, `Commit`, and `StoreFails` for any error; `job` says which transition it records |
| `emitVerification`, `emit` | appending to the event log |
| `lock` | `oplock.Acquire`: `TakeLock`, `LockHeld` (a skip), `LockFails` |
| `lstat`, `mkdir` | the first look at the final name; the private directory |
| `scan` ... `report` | the stages; each may fail (`StageFails`), two look at the context |
| `publish`, `rename` | the second look (backup.go:255) and `os.Rename` (backup.go:262) |
| `identify` | reading the manifest of what was published; an error is only a warning |
| `preserve`, `moveAside` | `failBackupWorkingState`: its look (`LookAside`, backup.go:398) and its `os.Rename` (`MoveAside`, backup.go:399); without a free name the work stays where it is (`LeaveWork`, `MoveAsideFails`) |
| `end` | the outcome is printed, the deferred release of the lock |

Taking the lock is one step because `OperationLock` implements `ScopeLock`. The
update of the document is three steps, as in `StateStore`, because the first
update of a run is made before it has the lock.

Time is a counter, of which `TicksPerSecond` make one second: start times are
recorded finely, final names are made of whole seconds (backup.go:102). Other
programs may put a directory with something in it, an empty one or a file
(`Foreign`) at a final name or at its `.failed` name (`SomebodyCreates`).

Both names are looked at and then taken, by two system calls, and the second does
not refuse everything. What renaming a directory onto something replaces is the
platform's, the constant `Replaceable`: an empty directory on POSIX, a file on
Windows, according to the comment at backup.go:250. An empty directory may also be
the work of another run that failed before it had written anything, so a run's
working directory is empty or `filled`. `overtaken` is history: the name that a run
found free, and is about to take, is free no longer.

### EventLog

`EventLog` is `FileSink.Emit` (sink.go:121) for processes that share a state
directory, each with a sink and a mutex of its own: `Emit`, `Look` (the `Lstat` of
`rotateIfFull`), `Rotate` (the rename, by name), `Open`, `Write` or `WriteShort`,
`Sync`. An error at any step ends the recording of that operation. Files are
numbered, so that a process keeps the file it opened when the name goes to
another one. A file is the sequence of the writes that reached it; a write that
was cut short leaves no newline. `ReadLogFile` says which events a reader then
finds. `Backup` does not compose this module: it needs only that an append
succeeds or fails, and its history is the set of events that were appended.

### Snapshot, NotionExtraction

`Snapshot` is a `Session`: `RecordResponse` and `RecordFailure` append to the
ledger in memory; `Complete` writes `inventory.json`, `requests.json` and
`run.json` and renames the directory (`WriteInventory`, `WriteLedger`, `WriteRun`,
`Publish`); `Fail` writes the last two and moves it to `<target>.failed`
(`FailLedger`, `FailRun`, `Preserve`). Each is a step, and each may fail. Whoever
reads the directory later has only the files: `Loads` is `LoadComplete`. The
logical digest is kept as what it is the digest of, the index.

`NotionExtraction` is `Extract` of the Notion client over such a session, with
the caller that closes it (cli.go:903, backup.go:184). `pending` stands for the
nested loops of `traverse`: it holds the requests they will still come to, in the
order they will come to them, and `After` puts there what an answer calls for: the
data sources of a page of search results before the next page, queries after the
search, blocks after all queries, page by page and level by level. `do` is
`NextRequest`, then one of the outcomes of an attempt: `AnsweredHonestly`,
`AnsweredNonsense`, `NotRecorded`, `Refused` (followed by `Sleep`, or not),
`Unanswered`. What the source may answer is `Honest`, `Nonsense` (what cannot be
parsed, an item twice) and `Circling` (a cursor for the second time, one more page
after the last, a node that is its own child). Nonsense is one of a few faults;
circling costs none and need not stop (`AnsweredInCircles`, where `EndlessLists`
allows it), so that only the client's own guards end such an extraction. `sent` is
history: the attempts that went out. `Rebuilds` is the part of `rebuild` that
can fail.

### ClickUpEvidence, ClickUpExtraction

`ClickUpEvidence` is what the ClickUp client makes of answers. While it scans:
`Accepted` (the checks of one answer against what is known), `Learned`, `IndexOf`.
Later, without the source: `Normalizes`, the conditions under which portable.go
can build the model from index and recorded answers. `ClickUpExtraction` is the
scan in its phases (`NextPhase`) over a `Snapshot` session: ClickUp never says that
a list has ended, so pages are asked for until one is empty, `MaxPages` is the
limit after which the client gives up (`refused`), and replies are asked for when
a comment says it has some. Other than Notion's client it records also the
attempts that an interrupt or a broken body ended. The source may be edited once
between two requests (`AnsweredEdited`, with `Edits` for what may change), and a
list may go on for ever, with pages it had before or with what was listed elsewhere
(`AnsweredInCircles`).

The checks of the scan and those of portable.go differ. The scan accepts, and
`Complete` seals, what the builder refuses later: the same attachment twice on one
Task, a field definition or a person's name that differs between two answers, a
cycle of subtasks. `LoadableIsWhole` therefore claims `Normalizes` only of a source
that was not edited.

### Recording, Extraction

`Recording` is what the two clients have in common, without what they know: attempts
of a request one after the other (`Prepare`, `Answered`, `NotRecorded`, `Failed`,
`Unanswered`, `Sleep`), and the session that is completed or given up and closed. The next
request, the answer and the index are left open, and so is when a client gives up. The one
difference is the constant `Silent`: Notion's `do` may return without a record of what
it sent (client.go:209, 226), ClickUp's never does. Its promises are those of the ledger
and of the directory. `Extraction` is `alih extract` of either provider: each client with
a session of its own, and the fairness both need.

### PortableArchive, ArchiveBuild, RecoveryReport, OrganizedView

`PortableArchive` is the archive directory (rows, files with size and checksum,
manifest) and each named check of `verify.Archive` as an operator on it; `Verify`
is the function from check to status and `Result` what they add up to. `Absent` is
no directory. Rows are the normalised model with the pointers that checks follow.
Two consequences of the code are visible there: access scope is always UNPROVEN,
so VERIFIED cannot be reached and the best result is VERIFIED_WITH_LIMITATIONS;
and a manifest that is INCOMPLETE only because a required capability was
unavailable has no INCOMPLETE check.

`ArchiveBuild` is `archive.Build`: input checks, copying of the raw snapshot,
downloads one by one with their retries and the comparison of sizes, database,
schema, manifest last, rename; after an error a manifest that says FAILED and the
name `.failed`. `Fails` is an error at any step, `Kill` leaves the staging
directory, `Interrupt` makes the remaining downloads unresolved, so that the
archive is sealed INCOMPLETE. `Decay` damages a published archive: a file lost,
changed or added, or a row gone. `Exchange` is its owner, who puts another sealed
archive in its place (one of `Spares`, with whatever its downloads came to) or an
undamaged copy of the same, which also repairs what had decayed. `input` ranges over right models and over
`Slips`, the mistakes a normalisation could make with every count still right.

`RecoveryReport` is what `report.Build` claims of a directory: which sentences are
PROVEN (`BasedOn`: each on its own checks, whatever the result as a whole), which
must not be claimed, and the conclusion. `OrganizedView` composes all three:
`organize.Build` verifies, reads table by table, copies attachments, verifies
again, compares the manifest and renames, while builder, decay, the owner
(`ArchiveExchanged`) and another program act. Between two archives that both verify
only the comparison of manifests decides. One thing it cannot see: the archive
was away while tables were read, and is back when it is compared. `view.returned`
is history and says that this happened; what the view then shows is of both.

### ScopeStatus

The record of one scope between the commands that write it: backups, `verify`
(`Judge`, `LookUp`, `IdentifyJudged`, `RecordVerification`), `status --reconcile`
(`Discover`, then archive by archive `ReadSealed`, `JudgeSealed`, `RecordReconciled`)
and `status --refresh` (`Ask`, `ApplyAssessment`). `Change` edits, damages, removes or
brings back an archive; `Lose` removes the state file; `Kill` ends a backup. An Update
is one step here (StateStore says what overlapping ones lose), waiting for the lock is
left to `Backup`, and the walk through a destination is one step.

A manifest is more than a seal: it says when the archive was taken and completed, and
verification does not look at these times. An edited manifest may say others
(`Stamps`), or not say when the archive was completed, and the archive still verifies. `reconcile`
orders archives and compares them with the recorded success by the times in
the manifest on disk (`Discover`, `Supersedes`), so an attempt it reconstructs carries
the manifest it is of, and is `Forged` when that was edited. `overtaken` is history:
the archive was changed between the two readings of one command, the one that judged
it and the one that identified it (`HalfSeen`). `Panic` is the second reading of
`reconcile` when the completion it saw at the first is gone (section 6).

What the module shows of the code besides its properties: `Succeed` and
`ApplyAssessment` store an assessment without comparing times, only reconcile
compares; `verify`, `--refresh` and `--reconcile` recreate a record that was lost
under them; and since only manifests are compared, an archive of which another
file was damaged stays PRESENT until somebody verifies it.

### Credentials, Notify, Schedule, Host

`Credentials` is `FileStore.Save` (`Read`, `Merge`, `Rename`) by several processes,
without a lock, on a file that an older or newer alih may have written.

`Notify` is `deliverNotifications` and `WebhookNotifier.Deliver` of several runs and of
`alih notify --test`, over a network in which a request may arrive late or after
its sender gave up (`sent`, `Arrive`). The receiver discards keys it knows, which
is its part of the contract. After an interrupt the context is done, so nothing
more can be delivered, and the failure of an interrupted run is only logged as a
notification problem. Events are delivered also when the log refused them, so what
a replay calls the newest event is the newest that was logged, in the order of
operation IDs.

`Schedule` is `Install` and `Remove` on three platforms, step by step (`Works`), each
of which may fail or be the last (`Fails`). What systemd, launchd and Task Scheduler
do with a command is external (`Accepts`, `Scheduler`, `Restart`). A success is the
truth (`InstalledIsTrue`), but some failures have no way back through alih: on macOS and
Windows a `remove` that failed after unloading the task refuses to run again, on
macOS a changed plan cannot be installed over a loaded one, and a definition that
was deleted from `schedules.json` can no longer be removed. `Inspect` may say that
files match and the task is registered while the scheduler still runs what it
read before.

`Host` puts these four and `StateStore` into one specification. They share no variable, so a
behaviour follows one of them and the others stay as they began (`part`).

## 3. What the runs check

| Run | Instance | Shows |
| --- | --- | --- |
| `store_processes` | 3 writers in 2 processes; damage, upgrade, removal, crashes | an acknowledged update is lost only if another process was inside an Update meanwhile; a refused one is never on disk; unreadable documents are kept; the revision counts updates; every Update returns |
| `lock` | 3 processes, bounded acquires and crashes | exclusion; the note names the holder; a refused process is told of a real owner; the refinement; Acquire answers |
| `backup_one_scope` | 2 runs of one scope, one may be killed and one interrupted, 2 instants in one second | a recorded success is a published bundle; one run in the pipeline; each run ends and frees the scope |
| `backup_two_scopes` | 2 runs of two scopes with one final name, foreign directories and files at it and at its `.failed`, failing storage, one run killed, one interrupted; an empty directory and a file give way to a rename | exit codes and events are true; a `.failed` path shows the work unless that was empty; nothing is replaced but what the platform's rename replaces unseen |
| `event_log` | 3 processes, 2 events each, a log full after 2 lines | both files stay bounded; the newest lines survive a rotation that nobody overtakes; a partial line costs at most one acknowledged event |
| `extraction` | Notion: two data sources, three pages (one more than a query returns), three levels of blocks, lists of one item; ClickUp: one Space, an archived List and one in a Folder, a Task with Subtask, two comments, reply, attachment, field value and two links; two faults of the source, or one edit, or a list that never ends; an interrupt, a kill, any write failing | a directory that loads is whole; the ledger is what was sent; retries counted are retries made; only whole directories get the target's name; no list is followed in circles, and the extraction ends |
| `archive` | a source of 14 objects; a faithful model, two variants of it and 22 wrong ones; one builder; one failing step, one damage or two exchanges among two spare archives, names taken by others | what verifies is the source; what is faithful verifies; names show whole directories only; the report says no more than there is; the view is of one archive; nothing is replaced |
| `host` | one of five parts per behaviour: the store with 2 writers in one process and 3 updates; 2 commands on one record with 2 backups, one change of an archive or of the times in its manifest, one loss or refresh; 2 processes saving 2 connectors; 2 processes delivering 2 operations to a receiver, with 2 attempts and a replay; schedules on 3 platforms with 2 edits | what status calls PRESENT was proven; newer success and failure stay unless a manifest was edited; only overlapping saves drop a credential; a receiver handles a transition once; what install and remove say is true; Update implements `AtomicRecord` in one process |
| `backup_hidden`, `backup_lost_success` | 2 runs of one scope, 2 instants | expected to fail, see section 6 |
| `notion_truncation`, `notion_titles` | the Notion workspace without faults; for the second, two title columns | expected to fail, see section 6 |

In `host` a behaviour follows one part and the others stay as they began, so the states are the sum of the parts'
and not their product, and a property of one part is checked as if it ran alone.
`extraction` does the same with the two clients. Symmetry is used in `host`, which has
no liveness property: the two commands are interchangeable.

Bounds, and why they are enough. Each is a constant or a guard of the module
that names it.

* Three writers in two processes are the least that have both a competitor in
  the same process and one outside it; a lost update takes two of them.
* The lock needs a holder, a process that is refused while the note changes hands,
  and the next holder: three processes. Each has a bounded number of Acquires
  (`MaxAcquires`).
* Everything `Backup` shares is shared by pairs: two runs of one scope share lock
  and document, two runs of two scopes share a final name. The theorems (section
  4) have no bound on runs, scopes or names. The clock has one tick, enough for
  two starts in another order than the locks and, with `TicksPerSecond` = 2, for
  different start times under one final name. `Kills` and `Interrupts` name the
  runs that may be killed or interrupted; a run is killed at most once because it
  stays dead, and a restarted command is another run. The run of two scopes lets
  both an empty directory and a file give way: what holds then holds on each
  platform, and the theorems have `Replaceable` as it is.
* The log needs two processes that find it full together and one that fills the
  file between them; `MaxLines` = 2 makes a full file longer than the one a second
  rename puts in its place. Sizes are counted in lines of one length; the file is
  then larger than its maximum by lines, as the real one is by bytes.
* Lists of one item make every list with two a list of two pages; `MaxQuery` = 2 puts
  the ceiling below the three pages of a data source, `MaxPages` = 3 leaves ClickUp's
  longest list its pages and the empty one after them, and one that goes on is given
  up. `MaxAttempts` = 2 and `MaxFaults` = 2 leave room for a request refused to the end,
  and for a retry and a malformed answer in one extraction. `MaxRequests` is one more
  than an honest source needs, so the guard of `do` fires on a list that goes on.
  An edit of ClickUp uses up all faults, and so does leading a client in circles, which
  may begin at any list: what it makes of later answers is the question, and a refused
  request more does not bear on it. It has no bound of its own; that its behaviours end
  is the work of the cursors, the items and nodes seen, `MaxPages` and `MaxRequests`, and
  without any one of these guards `NoCircles` fails.
* The archive has one row of every kind that a check treats on its own, and two where
  one could stand for the other: Lists at two levels, a Task and its Subtask with an
  attachment each, a comment and a reply, a link inside and one out. One fault
  (`MaxFaults`) and one damage (`MaxDamage`): a second fault meets a build that has already
  ended, and a second damage an archive that already fails. Two exchanges (`MaxSwaps`)
  put an archive away and back; an exchange takes a damage away, and is itself the
  damage of its behaviour.
* `ScopeStatus` needs an older and a newer backup (`MaxRuns` = 2), two commands of which
  one overtakes the other, and one change of an archive between them. One time in
  `Stamps`, later than any that the clock reaches, is what an edit has to say to be
  preferred; that a time is early or missing is among the edits as well. Losing the
  state file and asking the source share a bound (`MaxOthers`).
* A credential is dropped by two processes; the file's versions are told apart by
  two connectors. A repeated delivery takes a retry or a replay; a confusion of two
  transitions takes two operations, or two events of one. A schedule needs an
  edit between two commands, and one that is disabled.
* `CHECK_DEADLOCK FALSE` appears where all writers, runs, builds or extractions may be
  finished, or the bounds used up.

Fairness. `FairSpec` gives weak fairness to the steps a process takes by itself
and to nothing else: processes are scheduled. Beginning a run, killing,
interrupting, damaging files, holding the lock for however long, and the clock are
not fair. The mutex of `Store` needs no more than this because its holder always
gets to release it. Extractions are fair because every request has a timeout
(notion/client.go:138, clickup/client.go:107) and every sleep a limit;
interrupts and kills are not fair.

## 4. What is proved

TLAPS checks these for any number of processes, writers, runs, scopes and names.

* `OperationLockProofs`: `TypeOK`, `MutualExclusion`, `NoteNamesHolder`,
  `NamedWasOwner`, and the implementation of `ScopeLock`.
* `BackupProofs`: `TypeOK`, `SuccessIsPublished`, `OneRunPerScope`, `ToldIsTrue`,
  `HistoryIsTrue`, `EvidenceIsWhereRecorded`, `NothingIsReplaced`.
* `EventLogProofs`: `TypeOK`, `DiskUsageHasCeiling`, `NewestIsIntact`, `DamageIsLocal`.
* `RecordingProofs`: the promises of `Recording`, `LedgerIsWhatWasSent`,
  `FailuresAreRetried`, `TargetIsLoadable`.
* `ExtractionProofs`: both clients implement `Recording`, and from that
  `LedgerMissesAtMostLast`, `RetriedIsRetried` and `TargetIsLoadable` of Notion,
  `LoadableIsWhole` of Notion with an invariant of its own, and
  `ClickUpLedgerIsComplete` and `ClickUpRetriedIsRetried`.
* `ClickUpProofs`: `ClickUpIsWhole`, with an invariant of its own.
* `ArchiveProofs`: `TargetIsWhole`, `VerifiedIsTheSource`, `FaithfulIsVerified`,
  `ReportIsHonest`, `ViewIsOfOneArchive`, `NothingIsReplaced`.
* `HostProofs`: of the state store `TypeOK`, `RevisionCountsUpdates`, `RefusedIsNotStored`,
  `OnlyOverlapLoses`, `UnreadableIsKept`, and for one process `UpdateIsAtomic`; of the other
  parts of a host `PresentIsProven`, `NewerIsKept`, `OnlyOverlapDrops`, `InstalledIsTrue`
  and `OncePerTransition`.

So every invariant and every action property of the runs that pass is stated by a theorem, but
for `NoCircles` of the two clients, which `EveryExtractionEnds` states together with the end it is for.

Each module defines `IInv` (`HostProofs` one for each part), proves that it holds initially and is kept by every
action (one lemma per action or per group that changes the same variables), and
derives the properties from it.

*Store.* Nothing in the document says which updates overlapped. `IInv` adds that
a writer between its two reads holds what was on disk when it read, unless
another process has committed since, and then the writers concerned are in the
set of contended ones. Within a process only the holder of the mutex is inside.

*Lock.* `IInv` says that a process has the handle exactly when the system lock is
its own, that from the write on the note is its own, and that only operations
that ever had the lock are noted or named.

*Backup.* `SuccessIsPublished` alone is not inductive: a document is written from
a record in memory, and that was made from what the run believes. `IInv` relates
the three. `RunIsConsistent` fixes what a run believes by where it is (a run whose
job is to record a success has published, and published something); `WorkIsOnDisk` says that a directory
believed to be published stands there, that one believed to be preserved does or was
empty and gave way to a run of another scope (`GaveWay`), and that a published directory
stands nowhere else; `MayBelieve` says of every record, on disk or in memory, that
what it points at is there. The last is kept by every step because of `Kept`: no
step replaces a published directory, which is never empty, or changes the start or
verdict of a run that has published, or the name of one whose work was preserved. `LookHolds`
carries what a run saw from its look to its rename: the name is free or the run was
overtaken, and no run of its own scope has failed work there, because they have one
lock and the lock is held over both. That only another scope's run can take
the place of empty work follows from it, and so does `NothingIsReplaced`: what goes
appeared in the window.

*Event log.* The ceiling counts the processes whose next write may reach a file
(`Writers`): whoever fills it is no longer one of them, and a full file gains none,
so it grows by at most one line of each other process. That the newest lines are
there follows from `LastWrites`: undisturbed, the end of the sequence of all
writes is the current file, before it the rotated one, and the rotated one is
full. `DamageIsLocal` compares the sizes of two sets of lines, so a map from one to the
other is needed: from a line that a reader is not shown to the one before it in its
file. It is a map into the damaged lines because there is one line for an event
(`Truth`): a process that was told its event is recorded wrote all of the line, so
what hides it is not its own end but what it ran into.

*Extraction.* The promises of `Recording` are about what is left on disk, so its `IInv`
carries a fact from the request loop through every write of the closing to `Loads`. While
the session is open, every attempt has its record, every failed one but the last has its
retry, and the last, if it failed, is about to be retried: the traversal therefore ends
only when none is left (`ToBeRetried`). From there on `Sound` does not change, and a run
record can say COMPLETE only if it holds (`Sounds`). `Files` says which files have been
written by the time the session is at each step; after an error nothing is known of the
files but that the ledger, if there is one, is the one in memory. That each client is such a client is a
step simulation, one case per action (`NotionSteps`, `ClickUpSteps`); an interrupt changes
nothing that `Recording` knows of. Both instances are in one module, with `Silent` TRUE for Notion and
FALSE for ClickUp, and the properties of the runs follow. The workspace, the order of the requests, the
answers and the index stay uninterpreted, so the theorems hold for any traversal.

*What a Notion snapshot holds.* `LoadableIsWhole` needs to know what the traversal is
about. Two invariants close in on it from both sides (`Traversed`). From above: all that was
found or is asked for is of the workspace (`Sourced`), its answer is recorded (`Answers`), a
block was found after what it is in (`Under`). From below: of all that is in something that
was found, whatever is missing is still asked for, by a list whose cursor is before it
(`Covers`). When nothing is left to be asked, both meet (`AllIsFound`). A malformed answer
gets no exception in either: a cursor that leads back leaves a request that will be refused,
after which nothing need be covered (`Sane`); an item that comes twice, or a
node as its own child, is found twice, and then the index is not valid
(`Below` claims something only while nothing was found twice). The answers of a
source that leads in circles are of these kinds (`MayAnswer`), so nothing more is needed
for them; that the client does not follow them is `NoCircles`. What is in a workspace is
the smallest set that holds it and, of each of its members, what can be reached in it (`Reachable`, `Spans`).
The walk of `rebuild` from a block to its page is a recursive function; that
it ends at a page in as many steps as there are rows is an induction over the naturals along `Under`
(`TracedToAPage`). The model filters sequences by position (`Subsequence`) because the provers know nothing of
`SelectSeq`.

*ClickUp.* `ClickUpIsWhole` says two things of a snapshot that loads. Whatever was edited
while the client read, its index has exactly the objects that its answers mention; and if
nothing was, it is the Workspace, and portable.go makes an archive of it (`Normalizes`). The
inductive invariant is `ScanInv`. Its first half needs no source: what an answer mentions
is known (`LedgerLearned`) and what is known was mentioned (`Said`). For its second half
`Reaches` says of each object of the Workspace that it is known, or belongs to a phase still to
come, or is what a request in the queue will bring: the rest of a list from this page on
(`Lists`), the replies of a comment still to be read or noted among the roots (`Threads`), or
what hangs on a Task whose detail is asked for. A phase ends with an empty queue, so what belongs
to it is then known, and the requests of the next phase are made of that. `Truthful` adds
that what `scanState` keeps of an object is what the source says. An edit makes all of this void
(`edited`), and a `refused` request in the queue (a page beyond
`MaxPages`) ends the scan before it could be believed.

`Normalizes` compares the ledger with the index by counting: a Custom Field may be listed in many
places, but the detail of a Task and a comment must come once. So the invariant has `Details`, because
`RequestsOf` asks once for each Task that is known, and `CommentsOnce`, because `Accepted` refuses
a comment that is known; both stand whatever is edited.
The walks of normalizeHierarchy end because a Workspace has no cycle of Subtasks: this is an
induction over the naturals along the chain of parents (`AllHierarchiesEnd`).

*Archive.* The theorems hold for any source, any normalisation of it, right or wrong, any
number of faults and any amount of damage. `IInv` has four parts. `HeldOK` and
`StagingOK` say what each attachment and each staged file is at each step of the build;
for a directory under its final name they make every check of structure, inventory
and checksums pass (`TargetWhole`). `DiskOK` says what damage can do: take away rows
and files, or change a file to content that has another digest (`Decayed`). So a check that
passes on a damaged archive passes on files that are as they were
written, and what a check compares is the source: this is the whole of `VerifiedSource`
and, claim by claim instead of all checks at once, of `HonestReport`. An exchange starts
this anew: what is under the name is then a sealed archive of another input (`Exchanges`).
`ViewOK` follows the two verifications of `organize.Build` and the comparison after
them. It says something of the view only while the manifest on disk is the one that
the view was started with and no archive was put back meanwhile (`Ours`): then every table read so
far was read from the database as written, or the database has decayed, which the last
verification sees. The comparison refuses what is not `Ours`, and what it accepts is
right from then on, whatever happens to the archive (`ViewIsRight`).

The check of the hierarchy walks from an object to its ancestors, a recursive function
over the number of steps. The library's induction theorems cannot be used, but
induction over the naturals has a proof of its own (`Induction`, by the cardinality
of intervals), and from it that such a function is what its recursion says
(`AboveIs`) and that the ancestors found are those of the source (`Hanging`).

`FaithfulIsVerified` is the converse of `VerifiedIsTheSource`: `Faithful` says of the input, without
any check of the verifier's, that it has a row for every object, that each hangs where its
object was seen and that the objects form a forest, and the theorem says that
every check then passes, whatever the downloads did. Two steps are not a comparison of what
the builder wrote with what the verifier reads. A chain of parents in the rows is part of a
chain in the index and ends with it (`ChainsEnd`). And the verifier looks for the home of
a nested record or a reply by climbing the index, while a normalisation copies it from the
parent: both find the same (`AncestorIsHome`), by induction along the chain. `Faithful`
asks that every capability be REQUIRED, which is what both connectors declare. An OPTIONAL one that
is not available would leave the status at CREATED_UNVERIFIED (`archiveStatus` looks at the required ones
only) and the health at DEGRADED, which `checkManifest` refuses: the builder and the verifier would
not agree.

*Scope status.* `PresentIsProven` follows from what a claim says of itself: the manifest it was
identified by is the one it was judged by, or the claim was overtaken. So `WorkOK` says
of every command, step by step, what it has read of the archive it works on and, between its two
readings, that this is still there unless it was overtaken. `NewerIsKept` is about time, and the
code compares starting times of attempts with times in manifests. `SealsOK` says that the
bundles lie one after the other in the order of the runs and that a manifest on disk is the one sealed or an
edited one, and `Fits` where a run lies among the bundles: after those of earlier runs,
before its own. A manifest that was edited may say any time. So the record is not asked to name
runs that fit, only to have attempts and successes that are late enough: `Owed` says
that the success of the record ended no earlier than the bundle of the newest
success was completed, and that its attempt started no earlier than the newest failed run, and if one of
them is not forged, that it is of that run or a later one. A reconciliation replaces a success by a later
one only (`Supersedes`), and a later one that is not forged is of a later run. `Latest` says that no attempt
started after the run that is going on, unless it is forged, so `Valid` does not refuse the record
of a running backup without a forgery being there. `Owed` implies `NewerIsKept` for the record in the file.

*Schedules.* What a command has done so far is written down for each point of
its list of steps (`InstallOK`, `RemoveOK`): before the last step of an install the files
are already those of its definition, and the last step makes the scheduler read them. An
interrupted command leaves nothing said, and what was said stays true under a login, because
a login reads the files that are there (`Restarting`).

*Credentials.* Only the document knows which saves overlapped, and it does not say. `CredentialIInv`
adds what the processes hold: one whose read is not stale has in hand exactly the
secrets that the file holds now, so what it renames into place differs from the file
by its own entry alone.

*Notifications.* `NotifyIInv` collects the pairs of key and transition that are anywhere: of
events in the log or in a run, of requests under way, of requests processed
(`Marks`). Key and transition determine each other in all of them (`OneToOne`),
because every pair lies behind the run it is of (`Past`): its sequence number is
at most the run's, and its place is before what the run has left to emit. A new event gets
the next number and the next place; every other step makes no new pair
(`MarksStep`), which is why a replay, a retry and a late arrival are harmless.

Assumptions are those on the constants, by name: a run has one scope, a scope one
directory, `None` is none of the values it is told apart from, and a replay has no
operation ID of its own. `ScopeAssumption` asks that nothing recorded is `None`. Of the archive's inputs `InputsAreRead` says what the type of
the model in the code says (an index is finite, a capability has three fields, what is looked up has an ID, an attachment that
is to be downloaded has a row, is PENDING and has no file yet), and `BytesAreWhole` that what the
source holds is a complete file. `KindsAreNested` says what is in what in a Notion workspace: the client
passes over a search result that is no data source, a row that is no page and a child that is no
block (scan.go:225, 327, 382), so nothing else is in the lists as it reads them.
`WorkspaceAssumption` says what a ClickUp Workspace is while nobody edits it: everything but Custom Fields
is in something of the kind that may hold it; a Task says which List it is in and which Task it is a Subtask
of, in the same List and without a cycle; what hangs on Tasks hangs on one, an attachment on just one, and
every relationship on some; replies are one level deep and counted by their comment; a person has one
name. It is an assumption on ClickUp's data and not on the client, and it is needed only for the second half
of `ClickUpIsWhole`: once something was edited, the answers need not agree with it. TLC evaluates it on the
Workspace of the instance.

## 5. What is only model-checked, and what is not modelled

Liveness (`EveryUpdateReturns`, `AcquireAnswers`, `EveryRunEnds`,
`EveryExtractionEnds`) is checked by TLC only: it rests on fairness, which is beyond
the prover. `NoCircles`, the safety part of `EveryExtractionEnds`, is checked by TLC only as well;
an extraction that ends only because a model's bound ran out would satisfy the rest.

Left out of the modules on purpose:

* power loss after a rename and before the directory is on disk; the code syncs
  files, and what a file system does with an unsynced directory is not in it;
* the Windows variants of the lock and of replacement: the same protocol;
* the text, codec and size rules of single fields, except where two fields meet;
* of the Notion source: that it is edited while it is read, except that an item may
  then come twice. What is missing because of an edit cannot be seen in the
  answers, and `run.json` says that the snapshot is not atomic;
* that the requests of `Scan` count towards the limit of the extraction by the same
  client: `MaxRequests` is what is left of it;
* a `Read` of the log that a rotation overtakes between its two files, and the
  order in which `Latest` shows events;
* of the archive: identities, tags and observed counts, the workspace column of
  tables other than containers, the legacy schema 2, the search for credentials
  in the tree, nesting and form of paths, the size limit of attachments; the
  manifest a report names is the one of the moment it was verified; HTML, text
  and pages are their sentences and entities;
* of deliveries: the write of the delivery's result to the state document may fail
  like any other (StateStore); the configuration's syntax;
* of schedules: the text of units, plists and tasks, two schedule commands at once;
* configuration, setup, usage text and `cmd/alih` (wiring and prompts), the
  conformance suite (test code), flag parsing and printing in `internal/cli/cli.go`.

What stands at a name can be replaced in one case, which `NothingIsReplaced` states:
it appeared between a look and a rename, and the platform's rename replaces it. That
is an empty directory on POSIX and, as backup.go:250 says, a file on Windows. At a
`.failed` name it may be the empty working directory of a run of another scope, whose
record then names a path where another run's work is (`EvidenceIsWhereRecorded`); nothing a
run had written is lost that way. Between processes more than
one update can be lost at once: HARDENING.md:305 speaks of one.

## 6. Where code and documentation disagree

* `backup_hidden`. backup.go:384 says that state is recorded before a failure is
  printed so that `status` shows what the operator was told. A run that started
  first and took the lock second fails, and its record is refused: its start
  precedes that of the last success (state.go:428).
* `backup_lost_success`. HARDENING.md:305 says that the residual cost of an
  overlap is one lost attempt record. The first update of a run is made before
  the lock is taken, so a run about to be skipped can put back a document without
  the success that another run has just recorded.
* (No run.) sink.go:31 says that the newest history is always intact.
  Two processes that find the same file full both rename; the second rename puts
  the file the first one has just created over the one it has just saved.
  `NewestIsIntact` excepts such a rotation; checking `NewestHistoryIsIntact` of `EventLog`
  with `EventLog.cfg` shows it.
* `notion_truncation`. scan.go:37 says that a query that hit Notion's ceiling makes
  the run incomplete. `truncated` is set and never read, the limitation that goes
  with it stays in memory (the archive's come from `rebuild`, which has none), and
  the snapshot says COMPLETE.
* `notion_titles`. vocabulary.go:73 says that every object is in the index exactly
  once. A property is indexed by its own id, which Notion makes unique within one
  data source only: all title columns have the id `title`. Two data sources with
  columns give a duplicate, and Complete refuses the index every time. The
  fixture of the tests has no columns in its second data source.

* (No run.) HARDENING.md:21 forbids a status that reads healthy on a false success.
  When the archive of the last success is gone, status asks for attention. A
  reconciliation that finds an older sound archive replaces the verification, not
  the success (reconcile.go:193), and the status reads healthy: the newest backup is
  recorded, the archive that is verified is another one. Check `Scope!AttentionStands`
  in `MCHost` to see it. The test `TestReconcileNeverReplacesANewerRecordedSuccess` expects
  the older verification.
* (No run.) state/archive.go:36 says that only PRESENT means that the archive which
  was verified is the one on disk. `alih verify` judges first and identifies
  afterwards (cli/state.go:501); an archive that is replaced in between gets the
  verdict of the one before. `PresentIsProven` excepts it by the name `overtaken`, and
  excepts nothing else: a change before or after those two readings is covered.
* (No run.) reconcile.go:40 says that a bundle that cannot be verified now is reported and
  left alone. reconcile.go:109 skips a manifest that does not say when its archive was completed, and
  reconcile.go:155 reads the manifest again and does not look: when an edit takes the
  time away in between, the process panics. `Panic` of `ScopeStatus` is that step.
* (No run.) capability.go:46 lets a connector declare a capability OPTIONAL, so that
  a run may make a clean claim without it. When it is not AVAILABLE the health is
  DEGRADED, and `manifest_integrity` fails for a clean archive that is not HEALTHY
  (verify/files.go:140). Both connectors declare only REQUIRED ones.

The disagreements that are runs are those that lose or misreport a backup.
`backup_hidden` has two causes: the conflict of two updates, which is the trace TLC
prints, and the rule of Validate described above.

Three smaller differences. `LoadComplete` accepts a snapshot that was killed between
its last write and the rename, although HARDENING.md:101 says an interrupted session
never loads; it is whole, as `LoadableIsWhole` shows. store.go:50 says that
`ErrConflict` means the record changed since it was read; the comparison is of
revisions, and a revision can come back with other content after an overlapping
rename. And report/build.go:62 calls an archive unaltered since it was written when its
files match the manifest; an edit of the text of `manifest.json` itself, which has no
checksum, leaves that PROVEN.

## 7. Plan

Modelled, in this order:

1. `StateStore` with `AtomicRecord` and proofs.
2. `OperationLock` with `ScopeLock` and proofs.
3. `StateRecord`, `Backup` and proofs.
4. `EventLog` and proofs. A reader in two steps is left.
5. `Snapshot`, `NotionExtraction`, `ClickUpEvidence`, `ClickUpExtraction`; `Recording`,
   `Extraction` and proofs.
6. `PortableArchive`, `ArchiveBuild`, `RecoveryReport`, `OrganizedView`.
7. `ScopeStatus`, `Schedule`, `Credentials` and `Notify`, together `Host`, and proofs.

Every invariant and action property of the runs that pass is proved. What the plan has left: a proof of
`NoCircles`, a reader of the event log in two steps, a statement in `ScopeStatus`
of how old the assessment may be that a refresh leaves when it races a backup, and the parts that
section 5 leaves out.
