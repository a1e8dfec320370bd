----------------------------- MODULE StateStore -----------------------------
(***************************************************************************)
(* The operational state store (internal/state/store.go): one JSON         *)
(* document per scope, read and replaced by Store.Update.  The module      *)
(* follows one document.  Every process that runs a command owns a Store,  *)
(* and a Store serializes its own Updates with a mutex; nothing serializes *)
(* two processes except the comparison of revisions in save.               *)
(*                                                                         *)
(* An Update is three steps of the file system, so that is how many steps  *)
(* it takes here: the first read (Load), the second read with the checks   *)
(* of save (Check), and the atomic rename (Rename).  The temporary file    *)
(* between Check and Rename is private to the writer and never read, so    *)
(* creating, writing and syncing it is one outcome: it works (Rename is    *)
(* enabled) or it fails (WriteFails).                                      *)
(*                                                                         *)
(* What a document says is abstracted to the set of updates it was built   *)
(* from, which is what tells a lost update from a kept one.                *)
(***************************************************************************)
EXTENDS Naturals, FiniteSets

CONSTANTS Writers,       (* goroutines calling Update                      *)
          Processes,     (* processes, each with a Store of its own        *)
          ProcessOf,     (* the process a writer runs in                   *)
          MaxUpdates,    (* bound: Updates one writer calls                *)
          Disturbances   (* what other programs do to the file             *)

ASSUME StateStoreAssumption ==
  /\ ProcessOf \in [Writers -> Processes]
  /\ MaxUpdates \in Nat
  /\ Disturbances \subseteq {"damage", "upgrade", "remove"}

VARIABLES file,       (* the document on disk                              *)
          phase,      (* where each writer is in Update                    *)
          pending,    (* the record each writer holds in memory            *)
          calls       (* how often each writer has called Update           *)

(* History: what the callers were told, and which updates were committed   *)
(* or made unreadable while another writer was inside its Update.          *)
VARIABLES saved,      (* updates whose Update returned without an error    *)
          refused,    (* updates whose Update returned an error            *)
          contended,  (* updates committed during another process's Update *)
          late        (* writers past Check when the file went unreadable  *)

code == <<file, phase, pending, calls>>
history == <<saved, refused, contended, late>>
vars == <<file, phase, pending, calls, saved, refused, contended, late>>

-----------------------------------------------------------------------------
(* Documents.                                                              *)

Updates == Writers \X (1..MaxUpdates)

(* ErrCorrupt and ErrFutureSchema: a file loadPath refuses to decode.      *)
Unreadable == {"corrupt", "future"}
Kinds == {"absent", "record"} \cup Unreadable

Document(kind, revision, applied) ==
  [kind |-> kind, revision |-> revision, applied |-> applied]

(* ErrNotRecorded; also the zero record Update starts from then.           *)
Absent == Document("absent", 0, {})

InitialFiles == {Document(kind, 0, {}) : kind \in {"absent"} \cup Unreadable}

(* The update a writer's current call of Update makes.                     *)
Current(w) == <<w, calls[w]>>

(* A call has entered the critical section of its Store's mutex.           *)
InUpdate(w) == phase[w] \in {"load", "check", "write"}

(* A writer holding a record it read: whatever is committed from here on   *)
(* is not in that record.                                                  *)
HoldsRecord(w) == phase[w] \in {"check", "write"}

(* Bug: Update does not take the mutex.                                    *)
NoMutex(p) == TRUE

MutexFree(p) == \A w \in Writers : ProcessOf[w] = p => ~InUpdate(w)

-----------------------------------------------------------------------------
(* Store.Update.                                                           *)

Call(w) ==
  /\ phase[w] = "idle"
  /\ calls[w] < MaxUpdates
  /\ phase' = [phase EXCEPT ![w] = "waiting"]
  /\ calls' = [calls EXCEPT ![w] = @ + 1]
  /\ UNCHANGED <<file, pending, history>>

Lock(w) ==
  /\ phase[w] = "waiting"
  /\ MutexFree(ProcessOf[w])
  /\ phase' = [phase EXCEPT ![w] = "load"]
  /\ UNCHANGED <<file, pending, calls, history>>

(* Update returns an error and unlocks; the file is as it was.             *)
ReturnError(w) ==
  /\ phase' = [phase EXCEPT ![w] = "idle"]
  /\ refused' = refused \cup {Current(w)}
  /\ UNCHANGED <<file, pending, calls, saved, contended, late>>

(* The first read, and the caller's mutation of what it returned.          *)
Load(w) ==
  /\ phase[w] = "load"
  /\ file.kind \notin Unreadable
  /\ pending' = [pending EXCEPT ![w] =
                   Document("record", file.revision,
                            file.applied \cup {Current(w)})]
  /\ phase' = [phase EXCEPT ![w] = "check"]
  /\ UNCHANGED <<file, calls, history>>

(* Bug: Update waits for somebody to repair the file.                      *)
LoadRefusedWaits(w) ==
  /\ phase[w] = "load"
  /\ file.kind \in Unreadable
  /\ UNCHANGED vars

LoadRefused(w) ==
  /\ phase[w] = "load"
  /\ file.kind \in Unreadable
  /\ ReturnError(w)

(* Bug: save replaces what it cannot read.                                 *)
UnmovedIfUnreadable(w) ==
  \/ file.kind = "record" /\ file.revision = pending[w].revision
  \/ file.kind # "record"

(* What save requires of the second read: the revision it was given, or    *)
(* nothing on disk and a record that was never stored.                     *)
Unmoved(w) ==
  \/ file.kind = "record" /\ file.revision = pending[w].revision
  \/ file.kind = "absent" /\ pending[w].revision = 0

Check(w) ==
  /\ phase[w] = "check"
  /\ Unmoved(w)
  /\ phase' = [phase EXCEPT ![w] = "write"]
  /\ UNCHANGED <<file, pending, calls, history>>

(* ErrConflict, or a file that became unreadable since Load.               *)
CheckRefused(w) ==
  /\ phase[w] = "check"
  /\ ~Unmoved(w)
  /\ ReturnError(w)

(* The record does not Validate, or reading the file fails.                *)
SaveRefused(w) ==
  /\ phase[w] = "check"
  /\ ReturnError(w)

(* Bug: an error of syncDirectory after the rename is returned.            *)
WriteFailsLate(w) ==
  /\ phase[w] = "write"
  /\ file' = [pending[w] EXCEPT !.revision = @ + 1]
  /\ phase' = [phase EXCEPT ![w] = "idle"]
  /\ refused' = refused \cup {Current(w)}
  /\ UNCHANGED <<pending, calls, saved, contended, late>>

(* A step of writeAtomically before the rename fails, or the rename does;  *)
(* the temporary file is removed.                                          *)
WriteFails(w) ==
  /\ phase[w] = "write"
  /\ ReturnError(w)

(* Another process is between its first read and its rename.               *)
Overlapped(w) ==
  \E v \in Writers : ProcessOf[v] # ProcessOf[w] /\ HoldsRecord(v)

(* Bug: the revision written follows the one found on disk.                *)
RenameRebased(w) ==
  /\ phase[w] = "write"
  /\ file' = [pending[w] EXCEPT !.revision = file.revision + 1]
  /\ phase' = [phase EXCEPT ![w] = "idle"]
  /\ saved' = saved \cup {Current(w)}
  /\ contended' = IF Overlapped(w) THEN contended \cup {Current(w)}
                                   ELSE contended
  /\ UNCHANGED <<pending, calls, refused, late>>

Rename(w) ==
  /\ phase[w] = "write"
  /\ file' = [pending[w] EXCEPT !.revision = @ + 1]
  /\ phase' = [phase EXCEPT ![w] = "idle"]
  /\ saved' = saved \cup {Current(w)}
  /\ contended' = IF Overlapped(w) THEN contended \cup {Current(w)}
                                   ELSE contended
  /\ UNCHANGED <<pending, calls, refused, late>>

-----------------------------------------------------------------------------
(* A process dies: its mutex dies with it, and a temporary file it leaves  *)
(* is never read.  A caller that died was told nothing.                    *)
Crash(p) ==
  /\ \E w \in Writers : ProcessOf[w] = p /\ phase[w] # "idle"
  /\ phase' = [w \in Writers |-> IF ProcessOf[w] = p THEN "idle" ELSE phase[w]]
  /\ UNCHANGED <<file, pending, calls, history>>

(* The file goes bad: the disk or a person damages it, or a newer Alih     *)
(* replaces it with a schema this one does not know.                       *)
GoesUnreadable(kind) ==
  /\ file.kind \notin Unreadable
  /\ file' = Document(kind, 0, {})
  /\ late' = {w \in Writers : phase[w] = "write"}
  /\ UNCHANGED <<phase, pending, calls, saved, refused, contended>>

Damage == "damage" \in Disturbances /\ GoesUnreadable("corrupt")
Upgrade == "upgrade" \in Disturbances /\ GoesUnreadable("future")

(* A person moves the file away.  The updates it held leave the history.   *)
Remove ==
  /\ "remove" \in Disturbances
  /\ file.kind # "absent"
  /\ file' = Absent
  /\ saved' = {}
  /\ UNCHANGED <<phase, pending, calls, refused, contended, late>>

-----------------------------------------------------------------------------
Init ==
  /\ file \in InitialFiles
  /\ phase = [w \in Writers |-> "idle"]
  /\ pending = [w \in Writers |-> Absent]
  /\ calls = [w \in Writers |-> 0]
  /\ saved = {}
  /\ refused = {}
  /\ contended = {}
  /\ late = {}

(* What a writer does next once it is inside Update.                       *)
Proceed(w) ==
  \/ Load(w) \/ LoadRefused(w)
  \/ Check(w) \/ CheckRefused(w) \/ SaveRefused(w)
  \/ Rename(w) \/ WriteFails(w)

Next ==
  \/ \E w \in Writers : Call(w) \/ Lock(w) \/ Proceed(w)
  \/ \E p \in Processes : Crash(p)
  \/ Damage \/ Upgrade \/ Remove

Spec == Init /\ [][Next]_vars

(* A running call keeps running, and sync.Mutex hands itself on to every   *)
(* waiter in turn.  Nothing obliges a process to crash or a file to rot.   *)
FairSpec ==
  /\ Spec
  /\ \A w \in Writers : WF_vars(Proceed(w)) /\ SF_vars(Lock(w))

-----------------------------------------------------------------------------
TypeOK ==
  /\ file \in [kind : Kinds, revision : Nat, applied : SUBSET Updates]
  /\ phase \in [Writers -> {"idle", "waiting", "load", "check", "write"}]
  /\ pending \in [Writers -> [kind : {"absent", "record"}, revision : Nat,
                              applied : SUBSET Updates]]
  /\ calls \in [Writers -> 0..MaxUpdates]
  /\ saved \subseteq Updates
  /\ refused \subseteq Updates
  /\ contended \subseteq Updates
  /\ late \subseteq Writers

(* The stored revision counts the updates the document was built from,     *)
(* whatever was lost on the way: no Update is applied twice or under a     *)
(* revision it did not produce.                                            *)
RevisionCountsUpdates ==
  file.kind = "record" => Cardinality(file.applied) = file.revision

(* A caller told that its Update failed (and so, in cli/state.go, stops    *)
(* recording) is right: the document on disk never carries that update.    *)
RefusedIsNotStored ==
  file.kind = "record" => refused \cap file.applied = {}

(* "Within one process ... a revision is never lost": an update that was   *)
(* committed while no other process was inside an Update is never lost.    *)
OnlyOverlapLoses ==
  file.kind = "record" => saved \ contended \subseteq file.applied

(* A corrupt or future file is replaced only by a writer that had already  *)
(* passed its second read when the file went bad; every Update that reads  *)
(* it leaves it alone.                                                     *)
UnreadableIsKept ==
  [][file.kind \in Unreadable /\ file'.kind = "record"
       => \E w \in late : phase[w] = "write" /\ phase'[w] = "idle"]_vars

(* No lock file can block a writer: every Update returns or dies, whatever *)
(* other processes do and wherever they crash.                             *)
EveryUpdateReturns ==
  \A w \in Writers : (phase[w] # "idle") ~> (phase[w] = "idle")

(* Inside one process, and while nothing else touches the file, Update is  *)
(* atomic: the steps between its first read and its rename cannot be seen. *)
Atomic == INSTANCE AtomicRecord WITH value <- file
UpdateIsAtomic == Atomic!Spec

=============================================================================
