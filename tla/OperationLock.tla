---------------------------- MODULE OperationLock ----------------------------
(***************************************************************************)
(* The operation lock (internal/oplock): an operating-system lock on an    *)
(* open file, and in the file a note of who took it.  Acquire never waits. *)
(* The lock and the note are separate: the note is truncated, written and  *)
(* synced after the lock is taken, is read by whoever was refused without  *)
(* any lock, and outlives the lock.  The module follows one lock file,     *)
(* that is, one scope.                                                     *)
(***************************************************************************)
EXTENDS Naturals, FiniteSets

CONSTANTS Processes,     (* processes that run an operation on the scope   *)
          Nobody,        (* no operation: nobody holds, nobody is named    *)
          MaxAcquires    (* bound: Acquires one process calls              *)

Operations == Processes \X (1..MaxAcquires)

ASSUME OperationLockAssumption ==
  MaxAcquires \in Nat /\ Nobody \notin Operations

VARIABLES flock,      (* the operation whose file handle holds the lock    *)
          note,       (* the operation the file names; Nobody: unreadable  *)
          step,       (* where each process is in Acquire                  *)
          acquires,   (* how often each process has called Acquire         *)
          named       (* what the last HeldError of a process named        *)

(* History: the operations that were ever given the lock.                  *)
VARIABLE owners

vars == <<flock, note, step, acquires, named, owners>>

-----------------------------------------------------------------------------
Current(p) == <<p, acquires[p]>>

(* The process has the handle that holds the lock.                         *)
HasHandle(p) == step[p] \in {"locked", "truncated", "written", "inside"}

(* Acquire has returned a Lock, and Release has not been called.           *)
Inside(p) == step[p] = "inside"

GoTo(p, s) == step' = [step EXCEPT ![p] = s]

-----------------------------------------------------------------------------
(* Bug: the note is written before the lock is taken.                      *)
AcquireNotes(p) ==
  /\ step[p] = "idle"
  /\ acquires[p] < MaxAcquires
  /\ acquires' = [acquires EXCEPT ![p] = @ + 1]
  /\ note' = <<p, acquires[p] + 1>>
  /\ GoTo(p, "open")
  /\ UNCHANGED <<flock, named, owners>>

Acquire(p) ==
  /\ step[p] = "idle"
  /\ acquires[p] < MaxAcquires
  /\ acquires' = [acquires EXCEPT ![p] = @ + 1]
  /\ GoTo(p, "open")
  /\ UNCHANGED <<flock, note, named, owners>>

(* The directory or the path is not what it must be, opening fails, or     *)
(* flock fails for another reason than a holder.                           *)
SetupFails(p) ==
  /\ step[p] = "open"
  /\ GoTo(p, "idle")
  /\ UNCHANGED <<flock, note, acquires, named, owners>>

(* flock(LOCK_EX | LOCK_NB) succeeds.                                      *)
FlockTaken(p) ==
  /\ step[p] = "open"
  /\ flock = Nobody
  /\ flock' = Current(p)
  /\ owners' = owners \cup {Current(p)}
  /\ GoTo(p, "locked")
  /\ UNCHANGED <<note, acquires, named>>

(* Bug: any failure of flock is taken for a lock left by a dead process.   *)
FlockHeldIgnored(p) ==
  /\ step[p] = "open"
  /\ flock # Nobody
  /\ GoTo(p, "locked")
  /\ UNCHANGED <<flock, note, acquires, named, owners>>

(* It answers EWOULDBLOCK; the handle is closed.                           *)
FlockHeld(p) ==
  /\ step[p] = "open"
  /\ flock # Nobody
  /\ GoTo(p, "refused")
  /\ UNCHANGED <<flock, note, acquires, named, owners>>

(* Bug: the refused process polls until it can name an owner.              *)
ReadOwnerPolls(p) ==
  /\ step[p] = "refused"
  /\ note # Nobody
  /\ named' = [named EXCEPT ![p] = note]
  /\ GoTo(p, "idle")
  /\ UNCHANGED <<flock, note, acquires, owners>>

(* Bug: the refused process takes over a lock without a readable note.     *)
ReadOwnerSteals(p) ==
  /\ step[p] = "refused"
  /\ note = Nobody
  /\ flock' = Current(p)
  /\ owners' = owners \cup {Current(p)}
  /\ GoTo(p, "locked")
  /\ UNCHANGED <<note, acquires, named>>

(* The refused process looks at the note, some time later; a note it       *)
(* cannot open or decode names nobody.                                     *)
ReadOwner(p) ==
  /\ step[p] = "refused"
  /\ \E o \in {note, Nobody} : named' = [named EXCEPT ![p] = o]
  /\ GoTo(p, "idle")
  /\ UNCHANGED <<flock, note, acquires, owners>>

Truncate(p) ==
  /\ step[p] = "locked"
  /\ note' = Nobody
  /\ GoTo(p, "truncated")
  /\ UNCHANGED <<flock, acquires, named, owners>>

WriteOwner(p) ==
  /\ step[p] = "truncated"
  /\ note' = Current(p)
  /\ GoTo(p, "written")
  /\ UNCHANGED <<flock, acquires, named, owners>>

Sync(p) ==
  /\ step[p] = "written"
  /\ GoTo(p, "inside")
  /\ UNCHANGED <<flock, note, acquires, named, owners>>

(* Truncating, positioning, writing or syncing fails: the lock is released *)
(* and the note stays as far as it got, half a note being no note.         *)
OwnerFails(p) ==
  /\ step[p] \in {"locked", "truncated", "written"}
  /\ note' \in {note, Nobody}
  /\ flock' = Nobody
  /\ GoTo(p, "idle")
  /\ UNCHANGED <<acquires, named, owners>>

(* The note is retained.                                                   *)
Release(p) ==
  /\ Inside(p)
  /\ flock' = Nobody
  /\ GoTo(p, "idle")
  /\ UNCHANGED <<note, acquires, named, owners>>

(* The system closes the handles of a process that dies, which unlocks.    *)
Crash(p) ==
  /\ step[p] # "idle"
  /\ flock' = IF HasHandle(p) THEN Nobody ELSE flock
  /\ GoTo(p, "idle")
  /\ UNCHANGED <<note, acquires, named, owners>>

-----------------------------------------------------------------------------
Init ==
  /\ flock = Nobody
  /\ note = Nobody
  /\ step = [p \in Processes |-> "idle"]
  /\ acquires = [p \in Processes |-> 0]
  /\ named = [p \in Processes |-> Nobody]
  /\ owners = {}

(* The steps Acquire takes of itself, once called.                         *)
Proceed(p) ==
  \/ SetupFails(p) \/ FlockTaken(p) \/ FlockHeld(p) \/ ReadOwner(p)
  \/ Truncate(p) \/ WriteOwner(p) \/ Sync(p) \/ OwnerFails(p)

Next == \E p \in Processes : Acquire(p) \/ Proceed(p) \/ Release(p) \/ Crash(p)

Spec == Init /\ [][Next]_vars

(* A process inside Acquire keeps running.  An operation that holds the    *)
(* lock owes nobody its end.                                               *)
FairSpec == Spec /\ \A p \in Processes : WF_vars(Proceed(p))

-----------------------------------------------------------------------------
TypeOK ==
  /\ flock \in Operations \cup {Nobody}
  /\ note \in Operations \cup {Nobody}
  /\ step \in [Processes -> {"idle", "open", "refused", "locked", "truncated",
                             "written", "inside"}]
  /\ acquires \in [Processes -> 0..MaxAcquires]
  /\ named \in [Processes -> Operations \cup {Nobody}]
  /\ owners \subseteq Operations

(* Two processes are never inside one scope (package doc of oplock).       *)
MutualExclusion ==
  \A p, q \in Processes : Inside(p) /\ Inside(q) => p = q

(* While an operation is inside, the note names that operation: no step of *)
(* an earlier holder, of a failed or refused Acquire, or of a dead process *)
(* is still to come that would overwrite it.                               *)
NoteNamesHolder ==
  \A p \in Processes : Inside(p) => note = Current(p) /\ flock = Current(p)

(* A HeldError names only an operation that was given the lock, and never  *)
(* the operation that was refused, although the note is read without any   *)
(* lock and may be stale.                                                  *)
NamedWasOwner ==
  \A p \in Processes :
    named[p] # Nobody => named[p] \in owners /\ named[p] # Current(p)

(* Acquire takes the lock or says it is held; it never waits for the       *)
(* holder, who may stay inside forever.                                    *)
AcquireAnswers ==
  \A p \in Processes :
    (step[p] = "open") ~> (step[p] = "idle" \/ Inside(p))

(* To a caller the lock is a ScopeLock: the handle is the only authority.  *)
Scope == INSTANCE ScopeLock WITH holder <- flock
IsScopeLock == Scope!Spec
=============================================================================
