------------------------- MODULE OperationLockProofs -------------------------
(***************************************************************************)
(* Theorems about OperationLock for any number of processes and Acquires.  *)
(***************************************************************************)
EXTENDS OperationLock, TLAPS

(* Whoever has the handle is the operation the system lock belongs to, and *)
(* the lock belongs to nobody else.                                        *)
HandleIsLock ==
  /\ \A p \in Processes : HasHandle(p) => flock = Current(p)
  /\ flock # Nobody => \E p \in Processes : HasHandle(p)

(* From the write on the note is the holder's.                             *)
NoteWritten ==
  \A p \in Processes : step[p] \in {"written", "inside"} => note = Current(p)

(* Only operations that had the lock are ever noted or named; one that     *)
(* waits for its answer has not had it.                                    *)
OwnersOnly ==
  /\ note # Nobody => note \in owners
  /\ \A p \in Processes :
       /\ HasHandle(p) => Current(p) \in owners
       /\ named[p] # Nobody => named[p] \in owners /\ named[p] # Current(p)
       /\ step[p] \in {"open", "refused"} => Current(p) \notin owners
       /\ \A n \in 1..MaxAcquires : <<p, n>> \in owners => n <= acquires[p]

Called == \A p \in Processes : step[p] # "idle" => acquires[p] >= 1

IInv ==
  TypeOK /\ HandleIsLock /\ NoteWritten /\ OwnersOnly /\ Called

-----------------------------------------------------------------------------
LEMMA CurrentIsOperation ==
  ASSUME TypeOK, Called, NEW p \in Processes, step[p] # "idle"
  PROVE  Current(p) \in Operations /\ Current(p) # Nobody
BY OperationLockAssumption DEF TypeOK, Called, Current, Operations

LEMMA InitStep == Init => IInv
BY OperationLockAssumption
   DEF Init, IInv, TypeOK, HandleIsLock, NoteWritten, OwnersOnly, Called, HasHandle

LEMMA AcquireStep ==
  ASSUME IInv, NEW p \in Processes, Acquire(p)
  PROVE  IInv'
<1> USE OperationLockAssumption DEF IInv, Acquire, GoTo
<1>1. TypeOK'
  BY DEF TypeOK
<1>2. /\ \A q \in Processes : Current(q)' = Current(q) \/ q = p
      /\ \A q \in Processes : HasHandle(q)' <=> HasHandle(q)
  BY DEF TypeOK, Current, HasHandle
<1>3. ~HasHandle(p)
  BY DEF HasHandle
<1>4. HandleIsLock' /\ NoteWritten' /\ Called'
  BY <1>2, <1>3 DEF HandleIsLock, NoteWritten, Called, TypeOK
<1>5. Current(p)' \notin owners /\ named[p] # Current(p)'
  <2>1. acquires'[p] = acquires[p] + 1 /\ acquires'[p] \in 1..MaxAcquires
    BY DEF TypeOK
  <2>2. ~(acquires'[p] <= acquires[p])
    BY <2>1 DEF TypeOK
  <2>3. <<p, acquires'[p]>> \notin owners /\ <<p, acquires'[p]>> # Nobody
    BY <2>1, <2>2 DEF OwnersOnly, Operations
  <2> QED
    BY <2>3 DEF OwnersOnly, Current
<1>6. \A q \in Processes : \A n \in 1..MaxAcquires :
        <<q, n>> \in owners => n <= acquires'[q]
  BY DEF OwnersOnly, TypeOK
<1>7. OwnersOnly'
  BY <1>2, <1>3, <1>5, <1>6 DEF OwnersOnly, TypeOK
<1> QED
  BY <1>1, <1>4, <1>7

LEMMA FlockTakenStep ==
  ASSUME IInv, NEW p \in Processes, FlockTaken(p)
  PROVE  IInv'
<1> USE OperationLockAssumption DEF IInv, FlockTaken, GoTo
<1>1. Current(p) \in Operations /\ Current(p) # Nobody
  BY CurrentIsOperation
<1>2. TypeOK'
  BY <1>1 DEF TypeOK
<1>3. /\ \A q \in Processes : Current(q)' = Current(q)
      /\ \A q \in Processes : HasHandle(q)' <=> q = p
      /\ \A q \in Processes : ~HasHandle(q)
  BY DEF TypeOK, Current, HasHandle, HandleIsLock, Called, Operations
<1>4. HandleIsLock' /\ NoteWritten' /\ Called'
  BY <1>3 DEF HandleIsLock, NoteWritten, Called, TypeOK, HasHandle
<1>5. OwnersOnly'
  BY <1>3 DEF OwnersOnly, TypeOK, Current
<1> QED
  BY <1>2, <1>4, <1>5

(* SetupFails, FlockHeld and Sync move one process and nothing else.       *)
LEMMA MoveStep ==
  ASSUME IInv, NEW p \in Processes, SetupFails(p) \/ FlockHeld(p) \/ Sync(p)
  PROVE  IInv'
<1> USE OperationLockAssumption DEF IInv, SetupFails, FlockHeld, Sync, GoTo
<1>1. TypeOK'
  BY DEF TypeOK
<1>2. /\ \A q \in Processes : Current(q)' = Current(q)
      /\ \A q \in Processes : HasHandle(q)' <=> HasHandle(q)
  BY DEF TypeOK, Current, HasHandle
<1>3. HandleIsLock' /\ NoteWritten' /\ Called' /\ OwnersOnly'
  BY <1>2 DEF HandleIsLock, NoteWritten, Called, OwnersOnly, TypeOK
<1> QED
  BY <1>1, <1>3

LEMMA ReadOwnerStep ==
  ASSUME IInv, NEW p \in Processes, ReadOwner(p)
  PROVE  IInv'
<1> USE OperationLockAssumption DEF IInv, ReadOwner, GoTo
<1>1. TypeOK'
  BY DEF TypeOK
<1>2. /\ \A q \in Processes : Current(q)' = Current(q)
      /\ \A q \in Processes : HasHandle(q)' <=> HasHandle(q)
  BY DEF TypeOK, Current, HasHandle
<1>3. HandleIsLock' /\ NoteWritten' /\ Called' /\ OwnersOnly'
  BY <1>2 DEF HandleIsLock, NoteWritten, Called, OwnersOnly, TypeOK
<1> QED
  BY <1>1, <1>3

(* Two processes with the handle would be one.                             *)
LEMMA OneHandle ==
  ASSUME TypeOK, HandleIsLock, NEW p \in Processes, NEW q \in Processes,
         HasHandle(p), HasHandle(q)
  PROVE  p = q
BY DEF HandleIsLock, Current

LEMMA NoteStep ==
  ASSUME IInv, NEW p \in Processes, Truncate(p) \/ WriteOwner(p)
  PROVE  IInv'
<1> USE OperationLockAssumption DEF IInv, Truncate, WriteOwner, GoTo
<1>1. Current(p) \in Operations /\ Current(p) # Nobody /\ HasHandle(p)
  BY CurrentIsOperation DEF HasHandle
<1>2. TypeOK'
  BY <1>1 DEF TypeOK
<1>3. /\ \A q \in Processes : Current(q)' = Current(q)
      /\ \A q \in Processes : HasHandle(q)' <=> HasHandle(q)
      /\ \A q \in Processes : HasHandle(q) => q = p
  BY <1>1, OneHandle DEF TypeOK, Current, HasHandle
<1>4. HandleIsLock' /\ Called' /\ OwnersOnly'
  BY <1>1, <1>3 DEF HandleIsLock, Called, OwnersOnly, TypeOK
<1>5. NoteWritten'
  BY <1>3 DEF NoteWritten, HasHandle, TypeOK
<1> QED
  BY <1>2, <1>4, <1>5

(* OwnerFails, Release and Crash: the handle goes, and the lock with it.   *)
LEMMA LeaveStep ==
  ASSUME IInv, NEW p \in Processes, OwnerFails(p) \/ Release(p) \/ Crash(p)
  PROVE  IInv'
<1> USE OperationLockAssumption DEF IInv, OwnerFails, Release, Crash, GoTo, Inside
<1>1. TypeOK'
  BY DEF TypeOK
<1>2. /\ \A q \in Processes : Current(q)' = Current(q)
      /\ \A q \in Processes : HasHandle(q)' <=> HasHandle(q) /\ q # p
      /\ flock' = IF HasHandle(p) THEN Nobody ELSE flock
  BY DEF TypeOK, Current, HasHandle
<1>3. HandleIsLock'
  BY <1>2, OneHandle DEF HandleIsLock
<1>4. NoteWritten'
  <2>1. SUFFICES ASSUME NEW q \in Processes, step'[q] \in {"written", "inside"}
                 PROVE  note' = Current(q)'
    BY DEF NoteWritten
  <2>2. step[q] \in {"written", "inside"} /\ q # p
    BY <2>1 DEF TypeOK
  <2>3. ~OwnerFails(p)
    BY <2>2, OneHandle DEF HasHandle
  <2> QED
    BY <1>2, <2>2, <2>3 DEF NoteWritten
<1>5. Called' /\ OwnersOnly'
  BY <1>2 DEF Called, OwnersOnly, TypeOK
<1> QED
  BY <1>1, <1>3, <1>4, <1>5

LEMMA NextStep == IInv /\ [Next]_vars => IInv'
<1> SUFFICES ASSUME IInv, [Next]_vars PROVE IInv'
  OBVIOUS
<1>1. CASE Next
  BY <1>1, AcquireStep, FlockTakenStep, MoveStep, ReadOwnerStep, NoteStep,
     LeaveStep DEF Next, Proceed
<1>2. CASE UNCHANGED vars
  BY <1>2 DEF vars, IInv, TypeOK, HandleIsLock, NoteWritten, OwnersOnly, Called,
              HasHandle, Current
<1> QED
  BY <1>1, <1>2

THEOREM Invariance == Spec => []IInv
BY InitStep, NextStep, PTL DEF Spec

-----------------------------------------------------------------------------
(* The variables keep their types.                                         *)
THEOREM TypeCorrect == Spec => []TypeOK
<1>1. IInv => TypeOK
  BY DEF IInv
<1> QED
  BY <1>1, Invariance, PTL

(* Two processes cannot enter one operation scope (oplock).                *)
THEOREM Exclusion == Spec => []MutualExclusion
<1>1. IInv => MutualExclusion
  BY OneHandle DEF IInv, MutualExclusion, Inside, HasHandle
<1> QED
  BY <1>1, Invariance, PTL

(* The note of a lock that is held names its holder.                       *)
THEOREM NoteCorrect == Spec => []NoteNamesHolder
<1>1. IInv => NoteNamesHolder
  BY DEF IInv, NoteNamesHolder, NoteWritten, HandleIsLock, HasHandle, Inside
<1> QED
  BY <1>1, Invariance, PTL

(* A HeldError never names an operation that did not have the lock.        *)
THEOREM NamedCorrect == Spec => []NamedWasOwner
<1>1. IInv => NamedWasOwner
  BY DEF IInv, OwnersOnly, NamedWasOwner
<1> QED
  BY <1>1, Invariance, PTL

(* The file handle implements the lock its callers rely on.                *)
THEOREM ImplementsScopeLock == Spec => IsScopeLock
<1>1. Init => Scope!Init
  BY DEF Init, Scope!Init
<1>2. ASSUME IInv, [Next]_vars
      PROVE  [Scope!Next]_flock
  <2>1. ASSUME NEW p \in Processes, FlockTaken(p)
        PROVE  Scope!Next
    <3>1. Current(p) \in Operations
      BY <1>2, <2>1, CurrentIsOperation DEF IInv, FlockTaken
    <3> QED
      BY <2>1, <3>1 DEF FlockTaken, Scope!Next, Scope!Take
  <2>2. ASSUME NEW p \in Processes, OwnerFails(p) \/ Release(p) \/ Crash(p)
        PROVE  Scope!Next \/ flock' = flock
    <3>1. HasHandle(p) => flock = Current(p) /\ Current(p) \in Operations
      BY <1>2, CurrentIsOperation DEF IInv, HandleIsLock, HasHandle
    <3>2. (flock' = Nobody /\ HasHandle(p)) \/ flock' = flock
      BY <2>2 DEF OwnerFails, Release, Crash, Inside, HasHandle
    <3> QED
      BY <3>1, <3>2 DEF Scope!Next, Scope!Drop
  <2>3. ASSUME NEW p \in Processes,
               \/ Acquire(p) \/ SetupFails(p) \/ FlockHeld(p) \/ ReadOwner(p)
               \/ Truncate(p) \/ WriteOwner(p) \/ Sync(p)
        PROVE  flock' = flock
    BY <2>3 DEF Acquire, SetupFails, FlockHeld, ReadOwner, Truncate, WriteOwner, Sync
  <2> QED
    BY <1>2, <2>1, <2>2, <2>3 DEF Next, Proceed, vars
<1> QED
  BY <1>1, <1>2, Invariance, PTL DEF Spec, IsScopeLock, Scope!Spec
=============================================================================
