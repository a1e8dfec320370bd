----------------------------- MODULE HostProofs -----------------------------
(***************************************************************************)
(* Theorems about the parts of one host for any number of processes, runs, *)
(* writers, updates, connectors, destinations, changes and edits: the      *)
(* state store, the record of a scope, the credential file, native         *)
(* schedules and notifications.                                            *)
(* Each part has its own section: the shape of its states, the invariant   *)
(* its steps keep, one lemma for each kind of step, and the theorems.      *)
(***************************************************************************)
EXTENDS Host, FiniteSetTheorems, SequenceTheorems, TLAPS

-----------------------------------------------------------------------------
(* The state store, for any number of writers, processes and updates, and  *)
(* any disturbance of the file: the inductive invariant.                   *)

(* The call that made update u has returned or died.                       *)
IsOver(u) ==
  \/ u[2] < calls[u[1]]
  \/ u[2] = calls[u[1]] /\ phase[u[1]] = "idle"

(* A document, stored or held, counts the updates it carries; a held one   *)
(* is one update ahead of its revision.                                    *)
Counts ==
  /\ IsFiniteSet(file.applied) /\ Cardinality(file.applied) = file.revision
  /\ \A w \in Writers : HoldsRecord(w) =>
       /\ IsFiniteSet(pending[w].applied)
       /\ Cardinality(pending[w].applied) = pending[w].revision + 1
       /\ Current(w) \in pending[w].applied
       /\ pending[w].kind = "record"

(* Only a call that is over has left its update anywhere but in the record *)
(* its own writer holds.                                                   *)
Fresh ==
  /\ \A u \in file.applied \cup saved \cup refused : IsOver(u)
  /\ \A w \in Writers : HoldsRecord(w) =>
       \A u \in pending[w].applied : u = Current(w) \/ IsOver(u)

(* A running call has a number.                                            *)
Called == \A w \in Writers : phase[w] # "idle" => calls[w] >= 1

(* What was refused is in no document.                                     *)
RefusedNowhere ==
  /\ refused \cap file.applied = {}
  /\ \A w \in Writers : HoldsRecord(w) => refused \cap pending[w].applied = {}

(* The mutex admits one call of a process.                                 *)
OneInside ==
  \A v, w \in Writers :
    InUpdate(v) /\ InUpdate(w) /\ ProcessOf[v] = ProcessOf[w] => v = w

(* What was committed without overlap is in every document.                *)
KeptEverywhere ==
  /\ file.kind = "absent" => saved = {}
  /\ file.kind = "record" => saved \ contended \subseteq file.applied
  /\ \A w \in Writers : HoldsRecord(w) =>
       saved \ contended \subseteq pending[w].applied

(* Over a bad file only the writers noted when it went bad can rename.     *)
LateOnly ==
  file.kind \in Unreadable => \A w \in Writers : phase[w] = "write" => w \in late

IInv ==
  /\ TypeOK /\ Called /\ Counts /\ Fresh /\ RefusedNowhere /\ OneInside
  /\ KeptEverywhere /\ LateOnly

-----------------------------------------------------------------------------
(* A call still running has left its update in no document but its own.    *)
LEMMA RunningIsFresh ==
  ASSUME TypeOK, Called, Fresh, NEW w \in Writers, phase[w] # "idle"
  PROVE  /\ Current(w) \in Updates
         /\ ~IsOver(Current(w))
         /\ Current(w) \notin file.applied \cup saved \cup refused
         /\ \A v \in Writers : HoldsRecord(v) /\ v # w
              => Current(w) \notin pending[v].applied
<1>1. calls[w] \in 1..MaxUpdates /\ MaxUpdates \in Nat
  BY StateStoreAssumption DEF TypeOK, Called
<1>2. ~IsOver(Current(w))
  BY <1>1 DEF IsOver, Current
<1>3. \A v \in Writers : v # w => Current(w) # Current(v)
  BY DEF Current
<1>4. Current(w) \in Updates
  BY <1>1 DEF Current, Updates
<1> QED
  BY <1>2, <1>3, <1>4 DEF Fresh

-----------------------------------------------------------------------------
(* Each action preserves the invariant.                                    *)

LEMMA InitStep == Init => IInv
<1> SUFFICES ASSUME Init PROVE IInv
  OBVIOUS
<1> USE StateStoreAssumption DEF Init, InitialFiles, Document, Absent
<1>1. TypeOK
  BY DEF TypeOK, Kinds, Unreadable
<1>2. Counts
  <2>1. file.applied = {} /\ file.revision = 0
    OBVIOUS
  <2>2. \A w \in Writers : ~HoldsRecord(w)
    BY DEF HoldsRecord
  <2> QED
    BY <2>1, <2>2, FS_EmptySet DEF Counts
<1>3. Fresh
  BY DEF Fresh, HoldsRecord
<1>4. Called /\ RefusedNowhere /\ OneInside /\ KeptEverywhere /\ LateOnly
  BY DEF Called, RefusedNowhere, OneInside, KeptEverywhere, LateOnly,
         HoldsRecord, InUpdate, Unreadable
<1> QED
  BY <1>1, <1>2, <1>3, <1>4 DEF IInv

LEMMA CallStep ==
  ASSUME IInv, NEW w \in Writers, Call(w)
  PROVE  IInv'
<1> USE StateStoreAssumption DEF IInv, Call, history
<1>1. TypeOK'
  BY DEF TypeOK
<1>2. \A v \in Writers : Current(v)' = Current(v) \/ v = w
  BY DEF Current, TypeOK
<1>3. \A v \in Writers : HoldsRecord(v)' => HoldsRecord(v) /\ v # w
  BY DEF HoldsRecord, TypeOK
<1>4. \A u \in Updates : IsOver(u) => IsOver(u)'
  BY DEF IsOver, Updates, TypeOK
<1>5. Counts' /\ RefusedNowhere' /\ KeptEverywhere'
  BY <1>2, <1>3 DEF Counts, RefusedNowhere, KeptEverywhere
<1>6. Fresh'
  BY <1>2, <1>3, <1>4 DEF Fresh, TypeOK
<1>7. Called' /\ OneInside' /\ LateOnly'
  BY DEF Called, OneInside, LateOnly, InUpdate, TypeOK
<1> QED
  BY <1>1, <1>5, <1>6, <1>7

LEMMA LockStep ==
  ASSUME IInv, NEW w \in Writers, Lock(w)
  PROVE  IInv'
<1> USE StateStoreAssumption DEF IInv, Lock, history
<1>1. TypeOK'
  BY DEF TypeOK
<1>2. \A v \in Writers : Current(v)' = Current(v)
  BY DEF Current
<1>3. \A v \in Writers : HoldsRecord(v)' => HoldsRecord(v)
  BY DEF HoldsRecord, TypeOK
<1>4. \A u \in Updates : IsOver(u) => IsOver(u)'
  BY DEF IsOver, Updates, TypeOK
<1>5. Counts' /\ RefusedNowhere' /\ KeptEverywhere'
  BY <1>2, <1>3 DEF Counts, RefusedNowhere, KeptEverywhere
<1>6. Fresh'
  BY <1>2, <1>3, <1>4 DEF Fresh, TypeOK
<1>7. Called' /\ LateOnly'
  BY DEF Called, LateOnly, TypeOK
<1>8. OneInside'
  BY DEF OneInside, MutexFree, InUpdate, TypeOK
<1> QED
  BY <1>1, <1>5, <1>6, <1>7, <1>8

LEMMA LoadStep ==
  ASSUME IInv, NEW w \in Writers, Load(w)
  PROVE  IInv'
<1> USE StateStoreAssumption DEF IInv, Load, history
<1>1. /\ Current(w) \in Updates
      /\ Current(w) \notin file.applied \cup saved \cup refused
  BY RunningIsFresh
<1>2. /\ pending'[w] = Document("record", file.revision,
                                 file.applied \cup {Current(w)})
      /\ \A v \in Writers : v # w => pending'[v] = pending[v]
  BY DEF TypeOK
<1>3. /\ \A v \in Writers : Current(v)' = Current(v)
      /\ \A v \in Writers : v # w => HoldsRecord(v)' = HoldsRecord(v)
      /\ \A v \in Writers : InUpdate(v)' = InUpdate(v)
  BY DEF Current, HoldsRecord, InUpdate, TypeOK
<1>4. TypeOK'
  BY <1>1 DEF TypeOK, Document
<1>5. \A u \in Updates : IsOver(u) => IsOver(u)'
  BY DEF IsOver, Updates, TypeOK
<1>6. Counts'
  <2>1. IsFiniteSet(file.applied) /\ Cardinality(file.applied) = file.revision
    BY DEF Counts
  <2>2. /\ IsFiniteSet(file.applied \cup {Current(w)})
        /\ Cardinality(file.applied \cup {Current(w)}) = file.revision + 1
    BY <1>1, <2>1, FS_AddElement
  <2>3. /\ pending'[w].kind = "record"
        /\ pending'[w].revision = file.revision
        /\ pending'[w].applied = file.applied \cup {Current(w)}
    BY <1>2 DEF Document
  <2>4. \A v \in Writers : v # w /\ HoldsRecord(v)' =>
          /\ IsFiniteSet(pending'[v].applied)
          /\ Cardinality(pending'[v].applied) = pending'[v].revision + 1
          /\ Current(v)' \in pending'[v].applied
          /\ pending'[v].kind = "record"
    BY <1>2, <1>3 DEF Counts
  <2>5. Current(w)' \in pending'[w].applied
    BY <1>3, <2>3
  <2> QED
    BY <2>1, <2>2, <2>3, <2>4, <2>5 DEF Counts
<1>7. Fresh'
  BY <1>1, <1>2, <1>3, <1>5 DEF Fresh, Document, TypeOK
<1>8. RefusedNowhere'
  BY <1>1, <1>2, <1>3 DEF RefusedNowhere, Document
<1>9. KeptEverywhere'
  BY <1>2, <1>3 DEF KeptEverywhere, Document, TypeOK, Kinds
<1>10. Called' /\ LateOnly' /\ OneInside'
  BY <1>3 DEF Called, LateOnly, OneInside, TypeOK
<1> QED
  BY <1>4, <1>6, <1>7, <1>8, <1>9, <1>10

LEMMA CheckStep ==
  ASSUME IInv, NEW w \in Writers, Check(w)
  PROVE  IInv'
<1> USE StateStoreAssumption DEF IInv, Check, history
<1>1. TypeOK'
  BY DEF TypeOK
<1>2. /\ \A v \in Writers : Current(v)' = Current(v)
      /\ \A v \in Writers : HoldsRecord(v)' = HoldsRecord(v)
      /\ \A v \in Writers : InUpdate(v)' = InUpdate(v)
  BY DEF Current, HoldsRecord, InUpdate, TypeOK
<1>3. \A u \in Updates : IsOver(u) => IsOver(u)'
  BY DEF IsOver, Updates, TypeOK
<1>4. Counts' /\ RefusedNowhere' /\ KeptEverywhere' /\ OneInside'
  BY <1>2 DEF Counts, RefusedNowhere, KeptEverywhere, OneInside
<1>5. Fresh'
  BY <1>2, <1>3 DEF Fresh, TypeOK
<1>6. Called' /\ LateOnly'
  BY DEF Called, LateOnly, Unmoved, Unreadable, TypeOK
<1> QED
  BY <1>1, <1>4, <1>5, <1>6

(* LoadRefused, CheckRefused, SaveRefused and WriteFails.                  *)
LEMMA ErrorStep ==
  ASSUME IInv, NEW w \in Writers, phase[w] # "idle", ReturnError(w)
  PROVE  IInv'
<1> USE StateStoreAssumption DEF IInv, ReturnError, history
<1>1. /\ Current(w) \in Updates
      /\ Current(w) \notin file.applied
      /\ \A v \in Writers : HoldsRecord(v) /\ v # w
              => Current(w) \notin pending[v].applied
  BY RunningIsFresh
<1>2. TypeOK'
  BY <1>1 DEF TypeOK
<1>3. /\ \A v \in Writers : Current(v)' = Current(v)
      /\ \A v \in Writers : HoldsRecord(v)' => HoldsRecord(v) /\ v # w
      /\ \A v \in Writers : InUpdate(v)' => InUpdate(v)
  BY DEF Current, HoldsRecord, InUpdate, TypeOK
<1>4. (\A u \in Updates : IsOver(u) => IsOver(u)') /\ IsOver(Current(w))'
  BY DEF IsOver, Updates, TypeOK, Current
<1>5. Counts' /\ KeptEverywhere' /\ OneInside'
  BY <1>3 DEF Counts, KeptEverywhere, OneInside
<1>6. Fresh'
  BY <1>3, <1>4 DEF Fresh, TypeOK
<1>7. RefusedNowhere'
  BY <1>1, <1>3 DEF RefusedNowhere
<1>8. Called' /\ LateOnly'
  BY DEF Called, LateOnly, TypeOK
<1> QED
  BY <1>2, <1>5, <1>6, <1>7, <1>8

LEMMA RenameStep ==
  ASSUME IInv, NEW w \in Writers, Rename(w)
  PROVE  IInv'
<1> USE StateStoreAssumption DEF IInv, Rename
<1>1. /\ Current(w) \in Updates
      /\ Current(w) \notin refused
      /\ HoldsRecord(w)
  BY RunningIsFresh DEF HoldsRecord
<1>2. /\ file'.kind = "record"
      /\ file'.applied = pending[w].applied
      /\ file'.revision = pending[w].revision + 1
      /\ TypeOK'
  BY <1>1 DEF TypeOK, Counts, Kinds
<1>3. /\ \A v \in Writers : Current(v)' = Current(v)
      /\ \A v \in Writers : HoldsRecord(v)' => HoldsRecord(v) /\ v # w
      /\ \A v \in Writers : InUpdate(v)' => InUpdate(v)
  BY DEF Current, HoldsRecord, InUpdate, TypeOK
<1>4. (\A u \in Updates : IsOver(u) => IsOver(u)') /\ IsOver(Current(w))'
  BY DEF IsOver, Updates, TypeOK, Current
<1>5. Counts'
  BY <1>1, <1>2, <1>3 DEF Counts
<1>6. Fresh'
  BY <1>1, <1>2, <1>3, <1>4 DEF Fresh, TypeOK
<1>7. RefusedNowhere'
  BY <1>1, <1>2, <1>3 DEF RefusedNowhere
<1>8. KeptEverywhere'
  <2>1. saved \ contended \subseteq pending[w].applied
    BY <1>1 DEF KeptEverywhere
  <2>2. Current(w) \in pending[w].applied
    BY <1>1 DEF Counts
  <2>3. ASSUME NEW v \in Writers, HoldsRecord(v)'
        PROVE  Current(w) \in contended'
    <3>1. HoldsRecord(v) /\ v # w
      BY <1>3, <2>3
    <3>2. ProcessOf[v] # ProcessOf[w]
      BY <1>1, <3>1 DEF OneInside, InUpdate, HoldsRecord
    <3> QED
      BY <3>1, <3>2 DEF Overlapped
  <2>4. saved' \ contended' \subseteq (saved \ contended) \cup {Current(w)}
    OBVIOUS
  <2> QED
    BY <1>2, <1>3, <2>1, <2>2, <2>3, <2>4 DEF KeptEverywhere
<1>9. OneInside'
  BY <1>3 DEF OneInside
<1>10. Called' /\ LateOnly'
  BY <1>2 DEF Called, LateOnly, Unreadable, TypeOK
<1> QED
  BY <1>2, <1>5, <1>6, <1>7, <1>8, <1>9, <1>10

LEMMA CrashStep ==
  ASSUME IInv, NEW p \in Processes, Crash(p)
  PROVE  IInv'
<1> USE StateStoreAssumption DEF IInv, Crash, history
<1>1. TypeOK'
  BY DEF TypeOK
<1>2. /\ \A v \in Writers : Current(v)' = Current(v)
      /\ \A v \in Writers : HoldsRecord(v)' => HoldsRecord(v)
      /\ \A v \in Writers : InUpdate(v)' => InUpdate(v)
  BY DEF Current, HoldsRecord, InUpdate, TypeOK
<1>3. \A u \in Updates : IsOver(u) => IsOver(u)'
  BY DEF IsOver, Updates, TypeOK
<1>4. Counts' /\ RefusedNowhere' /\ KeptEverywhere' /\ OneInside'
  BY <1>2 DEF Counts, RefusedNowhere, KeptEverywhere, OneInside
<1>5. Fresh'
  BY <1>2, <1>3 DEF Fresh, TypeOK
<1>6. Called' /\ LateOnly'
  BY DEF Called, LateOnly, TypeOK
<1> QED
  BY <1>1, <1>4, <1>5, <1>6

(* Damage and Upgrade.                                                     *)
LEMMA UnreadableStep ==
  ASSUME IInv, NEW kind \in Unreadable, GoesUnreadable(kind)
  PROVE  IInv'
<1> USE StateStoreAssumption DEF IInv, GoesUnreadable, Document
<1>1. TypeOK'
  BY DEF TypeOK, Kinds
<1>2. Counts'
  BY FS_EmptySet DEF Counts, HoldsRecord, Current
<1>3. Fresh'
  BY DEF Fresh, IsOver, HoldsRecord, Current
<1>4. RefusedNowhere' /\ Called' /\ OneInside' /\ LateOnly'
  BY DEF RefusedNowhere, Called, OneInside, LateOnly, HoldsRecord, InUpdate
<1>5. KeptEverywhere'
  BY DEF KeptEverywhere, HoldsRecord, Unreadable
<1> QED
  BY <1>1, <1>2, <1>3, <1>4, <1>5

LEMMA RemoveStep ==
  ASSUME IInv, Remove
  PROVE  IInv'
<1> USE StateStoreAssumption DEF IInv, Remove, Absent, Document
<1>1. TypeOK'
  BY DEF TypeOK, Kinds
<1>2. Counts'
  BY FS_EmptySet DEF Counts, HoldsRecord, Current
<1>3. Fresh'
  BY DEF Fresh, IsOver, HoldsRecord, Current
<1>4. RefusedNowhere' /\ Called' /\ OneInside' /\ LateOnly'
  BY DEF RefusedNowhere, Called, OneInside, LateOnly, HoldsRecord, InUpdate,
         Unreadable
<1>5. KeptEverywhere'
  BY DEF KeptEverywhere, HoldsRecord
<1> QED
  BY <1>1, <1>2, <1>3, <1>4, <1>5

LEMMA NextStep == IInv /\ [Next]_vars => IInv'
<1> SUFFICES ASSUME IInv, [Next]_vars PROVE IInv'
  OBVIOUS
<1>1. ASSUME NEW w \in Writers, Call(w) \/ Lock(w) PROVE IInv'
  BY <1>1, CallStep, LockStep
<1>2. ASSUME NEW w \in Writers, Proceed(w) PROVE IInv'
  <2>1. CASE Load(w) \/ Check(w) \/ Rename(w)
    BY <2>1, LoadStep, CheckStep, RenameStep
  <2>2. CASE LoadRefused(w) \/ CheckRefused(w) \/ SaveRefused(w) \/ WriteFails(w)
    BY <2>2, ErrorStep DEF LoadRefused, CheckRefused, SaveRefused, WriteFails
  <2> QED
    BY <1>2, <2>1, <2>2 DEF Proceed
<1>3. ASSUME NEW p \in Processes, Crash(p) PROVE IInv'
  BY <1>3, CrashStep
<1>4. CASE Damage \/ Upgrade \/ Remove
  BY <1>4, UnreadableStep, RemoveStep DEF Damage, Upgrade, Unreadable
<1>5. CASE UNCHANGED vars
  BY <1>5 DEF vars, IInv, TypeOK, Called, Counts, Fresh, RefusedNowhere,
              OneInside, KeptEverywhere, LateOnly, IsOver, HoldsRecord, InUpdate,
              Current
<1> QED
  BY <1>1, <1>2, <1>3, <1>4, <1>5 DEF Next

THEOREM Invariance == Spec => []IInv
<1> QED
  BY InitStep, NextStep, PTL DEF Spec

-----------------------------------------------------------------------------
(* The theorems.                                                           *)

(* The variables keep their types.                                         *)
THEOREM TypeCorrect == Spec => []TypeOK
<1>1. IInv => TypeOK
  BY DEF IInv
<1> QED
  BY <1>1, Invariance, PTL

(* The revision on disk always counts the updates the document carries,    *)
(* whichever processes raced to write it (save, store.go).                 *)
THEOREM RevisionCorrect == Spec => []RevisionCountsUpdates
<1>1. IInv => RevisionCountsUpdates
  BY DEF IInv, Counts, RevisionCountsUpdates
<1> QED
  BY <1>1, Invariance, PTL

(* An Update that returned an error is in no document (writeAtomically     *)
(* reports no error once the rename is done).                              *)
THEOREM RefusedCorrect == Spec => []RefusedIsNotStored
<1>1. IInv => RefusedIsNotStored
  BY DEF IInv, RefusedNowhere, RefusedIsNotStored
<1> QED
  BY <1>1, Invariance, PTL

(* Whatever the mutex of one Store can protect is never lost: a saved      *)
(* update that no other process overlapped stays in the document.          *)
THEOREM KeptCorrect == Spec => []OnlyOverlapLoses
<1>1. IInv => OnlyOverlapLoses
  BY DEF IInv, KeptEverywhere, OnlyOverlapLoses
<1> QED
  BY <1>1, Invariance, PTL

(* A file save cannot read is replaced by no writer that reads it.         *)
THEOREM UnreadableCorrect == Spec => UnreadableIsKept
<1>1. ASSUME IInv, [Next]_vars, file.kind \in Unreadable, file'.kind = "record"
      PROVE  \E w \in late : phase[w] = "write" /\ phase'[w] = "idle"
  <2>1. PICK w \in Writers : Rename(w)
    <3> USE <1>1
    <3>1. file' # file
      BY DEF Unreadable
    <3>2. ~(Damage \/ Upgrade \/ Remove)
      BY DEF Damage, Upgrade, Remove, GoesUnreadable, Absent, Document, Unreadable
    <3>3. \A p \in Processes : ~Crash(p)
      BY <3>1 DEF Crash
    <3>4. \A w \in Writers : ~(Call(w) \/ Lock(w))
      BY <3>1 DEF Call, Lock
    <3>5. \A w \in Writers : Proceed(w) => Rename(w)
      BY <3>1 DEF Proceed, Load, Check, LoadRefused, CheckRefused, SaveRefused,
                  WriteFails, ReturnError
    <3> QED
      BY <3>1, <3>2, <3>3, <3>4, <3>5 DEF Next, vars
  <2>2. w \in late
    BY <1>1, <2>1 DEF IInv, LateOnly, Rename
  <2> QED
    BY <1>1, <2>1, <2>2 DEF Rename, IInv, TypeOK
<1> QED
  BY <1>1, Invariance, PTL DEF Spec, UnreadableIsKept

-----------------------------------------------------------------------------
(* Refinement.                                                             *)

(* With one process and nobody else touching the file, the record a writer *)
(* holds is the stored one and its own update.                             *)
InStep ==
  \A w \in Writers : HoldsRecord(w) =>
    /\ file.kind \notin Unreadable
    /\ pending[w] = Document("record", file.revision,
                            file.applied \cup {Current(w)})

(* One process and no disturbance make Update atomic: Rename is the        *)
(* abstract Apply, an error the abstract Refuse, every other step a        *)
(* stutter.                                                                *)
THEOREM AtomicInOneProcess ==
  ASSUME \A p, q \in Processes : p = q, Disturbances = {}
  PROVE  Spec => UpdateIsAtomic
<1> USE StateStoreAssumption
<1>1. Init => InStep
  BY DEF Init, InStep, HoldsRecord
<1>2. ASSUME IInv, InStep, [Next]_vars
      PROVE  InStep'
  <2> USE DEF IInv
  <2>1. ASSUME NEW w \in Writers, Call(w) \/ Lock(w)
        PROVE  InStep'
    BY <1>2, <2>1 DEF Call, Lock, InStep, HoldsRecord, Current, TypeOK, history
  <2>2. ASSUME NEW w \in Writers, Load(w)
        PROVE  InStep'
    BY <1>2, <2>2 DEF Load, InStep, HoldsRecord, Current, TypeOK, history
  <2>3. ASSUME NEW w \in Writers, Check(w)
        PROVE  InStep'
    BY <1>2, <2>3 DEF Check, InStep, HoldsRecord, Current, TypeOK, history
  <2>4. ASSUME NEW w \in Writers, ReturnError(w)
        PROVE  InStep'
    BY <1>2, <2>4 DEF ReturnError, InStep, HoldsRecord, Current, TypeOK
  <2>5. ASSUME NEW w \in Writers, Rename(w)
        PROVE  InStep'
    <3>1. \A v \in Writers : ~HoldsRecord(v)'
      BY <1>2, <2>5 DEF Rename, HoldsRecord, InUpdate, OneInside, TypeOK
    <3> QED
      BY <3>1 DEF InStep
  <2>6. ASSUME NEW p \in Processes, Crash(p)
        PROVE  InStep'
    BY <1>2, <2>6 DEF Crash, InStep, HoldsRecord, Current, TypeOK, history
  <2>7. ~(Damage \/ Upgrade \/ Remove)
    BY DEF Damage, Upgrade, Remove
  <2>8. CASE UNCHANGED vars
    BY <1>2, <2>8 DEF vars, InStep, HoldsRecord, Current
  <2> QED
    BY <1>2, <2>1, <2>2, <2>3, <2>4, <2>5, <2>6, <2>7, <2>8
       DEF Next, Proceed, LoadRefused, CheckRefused, SaveRefused, WriteFails
<1>3. Init => Atomic!Init
  BY DEF Init, Atomic!Init, InitialFiles, Document, Unreadable
<1>4. ASSUME IInv, InStep, [Next]_vars
      PROVE  [Atomic!Next]_<<file, saved, refused>>
  <2> USE DEF IInv
  <2>1. ASSUME NEW w \in Writers, Rename(w)
        PROVE  Atomic!Apply(Current(w)) /\ Current(w) \in Updates
    <3>1. Current(w) \in Updates /\ Current(w) \notin saved \cup refused
      BY <1>4, <2>1, RunningIsFresh DEF Rename
    <3>2. pending[w] = Document("record", file.revision,
                                file.applied \cup {Current(w)})
      BY <1>4, <2>1 DEF InStep, HoldsRecord, Rename
    <3>3. file.kind \in {"absent", "record"}
      BY <1>4, <2>1 DEF InStep, HoldsRecord, Rename, TypeOK, Kinds
    <3> QED
      BY <2>1, <3>1, <3>2, <3>3 DEF Rename, Atomic!Apply, Atomic!Undecided, Document
  <2>2. ASSUME NEW w \in Writers, phase[w] # "idle", ReturnError(w)
        PROVE  Atomic!Refuse(Current(w)) /\ Current(w) \in Updates
    BY <1>4, <2>2, RunningIsFresh
       DEF ReturnError, Atomic!Refuse, Atomic!Undecided
  <2>3. ASSUME NEW w \in Writers, Call(w) \/ Lock(w) \/ Load(w) \/ Check(w)
        PROVE  UNCHANGED <<file, saved, refused>>
    BY <2>3 DEF Call, Lock, Load, Check, history
  <2>4. ASSUME NEW p \in Processes, Crash(p)
        PROVE  UNCHANGED <<file, saved, refused>>
    BY <2>4 DEF Crash, history
  <2>5. ~(Damage \/ Upgrade \/ Remove)
    BY DEF Damage, Upgrade, Remove
  <2>6. ASSUME NEW w \in Writers, Proceed(w)
        PROVE  [Atomic!Next]_<<file, saved, refused>>
    <3>1. CASE Rename(w)
      BY <3>1, <2>1 DEF Atomic!Next
    <3>2. CASE LoadRefused(w) \/ CheckRefused(w) \/ SaveRefused(w) \/ WriteFails(w)
      BY <3>2, <2>2 DEF Atomic!Next, LoadRefused, CheckRefused, SaveRefused,
                        WriteFails
    <3>3. CASE Load(w) \/ Check(w)
      BY <3>3, <2>3
    <3> QED
      BY <2>6, <3>1, <3>2, <3>3 DEF Proceed
  <2> QED
    BY <1>4, <2>3, <2>4, <2>5, <2>6 DEF Next, vars
<1> QED
  BY <1>1, <1>2, <1>3, <1>4, Invariance, PTL DEF Spec, UpdateIsAtomic, Atomic!Spec

-----------------------------------------------------------------------------
(* The record of a scope.                                                  *)
Places ==
  {"idle", "backup", "published", "identified", "judged", "known", "verified",
   "next", "sealed", "reconciled", "answered"}

Remembered ==
  [at : Places, archive : Scope!Runs \cup {None}, seal : Scope!Manifests \cup {None},
   proven : BOOLEAN, judged : Scope!Manifests \cup {None}, started : Nat,
   health : Scope!Healths \cup {None}, todo : Seq(Scope!Runs), overtaken : BOOLEAN]

Content == {None} \cup [seal : Scope!Manifests \cup {None}, sound : BOOLEAN]

Noted == [success : Nat, failure : Nat, since : Nat]

ScopeTypeOK ==
  /\ now \in Nat
  /\ disk \in [Scope!Runs -> Content]
  /\ seals \in [Scope!Runs -> Scope!Manifests \cup {None}]
  /\ record \in Scope!Records \cup {None}
  /\ cmd \in [Commands -> Remembered]
  /\ noted \in Noted
  /\ count \in [runs : Nat, refreshes : Nat, changes : Nat, losses : Nat]

Bundle(a) == seals[a] # None

(* Bundles are sealed in the order of their runs, none has a place on disk *)
(* before, and a manifest there is edited or the one that was sealed.      *)
SealsOK ==
  \A a \in Scope!Runs :
    /\ disk[a] # None => Bundle(a)
    /\ Scope!HasManifest(a) => disk[a].seal.edited \/ disk[a].seal = seals[a]
    /\ Bundle(a) =>
         /\ a <= count.runs
         /\ ~ seals[a].edited
         /\ seals[a].completed \in Nat
         /\ 1 <= seals[a].taken
         /\ seals[a].taken <= seals[a].completed
         /\ seals[a].completed <= now
         /\ \A b \in Scope!Runs :
              Bundle(b) /\ a < b => seals[a].completed < seals[b].taken

(* A run starts after the bundles of earlier runs and before its own.      *)
Fits(n, start) ==
  /\ n \in 1..count.runs
  /\ start <= now
  /\ \A a \in Scope!Runs :
       Bundle(a) => IF a < n THEN seals[a].completed < start
                             ELSE start <= seals[a].taken

BackupOK(c) ==
  Scope!InBackup(c) =>
    /\ cmd[c].archive = count.runs
    /\ cmd[c].archive \in Scope!Runs
    /\ Fits(cmd[c].archive, cmd[c].started)
    /\ Bundle(cmd[c].archive) <=> cmd[c].at # "backup"
    /\ noted.failure < cmd[c].archive
    /\ noted.since <= cmd[c].started
    /\ \A d \in Commands : Scope!InBackup(d) => d = c

(* No attempt started after a run that has not ended, unless it is forged. *)
Latest(r, start) ==
  r.attempt # None /\ ~ Scope!Forged(r.attempt) => r.attempt.started <= start

LatestOK(c) ==
  record # None /\ cmd[c].at = "backup" => Latest(record, cmd[c].started)

(* Who works on an archive knows what it is, unless it was changed.        *)
WorkOK(c) ==
  /\ cmd[c].at \in {"judged", "known", "verified", "sealed", "reconciled"} =>
       /\ cmd[c].archive \in Scope!Runs
       /\ Bundle(cmd[c].archive)
  /\ cmd[c].at \in {"sealed", "verified", "reconciled"} =>
       cmd[c].seal \in Scope!Manifests
  /\ cmd[c].at \in {"sealed", "reconciled"} =>
       cmd[c].seal.edited \/ cmd[c].seal = seals[cmd[c].archive]
  /\ cmd[c].at \in {"next", "sealed", "reconciled"} => cmd[c].todo # <<>>
  /\ cmd[c].overtaken \/
       /\ cmd[c].at \in {"judged", "known", "published"} =>
            disk[cmd[c].archive].seal = cmd[c].judged
       /\ cmd[c].at = "sealed" =>
            disk[cmd[c].archive].seal = cmd[c].seal
       /\ cmd[c].at \in {"verified", "reconciled", "identified"} =>
            cmd[c].seal \in {None, cmd[c].judged}

(* What a record may say.                                                  *)
Good(r) ==
  /\ r \in Scope!Records
  /\ Scope!Valid(r)
  /\ Latest(r, now)
  /\ r.success # None => r.attempt # None /\ r.success.ended \in Nat
  /\ r.claim # None => r.claim.overtaken \/ r.claim.seal = r.claim.judged

(* What it owes to the newest success and failure: an attempt that is      *)
(* older started earlier, and a success that is older ended earlier.       *)
Owed(r) ==
  /\ noted.success # 0 =>
       /\ r.success # None
       /\ seals[noted.success].completed <= r.success.ended
       /\ Scope!Forged(r.success) \/ noted.success <= r.success.run
  /\ noted.failure # 0 =>
       /\ r.attempt # None
       /\ noted.since <= r.attempt.started
       /\ \/ Scope!Forged(r.attempt)
          \/ noted.failure < r.attempt.run
          \/ noted.failure = r.attempt.run /\ r.attempt.outcome = "FAILED"

NotedOK ==
  /\ noted.since <= now
  /\ noted.success # 0 => noted.success \in Scope!Runs /\ Bundle(noted.success)
  /\ noted.failure # 0 =>
       /\ noted.failure \in Scope!Runs
       /\ ~ Bundle(noted.failure)
       /\ Fits(noted.failure, noted.since)

RecordOK ==
  /\ record # None => Good(record) /\ Owed(record)
  /\ record = None => noted = [success |-> 0, failure |-> 0, since |-> 0]
  /\ NotedOK

ScopeIInv ==
  /\ ScopeTypeOK
  /\ SealsOK
  /\ \A c \in Commands : BackupOK(c) /\ WorkOK(c) /\ LatestOK(c)
  /\ RecordOK

-----------------------------------------------------------------------------
LEMMA ScopeInitially == ASSUME Scope!Init PROVE ScopeIInv
<1>1. Scope!Idle \in Remembered
  BY DEF Scope!Idle, Remembered, Places
<1>2. ScopeTypeOK
  BY <1>1 DEF Scope!Init, ScopeTypeOK, Content, Noted
<1>3. SealsOK
  BY DEF Scope!Init, SealsOK, Bundle, Scope!HasManifest
<1>4. \A c \in Commands : cmd[c].at = "idle"
  BY DEF Scope!Init, Scope!Idle
<1>5. \A c \in Commands : BackupOK(c) /\ WorkOK(c) /\ LatestOK(c)
  BY <1>4 DEF BackupOK, WorkOK, LatestOK, Scope!InBackup
<1>6. RecordOK
  BY DEF Scope!Init, RecordOK, NotedOK
<1> QED
  BY <1>2, <1>3, <1>5, <1>6 DEF ScopeIInv

(* Nothing but the clock and one command's memory moves.                   *)
Quiet ==
  /\ UNCHANGED <<disk, seals, record, noted>>
  /\ count' \in [runs : Nat, refreshes : Nat, changes : Nat, losses : Nat]
  /\ count'.runs = count.runs
  /\ now' \in Nat
  /\ now <= now'

(* A run that fits goes on fitting.                                        *)
LEMMA FitsOn ==
  ASSUME ScopeIInv, UNCHANGED seals, count'.runs = count.runs, now' \in Nat,
         now <= now', NEW n \in Nat, NEW s \in Nat, Fits(n, s)
  PROVE  Fits(n, s)'
BY DEF ScopeIInv, ScopeTypeOK, Fits, Bundle

LEMMA RecordFits ==
  ASSUME ScopeIInv
  PROVE  /\ record # None => /\ record \in Scope!Records
                             /\ Good(record)
                             /\ Owed(record)
                             /\ record.attempt # None => record.attempt \in Scope!Attempts
                             /\ record.success # None => record.success \in Scope!Attempts
         /\ now \in Nat /\ count.runs \in Nat /\ noted \in Noted
BY DEF ScopeIInv, ScopeTypeOK, RecordOK, Scope!Records, Good

(* What is known of the newest success and failure stays true.             *)
LEMMA NotedStays ==
  ASSUME ScopeIInv, UNCHANGED <<seals, noted>>, count'.runs = count.runs,
         now' \in Nat, now <= now'
  PROVE  NotedOK'
<1>1. /\ NotedOK /\ now \in Nat /\ noted.since \in Nat /\ noted.failure \in Nat
  BY DEF ScopeIInv, ScopeTypeOK, RecordOK, Noted
<1>2. noted.failure # 0 => Fits(noted.failure, noted.since)'
  BY <1>1, FitsOn DEF NotedOK, Fits
<1> QED
  BY <1>1, <1>2 DEF NotedOK, Bundle, Fits

(* So it does when another run begins.                                     *)
LEMMA FitsAfter ==
  ASSUME ScopeIInv, UNCHANGED seals, count'.runs = count.runs + 1,
         now' = now + 1,
         NEW n \in Nat, NEW s \in Nat, Fits(n, s)
  PROVE  Fits(n, s)'
BY DEF ScopeIInv, ScopeTypeOK, Fits, Bundle

LEMMA StoredGood ==
  ASSUME ScopeIInv
  PROVE  /\ Scope!Stored \in Scope!Records
         /\ Good(Scope!Stored)
         /\ Owed(Scope!Stored)
<1>1. CASE record = None
  BY <1>1 DEF ScopeIInv, RecordOK, Scope!Stored, Scope!Fresh, Scope!Records,
     Good, Owed, Scope!Valid, Latest
<1>2. CASE record # None
  BY <1>2, RecordFits DEF Scope!Stored
<1> QED
  BY <1>1, <1>2

LEMMA QuietKeeps ==
  ASSUME ScopeIInv, Quiet
  PROVE  SealsOK' /\ RecordOK'
<1>1. SealsOK'
  BY DEF ScopeIInv, ScopeTypeOK, Quiet, SealsOK, Bundle, Scope!HasManifest
<1>2. ASSUME record # None PROVE Good(record)'
  <2>1. record.attempt # None => record.attempt.started \in Nat
    BY <1>2, RecordFits DEF Scope!Attempts
  <2> QED
    BY <1>2, <2>1, RecordFits DEF Quiet, Good, Scope!Valid, Latest, Scope!Forged
<1>3. record # None => Owed(record)'
  BY RecordFits DEF Quiet, Owed, Scope!Forged
<1>4. NotedOK'
  BY NotedStays DEF Quiet
<1> QED
  BY <1>1, <1>2, <1>3, <1>4 DEF ScopeIInv, Quiet, RecordOK

(* What the others know and hold stays when one command alone moves on and *)
(* does not begin a backup.                                                *)
LEMMA OthersStay ==
  ASSUME ScopeIInv, NEW c \in Commands, NEW d \in Commands \ {c},
         UNCHANGED <<disk, seals>>,
         \/ noted'.failure = noted.failure /\ noted'.since = noted.since
         \/ Scope!InBackup(c),
         count'.runs = count.runs, now' \in Nat, now <= now',
         cmd' = [cmd EXCEPT ![c] = cmd'[c]],
         Scope!InBackup(c)' => Scope!InBackup(c)
  PROVE  cmd'[d] = cmd[d] /\ BackupOK(d)' /\ WorkOK(d)'
<1>1. cmd'[d] = cmd[d] /\ BackupOK(d) /\ WorkOK(d)
  BY DEF ScopeIInv, ScopeTypeOK
<1>2. \A e \in Commands : Scope!InBackup(e)' => Scope!InBackup(e)
  BY DEF ScopeIInv, ScopeTypeOK, Scope!InBackup
<1>3. cmd[d].started \in Nat
  BY DEF ScopeIInv, ScopeTypeOK, Remembered
<1>4. Scope!InBackup(d) => Fits(cmd[d].archive, cmd[d].started)'
  BY <1>1, <1>3, FitsOn DEF BackupOK, Fits
<1>5. Scope!InBackup(d) => noted'.failure = noted.failure /\ noted'.since = noted.since
  BY DEF ScopeIInv, BackupOK
<1>6. BackupOK(d)'
  BY <1>1, <1>2, <1>4, <1>5 DEF BackupOK, Scope!InBackup, Bundle
<1> QED
  BY <1>1, <1>6 DEF WorkOK, Bundle

LEMMA QuietStep ==
  ASSUME ScopeIInv, NEW c \in Commands, Quiet,
         cmd' = [cmd EXCEPT ![c] = cmd'[c]], cmd'[c] \in Remembered,
         Scope!InBackup(c)' => Scope!InBackup(c) /\ cmd'[c].at # "backup",
         BackupOK(c)', WorkOK(c)'
  PROVE  ScopeIInv'
<1>1. \A d \in Commands : BackupOK(d)' /\ WorkOK(d)'
  BY OthersStay DEF Quiet
<1>2. \A d \in Commands \ {c} : cmd'[d] = cmd[d]
  BY DEF ScopeIInv, ScopeTypeOK
<1>3. \A d \in Commands : LatestOK(d)'
  BY <1>2 DEF ScopeIInv, Quiet, LatestOK, Latest, Scope!Forged, Scope!InBackup
<1>4. ScopeTypeOK'
  BY DEF ScopeIInv, ScopeTypeOK, Quiet
<1> QED
  BY <1>1, <1>3, <1>4, QuietKeeps DEF ScopeIInv

LEMMA Reading ==
  ASSUME ScopeIInv, NEW c \in Commands,
         Scope!Judge(c) \/ Scope!LookUp(c) \/ Scope!IdentifyJudged(c)
  PROVE  ScopeIInv'
<1>0. /\ now \in Nat /\ cmd \in [Commands -> Remembered]
      /\ disk \in [Scope!Runs -> Content]
      /\ count \in [runs : Nat, refreshes : Nat, changes : Nat, losses : Nat]
      /\ SealsOK /\ \A d \in Commands : BackupOK(d) /\ WorkOK(d)
  BY DEF ScopeIInv, ScopeTypeOK
<1>1. Quiet
  <2>1. UNCHANGED <<now, disk, seals, record, noted, count>>
    BY DEF Scope!Judge, Scope!LookUp, Scope!IdentifyJudged, Scope!Unchanged
  <2> QED
    BY <1>0, <2>1 DEF Quiet
<1>2. Scope!Idle \in Remembered
  BY DEF Scope!Idle, Remembered, Places
<1>3. CASE Scope!Judge(c)
  <2>1. PICK a \in Scope!Runs :
          /\ disk[a] # None
          /\ cmd' = [cmd EXCEPT ![c] = [Scope!Idle EXCEPT
                       !.at = "judged", !.archive = a, !.proven = Scope!Proves(a),
                       !.judged = disk[a].seal]]
    BY <1>3 DEF Scope!Judge
  <2>2. Scope!Proves(a) \in BOOLEAN /\ disk[a].seal \in Scope!Manifests \cup {None} /\ Bundle(a)
    BY <1>0, <2>1 DEF Scope!Proves, Scope!HasManifest, Content, SealsOK
  <2>3. cmd'[c] = [Scope!Idle EXCEPT !.at = "judged", !.archive = a, !.proven = Scope!Proves(a),
                               !.judged = disk[a].seal]
    BY <1>0, <2>1
  <2>4. cmd'[c] \in Remembered
    BY <1>2, <2>2, <2>3 DEF Remembered, Places
  <2>5. /\ cmd'[c].at = "judged" /\ cmd'[c].archive = a
        /\ cmd'[c].judged = disk[a].seal
    BY <2>3 DEF Scope!Idle
  <2>6. BackupOK(c)' /\ ~ Scope!InBackup(c)' /\ WorkOK(c)'
    BY <1>1, <2>1, <2>2, <2>5 DEF BackupOK, Scope!InBackup, WorkOK, Bundle,
       Quiet
  <2> QED
    BY <1>1, <2>1, <2>4, <2>6, QuietStep
<1>4. CASE Scope!LookUp(c)
  <2>1. cmd[c] \in Remembered /\ cmd[c].at = "judged" /\ WorkOK(c)
    BY <1>0, <1>4 DEF Scope!LookUp, Scope!Step
  <2>2. CASE cmd' = [cmd EXCEPT ![c] = Scope!Idle]
    <3>1. cmd'[c] = Scope!Idle
      BY <1>0, <2>2
    <3>2. BackupOK(c)' /\ ~ Scope!InBackup(c)' /\ WorkOK(c)'
      BY <3>1 DEF BackupOK, Scope!InBackup, WorkOK, Scope!Idle
    <3> QED
      BY <1>1, <1>2, <2>2, <3>1, <3>2, QuietStep
  <2>3. CASE cmd' = [cmd EXCEPT ![c].at = "known"]
    <3>1. cmd'[c] = [cmd[c] EXCEPT !.at = "known"]
      BY <1>0, <2>3
    <3>2. cmd'[c] \in Remembered
      BY <2>1, <3>1 DEF Remembered, Places
    <3>3. /\ cmd'[c].at = "known" /\ cmd'[c].archive = cmd[c].archive
          /\ cmd'[c].judged = cmd[c].judged /\ cmd'[c].overtaken = cmd[c].overtaken
      BY <2>1, <3>1 DEF Remembered
    <3>4. BackupOK(c)' /\ ~ Scope!InBackup(c)' /\ WorkOK(c)'
      BY <1>1, <2>1, <3>3 DEF BackupOK, Scope!InBackup, WorkOK, Bundle, Quiet
    <3> QED
      BY <1>1, <2>3, <3>1, <3>2, <3>4, QuietStep
  <2> QED
    BY <1>4, <2>2, <2>3 DEF Scope!LookUp, Scope!Goto, Scope!Done
<1>5. CASE Scope!IdentifyJudged(c)
  <2>1. cmd[c] \in Remembered /\ cmd[c].at = "known" /\ WorkOK(c)
    BY <1>0, <1>5 DEF Scope!IdentifyJudged, Scope!Step
  <2> DEFINE a == cmd[c].archive
  <2>2. CASE ~ Scope!HasManifest(a)
    <3>1. cmd' = [cmd EXCEPT ![c] = Scope!Idle] /\ cmd'[c] = Scope!Idle
      BY <1>0, <1>5, <2>2 DEF Scope!IdentifyJudged, Scope!Done
    <3>2. BackupOK(c)' /\ ~ Scope!InBackup(c)' /\ WorkOK(c)'
      BY <3>1 DEF BackupOK, Scope!InBackup, WorkOK, Scope!Idle
    <3> QED
      BY <1>1, <1>2, <3>1, <3>2, QuietStep
  <2>3. CASE Scope!HasManifest(a)
    <3>1. cmd' = [cmd EXCEPT ![c].at = "verified", ![c].seal = disk[a].seal]
      BY <1>5, <2>3 DEF Scope!IdentifyJudged
    <3>2. cmd'[c] = [cmd[c] EXCEPT !.at = "verified", !.seal = disk[a].seal]
      BY <1>0, <3>1
    <3>3. disk[a].seal \in Scope!Manifests
      BY <1>0, <2>1, <2>3 DEF WorkOK, Scope!HasManifest, Content
    <3>4. cmd'[c] \in Remembered
      BY <2>1, <3>2, <3>3 DEF Remembered, Places
    <3>5. /\ cmd'[c].at = "verified" /\ cmd'[c].archive = a
          /\ cmd'[c].seal = disk[a].seal
          /\ cmd'[c].judged = cmd[c].judged /\ cmd'[c].overtaken = cmd[c].overtaken
      BY <2>1, <3>2 DEF Remembered
    <3>6. BackupOK(c)' /\ ~ Scope!InBackup(c)' /\ WorkOK(c)'
      BY <1>1, <2>1, <3>3, <3>5 DEF BackupOK, Scope!InBackup, WorkOK, Bundle,
         Quiet
    <3> QED
      BY <1>1, <3>1, <3>2, <3>4, <3>6, QuietStep
  <2> QED
    BY <2>2, <2>3
<1> QED
  BY <1>3, <1>4, <1>5

LEMMA IdleFits ==
  ASSUME NEW archives \in Seq(Scope!Runs), NEW health \in Scope!Healths
  PROVE  /\ Scope!Idle \in Remembered
         /\ [Scope!Idle EXCEPT !.at = "next", !.todo = archives] \in Remembered
         /\ [Scope!Idle EXCEPT !.at = "answered", !.health = health] \in Remembered
<1>1. Scope!Idle \in Remembered
  BY DEF Scope!Idle, Remembered, Places
<1> QED
  BY <1>1 DEF Remembered, Places

(* What the rest of a reconciliation looks like.                           *)
LEMMA Rest ==
  ASSUME ScopeIInv, NEW c \in Commands, cmd[c].todo # <<>>, Scope!NextArchive(c)
  PROVE  /\ cmd' = [cmd EXCEPT ![c] = cmd'[c]]
         /\ cmd'[c] \in Remembered
         /\ ~ Scope!InBackup(c)'
         /\ BackupOK(c)'
         /\ WorkOK(c)'
<1>1. cmd[c] \in Remembered
  BY DEF ScopeIInv, ScopeTypeOK
<1> DEFINE rest == Tail(cmd[c].todo)
<1>2. rest \in Seq(Scope!Runs)
  BY <1>1 DEF Remembered
<1> HIDE DEF rest
<1>3. cmd' = [cmd EXCEPT ![c] = IF rest = <<>> THEN Scope!Idle
                                ELSE [Scope!Idle EXCEPT !.at = "next", !.todo = rest]]
  BY DEF Scope!NextArchive, rest
<1>4. cmd'[c] = IF rest = <<>> THEN Scope!Idle
                ELSE [Scope!Idle EXCEPT !.at = "next", !.todo = rest]
  BY <1>3 DEF ScopeIInv, ScopeTypeOK
<1>5. cmd'[c] \in Remembered
  <2>1. [at |-> 0, ok |-> TRUE] \in Scope!Healths
    BY DEF Scope!Healths
  <2> QED
    BY <1>2, <1>4, <2>1, IdleFits
<1>6. cmd'[c].at \in {"idle", "next"} /\ (cmd'[c].at = "next" => cmd'[c].todo # <<>>)
  BY <1>4 DEF Scope!Idle
<1> QED
  BY <1>3, <1>4, <1>5, <1>6 DEF Scope!InBackup, BackupOK, WorkOK

LEMMA Reconciling ==
  ASSUME ScopeIInv, NEW c \in Commands,
         \/ Scope!Discover(c) \/ Scope!ReadSealed(c) \/ Scope!JudgeSealed(c)
         \/ Scope!Panic(c)
  PROVE  ScopeIInv'
<1>0. /\ now \in Nat /\ cmd \in [Commands -> Remembered]
      /\ disk \in [Scope!Runs -> Content]
      /\ count \in [runs : Nat, refreshes : Nat, changes : Nat, losses : Nat]
      /\ SealsOK /\ \A d \in Commands : BackupOK(d) /\ WorkOK(d)
  BY DEF ScopeIInv, ScopeTypeOK
<1>1. Quiet
  <2>1. UNCHANGED <<now, disk, seals, record, noted, count>>
    BY DEF Scope!Discover, Scope!ReadSealed, Scope!JudgeSealed, Scope!Panic,
       Scope!Unchanged
  <2> QED
    BY <1>0, <2>1 DEF Quiet
<1>2. cmd[c] \in Remembered /\ WorkOK(c)
  BY <1>0
<1>3. CASE Scope!Discover(c)
  <2> DEFINE found == {a \in Scope!Runs : Scope!HasManifest(a) /\ disk[a].seal.completed # None}
  <2>1. PICK n, archives :
          /\ n \in Scope!Runs /\ archives \in [1..n -> found]
          /\ cmd' = [cmd EXCEPT ![c] = [Scope!Idle EXCEPT !.at = "next", !.todo = archives]]
    BY <1>3 DEF Scope!Discover
  <2>4. archives \in Seq(Scope!Runs) /\ archives # <<>>
    <3>1. archives \in [1..n -> Scope!Runs] /\ n \in Nat /\ 1 \in DOMAIN archives
      BY <2>1 DEF Scope!Runs
    <3>2. [1..n -> Scope!Runs] \in {[1..k -> Scope!Runs] : k \in Nat}
      BY <3>1
    <3>3. archives \in Seq(Scope!Runs)
      BY <3>1, <3>2, SeqDef
    <3> QED
      BY <3>1, <3>3, LenProperties, EmptySeq
  <2>5. cmd'[c] = [Scope!Idle EXCEPT !.at = "next", !.todo = archives]
    BY <1>0, <2>1
  <2>6. cmd'[c] \in Remembered /\ cmd'[c].at = "next" /\ cmd'[c].todo # <<>>
    <3>1. [at |-> 0, ok |-> TRUE] \in Scope!Healths
      BY DEF Scope!Healths
    <3>2. cmd'[c] \in Remembered
      BY <2>4, <2>5, <3>1, IdleFits
    <3> QED
      BY <2>4, <2>5, <3>2 DEF Scope!Idle
  <2>7. BackupOK(c)' /\ ~ Scope!InBackup(c)' /\ WorkOK(c)'
    BY <2>6 DEF BackupOK, Scope!InBackup, WorkOK
  <2> QED
    BY <1>1, <2>1, <2>6, <2>7, QuietStep
<1>4. CASE Scope!ReadSealed(c)
  <2> DEFINE a == Head(cmd[c].todo)
  <2>1. cmd[c].at = "next" /\ cmd[c].todo # <<>> /\ a \in Scope!Runs
    BY <1>2, <1>4 DEF Scope!ReadSealed, Scope!Step, WorkOK, Remembered
  <2>2. CASE ~ Scope!HasManifest(a)
    BY <1>1, <1>4, <2>1, <2>2, Rest, QuietStep DEF Scope!ReadSealed
  <2>3. CASE Scope!HasManifest(a)
    <3>1. cmd' = [cmd EXCEPT ![c].at = "sealed", ![c].archive = a, ![c].seal = disk[a].seal]
      BY <1>4, <2>3 DEF Scope!ReadSealed
    <3>2. cmd'[c] = [cmd[c] EXCEPT !.at = "sealed", !.archive = a, !.seal = disk[a].seal]
      BY <1>0, <3>1
    <3>3. /\ disk[a].seal \in Scope!Manifests /\ Bundle(a) /\ disk[a] # None
          /\ disk[a].seal.edited \/ disk[a].seal = seals[a]
      BY <1>0, <2>1, <2>3 DEF SealsOK, Scope!HasManifest, Content
    <3> HIDE DEF a
    <3>4. cmd'[c] \in Remembered
      BY <1>2, <2>1, <3>2, <3>3 DEF Remembered, Places
    <3>5. /\ cmd'[c].at = "sealed" /\ cmd'[c].archive = a
          /\ cmd'[c].seal = disk[a].seal /\ cmd'[c].todo = cmd[c].todo
      BY <1>2, <3>2 DEF Remembered
    <3>6. BackupOK(c)' /\ ~ Scope!InBackup(c)' /\ WorkOK(c)'
      BY <1>1, <2>1, <3>3, <3>5 DEF BackupOK, Scope!InBackup, WorkOK, Bundle,
         Quiet
    <3> QED
      BY <1>1, <3>1, <3>2, <3>4, <3>6, QuietStep
  <2> QED
    BY <2>2, <2>3
<1>5. CASE Scope!JudgeSealed(c)
  <2> DEFINE a == cmd[c].archive
  <2>1. cmd[c].at = "sealed" /\ cmd[c].todo # <<>> /\ a \in Scope!Runs
    BY <1>2, <1>5 DEF Scope!JudgeSealed, Scope!Step, WorkOK, Remembered
  <2>2. CASE disk[a] = None
    BY <1>1, <1>5, <2>1, <2>2, Rest, QuietStep DEF Scope!JudgeSealed
  <2>3. CASE disk[a] # None
    <3>1. cmd' = [cmd EXCEPT ![c].at = "reconciled", ![c].proven = Scope!Proves(a),
                             ![c].judged = disk[a].seal]
      BY <1>5, <2>3 DEF Scope!JudgeSealed
    <3>2. cmd'[c] = [cmd[c] EXCEPT !.at = "reconciled", !.proven = Scope!Proves(a),
                                   !.judged = disk[a].seal]
      BY <1>0, <3>1
    <3>3. disk[a].seal \in Scope!Manifests \cup {None} /\ Scope!Proves(a) \in BOOLEAN
      BY <1>0, <2>1, <2>3 DEF Scope!Proves, Scope!HasManifest, Content
    <3>4. cmd'[c] \in Remembered
      BY <1>2, <2>1, <3>2, <3>3 DEF Remembered, Places
    <3>5. /\ cmd'[c].at = "reconciled" /\ cmd'[c].archive = a
          /\ cmd'[c].seal = cmd[c].seal /\ cmd'[c].todo = cmd[c].todo
          /\ cmd'[c].judged = disk[a].seal /\ cmd'[c].overtaken = cmd[c].overtaken
      BY <1>2, <3>2 DEF Remembered
    <3>6. BackupOK(c)' /\ ~ Scope!InBackup(c)' /\ WorkOK(c)'
      BY <1>1, <1>2, <2>1, <3>3, <3>5 DEF BackupOK, Scope!InBackup, WorkOK,
         Bundle, Quiet
    <3> QED
      BY <1>1, <3>1, <3>2, <3>4, <3>6, QuietStep
  <2> QED
    BY <2>2, <2>3
<1>6. CASE Scope!Panic(c)
  <2>1. cmd' = [cmd EXCEPT ![c] = Scope!Idle] /\ cmd'[c] = Scope!Idle
    BY <1>0, <1>6 DEF Scope!Panic, Scope!Done
  <2>2. BackupOK(c)' /\ ~ Scope!InBackup(c)' /\ WorkOK(c)' /\ cmd'[c] \in Remembered
    BY <1>0, <2>1 DEF BackupOK, Scope!InBackup, WorkOK, Scope!Idle, Remembered, Places
  <2> QED
    BY <1>1, <2>1, <2>2, QuietStep
<1> QED
  BY <1>3, <1>4, <1>5, <1>6

LEMMA Waiting ==
  ASSUME ScopeIInv, NEW c \in Commands,
         Scope!IdentifyPublished(c) \/ Scope!Ask(c) \/ Scope!Kill(c)
  PROVE  ScopeIInv'
<1>0. /\ now \in Nat /\ cmd \in [Commands -> Remembered]
      /\ disk \in [Scope!Runs -> Content]
      /\ count \in [runs : Nat, refreshes : Nat, changes : Nat, losses : Nat]
      /\ SealsOK /\ \A d \in Commands : BackupOK(d) /\ WorkOK(d)
  BY DEF ScopeIInv, ScopeTypeOK
<1>1. cmd[c] \in Remembered /\ WorkOK(c) /\ BackupOK(c)
  BY <1>0
<1>2. CASE Scope!IdentifyPublished(c)
  <2> DEFINE a == cmd[c].archive
             seal == IF Scope!HasManifest(a) THEN disk[a].seal ELSE None
  <2>1. Quiet
    BY <1>0, <1>2 DEF Scope!IdentifyPublished, Scope!Unchanged, Quiet
  <2>2. cmd[c].at = "published" /\ a \in Scope!Runs /\ Bundle(a)
    BY <1>1, <1>2 DEF Scope!IdentifyPublished, Scope!Step, BackupOK,
       Scope!InBackup
  <2>3. cmd' = [cmd EXCEPT ![c].at = "identified", ![c].seal = seal]
    BY <1>2 DEF Scope!IdentifyPublished
  <2>4. cmd'[c] = [cmd[c] EXCEPT !.at = "identified", !.seal = seal]
    BY <1>0, <2>3
  <2>5. seal \in Scope!Manifests \cup {None}
    BY <1>0, <2>2 DEF Scope!HasManifest, Content
  <2>6. ~ cmd[c].overtaken => seal \in {None, cmd[c].judged}
    BY <1>1, <2>2 DEF WorkOK
  <2> HIDE DEF seal
  <2>7. cmd'[c] \in Remembered
    BY <1>1, <2>4, <2>5 DEF Remembered, Places
  <2>8. /\ cmd'[c].at = "identified" /\ cmd'[c].archive = a /\ cmd'[c].seal = seal
        /\ cmd'[c].judged = cmd[c].judged /\ cmd'[c].overtaken = cmd[c].overtaken
        /\ cmd'[c].started = cmd[c].started
    BY <1>1, <2>4 DEF Remembered
  <2>9. WorkOK(c)'
    BY <1>1, <2>2, <2>6, <2>8 DEF WorkOK
  <2>10. Scope!InBackup(c)
    BY <2>2 DEF Scope!InBackup
  <2>11. \A d \in Commands : Scope!InBackup(d)' => Scope!InBackup(d)
    BY <1>0, <2>3, <2>10 DEF Scope!InBackup
  <2>12. BackupOK(c)'
    BY <1>1, <2>1, <2>2, <2>8, <2>10, <2>11, FitsOn
       DEF Remembered, BackupOK, Quiet, Bundle, Fits
  <2> QED
    BY <2>1, <2>3, <2>4, <2>7, <2>8, <2>9, <2>10, <2>12, QuietStep
<1>3. CASE Scope!Ask(c)
  <2>1. PICK ok \in BOOLEAN :
          /\ UNCHANGED <<disk, seals, record, noted>>
          /\ count' = [count EXCEPT !.refreshes = @ + 1]
          /\ now' = now + 1
          /\ cmd' = [cmd EXCEPT ![c] = [Scope!Idle EXCEPT
                       !.at = "answered", !.health = [at |-> now', ok |-> ok]]]
    BY <1>3 DEF Scope!Ask
  <2>2. Quiet
    BY <1>0, <2>1 DEF Quiet
  <2>3. [at |-> now', ok |-> ok] \in Scope!Healths
    BY <1>0, <2>1 DEF Scope!Healths
  <2>4. cmd'[c] = [Scope!Idle EXCEPT !.at = "answered", !.health = [at |-> now', ok |-> ok]]
    BY <1>0, <2>1
  <2>5. cmd'[c] \in Remembered
    BY <2>3, <2>4, IdleFits, EmptySeq
  <2>6. cmd'[c].at = "answered"
    BY <2>4 DEF Scope!Idle
  <2>7. BackupOK(c)' /\ ~ Scope!InBackup(c)' /\ WorkOK(c)'
    BY <2>6 DEF BackupOK, Scope!InBackup, WorkOK
  <2> QED
    BY <2>1, <2>2, <2>4, <2>5, <2>7, QuietStep
<1>4. CASE Scope!Kill(c)
  <2>1. Quiet
    BY <1>0, <1>4 DEF Scope!Kill, Scope!Unchanged, Quiet
  <2>2. cmd' = [cmd EXCEPT ![c] = Scope!Idle] /\ cmd'[c] = Scope!Idle
    BY <1>0, <1>4 DEF Scope!Kill, Scope!Done
  <2>3. BackupOK(c)' /\ ~ Scope!InBackup(c)' /\ WorkOK(c)' /\ cmd'[c] \in Remembered
    BY <1>0, <2>2 DEF BackupOK, Scope!InBackup, WorkOK, Scope!Idle, Remembered, Places
  <2> QED
    BY <2>1, <2>2, <2>3, QuietStep
<1> QED
  BY <1>2, <1>3, <1>4

LEMMA Beginning ==
  ASSUME ScopeIInv, NEW c \in Commands, Scope!BeginBackup(c)
  PROVE  ScopeIInv'
<1>0. PICK n, start, old : n = count.runs + 1 /\ start = now + 1 /\ old = Scope!Stored
  OBVIOUS
<1> DEFINE attempt == Scope!Attempt(n, "STARTED", start, None)
           new == [old EXCEPT !.attempt = attempt]
<1>1. /\ now' = now + 1
      /\ count' = [count EXCEPT !.runs = @ + 1]
      /\ UNCHANGED <<disk, seals, noted>>
      /\ count.runs < MaxRuns
      /\ \A d \in Commands : ~ Scope!InBackup(d)
      /\ cmd' = [cmd EXCEPT ![c] = [Scope!Idle EXCEPT !.at = "backup", !.started = start,
                                                !.archive = n]]
  BY <1>0 DEF Scope!BeginBackup
<1>2. /\ now \in Nat /\ count.runs \in Nat /\ n = count.runs + 1 /\ start = now + 1
      /\ seals \in [Scope!Runs -> Scope!Manifests \cup {None}]
      /\ noted \in Noted /\ NotedOK
  BY <1>0 DEF ScopeIInv, ScopeTypeOK, RecordOK
<1>3. /\ now' = now + 1 /\ count'.runs = n /\ UNCHANGED <<disk, seals, noted>>
      /\ n \in Nat /\ n \in 1..n /\ n \in Scope!Runs
  BY <1>0, <1>1, NothingRecorded DEF ScopeIInv, ScopeTypeOK,
     Scope!ScopeAssumption, Scope!Runs
<1>4. ~ Bundle(n) /\ \A a \in Scope!Runs : Bundle(a) => a < n /\ seals[a].completed < start
  <2>1. SealsOK
    BY DEF ScopeIInv
  <2> QED
    BY <1>2, <1>3, <2>1 DEF SealsOK, Scope!Runs
<1>5. Fits(n, start)'
  BY <1>2, <1>3, <1>4 DEF Fits, Bundle, Scope!Runs
<1>6. /\ attempt \in Scope!Attempts /\ attempt # None
      /\ attempt.run = n /\ attempt.started = start
  BY <1>2, NothingRecorded DEF Scope!Attempts, Scope!Attempt,
     Scope!ScopeAssumption
<1>7. old \in Scope!Records /\ Good(old) /\ Owed(old)
  BY <1>0, StoredGood
<1>8. /\ new \in Scope!Records /\ new.attempt = attempt /\ new.success = old.success
      /\ new.claim = old.claim
  BY <1>6, <1>7 DEF Scope!Records
<1> HIDE DEF new, attempt
(* The record of the start is refused when a forged success began later.   *)
<1>9. PICK result :
        /\ record' = result
        /\ (result = new /\ Scope!Valid(new)) \/ (result = old /\ record # None)
  <2>1. record' = IF Scope!Valid(new) THEN new ELSE record
    BY <1>0, <1>1 DEF Scope!BeginBackup, Scope!Update, new, attempt
  <2>2. record = None => Scope!Valid(new)
    BY <1>0, <1>8 DEF Scope!Stored, Scope!Fresh, Scope!Valid
  <2> QED
    BY <1>0, <2>1, <2>2 DEF Scope!Stored
<1>10. /\ result \in Scope!Records /\ Scope!Valid(result)
       /\ result.success = old.success /\ result.claim = old.claim
       /\ result.attempt \in {attempt, old.attempt}
       /\ result.success # None => result.attempt # None
  BY <1>6, <1>7, <1>8, <1>9 DEF Good
<1>11. Latest(result, start)
  <2>1. old.attempt # None => old.attempt.started \in Nat
    BY <1>7 DEF Scope!Records, Scope!Attempts
  <2> QED
    BY <1>2, <1>6, <1>7, <1>10, <2>1 DEF Good, Latest
<1>12. Good(result)'
  <2>1. /\ Good(result)' <=>
          /\ result \in Scope!Records
          /\ Scope!Valid(result)
          /\ Latest(result, now')
          /\ result.success # None => result.attempt # None /\ result.success.ended \in Nat
          /\ result.claim # None => result.claim.overtaken \/ result.claim.seal = result.claim.judged
    BY DEF Good, Scope!Valid, Latest, Scope!Forged
  <2>2. Latest(result, now')
    BY <1>2, <1>3, <1>11
  <2> QED
    BY <1>7, <1>10, <2>1, <2>2 DEF Good
<1>13. Owed(result)'
  <2>1. noted.failure \in Nat /\ noted.failure <= count.runs
    BY <1>2 DEF NotedOK, Fits, Noted
  <2>2. noted.since \in Nat /\ noted.since <= now
    BY <1>2 DEF NotedOK, Noted
  <2>3. CASE result.attempt = attempt
    <3>1. noted.failure < n /\ noted.since <= start
      BY <1>2, <2>1, <2>2
    <3> QED
      BY <1>3, <1>6, <1>7, <1>10, <2>3, <3>1 DEF Owed, Scope!Forged
  <2>4. CASE result.attempt = old.attempt
    BY <1>3, <1>7, <1>10, <2>4 DEF Owed, Scope!Forged
  <2> QED
    BY <1>10, <2>3, <2>4
<1>14. RecordOK'
  <2>1. result # None
    BY <1>10, NothingRecorded DEF Scope!ScopeAssumption
  <2>2. noted.failure # 0 => Fits(noted.failure, noted.since)'
    BY <1>2, <1>3, FitsAfter DEF NotedOK, Noted
  <2>3. NotedOK'
    BY <1>2, <1>3, <2>2 DEF NotedOK, Bundle, Noted, Fits
  <2> QED
    BY <1>9, <1>12, <1>13, <2>1, <2>3 DEF RecordOK
<1>15. SealsOK'
  <2>1. SealsOK
    BY DEF ScopeIInv
  <2>2. \A a \in Scope!Runs : Bundle(a) => a <= n /\ seals[a].completed <= now'
    BY <1>2, <1>3, <2>1 DEF SealsOK, Scope!Runs
  <2> QED
    BY <1>3, <2>1, <2>2 DEF SealsOK, Bundle, Scope!HasManifest
<1>16. /\ cmd'[c].at = "backup" /\ cmd'[c].started = start /\ cmd'[c].archive = n
       /\ cmd'[c] \in Remembered
  <2>1. cmd'[c] = [Scope!Idle EXCEPT !.at = "backup", !.started = start, !.archive = n]
    BY <1>1 DEF ScopeIInv, ScopeTypeOK
  <2>2. Scope!Idle \in Remembered
    BY DEF Scope!Idle, Remembered, Places
  <2>3. start \in Nat /\ n \in Scope!Runs
    BY <1>2, <1>3
  <2>4. cmd'[c].at = "backup" /\ cmd'[c].started = start /\ cmd'[c].archive = n
    BY <2>1 DEF Scope!Idle
  <2>5. cmd'[c] \in Remembered
    BY <2>1, <2>2, <2>3 DEF Remembered, Places
  <2> QED
    BY <2>4, <2>5
<1>17. \A d \in Commands : d # c => cmd'[d] = cmd[d] /\ ~ Scope!InBackup(d)'
  BY <1>1 DEF Scope!InBackup, ScopeIInv, ScopeTypeOK
<1>18. BackupOK(c)' /\ WorkOK(c)' /\ LatestOK(c)'
  <2>1. noted.failure \in Nat /\ noted.failure < n
    BY <1>2 DEF NotedOK, Fits, Noted
  <2>2. noted.since <= start
    BY <1>2 DEF NotedOK, Noted
  <2>3. BackupOK(c)' /\ WorkOK(c)'
    BY <1>2, <1>3, <1>4, <1>5, <1>16, <1>17, <2>1, <2>2 DEF BackupOK, WorkOK, Bundle
  <2>4. LatestOK(c)'
    BY <1>9, <1>11, <1>16 DEF LatestOK, Latest, Scope!Forged
  <2> QED
    BY <2>3, <2>4
<1>19. \A d \in Commands : d # c => BackupOK(d)' /\ WorkOK(d)' /\ LatestOK(d)'
  BY <1>3, <1>17 DEF ScopeIInv, BackupOK, WorkOK, LatestOK, Scope!InBackup, Bundle
<1>20. ScopeTypeOK'
  <2>1. cmd' \in [Commands -> Remembered]
    BY <1>1, <1>16 DEF ScopeIInv, ScopeTypeOK
  <2> QED
    BY <1>1, <1>3, <1>9, <1>10, <2>1 DEF ScopeIInv, ScopeTypeOK
<1> QED
  BY <1>14, <1>15, <1>18, <1>19, <1>20 DEF ScopeIInv

-----------------------------------------------------------------------------
(* Updates of the record.                                                  *)
LEMMA Recording ==
  ASSUME ScopeIInv, NEW c \in Commands, NEW new, new \in Scope!Records,
         Good(new),
         \A d \in Commands \ {c} :
           cmd[d].at = "backup" => Latest(new, cmd[d].started),
         record' = new, Owed(new)', UNCHANGED <<disk, seals, count>>,
         now' \in Nat, now <= now', noted' \in Noted, NotedOK',
         \/ noted'.failure = noted.failure /\ noted'.since = noted.since
         \/ Scope!InBackup(c),
         cmd' = [cmd EXCEPT ![c] = cmd'[c]], cmd'[c] \in Remembered,
         ~ Scope!InBackup(c)', WorkOK(c)'
  PROVE  ScopeIInv'
<1>1. now \in Nat /\ count.runs \in Nat
  BY DEF ScopeIInv, ScopeTypeOK
<1>2. \A d \in Commands : BackupOK(d)' /\ WorkOK(d)'
  BY OthersStay DEF BackupOK
<1>3. SealsOK'
  BY <1>1 DEF ScopeIInv, SealsOK, Bundle, Scope!HasManifest
<1>4. Good(new)'
  <2>1. new.attempt # None => new.attempt.started \in Nat
    BY DEF Scope!Records, Scope!Attempts
  <2> QED
    BY <1>1, <2>1 DEF Good, Scope!Valid, Latest, Scope!Forged
<1>5. RecordOK'
  <2>1. new # None
    BY NothingRecorded DEF Scope!ScopeAssumption
  <2> QED
    BY <1>4, <2>1 DEF RecordOK
<1>6. \A d \in Commands : LatestOK(d)'
  <2>1. \A d \in Commands \ {c} : cmd'[d] = cmd[d]
    BY DEF ScopeIInv, ScopeTypeOK
  <2> QED
    BY <2>1 DEF LatestOK, Latest, Scope!Forged, Scope!InBackup
<1>7. ScopeTypeOK'
  BY DEF ScopeIInv, ScopeTypeOK
<1> QED
  BY <1>2, <1>3, <1>5, <1>6, <1>7 DEF ScopeIInv

(* When a command only adds what it claims or was told.                    *)
LEMMA Adding ==
  ASSUME ScopeIInv, NEW c \in Commands, NEW new,
         new \in Scope!Records, Good(new),
         \A d \in Commands \ {c} :
           cmd[d].at = "backup" => Latest(new, cmd[d].started),
         record' = new, Owed(new),
         UNCHANGED <<now, disk, seals, noted, count>>,
         cmd' = [cmd EXCEPT ![c] = cmd'[c]], cmd'[c] \in Remembered,
         ~ Scope!InBackup(c)', WorkOK(c)'
  PROVE  ScopeIInv'
<1>1. Owed(new)'
  BY DEF Owed, Scope!Forged
<1>2. now' \in Nat /\ now <= now' /\ noted' \in Noted
  BY DEF ScopeIInv, ScopeTypeOK
<1>3. NotedOK'
  BY <1>2, NotedStays
<1> QED
  BY <1>1, <1>2, <1>3, Recording

(* A record with the attempt that is stored is as late as that.            *)
LEMMA LatestStays ==
  ASSUME ScopeIInv, NEW new, new.attempt = Scope!Stored.attempt
  PROVE  \A d \in Commands :
           cmd[d].at = "backup" => Latest(new, cmd[d].started)
BY DEF ScopeIInv, LatestOK, Latest, Scope!Stored, Scope!Fresh

LEMMA Idling ==
  ASSUME ScopeIInv, NEW c \in Commands, Scope!Done(c)
  PROVE  /\ cmd' = [cmd EXCEPT ![c] = cmd'[c]]
         /\ cmd'[c] \in Remembered
         /\ ~ Scope!InBackup(c)'
         /\ WorkOK(c)'
<1>1. cmd' = [cmd EXCEPT ![c] = Scope!Idle] /\ cmd'[c] = Scope!Idle
  BY DEF Scope!Done, ScopeIInv, ScopeTypeOK
<1>2. Scope!Idle \in Remembered
  BY DEF Scope!Idle, Remembered, Places
<1>3. Scope!Idle.at = "idle"
  BY DEF Scope!Idle
<1> QED
  BY <1>1, <1>2, <1>3 DEF Scope!InBackup, WorkOK

(* What a claim of a command says.                                         *)
LEMMA ClaimIsRight ==
  ASSUME ScopeIInv, NEW c \in Commands,
         cmd[c].at \in {"verified", "reconciled", "identified"},
         cmd[c].seal # None
  PROVE  /\ Scope!Claim(c) \in Scope!Claims
         /\ Scope!Claim(c).overtaken \/ Scope!Claim(c).seal = Scope!Claim(c).judged
<1>1. cmd[c] \in Remembered /\ WorkOK(c) /\ BackupOK(c)
  BY DEF ScopeIInv, ScopeTypeOK
<1>2. cmd[c].archive \in Scope!Runs
  BY <1>1 DEF WorkOK, BackupOK, Scope!InBackup
<1>3. cmd[c].judged \in Scope!Manifests \cup {None} /\ cmd[c].seal \in Scope!Manifests
  BY <1>1 DEF Remembered
<1>4. cmd[c].overtaken \/ cmd[c].seal = cmd[c].judged
  BY <1>1 DEF WorkOK
<1>5. cmd[c].proven \in BOOLEAN /\ cmd[c].overtaken \in BOOLEAN
  BY <1>1 DEF Remembered
<1> QED
  BY <1>2, <1>3, <1>4, <1>5 DEF Scope!Claim, Scope!Claims

LEMMA Adds ==
  ASSUME ScopeIInv, NEW c \in Commands,
         Scope!RecordVerification(c) \/ Scope!ApplyAssessment(c)
  PROVE  ScopeIInv'
<1>1. PICK old : old = Scope!Stored
  OBVIOUS
<1>2. old \in Scope!Records /\ Good(old) /\ Owed(old)
  BY <1>1, StoredGood
<1>3. cmd[c] \in Remembered /\ WorkOK(c)
  BY DEF ScopeIInv, ScopeTypeOK
<1>4. CASE Scope!RecordVerification(c)
  <2>1. PICK claim : claim = Scope!Claim(c)
    OBVIOUS
  <2> DEFINE new == [old EXCEPT !.claim = claim]
  <2>2. cmd[c].at = "verified" /\ cmd[c].seal # None
    <3>1. cmd[c].at = "verified" /\ cmd[c].seal \in Scope!Manifests
      BY <1>3, <1>4 DEF Scope!RecordVerification, Scope!Step, WorkOK
    <3> QED
      BY <3>1, NothingRecorded DEF Scope!ScopeAssumption
  <2>3. claim \in Scope!Claims /\ (claim.overtaken \/ claim.seal = claim.judged)
    BY <2>1, <2>2, ClaimIsRight
  <2>4. /\ new \in Scope!Records /\ new.attempt = old.attempt /\ new.success = old.success
        /\ new.claim = claim
    BY <1>2, <2>3 DEF Scope!Records
  <2>5. /\ UNCHANGED <<now, disk, seals, noted, count>>
        /\ Scope!Update(new)
        /\ Scope!Done(c)
    BY <1>1, <1>4, <2>1 DEF Scope!RecordVerification, Scope!Unchanged
  <2> HIDE DEF new
  <2>6. Good(new) /\ Owed(new)
    BY <1>2, <2>3, <2>4 DEF Good, Owed, Scope!Valid, Latest
  <2>7. record' = new
    BY <2>5, <2>6 DEF Scope!Update, Good
  <2> QED
    BY <1>1, <2>4, <2>5, <2>6, <2>7, Idling, LatestStays, Adding
<1>5. CASE Scope!ApplyAssessment(c)
  <2>1. PICK health : health = cmd[c].health
    OBVIOUS
  <2> DEFINE new == [old EXCEPT !.health = health]
  <2>2. /\ new \in Scope!Records /\ new.attempt = old.attempt /\ new.success = old.success
        /\ new.claim = old.claim
    BY <1>2, <1>3, <2>1 DEF Scope!Records, Remembered
  <2>3. /\ UNCHANGED <<now, disk, seals, noted, count>>
        /\ Scope!Update(new)
        /\ Scope!Done(c)
    BY <1>1, <1>5, <2>1 DEF Scope!ApplyAssessment, Scope!Unchanged
  <2> HIDE DEF new
  <2>4. Good(new) /\ Owed(new)
    BY <1>2, <2>2 DEF Good, Owed, Scope!Valid, Latest
  <2>5. record' = new
    BY <2>3, <2>4 DEF Scope!Update, Good
  <2> QED
    BY <1>1, <2>2, <2>3, <2>4, <2>5, Idling, LatestStays, Adding
<1> QED
  BY <1>4, <1>5

LEMMA Succeeding ==
  ASSUME ScopeIInv, NEW c \in Commands, Scope!Succeed(c)
  PROVE  ScopeIInv'
<1>1. PICK n, start, ended, old, claim :
        /\ n = cmd[c].archive /\ start = cmd[c].started /\ ended = now + 1
        /\ old = Scope!Stored
        /\ claim = IF cmd[c].seal = None THEN old.claim ELSE Scope!Claim(c)
  OBVIOUS
<1>2. old \in Scope!Records /\ Good(old) /\ Owed(old)
  BY <1>1, StoredGood
<1>3. now \in Nat /\ count.runs \in Nat /\ noted \in Noted
  BY DEF ScopeIInv, ScopeTypeOK
<1>4. cmd[c] \in Remembered /\ WorkOK(c) /\ BackupOK(c) /\ cmd[c].at = "identified"
  BY DEF ScopeIInv, ScopeTypeOK, Scope!Succeed, Scope!Step
<1>5. Scope!InBackup(c)
  BY <1>4 DEF Scope!InBackup
<1>6. /\ n \in Scope!Runs /\ n = count.runs /\ Fits(n, start) /\ Bundle(n)
      /\ noted.failure < n /\ noted.since <= start /\ start \in Nat /\ start <= now
  BY <1>1, <1>4, <1>5 DEF BackupOK, Remembered, Fits
<1>7. n \in Nat /\ ended \in Nat
  BY <1>1, <1>3, <1>6
<1>8. seals[n].completed \in Nat /\ seals[n].completed <= now
  BY <1>3, <1>6 DEF ScopeIInv, SealsOK
<1> DEFINE attempt == Scope!Attempt(n, "SUCCEEDED", start, ended)
           new == [old EXCEPT !.attempt = attempt, !.success = attempt,
                              !.health = [at |-> start, ok |-> TRUE], !.claim = claim]
<1>9. /\ attempt \in Scope!Attempts /\ attempt # None
      /\ attempt.run = n /\ attempt.started = start /\ attempt.ended = ended
      /\ attempt.outcome = "SUCCEEDED"
  BY <1>6, <1>7, NothingRecorded DEF Scope!Attempts, Scope!Attempt,
     Scope!ScopeAssumption
<1>10. claim \in Scope!Claims \cup {None} /\
       (claim # None => claim.overtaken \/ claim.seal = claim.judged)
  <2>1. CASE cmd[c].seal = None
    BY <1>1, <1>2, <2>1 DEF Good, Scope!Records
  <2>2. CASE cmd[c].seal # None
    BY <1>1, <1>4, <2>2, ClaimIsRight
  <2> QED
    BY <2>1, <2>2
<1>11. /\ UNCHANGED <<disk, seals, count>>
       /\ now' = ended
       /\ Scope!Update(new)
       /\ noted' = [noted EXCEPT !.success = n]
       /\ Scope!Done(c)
  BY <1>1 DEF Scope!Succeed
<1> HIDE DEF attempt
<1>12. [at |-> start, ok |-> TRUE] \in Scope!Healths
  BY <1>6 DEF Scope!Healths
<1>13. /\ new \in Scope!Records /\ new.attempt = attempt /\ new.success = attempt
       /\ new.claim = claim
  BY <1>2, <1>9, <1>10, <1>12 DEF Scope!Records
<1> HIDE DEF new
<1>14. Good(new)
  <2>1. Scope!Valid(new)
    BY <1>6, <1>9, <1>13 DEF Scope!Valid
  <2>2. Latest(new, now)
    BY <1>6, <1>9, <1>13 DEF Latest
  <2> QED
    BY <1>7, <1>9, <1>10, <1>13, <2>1, <2>2 DEF Good
<1>15. record' = new
  BY <1>11, <1>14 DEF Scope!Update, Good
<1>16. /\ noted' \in Noted /\ noted'.success = n
       /\ noted'.failure = noted.failure /\ noted'.since = noted.since
  BY <1>3, <1>7, <1>11 DEF Noted
<1>17. Owed(new)'
  <2>1. seals[n].completed <= ended
    BY <1>1, <1>3, <1>7, <1>8
  <2> QED
    BY <1>6, <1>7, <1>9, <1>11, <1>13, <1>16, <2>1 DEF Owed
<1>18. now' \in Nat /\ now <= now'
  BY <1>1, <1>3, <1>11
<1>19. NotedOK'
  <2>1. /\ NotedOK /\ noted.since \in Nat /\ noted.failure \in Nat
    BY <1>3 DEF ScopeIInv, RecordOK, Noted
  <2>2. noted.failure # 0 => Fits(noted.failure, noted.since)'
    BY <1>11, <1>18, <2>1, FitsOn DEF NotedOK
  <2> QED
    BY <1>3, <1>6, <1>11, <1>16, <1>18, <2>1, <2>2 DEF NotedOK, Bundle, Fits
<1>20. \A d \in Commands \ {c} : cmd[d].at # "backup"
  BY <1>4, <1>5 DEF BackupOK, Scope!InBackup
<1> QED
  BY <1>11, <1>13, <1>14, <1>15, <1>16, <1>17, <1>18, <1>19, <1>20, Idling, Recording

LEMMA Failing ==
  ASSUME ScopeIInv, NEW c \in Commands, Scope!Fail(c)
  PROVE  ScopeIInv'
<1>1. PICK n, start, ended, old :
        /\ n = cmd[c].archive /\ start = cmd[c].started /\ ended = now + 1
        /\ old = Scope!Stored
  OBVIOUS
<1>2. old \in Scope!Records /\ Good(old) /\ Owed(old)
  BY <1>1, StoredGood
<1>3. now \in Nat /\ count.runs \in Nat /\ noted \in Noted
  BY DEF ScopeIInv, ScopeTypeOK
<1>4. /\ cmd[c] \in Remembered /\ BackupOK(c) /\ LatestOK(c)
      /\ cmd[c].at = "backup"
  BY DEF ScopeIInv, ScopeTypeOK, Scope!Fail, Scope!Step
<1>5. Scope!InBackup(c)
  BY <1>4 DEF Scope!InBackup
<1>6. /\ n \in Scope!Runs /\ n = count.runs /\ Fits(n, start) /\ ~ Bundle(n)
      /\ start \in Nat /\ start <= now
  BY <1>1, <1>4, <1>5 DEF BackupOK, Remembered, Fits
<1>7. n \in Nat /\ ended \in Nat
  BY <1>1, <1>3, <1>6
<1> DEFINE attempt == Scope!Attempt(n, "FAILED", start, ended)
<1>8. /\ attempt \in Scope!Attempts /\ attempt # None
      /\ attempt.run = n /\ attempt.started = start
      /\ attempt.outcome = "FAILED"
  BY <1>6, <1>7, NothingRecorded DEF Scope!Attempts, Scope!Attempt,
     Scope!ScopeAssumption
<1>9. /\ UNCHANGED <<disk, seals, count>>
      /\ now' = ended
      /\ noted' = [noted EXCEPT !.failure = n, !.since = start]
      /\ Scope!Done(c)
  BY <1>1 DEF Scope!Fail
<1>10. PICK health \in {old.health, [at |-> ended, ok |-> FALSE]} :
         Scope!Update([old EXCEPT !.attempt = attempt, !.health = health])
  BY <1>1 DEF Scope!Fail
<1> DEFINE new == [old EXCEPT !.attempt = attempt, !.health = health]
<1> HIDE DEF attempt
<1>11. health \in Scope!Healths \cup {None}
  <2>1. [at |-> ended, ok |-> FALSE] \in Scope!Healths
    BY <1>7 DEF Scope!Healths
  <2>2. old.health \in Scope!Healths \cup {None}
    BY <1>2 DEF Scope!Records
  <2> QED
    BY <1>10, <2>1, <2>2
<1>12. /\ new \in Scope!Records /\ new.attempt = attempt /\ new.success = old.success
       /\ new.claim = old.claim
  BY <1>2, <1>8, <1>11 DEF Scope!Records
<1>13. Scope!Update(new)
  BY <1>10
<1> HIDE DEF new
(* It is refused when a forged success began later; so did what is         *)
(* recorded as the last attempt then, and that is forged too.              *)
<1>14. PICK result :
         /\ record' = result
         /\ \/ result = new /\ Scope!Valid(new)
            \/ result = old /\ record # None /\ ~ Scope!Valid(new)
  <2>1. record = None => Scope!Valid(new)
    BY <1>1, <1>12 DEF Scope!Stored, Scope!Fresh, Scope!Valid
  <2> QED
    BY <1>1, <1>13, <2>1 DEF Scope!Update, Scope!Stored
<1>15. ASSUME result = old, record # None, ~ Scope!Valid(new)
       PROVE  /\ old.attempt # None /\ start <= old.attempt.started
              /\ Scope!Forged(old.attempt)
  <2>1. old.success # None /\ ~ (start >= old.success.started)
    BY <1>8, <1>12, <1>15 DEF Scope!Valid
  <2>2. old.attempt # None /\ old.attempt.started >= old.success.started
    BY <1>2, <2>1 DEF Good, Scope!Valid
  <2>3. old.attempt.started \in Nat /\ old.success.started \in Nat
    BY <1>2, <2>1, <2>2 DEF Scope!Records, Scope!Attempts
  <2>4. start < old.attempt.started
    BY <1>6, <2>1, <2>2, <2>3
  <2>5. Scope!Forged(old.attempt)
    <3>1. old = record
      BY <1>1, <1>15 DEF Scope!Stored
    <3>2. Latest(old, start)
      BY <1>1, <1>4, <1>15, <3>1 DEF LatestOK
    <3> QED
      BY <1>6, <2>2, <2>3, <2>4, <3>2 DEF Latest
  <2> QED
    BY <1>6, <2>2, <2>3, <2>4, <2>5
<1>16. /\ result \in Scope!Records /\ Good(result)
       /\ result.success = old.success
       /\ result.attempt # None /\ start <= result.attempt.started
       /\ \/ Scope!Forged(result.attempt)
          \/ result.attempt.run = n /\ result.attempt.outcome = "FAILED"
  <2>1. CASE result = new /\ Scope!Valid(new)
    <3>1. Latest(result, now)
      BY <1>6, <1>8, <1>12, <2>1 DEF Latest
    <3> QED
      BY <1>2, <1>6, <1>8, <1>12, <2>1, <3>1 DEF Good
  <2>2. CASE result = old /\ record # None /\ ~ Scope!Valid(new)
    BY <1>2, <1>6, <1>15, <2>2
  <2> QED
    BY <1>14, <2>1, <2>2
<1>17. /\ noted' \in Noted /\ noted'.success = noted.success
       /\ noted'.failure = n /\ noted'.since = start
  BY <1>3, <1>6, <1>7, <1>9 DEF Noted
<1>18. Owed(result)'
  BY <1>2, <1>9, <1>16, <1>17 DEF Owed, Scope!Forged
<1>19. now' \in Nat /\ now <= now'
  BY <1>1, <1>3, <1>9
<1>20. NotedOK'
  <2>1. NotedOK
    BY DEF ScopeIInv, RecordOK
  <2>2. Fits(n, start)'
    BY <1>6, <1>7, <1>9, <1>19, FitsOn
  <2> QED
    BY <1>3, <1>6, <1>9, <1>17, <1>19, <2>1, <2>2 DEF NotedOK, Bundle, Fits
<1>21. \A d \in Commands \ {c} : cmd[d].at # "backup"
  BY <1>4, <1>5 DEF BackupOK, Scope!InBackup
<1> QED
  BY <1>5, <1>9, <1>14, <1>16, <1>17, <1>18, <1>19, <1>20, <1>21, Idling,
     Recording

(* A reconciliation never puts back what is newer: an archive that was     *)
(* completed after the recorded success is of a later run, and one that    *)
(* was taken after the recorded attempt began as well, unless its manifest *)
(* was edited.                                                             *)
LEMMA Reconciled ==
  ASSUME ScopeIInv, NEW c \in Commands, Scope!RecordReconciled(c)
  PROVE  ScopeIInv'
<1>1. PICK a, manifest, old, claim, proved, health :
        /\ a = cmd[c].archive /\ manifest = cmd[c].seal
        /\ old = Scope!Stored /\ claim = Scope!Claim(c)
        /\ proved = Scope!Reconstructed(a, manifest)
        /\ health = Scope!Restored(old, manifest)
  OBVIOUS
<1>2. old \in Scope!Records /\ Good(old) /\ Owed(old)
  BY <1>1, StoredGood
<1>3. /\ now \in Nat /\ count.runs \in Nat /\ noted \in Noted /\ NotedOK /\ SealsOK
      /\ seals \in [Scope!Runs -> Scope!Manifests \cup {None}]
  BY DEF ScopeIInv, ScopeTypeOK, RecordOK
<1>4. /\ cmd[c] \in Remembered /\ WorkOK(c) /\ cmd[c].at = "reconciled"
      /\ manifest.completed # None
  BY <1>1 DEF ScopeIInv, ScopeTypeOK, Scope!RecordReconciled, Scope!Step
<1>5. /\ a \in Scope!Runs /\ Bundle(a) /\ cmd[c].todo # <<>>
      /\ manifest \in Scope!Manifests /\ manifest # None
      /\ manifest.edited \/ manifest = seals[a]
  BY <1>1, <1>4, NothingRecorded DEF WorkOK, Scope!ScopeAssumption
<1>6. manifest.completed \in Nat /\ manifest.taken \in Nat /\ a \in Nat
  BY <1>4, <1>5 DEF Scope!Manifests, Scope!Runs
<1>7. claim \in Scope!Claims /\ (claim.overtaken \/ claim.seal = claim.judged)
  BY <1>1, <1>4, <1>5, ClaimIsRight
<1>8. health \in Scope!Healths \cup {None}
  <2>1. [at |-> manifest.taken, ok |-> TRUE] \in Scope!Healths
    BY <1>6 DEF Scope!Healths
  <2>2. health \in {[at |-> manifest.taken, ok |-> TRUE], old.health}
    BY <1>1 DEF Scope!Restored
  <2> QED
    BY <1>2, <2>1, <2>2 DEF Scope!Records
<1>9. /\ proved \in Scope!Attempts /\ proved # None /\ proved.run = a
      /\ proved.ended = manifest.completed /\ proved.started \in Nat
      /\ proved.started <= proved.ended
      /\ Scope!Forged(proved) <=> manifest.edited
  <2> DEFINE start == IF manifest.taken \in 1..manifest.completed
                        THEN manifest.taken ELSE manifest.completed
  <2>1. start \in Nat /\ start <= manifest.completed
    BY <1>6
  <2>2. proved = [run |-> a, outcome |-> "SUCCEEDED", started |-> start,
                ended |-> manifest.completed, of |-> manifest]
    BY <1>1 DEF Scope!Reconstructed
  <2> HIDE DEF start
  <2>3. proved \in Scope!Attempts
    BY <1>5, <1>6, <2>1, <2>2 DEF Scope!Attempts
  <2> QED
    BY <1>5, <2>1, <2>2, <2>3, NothingRecorded DEF Scope!Forged, Scope!ScopeAssumption
(* What an unedited manifest tells is true.                                *)
<1>10. ASSUME ~ Scope!Forged(proved)
       PROVE  /\ proved.started = seals[a].taken /\ proved.ended = seals[a].completed
              /\ proved.ended <= now
  <2>1. manifest = seals[a] /\ 1 <= manifest.taken /\ manifest.taken <= manifest.completed
    BY <1>3, <1>5, <1>9, <1>10 DEF SealsOK
  <2>2. manifest.taken \in 1..manifest.completed
    BY <1>6, <2>1
  <2> QED
    BY <1>1, <1>3, <1>5, <1>9, <2>1, <2>2 DEF Scope!Reconstructed, SealsOK
<1> DEFINE known == [old EXCEPT !.claim = claim, !.health = health]
           latest == IF old.attempt = None THEN proved
                     ELSE IF old.attempt.started < proved.started THEN proved
                     ELSE old.attempt
<1>11. /\ UNCHANGED <<now, disk, seals, noted, count>>
       /\ Scope!NextArchive(c)
       /\ \/ Scope!Update(known)
          \/ /\ Scope!Supersedes(old, manifest)
             /\ Scope!Update([known EXCEPT !.success = proved, !.attempt = latest])
  <2> DEFINE more == [known EXCEPT !.success = proved, !.attempt = latest]
  <2>1. /\ UNCHANGED <<now, disk, seals, noted, count>>
        /\ Scope!NextArchive(c)
        /\ Scope!Update(IF ~ (cmd[c].proven /\ Scope!Supersedes(old, manifest))
                          THEN known ELSE more)
    BY <1>1, <1>2 DEF Scope!RecordReconciled, Scope!Unchanged, Scope!Records
  <2> HIDE DEF more, known
  <2> QED
    BY <2>1 DEF more
<1>12. /\ known \in Scope!Records /\ known.attempt = old.attempt
       /\ known.success = old.success /\ known.claim = claim
  BY <1>2, <1>7, <1>8 DEF Scope!Records
<1>13. Good(known) /\ Owed(known)
  BY <1>2, <1>7, <1>12 DEF Good, Owed, Scope!Valid, Latest
<1>14. CASE Scope!Update(known)
  <2>1. record' = known
    BY <1>13, <1>14 DEF Scope!Update, Good
  <2> QED
    BY <1>1, <1>5, <1>11, <1>12, <1>13, <2>1, Rest, LatestStays, Adding
<1>15. CASE /\ Scope!Supersedes(old, manifest)
            /\ Scope!Update([known EXCEPT !.success = proved, !.attempt = latest])
  <2> DEFINE new == [known EXCEPT !.success = proved, !.attempt = latest]
  <2>1. /\ latest \in Scope!Attempts /\ latest # None /\ latest.started \in Nat
        /\ proved.started <= latest.started
        /\ \/ /\ latest = proved
              /\ old.attempt = None \/ old.attempt.started < proved.started
           \/ /\ latest = old.attempt
              /\ old.attempt # None
    <3>1. old.attempt # None => old.attempt \in Scope!Attempts /\ old.attempt.started \in Nat
      BY <1>2 DEF Scope!Records, Scope!Attempts
    <3>2. CASE old.attempt = None
      BY <1>9, <3>2
    <3>3. CASE old.attempt # None /\ old.attempt.started < proved.started
      BY <1>9, <3>3
    <3>4. CASE old.attempt # None /\ ~ (old.attempt.started < proved.started)
      BY <1>9, <3>1, <3>4
    <3> QED
      BY <3>2, <3>3, <3>4
  <2> HIDE DEF latest, known
  <2>2. /\ new \in Scope!Records /\ new.attempt = latest /\ new.success = proved
        /\ new.claim = claim
    BY <1>7, <1>9, <1>12, <2>1 DEF Scope!Records
  <2> HIDE DEF new
  <2>3. Scope!Valid(new)
    BY <1>9, <2>1, <2>2 DEF Scope!Valid
  <2>4. ~ Scope!Forged(proved) => proved.started <= now
    BY <1>3, <1>6, <1>9, <1>10
  <2>5. Good(new)
    <3>1. Latest(new, now)
      BY <1>2, <2>1, <2>2, <2>4 DEF Good, Latest
    <3> QED
      BY <1>6, <1>7, <1>9, <2>1, <2>2, <2>3, <3>1 DEF Good
  <2>6. \A d \in Commands : cmd[d].at = "backup" => Latest(new, cmd[d].started)
    <3> SUFFICES ASSUME NEW d \in Commands, cmd[d].at = "backup"
                 PROVE  Latest(new, cmd[d].started)
      OBVIOUS
    <3>1. latest = old.attempt => Latest(new, cmd[d].started)
      <4>1. Latest(old, cmd[d].started) \/ record = None
        BY <1>1 DEF ScopeIInv, LatestOK, Scope!Stored
      <4>2. record = None => old.attempt = None
        BY <1>1 DEF Scope!Stored, Scope!Fresh
      <4> QED
        BY <2>1, <2>2, <4>1, <4>2 DEF Latest
    <3>2. ASSUME latest = proved, ~ Scope!Forged(proved)
          PROVE  proved.started <= cmd[d].started
      <4>1. /\ cmd[d].started \in Nat /\ Fits(cmd[d].archive, cmd[d].started)
            /\ cmd[d].archive = count.runs /\ ~ Bundle(cmd[d].archive)
        BY DEF ScopeIInv, ScopeTypeOK, Remembered, BackupOK, Scope!InBackup
      <4>2. a < cmd[d].archive
        BY <1>3, <1>5, <1>6, <4>1 DEF SealsOK
      <4>3. proved.ended < cmd[d].started
        BY <1>5, <1>10, <3>2, <4>1, <4>2 DEF Fits
      <4> QED
        BY <1>6, <1>9, <4>1, <4>3
    <3> QED
      BY <2>1, <2>2, <3>1, <3>2 DEF Latest
  <2>7. Owed(new)
    <3>1. ASSUME noted.success # 0
          PROVE  /\ seals[noted.success].completed <= proved.ended
                 /\ Scope!Forged(proved) \/ noted.success <= proved.run
      <4> DEFINE n == noted.success
      <4>1. /\ n \in Scope!Runs /\ Bundle(n) /\ n \in Nat
            /\ seals[n].completed \in Nat /\ seals[n].taken \in Nat
            /\ seals[n].taken <= seals[n].completed
        BY <1>3, <3>1 DEF NotedOK, Noted, SealsOK, Scope!Manifests, Bundle
      <4>2. /\ old.success # None /\ seals[n].completed <= old.success.ended
            /\ old.success.ended \in Nat
        BY <1>2, <3>1 DEF Owed, Good
      <4>3. proved.ended > old.success.ended
        BY <1>9, <1>15, <4>2 DEF Scope!Supersedes
      <4>4. seals[n].completed < proved.ended
        BY <1>6, <1>9, <4>1, <4>2, <4>3
      <4>5. ~ Scope!Forged(proved) => ~ (a < n)
        <5>1. a < n => seals[a].completed < seals[n].taken
          BY <1>3, <1>5, <4>1 DEF SealsOK
        <5> QED
          BY <1>6, <1>9, <1>10, <4>1, <4>4, <5>1
      <4> QED
        BY <1>6, <1>9, <4>1, <4>4, <4>5
    <3>2. ASSUME noted.failure # 0
          PROVE  /\ noted.since <= latest.started
                 /\ \/ Scope!Forged(latest)
                    \/ noted.failure < latest.run
                    \/ noted.failure = latest.run /\ latest.outcome = "FAILED"
      <4>1. /\ old.attempt # None /\ noted.since <= old.attempt.started
            /\ old.attempt.started \in Nat /\ noted.since \in Nat
        BY <1>2, <1>3, <3>2 DEF Owed, Scope!Records, Scope!Attempts, Noted
      <4>2. CASE latest = old.attempt
        BY <1>2, <3>2, <4>1, <4>2 DEF Owed
      <4>3. CASE latest = proved /\ old.attempt.started < proved.started
        <5>1. noted.since < proved.started
          BY <1>9, <4>1, <4>3
        <5>2. ASSUME ~ Scope!Forged(proved)
              PROVE  noted.failure < a
          <6>1. /\ Fits(noted.failure, noted.since) /\ ~ Bundle(noted.failure)
                /\ noted.failure \in Nat
            BY <1>3, <3>2 DEF NotedOK, Noted
          <6>2. a < noted.failure => seals[a].completed < noted.since
            BY <1>5, <6>1 DEF Fits
          <6>3. ~ (a < noted.failure)
            BY <1>6, <1>9, <1>10, <4>1, <5>1, <5>2, <6>2
          <6>4. a # noted.failure
            BY <1>5, <6>1
          <6> QED
            BY <1>6, <6>1, <6>3, <6>4
        <5> QED
          BY <1>9, <4>1, <4>3, <5>1, <5>2
      <4> QED
        BY <2>1, <4>1, <4>2, <4>3
    <3> QED
      BY <1>9, <2>1, <2>2, <3>1, <3>2 DEF Owed
  <2>8. record' = new
    BY <1>15, <2>3 DEF Scope!Update, new
  <2> QED
    BY <1>5, <1>11, <2>2, <2>5, <2>6, <2>7, <2>8, Rest, Adding
<1> QED
  BY <1>11, <1>14, <1>15

-----------------------------------------------------------------------------
(* A run publishes: its bundle is the newest, and nobody knew of it.       *)
LEMMA Publishing ==
  ASSUME ScopeIInv, NEW c \in Commands, Scope!Publish(c)
  PROVE  ScopeIInv'
<1>1. PICK n, manifest :
        /\ n = cmd[c].archive
        /\ manifest = [edited |-> FALSE, taken |-> now + 1, completed |-> now + 2]
  OBVIOUS
<1>2. /\ now \in Nat /\ count.runs \in Nat /\ noted \in Noted
      /\ seals \in [Scope!Runs -> Scope!Manifests \cup {None}]
      /\ disk \in [Scope!Runs -> Content]
  BY DEF ScopeIInv, ScopeTypeOK
<1>3. cmd[c] \in Remembered /\ BackupOK(c) /\ WorkOK(c) /\ cmd[c].at = "backup"
  BY DEF ScopeIInv, ScopeTypeOK, Scope!Publish, Scope!Step
<1>4. Scope!InBackup(c)
  BY <1>3 DEF Scope!InBackup
<1>5. /\ n \in Scope!Runs /\ n = count.runs /\ Fits(n, cmd[c].started) /\ ~ Bundle(n)
      /\ noted.failure < n /\ noted.since <= cmd[c].started /\ cmd[c].started \in Nat
      /\ \A d \in Commands : Scope!InBackup(d) => d = c
  BY <1>1, <1>3, <1>4 DEF BackupOK, Remembered
<1>6. /\ now' = now + 2
      /\ disk' = [disk EXCEPT ![n] = [seal |-> manifest, sound |-> TRUE]]
      /\ seals' = [seals EXCEPT ![n] = manifest]
      /\ cmd' = [cmd EXCEPT ![c].at = "published", ![c].proven = TRUE,
                            ![c].judged = manifest]
      /\ UNCHANGED <<record, noted, count>>
  BY <1>1 DEF Scope!Publish
<1>7. manifest \in Scope!Manifests /\ manifest # None
  <2>1. manifest \in Scope!Manifests
    BY <1>1, <1>2 DEF Scope!Manifests
  <2> QED
    BY <2>1, NothingRecorded DEF Scope!ScopeAssumption
<1>8. [seal |-> manifest, sound |-> TRUE] \in Content
  BY <1>7 DEF Content
<1>9. \A a \in Scope!Runs : a # n => seals'[a] = seals[a] /\ disk'[a] = disk[a]
  BY <1>2, <1>6
<1>10. /\ seals'[n] = manifest /\ disk'[n].seal = manifest
       /\ Bundle(n)' /\ ~ manifest.edited
       /\ seals'[n].taken = now + 1 /\ seals'[n].completed = now + 2
  BY <1>1, <1>2, <1>5, <1>6, <1>7 DEF Bundle
<1>11. \A a \in Scope!Runs : Bundle(a) => a < n /\ a # n /\ seals[a].completed <= now
                                   /\ seals[a].completed \in Nat
  <2>1. \A a \in Scope!Runs : Bundle(a) => seals[a].completed \in Nat /\ a \in Int
    BY DEF ScopeIInv, SealsOK, Scope!Runs
  <2>2. \A a \in Scope!Runs : Bundle(a) => a <= count.runs /\ seals[a].completed <= now
    BY DEF ScopeIInv, SealsOK
  <2> QED
    BY <1>2, <1>5, <2>1, <2>2
<1>12. SealsOK'
  <2> SUFFICES ASSUME NEW a \in Scope!Runs
               PROVE  /\ disk'[a] # None => Bundle(a)'
                      /\ Scope!HasManifest(a)' =>
                           disk'[a].seal.edited \/ disk'[a].seal = seals'[a]
                      /\ Bundle(a)' =>
                           /\ a <= count.runs
                           /\ ~ seals'[a].edited
                           /\ seals'[a].completed \in Nat
                           /\ 1 <= seals'[a].taken
                           /\ seals'[a].taken <= seals'[a].completed
                           /\ seals'[a].completed <= now'
                           /\ \A b \in Scope!Runs : Bundle(b)' /\ a < b =>
                                seals'[a].completed < seals'[b].taken
    BY <1>6 DEF SealsOK, Bundle
  <2>1. CASE a = n
    <3>1. \A b \in Scope!Runs : Bundle(b)' => ~ (n < b)
      BY <1>2, <1>5, <1>9, <1>11 DEF Bundle, Scope!Runs
    <3> QED
      BY <1>2, <1>5, <1>6, <1>10, <2>1, <3>1 DEF Bundle
  <2>2. CASE a # n
    <3>1. SealsOK
      BY DEF ScopeIInv
    <3>2. /\ disk'[a] # None => Bundle(a)'
          /\ Scope!HasManifest(a)' => disk'[a].seal.edited \/ disk'[a].seal = seals'[a]
      BY <1>9, <2>2, <3>1 DEF SealsOK, Bundle, Scope!HasManifest
    <3>3. ASSUME Bundle(a)'
          PROVE  /\ a <= count.runs
                 /\ ~ seals'[a].edited
                 /\ seals'[a].completed \in Nat
                 /\ 1 <= seals'[a].taken
                 /\ seals'[a].taken <= seals'[a].completed
                 /\ seals'[a].completed <= now'
                 /\ \A b \in Scope!Runs : Bundle(b)' /\ a < b =>
                      seals'[a].completed < seals'[b].taken
      <4>1. Bundle(a)
        BY <1>9, <2>2, <3>3 DEF Bundle
      <4>2. \A b \in Scope!Runs : Bundle(b)' /\ a < b => seals'[a].completed < seals'[b].taken
        <5> SUFFICES ASSUME NEW b \in Scope!Runs, Bundle(b)', a < b
                     PROVE  seals'[a].completed < seals'[b].taken
          OBVIOUS
        <5>1. CASE b = n
          BY <1>2, <1>9, <1>10, <1>11, <2>2, <4>1, <5>1
        <5>2. CASE b # n
          BY <1>9, <2>2, <3>1, <4>1, <5>2 DEF SealsOK, Bundle
        <5> QED
          BY <5>1, <5>2
      <4>3. /\ a <= count.runs /\ seals[a].taken <= seals[a].completed
            /\ ~ seals[a].edited /\ seals[a].completed \in Nat /\ 1 <= seals[a].taken
        BY <3>1, <4>1 DEF SealsOK
      <4>4. seals'[a].completed <= now'
        BY <1>2, <1>6, <1>9, <1>11, <2>2, <4>1
      <4> QED
        BY <1>9, <2>2, <4>2, <4>3, <4>4
    <3> QED
      BY <3>2, <3>3
  <2> QED
    BY <2>1, <2>2
(* What was said of earlier runs still fits, and of this one fits now.     *)
<1>13. ASSUME NEW m \in Nat, NEW s \in Nat, Fits(m, s)
       PROVE  Fits(m, s)'
  <2>1. m <= n /\ m \in 1..count.runs /\ s <= now
    BY <1>2, <1>5, <1>13 DEF Fits
  <2>2. s <= seals'[n].taken /\ ~ (n < m) /\ s <= now'
    BY <1>2, <1>5, <1>6, <1>10, <2>1
  <2>3. \A a \in Scope!Runs \ {n} : Bundle(a)' => IF a < m THEN seals'[a].completed < s
                                                      ELSE s <= seals'[a].taken
    BY <1>9, <1>13 DEF Fits, Bundle
  <2> QED
    BY <1>6, <2>1, <2>2, <2>3 DEF Fits
<1>14. RecordOK'
  <2>1. ASSUME record # None PROVE Good(record)'
    <3>1. /\ Good(record)
          /\ record.attempt # None => record.attempt.started \in Nat
      BY <2>1, RecordFits DEF Scope!Attempts
    <3> QED
      BY <1>2, <1>6, <3>1 DEF Good, Scope!Valid, Latest, Scope!Forged
  <2>2. NotedOK /\ noted.since \in Nat /\ noted.failure \in Nat
    BY <1>2 DEF ScopeIInv, RecordOK, Noted
  <2>3. noted.success # 0 => /\ seals'[noted.success] = seals[noted.success]
                             /\ Bundle(noted.success)'
    BY <1>5, <1>6, <1>9, <2>2 DEF NotedOK, Bundle
  <2>4. record # None => Owed(record)'
    BY <1>6, <2>3, RecordFits DEF Owed, Scope!Forged
  <2>5. NotedOK'
    <3>1. noted.failure # 0 => Fits(noted.failure, noted.since)'
      <4>1. PICK m, since : m = noted.failure /\ since = noted.since
        OBVIOUS
      <4>2. noted.failure # 0 => Fits(m, since)'
        BY <1>13, <2>2, <4>1 DEF NotedOK
      <4> QED
        BY <1>6, <4>1, <4>2 DEF Fits
    <3>2. noted.failure # n
      BY <1>2, <1>5
    <3> QED
      BY <1>2, <1>6, <1>9, <2>2, <2>3, <3>1, <3>2 DEF NotedOK, Bundle, Fits
  <2> QED
    BY <1>6, <2>1, <2>4, <2>5 DEF ScopeIInv, RecordOK
<1>15. cmd'[c] = [cmd[c] EXCEPT !.at = "published", !.proven = TRUE, !.judged = manifest]
  BY <1>6 DEF ScopeIInv, ScopeTypeOK
<1>16. cmd'[c] \in Remembered
  BY <1>3, <1>7, <1>15 DEF Remembered, Places
<1>17. /\ cmd'[c].at = "published" /\ cmd'[c].archive = n /\ cmd'[c].judged = manifest
       /\ cmd'[c].started = cmd[c].started
  BY <1>1, <1>3, <1>15 DEF Remembered
<1>18. \A d \in Commands : d # c => cmd'[d] = cmd[d] /\ ~ Scope!InBackup(d)'
  BY <1>5, <1>6 DEF Scope!InBackup, ScopeIInv, ScopeTypeOK
<1>19. WorkOK(c)'
  BY <1>10, <1>17 DEF WorkOK
<1>20. BackupOK(c)'
  <2>1. Fits(cmd[c].archive, cmd[c].started)'
    <3>1. PICK start : start = cmd[c].started
      OBVIOUS
    <3>2. Fits(n, start)'
      BY <1>2, <1>5, <1>13, <3>1
    <3> QED
      BY <1>17, <3>1, <3>2 DEF Fits
  <2> QED
    BY <1>5, <1>6, <1>10, <1>17, <1>18, <2>1 DEF BackupOK
<1>21. \A d \in Commands : d # c => BackupOK(d)' /\ WorkOK(d)' /\ LatestOK(d)'
  <2> SUFFICES ASSUME NEW d \in Commands, d # c
               PROVE  BackupOK(d)' /\ WorkOK(d)' /\ LatestOK(d)'
    OBVIOUS
  <2>1. WorkOK(d) /\ ~ Scope!InBackup(d) /\ ~ Scope!InBackup(d)' /\ cmd'[d] = cmd[d]
    BY <1>5, <1>18 DEF ScopeIInv
  <2>2. cmd[d].at \in {"judged", "known", "verified", "sealed", "reconciled"} =>
          /\ cmd[d].archive \in Scope!Runs /\ cmd[d].archive # n
          /\ Bundle(cmd[d].archive)'
          /\ disk'[cmd[d].archive] = disk[cmd[d].archive]
          /\ seals'[cmd[d].archive] = seals[cmd[d].archive]
    BY <1>5, <1>9, <2>1 DEF WorkOK, Bundle
  <2> QED
    BY <2>1, <2>2 DEF BackupOK, WorkOK, LatestOK, Scope!InBackup, Bundle
<1>22. ScopeTypeOK'
  <2>1. cmd' \in [Commands -> Remembered]
    BY <1>6, <1>16 DEF ScopeIInv, ScopeTypeOK
  <2>2. /\ disk' \in [Scope!Runs -> Content]
        /\ seals' \in [Scope!Runs -> Scope!Manifests \cup {None}]
    BY <1>2, <1>6, <1>7, <1>8
  <2> QED
    BY <1>2, <1>6, <2>1, <2>2 DEF ScopeIInv, ScopeTypeOK
<1>23. LatestOK(c)'
  BY <1>17 DEF LatestOK
<1> QED
  BY <1>12, <1>14, <1>19, <1>20, <1>21, <1>22, <1>23 DEF ScopeIInv

(* What the owner puts at the path of an archive: its manifest is edited,  *)
(* or as it was sealed.                                                    *)
LEMMA ContentsFit ==
  ASSUME ScopeIInv, NEW a \in Scope!Runs, Bundle(a), NEW what \in Scope!Contents(a)
  PROVE  /\ what \in Content
         /\ what # None /\ what.seal # None =>
              what.seal.edited \/ what.seal = seals[a]
<1>1. seals[a] \in Scope!Manifests
  BY DEF ScopeIInv, ScopeTypeOK, Bundle
<1>2. ASSUME NEW m \in Scope!Edited(a)
      PROVE  m \in Scope!Manifests /\ m.edited
  BY <1>1, <1>2, NothingRecorded DEF Scope!Edited, Scope!Manifests,
     Scope!ScopeAssumption
<1>3. what = None \/ what \in [seal : Scope!Manifests \cup {None}, sound : BOOLEAN]
  <2>1. {seals[a]} \union Scope!Edited(a) \subseteq Scope!Manifests
    BY <1>1, <1>2
  <2>2. CASE what \in [seal : {seals[a]} \union Scope!Edited(a), sound : BOOLEAN]
    BY <2>1, <2>2
  <2>3. CASE what = [seal |-> None, sound |-> FALSE]
    BY <2>3
  <2> QED
    BY <2>2, <2>3 DEF Scope!Contents
<1>4. ASSUME what \in [seal : {seals[a]} \union Scope!Edited(a), sound : BOOLEAN]
      PROVE  what.seal.edited \/ what.seal = seals[a]
  BY <1>2, <1>4
<1>5. ASSUME what = [seal |-> None, sound |-> FALSE]
      PROVE  what.seal = None
  BY <1>5
<1> QED
  BY <1>3, <1>4, <1>5 DEF Scope!Contents, Content

(* Whoever has half seen what the owner changes is overtaken.              *)
LEMMA Changing ==
  ASSUME ScopeIInv, Scope!Change
  PROVE  ScopeIInv'
<1>0. PICK a \in {n \in Scope!Runs : seals[n] # None} :
        \E what \in Scope!Contents(a) :
          /\ count' = [count EXCEPT !.changes = @ + 1]
          /\ disk' = [disk EXCEPT ![a] = what]
          /\ cmd' = [c \in Commands |->
                       IF cmd[c].archive = a /\ Scope!HalfSeen(c)
                         THEN [cmd[c] EXCEPT !.overtaken = TRUE] ELSE cmd[c]]
          /\ UNCHANGED <<now, seals, record, noted>>
  BY DEF Scope!Change
<1>1. PICK what \in Scope!Contents(a) :
        /\ a \in Scope!Runs /\ Bundle(a)
        /\ count' = [count EXCEPT !.changes = @ + 1]
        /\ disk' = [disk EXCEPT ![a] = what]
        /\ cmd' = [c \in Commands |->
                     IF cmd[c].archive = a /\ Scope!HalfSeen(c)
                       THEN [cmd[c] EXCEPT !.overtaken = TRUE] ELSE cmd[c]]
        /\ UNCHANGED <<now, seals, record, noted>>
  BY <1>0 DEF Bundle
<1>2. /\ now \in Nat /\ now' = now /\ count'.runs = count.runs
      /\ count' \in [runs : Nat, refreshes : Nat, changes : Nat, losses : Nat]
  BY <1>1 DEF ScopeIInv, ScopeTypeOK
<1>3. SealsOK'
  <2>1. /\ what \in Content
        /\ what # None /\ what.seal # None =>
             what.seal.edited \/ what.seal = seals[a]
    BY <1>1, ContentsFit
  <2>2. /\ disk'[a] = what
        /\ \A b \in Scope!Runs \ {a} : disk'[b] = disk[b]
    BY <1>1 DEF ScopeIInv, ScopeTypeOK
  <2> QED
    BY <1>1, <1>2, <2>1, <2>2 DEF ScopeIInv, SealsOK, Bundle, Scope!HasManifest
<1>4. RecordOK'
  <2>1. record # None => Good(record)' /\ Owed(record)'
    BY <1>1, <1>2, RecordFits DEF Good, Owed, Scope!Valid, Latest, Scope!Forged
  <2>2. NotedOK'
    BY <1>1, <1>2, NotedStays
  <2> QED
    BY <1>1, <2>1, <2>2 DEF ScopeIInv, RecordOK
<1>5. \A c \in Commands :
        /\ cmd'[c] \in Remembered
        /\ cmd'[c].at = cmd[c].at /\ cmd'[c].archive = cmd[c].archive
        /\ cmd'[c].seal = cmd[c].seal /\ cmd'[c].judged = cmd[c].judged
        /\ cmd'[c].started = cmd[c].started /\ cmd'[c].todo = cmd[c].todo
        /\ ~ cmd'[c].overtaken =>
              /\ ~ cmd[c].overtaken
              /\ cmd[c].archive # a \/ ~ Scope!HalfSeen(c)
  <2> SUFFICES ASSUME NEW c \in Commands
               PROVE  /\ cmd'[c] \in Remembered
                      /\ cmd'[c].at = cmd[c].at /\ cmd'[c].archive = cmd[c].archive
                      /\ cmd'[c].seal = cmd[c].seal /\ cmd'[c].judged = cmd[c].judged
                      /\ cmd'[c].started = cmd[c].started /\ cmd'[c].todo = cmd[c].todo
                      /\ ~ cmd'[c].overtaken =>
                            /\ ~ cmd[c].overtaken
                            /\ cmd[c].archive # a \/ ~ Scope!HalfSeen(c)
    OBVIOUS
  <2>1. cmd[c] \in Remembered
    BY DEF ScopeIInv, ScopeTypeOK
  <2>2. CASE cmd[c].archive = a /\ Scope!HalfSeen(c)
    BY <1>1, <2>1, <2>2 DEF Remembered
  <2>3. CASE ~ (cmd[c].archive = a /\ Scope!HalfSeen(c))
    BY <1>1, <2>1, <2>3
  <2> QED
    BY <2>2, <2>3
<1>6. \A c \in Commands : BackupOK(c)' /\ LatestOK(c)'
  BY <1>1, <1>2, <1>5 DEF ScopeIInv, BackupOK, LatestOK, Latest, Scope!Forged,
     Scope!InBackup, Fits, Bundle
<1>7. \A c \in Commands : WorkOK(c)'
  <2> SUFFICES ASSUME NEW c \in Commands PROVE WorkOK(c)'
    OBVIOUS
  <2>1. WorkOK(c) /\ BackupOK(c)
    BY DEF ScopeIInv
  <2>2. cmd[c].at \in {"judged", "known", "published", "sealed"} => cmd[c].archive \in Scope!Runs
    BY <2>1 DEF WorkOK, BackupOK, Scope!InBackup
  <2>3. ~ cmd'[c].overtaken /\ cmd[c].at \in {"judged", "known", "published", "sealed"} =>
          disk'[cmd[c].archive] = disk[cmd[c].archive]
    BY <1>1, <1>5, <2>2 DEF ScopeIInv, ScopeTypeOK, Scope!HalfSeen
  <2> QED
    BY <1>1, <1>5, <2>1, <2>3 DEF WorkOK, Bundle
<1>8. ScopeTypeOK'
  <2>1. cmd' \in [Commands -> Remembered]
    BY <1>1, <1>5
  <2> QED
    BY <1>1, <1>2, <2>1, ContentsFit DEF ScopeIInv, ScopeTypeOK
<1> QED
  BY <1>3, <1>4, <1>6, <1>7, <1>8 DEF ScopeIInv

LEMMA Losing ==
  ASSUME ScopeIInv, Scope!Lose
  PROVE  ScopeIInv'
<1>1. /\ record' = None
      /\ noted' = [success |-> 0, failure |-> 0, since |-> 0]
      /\ count' = [count EXCEPT !.losses = @ + 1]
      /\ UNCHANGED <<now, disk, seals, cmd>>
  BY DEF Scope!Lose
<1>2. /\ now \in Nat /\ count.runs \in Nat /\ count'.runs = count.runs
      /\ count' \in [runs : Nat, refreshes : Nat, changes : Nat, losses : Nat]
  BY <1>1 DEF ScopeIInv, ScopeTypeOK
<1>3. SealsOK'
  BY <1>1, <1>2 DEF ScopeIInv, SealsOK, Bundle, Scope!HasManifest
<1>4. RecordOK'
  BY <1>1, <1>2 DEF RecordOK, NotedOK
<1>5. \A c \in Commands : WorkOK(c)' /\ LatestOK(c)'
  BY <1>1 DEF ScopeIInv, WorkOK, LatestOK, Bundle
<1>6. \A c \in Commands : BackupOK(c)'
  <2>1. \A c \in Commands :
          /\ Scope!InBackup(c) => cmd[c].archive \in Scope!Runs /\ 0 < cmd[c].archive
          /\ 0 <= cmd[c].started
    BY DEF ScopeIInv, ScopeTypeOK, Remembered, BackupOK, Scope!Runs
  <2> QED
    BY <1>1, <1>2, <2>1 DEF ScopeIInv, BackupOK, Scope!InBackup, Fits, Bundle
<1>7. ScopeTypeOK'
  BY <1>1, <1>2 DEF ScopeIInv, ScopeTypeOK, Noted
<1> QED
  BY <1>3, <1>4, <1>5, <1>6, <1>7 DEF ScopeIInv

LEMMA ScopeConsecution ==
  ASSUME ScopeIInv, [Scope!Next]_scopeVars
  PROVE  ScopeIInv'
<1>1. CASE UNCHANGED scopeVars
  BY <1>1 DEF scopeVars, ScopeIInv, ScopeTypeOK, SealsOK, BackupOK, WorkOK,
     LatestOK, Latest, Scope!InBackup, Scope!HasManifest, Scope!Forged,
     RecordOK, NotedOK, Good, Owed, Scope!Valid, Fits, Bundle
<1>2. CASE Scope!Next
  BY <1>2, Beginning, Publishing, Waiting, Succeeding, Failing, Reading, Adds,
     Reconciling, Reconciled, Changing, Losing DEF Scope!Next
<1> QED
  BY <1>1, <1>2

LEMMA PresentFollows == ScopeIInv => PresentIsProven
<1> SUFFICES ASSUME ScopeIInv, record # None, record.claim # None,
                    ~ record.claim.overtaken,
                    Scope!InspectArchive(record.claim) = "PRESENT"
             PROVE  disk[record.claim.archive].seal = record.claim.judged
  BY DEF PresentIsProven, Scope!PresentIsProven
<1>1. record.claim.seal = record.claim.judged
  BY RecordFits DEF Good
<1> QED
  BY <1>1 DEF Scope!InspectArchive

LEMMA NewerFollows == ScopeIInv => NewerIsKept
<1> SUFFICES ASSUME ScopeIInv PROVE NewerIsKept
  OBVIOUS
<1>1. noted.success # 0 \/ noted.failure # 0 => record # None /\ Owed(record)
  BY DEF ScopeIInv, RecordOK
<1>2. /\ noted \in Noted
      /\ record # None /\ record.attempt # None => record.attempt.run \in Nat
      /\ record # None /\ record.success # None => record.success.run \in Nat
  BY RecordFits DEF Scope!Attempts
<1>3. ASSUME noted.success # 0
      PROVE  /\ record.success # None
             /\ record.success.run >= noted.success \/ Scope!Forged(record.success)
  BY <1>1, <1>2, <1>3 DEF Owed, Noted
<1>4. ASSUME noted.failure # 0, record.attempt.run <= noted.failure,
             ~ Scope!Forged(record.attempt)
      PROVE  record.attempt.outcome = "FAILED" /\ Scope!Status = "ATTENTION"
  <2>1. record # None /\ record.attempt # None /\ record.attempt.outcome = "FAILED"
    BY <1>1, <1>2, <1>4 DEF Owed, Noted
  <2> QED
    BY <2>1 DEF Scope!Status, Scope!Attention
<1> QED
  BY <1>3, <1>4 DEF NewerIsKept, Scope!NewerIsKept

LEMMA ScopeKept ==
  ASSUME ScopeIInv, [HostNext]_hostVars
  PROVE  ScopeIInv'
<1>1. CASE UNCHANGED scopeVars
  BY <1>1, ScopeConsecution
<1>2. CASE Scope!Next
  BY <1>2, ScopeConsecution
<1> QED
  BY <1>1, <1>2 DEF HostNext, StoreStep, ScopeStep, CredentialStep, NotifyStep,
                    ScheduleStep, hostVars

(* An archive that status calls present is the one that was verified: its  *)
(* manifest is the one the record was given when the archive was judged,   *)
(* whoever records what at the same time and whatever the owner does to    *)
(* the archives, unless an archive was changed between the two readings of *)
(* one command (InspectArchive at src/internal/state/archive.go).          *)
THEOREM PresentCorrect == HostSpec => []PresentIsProven
<1>1. HostInit => ScopeIInv
  BY ScopeInitially DEF HostInit
<1>2. ScopeIInv /\ [HostNext]_hostVars => ScopeIInv'
  BY ScopeKept
<1> QED
  BY <1>1, <1>2, PresentFollows, PTL DEF HostSpec

(* No record of a success or a failure takes the place of a newer one, for *)
(* backups, verifications, reconciliations and refreshes of any number of  *)
(* processes in any order, and a failure without a later attempt shows as  *)
(* attention (the callers of Store.Update, and buildStatus); only what a   *)
(* manifest says that was edited after it was sealed can be out of place.  *)
THEOREM NewerCorrect == HostSpec => []NewerIsKept
<1>1. HostInit => ScopeIInv
  BY ScopeInitially DEF HostInit
<1>2. ScopeIInv /\ [HostNext]_hostVars => ScopeIInv'
  BY ScopeKept
<1> QED
  BY <1>1, <1>2, NewerFollows, PTL DEF HostSpec

-----------------------------------------------------------------------------
(* The credential file.                                                    *)
Tables == [Connectors -> Secrets \cup {None}]

FileOK == secrets \in [version : 0..3, secrets : Tables]

ProcOK ==
  \A p \in Commands :
    holder[p].at = "read" =>
      /\ holder[p].connector \in Connectors
      /\ holder[p].secret \in Secrets
      /\ holder[p].secrets \in Tables
      /\ holder[p].stale \in BOOLEAN

VerifiedOK ==
  \A p \in Commands :
    holder[p].at = "verified" =>
      /\ holder[p].connector \in Connectors
      /\ holder[p].secret \in Secrets
      /\ holder[p].stale = FALSE

Procs ==
  [at : {"idle", "verified", "read"}, connector : Connectors \cup {None},
   secret : Secrets \cup {None}, secrets : Tables, stale : BOOLEAN]

CredentialShape ==
  /\ holder \in [Commands -> Procs]
  /\ DOMAIN kept = Connectors
  /\ dropped \subseteq Connectors

(* Whoever has read, and was not overtaken, has read what is there.        *)
ReadIsCurrent ==
  \A p \in Commands :
    holder[p].at = "read" /\ ~ holder[p].stale =>
      /\ secrets.version \in Credential!Known
      /\ holder[p].secrets = secrets.secrets

CredentialIInv == FileOK /\ CredentialShape /\ ProcOK /\ VerifiedOK /\ ReadIsCurrent /\ Credential!OnlyOverlapDrops

-----------------------------------------------------------------------------
(* What a Save writes is readable, and differs in one connector.           *)
LEMMA MergeWrites ==
  ASSUME NEW table \in Tables, NEW c \in Connectors, NEW s \in Secrets
  PROVE  LET new == Credential!Merge(table, c, s) IN
         /\ new \in [version : 0..3, secrets : Tables]
         /\ new.version \in Credential!Known
         /\ new.secrets[c] = s
         /\ \A d \in Connectors \ {c} : new.secrets[d] = table[d]
         /\ new.version = 2 => Credential!Held(new.secrets) # {Legacy}
<1> DEFINE merged == [table EXCEPT ![c] = s]
<1>1. merged \in Tables
  BY DEF Tables
<1>2. merged[c] = s /\ \A d \in Connectors \ {c} : merged[d] = table[d]
  BY DEF Tables
<1>3. Credential!Merge(table, c, s) =
        [version |-> IF Credential!Held(merged) = {Legacy} THEN 1 ELSE 2, secrets |-> merged]
  BY DEF Credential!Merge
<1> HIDE DEF merged
<1> QED
  BY <1>1, <1>2, <1>3 DEF Credential!Known

LEMMA CredentialsInitially == ASSUME Credential!Init PROVE CredentialIInv
<1>1. Credential!Empty \in Tables
  BY DEF Credential!Empty, Tables
<1>2. Credential!Idle \in Procs
  BY <1>1 DEF Credential!Idle, Procs
<1>3. FileOK
  BY <1>1 DEF Credential!Init, FileOK, Credential!Missing
<1>4. CredentialShape
  BY <1>2 DEF Credential!Init, CredentialShape, Procs, Credential!Empty
<1>5. ProcOK /\ VerifiedOK /\ ReadIsCurrent
  BY DEF Credential!Init, ProcOK, VerifiedOK, ReadIsCurrent, Credential!Idle
<1>6. Credential!OnlyOverlapDrops
  BY DEF Credential!Init, Credential!OnlyOverlapDrops, Credential!Missing,
         Credential!Load, Credential!Known
<1> QED
  BY <1>3, <1>4, <1>5, <1>6 DEF CredentialIInv

(* Steps that write nothing.                                               *)
LEMMA PreparingSave ==
  ASSUME CredentialIInv, NEW p \in Commands,
         Credential!Verify(p) \/ Credential!Read(p) \/ Credential!WriteFails(p)
  PROVE  CredentialIInv'
<1>1. Credential!Empty \in Tables
  BY DEF Credential!Empty, Tables
<1>2. Credential!OnlyOverlapDrops'
  BY DEF CredentialIInv, Credential!Verify, Credential!Read,
         Credential!WriteFails, Credential!OnlyOverlapDrops, Credential!Load
<1>3. FileOK'
  BY DEF CredentialIInv, Credential!Verify, Credential!Read,
         Credential!WriteFails, FileOK
<1>4. CASE Credential!Verify(p)
  <2>1. PICK c \in Connectors, s \in Secrets :
          /\ holder' = [holder EXCEPT ![p] = [Credential!Idle EXCEPT
                       !.at = "verified", !.connector = c, !.secret = s]]
          /\ UNCHANGED <<secrets, kept, dropped, writes>>
    BY <1>4 DEF Credential!Verify
  <2>2. /\ holder'[p].at = "verified"
        /\ holder'[p].connector = c
        /\ holder'[p].secret = s
        /\ holder'[p].stale = FALSE
        /\ \A q \in Commands \ {p} : holder'[q] = holder[q]
    BY <2>1 DEF CredentialIInv, CredentialShape, Procs, Credential!Idle
  <2>4. holder'[p] \in Procs
    BY <1>1, <2>1 DEF CredentialIInv, CredentialShape, Procs, Credential!Idle
  <2>5. CredentialShape'
    BY <2>1, <2>4 DEF CredentialIInv, CredentialShape, Procs
  <2>6. ProcOK' /\ VerifiedOK' /\ ReadIsCurrent'
    BY <2>1, <2>2 DEF CredentialIInv, ProcOK, VerifiedOK, ReadIsCurrent
  <2> QED
    BY <1>2, <1>3, <2>5, <2>6 DEF CredentialIInv
<1>5. CASE Credential!Read(p)
  BY <1>1, <1>2, <1>3, <1>5 DEF CredentialIInv, Credential!Read,
     CredentialShape, Procs, ProcOK, VerifiedOK, ReadIsCurrent,
     Credential!Idle, FileOK
<1>6. CASE Credential!WriteFails(p)
  BY <1>1, <1>2, <1>3, <1>6 DEF CredentialIInv, Credential!WriteFails,
     CredentialShape, Procs, ProcOK, VerifiedOK, ReadIsCurrent, Credential!Idle
<1> QED
  BY <1>4, <1>5, <1>6

(* A Save changes one connector of the file it read; whoever read before   *)
(* is stale from then on.                                                  *)
LEMMA Saving ==
  ASSUME CredentialIInv, NEW p \in Commands, Credential!Rename(p)
  PROVE  CredentialIInv'
<1> DEFINE c == holder[p].connector
           s == holder[p].secret
           new == Credential!Merge(holder[p].secrets, c, s)
<1>1. c \in Connectors /\ s \in Secrets /\ holder[p].secrets \in Tables
  BY DEF CredentialIInv, ProcOK, Credential!Rename
<1>2. /\ new \in [version : 0..3, secrets : Tables]
      /\ new.version \in Credential!Known
      /\ new.secrets[c] = s
      /\ \A d \in Connectors \ {c} : new.secrets[d] = holder[p].secrets[d]
      /\ new.version = 2 => Credential!Held(new.secrets) # {Legacy}
  BY <1>1, MergeWrites
<1>3. /\ secrets' = new
      /\ kept' = [kept EXCEPT ![c] = s]
      /\ dropped' = (IF holder[p].stale THEN Connectors ELSE dropped) \ {c}
      /\ holder' = [Credential!Stale(p) EXCEPT ![p] = Credential!Idle]
  BY DEF Credential!Rename
<1> HIDE DEF c, s, new
<1>4. Credential!OnlyOverlapDrops'
  <2> SUFFICES ASSUME NEW d \in Connectors, d \notin dropped'
               PROVE  Credential!Load(d)' = kept'[d]
    BY <1>2, <1>3 DEF Credential!OnlyOverlapDrops
  <2>1. Credential!Load(d)' = new.secrets[d]
    BY <1>2, <1>3 DEF Credential!Load
  <2>2. CASE d = c
    BY <2>1, <2>2, <1>2, <1>3 DEF CredentialIInv, CredentialShape, Procs
  <2>3. CASE d # c
    <3>1. ~ holder[p].stale /\ d \notin dropped
      BY <2>3, <1>3 DEF CredentialIInv, CredentialShape, Procs
    <3>2. holder[p].secrets[d] = Credential!Load(d)
      BY <3>1 DEF CredentialIInv, ReadIsCurrent, Credential!Load,
         Credential!Rename
    <3>3. Credential!Load(d) = kept[d]
      BY <3>1 DEF CredentialIInv, Credential!OnlyOverlapDrops
    <3> QED
      BY <2>1, <2>3, <3>2, <3>3, <1>2, <1>3 DEF CredentialIInv,
         CredentialShape, Procs
  <2> QED
    BY <2>2, <2>3
<1>5. Credential!Empty \in Tables
  BY DEF Credential!Empty, Tables
<1>6. \A q \in Commands : holder'[q].at = "read" => holder'[q].stale
  BY <1>3 DEF CredentialIInv, CredentialShape, Procs, Credential!Stale,
     Credential!Idle
<1>7. CredentialShape'
  BY <1>3, <1>1, <1>5 DEF CredentialIInv, CredentialShape, Procs,
     Credential!Stale, Credential!Idle
<1>8. ProcOK' /\ VerifiedOK'
  BY <1>3, <1>5 DEF CredentialIInv, CredentialShape, Procs, ProcOK,
     VerifiedOK, Credential!Stale, Credential!Idle
<1> QED
  BY <1>2, <1>3, <1>4, <1>6, <1>7, <1>8 DEF CredentialIInv, FileOK,
     ReadIsCurrent

(* Whatever another program leaves there, nobody has read it.              *)
LEMMA Overwriting ==
  ASSUME CredentialIInv, NEW new \in [version : 0..3, secrets : Tables],
         Credential!Foreign(new),
         new.version # 2
  PROVE  CredentialIInv'
<1>1. FileOK'
  BY DEF Credential!Foreign, FileOK
<1>2. \A q \in Commands :
        holder'[q] = IF holder[q].at = "read" THEN [holder[q] EXCEPT !.stale = TRUE]
                                          ELSE holder[q]
  BY DEF Credential!Foreign
<1>3. \A q \in Commands : holder[q].at # "read" => holder'[q] = holder[q]
  BY <1>2
<1>4. \A q \in Commands : holder[q].at = "read" =>
        /\ holder'[q].at = "read"
        /\ holder'[q].connector = holder[q].connector
        /\ holder'[q].secret = holder[q].secret
        /\ holder'[q].secrets = holder[q].secrets
        /\ holder'[q].stale = TRUE
  BY <1>2 DEF CredentialIInv, CredentialShape, Procs
<1>5. CredentialShape'
  <2>1. \A q \in Commands :
          holder'[q] \in Procs
    <3> SUFFICES ASSUME NEW q \in Commands PROVE holder'[q] \in Procs
      OBVIOUS
    <3>1. CASE holder[q].at = "read"
      BY <1>2, <3>1 DEF CredentialIInv, CredentialShape, Procs
    <3>2. CASE holder[q].at # "read"
      BY <1>2, <3>2 DEF CredentialIInv, CredentialShape
    <3> QED
      BY <3>1, <3>2
  <2>2. DOMAIN holder' = Commands /\ holder' = [q \in Commands |-> holder'[q]]
    BY DEF Credential!Foreign
  <2>3. DOMAIN kept' = Connectors /\ dropped' \subseteq Connectors
    BY DEF Credential!Foreign
  <2> QED
    BY <2>1, <2>2, <2>3 DEF CredentialShape, Procs
<1>6. ProcOK' /\ VerifiedOK'
  BY <1>3, <1>4 DEF CredentialIInv, ProcOK, VerifiedOK
<1>7. \A q \in Commands : holder'[q].at = "read" => holder'[q].stale
  BY DEF CredentialIInv, Credential!Foreign, CredentialShape, Procs
<1>8. Credential!OnlyOverlapDrops'
  BY DEF Credential!Foreign, Credential!OnlyOverlapDrops, Credential!Load
<1> QED
  BY <1>1, <1>7, <1>8, <1>5, <1>6 DEF CredentialIInv, ReadIsCurrent

LEMMA CredentialsConsecution ==
  ASSUME CredentialIInv, [Credential!Next]_credentialVars
  PROVE  CredentialIInv'
<1>1. Credential!Empty \in Tables
  BY DEF Credential!Empty, Tables
<1>2. CASE \E p \in Commands : Credential!Verify(p) \/ Credential!Read(p) \/ Credential!WriteFails(p)
  BY <1>2, PreparingSave
<1>3. CASE \E p \in Commands : Credential!Rename(p)
  BY <1>3, Saving
<1>4. CASE Credential!GoesUnreadable
  BY <1>1, <1>4, Overwriting DEF Credential!GoesUnreadable
<1>5. CASE Credential!OlderSaves
  <2>1. PICK s \in Secrets :
          Credential!Foreign([version |-> 1, secrets |-> [Credential!Empty EXCEPT ![Legacy] = s]])
    BY <1>5 DEF Credential!OlderSaves
  <2>2. [Credential!Empty EXCEPT ![Legacy] = s] \in Tables
    BY <1>1 DEF Tables
  <2> QED
    BY <2>1, <2>2, Overwriting
<1>6. CASE Credential!Removed
  BY <1>1, <1>6, Overwriting DEF Credential!Removed, Credential!Missing
<1>7. CASE UNCHANGED credentialVars
  BY <1>7 DEF credentialVars, CredentialIInv, FileOK, CredentialShape, Procs,
     ProcOK, VerifiedOK, ReadIsCurrent,
              Credential!OnlyOverlapDrops, Credential!Load
<1> QED
  BY <1>2, <1>3, <1>4, <1>5, <1>6, <1>7 DEF Credential!Next

LEMMA CredentialsKept ==
  ASSUME CredentialIInv, [HostNext]_hostVars
  PROVE  CredentialIInv'
<1>1. CASE UNCHANGED credentialVars
  BY <1>1, CredentialsConsecution
<1>2. CASE Credential!Next
  BY <1>2, CredentialsConsecution
<1> QED
  BY <1>1, <1>2 DEF HostNext, StoreStep, ScopeStep, CredentialStep, NotifyStep,
                    ScheduleStep, hostVars

(* Saving one connector leaves every other connector's secret untouched    *)
(* (mergeCredential), whoever saves how often and whatever other programs  *)
(* do to the file, except by a Save that read before another change.       *)
THEOREM DropsCorrect == HostSpec => []OnlyOverlapDrops
<1>1. HostInit => CredentialIInv
  BY CredentialsInitially DEF HostInit
<1>2. CredentialIInv /\ [HostNext]_hostVars => CredentialIInv'
  BY CredentialsKept
<1>3. CredentialIInv => OnlyOverlapDrops
  BY DEF CredentialIInv, OnlyOverlapDrops
<1> QED
  BY <1>1, <1>2, <1>3, PTL DEF HostSpec

-----------------------------------------------------------------------------
(* Native schedules.                                                       *)
(* What the first steps of an install have left behind.                    *)
InstallOK ==
  LET d == command.definition
  IN  /\ d # None
      /\ platform = "linux" =>
           \/ command.steps = <<Native!Write("service"), Native!Write("timer"),
                                Native!Run("daemon-reload"), Native!Run("enable")>>
           \/ /\ command.steps = <<Native!Write("timer"), Native!Run("daemon-reload"), Native!Run("enable")>>
              /\ files["service"] = d
           \/ /\ command.steps = <<Native!Run("daemon-reload"), Native!Run("enable")>>
              /\ files = Native!From(d)
           \/ /\ command.steps = <<Native!Run("enable")>>
              /\ files = Native!From(d)
           \/ /\ command.steps = <<>>
              /\ files = Native!From(d) /\ on /\ loaded = Native!From(d)
      /\ platform = "darwin" =>
           \/ command.steps = <<Native!Write("task"), Native!Run("bootstrap")>>
           \/ command.steps = <<Native!Run("bootstrap")>> /\ files = Native!From(d)
           \/ command.steps = <<>> /\ files = Native!From(d) /\ on /\ loaded = Native!From(d)
      /\ platform = "windows" =>
           \/ command.steps = <<Native!Write("task"), Native!Run("create")>>
           \/ command.steps = <<Native!Run("create")>> /\ files = Native!From(d)
           \/ command.steps = <<>> /\ files = Native!From(d) /\ on /\ loaded = Native!From(d)

(* And of a removal.                                                       *)
RemoveOK ==
  /\ platform = "linux" =>
       \/ command.steps = <<Native!Run("disable"), Native!Delete("service"), Native!Delete("timer"),
                            Native!Run("daemon-reload")>>
       \/ /\ command.steps = <<Native!Delete("service"), Native!Delete("timer"), Native!Run("daemon-reload")>>
          /\ ~ on
       \/ /\ command.steps = <<Native!Delete("timer"), Native!Run("daemon-reload")>>
          /\ ~ on /\ files["service"] = None
       \/ command.steps = <<Native!Run("daemon-reload")>> /\ ~ on /\ files = Native!Nothing
       \/ command.steps = <<>> /\ ~ on /\ files = Native!Nothing /\ loaded = Native!Nothing
  /\ platform = "darwin" =>
       \/ command.steps = <<Native!Run("bootout"), Native!Delete("task")>>
       \/ command.steps = <<Native!Delete("task")>> /\ ~ on /\ loaded = Native!Nothing
       \/ command.steps = <<>> /\ ~ on /\ loaded = Native!Nothing /\ files = Native!Nothing
  /\ platform = "windows" =>
       \/ command.steps = <<Native!Run("delete"), Native!Delete("task")>>
       \/ command.steps = <<Native!Delete("task")>> /\ ~ on /\ loaded = Native!Nothing
       \/ command.steps = <<>> /\ ~ on /\ loaded = Native!Nothing /\ files = Native!Nothing

ScheduleShape ==
  /\ platform \in Native!Platforms
  /\ DOMAIN files = Native!Artifacts
  /\ on \in BOOLEAN

(* While a command runs, nothing has been said.                            *)
CommandOK ==
  /\ command = [verb |-> command.verb, definition |-> command.definition,
                 steps |-> command.steps]
  /\ command.verb \in {"none", "install", "remove"}
  /\ command.verb = "none" => command = Native!NoCommand
  /\ command.verb = "install" => InstallOK
  /\ command.verb = "remove" => RemoveOK
  /\ command.verb # "none" => said = Native!NoCommand

SaidOK ==
  /\ said.verb = "install" => said.definition # None
  /\ Native!InstalledIsTrue

ScheduleIInv == ScheduleShape /\ CommandOK /\ SaidOK

-----------------------------------------------------------------------------
LEMMA Tuples ==
  ASSUME NEW a, NEW b, NEW c, NEW d
  PROVE  /\ Head(<<a>>) = a /\ Tail(<<a>>) = <<>>
         /\ Head(<<a, b>>) = a /\ Tail(<<a, b>>) = <<b>>
         /\ Head(<<a, b, c>>) = a /\ Tail(<<a, b, c>>) = <<b, c>>
         /\ Head(<<a, b, c, d>>) = a /\ Tail(<<a, b, c, d>>) = <<b, c, d>>
OBVIOUS

(* Platforms and what they keep on disk.                                   *)
LEMMA OnDisk ==
  ASSUME NEW d
  PROVE  /\ platform = "linux" =>
              /\ Native!Artifacts = {"service", "timer"}
              /\ Native!From(d) = [a \in {"service", "timer"} |-> d]
         /\ platform \in {"darwin", "windows"} =>
              /\ Native!Artifacts = {"task"}
              /\ Native!From(d) = [a \in {"task"} |-> d]
         /\ Native!From(d) \in [Native!Artifacts -> {d}]
         /\ d # None => Native!From(d) # Native!Nothing
BY DEF Native!Artifacts, Native!From, Native!Nothing

(* The files after a change of one.                                        *)
LEMMA FilesAre ==
  ASSUME NEW S, DOMAIN files = S, NEW to \in S, NEW d,
         \A a \in S : a # to => files[a] = d
  PROVE  [files EXCEPT ![to] = d] = [a \in S |-> d]
OBVIOUS

LEMMA Effects ==
  ASSUME NEW to
  PROVE  /\ Native!Effect(Native!Write(to)) =>
              /\ files' = [files EXCEPT ![to] = command.definition]
              /\ UNCHANGED <<on, loaded>>
         /\ Native!Effect(Native!Delete(to)) =>
              /\ files' = [files EXCEPT ![to] = None]
              /\ UNCHANGED <<on, loaded>>
         /\ Native!Effect(Native!Run(to)) => Native!Scheduler(to) /\ UNCHANGED files
BY DEF Native!Effect, Native!Write, Native!Delete, Native!Run

(* What the schedulers do with a command they accept.                      *)
LEMMA Schedulers ==
  ASSUME NEW name, Native!Scheduler(name)
  PROVE  /\ name \in {"enable", "bootstrap", "create"} => on' /\ loaded' = files
         /\ name \in {"disable", "bootout", "delete"} => ~ on'
         /\ name \in {"bootout", "delete"} => loaded' = Native!Nothing
         /\ name = "daemon-reload" => loaded' = files /\ (on' <=> on)
<1>1. on' = (\/ name \in {"enable", "bootstrap", "create"}
             \/ name = "daemon-reload" /\ on)
  BY DEF Native!Scheduler
<1>2. loaded' = IF name \in {"bootout", "delete"} THEN Native!Nothing ELSE files
  BY DEF Native!Scheduler
<1>3. /\ name \in {"enable", "bootstrap", "create"} => name \notin {"bootout", "delete"}
      /\ name = "daemon-reload" => name \notin {"bootout", "delete"}
      /\ name = "daemon-reload" => name \notin {"enable", "bootstrap", "create"}
      /\ name \in {"disable", "bootout", "delete"} =>
           name # "daemon-reload" /\ name \notin {"enable", "bootstrap", "create"}
  OBVIOUS
<1> QED
  BY <1>1, <1>2, <1>3, Zenon

LEMMA ScheduleInitially == ASSUME Native!Init PROVE ScheduleIInv
<1>1. ScheduleShape
  BY DEF Native!Init, ScheduleShape, Native!Nothing, Native!From
<1>2. CommandOK /\ SaidOK
  BY DEF Native!Init, CommandOK, SaidOK, Native!InstalledIsTrue,
         Native!NoCommand
<1> QED
  BY <1>1, <1>2 DEF ScheduleIInv

LEMMA Plans ==
  ASSUME ScheduleIInv, Native!Install \/ Native!Remove
  PROVE  ScheduleIInv'
<1>1. /\ UNCHANGED <<platform, definition, files, on, loaded, edits>>
      /\ definition # None
      /\ said' = Native!NoCommand
      /\ \/ command' = [verb |-> "install", definition |-> definition, steps |-> Native!InstallSteps]
         \/ command' = [verb |-> "remove", definition |-> definition, steps |-> Native!RemoveSteps]
  BY DEF Native!Install, Native!Remove, Native!Plan
<1>2. ScheduleShape'
  BY <1>1 DEF ScheduleIInv, ScheduleShape, Native!Artifacts
<1>3. SaidOK'
  BY <1>1 DEF SaidOK, Native!InstalledIsTrue, Native!NoCommand
<1>4. CASE command' = [verb |-> "install", definition |-> definition, steps |-> Native!InstallSteps]
  <2>1. InstallOK'
    BY <1>1, <1>4 DEF ScheduleIInv, ScheduleShape, Native!Platforms,
       InstallOK, Native!InstallSteps
  <2> QED
    BY <1>1, <1>2, <1>3, <1>4, <2>1 DEF ScheduleIInv, CommandOK
<1>5. CASE command' = [verb |-> "remove", definition |-> definition, steps |-> Native!RemoveSteps]
  <2>1. RemoveOK'
    BY <1>1, <1>5 DEF ScheduleIInv, ScheduleShape, Native!Platforms, RemoveOK,
       Native!RemoveSteps
  <2> QED
    BY <1>1, <1>2, <1>3, <1>5, <2>1 DEF ScheduleIInv, CommandOK
<1> QED
  BY <1>1, <1>4, <1>5

LEMMA EffectKeepsShape ==
  ASSUME ScheduleIInv, NEW step, Native!Effect(step), UNCHANGED platform
  PROVE  ScheduleShape'
<1>1. DOMAIN files' = DOMAIN files
  BY DEF Native!Effect
<1>2. on' \in BOOLEAN
  BY DEF ScheduleIInv, ScheduleShape, Native!Effect, Native!Scheduler
<1> QED
  BY <1>1, <1>2 DEF ScheduleIInv, ScheduleShape, Native!Artifacts

(* A step of a command.                                                    *)
LEMMA CommandStep ==
  ASSUME ScheduleIInv, Native!Works
  PROVE  /\ command'.definition = command.definition /\ command'.verb = command.verb
         /\ command'.steps = Tail(command.steps) /\ command.steps # <<>>
         /\ Native!Effect(Head(command.steps))
         /\ UNCHANGED platform /\ platform \in Native!Platforms /\ DOMAIN files = Native!Artifacts
         /\ command' = [verb |-> command'.verb, definition |-> command'.definition,
                        steps |-> command'.steps]
         /\ UNCHANGED said
<1>1. /\ command' = [command EXCEPT !.steps = Tail(@)]
      /\ command.steps # <<>> /\ Native!Effect(Head(command.steps))
      /\ UNCHANGED <<platform, said>>
  BY DEF Native!Works, Native!Do
<1>2. command = [verb |-> command.verb, definition |-> command.definition,
                 steps |-> command.steps]
  BY DEF ScheduleIInv, CommandOK
<1>3. command' = [verb |-> command.verb, definition |-> command.definition,
                  steps |-> Tail(command.steps)]
  BY <1>1, <1>2
<1> QED
  BY <1>1, <1>3 DEF ScheduleIInv, ScheduleShape

(* An install, step by step.                                               *)
LEMMA InstallWorks ==
  ASSUME ScheduleIInv, Native!Works, command.verb = "install"
  PROVE  InstallOK'
<1> DEFINE d == command.definition
<1>1. /\ command'.definition = d /\ command'.steps = Tail(command.steps)
      /\ command.steps # <<>> /\ Native!Effect(Head(command.steps))
      /\ UNCHANGED platform /\ platform \in Native!Platforms /\ DOMAIN files = Native!Artifacts
  BY CommandStep
<1>2. InstallOK /\ d # None
  BY DEF ScheduleIInv, CommandOK, InstallOK
<1>3. Native!From(d)' = Native!From(d)
  BY <1>1 DEF Native!From, Native!Artifacts
<1>4. CASE platform = "linux"
  <2>1. Native!Artifacts = {"service", "timer"} /\ Native!From(d) = [a \in {"service", "timer"} |-> d]
    BY <1>4, OnDisk
  <2>2. CASE command.steps = <<Native!Write("service"), Native!Write("timer"),
                               Native!Run("daemon-reload"), Native!Run("enable")>>
    <3>1. /\ Native!Effect(Native!Write("service"))
          /\ command'.steps = <<Native!Write("timer"), Native!Run("daemon-reload"), Native!Run("enable")>>
      BY <1>1, <2>2, Tuples
    <3>2. files'["service"] = d
      BY <1>1, <2>1, <3>1, Effects
    <3> QED
      BY <1>1, <1>2, <1>4, <3>1, <3>2 DEF InstallOK
  <2>3. CASE /\ command.steps = <<Native!Write("timer"), Native!Run("daemon-reload"), Native!Run("enable")>>
             /\ files["service"] = d
    <3>1. /\ Native!Effect(Native!Write("timer"))
          /\ command'.steps = <<Native!Run("daemon-reload"), Native!Run("enable")>>
      BY <1>1, <2>3, Tuples
    <3>2. files' = [files EXCEPT !["timer"] = d]
      BY <3>1, Effects
    <3>3. files' = [a \in {"service", "timer"} |-> d]
      BY <1>1, <2>1, <2>3, <3>2, FilesAre
    <3> QED
      BY <1>1, <1>2, <1>3, <1>4, <2>1, <3>1, <3>3 DEF InstallOK
  <2>4. CASE command.steps = <<Native!Run("daemon-reload"), Native!Run("enable")>> /\ files = Native!From(d)
    <3>1. Native!Effect(Native!Run("daemon-reload")) /\ command'.steps = <<Native!Run("enable")>>
      BY <1>1, <2>4, Tuples
    <3>2. files' = files
      BY <3>1, Effects
    <3> QED
      BY <1>1, <1>2, <1>3, <1>4, <2>4, <3>1, <3>2 DEF InstallOK
  <2>5. CASE command.steps = <<Native!Run("enable")>> /\ files = Native!From(d)
    <3>1. Native!Effect(Native!Run("enable")) /\ command'.steps = <<>>
      BY <1>1, <2>5, Tuples
    <3>2. files' = files /\ on' /\ loaded' = files
      BY <3>1, Effects, Schedulers
    <3> QED
      BY <1>1, <1>2, <1>3, <1>4, <2>5, <3>1, <3>2 DEF InstallOK
  <2> QED
    BY <1>1, <1>2, <1>4, <2>2, <2>3, <2>4, <2>5 DEF InstallOK
<1>5. ASSUME NEW name \in {"bootstrap", "create"}, platform \in {"darwin", "windows"},
             \/ command.steps = <<Native!Write("task"), Native!Run(name)>>
             \/ command.steps = <<Native!Run(name)>> /\ files = Native!From(d)
      PROVE  \/ command'.steps = <<Native!Run(name)>> /\ files' = Native!From(d)
             \/ command'.steps = <<>> /\ files' = Native!From(d) /\ on' /\ loaded' = Native!From(d)
  <2>1. Native!Artifacts = {"task"} /\ Native!From(d) = [a \in {"task"} |-> d]
    BY <1>5, OnDisk
  <2>2. CASE command.steps = <<Native!Write("task"), Native!Run(name)>>
    <3>1. Native!Effect(Native!Write("task")) /\ command'.steps = <<Native!Run(name)>>
      BY <1>1, <2>2, Tuples
    <3>2. files' = [files EXCEPT !["task"] = d]
      BY <3>1, Effects
    <3> QED
      BY <1>1, <2>1, <3>1, <3>2, FilesAre
  <2>3. CASE command.steps = <<Native!Run(name)>> /\ files = Native!From(d)
    <3>1. Native!Effect(Native!Run(name)) /\ command'.steps = <<>>
      BY <1>1, <2>3, Tuples
    <3>2. files' = files /\ on' /\ loaded' = files
      BY <1>5, <3>1, Effects, Schedulers
    <3> QED
      BY <2>3, <3>1, <3>2
  <2> QED
    BY <1>5, <2>2, <2>3
<1>6. CASE platform = "darwin"
  BY <1>1, <1>2, <1>3, <1>5, <1>6 DEF InstallOK
<1>7. CASE platform = "windows"
  BY <1>1, <1>2, <1>3, <1>5, <1>7 DEF InstallOK
<1> QED
  BY <1>1, <1>4, <1>6, <1>7 DEF Native!Platforms

(* A removal, step by step.                                                *)
LEMMA RemoveWorks ==
  ASSUME ScheduleIInv, Native!Works, command.verb = "remove"
  PROVE  RemoveOK'
<1>1. /\ command'.steps = Tail(command.steps)
      /\ command.steps # <<>> /\ Native!Effect(Head(command.steps))
      /\ UNCHANGED platform /\ platform \in Native!Platforms /\ DOMAIN files = Native!Artifacts
  BY CommandStep
<1>2. RemoveOK
  BY DEF ScheduleIInv, CommandOK
<1>3. Native!Nothing' = Native!Nothing
  BY <1>1 DEF Native!Nothing, Native!From, Native!Artifacts
<1>4. CASE platform = "linux"
  <2>1. Native!Artifacts = {"service", "timer"} /\ Native!Nothing = [a \in {"service", "timer"} |-> None]
    BY <1>4, OnDisk DEF Native!Nothing
  <2>2. CASE command.steps = <<Native!Run("disable"), Native!Delete("service"), Native!Delete("timer"),
                               Native!Run("daemon-reload")>>
    <3>1. /\ Native!Effect(Native!Run("disable"))
          /\ command'.steps = <<Native!Delete("service"), Native!Delete("timer"), Native!Run("daemon-reload")>>
      BY <1>1, <2>2, Tuples
    <3>2. ~ on'
      BY <3>1, Effects, Schedulers
    <3> QED
      BY <1>1, <1>4, <3>1, <3>2 DEF RemoveOK
  <2>3. CASE /\ command.steps = <<Native!Delete("service"), Native!Delete("timer"), Native!Run("daemon-reload")>>
             /\ ~ on
    <3>1. /\ Native!Effect(Native!Delete("service"))
          /\ command'.steps = <<Native!Delete("timer"), Native!Run("daemon-reload")>>
      BY <1>1, <2>3, Tuples
    <3>2. files'["service"] = None /\ on' = on
      BY <1>1, <2>1, <3>1, Effects
    <3> QED
      BY <1>1, <1>4, <2>3, <3>1, <3>2 DEF RemoveOK
  <2>4. CASE /\ command.steps = <<Native!Delete("timer"), Native!Run("daemon-reload")>>
             /\ ~ on /\ files["service"] = None
    <3>1. Native!Effect(Native!Delete("timer")) /\ command'.steps = <<Native!Run("daemon-reload")>>
      BY <1>1, <2>4, Tuples
    <3>2. files' = [files EXCEPT !["timer"] = None] /\ on' = on
      BY <3>1, Effects
    <3>3. files' = Native!Nothing
      BY <1>1, <2>1, <2>4, <3>2, FilesAre
    <3> QED
      BY <1>1, <1>3, <1>4, <2>4, <3>1, <3>2, <3>3 DEF RemoveOK
  <2>5. CASE command.steps = <<Native!Run("daemon-reload")>> /\ ~ on /\ files = Native!Nothing
    <3>1. Native!Effect(Native!Run("daemon-reload")) /\ command'.steps = <<>>
      BY <1>1, <2>5, Tuples
    <3>2. files' = files /\ ~ on' /\ loaded' = files
      BY <2>5, <3>1, Effects, Schedulers
    <3> QED
      BY <1>1, <1>3, <1>4, <2>5, <3>1, <3>2 DEF RemoveOK
  <2> QED
    BY <1>1, <1>2, <1>4, <2>2, <2>3, <2>4, <2>5 DEF RemoveOK
<1>5. ASSUME NEW name \in {"bootout", "delete"}, platform \in {"darwin", "windows"},
             \/ command.steps = <<Native!Run(name), Native!Delete("task")>>
             \/ command.steps = <<Native!Delete("task")>> /\ ~ on /\ loaded = Native!Nothing
      PROVE  \/ command'.steps = <<Native!Delete("task")>> /\ ~ on' /\ loaded' = Native!Nothing
             \/ command'.steps = <<>> /\ ~ on' /\ loaded' = Native!Nothing /\ files' = Native!Nothing
  <2>1. Native!Artifacts = {"task"} /\ Native!Nothing = [a \in {"task"} |-> None]
    BY <1>5, OnDisk DEF Native!Nothing
  <2>2. CASE command.steps = <<Native!Run(name), Native!Delete("task")>>
    <3>1. Native!Effect(Native!Run(name)) /\ command'.steps = <<Native!Delete("task")>>
      BY <1>1, <2>2, Tuples
    <3>2. ~ on' /\ loaded' = Native!Nothing
      BY <1>5, <3>1, Effects, Schedulers
    <3> QED
      BY <3>1, <3>2
  <2>3. CASE command.steps = <<Native!Delete("task")>> /\ ~ on /\ loaded = Native!Nothing
    <3>1. Native!Effect(Native!Delete("task")) /\ command'.steps = <<>>
      BY <1>1, <2>3, Tuples
    <3>2. files' = [files EXCEPT !["task"] = None] /\ on' = on /\ loaded' = loaded
      BY <3>1, Effects
    <3>3. files' = Native!Nothing
      BY <1>1, <2>1, <3>2, FilesAre
    <3> QED
      BY <2>3, <3>1, <3>2, <3>3
  <2> QED
    BY <1>5, <2>2, <2>3
<1>6. CASE platform = "darwin"
  BY <1>1, <1>2, <1>3, <1>5, <1>6 DEF RemoveOK
<1>7. CASE platform = "windows"
  BY <1>1, <1>2, <1>3, <1>5, <1>7 DEF RemoveOK
<1> QED
  BY <1>1, <1>4, <1>6, <1>7 DEF Native!Platforms

LEMMA Working == ASSUME ScheduleIInv, Native!Works PROVE ScheduleIInv'
<1>1. /\ command'.verb = command.verb /\ UNCHANGED <<platform, said>>
      /\ command' = [verb |-> command'.verb, definition |-> command'.definition,
                     steps |-> command'.steps]
      /\ command.steps # <<>> /\ Native!Effect(Head(command.steps))
  BY CommandStep
<1>2. ScheduleShape'
  BY <1>1, EffectKeepsShape
<1>3. command.verb # "none" /\ said = Native!NoCommand
  BY <1>1 DEF ScheduleIInv, CommandOK, Native!NoCommand
<1>4. CommandOK'
  BY <1>1, <1>3, InstallWorks, RemoveWorks DEF ScheduleIInv, CommandOK
<1>5. SaidOK'
  BY <1>1, <1>3 DEF SaidOK, Native!InstalledIsTrue, Native!NoCommand
<1> QED
  BY <1>2, <1>4, <1>5 DEF ScheduleIInv

(* Whatever a command that did not end has left, nothing is said of it.    *)
LEMMA Breaking == ASSUME ScheduleIInv, Native!Fails PROVE ScheduleIInv'
<1>1. /\ command' = Native!NoCommand /\ UNCHANGED <<platform, said>>
      /\ command.steps # <<>>
      /\ Native!Effect(Head(command.steps)) \/ UNCHANGED <<files, on, loaded>>
  BY DEF Native!Fails
<1>2. ScheduleShape'
  BY <1>1, EffectKeepsShape DEF ScheduleIInv, ScheduleShape, Native!Artifacts
<1>3. said = Native!NoCommand
  BY <1>1 DEF ScheduleIInv, CommandOK, Native!NoCommand
<1>4. CommandOK'
  BY <1>1 DEF CommandOK, Native!NoCommand
<1>5. SaidOK'
  BY <1>1, <1>3 DEF SaidOK, Native!InstalledIsTrue, Native!NoCommand
<1> QED
  BY <1>2, <1>4, <1>5 DEF ScheduleIInv

LEMMA Ending == ASSUME ScheduleIInv, Native!Ends PROVE ScheduleIInv'
<1>1. /\ command.verb # "none" /\ command.steps = <<>>
      /\ said' = command /\ command' = Native!NoCommand
      /\ UNCHANGED <<platform, files, on, loaded>>
  BY DEF Native!Ends
<1>3. \A d : [a \in Native!Artifacts' |-> d] = Native!From(d)
  BY <1>1 DEF Native!From, Native!Artifacts
<1>4. ScheduleShape'
  BY <1>1 DEF ScheduleIInv, ScheduleShape, Native!Artifacts
<1>5. CommandOK'
  BY <1>1 DEF CommandOK, Native!NoCommand
<1>6. platform \in Native!Platforms /\ CommandOK
  BY DEF ScheduleIInv, ScheduleShape
<1>7. \A a, b, c, d : <<>> \notin {<<a>>, <<a, b>>, <<a, b, c>>, <<a, b, c, d>>}
  OBVIOUS
<1>8. CASE command.verb = "install"
  <2>1. /\ command.definition # None
        /\ files = Native!From(command.definition) /\ on /\ loaded = Native!From(command.definition)
    BY <1>1, <1>6, <1>7, <1>8 DEF CommandOK, InstallOK, Native!Platforms
  <2> QED
    BY <1>1, <1>3, <1>4, <1>5, <1>8, <2>1
       DEF ScheduleIInv, SaidOK, Native!InstalledIsTrue, Native!Installed,
           Native!Registered, Native!From
<1>9. CASE command.verb = "remove"
  <2>1. files = Native!Nothing /\ ~ on /\ loaded = Native!Nothing
    BY <1>1, <1>6, <1>7, <1>9 DEF CommandOK, RemoveOK, Native!Platforms
  <2> QED
    BY <1>1, <1>3, <1>4, <1>5, <1>9, <2>1
       DEF ScheduleIInv, SaidOK, Native!InstalledIsTrue, Native!Registered,
           Native!Nothing, Native!From
<1> QED
  BY <1>1, <1>6, <1>8, <1>9 DEF CommandOK

(* A login brings back what the files say, and only that.                  *)
LEMMA Restarting == ASSUME ScheduleIInv, Native!Restart PROVE ScheduleIInv'
<1>1. /\ platform = "darwin" => command.verb = "none"
      /\ on' = IF platform = "darwin" THEN files # Native!Nothing ELSE on
      /\ loaded' = IF platform = "windows" THEN loaded ELSE files
      /\ UNCHANGED <<platform, files, command, said>>
  BY DEF Native!Restart
<1>2. \A d : Native!From(d)' = [a \in Native!Artifacts |-> d] /\ Native!From(d) = [a \in Native!Artifacts |-> d]
  BY <1>1 DEF Native!From, Native!Artifacts
<1>3. Native!Nothing' = Native!Nothing
  BY <1>1 DEF Native!Nothing, Native!From, Native!Artifacts
<1>4. ScheduleShape'
  BY <1>1 DEF ScheduleIInv, ScheduleShape, Native!Artifacts
<1>5. ASSUME said.verb = "install"
      PROVE  /\ said.definition # None /\ files = Native!From(said.definition)
             /\ on' /\ loaded' = Native!From(said.definition)
  <2>1. /\ said.definition # None /\ files = Native!From(said.definition)
        /\ on /\ loaded = Native!From(said.definition)
    BY <1>5 DEF ScheduleIInv, SaidOK, Native!InstalledIsTrue,
       Native!Installed, Native!Registered
  <2> QED
    BY <1>1, <2>1, OnDisk
<1>6. ASSUME said.verb = "remove" PROVE files = Native!Nothing /\ ~ on' /\ loaded' = Native!Nothing
  BY <1>1, <1>6 DEF ScheduleIInv, SaidOK, Native!InstalledIsTrue,
     Native!Registered
<1>7. SaidOK'
  <2>1. Native!From(said.definition)' = Native!From(said.definition)
    BY <1>1 DEF Native!From, Native!Artifacts
  <2> QED
    BY <1>1, <1>3, <1>5, <1>6, <2>1 DEF SaidOK, Native!InstalledIsTrue,
       Native!Installed, Native!Registered
<1>8. CommandOK'
  <2>1. CASE command.verb = "none"
    BY <1>1, <2>1 DEF ScheduleIInv, CommandOK
  <2>2. CASE command.verb = "install"
    <3>1. Native!From(command.definition)' = Native!From(command.definition)
      BY <1>1 DEF Native!From, Native!Artifacts
    <3>2. InstallOK'
      BY <1>1, <2>2, <3>1 DEF ScheduleIInv, CommandOK, InstallOK
    <3> QED
      BY <1>1, <2>2, <3>2 DEF ScheduleIInv, CommandOK
  <2>3. CASE command.verb = "remove"
    <3>1. RemoveOK'
      BY <1>1, <1>3, <2>3 DEF ScheduleIInv, CommandOK, RemoveOK
    <3> QED
      BY <1>1, <2>3, <3>1 DEF ScheduleIInv, CommandOK
  <2> QED
    BY <2>1, <2>2, <2>3 DEF ScheduleIInv, CommandOK
<1> QED
  BY <1>4, <1>7, <1>8 DEF ScheduleIInv

LEMMA ScheduleConsecution ==
  ASSUME ScheduleIInv, [Native!Next]_scheduleVars
  PROVE  ScheduleIInv'
<1>1. CASE UNCHANGED <<platform, files, on, loaded, command, said>>
  <2>1. ScheduleShape'
    BY <1>1 DEF ScheduleIInv, ScheduleShape, Native!Artifacts
  <2>2. Native!Nothing' = Native!Nothing
    BY <1>1 DEF Native!Nothing, Native!From, Native!Artifacts
  <2>3. /\ Native!From(command.definition)' = Native!From(command.definition)
        /\ Native!From(said.definition)' = Native!From(said.definition)
    BY <1>1 DEF Native!From, Native!Artifacts
  <2>4. CommandOK'
    BY <1>1, <2>2, <2>3 DEF ScheduleIInv, CommandOK, InstallOK, RemoveOK
  <2>5. SaidOK'
    BY <1>1, <2>2, <2>3 DEF ScheduleIInv, SaidOK, Native!InstalledIsTrue,
       Native!Installed, Native!Registered
  <2> QED
    BY <2>1, <2>4, <2>5 DEF ScheduleIInv
<1>2. CASE Native!Edit \/ UNCHANGED scheduleVars
  BY <1>1, <1>2 DEF Native!Edit, scheduleVars
<1> QED
  BY <1>2, Plans, Working, Breaking, Ending, Restarting DEF Native!Next

LEMMA ScheduleKept ==
  ASSUME ScheduleIInv, [HostNext]_hostVars
  PROVE  ScheduleIInv'
<1>1. CASE UNCHANGED scheduleVars
  BY <1>1, ScheduleConsecution
<1>2. CASE Native!Next
  BY <1>2, ScheduleConsecution
<1> QED
  BY <1>1, <1>2 DEF HostNext, StoreStep, ScopeStep, CredentialStep, NotifyStep,
                    ScheduleStep, hostVars

(* When an install or a removal says it succeeded, the files are those of  *)
(* the definition it was given and the scheduler has read them, or nothing *)
(* of the schedule is left, on every platform and after any restarts, for  *)
(* as long as no other command or edit intervenes (InstallSchedule and     *)
(* RemoveSchedule).                                                        *)
THEOREM InstalledCorrect == HostSpec => []InstalledIsTrue
<1>1. HostInit => ScheduleIInv
  BY ScheduleInitially DEF HostInit
<1>2. ScheduleIInv /\ [HostNext]_hostVars => ScheduleIInv'
  BY ScheduleKept
<1>3. ScheduleIInv => InstalledIsTrue
  BY DEF ScheduleIInv, SaidOK, InstalledIsTrue
<1> QED
  BY <1>1, <1>2, <1>3, PTL DEF HostSpec

-----------------------------------------------------------------------------
(* Notifications.                                                          *)
Fields ==
  {"at", "operation", "history", "sequence", "recording", "targets", "event",
   "queue", "attempt", "interrupted"}

Active(p) == run[p].at \in {"deliver", "sleep"}

(* The events that can still be sent, and how requests name events.        *)
Events == log \cup {run[p].event : p \in {q \in Commands : Active(q)}}

Requests == sent \cup UNION {processed[d] : d \in Webhook!Selected}

Marks ==
  {<<Webhook!IdempotencyKey(e), Webhook!Transition(e)>> : e \in Events}
  \cup {<<m.key, m.transition>> : m \in Requests}

AllMarks == (Operations \X Nat \X STRING) \X (Operations \X Nat)

(* A key and a transition name each other.                                 *)
OneToOne ==
  \A a, b \in Marks : a[1] = b[1] <=> a[2] = b[2]

(* They lie behind the operation they are of, and it only goes on.         *)
Past ==
  \A a \in Marks :
    /\ a[1][1] = a[2][1]
    /\ a[1][1] \in started
    /\ \A p \in Commands :
         run[p].operation = a[1][1] =>
           /\ a[1][2] <= run[p].sequence
           /\ a[2][2] > Len(run[p].history)

RunOK ==
  /\ DOMAIN run = Commands
  /\ started \subseteq Operations
  /\ \A p \in Commands :
       /\ DOMAIN run[p] = Fields
       /\ run[p].history \in Seq(STRING)
       /\ run[p].sequence \in Nat
       /\ run[p].operation \in started \cup {0}
       /\ run[p].at = "operation" => run[p].operation # 0
       /\ Active(p) /\ run[p].operation = 0 => run[p].history = <<>>
  /\ \A p, q \in Commands :
       p # q /\ run[p].operation = run[q].operation => run[p].operation = 0

(* A destination has no two requests of one key, and what status shows as  *)
(* delivered is among what it processed.                                   *)
ReceivedOK ==
  /\ DOMAIN processed = Webhook!Selected
  /\ DOMAIN told = Webhook!Selected
  /\ \A d \in Webhook!Selected :
       /\ \A m, n \in processed[d] : m.key = n.key => m = n
       /\ told[d] # None /\ told[d].delivered =>
            told[d].transition \in {m.transition : m \in processed[d]}

NotifyIInv == RunOK /\ Marks \subseteq AllMarks /\ OneToOne /\ Past /\ ReceivedOK

-----------------------------------------------------------------------------
(* Operations go on: sequence numbers grow, histories shrink.              *)
GoesOn ==
  /\ started \subseteq started'
  /\ \A p \in Commands :
       \/ run'[p].operation \notin started
       \/ /\ run'[p].operation = run[p].operation
          /\ run[p].sequence <= run'[p].sequence
          /\ Len(run'[p].history) <= Len(run[p].history)

LEMMA MarksStand ==
  ASSUME Webhook!NotifyAssumption, NotifyIInv, RunOK', GoesOn,
         Marks' \subseteq Marks
  PROVE  Marks' \subseteq AllMarks /\ OneToOne' /\ Past'
<1>1. Marks' \subseteq AllMarks /\ OneToOne'
  BY DEF NotifyIInv, OneToOne
<1>2. Past'
  <2> SUFFICES ASSUME NEW a \in Marks'
               PROVE  /\ a[1][1] = a[2][1]
                      /\ a[1][1] \in started'
                      /\ \A p \in Commands :
                           run'[p].operation = a[1][1] =>
                             /\ a[1][2] <= run'[p].sequence
                             /\ a[2][2] > Len(run'[p].history)
    BY DEF Past
  <2>1. /\ a[1][1] = a[2][1]
        /\ a[1][1] \in started
        /\ a[1][2] \in Nat /\ a[2][2] \in Nat
    BY DEF NotifyIInv, Past, AllMarks
  <2> SUFFICES ASSUME NEW p \in Commands, run'[p].operation = a[1][1]
               PROVE  /\ a[1][2] <= run'[p].sequence
                      /\ a[2][2] > Len(run'[p].history)
    BY <2>1 DEF GoesOn
  <2>2. run'[p].operation = run[p].operation =>
          a[1][2] <= run[p].sequence /\ a[2][2] > Len(run[p].history)
    BY DEF NotifyIInv, Past
  <2>3. /\ run[p].sequence \in Nat /\ run'[p].sequence \in Nat
        /\ Len(run[p].history) \in Nat /\ Len(run'[p].history) \in Nat
    BY DEF NotifyIInv, RunOK
  <2> QED
    BY <2>1, <2>2, <2>3 DEF GoesOn
<1> QED
  BY <1>1, <1>2

(* A process goes on, or returns to where it has no operation.             *)
LEMMA RunStep ==
  ASSUME Webhook!NotifyAssumption, RunOK, NEW p \in Commands, NEW r,
         run' = [run EXCEPT ![p] = r], started' = started,
         DOMAIN r = Fields, r.history \in Seq(STRING), r.sequence \in Nat,
         r.at = "operation" => r.operation # 0,
         r.operation = 0 => r.history = <<>>,
         \/ r.operation = 0
         \/ /\ r.operation = run[p].operation
            /\ run[p].sequence <= r.sequence
            /\ Len(r.history) <= Len(run[p].history)
  PROVE  RunOK' /\ GoesOn
<1>1. run'[p] = r /\ \A q \in Commands \ {p} : run'[q] = run[q]
  BY DEF RunOK
<1>2. 0 \notin started
  BY DEF RunOK, Webhook!NotifyAssumption
<1>3. RunOK'
  BY <1>1, <1>2 DEF RunOK, Active
<1>4. GoesOn
  <2> SUFFICES ASSUME NEW q \in Commands
               PROVE  \/ run'[q].operation \notin started
                      \/ /\ run'[q].operation = run[q].operation
                         /\ run[q].sequence <= run'[q].sequence
                         /\ Len(run'[q].history) <= Len(run[q].history)
    BY DEF GoesOn
  <2>1. CASE q = p
    BY <2>1, <1>1, <1>2
  <2>2. CASE q # p
    BY <2>2, <1>1 DEF RunOK
  <2> QED
    BY <2>1, <2>2
<1> QED
  BY <1>3, <1>4

(* No new event, and every new request is of an event that is there.       *)
LEMMA MarksStep ==
  ASSUME RunOK, NEW p \in Commands, NEW r,
         run' = [run EXCEPT ![p] = r], log' = log,
         r.at \in {"deliver", "sleep"} => r.event \in Events,
         \A m \in Requests' : m \in Requests \/ <<m.key, m.transition>> \in Marks
  PROVE  Marks' \subseteq Marks
<1>1. run'[p] = r /\ \A q \in Commands \ {p} : run'[q] = run[q]
  BY DEF RunOK
<1>2. Events' \subseteq Events
  BY <1>1 DEF Events, Active
<1>3. {<<Webhook!IdempotencyKey(e), Webhook!Transition(e)>> : e \in Events'} \subseteq Marks
  BY <1>2 DEF Marks
<1>4. {<<m.key, m.transition>> : m \in Requests'} \subseteq Marks
  BY DEF Marks
<1> QED
  BY <1>3, <1>4 DEF Marks, Webhook!IdempotencyKey, Webhook!Transition

LEMMA RequestIsMarked ==
  ASSUME NEW p \in Commands, Active(p)
  PROVE  /\ run[p].event \in Events
         /\ <<Webhook!Request(p).key, Webhook!Request(p).transition>> \in Marks
BY DEF Events, Marks, Webhook!Request

(* What a destination makes of a request.                                  *)
LEMMA Handled ==
  ASSUME ReceivedOK, NEW request, Webhook!Handle(request)
  PROVE  /\ DOMAIN processed' = Webhook!Selected
         /\ \A d \in Webhook!Selected : processed[d] \subseteq processed'[d]
         /\ \A d \in Webhook!Selected : \A m, n \in processed'[d] :
              m.key = n.key => m = n
         /\ request.to \in Webhook!Selected =>
              \E m \in processed'[request.to] : m.key = request.key
         /\ Requests' \subseteq Requests \cup {request}
<1>1. CASE Webhook!Repeat(request)
  BY <1>1 DEF Webhook!Handle, Webhook!Repeat, ReceivedOK, Requests
<1>2. CASE ~ Webhook!Repeat(request)
  <2>1. processed' = [processed EXCEPT ![request.to] = @ \cup {request}]
    BY <1>2 DEF Webhook!Handle
  <2>2. \A m \in processed[request.to] : m.key # request.key
    BY <1>2 DEF Webhook!Repeat
  <2>3. \A d \in Webhook!Selected :
          processed'[d] = IF d = request.to THEN processed[d] \cup {request}
                                            ELSE processed[d]
    BY <2>1 DEF ReceivedOK
  <2>4. \A d \in Webhook!Selected : \A m, n \in processed'[d] : m.key = n.key => m = n
    <3> SUFFICES ASSUME NEW d \in Webhook!Selected,
                        NEW m \in processed'[d], NEW n \in processed'[d], m.key = n.key
                 PROVE  m = n
      OBVIOUS
    <3>1. m \in processed[d] /\ n \in processed[d] => m = n
      BY DEF ReceivedOK
    <3>2. CASE d # request.to
      BY <2>3, <3>1, <3>2
    <3>3. CASE d = request.to
      <4>1. processed'[d] = processed[d] \cup {request}
        BY <2>3, <3>3
      <4>2. m \in processed[d] => m.key # request.key
        BY <2>2, <3>3
      <4>3. n \in processed[d] => n.key # request.key
        BY <2>2, <3>3
      <4> QED
        BY <4>1, <4>2, <4>3, <3>1
    <3> QED
      BY <3>2, <3>3
  <2>5. Requests' \subseteq Requests \cup {request}
    BY <2>3 DEF Webhook!Handle, Requests
  <2> QED
    BY <2>1, <2>3, <2>4, <2>5 DEF ReceivedOK
<1> QED
  BY <1>1, <1>2

LEMMA IdleFields ==
  /\ DOMAIN Webhook!Idle = Fields
  /\ Webhook!Idle.at = "idle" /\ Webhook!Idle.operation = 0
  /\ Webhook!Idle.sequence = 0 /\ Webhook!Idle.history = <<>> /\ <<>> \in Seq(STRING)
BY DEF Webhook!Idle, Fields

(* What holds after a step that emits nothing.                             *)
Kept == RunOK' /\ GoesOn /\ Marks' \subseteq Marks /\ ReceivedOK'

LEMMA KeptIsEnough ==
  ASSUME Webhook!NotifyAssumption, NotifyIInv, Kept
  PROVE  NotifyIInv'
BY MarksStand DEF Kept, NotifyIInv

(* Steps to Idle, or of the process alone.                                 *)
LEMMA BecomesIdle ==
  ASSUME Webhook!NotifyAssumption, NotifyIInv, NEW p \in Commands,
         run' = [run EXCEPT ![p] = Webhook!Idle],
         UNCHANGED <<started, log, told, sent, processed>>
  PROVE  Kept
<1>1. RunOK' /\ GoesOn
  <2>1. /\ Webhook!Idle.history \in Seq(STRING) /\ Webhook!Idle.sequence \in Nat
        /\ Webhook!Idle.at # "operation"
    BY IdleFields
  <2> QED
    BY <2>1, IdleFields, RunStep DEF NotifyIInv
<1>2. Marks' \subseteq Marks
  <2>1. Requests' = Requests
    BY DEF Requests
  <2> QED
    BY <2>1, IdleFields, MarksStep DEF NotifyIInv
<1>3. ReceivedOK'
  BY DEF NotifyIInv, ReceivedOK
<1> QED
  BY <1>1, <1>2, <1>3 DEF Kept

LEMMA StaysActive ==
  ASSUME Webhook!NotifyAssumption, NotifyIInv, NEW p \in Commands, NEW r,
         Active(p),
         run' = [run EXCEPT ![p] = r], started' = started, log' = log,
         DOMAIN r = Fields, r.event = run[p].event,
         r.operation = run[p].operation, r.history = run[p].history,
         r.sequence \in Nat, run[p].sequence <= r.sequence,
         r.at = "operation" => r.history # <<>>,
         \A m \in Requests' : m \in Requests \/ m = Webhook!Request(p)
  PROVE  RunOK' /\ GoesOn /\ Marks' \subseteq Marks
<1>1. /\ r.history \in Seq(STRING)
      /\ r.operation = 0 => r.history = <<>>
      /\ Len(r.history) <= Len(run[p].history)
  BY DEF NotifyIInv, RunOK
<1>2. RunOK' /\ GoesOn
  BY <1>1, RunStep DEF NotifyIInv
<1>3. \A m \in Requests' : m \in Requests \/ <<m.key, m.transition>> \in Marks
  BY RequestIsMarked
<1>4. Marks' \subseteq Marks
  BY <1>3, RequestIsMarked, MarksStep DEF NotifyIInv
<1> QED
  BY <1>2, <1>4

LEMMA ResultRecorded ==
  ASSUME Webhook!NotifyAssumption, NotifyIInv, NEW p \in Commands,
         NEW delivered \in BOOLEAN,
         Active(p), Webhook!Record(p, delivered),
         \A m \in Requests' : m \in Requests \/ m = Webhook!Request(p)
  PROVE  /\ RunOK' /\ GoesOn /\ Marks' \subseteq Marks
         /\ told' = [told EXCEPT ![Head(run[p].queue)] =
                       [transition |-> Webhook!Request(p).transition, delivered |-> delivered]]
<1> DEFINE n == IF delivered \/ ~ run[p].recording THEN run[p].sequence
                                                  ELSE run[p].sequence + 1
           r(logged) == [run[p] EXCEPT !.at = "deliver", !.queue = Tail(@),
                           !.attempt = 1, !.sequence = n,
                           !.recording = IF delivered THEN @ ELSE logged]
<1>1. PICK logged : run' = [run EXCEPT ![p] = r(logged)]
  BY DEF Webhook!Record
<1>2. started' = started /\ log' = log
  BY DEF Webhook!Record
<1>3. DOMAIN run[p] = Fields /\ run[p].sequence \in Nat
  BY DEF NotifyIInv, RunOK
<1>4. n \in Nat /\ run[p].sequence <= n
  BY <1>3
<1>5. /\ DOMAIN r(logged) = Fields
      /\ r(logged).event = run[p].event
      /\ r(logged).operation = run[p].operation
      /\ r(logged).history = run[p].history
      /\ r(logged).sequence = n
      /\ r(logged).at = "deliver"
  BY <1>3 DEF Fields
<1> HIDE DEF n, r
<1>6. RunOK' /\ GoesOn /\ Marks' \subseteq Marks
  BY <1>1, <1>2, <1>4, <1>5, StaysActive
<1>7. told' = [told EXCEPT ![Head(run[p].queue)] =
                 [transition |-> Webhook!Request(p).transition, delivered |-> delivered]]
  BY DEF Webhook!Record, Webhook!Request
<1> QED
  BY <1>6, <1>7

LEMMA NotDelivering ==
  ASSUME Webhook!NotifyAssumption, NotifyIInv, NEW p \in Commands,
         Webhook!NotDeliverable(p) \/ Webhook!Rejected(p) \/ Webhook!Cancelled(p)
  PROVE  Kept
<1>1. Active(p) /\ Webhook!Record(p, FALSE) /\ processed' = processed
  BY DEF Webhook!NotDeliverable, Webhook!Rejected, Webhook!Cancelled,
         Webhook!Delivering, Active
<1>2. \A m \in Requests' : m \in Requests \/ m = Webhook!Request(p)
  BY <1>1 DEF Webhook!NotDeliverable, Webhook!Rejected, Webhook!Cancelled,
     Webhook!Send, Requests
<1>3. /\ RunOK' /\ GoesOn /\ Marks' \subseteq Marks
      /\ told' = [told EXCEPT ![Head(run[p].queue)] =
                    [transition |-> Webhook!Request(p).transition, delivered |-> FALSE]]
  BY <1>1, <1>2, ResultRecorded
<1>4. ReceivedOK'
  BY <1>1, <1>3 DEF NotifyIInv, ReceivedOK
<1> QED
  BY <1>3, <1>4 DEF Kept

LEMMA Sending ==
  ASSUME Webhook!NotifyAssumption, NotifyIInv, NEW p \in Commands,
         Webhook!Unanswered(p)
  PROVE  Kept
<1>1. Active(p) /\ processed' = processed
  BY DEF Webhook!Unanswered, Webhook!Delivering, Active
<1>2. \A m \in Requests' : m \in Requests \/ m = Webhook!Request(p)
  BY <1>1 DEF Webhook!Unanswered, Webhook!Send, Requests
<1>3. CASE run[p].attempt < MaxAttempts
  <2> DEFINE r == [run[p] EXCEPT !.at = "sleep"]
  <2>1. run' = [run EXCEPT ![p] = r] /\ UNCHANGED <<started, log, told, replays>>
    BY <1>3 DEF Webhook!Unanswered
  <2>2. DOMAIN run[p] = Fields /\ run[p].sequence \in Nat
    BY DEF NotifyIInv, RunOK
  <2>3. /\ DOMAIN r = Fields /\ r.event = run[p].event
        /\ r.operation = run[p].operation /\ r.history = run[p].history
        /\ r.sequence \in Nat /\ run[p].sequence <= r.sequence
        /\ r.at # "operation" /\ started' = started /\ log' = log
    BY <2>1, <2>2 DEF Fields
  <2> HIDE DEF r
  <2>4. RunOK' /\ GoesOn /\ Marks' \subseteq Marks
    BY <1>1, <1>2, <2>1, <2>2, <2>3, StaysActive
  <2>5. ReceivedOK'
    BY <1>1, <2>1 DEF NotifyIInv, ReceivedOK
  <2> QED
    BY <2>4, <2>5 DEF Kept
<1>4. CASE ~ (run[p].attempt < MaxAttempts)
  <2>1. Webhook!Record(p, FALSE)
    BY <1>4 DEF Webhook!Unanswered
  <2>2. /\ RunOK' /\ GoesOn /\ Marks' \subseteq Marks
        /\ told' = [told EXCEPT ![Head(run[p].queue)] =
                      [transition |-> Webhook!Request(p).transition, delivered |-> FALSE]]
    BY <1>1, <1>2, <2>1, ResultRecorded
  <2>3. ReceivedOK'
    BY <1>1, <2>2 DEF NotifyIInv, ReceivedOK
  <2> QED
    BY <2>2, <2>3 DEF Kept
<1> QED
  BY <1>3, <1>4

(* What has the key of a request has its transition.                       *)
LEMMA Arriving ==
  ASSUME Webhook!NotifyAssumption, NotifyIInv, NEW p \in Commands,
         Webhook!Accepted(p)
  PROVE  Kept
<1> DEFINE q == Webhook!Request(p)
<1>1. Active(p) /\ Webhook!Handle(q) /\ Webhook!Record(p, TRUE)
  BY DEF Webhook!Accepted, Webhook!Delivering, Active
<1>2. /\ DOMAIN processed' = Webhook!Selected
      /\ \A d \in Webhook!Selected : processed[d] \subseteq processed'[d]
      /\ \A d \in Webhook!Selected : \A m, n \in processed'[d] : m.key = n.key => m = n
      /\ q.to \in Webhook!Selected => \E m \in processed'[q.to] : m.key = q.key
      /\ Requests' \subseteq Requests \cup {q}
  BY <1>1, Handled DEF NotifyIInv
<1>3. /\ RunOK' /\ GoesOn /\ Marks' \subseteq Marks
      /\ told' = [told EXCEPT ![q.to] =
                    [transition |-> q.transition, delivered |-> TRUE]]
  BY <1>1, <1>2, ResultRecorded DEF Webhook!Request
<1>4. q.to \in Webhook!Selected => \E m \in processed'[q.to] : m.transition = q.transition
  <2> SUFFICES ASSUME q.to \in Webhook!Selected
               PROVE  \E m \in processed'[q.to] : m.transition = q.transition
    OBVIOUS
  <2>1. PICK m \in processed'[q.to] : m.key = q.key
    BY <1>2
  <2>2. m \in Requests'
    BY <2>1 DEF Requests
  <2>3. <<m.key, m.transition>> \in Marks
    BY <2>2, <1>1, <1>2, RequestIsMarked DEF Marks
  <2>4. <<q.key, q.transition>> \in Marks
    BY <1>1, RequestIsMarked
  <2>5. \A a, b \in Marks : a[1] = b[1] => a[2] = b[2]
    BY DEF NotifyIInv, OneToOne
  <2> HIDE DEF q
  <2>6. m.transition = q.transition
    BY <2>1, <2>3, <2>4, <2>5
  <2> QED
    BY <2>6
<1> HIDE DEF q
<1>5. ReceivedOK'
  <2>1. DOMAIN told' = Webhook!Selected
    BY <1>3 DEF NotifyIInv, ReceivedOK
  <2> SUFFICES ASSUME NEW d \in Webhook!Selected, told'[d] # None, told'[d].delivered
               PROVE  told'[d].transition \in {m.transition : m \in processed'[d]}
    BY <1>2, <2>1 DEF ReceivedOK
  <2>2. CASE d = q.to
    BY <2>2, <1>3, <1>4 DEF NotifyIInv, ReceivedOK
  <2>3. CASE d # q.to
    <3>1. told'[d] = told[d]
      BY <2>3, <1>3 DEF NotifyIInv, ReceivedOK
    <3> QED
      BY <3>1, <1>2 DEF NotifyIInv, ReceivedOK
  <2> QED
    BY <2>2, <2>3
<1> QED
  BY <1>3, <1>5 DEF Kept

(* A sleep that ends, and an interrupt.                                    *)
LEMMA WaitingToRetry ==
  ASSUME Webhook!NotifyAssumption, NotifyIInv, NEW p \in Commands,
         Webhook!Retry(p) \/ Webhook!Interrupt(p)
  PROVE  Kept
<1>1. Active(p)
  BY DEF Webhook!Retry, Webhook!Interrupt, Webhook!Delivering, Active
<1>2. DOMAIN run[p] = Fields /\ run[p].sequence \in Nat
  BY DEF NotifyIInv, RunOK
<1>3. UNCHANGED <<started, log, told, sent, processed>>
  BY DEF Webhook!Retry, Webhook!Interrupt
<1>4. Requests' = Requests /\ ReceivedOK'
  BY <1>3 DEF Requests, NotifyIInv, ReceivedOK
<1>5. PICK r : /\ run' = [run EXCEPT ![p] = r]
               /\ r \in {[run[p] EXCEPT !.at = "deliver", !.attempt = @ + 1],
                         [run[p] EXCEPT !.interrupted = TRUE]}
  BY DEF Webhook!Retry, Webhook!Interrupt
<1>6. /\ DOMAIN r = Fields /\ r.event = run[p].event
      /\ r.operation = run[p].operation /\ r.history = run[p].history
      /\ r.sequence = run[p].sequence /\ r.at # "operation"
  <2>1. CASE r = [run[p] EXCEPT !.at = "deliver", !.attempt = @ + 1]
    BY <2>1, <1>2 DEF Fields
  <2>2. CASE r = [run[p] EXCEPT !.interrupted = TRUE]
    BY <2>2, <1>1, <1>2 DEF Fields, Active
  <2> QED
    BY <2>1, <2>2, <1>5
<1>8. /\ r.sequence \in Nat /\ run[p].sequence <= r.sequence
      /\ started' = started /\ log' = log
  BY <1>2, <1>3, <1>6
<1>7. RunOK' /\ GoesOn /\ Marks' \subseteq Marks
  BY <1>1, <1>4, <1>5, <1>6, <1>8, StaysActive
<1> QED
  BY <1>4, <1>7 DEF Kept

LEMMA Returning ==
  ASSUME Webhook!NotifyAssumption, NotifyIInv, NEW p \in Commands,
         Webhook!Return(p)
  PROVE  Kept
<1>1. /\ Active(p)
      /\ UNCHANGED <<started, log, told, sent, processed>>
  BY DEF Webhook!Return, Active
<1>2. CASE run[p].history = <<>>
  BY <1>1, <1>2, BecomesIdle DEF Webhook!Return
<1>3. CASE run[p].history # <<>>
  <2> DEFINE r == [run[p] EXCEPT !.at = "operation"]
  <2>1. run' = [run EXCEPT ![p] = r]
    BY <1>3 DEF Webhook!Return
  <2>2. DOMAIN run[p] = Fields /\ run[p].sequence \in Nat
    BY DEF NotifyIInv, RunOK
  <2>3. /\ DOMAIN r = Fields /\ r.event = run[p].event
        /\ r.operation = run[p].operation /\ r.history = run[p].history
        /\ r.sequence \in Nat /\ run[p].sequence <= r.sequence
        /\ started' = started /\ log' = log
    BY <1>1, <2>2 DEF Fields
  <2> HIDE DEF r
  <2>4. Requests' = Requests /\ ReceivedOK'
    BY <1>1 DEF Requests, NotifyIInv, ReceivedOK
  <2>5. RunOK' /\ GoesOn /\ Marks' \subseteq Marks
    BY <1>1, <1>3, <2>1, <2>2, <2>3, <2>4, StaysActive
  <2> QED
    BY <2>4, <2>5 DEF Kept
<1> QED
  BY <1>2, <1>3

(* A replay posts an event of the log.                                     *)
LEMMA Replaying ==
  ASSUME Webhook!NotifyAssumption, NotifyIInv, NEW p \in Commands,
         Webhook!Replay(p)
  PROVE  Kept
<1>0. PICK d \in Webhook!Selected : \E e \in Webhook!Latest(d) :
        run' = [run EXCEPT ![p] = [Webhook!Idle EXCEPT
                 !.at = "deliver", !.recording = TRUE, !.event = e,
                 !.queue = <<d>>, !.attempt = 1]]
  BY DEF Webhook!Replay
<1>1. PICK e \in Webhook!Latest(d) :
        run' = [run EXCEPT ![p] = [Webhook!Idle EXCEPT
                 !.at = "deliver", !.recording = TRUE, !.event = e,
                 !.queue = <<d>>, !.attempt = 1]]
  BY <1>0
<1>2. UNCHANGED <<started, log, told, sent, processed>>
  BY DEF Webhook!Replay
<1> DEFINE r == [Webhook!Idle EXCEPT !.at = "deliver", !.recording = TRUE, !.event = e,
                             !.queue = <<d>>, !.attempt = 1]
<1>3. /\ DOMAIN r = Fields /\ r.event = e /\ r.operation = 0
      /\ r.history = <<>> /\ r.sequence = 0 /\ r.at = "deliver"
  BY IdleFields DEF Fields
<1>4. run' = [run EXCEPT ![p] = r]
  BY <1>1
<1> HIDE DEF r
<1>5. e \in Events
  BY DEF Webhook!Latest, Events
<1>6. /\ r.history \in Seq(STRING) /\ r.sequence \in Nat /\ r.at # "operation"
      /\ r.event \in Events
  BY <1>3, <1>5, IdleFields
<1>7. RunOK' /\ GoesOn
  BY <1>2, <1>3, <1>4, <1>6, RunStep DEF NotifyIInv
<1>8. Requests' = Requests /\ ReceivedOK'
  BY <1>2 DEF Requests, NotifyIInv, ReceivedOK
<1>9. Marks' \subseteq Marks
  BY <1>2, <1>4, <1>6, <1>8, MarksStep DEF NotifyIInv
<1> QED
  BY <1>7, <1>8, <1>9 DEF Kept

(* A request arrives that was sent before.                                 *)
LEMMA ArrivingLate ==
  ASSUME Webhook!NotifyAssumption, NotifyIInv, Webhook!Arrive
  PROVE  Kept
<1>1. PICK q \in sent : Webhook!Handle(q)
  BY DEF Webhook!Arrive
<1>2. UNCHANGED <<run, started, log, told>>
  BY DEF Webhook!Arrive
<1>3. /\ DOMAIN processed' = Webhook!Selected
      /\ \A d \in Webhook!Selected : processed[d] \subseteq processed'[d]
      /\ \A d \in Webhook!Selected : \A m, n \in processed'[d] : m.key = n.key => m = n
      /\ Requests' \subseteq Requests \cup {q}
  BY <1>1, Handled DEF NotifyIInv
<1>4. Requests' \subseteq Requests
  BY <1>1, <1>3 DEF Requests
<1>5. Marks' \subseteq Marks
  BY <1>2, <1>4 DEF Marks, Events, Active, Webhook!IdempotencyKey,
     Webhook!Transition
<1>6. ReceivedOK'
  BY <1>2, <1>3 DEF NotifyIInv, ReceivedOK
<1>7. RunOK'
  BY <1>2 DEF NotifyIInv, RunOK, Active
<1>8. GoesOn
  BY <1>2 DEF NotifyIInv, RunOK, GoesOn
<1> QED
  BY <1>5, <1>6, <1>7, <1>8 DEF Kept

(* A new operation has no marks yet.                                       *)
LEMMA BeginningToNotify ==
  ASSUME Webhook!NotifyAssumption, NotifyIInv, NEW p \in Commands,
         Webhook!Begin(p)
  PROVE  Kept
<1>1. PICK operation \in Operations \ started, events \in Histories,
           targets \in SUBSET Webhook!Selected :
        /\ started' = started \cup {operation}
        /\ told' = [d \in Webhook!Selected |-> IF d \in targets THEN told[d] ELSE None]
        /\ run' = [run EXCEPT ![p] = [Webhook!Idle EXCEPT
                     !.at = "operation", !.operation = operation,
                     !.history = events, !.recording = TRUE,
                     !.targets = targets]]
        /\ UNCHANGED <<log, sent, processed, replays>>
  BY DEF Webhook!Begin
<1> DEFINE r == [Webhook!Idle EXCEPT !.at = "operation", !.operation = operation,
                   !.history = events, !.recording = TRUE, !.targets = targets]
<1>2. /\ DOMAIN r = Fields /\ r.operation = operation /\ r.history = events
      /\ r.sequence = 0 /\ r.at = "operation"
  BY IdleFields DEF Fields
<1>3. run' = [run EXCEPT ![p] = r]
  BY <1>1
<1> HIDE DEF r
<1>4. run'[p] = r /\ \A q \in Commands \ {p} : run'[q] = run[q]
  BY <1>3 DEF NotifyIInv, RunOK
<1>5. events \in Seq(STRING) /\ operation # 0 /\ 0 \notin started
  BY DEF Webhook!NotifyAssumption, NotifyIInv, RunOK
<1>6. RunOK'
  <2>1. DOMAIN run' = Commands /\ started' \subseteq Operations
    BY <1>1, <1>3 DEF NotifyIInv, RunOK
  <2>2. ASSUME NEW q \in Commands
        PROVE  /\ DOMAIN run'[q] = Fields
               /\ run'[q].history \in Seq(STRING)
               /\ run'[q].sequence \in Nat
               /\ run'[q].operation \in started' \cup {0}
               /\ run'[q].at = "operation" => run'[q].operation # 0
               /\ Active(q)' /\ run'[q].operation = 0 => run'[q].history = <<>>
    <3>1. CASE q = p
      <4>1. run'[q] = r
        BY <3>1, <1>4
      <4>2. operation \in started'
        BY <1>1
      <4>3. ~ Active(q)'
        BY <4>1, <1>2 DEF Active
      <4> HIDE <1>1
      <4> QED
        BY <4>1, <4>2, <4>3, <1>2, <1>5
    <3>2. CASE q # p
      BY <3>2, <1>1, <1>4 DEF NotifyIInv, RunOK, Active
    <3> QED
      BY <3>1, <3>2
  <2>3. ASSUME NEW q \in Commands, NEW o \in Commands, q # o,
               run'[q].operation = run'[o].operation
        PROVE  run'[q].operation = 0
    <3>1. \A x \in Commands : run[x].operation \in started \cup {0}
      BY DEF NotifyIInv, RunOK
    <3> QED
      BY <2>3, <3>1, <1>2, <1>4, <1>5 DEF NotifyIInv, RunOK
  <2> QED
    BY <2>1, <2>2, <2>3 DEF RunOK
<1>7. GoesOn
  <2> SUFFICES ASSUME NEW q \in Commands
               PROVE  \/ run'[q].operation \notin started
                      \/ /\ run'[q].operation = run[q].operation
                         /\ run[q].sequence <= run'[q].sequence
                         /\ Len(run'[q].history) <= Len(run[q].history)
    BY <1>1 DEF GoesOn
  <2>1. CASE q = p
    BY <2>1, <1>2, <1>4
  <2>2. CASE q # p
    BY <2>2, <1>4 DEF NotifyIInv, RunOK
  <2> QED
    BY <2>1, <2>2
<1>8. Marks' \subseteq Marks
  <2>1. Requests' = Requests
    BY <1>1 DEF Requests
  <2> QED
    BY <2>1, <1>1, <1>2, <1>3, MarksStep DEF NotifyIInv
<1>9. ReceivedOK'
  <2>1. processed' = processed
    BY <1>1
  <2>2. /\ DOMAIN told' = Webhook!Selected
        /\ \A d \in Webhook!Selected : told'[d] # None => told'[d] = told[d]
    BY <1>1
  <2> HIDE <1>1
  <2> QED
    BY <2>1, <2>2 DEF NotifyIInv, ReceivedOK
<1> QED
  BY <1>6, <1>7, <1>8, <1>9 DEF Kept

LEMMA Shortened ==
  ASSUME NEW h \in Seq(STRING), h # <<>>
  PROVE  /\ Len(h) \in Nat /\ Len(Tail(h)) = Len(h) - 1
         /\ Tail(h) \in Seq(STRING) /\ Head(h) \in STRING
<1>1. Len(h) \in Nat /\ Len(h) > 0
  OBVIOUS
<1>2. Tail(h) \in Seq(STRING) /\ Head(h) \in STRING
  OBVIOUS
<1>3. Len(Tail(h)) = Len(h) - 1
  BY <1>1
<1> QED
  BY <1>1, <1>2, <1>3

(* The next event of an operation has a number and a place of its own.     *)
LEMMA Emitting ==
  ASSUME Webhook!NotifyAssumption, NotifyIInv, NEW p \in Commands,
         Webhook!Emit(p)
  PROVE  NotifyIInv'
<1> DEFINE n == run[p].sequence + 1
           o == run[p].operation
           e == Webhook!Event(o, n, Head(run[p].history), Len(run[p].history))
<1>1. /\ DOMAIN run[p] = Fields /\ run[p].sequence \in Nat
      /\ run[p].history \in Seq(STRING) /\ run[p].history # <<>>
      /\ run[p].at = "operation" /\ o # 0 /\ o \in started
  BY DEF Webhook!Emit, NotifyIInv, RunOK
<1>2. PICK logged \in {FALSE, run[p].recording} :
        /\ log' = IF logged THEN log \cup {e} ELSE log
        /\ run' = [run EXCEPT ![p] = [run[p] EXCEPT
                     !.at = "deliver", !.sequence = @ + 1, !.event = e,
                     !.history = Tail(@), !.recording = logged,
                     !.queue = Webhook!Queue(run[p].targets, e.type), !.attempt = 1]]
  BY DEF Webhook!Emit
<1>3. UNCHANGED <<started, told, sent, processed>>
  BY DEF Webhook!Emit
<1> DEFINE r == [run[p] EXCEPT
                   !.at = "deliver", !.sequence = @ + 1, !.event = e,
                   !.history = Tail(@), !.recording = logged,
                   !.queue = Webhook!Queue(run[p].targets, e.type), !.attempt = 1]
<1>4. /\ DOMAIN r = Fields /\ r.sequence = n /\ r.event = e
      /\ r.history = Tail(run[p].history) /\ r.operation = o /\ r.at = "deliver"
  BY <1>1 DEF Fields
<1>5. run' = [run EXCEPT ![p] = r]
  BY <1>2
<1> HIDE DEF r, n, o, e
<1>6. run'[p] = r /\ \A q \in Commands \ {p} : run'[q] = run[q]
  BY <1>5 DEF NotifyIInv, RunOK
<1>7. /\ n \in Nat /\ n = run[p].sequence + 1
      /\ Len(run[p].history) \in Nat
      /\ Len(r.history) = Len(run[p].history) - 1
      /\ r.history \in Seq(STRING) /\ Head(run[p].history) \in STRING
  <2>1. /\ Len(run[p].history) \in Nat
        /\ Len(Tail(run[p].history)) = Len(run[p].history) - 1
        /\ Tail(run[p].history) \in Seq(STRING)
        /\ Head(run[p].history) \in STRING
    BY <1>1, Shortened
  <2>2. n \in Nat /\ n = run[p].sequence + 1
    BY <1>1 DEF n
  <2> QED
    BY <2>1, <2>2, <1>4
<1>8. RunOK' /\ GoesOn
  <2>1. /\ started' = started /\ r.at # "operation" /\ r.operation # 0
        /\ r.operation = run[p].operation
    BY <1>1, <1>3, <1>4 DEF o
  <2>2. /\ r.sequence \in Nat /\ run[p].sequence <= r.sequence
        /\ Len(r.history) <= Len(run[p].history)
    BY <1>1, <1>4, <1>7
  <2>3. RunOK /\ DOMAIN r = Fields /\ r.history \in Seq(STRING)
    BY <1>4, <1>7 DEF NotifyIInv
  <2> QED
    BY <2>1, <2>2, <2>3, <1>5, RunStep
<1>9. /\ Webhook!IdempotencyKey(e) = <<o, n, Head(run[p].history)>>
      /\ Webhook!Transition(e) = <<o, Len(run[p].history)>>
  BY DEF e, Webhook!Event, Webhook!IdempotencyKey, Webhook!Transition
<1> DEFINE new == <<Webhook!IdempotencyKey(e), Webhook!Transition(e)>>
<1>10. \A a \in Marks' : a \in Marks \/ a = new
  <2>1. \A f \in Events' : f \in Events \/ f = e
    BY <1>2, <1>4, <1>6 DEF Events, Active
  <2>2. Requests' = Requests
    BY <1>3 DEF Requests
  <2> QED
    BY <2>1, <2>2 DEF Marks, Webhook!IdempotencyKey, Webhook!Transition
<1>11. o \in Operations
  BY <1>1 DEF NotifyIInv, RunOK
<1>12. Marks' \subseteq AllMarks
  BY <1>7, <1>9, <1>10, <1>11 DEF NotifyIInv, AllMarks
<1>13. \A a \in Marks : a[1] # new[1] /\ a[2] # new[2]
  <2> SUFFICES ASSUME NEW a \in Marks
               PROVE  a[1] # new[1] /\ a[2] # new[2]
    OBVIOUS
  <2>1. /\ a[1][1] = a[2][1]
        /\ o = a[1][1] => /\ a[1][2] <= run[p].sequence
                          /\ a[2][2] > Len(run[p].history)
        /\ a[1][2] \in Nat /\ a[2][2] \in Nat
    BY DEF NotifyIInv, Past, AllMarks, o
  <2>2. a[1] = new[1] => a[1][1] = o /\ a[1][2] = n
    BY <1>9
  <2>3. a[2] = new[2] => a[2][1] = o /\ a[2][2] = Len(run[p].history)
    BY <1>9
  <2> QED
    BY <1>1, <1>7, <2>1, <2>2, <2>3
<1>14. OneToOne'
  <2> SUFFICES ASSUME NEW a \in Marks', NEW b \in Marks'
               PROVE  a[1] = b[1] <=> a[2] = b[2]
    BY DEF OneToOne
  <2>1. a \in Marks /\ b \in Marks => (a[1] = b[1] <=> a[2] = b[2])
    BY DEF NotifyIInv, OneToOne
  <2> HIDE DEF new
  <2> QED
    BY <2>1, <1>10, <1>13
<1>15. Past'
  <2> SUFFICES ASSUME NEW a \in Marks'
               PROVE  /\ a[1][1] = a[2][1]
                      /\ a[1][1] \in started'
                      /\ \A q \in Commands :
                           run'[q].operation = a[1][1] =>
                             /\ a[1][2] <= run'[q].sequence
                             /\ a[2][2] > Len(run'[q].history)
    BY DEF Past
  <2>1. CASE a \in Marks
    <3>1. /\ a[1][1] = a[2][1] /\ a[1][1] \in started
          /\ a[1][2] \in Nat /\ a[2][2] \in Nat
          /\ \A q \in Commands : run[q].operation = a[1][1] =>
               /\ a[1][2] <= run[q].sequence
               /\ a[2][2] > Len(run[q].history)
      BY <2>1 DEF NotifyIInv, Past, AllMarks
    <3>2. ASSUME NEW q \in Commands, run'[q].operation = a[1][1]
          PROVE  a[1][2] <= run'[q].sequence /\ a[2][2] > Len(run'[q].history)
      <4>1. CASE q = p
        <5>1. run'[q].operation = run[p].operation
          BY <4>1, <1>4, <1>6 DEF o
        <5>2. a[1][2] <= run[p].sequence /\ a[2][2] > Len(run[p].history)
          BY <5>1, <3>1, <3>2
        <5>3. /\ run'[q].sequence = run[p].sequence + 1
              /\ Len(run'[q].history) = Len(run[p].history) - 1
              /\ Len(run[p].history) \in Nat /\ run[p].sequence \in Nat
          BY <4>1, <1>1, <1>4, <1>6, <1>7
        <5> QED
          BY <5>2, <5>3, <3>1
      <4>2. CASE q # p
        BY <3>1, <3>2, <4>2, <1>6
      <4> QED
        BY <4>1, <4>2
    <3> QED
      BY <3>1, <3>2, <1>3
  <2>2. CASE a = new
    <3>1. /\ a[1][1] = o /\ a[2][1] = o
          /\ a[1][2] = n /\ a[2][2] = Len(run[p].history)
      BY <2>2, <1>9
    <3>2. ASSUME NEW q \in Commands, run'[q].operation = o
          PROVE  n <= run'[q].sequence /\ Len(run[p].history) > Len(run'[q].history)
      <4>1. CASE q = p
        <5>1. /\ run'[q].sequence = n
              /\ Len(run'[q].history) = Len(run[p].history) - 1
          BY <4>1, <1>4, <1>6, <1>7
        <5>2. n \in Nat /\ Len(run[p].history) \in Nat
          BY <1>7
        <5> QED
          BY <5>1, <5>2
      <4>2. CASE q # p
        BY <3>2, <4>2, <1>1, <1>6 DEF NotifyIInv, RunOK, o
      <4> QED
        BY <4>1, <4>2
    <3> QED
      BY <3>1, <3>2, <1>1, <1>3
  <2> QED
    BY <2>1, <2>2, <1>10
<1>16. ReceivedOK'
  BY <1>3 DEF NotifyIInv, ReceivedOK
<1> QED
  BY <1>8, <1>12, <1>14, <1>15, <1>16 DEF NotifyIInv

LEMMA Killed ==
  ASSUME Webhook!NotifyAssumption, NotifyIInv, NEW p \in Commands,
         Webhook!Kill(p)
  PROVE  Kept
BY BecomesIdle DEF Webhook!Kill

-----------------------------------------------------------------------------
LEMMA NotifyInitially == Webhook!Init => NotifyIInv
<1> SUFFICES ASSUME Webhook!Init PROVE NotifyIInv
  OBVIOUS
<1>1. \A p \in Commands : run[p] = Webhook!Idle
  BY DEF Webhook!Init
<1>2. \A p \in Commands : ~ Active(p)
  BY <1>1, IdleFields DEF Active
<1>3. RunOK
  <2>1. 0 \in Nat
    OBVIOUS
  <2> QED
    BY <1>1, <1>2, <2>1, IdleFields DEF Webhook!Init, RunOK
<1>4. Marks = {}
  <2>1. Events = {}
    BY <1>2 DEF Webhook!Init, Events
  <2>2. Requests = {}
    BY DEF Webhook!Init, Requests
  <2> QED
    BY <2>1, <2>2 DEF Marks
<1>5. ReceivedOK
  BY DEF Webhook!Init, ReceivedOK
<1> QED
  BY <1>3, <1>4, <1>5 DEF NotifyIInv, OneToOne, Past

LEMMA NotifyConsecution ==
  ASSUME Webhook!NotifyAssumption, NotifyIInv, [Webhook!Next]_notifyVars
  PROVE  NotifyIInv'
<1>1. ASSUME NEW p \in Commands, Webhook!Begin(p)
      PROVE  NotifyIInv'
  BY <1>1, BeginningToNotify, KeptIsEnough
<1>2. ASSUME NEW p \in Commands, Webhook!Emit(p)
      PROVE  NotifyIInv'
  BY <1>2, Emitting
<1>3. ASSUME NEW p \in Commands, Webhook!Return(p)
      PROVE  NotifyIInv'
  BY <1>3, Returning, KeptIsEnough
<1>4. ASSUME NEW p \in Commands, Webhook!Replay(p)
      PROVE  NotifyIInv'
  BY <1>4, Replaying, KeptIsEnough
<1>5. ASSUME NEW p \in Commands,
             Webhook!NotDeliverable(p) \/ Webhook!Rejected(p) \/ Webhook!Cancelled(p)
      PROVE  NotifyIInv'
  BY <1>5, NotDelivering, KeptIsEnough
<1>6. ASSUME NEW p \in Commands, Webhook!Accepted(p)
      PROVE  NotifyIInv'
  BY <1>6, Arriving, KeptIsEnough
<1>7. ASSUME NEW p \in Commands, Webhook!Unanswered(p)
      PROVE  NotifyIInv'
  BY <1>7, Sending, KeptIsEnough
<1>8. ASSUME NEW p \in Commands, Webhook!Retry(p) \/ Webhook!Interrupt(p)
      PROVE  NotifyIInv'
  BY <1>8, WaitingToRetry, KeptIsEnough
<1>9. ASSUME NEW p \in Commands, Webhook!Kill(p)
      PROVE  NotifyIInv'
  BY <1>9, Killed, KeptIsEnough
<1>10. CASE Webhook!Arrive
  BY <1>10, ArrivingLate, KeptIsEnough
<1>11. CASE UNCHANGED notifyVars
  <2>1. Marks' = Marks
    BY <1>11 DEF notifyVars, Marks, Events, Requests, Active,
       Webhook!IdempotencyKey, Webhook!Transition
  <2>2. RunOK' /\ ReceivedOK'
    BY <1>11 DEF notifyVars, NotifyIInv, RunOK, ReceivedOK, Active
  <2>3. OneToOne' /\ Past' /\ Marks' \subseteq AllMarks
    BY <1>11, <2>1 DEF notifyVars, NotifyIInv, OneToOne, Past
  <2> QED
    BY <2>2, <2>3 DEF NotifyIInv
<1> QED
  BY <1>1, <1>2, <1>3, <1>4, <1>5, <1>6, <1>7, <1>8, <1>9, <1>10, <1>11
     DEF Webhook!Next

LEMMA OnceFollows == NotifyIInv => Webhook!OncePerTransition
<1> SUFFICES ASSUME NotifyIInv, NEW d \in Webhook!Selected
             PROVE  /\ \A m, n \in processed[d] :
                         m.transition = n.transition => m = n
                    /\ told[d] # None /\ told[d].delivered =>
                         told[d].transition \in {m.transition : m \in processed[d]}
  BY DEF Webhook!OncePerTransition
<1>1. ASSUME NEW m \in processed[d], NEW n \in processed[d],
             m.transition = n.transition
      PROVE  m = n
  <2>1. m \in Requests /\ n \in Requests
    BY DEF Requests
  <2>2. <<m.key, m.transition>> \in Marks /\ <<n.key, n.transition>> \in Marks
    BY <2>1 DEF Marks
  <2>3. m.key = n.key
    BY <1>1, <2>2 DEF NotifyIInv, OneToOne
  <2> QED
    BY <2>3 DEF NotifyIInv, ReceivedOK
<1> QED
  BY <1>1 DEF NotifyIInv, ReceivedOK

LEMMA NotifyKept ==
  ASSUME NotifyIInv, [HostNext]_hostVars
  PROVE  NotifyIInv'
<1>1. CASE UNCHANGED notifyVars
  BY <1>1, NotifyConsecution, ReplayHasNoOperation
<1>2. CASE Webhook!Next
  BY <1>2, NotifyConsecution, ReplayHasNoOperation
<1> QED
  BY <1>1, <1>2 DEF HostNext, StoreStep, ScopeStep, CredentialStep, NotifyStep,
                    ScheduleStep, hostVars

(* A destination that discards repeats (webhook.go, IdempotencyKey)        *)
(* processes every transition at most once, and what status shows as       *)
(* delivered was processed: for every number of processes, destinations,   *)
(* attempts, replays and delays.                                           *)
THEOREM OnceCorrect == HostSpec => []OncePerTransition
<1>1. HostInit => NotifyIInv
  BY NotifyInitially DEF HostInit
<1>2. NotifyIInv /\ [HostNext]_hostVars => NotifyIInv'
  BY NotifyKept
<1>3. NotifyIInv => OncePerTransition
  BY OnceFollows DEF OncePerTransition
<1> QED
  BY <1>1, <1>2, <1>3, PTL DEF HostSpec
=============================================================================
