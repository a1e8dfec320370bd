---------------------------- MODULE EventLogProofs ----------------------------
(***************************************************************************)
(* Theorems about EventLog for any number of processes, any number of      *)
(* events and any maximum.                                                 *)
(***************************************************************************)
EXTENDS EventLog, FiniteSetTheorems, TLAPS

(* Whoever writes has a file open; whoever renames has seen a full file,   *)
(* and files never shrink.                                                 *)
Opened == \A p \in Processes : pc[p] = "write" => handle[p] # 0

SeenFull ==
  \A p \in Processes :
    pc[p] = "rotate" => looked[p] # 0 /\ Size(looked[p]) >= MaxLines

(* One file has one name.                                                  *)
Apart == current # 0 => rotated # current

(* The processes whose next write may be to f.                             *)
Writers(f) ==
  {p \in Processes : \/ pc[p] = "write" /\ handle[p] = f
                     \/ pc[p] = "open" /\ current = f}

(* Whoever filled a file is no longer one of its writers, and nobody       *)
(* becomes one afterwards.                                                 *)
FewWriters ==
  \A f \in 1..Len(files) :
    Len(files[f]) >= MaxLines =>
      Len(files[f]) + Cardinality(Writers(f)) <= MaxLines + Cardinality(Processes) - 1

(* Undisturbed, the last writes are those of the current file, before them *)
(* those of the rotated one, and that one is full.                         *)
LastWrites ==
  /\ rotated = 0 => Len(written) = Size(current)
  /\ rotated # 0 => Size(rotated) >= MaxLines
  /\ \A i \in 1..Len(written) :
       /\ i > Len(written) - Size(current) => written[i] = current
       /\ i > Len(written) - Size(current) - Size(rotated) => written[i] \in Kept

Undisturbed == ~moved => LastWrites

(* Whoever is in Emit has an event to record.                              *)
Begun == \A p \in Processes : pc[p] \notin {"idle", "failed"} => emits[p] # 0

IInv ==
  TypeOK /\ Begun /\ Opened /\ SeenFull /\ Apart /\ FewWriters /\ Undisturbed

-----------------------------------------------------------------------------
LEMMA SizeType ==
  ASSUME TypeOK, NEW f \in 0..Len(files)
  PROVE  Size(f) \in Nat
BY DEF TypeOK, Size

LEMMA WritersFinite ==
  ASSUME NEW f
  PROVE  /\ IsFiniteSet(Writers(f))
         /\ Cardinality(Writers(f)) \in Nat
         /\ Cardinality(Processes) \in Nat
BY EventLogAssumption, FS_Subset, FS_CardinalityType DEF Writers

(* Fewer writers and the same files keep FewWriters.                       *)
LEMMA WritersShrink ==
  ASSUME TypeOK, FewWriters, files' = files,
         \A f \in 1..Len(files) :
           Len(files[f]) >= MaxLines => Writers(f)' \subseteq Writers(f)
  PROVE  FewWriters'
<1> SUFFICES ASSUME NEW f \in 1..Len(files), Len(files[f]) >= MaxLines
             PROVE  Len(files[f]) + Cardinality(Writers(f)')
                      <= MaxLines + Cardinality(Processes) - 1
  BY DEF FewWriters
<1>1. Cardinality(Writers(f)') <= Cardinality(Writers(f))
  BY WritersFinite, FS_Subset
<1>2. IsFiniteSet(Writers(f)') /\ Cardinality(Writers(f)') \in Nat
  BY WritersFinite, FS_Subset, FS_CardinalityType
<1>3. Len(files[f]) \in Nat
  BY DEF TypeOK
<1> QED
  BY <1>1, <1>2, <1>3, WritersFinite, EventLogAssumption DEF FewWriters

(* A step that leaves the log alone.                                       *)
LEMMA LogUnchanged ==
  ASSUME Undisturbed, UNCHANGED <<files, current, rotated, written, moved>>
  PROVE  Undisturbed'
BY DEF Undisturbed, LastWrites, Size, Kept

LEMMA InitStep == Init => IInv
<1> SUFFICES ASSUME Init PROVE IInv
  OBVIOUS
<1>1. TypeOK
  <2>1. /\ files \in Seq(Seq([event : Events, cut : Cuts]))
        /\ written \in Seq(1..Len(files))
    BY DEF Init
  <2>2. 0 \in 0..Len(files) /\ 0 \in 0..MaxEmits
    BY EventLogAssumption DEF Init
  <2> QED
    BY <2>1, <2>2 DEF Init, TypeOK
<1>2. Begun /\ Opened /\ SeenFull /\ Apart /\ FewWriters /\ Undisturbed
  BY DEF Init, Begun, Opened, SeenFull, Apart, FewWriters, Undisturbed, LastWrites, Size
<1> QED
  BY <1>1, <1>2 DEF IInv

LEMMA EmitStep ==
  ASSUME IInv, NEW p \in Processes, Emit(p)
  PROVE  IInv'
<1> USE DEF IInv, Emit, GoTo
<1>1. TypeOK'
  BY EventLogAssumption DEF TypeOK
<1>2. Begun' /\ Opened' /\ SeenFull' /\ Apart'
  BY EventLogAssumption DEF TypeOK, Begun, Opened, SeenFull, Apart, Size
<1>3. FewWriters'
  BY WritersShrink DEF TypeOK, Writers
<1> QED
  BY <1>1, <1>2, <1>3, LogUnchanged

LEMMA LookStep ==
  ASSUME IInv, NEW p \in Processes, Look(p)
  PROVE  IInv'
<1> USE DEF IInv, Look, GoTo
<1>1. TypeOK'
  BY DEF TypeOK
<1>2. Begun' /\ Opened' /\ Apart'
  BY DEF TypeOK, Begun, Opened, Apart
<1>3. Size(current) \in Nat
  BY SizeType DEF TypeOK
<1>4. ~Room => current # 0 /\ Size(current) >= MaxLines
  BY <1>3, EventLogAssumption DEF Room, Size
<1>5. SeenFull'
  BY <1>4 DEF TypeOK, SeenFull, Size
<1>6. FewWriters'
  <2>1. \A f \in 1..Len(files) :
          Len(files[f]) >= MaxLines => Writers(f)' \subseteq Writers(f)
    <3>1. CASE Room
      <4>1. \A f \in 1..Len(files) : Len(files[f]) >= MaxLines => f # current
        BY <3>1, <1>3, EventLogAssumption DEF Room, Size, TypeOK
      <4> QED
        BY <3>1, <4>1 DEF Writers, TypeOK
    <3>2. CASE ~Room
      BY <3>2 DEF Writers, TypeOK
    <3> QED
      BY <3>1, <3>2
  <2> QED
    BY <2>1, WritersShrink
<1> QED
  BY <1>1, <1>2, <1>5, <1>6, LogUnchanged

LEMMA RotateStep ==
  ASSUME IInv, NEW p \in Processes, Rotate(p)
  PROVE  IInv'
<1> USE DEF IInv, Rotate, GoTo
<1>1. TypeOK'
  BY DEF TypeOK
<1>2. Begun' /\ Opened' /\ SeenFull' /\ Apart'
  BY EventLogAssumption DEF TypeOK, Begun, Opened, SeenFull, Apart, Size
<1>3. FewWriters'
  BY WritersShrink DEF TypeOK, Writers
<1>4. Undisturbed'
  <2> SUFFICES ASSUME ~moved' PROVE LastWrites'
    BY DEF Undisturbed
  <2>1. ~moved /\ current = looked[p] /\ LastWrites
    BY DEF Undisturbed, TypeOK
  <2>2. Size(current) >= MaxLines
    BY <2>1 DEF SeenFull
  <2>3. /\ Size(rotated)' = Size(current)
        /\ Size(current)' = 0
    BY DEF Size
  <2>4. Size(current) \in Nat /\ Len(written) \in Nat
    BY SizeType DEF TypeOK
  <2>5. \A i \in 1..Len(written) :
          i > Len(written) - Size(current) => written[i] \in Kept'
    BY <2>1 DEF LastWrites, Kept
  <2> QED
    BY <2>2, <2>3, <2>4, <2>5 DEF LastWrites
<1> QED
  BY <1>1, <1>2, <1>3, <1>4

LEMMA OpenStep ==
  ASSUME IInv, NEW p \in Processes, Open(p)
  PROVE  IInv'
<1> USE DEF IInv, Open, GoTo
<1>1. CASE current # 0
  <2>0. UNCHANGED <<files, current>>
    BY <1>1
  <2>1. TypeOK'
    BY <2>0 DEF TypeOK
  <2>2. Begun' /\ Opened' /\ SeenFull' /\ Apart'
    BY <1>1, <2>0 DEF TypeOK, Begun, Opened, SeenFull, Apart, Size
  <2>3. FewWriters'
    BY <2>0, WritersShrink DEF TypeOK, Writers
  <2> QED
    BY <2>0, <2>1, <2>2, <2>3, LogUnchanged
<1>2. CASE current = 0
  <2>0. files' = Append(files, <<>>) /\ current' = Len(files) + 1
    BY <1>2
  <2>1. /\ files' \in Seq(Seq([event : Events, cut : Cuts]))
        /\ Len(files') = Len(files) + 1
        /\ Len(files) \in Nat
        /\ files'[Len(files) + 1] = <<>>
        /\ \A f \in 1..Len(files) : files'[f] = files[f]
    BY <2>0 DEF TypeOK
  <2>2. TypeOK'
    <3>1. written' \in Seq(1..Len(files'))
      BY <2>1 DEF TypeOK
    <3>2. /\ current' \in 0..Len(files')
          /\ rotated' \in 0..Len(files')
          /\ looked' \in [Processes -> 0..Len(files')]
          /\ handle' \in [Processes -> 0..Len(files')]
      BY <2>0, <2>1 DEF TypeOK
    <3> QED
      BY <2>1, <3>1, <3>2 DEF TypeOK
  <2>3. \A f \in 0..Len(files) : Size(f)' = Size(f)
    BY <2>1 DEF Size
  <2>4. Begun' /\ Opened' /\ Apart'
    BY <2>0, <2>1 DEF TypeOK, Begun, Opened, Apart
  <2>5. SeenFull'
    BY <2>3 DEF TypeOK, SeenFull
  <2>6. FewWriters'
    <3> SUFFICES ASSUME NEW f \in 1..Len(files'), Len(files'[f]) >= MaxLines
                 PROVE  Len(files'[f]) + Cardinality(Writers(f)')
                          <= MaxLines + Cardinality(Processes) - 1
      BY DEF FewWriters
    <3>1. f \in 1..Len(files) /\ files'[f] = files[f]
      BY <2>1, EventLogAssumption
    <3>2. Writers(f)' \subseteq Writers(f)
      BY <2>0, <3>1 DEF TypeOK, Writers
    <3>3. /\ Cardinality(Writers(f)') <= Cardinality(Writers(f))
          /\ Cardinality(Writers(f)') \in Nat
      BY <3>2, WritersFinite, FS_Subset, FS_CardinalityType
    <3>4. Len(files[f]) \in Nat
      BY <3>1 DEF TypeOK
    <3> QED
      BY <3>1, <3>3, <3>4, WritersFinite, EventLogAssumption DEF FewWriters
  <2>7. Undisturbed'
    <3> SUFFICES ASSUME ~moved PROVE LastWrites'
      BY DEF Undisturbed
    <3>1. Size(current)' = 0 /\ Size(current) = 0 /\ Size(rotated)' = Size(rotated)
      BY <1>2, <2>0, <2>1, <2>3 DEF Size, TypeOK
    <3>2. Kept \subseteq Kept'
      BY <1>2 DEF Kept
    <3>3. Size(rotated) \in Nat /\ Len(written) \in Nat /\ LastWrites
      BY SizeType DEF TypeOK, Undisturbed
    <3> QED
      BY <3>1, <3>2, <3>3 DEF LastWrites
  <2> QED
    BY <2>2, <2>4, <2>5, <2>6, <2>7
<1> QED
  BY <1>1, <1>2

(* Whole or cut short, a write adds one line to the file that is open.     *)
LEMMA WriteStep ==
  ASSUME IInv, NEW p \in Processes, pc[p] = "write",
         NEW cut \in Cuts, WriteTo(p, cut),
         NEW l \in {"sync", "failed"}, GoTo(p, l)
  PROVE  IInv'
<1> USE DEF IInv, GoTo
<1> DEFINE h == handle[p]
<1>1. h \in 1..Len(files) /\ Len(files) \in Nat
  BY DEF TypeOK, Opened
<1>2. Event(p) \in Events
  <2>1. emits[p] \in 1..MaxEmits
    <3>1. emits[p] \in 0..MaxEmits
      BY DEF TypeOK
    <3>2. emits[p] # 0
      BY DEF Begun
    <3> QED
      BY <3>1, <3>2, EventLogAssumption
  <2> QED
    BY <2>1, EventLogAssumption DEF Event, Events
<1>3. /\ Len(files') = Len(files)
      /\ files' \in Seq(Seq([event : Events, cut : Cuts]))
      /\ Len(files'[h]) = Len(files[h]) + 1
      /\ Len(files[h]) \in Nat
      /\ \A f \in 1..Len(files) \ {h} : files'[f] = files[f]
  BY <1>1, <1>2 DEF WriteTo, TypeOK
<1>4. /\ Len(written') = Len(written) + 1
      /\ Len(written) \in Nat
      /\ written'[Len(written) + 1] = h
      /\ \A i \in 1..Len(written) : written'[i] = written[i]
      /\ written' \in Seq(1..Len(files))
  BY <1>1 DEF WriteTo, TypeOK
<1>5. TypeOK'
  BY <1>3, <1>4 DEF WriteTo, TypeOK
<1>6. Begun' /\ Opened' /\ Apart'
  BY DEF WriteTo, TypeOK, Begun, Opened, Apart
<1>7. SeenFull'
  <2>1. \A f \in 0..Len(files) : Size(f)' >= Size(f) /\ Size(f) \in Nat
    <3> SUFFICES ASSUME NEW f \in 0..Len(files)
                 PROVE  Size(f)' >= Size(f) /\ Size(f) \in Nat
      OBVIOUS
    <3>1. Size(f) \in Nat
      BY SizeType
    <3>2. CASE f = h
      BY <1>1, <1>3, <3>2 DEF Size
    <3>3. CASE f # h
      BY <1>1, <1>3, <3>1, <3>3 DEF Size
    <3> QED
      BY <3>1, <3>2, <3>3
  <2>2. SUFFICES ASSUME NEW q \in Processes, pc'[q] = "rotate"
                 PROVE  looked[q] # 0 /\ Size(looked[q])' >= MaxLines
    BY DEF SeenFull, WriteTo, Size
  <2>3. pc[q] = "rotate" /\ looked[q] \in 0..Len(files)
    BY <2>2 DEF TypeOK
  <2>4. /\ looked[q] # 0
        /\ Size(looked[q]) >= MaxLines
        /\ Size(looked[q])' >= Size(looked[q])
        /\ Size(looked[q]) \in Nat
    BY <2>1, <2>3 DEF SeenFull, WriteTo, Size
  <2>5. Size(looked[q])' \in Nat
    BY <1>3, <2>3, <2>4 DEF Size, TypeOK, WriteTo
  <2> QED
    BY <2>4, <2>5, EventLogAssumption
<1>8. FewWriters'
  <2> SUFFICES ASSUME NEW f \in 1..Len(files), Len(files'[f]) >= MaxLines
               PROVE  Len(files'[f]) + Cardinality(Writers(f)')
                        <= MaxLines + Cardinality(Processes) - 1
    BY <1>3 DEF FewWriters
  <2>1. Writers(f)' \subseteq Writers(f) \ {p}
    BY DEF Writers, WriteTo, TypeOK
  <2>2. Len(files[f]) \in Nat
    BY DEF TypeOK
  <2>3. CASE f # h
    <3>1. files'[f] = files[f]
      BY <2>3, <1>3
    <3>2. /\ Cardinality(Writers(f)') <= Cardinality(Writers(f))
          /\ Cardinality(Writers(f)') \in Nat
      BY <2>1, WritersFinite, FS_Subset, FS_CardinalityType
    <3> QED
      BY <2>2, <3>1, <3>2, WritersFinite, EventLogAssumption DEF FewWriters
  <2>4. CASE f = h
    <3>1. p \in Writers(f)
      BY <2>4 DEF Writers
    <3>2. /\ IsFiniteSet(Writers(f) \ {p})
          /\ Cardinality(Writers(f) \ {p}) = Cardinality(Writers(f)) - 1
      BY <3>1, WritersFinite, FS_RemoveElement
    <3>3. /\ Cardinality(Writers(f)') <= Cardinality(Writers(f)) - 1
          /\ Cardinality(Writers(f)') \in Nat
      BY <2>1, <3>2, FS_Subset, FS_CardinalityType
    <3>4. Cardinality(Writers(f)) <= Cardinality(Processes)
      BY EventLogAssumption, FS_Subset DEF Writers
    <3>5. CASE Len(files[f]) >= MaxLines
      BY <2>2, <2>4, <3>3, <3>5, <1>3, WritersFinite, EventLogAssumption DEF FewWriters
    <3>6. CASE ~(Len(files[f]) >= MaxLines)
      BY <2>2, <2>4, <3>3, <3>4, <3>6, <1>3, WritersFinite, EventLogAssumption
    <3> QED
      BY <3>5, <3>6
  <2> QED
    BY <2>3, <2>4
<1>9. Undisturbed'
  <2> SUFFICES ASSUME ~moved' PROVE LastWrites'
    BY DEF Undisturbed
  <2>1. ~moved /\ h = current /\ LastWrites
    BY DEF Undisturbed, WriteTo, TypeOK
  <2>2. rotated' = rotated /\ current' = current /\ Kept' = Kept /\ current \in Kept
    BY <2>1, <1>1 DEF WriteTo, Kept
  <2>3. /\ Size(current)' = Size(current) + 1
        /\ Size(current) \in Nat
        /\ Size(rotated) \in Nat
    <3>1. Size(current)' = Size(current) + 1
      BY <1>1, <1>3, <2>1, <2>2 DEF Size
    <3> QED
      BY <3>1, SizeType DEF TypeOK
  <2>4. Size(rotated)' = Size(rotated)
    BY <1>1, <1>3, <2>1, <2>2 DEF Size, TypeOK, Apart
  <2>5. ASSUME NEW i \in 1..Len(written)
        PROVE  /\ i > Len(written') - Size(current)' => written'[i] = current'
               /\ i > Len(written') - Size(current)' - Size(rotated)'
                    => written'[i] \in Kept'
    <3>1. /\ i > Len(written) - Size(current) => written[i] = current
          /\ i > Len(written) - Size(current) - Size(rotated) => written[i] \in Kept
      BY <2>1 DEF LastWrites
    <3>2. /\ Len(written') - Size(current)' = Len(written) - Size(current)
          /\ Len(written') - Size(current)' - Size(rotated)'
               = Len(written) - Size(current) - Size(rotated)
      BY <1>4, <2>3, <2>4
    <3> QED
      BY <1>4, <2>2, <3>1, <3>2
  <2>6. /\ rotated' = 0 => Len(written') = Size(current)'
        /\ rotated' # 0 => Size(rotated)' >= MaxLines
    BY <1>4, <2>1, <2>2, <2>3, <2>4 DEF LastWrites
  <2>7. \A i \in 1..Len(written') : i \in 1..Len(written) \/ i = Len(written) + 1
    BY <1>4
  <2> QED
    BY <1>4, <2>1, <2>2, <2>5, <2>6, <2>7 DEF LastWrites
<1> QED
  BY <1>5, <1>6, <1>7, <1>8, <1>9

LEMMA SyncStep ==
  ASSUME IInv, NEW p \in Processes, Sync(p)
  PROVE  IInv'
<1> USE DEF IInv, Sync, GoTo
<1>1. TypeOK'
  <2>1. emits[p] \in 1..MaxEmits
    <3>1. emits[p] \in 0..MaxEmits
      BY DEF TypeOK
    <3>2. emits[p] # 0
      BY DEF Begun
    <3> QED
      BY <3>1, <3>2, EventLogAssumption
  <2>2. recorded' \subseteq Events
    BY <2>1 DEF TypeOK, Event, Events
  <2> QED
    BY <2>2 DEF TypeOK
<1>2. Begun' /\ Opened' /\ SeenFull' /\ Apart'
  BY DEF TypeOK, Begun, Opened, SeenFull, Apart, Size
<1>3. FewWriters'
  BY WritersShrink DEF TypeOK, Writers
<1> QED
  BY <1>1, <1>2, <1>3, LogUnchanged

LEMMA FailStep ==
  ASSUME IInv, NEW p \in Processes, EmitFails(p)
  PROVE  IInv'
<1> USE DEF IInv, EmitFails, Fail, GoTo
<1>1. TypeOK'
  BY DEF TypeOK
<1>2. Begun' /\ Opened' /\ SeenFull' /\ Apart'
  BY EventLogAssumption DEF TypeOK, Begun, Opened, SeenFull, Apart, Size
<1>3. FewWriters'
  BY WritersShrink DEF TypeOK, Writers
<1> QED
  BY <1>1, <1>2, <1>3, LogUnchanged

LEMMA NextStep == IInv /\ [Next]_vars => IInv'
<1> SUFFICES ASSUME IInv, [Next]_vars PROVE IInv'
  OBVIOUS
<1>1. CASE UNCHANGED vars
  BY <1>1 DEF vars, IInv, TypeOK, Begun, Opened, SeenFull, Apart, FewWriters, Writers,
              Undisturbed, LastWrites, Size, Kept
<1>2. ASSUME NEW p \in Processes, Write(p) PROVE IInv'
  BY <1>2, WriteStep DEF Write, Cuts
<1>3. ASSUME NEW p \in Processes, WriteShort(p) PROVE IInv'
  BY <1>3, WriteStep DEF WriteShort, Fail
<1> QED
  BY <1>1, <1>2, <1>3, EmitStep, LookStep, RotateStep, OpenStep, SyncStep, FailStep
  DEF Next

THEOREM Inductive == Spec => []IInv
BY InitStep, NextStep, PTL DEF Spec

-----------------------------------------------------------------------------
(* Types.                                                                  *)
THEOREM TypeCorrect == Spec => []TypeOK
BY Inductive, PTL DEF IInv

(* "Disk usage has a ceiling", although the look at the size and the write *)
(* are apart: whoever fills a file leaves at most one line to each other   *)
(* process that had already looked at it.                                  *)
THEOREM Ceiling == Spec => []DiskUsageHasCeiling
<1>1. IInv => DiskUsageHasCeiling
  <2> SUFFICES ASSUME IInv, NEW f \in Kept
               PROVE  Size(f) <= MaxLines + Cardinality(Processes) - 1
    BY DEF DiskUsageHasCeiling
  <2>1. f \in 1..Len(files) /\ Len(files[f]) \in Nat /\ Size(f) = Len(files[f])
    BY DEF IInv, TypeOK, Kept, Size
  <2>2. Cardinality(Writers(f)) \in Nat /\ Cardinality(Processes) \in Nat
    BY WritersFinite
  <2>3. Len(files[f]) >= MaxLines =>
          Len(files[f]) + Cardinality(Writers(f)) <= MaxLines + Cardinality(Processes) - 1
    BY <2>1 DEF IInv, FewWriters
  <2> QED
    BY <2>1, <2>2, <2>3, EventLogAssumption
<1> QED
  BY <1>1, Inductive, PTL

(* "The newest history is always intact", as long as nobody renames or     *)
(* writes to a file that was moved since it looked.                        *)
THEOREM Newest == Spec => []NewestIsIntact
<1>1. IInv => NewestIsIntact
  <2> SUFFICES ASSUME IInv, ~moved, NEW i \in 1..Len(written),
                      i > Len(written) - MaxLines
               PROVE  written[i] \in Kept
    BY DEF NewestIsIntact
  <2>1. /\ Size(current) \in Nat
        /\ Size(rotated) \in Nat
        /\ Len(written) \in Nat
        /\ LastWrites
    BY SizeType DEF IInv, TypeOK, Undisturbed
  <2>2. i > Len(written) - Size(current) - Size(rotated)
    <3>1. CASE rotated = 0
      BY <2>1, <3>1 DEF LastWrites
    <3>2. CASE rotated # 0
      BY <2>1, <3>2, EventLogAssumption DEF LastWrites
    <3> QED
      BY <3>1, <3>2
  <2> QED
    BY <2>1, <2>2 DEF LastWrites
<1> QED
  BY <1>1, Inductive, PTL

-----------------------------------------------------------------------------
(* Damage.  An event is over when its Emit has returned, or the process    *)
(* has died in it.                                                         *)
Over(e) ==
  /\ e[2] <= emits[e[1]]
  /\ e[2] = emits[e[1]] => pc[e[1]] \in {"idle", "failed"}

Syncing(e) == e[2] = emits[e[1]] /\ pc[e[1]] = "sync"

RecordedAreOver == \A e \in recorded : Over(e)

(* There is one line for an event, so a process that was told its event is *)
(* recorded wrote all of its line.                                         *)
LineIsTrue(line) ==
  /\ Over(line.event) \/ (Syncing(line.event) /\ line.cut = "whole")
  /\ line.event \in recorded => line.cut = "whole"

LinesAreTrue ==
  \A f \in 1..Len(files) : \A k \in 1..Len(files[f]) : LineIsTrue(files[f][k])

Truth == RecordedAreOver /\ LinesAreTrue

LEMMA EmitsAreNumbered ==
  ASSUME IInv, NEW p \in Processes
  PROVE  /\ emits[p] \in Nat
         /\ pc[p] \notin {"idle", "failed"} => Event(p) \in Events
<1>1. emits[p] \in 0..MaxEmits
  BY DEF IInv, TypeOK
<1>2. pc[p] \notin {"idle", "failed"} => emits[p] # 0
  BY DEF IInv, Begun
<1> QED BY <1>1, <1>2, EventLogAssumption DEF Event, Events

LEMMA LineType ==
  ASSUME IInv, NEW f \in 1..Len(files), NEW k \in 1..Len(files[f])
  PROVE  files[f][k] \in [event : Events, cut : Cuts]
<1>1. files[f] \in Seq([event : Events, cut : Cuts])
  BY DEF IInv, TypeOK
<1>2. \A S : \A s \in Seq(S) : \A i \in 1..Len(s) : s[i] \in S
  OBVIOUS
<1> QED BY <1>1, <1>2

(* A step of a process, as one event sees it.                              *)
LEMMA EventStep ==
  ASSUME IInv, NEW e \in Events, NEW p \in Processes,
         \/ Emit(p) \/ Look(p) \/ Rotate(p) \/ Open(p) \/ Write(p) \/ WriteShort(p)
         \/ Sync(p) \/ EmitFails(p)
  PROVE  /\ Over(e) => Over(e)'
         /\ Syncing(e) => Over(e)' \/ Syncing(e)'
<1>1. e[1] \in Processes /\ e[2] \in Nat
  BY EventLogAssumption DEF Events
<1>2. emits[e[1]] \in Nat /\ emits[p] \in Nat
  BY <1>1, EmitsAreNumbered
<1>3. emits \in [Processes -> 0..MaxEmits] /\ DOMAIN pc = Processes
  BY DEF IInv, TypeOK
<1>4. CASE Emit(p)
  <2>1. CASE e[1] = p
    BY <1>1, <1>2, <1>3, <1>4, <2>1 DEF Emit, GoTo, Over, Syncing
  <2>2. CASE e[1] # p
    BY <1>1, <1>3, <1>4, <2>2 DEF Emit, GoTo, Over, Syncing
  <2> QED BY <2>1, <2>2
<1>5. CASE \/ Look(p) \/ Rotate(p) \/ Open(p) \/ Write(p) \/ WriteShort(p)
           \/ Sync(p) \/ EmitFails(p)
  <2>1. emits' = emits /\ pc[p] \notin {"idle", "failed"}
    BY <1>5 DEF Look, Rotate, Open, Write, WriteShort, WriteTo, Sync, EmitFails
  <2>2. /\ \E l : pc' = [pc EXCEPT ![p] = l]
        /\ pc[p] = "sync" => pc'[p] \in {"idle", "failed"}
    BY <1>3, <1>5
    DEF Look, Rotate, Open, Write, WriteShort, Sync, EmitFails, Fail, GoTo
  <2>3. CASE e[1] = p
    BY <1>1, <1>2, <2>1, <2>2, <2>3 DEF Over, Syncing
  <2>4. CASE e[1] # p
    BY <1>1, <1>3, <2>1, <2>2, <2>4 DEF Over, Syncing
  <2> QED BY <2>3, <2>4
<1> QED BY <1>4, <1>5

(* Steps that neither write a line nor record an event.                    *)
LEMMA TruthKept ==
  ASSUME IInv, Truth, NEW p \in Processes,
         Emit(p) \/ Look(p) \/ Rotate(p) \/ Open(p) \/ EmitFails(p)
  PROVE  Truth'
<1>1. /\ recorded' = recorded
      /\ \A f \in 1..Len(files') : \A k \in 1..Len(files'[f]) :
           f \in 1..Len(files) /\ k \in 1..Len(files[f]) /\ files'[f][k] = files[f][k]
  <2>1. files' = files \/ files' = Append(files, <<>>)
    BY DEF Emit, Look, Rotate, Open, EmitFails
  <2>2. files \in Seq(Seq([event : Events, cut : Cuts]))
    BY DEF IInv, TypeOK
  <2>3. CASE files' = Append(files, <<>>)
    <3>1. /\ Len(files') = Len(files) + 1 /\ Len(files) \in Nat
          /\ \A f \in 1..Len(files) : files'[f] = files[f]
          /\ files'[Len(files) + 1] = <<>>
      BY <2>2, <2>3
    <3>2. \A f \in 1..Len(files') : f \in 1..Len(files) \/ f = Len(files) + 1
      BY <3>1
    <3>3. 1..Len(<<>>) = {}
      OBVIOUS
    <3>4. recorded' = recorded
      BY DEF Emit, Look, Rotate, Open, EmitFails
    <3> QED BY <3>1, <3>2, <3>3, <3>4
  <2> QED BY <2>1, <2>3 DEF Emit, Look, Rotate, Open, EmitFails
<1>2. RecordedAreOver'
  BY <1>1, EventStep DEF Truth, RecordedAreOver, IInv, TypeOK
<1>3. ASSUME NEW f \in 1..Len(files'), NEW k \in 1..Len(files'[f]),
             NEW line, line = files'[f][k]
      PROVE  LineIsTrue(line)'
  <2>1. LineIsTrue(line)
    BY <1>1, <1>3 DEF Truth, LinesAreTrue
  <2>2. line.event \in Events
    BY <1>1, <1>3, LineType
  <2> QED BY <1>1, <2>1, <2>2, EventStep DEF LineIsTrue
<1> QED BY <1>2, <1>3 DEF Truth, LinesAreTrue

(* The new line is the first of its event.                                 *)
LEMMA TruthWritten ==
  ASSUME IInv, Truth, NEW p \in Processes, Write(p) \/ WriteShort(p)
  PROVE  Truth'
<1> DEFINE h == handle[p]
<1>1. PICK cut \in Cuts : /\ WriteTo(p, cut)
                          /\ \/ cut = "whole" /\ GoTo(p, "sync")
                             \/ GoTo(p, "failed")
  BY DEF Write, WriteShort, Fail, Cuts
<1>2. pc[p] = "write" /\ recorded' = recorded /\ emits' = emits
  BY DEF Write, WriteShort, WriteTo
<1>3. PICK new : new = [event |-> Event(p), cut |-> cut]
  OBVIOUS
<1>4. h \in 1..Len(files) /\ files' = [files EXCEPT ![h] = Append(@, new)]
  BY <1>1, <1>2, <1>3 DEF IInv, TypeOK, Opened, WriteTo
<1>5. \A f \in 1..Len(files') : \A k \in 1..Len(files'[f]) :
        \/ f \in 1..Len(files) /\ k \in 1..Len(files[f]) /\ files'[f][k] = files[f][k]
        \/ files'[f][k] = new
  <2>1. files \in Seq(Seq([event : Events, cut : Cuts]))
    BY DEF IInv, TypeOK
  <2>2. new \in [event : Events, cut : Cuts]
    BY <1>2, <1>3, EmitsAreNumbered
  <2>3. /\ Len(files') = Len(files)
        /\ \A f \in 1..Len(files) : f # h => files'[f] = files[f]
        /\ files'[h] = Append(files[h], new)
        /\ files[h] \in Seq([event : Events, cut : Cuts])
    BY <1>4, <2>1
  <2>4. /\ Len(files'[h]) = Len(files[h]) + 1 /\ Len(files[h]) \in Nat
        /\ \A k \in 1..Len(files[h]) : files'[h][k] = files[h][k]
        /\ files'[h][Len(files[h]) + 1] = new
    BY <2>2, <2>3
  <2>5. \A k \in 1..Len(files'[h]) : k \in 1..Len(files[h]) \/ k = Len(files[h]) + 1
    BY <2>4
  <2> QED BY <2>3, <2>4, <2>5
<1>6. RecordedAreOver'
  BY <1>2, EventStep DEF Truth, RecordedAreOver, IInv, TypeOK
<1>7. LineIsTrue(new)'
  <2>1. new.event = <<p, emits[p]>> /\ new.cut = cut
    BY <1>3 DEF Event
  <2>2. DOMAIN pc = Processes
    BY DEF IInv, TypeOK
  <2>3. pc'[p] = "failed" \/ (pc'[p] = "sync" /\ cut = "whole")
    BY <1>1, <2>2 DEF GoTo
  <2>4. new.event \notin recorded
    BY <1>2, <2>1 DEF Truth, RecordedAreOver, Over
  <2>5. emits[p] \in Nat
    BY EmitsAreNumbered
  <2> QED BY <1>2, <2>1, <2>3, <2>4, <2>5 DEF LineIsTrue, Over, Syncing
<1>8. ASSUME NEW f \in 1..Len(files'), NEW k \in 1..Len(files'[f]),
             NEW line, line = files'[f][k]
      PROVE  LineIsTrue(line)'
  <2>1. CASE line = new
    BY <1>7, <2>1
  <2>2. CASE f \in 1..Len(files) /\ k \in 1..Len(files[f]) /\ line = files[f][k]
    <3>1. LineIsTrue(line)
      BY <2>2 DEF Truth, LinesAreTrue
    <3>2. line.event \in Events
      BY <2>2, LineType
    <3> QED BY <1>2, <3>1, <3>2, EventStep DEF LineIsTrue
  <2> QED BY <1>5, <1>8, <2>1, <2>2
<1> QED BY <1>6, <1>8 DEF Truth, LinesAreTrue

LEMMA TruthSynced ==
  ASSUME IInv, Truth, NEW p \in Processes, Sync(p)
  PROVE  Truth'
<1>1. /\ pc[p] = "sync" /\ recorded' = recorded \cup {Event(p)}
      /\ files' = files /\ emits' = emits /\ pc'[p] = "idle"
  BY DEF Sync, GoTo, IInv, TypeOK
<1>2. Event(p) = <<p, emits[p]>> /\ Event(p) \in Events /\ emits[p] \in Nat
  BY <1>1, EmitsAreNumbered DEF Event
<1>3. Over(Event(p))'
  BY <1>1, <1>2 DEF Over, Event
<1>4. \A e \in recorded : Over(e)'
  BY EventStep DEF Truth, RecordedAreOver, IInv, TypeOK
<1>5. RecordedAreOver'
  BY <1>1, <1>2, <1>3, <1>4 DEF RecordedAreOver, Over, Event
<1>6. ASSUME NEW f \in 1..Len(files), NEW k \in 1..Len(files[f]),
             NEW line, line = files[f][k]
      PROVE  LineIsTrue(line)'
  <2>1. LineIsTrue(line)
    BY <1>6 DEF Truth, LinesAreTrue
  <2>2. line.event \in Events
    BY <1>6, LineType
  <2>3. line.event = Event(p) => line.cut = "whole"
    BY <1>1, <1>2, <2>1 DEF LineIsTrue, Over
  <2> QED BY <1>1, <2>1, <2>2, <2>3, EventStep DEF LineIsTrue
<1> QED BY <1>1, <1>5, <1>6 DEF Truth, LinesAreTrue

LEMMA TruthStep == IInv /\ Truth /\ [Next]_vars => Truth'
<1> SUFFICES ASSUME IInv, Truth, [Next]_vars PROVE Truth'
  OBVIOUS
<1>1. CASE UNCHANGED vars
  BY <1>1 DEF vars, Truth, RecordedAreOver, LinesAreTrue, LineIsTrue, Over, Syncing
<1> QED
  BY <1>1, TruthKept, TruthWritten, TruthSynced DEF Next

(* What a reader is not shown of a file is what a damaged line runs into.  *)
LEMMA HiddenFollowsDamage ==
  ASSUME IInv, Truth, NEW f \in Kept, NEW k \in 1..Len(files[f]),
         files[f][k].event \in recorded \ Read
  PROVE  k - 1 \in 1..Len(files[f]) /\ files[f][k - 1].cut # "whole"
<1>1. f \in 1..Len(files) /\ Len(files[f]) \in Nat /\ f # 0
  BY DEF IInv, TypeOK, Kept
<1>2. files[f][k].cut = "whole"
  BY <1>1 DEF Truth, LinesAreTrue, LineIsTrue
<1>3. files[f][k].event \notin ReadLogFile(f)
  BY <1>1 DEF Read, Kept
<1>4. ~(k = 1 \/ files[f][k - 1].cut = "whole")
  BY <1>1, <1>2, <1>3 DEF ReadLogFile
<1> QED BY <1>1, <1>4

(* "A damaged line is skipped and counted": it hides from a reader at most *)
(* the one event that continues it.                                        *)
THEOREM Damage == Spec => []DamageIsLocal
<1>1. Init => Truth
  BY DEF Init, Truth, RecordedAreOver, LinesAreTrue
<1>2. IInv /\ Truth => DamageIsLocal
  <2> SUFFICES ASSUME IInv, Truth PROVE DamageIsLocal
    OBVIOUS
  <2> DEFINE places == {x \in Kept \X (1..Len(written)) : x[2] <= Len(files[x[1]])}
             line(x) == files[x[1]][x[2]]
             hidden == {x \in places : line(x).event \in recorded \ Read}
             damaged == {x \in places : line(x).cut # "whole"}
             before == [x \in hidden |-> <<x[1], x[2] - 1>>]
  <2>1. Kept \subseteq 1..Len(files) /\ Len(written) \in Nat
    BY DEF IInv, TypeOK, Kept
  <2>2. ASSUME NEW x \in hidden
        PROVE  <<x[1], x[2] - 1>> \in damaged
    <3>1. /\ x[1] \in Kept /\ x[2] \in 1..Len(written)
          /\ x[2] <= Len(files[x[1]]) /\ Len(files[x[1]]) \in Nat
      BY <2>1 DEF IInv, TypeOK
    <3>2. x[2] \in 1..Len(files[x[1]])
      BY <2>1, <3>1
    <3>3. x[2] - 1 \in 1..Len(files[x[1]]) /\ files[x[1]][x[2] - 1].cut # "whole"
      BY <3>1, <3>2, HiddenFollowsDamage
    <3>4. x[2] - 1 \in 1..Len(written)
      BY <2>1, <3>1, <3>3
    <3> QED BY <3>1, <3>3, <3>4
  <2>3. \A x, y \in hidden : before[x] = before[y] => x = y
    <3> SUFFICES ASSUME NEW x \in hidden, NEW y \in hidden, before[x] = before[y]
                 PROVE  x = y
      OBVIOUS
    <3>1. x[1] = y[1] /\ x[2] - 1 = y[2] - 1
      OBVIOUS
    <3>2. x[2] \in Nat /\ y[2] \in Nat /\ x = <<x[1], x[2]>> /\ y = <<y[1], y[2]>>
      BY <2>1
    <3>3. x[2] = y[2]
      BY <3>1, <3>2
    <3> QED BY <3>1, <3>2, <3>3
  <2>4. before \in Injection(hidden, damaged)
    BY <2>2, <2>3 DEF Injection, IsInjective
  <2>5. IsFiniteSet(damaged)
    <3>1. IsFiniteSet(1..Len(written)) /\ IsFiniteSet(1..Len(files))
      BY <2>1, FS_Interval DEF IInv, TypeOK
    <3>2. IsFiniteSet(Kept)
      BY <2>1, <3>1, FS_Subset
    <3>3. IsFiniteSet(Kept \X (1..Len(written)))
      BY <3>1, <3>2, FS_Product
    <3> QED BY <3>3, FS_Subset
  <2>6. Cardinality(hidden) <= Cardinality(damaged)
    <3> HIDE DEF hidden, damaged, before
    <3> QED BY <2>4, <2>5, FS_Injection
  <2> QED BY <2>6 DEF DamageIsLocal
<1>3. IInv /\ Truth /\ [Next]_vars => IInv' /\ Truth'
  BY NextStep, TruthStep
<1> QED
  BY <1>1, <1>2, <1>3, InitStep, PTL DEF Spec
=============================================================================
