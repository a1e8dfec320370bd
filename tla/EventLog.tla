------------------------------- MODULE EventLog -------------------------------
(***************************************************************************)
(* The event log (internal/event/sink.go): processes append one line per   *)
(* event to events.jsonl.  Whoever finds it full renames it to             *)
(* events.1.jsonl, over the one that was there, and starts a new one.      *)
(* Nothing keeps two processes apart: between looking at the size, moving  *)
(* the file, opening it and writing, the name may have come to stand for   *)
(* another file.                                                           *)
(*                                                                         *)
(* A file is the sequence of the writes that reached it.  A write that was *)
(* cut short leaves no newline, so the next one continues its line.        *)
(***************************************************************************)
EXTENDS Naturals, Sequences, FiniteSets

CONSTANTS Processes,  (* operations that emit events                       *)
          MaxEmits,   (* bound: the events of one operation                *)
          MaxLines    (* maxBytes, in lines                                *)

ASSUME EventLogAssumption ==
  /\ IsFiniteSet(Processes)
  /\ MaxEmits \in Nat \ {0}
  /\ MaxLines \in Nat \ {0}

VARIABLES
  files,     (* every file there ever was, by number                       *)
  current,   (* the number of events.jsonl, 0 when there is none           *)
  rotated,   (* the number of events.1.jsonl, likewise                     *)
  pc,        (* where each process is in Emit                              *)
  emits,     (* how many events it has begun to emit                       *)
  looked,    (* the file it found full                                     *)
  handle,    (* the file it has open                                       *)
  recorded,  (* history: the events whose Emit returned no error           *)
  written,   (* history: the files written to, in that order               *)
  moved      (* history: a file was renamed or written to by a process     *)
             (* that had looked at it, or opened it, under another name    *)

vars == <<files, current, rotated, pc, emits, looked, handle, recorded, written,
          moved>>

-----------------------------------------------------------------------------
Events == Processes \X (1..MaxEmits)
Cuts == {"whole", "no newline", "part"}
Event(p) == <<p, emits[p]>>
Size(f) == IF f = 0 THEN 0 ELSE Len(files[f])
Kept == {current, rotated} \ {0}

GoTo(p, l) == pc' = [pc EXCEPT ![p] = l]

(* emit does nothing more once an Emit has failed.                         *)
Fail(p) == GoTo(p, "failed")

Emit(p) ==
  /\ pc[p] = "idle"
  /\ emits[p] < MaxEmits
  /\ emits' = [emits EXCEPT ![p] = @ + 1]
  /\ GoTo(p, "look")
  /\ UNCHANGED <<files, current, rotated, looked, handle, recorded, written, moved>>

(* Bug: the line about to be written is not counted.                       *)
RoomForgetsLine == Size(current) <= MaxLines

(* rotateIfFull: whether one more line fits.                               *)
Room == Size(current) + 1 <= MaxLines

Look(p) ==
  /\ pc[p] = "look"
  /\ looked' = [looked EXCEPT ![p] = current]
  /\ GoTo(p, IF Room THEN "open" ELSE "rotate")
  /\ UNCHANGED <<files, current, rotated, emits, handle, recorded, written, moved>>

(* Bug: the old log is deleted, not kept as the rotated one.               *)
RotateDeletes(p) ==
  /\ pc[p] = "rotate"
  /\ current # 0
  /\ rotated' = 0
  /\ current' = 0
  /\ moved' = (moved \/ current # looked[p])
  /\ GoTo(p, "open")
  /\ UNCHANGED <<files, emits, looked, handle, recorded, written>>

(* The rename takes whatever has the name now.                             *)
Rotate(p) ==
  /\ pc[p] = "rotate"
  /\ current # 0
  /\ rotated' = current
  /\ current' = 0
  /\ moved' = (moved \/ current # looked[p])
  /\ GoTo(p, "open")
  /\ UNCHANGED <<files, emits, looked, handle, recorded, written>>

(* O_APPEND and O_CREATE.                                                  *)
Open(p) ==
  /\ pc[p] = "open"
  /\ IF current # 0
       THEN UNCHANGED <<files, current>>
       ELSE files' = Append(files, <<>>) /\ current' = Len(files) + 1
  /\ handle' = [handle EXCEPT ![p] = current']
  /\ GoTo(p, "write")
  /\ UNCHANGED <<rotated, emits, looked, recorded, written, moved>>

WriteTo(p, cut) ==
  /\ files' = [files EXCEPT ![handle[p]] =
                 Append(@, [event |-> Event(p), cut |-> cut])]
  /\ written' = Append(written, handle[p])
  /\ moved' = (moved \/ handle[p] # current)
  /\ UNCHANGED <<current, rotated, emits, looked, handle, recorded>>

Write(p) ==
  /\ pc[p] = "write"
  /\ WriteTo(p, "whole")
  /\ GoTo(p, "sync")

(* The disk is full: some of the line is there, or all but its end.        *)
WriteShort(p) ==
  /\ pc[p] = "write"
  /\ \E cut \in Cuts \ {"whole"} : WriteTo(p, cut)
  /\ Fail(p)

Sync(p) ==
  /\ pc[p] = "sync"
  /\ recorded' = recorded \cup {Event(p)}
  /\ GoTo(p, "idle")
  /\ UNCHANGED <<files, current, rotated, emits, looked, handle, written, moved>>

(* The directory, the look, the rename (of a file that has gone, too), the *)
(* open, the write or the sync fails; or the process dies there.           *)
EmitFails(p) ==
  /\ pc[p] \in {"look", "rotate", "open", "write", "sync"}
  /\ Fail(p)
  /\ UNCHANGED <<files, current, rotated, emits, looked, handle, recorded,
                 written, moved>>

Init ==
  /\ files = <<>>
  /\ current = 0
  /\ rotated = 0
  /\ pc = [p \in Processes |-> "idle"]
  /\ emits = [p \in Processes |-> 0]
  /\ looked = [p \in Processes |-> 0]
  /\ handle = [p \in Processes |-> 0]
  /\ recorded = {}
  /\ written = <<>>
  /\ moved = FALSE

Next ==
  \E p \in Processes :
    \/ Emit(p) \/ Look(p) \/ Rotate(p) \/ Open(p) \/ Write(p) \/ WriteShort(p)
    \/ Sync(p) \/ EmitFails(p)

Spec == Init /\ [][Next]_vars

-----------------------------------------------------------------------------
(* Reading.                                                                *)

(* Bug: reading ends at the first line that cannot be parsed.              *)
ReadLogFileStops(f) ==
  IF f = 0 THEN {}
  ELSE {files[f][i].event : i \in
          {k \in 1..Len(files[f]) : \A j \in 1..k : files[f][j].cut = "whole"}}

(* readLogFile: a line is one whole event, which nothing precedes on its   *)
(* line and, unless it is the last, a newline ends.                        *)
ReadLogFile(f) ==
  IF f = 0 THEN {}
  ELSE {files[f][i].event : i \in
          {k \in 1..Len(files[f]) :
             /\ k = 1 \/ files[f][k - 1].cut = "whole"
             /\ \/ files[f][k].cut = "whole"
                \/ files[f][k].cut = "no newline" /\ k = Len(files[f])}}

(* Read, of both files.                                                    *)
Read == ReadLogFile(rotated) \cup ReadLogFile(current)

-----------------------------------------------------------------------------
TypeOK ==
  /\ files \in Seq(Seq([event : Events, cut : Cuts]))
  /\ current \in 0..Len(files)
  /\ rotated \in 0..Len(files)
  /\ pc \in [Processes -> {"idle", "look", "rotate", "open", "write", "sync", "failed"}]
  /\ emits \in [Processes -> 0..MaxEmits]
  /\ looked \in [Processes -> 0..Len(files)]
  /\ handle \in [Processes -> 0..Len(files)]
  /\ recorded \subseteq Events
  /\ written \in Seq(1..Len(files))
  /\ moved \in BOOLEAN

(* "Disk usage has a ceiling": the check and the write are apart, so a     *)
(* file can exceed the maximum, by one line of each other process.         *)
DiskUsageHasCeiling ==
  \A f \in Kept : Size(f) <= MaxLines + Cardinality(Processes) - 1

(* "The newest history is always intact": as long as no process renamed or *)
(* wrote to a file that had been moved since it looked, the last MaxLines  *)
(* writes are in the two files, whoever made them.                         *)
NewestIsIntact ==
  ~moved => \A i \in 1..Len(written) :
              i > Len(written) - MaxLines => written[i] \in Kept

(* "A damaged line is skipped and counted": each write that was cut short  *)
(* hides at most one event that its process was told is recorded, the one  *)
(* that continues its line, and every other in the two files is read.      *)
DamageIsLocal ==
  LET places == {x \in Kept \X (1..Len(written)) : x[2] <= Len(files[x[1]])}
      line(x) == files[x[1]][x[2]]
  IN  Cardinality({x \in places : line(x).event \in recorded \ Read})
        <= Cardinality({x \in places : line(x).cut # "whole"})

-----------------------------------------------------------------------------
(* A claim of the code that it does not keep.                              *)

(* "The newest history is always intact, and what is dropped is dropped    *)
(* explicitly": NewestIsIntact whatever the processes do to each other.    *)
(* Two that find the same file full both rename; the second rename drops   *)
(* the file the first one has just saved.                                  *)
NewestHistoryIsIntact ==
  \A i \in 1..Len(written) :
    i > Len(written) - MaxLines => written[i] \in Kept
=============================================================================
