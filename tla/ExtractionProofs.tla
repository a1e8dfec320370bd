--------------------------- MODULE ExtractionProofs ---------------------------
(***************************************************************************)
(* Theorems about Extraction, for any workspace of either provider, any    *)
(* page size and any number of attempts, requests and faults.  Both        *)
(* clients implement Recording: each of their steps is one of its steps,   *)
(* or one that changes nothing it knows of.  What RecordingProofs shows    *)
(* of it then holds of both.  They differ in one thing: Notion's do may    *)
(* return without a record of what it sent.                                *)
(***************************************************************************)
EXTENDS Extraction, FiniteSetTheorems, FunctionTheorems, TLAPS

NotionSession == INSTANCE RecordingProofs WITH index <- SourceObjects, Silent <- TRUE

ClickUpSession == INSTANCE RecordingProofs WITH
  records <- ledger, dir <- place, step <- closing, pc <- at, pending <- queue,
  attempt <- try, sent <- requested, index <- ClickUp!SourceObjects, Silent <- FALSE

-----------------------------------------------------------------------------
(* The session of the two specifications is the same, term by term.        *)
LEMMA NotionSummary == \A l : NotionSession!Summarize(l) = Summarize(l)
BY DEF NotionSession!Summarize, Summarize, NotionSession!Positions, Positions,
       NotionSession!Cardinality, Cardinality

LEMMA NotionIndex == \A i : NotionSession!ValidIndex(i) <=> ValidIndex(i)
BY DEF NotionSession!ValidIndex, ValidIndex, NotionSession!Positions, Positions

LEMMA NotionLoads == \A d : NotionSession!Loads(d) <=> Loads(d)
BY NotionSummary, NotionIndex
DEF NotionSession!Loads, Loads, NotionSession!Positions, Positions

LEMMA NotionInitially == Init => NotionSession!Init
BY NotionSummary DEF Init, BeginInit, NotionSession!Init, NotionSession!BeginInit

LEMMA NotionRequest ==
  ASSUME Request
  PROVE  NotionSession!Next
<1>1. CASE NextRequest
  <2>1. SourceObjects' = SourceObjects
    BY <1>1 DEF NextRequest, SourceObjects
  <2>2. NotionSession!Prepare
    BY <1>1, <2>1
    DEF NextRequest, GiveUp, Fail, NotionSession!Prepare, NotionSession!GiveUp,
        NotionSession!Fail
  <2> QED BY <2>2 DEF NotionSession!Next
<1>2. ASSUME NEW answer, Answered(answer)
      PROVE  NotionSession!Next
  <2>1. NotionSession!Answered
    BY <1>2
    DEF Answered, Send, RecordResponse, GiveUp, Fail, NotionSession!Answered,
        NotionSession!Send, NotionSession!RecordResponse, NotionSession!GiveUp,
        NotionSession!Fail
  <2> QED BY <2>1 DEF NotionSession!Next
<1>3. ASSUME NEW outcome \in {"WRITE_FAILED", "OMITTED_SECRET"}, NotRecorded(outcome)
      PROVE  NotionSession!Next
  <2>1. NotionSession!NotRecorded(outcome)
    BY <1>3
    DEF NotRecorded, Send, RecordResponse, GiveUp, Fail, NotionSession!NotRecorded,
        NotionSession!Send, NotionSession!RecordResponse, NotionSession!GiveUp,
        NotionSession!Fail
  <2> QED BY <2>1 DEF NotionSession!Next
<1>4. ASSUME NEW retryable \in BOOLEAN, Refused(retryable)
      PROVE  NotionSession!Next
  <2>1. SourceObjects' = SourceObjects
    BY <1>4 DEF Refused, SourceObjects
  <2>2. PICK retrying \in BOOLEAN : retrying = Retrying(retryable)
    BY DEF Retrying
  <2>3. NotionSession!Failed(retrying)
    BY <1>4, <2>1, <2>2
    DEF Refused, Send, RecordFailure, GiveUp, Fail,
        NotionSession!Failed, NotionSession!Send, NotionSession!RecordFailure,
        NotionSession!GiveUp, NotionSession!Fail
  <2> QED BY <2>3 DEF NotionSession!Next
<1>5. CASE Unanswered
  <2>1. SourceObjects' = SourceObjects
    BY <1>5 DEF Unanswered, SourceObjects
  <2>2. NotionSession!Unanswered
    BY <1>5, <2>1
    DEF Unanswered, Send, GiveUp, Fail, NotionSession!Unanswered, NotionSession!Send,
        NotionSession!GiveUp, NotionSession!Fail
  <2> QED BY <2>2 DEF NotionSession!Next
<1>6. CASE Sleep
  <2>1. SourceObjects' = SourceObjects
    BY <1>6 DEF Sleep, SourceObjects
  <2>2. NotionSession!Sleep
    BY <1>6, <2>1
    DEF Sleep, GiveUp, Fail, NotionSession!Sleep, NotionSession!GiveUp,
        NotionSession!Fail
  <2> QED BY <2>2 DEF NotionSession!Next
<1> QED
  BY <1>1, <1>2, <1>3, <1>4, <1>5, <1>6 DEF Request, AnsweredHonestly, AnsweredNonsense,
      AnsweredInCircles

LEMMA NotionClose ==
  ASSUME Close
  PROVE  NotionSession!Close
<1>1. SourceObjects' = SourceObjects
  BY DEF Close, clientVars, SourceObjects
<1>2. /\ WriteInventory(SourceObjects) => NotionSession!WriteInventory(SourceObjects)
      /\ WriteLedger => NotionSession!WriteLedger
      /\ Publish => NotionSession!Publish
      /\ FailLedger => NotionSession!FailLedger
      /\ Preserve => NotionSession!Preserve
  BY DEF WriteInventory, WriteLedger, Publish, FailLedger, Preserve, WriteOr, MoveOr,
         NotionSession!WriteInventory, NotionSession!WriteLedger, NotionSession!Publish,
         NotionSession!FailLedger, NotionSession!Preserve, NotionSession!WriteOr,
         NotionSession!MoveOr
<1>3. /\ WriteRun(SourceObjects) => NotionSession!WriteRun(SourceObjects)
      /\ FailRun => NotionSession!FailRun
  BY NotionSummary
  DEF WriteRun, FailRun, WriteOr, NotionSession!WriteRun, NotionSession!FailRun,
      NotionSession!WriteOr
<1> QED BY <1>1, <1>2, <1>3 DEF Close, clientVars, NotionSession!Close

LEMMA NotionSteps ==
  ASSUME [Next]_vars
  PROVE  [NotionSession!Next]_(NotionSession!vars)
<1>1. CASE Extracted
  <2>1. SourceObjects' = SourceObjects
    BY <1>1 DEF Extracted, SourceObjects
  <2>2. NotionSession!Extracted
    BY <1>1, <2>1, NotionIndex
    DEF Extracted, Complete, NotionSession!Extracted, NotionSession!Complete
  <2> QED BY <2>2 DEF NotionSession!Next
<1>2. CASE Close
  BY <1>2, NotionClose DEF NotionSession!Next
<1>3. CASE Interrupt
  BY <1>3
  DEF Interrupt, snapshotVars, SourceObjects, NotionSession!vars,
      NotionSession!snapshotVars
<1>4. CASE Kill
  <2>1. NotionSession!Kill
    BY <1>4
    DEF Kill, snapshotVars, SourceObjects, NotionSession!Kill,
        NotionSession!snapshotVars
  <2> QED BY <2>1 DEF NotionSession!Next
<1>5. CASE UNCHANGED vars
  BY <1>5
  DEF vars, clientVars, snapshotVars, SourceObjects, NotionSession!vars,
      NotionSession!snapshotVars
<1> QED BY <1>1, <1>2, <1>3, <1>4, <1>5, NotionRequest DEF Next

(* Extraction, Notion: the client is a client of Recording.                *)
THEOREM NotionImplementsRecording == ExtractSafety => NotionSession!Spec
<1>1. ExtractInit => NotionSession!Init
  BY NotionInitially DEF ExtractInit
<1>2. [ExtractNext]_allVars => [Next]_vars
  BY DEF ExtractNext, NotionStep, ClickUpStep, allVars
<1>3. [ExtractNext]_allVars => [NotionSession!Next]_(NotionSession!vars)
  BY <1>2, NotionSteps
<1> QED BY <1>1, <1>3, PTL DEF ExtractSafety, NotionSession!Spec

-----------------------------------------------------------------------------
(* The same for ClickUp.                                                   *)
LEMMA ClickUpSummary == \A l : ClickUpSession!Summarize(l) = ClickUp!Summarize(l)
BY DEF ClickUpSession!Summarize, ClickUp!Summarize, ClickUpSession!Positions,
       ClickUp!Positions, ClickUpSession!Cardinality, ClickUp!Cardinality

LEMMA ClickUpIndex == \A i : ClickUpSession!ValidIndex(i) <=> ClickUp!ValidIndex(i)
BY DEF ClickUpSession!ValidIndex, ClickUp!ValidIndex, ClickUpSession!Positions,
       ClickUp!Positions

LEMMA ClickUpLoads == \A d : ClickUpSession!Loads(d) <=> ClickUp!Loads(d)
BY ClickUpSummary, ClickUpIndex
DEF ClickUpSession!Loads, ClickUp!Loads, ClickUpSession!Positions, ClickUp!Positions

LEMMA ClickUpInitially == ClickUp!Init => ClickUpSession!Init
BY ClickUpSummary
DEF ClickUp!Init, ClickUp!BeginInit, ClickUpSession!Init, ClickUpSession!BeginInit

(* The index is made of what is known.                                     *)
LEMMA SameIndex ==
  ASSUME UNCHANGED known
  PROVE  ClickUp!SourceObjects' = ClickUp!SourceObjects
BY DEF ClickUp!SourceObjects

LEMMA ClickUpFailure ==
  ASSUME ClickUp!Send, NEW retrying \in BOOLEAN, ClickUp!RetryOrGiveUp(retrying)
  PROVE  ClickUpSession!Next
<1>1. ClickUp!SourceObjects' = ClickUp!SourceObjects
  BY SameIndex DEF ClickUp!RetryOrGiveUp
<1>2. ClickUpSession!Failed(retrying)
  BY <1>1
  DEF ClickUp!RetryOrGiveUp, ClickUp!Send, ClickUp!RecordFailure, ClickUp!GiveUp,
      ClickUp!Fail, ClickUpSession!Failed, ClickUpSession!Send,
      ClickUpSession!RecordFailure, ClickUpSession!GiveUp, ClickUpSession!Fail
<1> QED BY <1>2 DEF ClickUpSession!Next

LEMMA ClickUpRequest ==
  ASSUME ClickUp!Request
  PROVE  ClickUpSession!Next
<1>1. ASSUME ClickUp!NextPhase \/ ClickUp!NextRequest
      PROVE  ClickUpSession!Next
  <2>1. ClickUp!SourceObjects' = ClickUp!SourceObjects
    BY <1>1, SameIndex DEF ClickUp!NextPhase, ClickUp!NextRequest
  <2>2. ClickUpSession!Prepare
    BY <1>1, <2>1
    DEF ClickUp!NextPhase, ClickUp!NextRequest, ClickUp!GiveUp, ClickUp!Fail,
        ClickUpSession!Prepare, ClickUpSession!GiveUp, ClickUpSession!Fail
  <2> QED BY <2>2 DEF ClickUpSession!Next
<1>2. ASSUME NEW items, NEW valid, ClickUp!Answered(items, valid)
      PROVE  ClickUpSession!Next
  <2>1. ClickUpSession!Answered
    BY <1>2
    DEF ClickUp!Answered, ClickUp!Send, ClickUp!RecordResponse, ClickUp!GiveUp,
        ClickUp!Fail, ClickUpSession!Answered, ClickUpSession!Send,
        ClickUpSession!RecordResponse, ClickUpSession!GiveUp, ClickUpSession!Fail
  <2> QED BY <2>1 DEF ClickUpSession!Next
<1>3. ASSUME NEW outcome \in {"WRITE_FAILED", "OMITTED_SECRET"},
             ClickUp!NotRecorded(outcome)
      PROVE  ClickUpSession!Next
  <2>1. ClickUpSession!NotRecorded(outcome)
    BY <1>3
    DEF ClickUp!NotRecorded, ClickUp!Send, ClickUp!RecordResponse, ClickUp!GiveUp,
        ClickUp!Fail, ClickUpSession!NotRecorded, ClickUpSession!Send,
        ClickUpSession!RecordResponse, ClickUpSession!GiveUp, ClickUpSession!Fail
  <2> QED BY <2>1 DEF ClickUpSession!Next
<1>4. CASE ClickUp!NoConnection
  <2>1. PICK retrying \in BOOLEAN : retrying = (try < MaxAttempts /\ ~stopped)
    OBVIOUS
  <2> QED BY <1>4, <2>1, ClickUpFailure DEF ClickUp!NoConnection
<1>5. ASSUME NEW retryable \in BOOLEAN, ClickUp!Refused(retryable)
      PROVE  ClickUpSession!Next
  <2>1. PICK retrying \in BOOLEAN : retrying = ClickUp!RetriesStatus(retryable)
    BY DEF ClickUp!RetriesStatus
  <2> QED BY <1>5, <2>1, ClickUpFailure DEF ClickUp!Refused
<1>6. CASE ClickUp!BodyFails
  BY <1>6, ClickUpFailure DEF ClickUp!BodyFails
<1>7. CASE ClickUp!Sleep
  <2>1. ClickUp!SourceObjects' = ClickUp!SourceObjects
    BY <1>7, SameIndex DEF ClickUp!Sleep
  <2>2. ClickUpSession!Sleep
    BY <1>7, <2>1
    DEF ClickUp!Sleep, ClickUp!GiveUp, ClickUp!Fail, ClickUpSession!Sleep,
        ClickUpSession!GiveUp, ClickUpSession!Fail
  <2> QED BY <2>2 DEF ClickUpSession!Next
<1> QED
  BY <1>1, <1>2, <1>3, <1>4, <1>5, <1>6, <1>7
  DEF ClickUp!Request, ClickUp!AnsweredHonestly, ClickUp!AnsweredUnparsable,
      ClickUp!AnsweredEdited, ClickUp!AnsweredInCircles

LEMMA ClickUpClose ==
  ASSUME ClickUp!Close
  PROVE  ClickUpSession!Close
<1> DEFINE index == ClickUp!SourceObjects
<1>1. index' = index
  BY SameIndex DEF ClickUp!Close, ClickUp!clientVars
<1>2. /\ ClickUp!WriteInventory(index) => ClickUpSession!WriteInventory(index)
      /\ ClickUp!WriteLedger => ClickUpSession!WriteLedger
      /\ ClickUp!Publish => ClickUpSession!Publish
      /\ ClickUp!FailLedger => ClickUpSession!FailLedger
      /\ ClickUp!Preserve => ClickUpSession!Preserve
  BY DEF ClickUp!WriteInventory, ClickUp!WriteLedger, ClickUp!Publish, ClickUp!FailLedger,
         ClickUp!Preserve, ClickUp!WriteOr, ClickUp!MoveOr,
         ClickUpSession!WriteInventory, ClickUpSession!WriteLedger,
         ClickUpSession!Publish, ClickUpSession!FailLedger, ClickUpSession!Preserve,
         ClickUpSession!WriteOr, ClickUpSession!MoveOr
<1>3. /\ ClickUp!WriteRun(index) => ClickUpSession!WriteRun(index)
      /\ ClickUp!FailRun => ClickUpSession!FailRun
  BY ClickUpSummary
  DEF ClickUp!WriteRun, ClickUp!FailRun, ClickUp!WriteOr,
      ClickUpSession!WriteRun, ClickUpSession!FailRun, ClickUpSession!WriteOr
<1> QED
  BY <1>1, <1>2, <1>3 DEF ClickUp!Close, ClickUp!clientVars, ClickUpSession!Close

LEMMA ClickUpSteps ==
  ASSUME [ClickUp!Next]_(ClickUp!vars)
  PROVE  [ClickUpSession!Next]_(ClickUpSession!vars)
<1>1. CASE ClickUp!Request
  BY <1>1, ClickUpRequest
<1>2. CASE ClickUp!Extracted
  <2>1. ClickUp!SourceObjects' = ClickUp!SourceObjects
    BY <1>2, SameIndex DEF ClickUp!Extracted
  <2>2. ClickUpSession!Extracted
    BY <1>2, <2>1, ClickUpIndex
    DEF ClickUp!Extracted, ClickUp!Complete, ClickUpSession!Extracted,
        ClickUpSession!Complete
  <2> QED BY <2>2 DEF ClickUpSession!Next
<1>3. CASE ClickUp!Close
  BY <1>3, ClickUpClose DEF ClickUpSession!Next
<1>4. CASE ClickUp!Interrupt
  <2>1. ClickUp!SourceObjects' = ClickUp!SourceObjects
    BY <1>4, SameIndex DEF ClickUp!Interrupt
  <2> QED
    BY <1>4, <2>1 DEF ClickUp!Interrupt, ClickUp!snapshotVars, ClickUpSession!vars,
                      ClickUpSession!snapshotVars
<1>5. CASE ClickUp!Kill
  <2>1. ClickUp!SourceObjects' = ClickUp!SourceObjects
    BY <1>5, SameIndex DEF ClickUp!Kill
  <2>2. ClickUpSession!Kill
    BY <1>5, <2>1 DEF ClickUp!Kill, ClickUp!snapshotVars, ClickUpSession!Kill,
                      ClickUpSession!snapshotVars
  <2> QED BY <2>2 DEF ClickUpSession!Next
<1>6. CASE UNCHANGED ClickUp!vars
  <2>1. ClickUp!SourceObjects' = ClickUp!SourceObjects
    BY <1>6, SameIndex DEF ClickUp!vars, ClickUp!clientVars
  <2> QED
    BY <1>6, <2>1 DEF ClickUp!vars, ClickUp!clientVars, ClickUp!snapshotVars,
                      ClickUpSession!vars, ClickUpSession!snapshotVars
<1> QED BY <1>1, <1>2, <1>3, <1>4, <1>5, <1>6 DEF ClickUp!Next

(* Extraction, ClickUp: the client is a client of Recording, and one that  *)
(* records every attempt.                                                  *)
THEOREM ClickUpImplementsRecording == ExtractSafety => ClickUpSession!Spec
<1>1. ExtractInit => ClickUpSession!Init
  BY ClickUpInitially DEF ExtractInit
<1>2. [ExtractNext]_allVars => [ClickUp!Next]_(ClickUp!vars)
  BY DEF ExtractNext, NotionStep, ClickUpStep, allVars, clickUpVars, ClickUp!vars,
         ClickUp!clientVars, ClickUp!snapshotVars
<1>3. [ExtractNext]_allVars => [ClickUpSession!Next]_(ClickUpSession!vars)
  BY <1>2, ClickUpSteps
<1> QED BY <1>1, <1>3, PTL DEF ExtractSafety, ClickUpSession!Spec

-----------------------------------------------------------------------------
LEMMA Safety == ExtractSpec => ExtractSafety
BY DEF ExtractSpec

(* Notion: the ledger is what the client sent, but for an attempt that     *)
(* broke off, and then nothing that was written loads.                     *)
THEOREM LedgerCorrect == ExtractSpec => []LedgerMissesAtMostLast
<1>1. ASSUME NotionSession!LedgerIsWhatWasSent PROVE LedgerMissesAtMostLast
  BY <1>1, NotionLoads
  DEF NotionSession!LedgerIsWhatWasSent, LedgerMissesAtMostLast,
      NotionSession!Positions, Positions
<1> QED
  BY <1>1, Safety, NotionImplementsRecording, NotionSession!RecordingCorrect, PTL

(* Notion: in a snapshot that loads, the retries that are counted are      *)
(* retries of do that happened, in their order.                            *)
THEOREM RetriesCorrect == ExtractSpec => []RetriedIsRetried
<1>1. ASSUME NotionSession!FailuresAreRetried PROVE RetriedIsRetried
  BY <1>1, NotionLoads
  DEF NotionSession!FailuresAreRetried, RetriedIsRetried, Same,
      NotionSession!Positions, Positions
<1> QED
  BY <1>1, Safety, NotionImplementsRecording, NotionSession!RecordingCorrect, PTL

(* Snapshot: the name of the target is given only to a directory that      *)
(* LoadComplete accepts, and the name for failures only to one it refuses, *)
(* whichever writes of Complete and Fail went wrong before.                *)
THEOREM TargetCorrect == ExtractSpec => []TargetIsLoadable
<1>1. ASSUME NotionSession!TargetIsLoadable PROVE TargetIsLoadable
  BY <1>1, NotionLoads DEF NotionSession!TargetIsLoadable, TargetIsLoadable
<1> QED
  BY <1>1, Safety, NotionImplementsRecording, NotionSession!RecordingCorrect, PTL

(* ClickUp: getWithQuery leaves no attempt out of the ledger, not even one *)
(* that an interrupt or a broken answer ended.                             *)
THEOREM ClickUpLedgerCorrect == ExtractSpec => []ClickUpLedgerIsComplete
<1>1. ASSUME ClickUpSession!LedgerIsWhatWasSent PROVE ClickUpLedgerIsComplete
  BY <1>1
  DEF ClickUpSession!LedgerIsWhatWasSent, ClickUpLedgerIsComplete,
      ClickUp!LedgerIsComplete, ClickUpSession!Positions, ClickUp!Positions
<1> QED
  BY <1>1, Safety, ClickUpImplementsRecording, ClickUpSession!RecordingCorrect, PTL

(* ClickUp: in a snapshot that loads, an attempt that is marked as to be   *)
(* retried was, although an interrupt may come between mark and retry.     *)
THEOREM ClickUpRetriesCorrect == ExtractSpec => []ClickUpRetriedIsRetried
<1>1. ASSUME ClickUpSession!FailuresAreRetried PROVE ClickUpRetriedIsRetried
  BY <1>1, ClickUpLoads
  DEF ClickUpSession!FailuresAreRetried, ClickUpRetriedIsRetried,
      ClickUp!RetriedIsRetried, ClickUp!Same, ClickUpSession!Positions, ClickUp!Positions
<1> QED
  BY <1>1, Safety, ClickUpImplementsRecording, ClickUpSession!RecordingCorrect, PTL

-----------------------------------------------------------------------------
(* What a Notion snapshot that loads holds.                                *)
(*                                                                         *)
(* Two invariants meet when nothing is left to be asked: all that was      *)
(* found, or is asked for, is of the workspace, with an answer recorded    *)
(* that explains it (Sourced, Answers, Under, Below); and of all that is   *)
(* in something that was found, whatever is not found yet is still asked   *)
(* for (Covers).                                                           *)

Elements(s) == {s[i] : i \in 1..Len(s)}

Asked == Elements(pending)
FoundObjects == {found[i].object : i \in 1..Len(found)}
FoundOf(kinds) == {o \in FoundObjects \cap Objects : KindOf[o] \in kinds}

Requests ==
  [op : {"search", "get data source", "get database", "query", "children", "refused"},
   of : Objects, owner : Objects \cup {None}, cursor : Nat, seen : SUBSET Nat]

Rows == [object : Objects \cup Properties, parent : Objects \cup {None}]

Shapes ==
  /\ pending \in Seq(Requests)
  /\ found \in Seq(Rows)
  /\ pc \in {"attempt", "sleep"} => pending # <<>> /\ Head(pending).op # "refused"

(* What may be asked is what an answer called for before.                  *)
Made(r) ==
  /\ r.op = "search" => r.of = Workspace
  /\ r.op = "get data source" => KindOf[r.of] = "data source"
  /\ r.op = "get database" =>
       KindOf[r.of] = "database" /\ \E d \in FoundOf({"data source"}) : DatabaseOf[d] = r.of
  /\ r.op = "query" => r.of \in FoundOf({"data source"})
  /\ r.op = "children" => r.of \in FoundOf({"page", "block"})
  /\ r.cursor = 0 \/ r.cursor \in r.seen

(* Whatever spans the workspace has it.                                    *)
Reached(o) == \A S \in SUBSET Objects : Spans(S) => o \in S

Sourced ==
  /\ \A r \in Asked : Made(r)
  /\ \A r \in Asked : r.op = "get data source" => Reached(r.of)
  /\ \A o \in FoundObjects \cap Objects :
       KindOf[o] \in {"database", "data source", "page", "block"}
  /\ \A o \in FoundOf({"data source", "page", "block"}) : Reached(o)
  /\ \A o \in FoundOf({"database"}) : \E d \in FoundOf({"data source"}) : DatabaseOf[d] = o
  /\ \A o \in FoundObjects \cap Properties :
       \E d \in FoundOf({"data source"}) : o \in Elements(PropertiesOf[d])

Answers == \A o \in FoundObjects \cap Objects : AnswerOf(o, records)

(* A block was found after the page or block it is in.                     *)
Under ==
  \A i \in 1..Len(found) :
    found[i].object \in Objects /\ KindOf[found[i].object] = "block" =>
      \E j \in 1..(i - 1) : /\ found[j].object = found[i].parent
                            /\ found[j].object \in Objects
                            /\ KindOf[found[j].object] \in {"page", "block"}

Once == \A i, j \in 1..Len(found) : found[i].object = found[j].object => i = j

(* An answer with a node as its own child has it found once more, and the  *)
(* index is refused.                                                       *)
Below == Once => \A i \in 1..Len(found) : IsBelow(found[i])

(* All that is in it was found, or is asked for.                           *)
Covered(o) ==
  \A k \in 1..Len(ItemsIn(o)) :
    \/ ItemsIn(o)[k] \in FoundObjects
    \/ \E r \in Asked : r.op = "get data source" /\ r.of = ItemsIn(o)[k]
    \/ \E r \in Asked : IsList(r) /\ r.of = o /\ r.cursor < k

(* A cursor that leads back ends the traversal when it comes to it.        *)
Sane == \A r \in Asked : r.op # "refused"

Covers ==
  Sane =>
    /\ \A o \in {Workspace} \cup (FoundObjects \cap Objects) : Covered(o)
    /\ \A d \in FoundOf({"data source"}) :
         /\ \/ DatabaseOf[d] \in FoundObjects
            \/ \E r \in Asked : r.op = "get database" /\ r.of = DatabaseOf[d]
         /\ Elements(PropertiesOf[d]) \subseteq FoundObjects

Finished ==
  /\ step \in {"inventory", "ledger", "run", "rename", "complete"} => pending = <<>>
  /\ dir.run # <<>> /\ dir.run[1].status = "COMPLETE" =>
       pending = <<>> /\ dir.run[1].index = SourceObjects

Traversed == Shapes /\ Sourced /\ Answers /\ Under /\ Below /\ Covers /\ Finished

(* What is taken from the invariant of Recording.                          *)
NotionFiles ==
  /\ records \in Seq(Elements(records))
  /\ pc \in {"request", "attempt", "sleep"} => step = "open"
  /\ step = "open" => dir.run # <<>> /\ dir.run[1].status = "IN_PROGRESS"
  /\ dir = [at |-> dir.at, inventory |-> dir.inventory, requests |-> dir.requests,
            run |-> dir.run]

-----------------------------------------------------------------------------
(* Sequences.                                                              *)
LEMMA Typed == \A A : \A s \in Seq(A) : \A i \in 1..Len(s) : s[i] \in A
OBVIOUS

LEMMA Concatenated ==
  ASSUME NEW A, NEW s \in Seq(A), NEW t \in Seq(A)
  PROVE  /\ s \o t \in Seq(A)
         /\ Len(s \o t) = Len(s) + Len(t)
         /\ \A i \in 1..Len(s) : (s \o t)[i] = s[i]
         /\ \A i \in 1..Len(t) : (s \o t)[Len(s) + i] = t[i]
         /\ Elements(s \o t) = Elements(s) \cup Elements(t)
<1> DEFINE u == s \o t
<1>1. /\ u \in Seq(A)
      /\ Len(u) = Len(s) + Len(t) /\ Len(s) \in Nat /\ Len(t) \in Nat
      /\ \A i \in 1..Len(s) : u[i] = s[i]
      /\ \A i \in 1..Len(t) : u[Len(s) + i] = t[i]
  OBVIOUS
<1> HIDE DEF u
<1>2. \A i \in 1..Len(s) : i \in 1..Len(u)
  BY <1>1
<1>3. \A i \in 1..Len(t) : Len(s) + i \in 1..Len(u)
  BY <1>1
<1>4. \A i \in 1..Len(u) : i \in 1..Len(s) \/ (i - Len(s) \in 1..Len(t) /\ Len(s) + (i - Len(s)) = i)
  BY <1>1
<1>5. Elements(u) = Elements(s) \cup Elements(t)
  <2>1. ASSUME NEW x \in Elements(u) PROVE x \in Elements(s) \cup Elements(t)
    <3>1. PICK i \in 1..Len(u) : x = u[i]
      BY DEF Elements
    <3>2. CASE i \in 1..Len(s)
      BY <1>1, <3>1, <3>2 DEF Elements
    <3>3. CASE i - Len(s) \in 1..Len(t) /\ Len(s) + (i - Len(s)) = i
      <4>1. u[i] = t[i - Len(s)]
        BY <1>1, <3>3
      <4> QED
        BY <3>1, <3>3, <4>1 DEF Elements
    <3> QED
      BY <1>4, <3>2, <3>3
  <2>2. ASSUME NEW x \in Elements(s) \cup Elements(t) PROVE x \in Elements(u)
    BY <1>1, <1>2, <1>3 DEF Elements
  <2> QED
    BY <2>1, <2>2
<1> QED
  BY <1>1, <1>5 DEF u

LEMMA Joined ==
  ASSUME NEW A, NEW s \in Seq(A), NEW t \in Seq(A)
  PROVE  s \o t \in Seq(A) /\ Elements(s \o t) = Elements(s) \cup Elements(t)
BY Concatenated

LEMMA Joined3 ==
  ASSUME NEW A, NEW s \in Seq(A), NEW t \in Seq(A), NEW u \in Seq(A)
  PROVE  /\ s \o t \o u \in Seq(A)
         /\ Elements(s \o t \o u) = Elements(s) \cup Elements(t) \cup Elements(u)
<1> DEFINE v == s \o t
<1>1. v \in Seq(A) /\ Elements(v) = Elements(s) \cup Elements(t)
  BY Joined
<1> HIDE DEF v
<1>2. v \o u \in Seq(A) /\ Elements(v \o u) = Elements(v) \cup Elements(u)
  BY <1>1, Joined
<1> QED
  BY <1>1, <1>2 DEF v

LEMMA Split ==
  ASSUME NEW A, NEW s \in Seq(A), s # <<>>
  PROVE  /\ Head(s) \in A
         /\ Tail(s) \in Seq(A)
         /\ Elements(s) = {Head(s)} \cup Elements(Tail(s))
<1> DEFINE t == Tail(s)
<1>1. /\ t \in Seq(A)
      /\ Len(s) \in Nat /\ Len(s) >= 1 /\ Len(t) = Len(s) - 1
      /\ \A i \in 1..Len(t) : t[i] = s[i + 1]
      /\ Head(s) = s[1] /\ Head(s) \in A
  OBVIOUS
<1> HIDE DEF t
<1>2. \A i \in 1..Len(s) : i = 1 \/ (i - 1 \in 1..Len(t) /\ t[i - 1] = s[i])
  <2> SUFFICES ASSUME NEW i \in 1..Len(s), i # 1
               PROVE  i - 1 \in 1..Len(t) /\ t[i - 1] = s[i]
    OBVIOUS
  <2>1. i - 1 \in 1..Len(t) /\ (i - 1) + 1 = i
    BY <1>1
  <2> QED
    BY <1>1, <2>1
<1>3. \A i \in 1..Len(t) : i + 1 \in 1..Len(s)
  BY <1>1
<1>4. 1 \in 1..Len(s)
  BY <1>1
<1>5. Elements(s) = {Head(s)} \cup Elements(t)
  <2>1. ASSUME NEW x \in Elements(s) PROVE x \in {Head(s)} \cup Elements(t)
    BY <1>1, <1>2 DEF Elements
  <2>2. ASSUME NEW x \in {Head(s)} \cup Elements(t) PROVE x \in Elements(s)
    BY <1>1, <1>3, <1>4 DEF Elements
  <2> QED
    BY <2>1, <2>2
<1> QED
  BY <1>1, <1>5 DEF t

LEMMA Appended ==
  ASSUME NEW A, NEW s \in Seq(A), NEW e \in A
  PROVE  /\ Append(s, e) \in Seq(A)
         /\ Elements(Append(s, e)) = Elements(s) \cup {e}
<1>1. <<e>> \in Seq(A) /\ Append(s, e) = s \o <<e>>
  OBVIOUS
<1>2. Elements(<<e>>) = {e}
  BY DEF Elements
<1>3. s \o <<e>> \in Seq(A) /\ Elements(s \o <<e>>) = Elements(s) \cup Elements(<<e>>)
  BY <1>1, Concatenated
<1> QED
  BY <1>1, <1>2, <1>3

LEMMA Nothing ==
  ASSUME NEW A
  PROVE  <<>> \in Seq(A) /\ Elements(<<>>) = {}
BY DEF Elements

LEMMA OneOf ==
  ASSUME NEW A, NEW e \in A
  PROVE  <<e>> \in Seq(A) /\ Elements(<<e>>) = {e}
BY DEF Elements

LEMMA Singles ==
  ASSUME NEW e
  PROVE  Elements(<<e>>) = {e} /\ Elements(<<>>) = {}
BY DEF Elements

(* Induction: a set with 0 that has the successor of each of its numbers   *)
(* has them all.  Up to a number outside it the successor would map the    *)
(* set, which is finite there, into itself without 0.                      *)
LEMMA Induction ==
  ASSUME NEW S, 0 \in S, \A n \in Nat : n \in S => n + 1 \in S
  PROVE  Nat \subseteq S
<1> SUFFICES ASSUME NEW n \in Nat, n \notin S PROVE FALSE
  OBVIOUS
<1> DEFINE T == (0..n) \cap S
           f == [m \in T |-> m + 1]
<1>1. IsFiniteSet(T) /\ Cardinality(T) \in Nat
  <2>1. IsFiniteSet(0..n)
    BY FS_Interval
  <2>2. IsFiniteSet(T)
    BY <2>1, FS_Intersection
  <2> QED
    BY <2>2, FS_CardinalityType
<1>2. \A m \in T : m + 1 \in T \ {0}
  OBVIOUS
<1>3. f \in Injection(T, T \ {0})
  <2>1. f \in [T -> T \ {0}]
    BY <1>2
  <2>2. \A x, y \in T : f[x] = f[y] => x = y
    OBVIOUS
  <2> QED
    BY <2>1, <2>2 DEF Injection, IsInjective
<1>4. 0 \in T
  OBVIOUS
<1> HIDE DEF T, f
<1>5. IsFiniteSet(T \ {0}) /\ Cardinality(T \ {0}) = Cardinality(T) - 1
  BY <1>1, <1>4, FS_RemoveElement
<1>6. Cardinality(T) <= Cardinality(T \ {0})
  BY <1>3, <1>5, FS_Injection
<1> QED
  BY <1>1, <1>5, <1>6

(* A subsequence, taken as far as its definition takes it.                 *)
Takes(s, chosen, n, g) ==
  g = [m \in 0..n |->
         IF m = 0 THEN <<>>
         ELSE IF m \in chosen THEN Append(g[m - 1], s[m]) ELSE g[m - 1]]

LEMMA Taking ==
  ASSUME NEW s, NEW chosen, NEW N \in Nat
  PROVE  \E g : Takes(s, chosen, N, g)
<1> DEFINE S == {n \in Nat : \E g : Takes(s, chosen, n, g)}
<1>1. 0 \in S
  <2>1. Takes(s, chosen, 0, [m \in 0..0 |-> <<>>])
    BY DEF Takes
  <2> QED
    BY <2>1
<1>2. ASSUME NEW n \in Nat, n \in S
      PROVE  n + 1 \in S
  <2>1. PICK g : Takes(s, chosen, n, g)
    BY <1>2
  <2> DEFINE h == [m \in 0..(n + 1) |->
                     IF m = n + 1
                       THEN IF n + 1 \in chosen THEN Append(g[n], s[n + 1]) ELSE g[n]
                       ELSE g[m]]
  <2>2. Takes(s, chosen, n + 1, h)
    <3>1. \A m \in 0..(n + 1) :
            h[m] = IF m = 0 THEN <<>>
                   ELSE IF m \in chosen THEN Append(h[m - 1], s[m]) ELSE h[m - 1]
      <4>1. \A m \in 0..n : h[m] = g[m]
        OBVIOUS
      <4>2. \A m \in 0..n : m # 0 => m - 1 \in 0..n
        OBVIOUS
      <4>3. \A m \in 0..n :
              g[m] = IF m = 0 THEN <<>>
                     ELSE IF m \in chosen THEN Append(g[m - 1], s[m]) ELSE g[m - 1]
        BY <2>1 DEF Takes
      <4>4. h[n + 1] = IF n + 1 \in chosen THEN Append(h[n], s[n + 1]) ELSE h[n]
        BY <4>1
      <4>5. \A m \in 0..(n + 1) : m \in 0..n \/ (m = n + 1 /\ m - 1 = n /\ m # 0)
        OBVIOUS
      <4> HIDE DEF h
      <4> QED
        BY <4>1, <4>2, <4>3, <4>4, <4>5
    <3>2. h = [m \in 0..(n + 1) |-> h[m]]
      OBVIOUS
    <3> HIDE DEF h
    <3> QED
      BY <3>1, <3>2 DEF Takes
  <2> HIDE DEF h
  <2> QED
    BY <2>2
<1> HIDE DEF S
<1>3. Nat \subseteq S
  BY <1>1, <1>2, Induction
<1> USE DEF S
<1> QED
  BY <1>3

LEMMA SubsequenceIs ==
  ASSUME NEW A, NEW s \in Seq(A), NEW chosen, chosen \subseteq 1..Len(s)
  PROVE  /\ Subsequence(s, chosen) \in Seq(A)
         /\ Elements(Subsequence(s, chosen)) = {s[i] : i \in chosen}
<1> DEFINE N == Len(s)
           g == CHOOSE f : Takes(s, chosen, N, f)
           S == {n \in Nat : n <= N =>
                   /\ g[n] \in Seq(A)
                   /\ Elements(g[n]) = {s[i] : i \in chosen \cap 1..n}}
<1>1. N \in Nat
  OBVIOUS
<1>2. Takes(s, chosen, N, g)
  BY <1>1, Taking
<1>3. Subsequence(s, chosen) = g[N]
  BY DEF Subsequence, Takes
<1> HIDE DEF N, g
<1>4. /\ g[0] = <<>>
      /\ \A n \in 1..N : g[n] = IF n \in chosen THEN Append(g[n - 1], s[n]) ELSE g[n - 1]
  <2>1. \A n \in 0..N :
          g[n] = IF n = 0 THEN <<>>
                 ELSE IF n \in chosen THEN Append(g[n - 1], s[n]) ELSE g[n - 1]
    BY <1>2 DEF Takes
  <2>2. 0 \in 0..N /\ \A n \in 1..N : n \in 0..N /\ n # 0
    BY <1>1
  <2> QED
    BY <2>1, <2>2
<1>5. 0 \in S
  <2>1. chosen \cap 1..0 = {} /\ Elements(<<>>) = {} /\ <<>> \in Seq(A)
    BY DEF Elements
  <2>2. {s[i] : i \in {}} = {}
    OBVIOUS
  <2> QED
    BY <1>4, <2>1, <2>2
<1>6. ASSUME NEW n \in Nat, n \in S
      PROVE  n + 1 \in S
  <2> SUFFICES ASSUME n + 1 <= N
               PROVE  /\ g[n + 1] \in Seq(A)
                      /\ Elements(g[n + 1]) = {s[i] : i \in chosen \cap 1..(n + 1)}
    OBVIOUS
  <2>1. /\ g[n] \in Seq(A) /\ Elements(g[n]) = {s[i] : i \in chosen \cap 1..n}
        /\ n + 1 \in 1..N /\ (n + 1) - 1 = n
    BY <1>1, <1>6
  <2>2. s[n + 1] \in A
    BY <2>1 DEF N
  <2>3. g[n + 1] = IF n + 1 \in chosen THEN Append(g[n], s[n + 1]) ELSE g[n]
    BY <1>4, <2>1
  <2>4. CASE n + 1 \in chosen
    <3>1. chosen \cap 1..(n + 1) = (chosen \cap 1..n) \cup {n + 1}
      BY <2>4
    <3>2. /\ g[n + 1] \in Seq(A)
          /\ Elements(g[n + 1]) = Elements(g[n]) \cup {s[n + 1]}
      BY <2>1, <2>2, <2>3, <2>4, Appended
    <3> QED
      BY <2>1, <3>1, <3>2
  <2>5. CASE n + 1 \notin chosen
    <3>1. chosen \cap 1..(n + 1) = chosen \cap 1..n
      BY <2>5
    <3> QED
      BY <2>1, <2>3, <2>5, <3>1
  <2> QED
    BY <2>4, <2>5
<1> HIDE DEF S
<1>7. N \in S
  BY <1>1, <1>5, <1>6, Induction
<1>8. chosen \cap 1..N = chosen
  BY DEF N
<1> QED
  BY <1>1, <1>3, <1>7, <1>8 DEF S

-----------------------------------------------------------------------------
(* What an answer brings.                                                  *)
LEMMA ItemsType ==
  ASSUME NEW r \in Requests
  PROVE  Items(r) \in Seq(Objects) /\ Elements(Items(r)) \subseteq Elements(Children[r.of])
<1>1. Children[r.of] \in Seq(Objects) /\ MaxQuery \in Nat \ {0}
  BY NotionAssumption DEF Requests
<1> DEFINE all == Children[r.of]
           cut == SubSeq(all, 1, MaxQuery)
<1>2. Len(all) > MaxQuery => /\ cut \in Seq(Objects) /\ Len(cut) = MaxQuery
                             /\ \A i \in 1..MaxQuery : cut[i] = all[i] /\ i \in 1..Len(all)
  BY <1>1
<1>3. Items(r) = IF r.op = "query" /\ Len(all) > MaxQuery THEN cut ELSE all
  BY DEF Items
<1> HIDE DEF all, cut
<1> QED
  BY <1>1, <1>2, <1>3 DEF Elements, all

(* The items of a page of a list, to its end or to where the next begins.  *)
LEMMA PageIs ==
  ASSUME NEW r \in Requests
  PROVE  LET page == Honest(r) IN
         /\ page.items \in Seq(Objects)
         /\ page.more \in BOOLEAN /\ page.next \in Nat
         /\ Elements(page.items) \subseteq Elements(Items(r))
         /\ IsList(r) => \A k \in 1..Len(Items(r)) :
              k > r.cursor => \/ Items(r)[k] \in Elements(page.items)
                              \/ page.more /\ page.next < k
<1> DEFINE all == Items(r)
           end == r.cursor + PageSize
           last == IF end < Len(all) THEN end ELSE Len(all)
           part == SubSeq(all, r.cursor + 1, last)
           page == Honest(r)
<1>1. /\ all \in Seq(Objects) /\ Len(all) \in Nat
      /\ r.cursor \in Nat /\ PageSize \in Nat \ {0}
  <2>1. all \in Seq(Objects)
    BY ItemsType
  <2>2. Len(all) \in Nat
    BY <2>1
  <2> QED
    BY <2>1, <2>2, NotionAssumption DEF Requests
<1>2. /\ page.items = IF IsList(r) THEN part ELSE <<>>
      /\ page.more = (IsList(r) /\ end < Len(all))
      /\ page.next = end
  BY DEF Honest
<1> HIDE DEF all, page
<1>3. /\ end \in Nat /\ last \in Nat
      /\ last <= Len(all) /\ last <= end /\ (last = end \/ last = Len(all))
      /\ end < Len(all) => last = end
      /\ end >= Len(all) => last = Len(all)
  BY <1>1
<1> HIDE DEF end, last
<1>4. /\ part \in Seq(Objects)
      /\ Len(part) = IF r.cursor + 1 <= last THEN last - r.cursor ELSE 0
      /\ \A i \in 1..Len(part) : part[i] = all[r.cursor + i] /\ r.cursor + i \in 1..Len(all)
  <2>1. \A i \in (r.cursor + 1)..last : i \in 1..Len(all)
    BY <1>1, <1>3
  <2>2. part \in Seq(Objects)
    BY <1>1, <1>3, <2>1
  <2>3. /\ Len(part) = IF r.cursor + 1 <= last THEN last - (r.cursor + 1) + 1 ELSE 0
        /\ \A i \in 1..Len(part) : part[i] = all[(r.cursor + 1) + i - 1]
    BY <1>1, <1>3
  <2> HIDE DEF part
  <2>4. \A i \in 1..Len(part) : (r.cursor + 1) + i - 1 = r.cursor + i /\ r.cursor + i \in 1..Len(all)
    BY <1>1, <1>3, <2>3
  <2> QED
    BY <1>1, <1>3, <2>2, <2>3, <2>4
<1> HIDE DEF part
<1>5. \A k \in 1..Len(all) : k > r.cursor /\ k <= last => all[k] \in Elements(part)
  <2> SUFFICES ASSUME NEW k \in 1..Len(all), k > r.cursor, k <= last
               PROVE  all[k] \in Elements(part)
    OBVIOUS
  <2>1. k - r.cursor \in 1..Len(part) /\ r.cursor + (k - r.cursor) = k
    BY <1>1, <1>3, <1>4
  <2>2. part[k - r.cursor] = all[k]
    BY <1>4, <2>1
  <2> QED
    BY <2>1, <2>2 DEF Elements
<1>6. Elements(part) \subseteq Elements(all) /\ Elements(<<>>) = {}
  BY <1>4 DEF Elements
<1>7. IsList(r) => \A k \in 1..Len(all) :
        k > r.cursor => all[k] \in Elements(page.items) \/ (page.more /\ page.next < k)
  <2> SUFFICES ASSUME IsList(r), NEW k \in 1..Len(all), k > r.cursor
               PROVE  all[k] \in Elements(page.items) \/ (page.more /\ page.next < k)
    OBVIOUS
  <2>1. CASE k <= last
    BY <1>2, <1>5, <2>1
  <2>2. CASE ~(k <= last)
    <3>1. end < Len(all) /\ end < k
      BY <1>1, <1>3, <2>2
    <3> QED
      BY <1>2, <3>1
  <2> QED
    BY <2>1, <2>2
<1>8. page.items \in Seq(Objects) /\ Elements(page.items) \subseteq Elements(all)
  BY <1>2, <1>4, <1>6
<1>9. page.more \in BOOLEAN /\ page.next \in Nat
  BY <1>2, <1>3 DEF IsList
<1> QED
  BY <1>7, <1>8, <1>9 DEF all, page

(* All that the source may answer.                                         *)
MayAnswer(r) ==
  {Honest(r)} \cup Nonsense(r) \cup {a \in Circling(r) : IsList(r)}

(* The same of any answer, but that it may lead back.                      *)
LEMMA AnswerIs ==
  ASSUME NEW r \in Requests, NEW answer \in MayAnswer(r)
  PROVE  /\ answer.items \in Seq(Objects)
         /\ answer.more \in BOOLEAN /\ answer.next \in Nat
         /\ \A x \in Elements(answer.items) :
              \/ x \in Elements(Items(r))
              \/ r.op = "children" /\ x = r.of
         /\ IsList(r) => \A k \in 1..Len(Items(r)) :
              k > r.cursor => \/ Items(r)[k] \in Elements(answer.items)
                              \/ answer.more /\ answer.next \in {r.cursor} \cup r.seen
                              \/ answer.more /\ answer.next < k
<1> DEFINE page == Honest(r)
<1>1. /\ page.items \in Seq(Objects)
      /\ page.more \in BOOLEAN /\ page.next \in Nat
      /\ Elements(page.items) \subseteq Elements(Items(r))
      /\ IsList(r) => \A k \in 1..Len(Items(r)) :
           k > r.cursor => Items(r)[k] \in Elements(page.items) \/ (page.more /\ page.next < k)
  BY PageIs
<1>2. /\ page = [items |-> page.items, more |-> page.more, next |-> page.next,
                 valid |-> page.valid, incomplete |-> page.incomplete]
      /\ r.cursor \in Nat /\ r.seen \subseteq Nat /\ r.of \in Objects
  BY DEF Honest, Requests
<1> DEFINE first == [r EXCEPT !.cursor = 0]
           again == Honest(first)
<1>3. /\ again.items \in Seq(Objects)
      /\ Elements(again.items) \subseteq Elements(Items(r))
  <2>1. first \in Requests /\ Items(first) = Items(r)
    BY DEF Requests, Items
  <2> HIDE DEF first
  <2> QED
    BY <2>1, PageIs
<1>4. \/ answer.items = page.items
      \/ page.items # <<>> /\ answer.items = Append(page.items, Head(page.items))
      \/ page.items = <<>> /\ answer.items = again.items
      \/ r.op = "children" /\ answer.items = Append(page.items, r.of)
  BY <1>2 DEF MayAnswer, Nonsense, Circling
<1>5. \/ answer.more = page.more /\ answer.next = page.next
      \/ answer.more = TRUE /\ answer.next \in {page.next, r.cursor} \cup r.seen
  BY <1>2 DEF MayAnswer, Nonsense, Circling
<1> HIDE DEF again
<1> HIDE DEF page
<1>6. /\ answer.items \in Seq(Objects)
      /\ Elements(page.items) \subseteq Elements(answer.items)
      /\ Elements(answer.items) \subseteq Elements(Items(r)) \/
         (r.op = "children" /\ Elements(answer.items) \subseteq Elements(Items(r)) \cup {r.of})
  <2>1. CASE answer.items = page.items
    BY <1>1, <2>1
  <2>2. CASE page.items # <<>> /\ answer.items = Append(page.items, Head(page.items))
    <3>1. Head(page.items) \in Objects /\ Head(page.items) \in Elements(page.items)
      BY <1>1, <2>2, Split
    <3> QED
      BY <1>1, <2>2, <3>1, Appended
  <2>3. CASE r.op = "children" /\ answer.items = Append(page.items, r.of)
    BY <1>1, <1>2, <2>3, Appended
  <2>4. CASE page.items = <<>> /\ answer.items = again.items
    <3>1. Elements(page.items) = {}
      BY <2>4, Nothing
    <3> QED
      BY <1>3, <2>4, <3>1
  <2> QED
    BY <1>4, <2>1, <2>2, <2>3, <2>4
<1>7. answer.more \in BOOLEAN /\ answer.next \in Nat
  BY <1>1, <1>2, <1>5
<1>8. \A x \in Elements(answer.items) :
        x \in Elements(Items(r)) \/ (r.op = "children" /\ x = r.of)
  BY <1>1, <1>6
<1>9. IsList(r) => \A k \in 1..Len(Items(r)) :
        k > r.cursor => \/ Items(r)[k] \in Elements(answer.items)
                        \/ answer.more /\ answer.next \in {r.cursor} \cup r.seen
                        \/ answer.more /\ answer.next < k
  <2> SUFFICES ASSUME IsList(r), NEW k \in 1..Len(Items(r)), k > r.cursor
               PROVE  \/ Items(r)[k] \in Elements(answer.items)
                      \/ answer.more /\ answer.next \in {r.cursor} \cup r.seen
                      \/ answer.more /\ answer.next < k
    OBVIOUS
  <2>1. Items(r)[k] \in Elements(page.items) \/ (page.more /\ page.next < k)
    BY <1>1
  <2> QED
    BY <1>5, <1>6, <2>1
<1> QED
  BY <1>6, <1>7, <1>8, <1>9

(* The rest of a list is asked for with a new cursor, or not at all.       *)
LEMMA MoreIs ==
  ASSUME NEW r \in Requests, r.cursor = 0 \/ r.cursor \in r.seen,
         NEW answer, answer.more \in BOOLEAN, answer.next \in Nat
  PROVE  /\ MoreOf(r, answer) \in Seq(Requests)
         /\ \A m \in Elements(MoreOf(r, answer)) :
              /\ m.of = r.of /\ m.op \in {r.op, "refused"}
              /\ m.cursor = 0 \/ m.cursor \in m.seen
<1>1. r = [op |-> r.op, of |-> r.of, owner |-> r.owner, cursor |-> r.cursor, seen |-> r.seen]
  BY DEF Requests
<1>2. CASE ~answer.more
  <2>1. MoreOf(r, answer) = <<>>
    BY <1>2 DEF MoreOf
  <2>2. MoreOf(r, answer) \in Seq(Requests) /\ Elements(MoreOf(r, answer)) = {}
    BY <2>1, Nothing
  <2> QED
    BY <1>2, <2>2
<1>3. CASE answer.more /\ answer.next \in {0} \cup r.seen
  <2> DEFINE m == [r EXCEPT !.op = "refused"]
  <2>1. MoreOf(r, answer) = <<m>>
    BY <1>3 DEF MoreOf
  <2>2. /\ m \in Requests /\ m.of = r.of /\ m.op = "refused"
        /\ m.cursor = r.cursor /\ m.seen = r.seen
    BY <1>1 DEF Requests
  <2> HIDE DEF m
  <2>3. <<m>> \in Seq(Requests) /\ Elements(<<m>>) = {m}
    BY <2>2, OneOf
  <2> QED
    BY <2>1, <2>2, <2>3
<1>4. CASE answer.more /\ answer.next \notin {0} \cup r.seen
  <2> DEFINE m == [r EXCEPT !.cursor = answer.next, !.seen = @ \cup {answer.next}]
  <2>1. MoreOf(r, answer) = <<m>>
    BY <1>4 DEF MoreOf
  <2>2. /\ m \in Requests /\ m.of = r.of /\ m.op = r.op
        /\ m.cursor = answer.next /\ m.seen = r.seen \cup {answer.next}
    BY <1>1 DEF Requests
  <2> HIDE DEF m
  <2>3. <<m>> \in Seq(Requests) /\ Elements(<<m>>) = {m}
    BY <2>2, OneOf
  <2> QED
    BY <1>4, <2>1, <2>2, <2>3
<1> QED
  BY <1>2, <1>3, <1>4

Continues(m, r, answer) ==
  \/ m.op = "refused"
  \/ m.op = r.op /\ m.cursor = answer.next /\ answer.next \notin {0} \cup r.seen

LEMMA MoreFollows ==
  ASSUME NEW r \in Requests, r.cursor = 0 \/ r.cursor \in r.seen,
         NEW answer, answer.more = TRUE, answer.next \in Nat
  PROVE  \E m \in Elements(MoreOf(r, answer)) : Continues(m, r, answer)
<1>1. r = [op |-> r.op, of |-> r.of, owner |-> r.owner, cursor |-> r.cursor, seen |-> r.seen]
  BY DEF Requests
<1>2. CASE answer.next \in {0} \cup r.seen
  <2> DEFINE m == [r EXCEPT !.op = "refused"]
  <2>1. MoreOf(r, answer) = <<m>>
    BY <1>2 DEF MoreOf
  <2>2. m.op = "refused"
    BY <1>1
  <2> HIDE DEF m
  <2> QED
    BY <2>1, <2>2, Singles DEF Continues
<1>3. CASE answer.next \notin {0} \cup r.seen
  <2> DEFINE m == [r EXCEPT !.cursor = answer.next, !.seen = @ \cup {answer.next}]
  <2>1. MoreOf(r, answer) = <<m>>
    BY <1>3 DEF MoreOf
  <2>2. m.op = r.op /\ m.cursor = answer.next
    BY <1>1
  <2> HIDE DEF m
  <2> QED
    BY <1>3, <2>1, <2>2, Singles DEF Continues
<1> QED
  BY <1>2, <1>3

(* What an answer adds to what is to be asked, but for the next page.      *)
CalledFor(r, answer) ==
  CASE r.op = "search" -> {Single("get data source", x) : x \in Elements(answer.items)}
    [] r.op = "get data source" ->
         {List("query", r.of, r.of)} \cup
         {q \in {Single("get database", DatabaseOf[r.of])} : ~Indexed(DatabaseOf[r.of])}
    [] r.op = "get database" -> {}
    [] r.op = "query" -> {List("children", x, x) : x \in Elements(answer.items)}
    [] r.op = "children" ->
         {List("children", x, r.owner) : x \in {y \in Elements(answer.items) : HasChildren(y)}}

NextPage(r, answer) == IF IsList(r) THEN Elements(MoreOf(r, answer)) ELSE {}

LEMMA ListType ==
  ASSUME NEW op \in {"search", "get data source", "get database", "query", "children"},
         NEW of \in Objects, NEW owner \in Objects \cup {None}
  PROVE  /\ List(op, of, owner) \in Requests
         /\ List(op, of, owner).op = op /\ List(op, of, owner).of = of
         /\ List(op, of, owner).cursor = 0
BY DEF List, Requests

LEMMA AfterIs ==
  ASSUME Tail(pending) \in Seq(Requests),
         NEW r \in Requests, Made(r), r.op # "refused",
         NEW answer, answer.items \in Seq(Objects), answer.more \in BOOLEAN, answer.next \in Nat
  PROVE  /\ After(r, answer) \in Seq(Requests)
         /\ Elements(After(r, answer)) =
              Elements(Tail(pending)) \cup NextPage(r, answer) \cup CalledFor(r, answer)
<1> DEFINE rest == Tail(pending)
<1>0. rest \in Seq(Requests)
  OBVIOUS
<1> HIDE DEF rest
<1> SUFFICES /\ After(r, answer) \in Seq(Requests)
             /\ Elements(After(r, answer)) =
                  Elements(rest) \cup NextPage(r, answer) \cup CalledFor(r, answer)
  BY DEF rest
<1> DEFINE more == MoreOf(r, answer)
           items == answer.items
<1>1. more \in Seq(Requests) /\ items \in Seq(Objects)
  <2>1. r.cursor = 0 \/ r.cursor \in r.seen
    BY DEF Made
  <2> QED
    BY <2>1, MoreIs
<1>2. r.op \in {"search", "get data source", "get database", "query", "children"}
      /\ r.of \in Objects /\ r.owner \in Objects \cup {None}
  BY DEF Requests
<1>3. \A i \in 1..Len(items) : items[i] \in Objects
  BY <1>1
<1>4. CASE r.op = "search"
  <2> DEFINE new == [i \in 1..Len(items) |-> Single("get data source", items[i])]
  <2>1. After(r, answer) = new \o more \o rest
    BY <1>4 DEF After, Positions, rest
  <2>2. \A i \in 1..Len(items) : Single("get data source", items[i]) \in Requests
    BY <1>3, ListType DEF Single
  <2>3. new \in Seq(Requests) /\ Elements(new) = CalledFor(r, answer)
    <3>0. Len(items) \in Nat
      BY <1>1
    <3>1. new \in Seq(Requests) /\ Len(new) = Len(items)
      <4>1. new \in [1..Len(items) -> Requests]
        BY <2>2
      <4> HIDE DEF new
      <4> QED
        BY <3>0, <4>1
    <3>2. Elements(new) = {Single("get data source", items[i]) : i \in 1..Len(items)}
      BY <3>1 DEF Elements
    <3> QED
      BY <1>4, <3>1, <3>2 DEF CalledFor, Elements
  <2>4. NextPage(r, answer) = Elements(more)
    BY <1>4 DEF NextPage, IsList
  <2> HIDE DEF new, more
  <2>5. /\ new \o more \o rest \in Seq(Requests)
        /\ Elements(new \o more \o rest) = Elements(new) \cup Elements(more) \cup Elements(rest)
    BY <1>0, <1>1, <2>3, Joined3
  <2> QED
    BY <2>1, <2>3, <2>4, <2>5
<1>5. CASE r.op = "get data source"
  <2> DEFINE first == IF Indexed(DatabaseOf[r.of]) THEN <<>>
                      ELSE <<Single("get database", DatabaseOf[r.of])>>
             last == <<List("query", r.of, r.of)>>
  <2>1. After(r, answer) = first \o rest \o last
    BY <1>5 DEF After, rest
  <2>2. DatabaseOf[r.of] \in Objects
    BY <1>2, <1>5, NotionAssumption DEF Made
  <2>3. Single("get database", DatabaseOf[r.of]) \in Requests
    BY <2>2, ListType DEF Single
  <2>4. List("query", r.of, r.of) \in Requests
    BY <1>2, ListType
  <2>5. /\ first \in Seq(Requests)
        /\ Elements(first) = {q \in {Single("get database", DatabaseOf[r.of])} :
                                ~Indexed(DatabaseOf[r.of])}
    <3>1. CASE Indexed(DatabaseOf[r.of])
      <4>1. first = <<>>
        BY <3>1
      <4>2. <<>> \in Seq(Requests) /\ Elements(<<>>) = {}
        BY Nothing
      <4> QED
        BY <3>1, <4>1, <4>2
    <3>2. CASE ~Indexed(DatabaseOf[r.of])
      <4>1. first = <<Single("get database", DatabaseOf[r.of])>>
        BY <3>2
      <4>2. /\ <<Single("get database", DatabaseOf[r.of])>> \in Seq(Requests)
            /\ Elements(<<Single("get database", DatabaseOf[r.of])>>) =
                 {Single("get database", DatabaseOf[r.of])}
        BY <2>3, OneOf
      <4> HIDE DEF first
      <4> QED
        BY <3>2, <4>1, <4>2
    <3> QED
      BY <3>1, <3>2
  <2>6. last \in Seq(Requests) /\ Elements(last) = {List("query", r.of, r.of)}
    BY <2>4, OneOf
  <2>7. /\ NextPage(r, answer) = {}
        /\ CalledFor(r, answer) = Elements(last) \cup Elements(first)
    BY <1>5, <2>5, <2>6 DEF NextPage, IsList, CalledFor
  <2> HIDE DEF first, last
  <2>8. /\ first \o rest \o last \in Seq(Requests)
        /\ Elements(first \o rest \o last) = Elements(first) \cup Elements(rest) \cup Elements(last)
    <3>1. first \in Seq(Requests) /\ last \in Seq(Requests)
      BY <2>5, <2>6
    <3> QED
      BY <1>0, <3>1, Joined3
  <2> QED
    BY <2>1, <2>7, <2>8
<1>6. CASE r.op = "get database"
  <2>1. After(r, answer) = rest
    BY <1>6 DEF After, rest
  <2>2. NextPage(r, answer) = {} /\ CalledFor(r, answer) = {}
    BY <1>6 DEF NextPage, IsList, CalledFor
  <2> QED
    BY <1>0, <2>1, <2>2
<1>7. CASE r.op = "query"
  <2> DEFINE new == [i \in 1..Len(items) |-> List("children", items[i], items[i])]
  <2>1. After(r, answer) = more \o rest \o new
    BY <1>7 DEF After, Positions, rest
  <2>2. \A i \in 1..Len(items) : List("children", items[i], items[i]) \in Requests
    BY <1>3, ListType
  <2>3. new \in Seq(Requests) /\ Elements(new) = CalledFor(r, answer)
    <3>1. new \in Seq(Requests) /\ Len(new) = Len(items)
      BY <1>1, <2>2
    <3>2. Elements(new) = {List("children", items[i], items[i]) : i \in 1..Len(items)}
      BY <3>1 DEF Elements
    <3> QED
      BY <1>7, <3>1, <3>2 DEF CalledFor, Elements
  <2>4. NextPage(r, answer) = Elements(more)
    BY <1>7 DEF NextPage, IsList
  <2> HIDE DEF new, more
  <2>5. /\ more \o rest \o new \in Seq(Requests)
        /\ Elements(more \o rest \o new) = Elements(more) \cup Elements(rest) \cup Elements(new)
    BY <1>0, <1>1, <2>3, Joined3
  <2> QED
    BY <2>1, <2>3, <2>4, <2>5
<1>8. CASE r.op = "children"
  <2> DEFINE chosen == {i \in 1..Len(items) : HasChildren(items[i])}
             children == Subsequence(items, chosen)
             ofPage == {i \in 1..Len(rest) : rest[i].op = "children" /\ rest[i].owner = r.owner}
             mine == Subsequence(rest, ofPage)
             others == Subsequence(rest, (1..Len(rest)) \ ofPage)
             new == [i \in 1..Len(children) |-> List("children", children[i], r.owner)]
  <2>0. ChildNodes(answer) = children
    BY DEF ChildNodes, Positions
  <2>1. After(r, answer) = more \o mine \o new \o others
    BY <1>8, <2>0 DEF After, Positions, rest
  <2>2. children \in Seq(Objects) /\ Elements(children) = {items[i] : i \in chosen}
    BY <1>1, SubsequenceIs
  <2>3. ofPage \subseteq 1..Len(rest) /\ (1..Len(rest)) \ ofPage \subseteq 1..Len(rest)
    OBVIOUS
  <2> HIDE DEF ofPage
  <2>4. /\ mine \in Seq(Requests) /\ Elements(mine) = {rest[i] : i \in ofPage}
        /\ others \in Seq(Requests) /\ Elements(others) = {rest[i] : i \in (1..Len(rest)) \ ofPage}
    BY <1>0, <2>3, SubsequenceIs
  <2>5. Elements(mine) \cup Elements(others) = Elements(rest)
    BY <2>3, <2>4 DEF Elements
  <2>6. {items[i] : i \in chosen} = {y \in Elements(items) : HasChildren(y)}
    BY DEF Elements
  <2> HIDE DEF chosen, children, ofPage, mine, others
  <2>7. \A i \in 1..Len(children) : children[i] \in Objects
    BY <2>2
  <2>8. \A i \in 1..Len(children) : List("children", children[i], r.owner) \in Requests
    BY <1>2, <2>7, ListType
  <2>9. new \in Seq(Requests) /\ Elements(new) = CalledFor(r, answer)
    <3>1. new \in Seq(Requests) /\ Len(new) = Len(children)
      BY <2>2, <2>8
    <3>2. Elements(new) = {List("children", children[i], r.owner) : i \in 1..Len(children)}
      BY <3>1 DEF Elements
    <3>3. Elements(new) = {List("children", x, r.owner) : x \in Elements(children)}
      BY <3>2 DEF Elements
    <3> QED
      BY <1>8, <2>2, <2>6, <3>1, <3>3 DEF CalledFor
  <2>10. NextPage(r, answer) = Elements(more)
    BY <1>8 DEF NextPage, IsList
  <2> HIDE DEF new, more
  <2> DEFINE front == more \o mine \o new
  <2>11. front \in Seq(Requests) /\ Elements(front) = Elements(more) \cup Elements(mine) \cup Elements(new)
    BY <1>1, <2>4, <2>9, Joined3
  <2>12. After(r, answer) = front \o others
    BY <2>1
  <2> HIDE DEF front
  <2>13. front \o others \in Seq(Requests) /\ Elements(front \o others) = Elements(front) \cup Elements(others)
    BY <2>4, <2>11, Joined
  <2> QED
    BY <2>5, <2>9, <2>10, <2>11, <2>12, <2>13
<1> QED
  BY <1>2, <1>4, <1>5, <1>6, <1>7, <1>8

(* What an answer adds to what was found.                                  *)
LEMMA FoundInIs ==
  ASSUME NEW r \in Requests, Made(r), r.op # "refused",
         NEW answer, answer.items \in Seq(Objects)
  PROVE  LET new == FoundIn(r, answer) IN
         /\ new \in Seq(Rows)
         /\ r.op = "search" => Elements(new) = {}
         /\ r.op = "get data source" =>
              Elements(new) =
                {[object |-> r.of, parent |-> DatabaseOf[r.of]]} \cup
                {[object |-> p, parent |-> r.of] : p \in Elements(PropertiesOf[r.of])}
         /\ r.op = "get database" => Elements(new) = {[object |-> r.of, parent |-> None]}
         /\ r.op \in {"query", "children"} =>
              Elements(new) = {[object |-> x, parent |-> r.of] : x \in Elements(answer.items)}
<1> DEFINE new == FoundIn(r, answer)
           items == answer.items
<1>1. r.op \in {"search", "get data source", "get database", "query", "children"}
      /\ r.of \in Objects
  BY DEF Requests
<1>2. CASE r.op = "search"
  <2>1. new = <<>>
    BY <1>2 DEF FoundIn
  <2>2. <<>> \in Seq(Rows) /\ Elements(<<>>) = {}
    BY Nothing
  <2> HIDE DEF new
  <2>3. new \in Seq(Rows) /\ Elements(new) = {}
    BY <2>1, <2>2
  <2> QED
    BY <1>2, <2>3 DEF new
<1>3. CASE r.op = "get data source"
  <2> DEFINE columns == PropertiesOf[r.of]
             rows == [i \in 1..Len(columns) |-> [object |-> columns[i], parent |-> r.of]]
             row == [object |-> r.of, parent |-> DatabaseOf[r.of]]
  <2>1. new = <<row>> \o rows
    BY <1>3 DEF FoundIn, Positions
  <2>2. DatabaseOf[r.of] \in Objects /\ columns \in Seq(Properties)
    BY <1>1, <1>3, NotionAssumption DEF Made
  <2>3. row \in Rows /\ \A i \in 1..Len(columns) : [object |-> columns[i], parent |-> r.of] \in Rows
    <3>1. \A i \in 1..Len(columns) : columns[i] \in Properties
      BY <2>2
    <3> QED
      BY <1>1, <2>2, <3>1 DEF Rows
  <2>4. rows \in Seq(Rows) /\ Len(rows) = Len(columns)
    BY <2>2, <2>3
  <2>5. Elements(rows) = {[object |-> p, parent |-> r.of] : p \in Elements(columns)}
    BY <2>4 DEF Elements
  <2>6. <<row>> \in Seq(Rows) /\ Elements(<<row>>) = {row}
    BY <2>3, OneOf
  <2> HIDE DEF rows, row, columns
  <2>7. <<row>> \o rows \in Seq(Rows) /\ Elements(<<row>> \o rows) = Elements(<<row>>) \cup Elements(rows)
    <3>1. rows \in Seq(Rows) /\ <<row>> \in Seq(Rows)
      BY <2>4, <2>6
    <3> QED
      BY <3>1, Joined
  <2> QED
    BY <1>3, <2>1, <2>5, <2>6, <2>7 DEF row, columns
<1>4. CASE r.op = "get database"
  <2> DEFINE row == [object |-> r.of, parent |-> None]
  <2>1. new = <<row>>
    BY <1>4 DEF FoundIn
  <2>2. row \in Rows
    BY <1>1 DEF Rows
  <2> HIDE DEF row
  <2>3. <<row>> \in Seq(Rows) /\ Elements(<<row>>) = {row}
    BY <2>2, OneOf
  <2> HIDE DEF new
  <2> QED
    BY <1>4, <2>1, <2>3 DEF new, row
<1>5. CASE r.op \in {"query", "children"}
  <2> DEFINE rows == [i \in 1..Len(items) |-> [object |-> items[i], parent |-> r.of]]
  <2>1. new = rows
    BY <1>5 DEF FoundIn, Positions
  <2>2. \A i \in 1..Len(items) : [object |-> items[i], parent |-> r.of] \in Rows
    <3>1. \A i \in 1..Len(items) : items[i] \in Objects
      OBVIOUS
    <3> QED
      BY <1>1, <3>1 DEF Rows
  <2>3. rows \in Seq(Rows) /\ Len(rows) = Len(items)
    BY <2>2
  <2>4. Elements(rows) = {[object |-> x, parent |-> r.of] : x \in Elements(items)}
    BY <2>3 DEF Elements
  <2> QED
    BY <1>5, <2>1, <2>3, <2>4
<1> QED
  BY <1>1, <1>2, <1>3, <1>4, <1>5

-----------------------------------------------------------------------------
(* What is in what.                                                        *)
LEMMA ItemKinds ==
  ASSUME NEW r \in Requests, Made(r), IsList(r), NEW x \in Elements(Items(r))
  PROVE  /\ x \in Objects
         /\ \E j \in 1..Len(Children[r.of]) : Children[r.of][j] = x
         /\ r.op = "search" => KindOf[x] = "data source"
         /\ r.op = "query" => KindOf[x] = "page"
         /\ r.op = "children" => KindOf[x] = "block"
<1>1. r.of \in Objects /\ Children[r.of] \in Seq(Objects)
  BY NotionAssumption DEF Requests
<1>2. PICK j \in 1..Len(Children[r.of]) : Children[r.of][j] = x
  BY ItemsType DEF Elements
<1>3. x \in Objects /\ KindOf[x] \in KindsIn(KindOf[r.of])
  <2>1. \A i \in 1..Len(Children[r.of]) : KindOf[Children[r.of][i]] \in KindsIn(KindOf[r.of])
    BY <1>1, KindsAreNested
  <2>2. KindOf[Children[r.of][j]] \in KindsIn(KindOf[r.of])
    BY <1>2, <2>1
  <2>3. Children[r.of][j] \in Objects
    BY <1>1, <1>2
  <2> QED
    BY <1>2, <2>2, <2>3
<1>4. CASE r.op = "search"
  <2>1. KindOf[r.of] = "workspace"
    BY <1>4, KindsAreNested DEF Made
  <2> QED
    BY <1>2, <1>3, <1>4, <2>1 DEF KindsIn
<1>5. CASE r.op = "query"
  <2>1. KindOf[r.of] = "data source"
    BY <1>5 DEF Made, FoundOf
  <2> QED
    BY <1>2, <1>3, <1>5, <2>1 DEF KindsIn
<1>6. CASE r.op = "children"
  <2>1. KindOf[r.of] \in {"page", "block"}
    BY <1>6 DEF Made, FoundOf
  <2> QED
    BY <1>2, <1>3, <1>6, <2>1 DEF KindsIn
<1> QED
  BY <1>4, <1>5, <1>6 DEF IsList

(* A list is of what can be reached in its object.                         *)
LEMMA SameItems ==
  ASSUME NEW r \in Requests, Made(r), IsList(r)
  PROVE  Items(r) = ItemsIn(r.of)
<1>1. KindOf[r.of] = "data source" <=> r.op = "query"
  BY KindsAreNested DEF Made, IsList, FoundOf
<1> QED
  BY <1>1 DEF ItemsIn, Items, List, IsList

LEMMA ReachedItems ==
  ASSUME NEW o \in Objects, Reached(o), NEW x \in Elements(ItemsIn(o))
  PROVE  Reached(x)
<1> SUFFICES ASSUME NEW S \in SUBSET Objects, Spans(S) PROVE x \in S
  BY DEF Reached
<1>1. o \in S
  BY DEF Reached
<1> QED
  BY <1>1 DEF Spans, Elements, Positions

LEMMA DatabasesAreEmpty ==
  ASSUME NEW o \in Objects, KindOf[o] = "database"
  PROVE  Len(ItemsIn(o)) = 0
<1>1. ItemsIn(o) = Children[o]
  BY DEF ItemsIn, Items, List
<1>2. \A i \in 1..Len(Children[o]) : FALSE
  BY KindsAreNested DEF KindsIn
<1>3. Len(Children[o]) \in Nat
  <2>1. Children[o] \in Seq(Objects)
    BY NotionAssumption
  <2> QED
    BY <2>1
<1>4. Len(Children[o]) = 0
  <2> SUFFICES ASSUME Len(Children[o]) # 0 PROVE FALSE
    OBVIOUS
  <2>1. 1 \in 1..Len(Children[o])
    BY <1>3
  <2> QED
    BY <1>2, <2>1
<1> QED
  BY <1>1, <1>4

-----------------------------------------------------------------------------
(* A valid answer to a request.                                            *)

NewObjects(r, answer) ==
  CASE r.op = "search" -> {}
    [] r.op = "get data source" -> {r.of} \cup Elements(PropertiesOf[r.of])
    [] r.op = "get database" -> {r.of}
    [] r.op \in {"query", "children"} -> Elements(answer.items)

IsAnswered(r, answer) ==
  /\ pc = "attempt" /\ r = Head(pending)
  /\ answer \in MayAnswer(r)
  /\ pending' = After(r, answer)
  /\ found' = found \o FoundIn(r, answer)
  /\ pc' = "request"
  /\ UNCHANGED <<dir, step>>

(* What it does to the sets of what is asked and what was found.           *)
Extends(r, answer) ==
  /\ Asked = {r} \cup Elements(Tail(pending))
  /\ Asked' = Elements(Tail(pending)) \cup NextPage(r, answer) \cup CalledFor(r, answer)
  /\ FoundObjects' = FoundObjects \cup NewObjects(r, answer)

IsRequest(r) == r \in Requests /\ Made(r) /\ r.op # "refused"

LEMMA AskedRequest ==
  ASSUME Shapes, Sourced, NEW r, NEW answer, IsAnswered(r, answer)
  PROVE  /\ IsRequest(r)
         /\ Tail(pending) \in Seq(Requests)
         /\ Asked = {r} \cup Elements(Tail(pending))
<1>1. pending \in Seq(Requests) /\ pending # <<>> /\ r = Head(pending) /\ r.op # "refused"
  BY DEF Shapes, IsAnswered
<1>2. /\ r \in Requests /\ Tail(pending) \in Seq(Requests)
      /\ Asked = {r} \cup Elements(Tail(pending))
  BY <1>1, Split DEF Asked
<1>3. Made(r)
  BY <1>2 DEF Sourced
<1> QED
  BY <1>1, <1>2, <1>3 DEF IsRequest

LEMMA FoundElements ==
  ASSUME NEW s
  PROVE  {s[i].object : i \in 1..Len(s)} = {row.object : row \in Elements(s)}
BY DEF Elements

LEMMA Extending ==
  ASSUME Shapes, Sourced, NEW r, NEW answer, IsAnswered(r, answer)
  PROVE  /\ Shapes'
         /\ pending' \in Seq(Requests) /\ found' \in Seq(Rows)
         /\ Extends(r, answer)
<1>1. /\ IsRequest(r) /\ Tail(pending) \in Seq(Requests)
      /\ Asked = {r} \cup Elements(Tail(pending))
  BY AskedRequest
<1>2. r \in Requests /\ Made(r) /\ r.op # "refused"
  BY <1>1 DEF IsRequest
<1>3. answer.items \in Seq(Objects) /\ answer.more \in BOOLEAN /\ answer.next \in Nat
  BY <1>2, AnswerIs DEF IsAnswered
<1>4. /\ pending' \in Seq(Requests)
      /\ Asked' = Elements(Tail(pending)) \cup NextPage(r, answer) \cup CalledFor(r, answer)
  BY <1>1, <1>2, <1>3, AfterIs DEF Asked, IsAnswered
<1> DEFINE rows == FoundIn(r, answer)
           objects == {row.object : row \in Elements(rows)}
<1>5. rows \in Seq(Rows)
  BY <1>2, <1>3, FoundInIs
<1>6. found \in Seq(Rows) /\ found' = found \o rows
  BY DEF Shapes, IsAnswered
<1>7. objects = NewObjects(r, answer)
  <2>1. CASE r.op = "search"
    <3>1. Elements(rows) = {}
      BY <1>2, <1>3, <2>1, FoundInIs
    <3> QED
      BY <2>1, <3>1 DEF NewObjects
  <2>2. CASE r.op = "get data source"
    <3>1. Elements(rows) =
            {[object |-> r.of, parent |-> DatabaseOf[r.of]]} \cup
            {[object |-> p, parent |-> r.of] : p \in Elements(PropertiesOf[r.of])}
      BY <1>2, <1>3, <2>2, FoundInIs
    <3> HIDE DEF rows
    <3>2. objects = {r.of} \cup Elements(PropertiesOf[r.of])
      <4>1. ASSUME NEW x \in objects PROVE x \in {r.of} \cup Elements(PropertiesOf[r.of])
        BY <3>1
      <4>2. [object |-> r.of, parent |-> DatabaseOf[r.of]] \in Elements(rows)
        BY <3>1
      <4>3. \A p \in Elements(PropertiesOf[r.of]) :
              [object |-> p, parent |-> r.of] \in Elements(rows)
        BY <3>1
      <4>4. \A row \in Elements(rows) : row.object \in objects
        OBVIOUS
      <4> HIDE DEF objects
      <4>5. r.of \in objects /\ \A p \in Elements(PropertiesOf[r.of]) : p \in objects
        <5>1. [object |-> r.of, parent |-> DatabaseOf[r.of]].object \in objects
          BY <4>2, <4>4
        <5>2. \A p \in Elements(PropertiesOf[r.of]) : [object |-> p, parent |-> r.of].object \in objects
          BY <4>3, <4>4
        <5> QED
          BY <5>1, <5>2
      <4> QED
        BY <4>1, <4>5
    <3> HIDE DEF objects
    <3> QED
      BY <2>2, <3>2 DEF NewObjects
  <2>3. CASE r.op = "get database"
    <3>1. Elements(rows) = {[object |-> r.of, parent |-> None]}
      BY <1>2, <1>3, <2>3, FoundInIs
    <3> HIDE DEF rows
    <3>2. objects = {r.of}
      BY <3>1
    <3> QED
      BY <2>3, <3>2 DEF NewObjects
  <2>4. CASE r.op \in {"query", "children"}
    <3>1. Elements(rows) = {[object |-> x, parent |-> r.of] : x \in Elements(answer.items)}
      BY <1>2, <1>3, <2>4, FoundInIs
    <3> HIDE DEF rows
    <3>2. objects = Elements(answer.items)
      <4>1. \A x \in Elements(answer.items) :
              [object |-> x, parent |-> r.of] \in Elements(rows)
        BY <3>1
      <4>2. \A x \in Elements(answer.items) : x \in objects
        <5>1. \A row \in Elements(rows) : row.object \in objects
          OBVIOUS
        <5> HIDE DEF objects
        <5>2. \A x \in Elements(answer.items) : [object |-> x, parent |-> r.of].object \in objects
          BY <4>1, <5>1
        <5> QED
          BY <5>2
      <4>3. ASSUME NEW x \in objects PROVE x \in Elements(answer.items)
        BY <3>1
      <4> HIDE DEF objects
      <4> QED
        BY <4>2, <4>3
    <3> HIDE DEF objects
    <3> QED
      BY <2>4, <3>2 DEF NewObjects
  <2> QED
    BY <1>2, <2>1, <2>2, <2>3, <2>4 DEF Requests
<1> HIDE DEF rows
<1>8. PICK all : all = found \o rows
  OBVIOUS
<1>9. all \in Seq(Rows) /\ Elements(all) = Elements(found) \cup Elements(rows)
  BY <1>5, <1>6, <1>8, Joined
<1>10. FoundObjects' = {row.object : row \in Elements(all)}
  BY <1>6, <1>8, FoundElements DEF FoundObjects
<1>11. FoundObjects = {row.object : row \in Elements(found)}
  BY FoundElements DEF FoundObjects
<1>12. FoundObjects' = FoundObjects \cup objects
  BY <1>9, <1>10, <1>11
<1> HIDE DEF objects
<1>13. Extends(r, answer)
  BY <1>1, <1>4, <1>7, <1>12 DEF Extends
<1>14. found' \in Seq(Rows)
  BY <1>6, <1>8, <1>9
<1>15. Shapes'
  BY <1>4, <1>14 DEF Shapes, IsAnswered
<1> QED
  BY <1>4, <1>13, <1>14, <1>15

(* What is there already stays as it was.                                  *)
LEMMA MadeStays ==
  ASSUME NEW q, Made(q), FoundObjects \subseteq FoundObjects'
  PROVE  Made(q)'
BY DEF Made, FoundOf

(* The objects an answer brings are of the workspace.                      *)
LEMMA Brings ==
  ASSUME Shapes, Sourced, NEW r, NEW answer, IsAnswered(r, answer)
  PROVE  /\ r \in Requests /\ Made(r) /\ r.op # "refused" /\ r \in Asked
         /\ r.of \in Objects
         /\ answer.items \in Seq(Objects) /\ answer.more \in BOOLEAN /\ answer.next \in Nat
         /\ \A x \in Elements(answer.items) :
              x \in Elements(Items(r)) \/ (r.op = "children" /\ x = r.of)
         /\ IsList(r) => \A x \in Elements(answer.items) :
              /\ x \in Objects /\ Reached(x)
              /\ r.op = "search" => KindOf[x] = "data source"
              /\ r.op = "query" => KindOf[x] = "page"
              /\ r.op = "children" => KindOf[x] \in {"page", "block"}
         /\ \A o \in NewObjects(r, answer) \cap Objects :
              \/ r.op = "get data source" /\ o = r.of /\ KindOf[o] = "data source"
              \/ r.op = "get database" /\ o = r.of /\ KindOf[o] = "database"
              \/ /\ r.op \in {"query", "children"} /\ o \in Elements(answer.items)
                 /\ KindOf[o] \in {"page", "block"}
                 /\ Reached(o)
<1>1. r \in Requests /\ Made(r) /\ r.op # "refused" /\ r \in Asked
  BY AskedRequest DEF IsRequest
<1>2. /\ answer.items \in Seq(Objects) /\ answer.more \in BOOLEAN /\ answer.next \in Nat
      /\ \A x \in Elements(answer.items) :
           x \in Elements(Items(r)) \/ (r.op = "children" /\ x = r.of)
  BY <1>1, AnswerIs DEF IsAnswered
<1>3. r.of \in Objects
  BY <1>1 DEF Requests
<1>5. IsList(r) => Reached(r.of)
  <2>1. CASE r.op = "search"
    BY <1>1, <2>1 DEF Made, Reached, Spans
  <2>2. CASE r.op = "query"
    BY <1>1, <2>2 DEF Made, Sourced, FoundOf
  <2>3. CASE r.op = "children"
    BY <1>1, <2>3 DEF Made, Sourced, FoundOf
  <2> QED
    BY <2>1, <2>2, <2>3 DEF IsList
<1>6. ASSUME IsList(r), NEW x \in Elements(answer.items)
      PROVE  /\ x \in Objects /\ Reached(x)
             /\ r.op = "search" => KindOf[x] = "data source"
             /\ r.op = "query" => KindOf[x] = "page"
             /\ r.op = "children" => KindOf[x] \in {"page", "block"}
  <2>1. CASE x \in Elements(Items(r))
    <3>1. x \in Elements(ItemsIn(r.of))
      BY <1>1, <1>6, <2>1, SameItems
    <3>2. Reached(x)
      BY <1>3, <1>5, <1>6, <3>1, ReachedItems
    <3> QED
      BY <1>1, <1>6, <2>1, <3>2, ItemKinds
  <2>2. CASE r.op = "children" /\ x = r.of
    BY <1>1, <1>3, <1>5, <1>6, <2>2 DEF Made, FoundOf
  <2> QED
    BY <1>2, <2>1, <2>2
<1>9. ASSUME NEW o \in NewObjects(r, answer), o \in Objects
      PROVE  \/ r.op = "get data source" /\ o = r.of /\ KindOf[o] = "data source"
             \/ r.op = "get database" /\ o = r.of /\ KindOf[o] = "database"
             \/ /\ r.op \in {"query", "children"} /\ o \in Elements(answer.items)
                /\ KindOf[o] \in {"page", "block"}
                /\ Reached(o)
  <2>1. CASE r.op = "get data source"
    <3>1. PropertiesOf[r.of] \in Seq(Properties)
      BY <1>1, <1>3, <2>1, NotionAssumption DEF Made
    <3>2. o \notin Elements(PropertiesOf[r.of])
      <4>1. Elements(PropertiesOf[r.of]) \subseteq Properties
        BY <3>1 DEF Elements
      <4> QED
        BY <4>1, <1>9, NotionAssumption
    <3> QED
      BY <1>1, <1>9, <2>1, <3>2 DEF NewObjects, Made
  <2>2. CASE r.op = "get database"
    BY <1>1, <1>9, <2>2 DEF NewObjects, Made
  <2>3. CASE r.op \in {"query", "children"}
    BY <1>6, <1>9, <2>3 DEF NewObjects, IsList
  <2>4. CASE r.op = "search"
    BY <1>9, <2>4 DEF NewObjects
  <2> QED
    BY <1>1, <2>1, <2>2, <2>3, <2>4 DEF Requests
<1> QED
  BY <1>1, <1>2, <1>3, <1>6, <1>9

LEMMA SourcedStep ==
  ASSUME Shapes, Sourced, NEW r, NEW answer, IsAnswered(r, answer), Extends(r, answer)
  PROVE  Sourced'
<1>1. r \in Requests /\ Made(r) /\ r.op # "refused" /\ r \in Asked
  BY Brings
<1>2. answer.items \in Seq(Objects) /\ answer.more \in BOOLEAN /\ answer.next \in Nat
  BY Brings
<1>3. r.of \in Objects
  BY Brings
<1>6. ASSUME IsList(r), NEW x \in Elements(answer.items)
      PROVE  /\ x \in Objects /\ Reached(x)
             /\ r.op = "search" => KindOf[x] = "data source"
             /\ r.op = "query" => KindOf[x] = "page"
             /\ r.op = "children" => KindOf[x] \in {"page", "block"}
  BY <1>6, Brings
<1>9. ASSUME NEW o \in NewObjects(r, answer), o \in Objects
      PROVE  \/ r.op = "get data source" /\ o = r.of /\ KindOf[o] = "data source"
             \/ r.op = "get database" /\ o = r.of /\ KindOf[o] = "database"
             \/ /\ r.op \in {"query", "children"} /\ o \in Elements(answer.items)
                /\ KindOf[o] \in {"page", "block"}
                /\ Reached(o)
  BY <1>9, Brings
<1>4. FoundObjects \subseteq FoundObjects' /\ \A o \in FoundObjects' : o \in FoundObjects \/ o \in NewObjects(r, answer)
  BY DEF Extends
<1>7. \A m \in NextPage(r, answer) :
        /\ m.of = r.of /\ m.op \in {r.op, "refused"}
        /\ m.cursor = 0 \/ m.cursor \in m.seen
  <2>1. r.cursor = 0 \/ r.cursor \in r.seen
    BY <1>1 DEF Made
  <2>2. \A m \in Elements(MoreOf(r, answer)) :
          /\ m.of = r.of /\ m.op \in {r.op, "refused"}
          /\ m.cursor = 0 \/ m.cursor \in m.seen
    BY <1>1, <1>2, <2>1, MoreIs
  <2> QED
    BY <2>2 DEF NextPage
<1>8. NextPage(r, answer) # {} => IsList(r)
  BY DEF NextPage
<1>10. r.op = "get data source" =>
         /\ KindOf[r.of] = "data source" /\ Reached(r.of)
         /\ r.of \in FoundOf({"data source"})'
         /\ KindOf[DatabaseOf[r.of]] = "database"
         /\ DatabaseOf[r.of] \in Objects
  <2> SUFFICES ASSUME r.op = "get data source"
               PROVE  /\ KindOf[r.of] = "data source" /\ Reached(r.of)
                      /\ r.of \in FoundOf({"data source"})'
                      /\ KindOf[DatabaseOf[r.of]] = "database"
                      /\ DatabaseOf[r.of] \in Objects
    OBVIOUS
  <2>1. KindOf[r.of] = "data source" /\ Reached(r.of)
    BY <1>1 DEF Made, Sourced
  <2>2. r.of \in FoundObjects'
    BY DEF Extends, NewObjects
  <2> QED
    BY <1>3, <2>1, <2>2, NotionAssumption, KindsAreNested DEF FoundOf
<1>11. \A o \in FoundObjects' \cap Objects :
         KindOf[o] \in {"database", "data source", "page", "block"}
  BY <1>4, <1>9 DEF Sourced
<1>12. \A o \in FoundOf({"data source", "page", "block"})' : Reached(o)
  <2> SUFFICES ASSUME NEW o \in FoundObjects' \cap Objects,
                      KindOf[o] \in {"data source", "page", "block"}
               PROVE  Reached(o)
    BY DEF FoundOf
  <2>1. CASE o \in FoundObjects
    BY <2>1 DEF Sourced, FoundOf
  <2>2. CASE o \in NewObjects(r, answer)
    BY <1>9, <1>10, <2>2
  <2> QED
    BY <1>4, <2>1, <2>2
<1>13. \A d \in FoundOf({"data source"}) : d \in FoundOf({"data source"})'
  BY <1>4 DEF FoundOf
<1>14. \A o \in FoundOf({"database"})' : \E d \in FoundOf({"data source"})' : DatabaseOf[d] = o
  <2> SUFFICES ASSUME NEW o \in FoundObjects' \cap Objects, KindOf[o] = "database"
               PROVE  \E d \in FoundOf({"data source"}) : DatabaseOf[d] = o
    BY <1>13 DEF FoundOf
  <2>1. CASE o \in FoundObjects
    BY <2>1 DEF Sourced, FoundOf
  <2>2. CASE o \in NewObjects(r, answer)
    BY <1>1, <1>9, <2>2 DEF Made
  <2> QED
    BY <1>4, <2>1, <2>2
<1>15. \A o \in FoundObjects' \cap Properties :
         \E d \in FoundOf({"data source"})' : o \in Elements(PropertiesOf[d])
  <2> SUFFICES ASSUME NEW o \in FoundObjects' \cap Properties
               PROVE  \E d \in FoundOf({"data source"})' : o \in Elements(PropertiesOf[d])
    OBVIOUS
  <2>1. CASE o \in FoundObjects
    BY <1>13, <2>1 DEF Sourced
  <2>2. CASE o \in NewObjects(r, answer)
    <3>1. o \notin Objects
      BY NotionAssumption
    <3>2. r.op = "get data source" /\ o \in Elements(PropertiesOf[r.of])
      BY <1>1, <1>3, <1>6, <2>2, <3>1 DEF NewObjects, Requests, IsList
    <3> QED
      BY <1>10, <3>2
  <2> QED
    BY <1>4, <2>1, <2>2
(* What is asked.                                                          *)
<1>16. ASSUME NEW q \in Asked'
       PROVE  Made(q)' /\ (q.op = "get data source" => Reached(q.of))
  <2>1. CASE q \in Elements(Tail(pending))
    <3>1. q \in Asked
      BY <2>1 DEF Extends
    <3> QED
      BY <1>4, <3>1, MadeStays DEF Sourced
  <2>2. CASE q \in NextPage(r, answer)
    <3>1. q.of = r.of /\ q.op \in {r.op, "refused"} /\ (q.cursor = 0 \/ q.cursor \in q.seen)
      BY <1>7, <2>2
    <3>2. IsList(r)
      BY <1>8, <2>2
    <3>3. Made(q)
      BY <1>1, <3>1 DEF Made
    <3> QED
      BY <1>4, <3>1, <3>2, <3>3, MadeStays DEF IsList
  <2>3. CASE q \in CalledFor(r, answer)
    <3>1. CASE r.op = "search"
      <4>1. PICK x \in Elements(answer.items) : q = Single("get data source", x)
        BY <2>3, <3>1 DEF CalledFor
      <4>2. x \in Objects /\ Reached(x) /\ KindOf[x] = "data source"
        BY <1>6, <3>1 DEF IsList
      <4>3. q.op = "get data source" /\ q.of = x /\ q.cursor = 0
        BY <4>1 DEF Single, List
      <4> QED
        BY <4>2, <4>3 DEF Made
    <3>2. CASE r.op = "get data source"
      <4>1. CASE q = List("query", r.of, r.of)
        <5>1. q.op = "query" /\ q.of = r.of /\ q.cursor = 0
          BY <4>1 DEF List
        <5> QED
          BY <1>10, <3>2, <5>1 DEF Made
      <4>2. CASE q = Single("get database", DatabaseOf[r.of])
        <5>1. q.op = "get database" /\ q.of = DatabaseOf[r.of] /\ q.cursor = 0
          BY <4>2 DEF Single, List
        <5> QED
          BY <1>10, <3>2, <5>1 DEF Made
      <4> QED
        BY <2>3, <3>2, <4>1, <4>2 DEF CalledFor
    <3>3. CASE r.op = "get database"
      BY <2>3, <3>3 DEF CalledFor
    <3>4. CASE r.op \in {"query", "children"}
      <4>1. PICK x, owner : x \in Elements(answer.items) /\ q = List("children", x, owner)
        BY <2>3, <3>4 DEF CalledFor
      <4>2. x \in Objects /\ KindOf[x] \in {"page", "block"}
        BY <1>6, <3>4, <4>1 DEF IsList
      <4>3. q.op = "children" /\ q.of = x /\ q.cursor = 0
        BY <4>1 DEF List
      <4>4. x \in FoundObjects'
        BY <3>4, <4>1 DEF Extends, NewObjects
      <4> QED
        BY <4>2, <4>3, <4>4 DEF Made, FoundOf
    <3> QED
      BY <1>1, <3>1, <3>2, <3>3, <3>4 DEF Requests
  <2> QED
    BY <2>1, <2>2, <2>3 DEF Extends
<1> QED
  BY <1>11, <1>12, <1>14, <1>15, <1>16 DEF Sourced, Reached

(* The rows an answer adds to what was found.                              *)
LEMMA AddedRows ==
  ASSUME Shapes, Sourced, NEW r, NEW answer, IsAnswered(r, answer)
  PROVE  /\ Len(found) \in Nat
         /\ \A i \in 1..Len(found) : i \in 1..Len(found') /\ found'[i] = found[i]
         /\ \A i \in 1..Len(found') :
              i \in 1..Len(found) \/ (i > Len(found) /\ found'[i] \in Elements(FoundIn(r, answer)))
         /\ \A row \in Elements(FoundIn(r, answer)) : row.object \in Objects =>
              \/ /\ r.op = "get data source"
                 /\ row.object = r.of /\ row.parent = DatabaseOf[r.of]
              \/ /\ r.op = "get database"
                 /\ row.object = r.of /\ row.parent = None
              \/ /\ r.op \in {"query", "children"}
                 /\ row.object \in Elements(answer.items) /\ row.parent = r.of
<1> DEFINE rows == FoundIn(r, answer)
<1>1. /\ r \in Requests /\ Made(r) /\ r.op # "refused" /\ r.of \in Objects
      /\ answer.items \in Seq(Objects)
  BY Brings
<1>2. rows \in Seq(Rows)
  BY <1>1, FoundInIs
<1>3. found \in Seq(Rows) /\ found' = found \o rows
  BY DEF Shapes, IsAnswered
<1>4. ASSUME NEW row \in Elements(rows), row.object \in Objects
      PROVE  \/ /\ r.op = "get data source"
                /\ row.object = r.of /\ row.parent = DatabaseOf[r.of]
             \/ /\ r.op = "get database"
                /\ row.object = r.of /\ row.parent = None
             \/ /\ r.op \in {"query", "children"}
                /\ row.object \in Elements(answer.items) /\ row.parent = r.of
  <2>1. CASE r.op = "search"
    BY <1>1, <1>4, <2>1, FoundInIs
  <2>2. CASE r.op = "get data source"
    <3>1. Elements(rows) =
            {[object |-> r.of, parent |-> DatabaseOf[r.of]]} \cup
            {[object |-> p, parent |-> r.of] : p \in Elements(PropertiesOf[r.of])}
      BY <1>1, <2>2, FoundInIs
    <3>2. PropertiesOf[r.of] \in Seq(Properties)
      BY <1>1, <2>2, NotionAssumption DEF Made
    <3>3. Elements(PropertiesOf[r.of]) \subseteq Properties
      BY <3>2 DEF Elements
    <3>4. \A p \in Elements(PropertiesOf[r.of]) : p \notin Objects
      BY <3>3, NotionAssumption
    <3> HIDE DEF rows
    <3>5. \/ row = [object |-> r.of, parent |-> DatabaseOf[r.of]]
          \/ \E p \in Elements(PropertiesOf[r.of]) : row = [object |-> p, parent |-> r.of]
      BY <1>4, <3>1
    <3>6. row = [object |-> r.of, parent |-> DatabaseOf[r.of]]
      BY <1>4, <3>4, <3>5
    <3>7. row.object = r.of /\ row.parent = DatabaseOf[r.of]
      BY <3>6
    <3> QED
      BY <2>2, <3>7
  <2>3. CASE r.op = "get database"
    <3>1. Elements(rows) = {[object |-> r.of, parent |-> None]}
      BY <1>1, <2>3, FoundInIs
    <3> HIDE DEF rows
    <3>2. row = [object |-> r.of, parent |-> None]
      BY <1>4, <3>1
    <3>3. row.object = r.of /\ row.parent = None
      BY <3>2
    <3> QED
      BY <2>3, <3>3
  <2>4. CASE r.op \in {"query", "children"}
    <3>1. Elements(rows) = {[object |-> x, parent |-> r.of] : x \in Elements(answer.items)}
      BY <1>1, <2>4, FoundInIs
    <3> HIDE DEF rows
    <3>2. PICK x \in Elements(answer.items) : row = [object |-> x, parent |-> r.of]
      BY <1>4, <3>1
    <3>3. row.object = x /\ row.parent = r.of
      BY <3>2
    <3> QED
      BY <2>4, <3>2, <3>3
  <2> QED
    BY <1>1, <2>1, <2>2, <2>3, <2>4 DEF Requests
<1> HIDE DEF rows
<1>5. PICK all : all = found \o rows
  OBVIOUS
<1>6. /\ Len(all) = Len(found) + Len(rows) /\ Len(found) \in Nat /\ Len(rows) \in Nat
      /\ \A i \in 1..Len(found) : all[i] = found[i]
      /\ \A i \in 1..Len(rows) : all[Len(found) + i] = rows[i]
  BY <1>2, <1>3, <1>5
<1>7. \A i \in 1..Len(found) : i \in 1..Len(all)
  BY <1>6
<1>8. ASSUME NEW i \in 1..Len(all), i \notin 1..Len(found)
      PROVE  i > Len(found) /\ all[i] \in Elements(rows)
  <2>1. i > Len(found) /\ i - Len(found) \in 1..Len(rows) /\ Len(found) + (i - Len(found)) = i
    BY <1>6, <1>8
  <2>2. all[i] = rows[i - Len(found)]
    BY <1>6, <2>1
  <2> QED
    BY <2>1, <2>2 DEF Elements
<1>9. found' = all
  BY <1>3, <1>5
<1> QED
  BY <1>4, <1>6, <1>7, <1>8, <1>9 DEF rows

LEMMA UnderStep ==
  ASSUME Shapes, Sourced, Under, NEW r, NEW answer, IsAnswered(r, answer)
  PROVE  Under'
<1> SUFFICES ASSUME NEW i \in 1..Len(found'), found'[i].object \in Objects,
                    KindOf[found'[i].object] = "block"
             PROVE  \E j \in 1..(i - 1) : /\ found'[j].object = found'[i].parent
                                          /\ found'[j].object \in Objects
                                          /\ KindOf[found'[j].object] \in {"page", "block"}
  BY DEF Under
<1>1. /\ Len(found) \in Nat
      /\ \A j \in 1..Len(found) : j \in 1..Len(found') /\ found'[j] = found[j]
  BY AddedRows
<1>2. CASE i \in 1..Len(found)
  <2>1. PICK j \in 1..(i - 1) : /\ found[j].object = found[i].parent
                                /\ found[j].object \in Objects
                                /\ KindOf[found[j].object] \in {"page", "block"}
    BY <1>1, <1>2 DEF Under
  <2>2. j \in 1..Len(found)
    BY <1>1, <1>2
  <2> QED
    BY <1>1, <1>2, <2>1, <2>2
<1>3. CASE i \notin 1..Len(found)
  <2>1. i > Len(found) /\ found'[i] \in Elements(FoundIn(r, answer))
    BY <1>3, AddedRows
  <2>2. \/ r.op = "get data source" /\ found'[i].object = r.of
        \/ r.op = "get database" /\ found'[i].object = r.of
        \/ /\ r.op \in {"query", "children"}
           /\ found'[i].object \in Elements(answer.items) /\ found'[i].parent = r.of
    BY <2>1, AddedRows
  <2>3. r \in Requests /\ Made(r)
    BY Brings
  <2>4. r.op = "children" /\ found'[i].parent = r.of
    <3>1. r.op \notin {"get data source", "get database"}
      BY <2>2, <2>3 DEF Made
    <3>2. r.op # "query"
      BY <2>2, Brings DEF IsList
    <3> QED
      BY <2>2, <3>1, <3>2
  <2>5. r.of \in FoundObjects /\ r.of \in Objects /\ KindOf[r.of] \in {"page", "block"}
    BY <2>3, <2>4 DEF Made, FoundOf
  <2>6. PICK j \in 1..Len(found) : found[j].object = r.of
    BY <2>5 DEF FoundObjects
  <2>7. j \in 1..(i - 1) /\ found'[j] = found[j]
    BY <1>1, <2>1, <2>6
  <2> QED
    BY <2>4, <2>5, <2>6, <2>7
<1> QED
  BY <1>2, <1>3

LEMMA BelowStep ==
  ASSUME Shapes, Sourced, Below, NEW r, NEW answer, IsAnswered(r, answer)
  PROVE  Below'
<1> SUFFICES ASSUME Once', NEW i \in 1..Len(found')
             PROVE  IsBelow(found'[i])
  BY DEF Below, IsBelow
<1>1. /\ Len(found) \in Nat
      /\ \A j \in 1..Len(found) : j \in 1..Len(found') /\ found'[j] = found[j]
  BY AddedRows
<1>2. Once
  BY <1>1 DEF Once
<1>3. CASE i \in 1..Len(found)
  BY <1>1, <1>2, <1>3 DEF Below
<1>4. CASE i \notin 1..Len(found)
  <2> SUFFICES ASSUME found'[i].object \in Objects PROVE IsBelow(found'[i])
    BY DEF IsBelow
  <2>1. i > Len(found) /\ found'[i] \in Elements(FoundIn(r, answer))
    BY <1>4, AddedRows
  <2> DEFINE row == found'[i]
  <2>2. \/ r.op = "get data source" /\ row.object = r.of /\ row.parent = DatabaseOf[r.of]
        \/ r.op = "get database" /\ row.object = r.of /\ row.parent = None
        \/ /\ r.op \in {"query", "children"}
           /\ row.object \in Elements(answer.items) /\ row.parent = r.of
    BY <2>1, AddedRows
  <2> HIDE DEF row
  <2> SUFFICES IsBelow(row)
    BY DEF row
  <2>3. r \in Requests /\ Made(r)
    BY Brings
  <2>4. CASE r.op \in {"get data source", "get database"}
    <3>1. CASE r.op = "get data source"
      <4>1. row.parent = DatabaseOf[r.of] /\ row.object = r.of /\ KindOf[r.of] = "data source"
        BY <2>2, <2>3, <3>1 DEF Made
      <4> QED
        BY <4>1 DEF IsBelow
    <3>2. CASE r.op = "get database"
      <4>1. row.parent = None /\ row.object = r.of /\ KindOf[r.of] = "database"
        BY <2>2, <2>3, <3>2 DEF Made
      <4> QED
        BY <4>1 DEF IsBelow
    <3> QED
      BY <2>4, <3>1, <3>2
  <2>5. CASE r.op \in {"query", "children"}
    <3>1. IsList(r) /\ row.object \in Elements(answer.items) /\ row.parent = r.of
      BY <2>2, <2>5 DEF IsList
    <3>2. CASE row.object \in Elements(Items(r))
      <4>1. /\ \E j \in 1..Len(Children[r.of]) : Children[r.of][j] = row.object
            /\ KindOf[row.object] \in {"page", "block"}
        BY <2>3, <2>5, <3>1, <3>2, ItemKinds
      <4> QED
        <5>1. \E j \in Positions(Children[row.parent]) : Children[row.parent][j] = row.object
          BY <3>1, <4>1 DEF Positions
        <5>2. CASE KindOf[row.object] = "page"
          BY <5>1, <5>2 DEF IsBelow
        <5>3. CASE KindOf[row.object] = "block"
          BY <5>1, <5>3 DEF IsBelow
        <5> QED
          BY <4>1, <5>2, <5>3
    <3>3. CASE r.op = "children" /\ row.object = r.of
      <4>1. r.of \in FoundObjects
        BY <2>3, <3>3 DEF Made, FoundOf
      <4>2. PICK j \in 1..Len(found) : found[j].object = r.of
        BY <4>1 DEF FoundObjects
      <4>3. found'[j].object = found'[i].object /\ j \in 1..Len(found')
        BY <1>1, <3>3, <4>2 DEF row
      <4>4. j = i
        BY <4>3 DEF Once
      <4> QED
        BY <1>1, <2>1, <4>2, <4>4
    <3> QED
      BY <3>1, <3>2, <3>3, Brings
  <2> QED
    BY <2>2, <2>4, <2>5
<1> QED
  BY <1>3, <1>4

LEMMA RecordsGrow ==
  ASSUME NEW s, s \in Seq(Elements(s)), NEW e, NEW t, t = Append(s, e)
  PROVE  /\ t \in Seq(Elements(t))
         /\ \A i \in 1..Len(s) : i \in 1..Len(t) /\ t[i] = s[i]
         /\ \E i \in 1..Len(t) : t[i] = e
<1> DEFINE S == Elements(s) \cup {e}
<1>1. s \in Seq(S) /\ e \in S
  BY DEF Elements
<1>2. /\ t \in Seq(S) /\ Len(t) = Len(s) + 1 /\ Len(s) \in Nat
      /\ \A i \in 1..Len(s) : t[i] = s[i]
      /\ t[Len(t)] = e
  BY <1>1
<1>3. \A i \in 1..Len(t) : t[i] \in Elements(t)
  BY DEF Elements
<1>4. t \in Seq(Elements(t))
  BY <1>2, <1>3
<1>5. Len(t) \in 1..Len(t) /\ \A i \in 1..Len(s) : i \in 1..Len(t)
  BY <1>2
<1> QED
  BY <1>2, <1>4, <1>5

Grows(s, t) == \A i \in 1..Len(s) : i \in 1..Len(t) /\ t[i] = s[i]

(* What explains an object goes on to do so.                               *)
LEMMA AnswerStays ==
  ASSUME NEW o \in Objects, NEW s, NEW t, Grows(s, t), AnswerOf(o, s)
  PROVE  AnswerOf(o, t)
<1>0. KindOf[o] \in {"workspace", "database", "data source", "page", "block"}
  BY NotionAssumption
<1>1. CASE KindOf[o] = "workspace"
  BY <1>1 DEF AnswerOf
<1>2. CASE KindOf[o] = "database"
  BY <1>2 DEF AnswerOf, Positions, Grows
<1>3. CASE KindOf[o] = "data source"
  BY <1>3 DEF AnswerOf, Positions, Grows
<1>4. CASE KindOf[o] \in {"page", "block"}
  BY <1>4 DEF AnswerOf, Positions, Grows
<1> QED
  BY <1>0, <1>1, <1>2, <1>3, <1>4

LEMMA AnswersStep ==
  ASSUME Shapes, Sourced, Answers, NEW r, NEW answer, IsAnswered(r, answer),
         Extends(r, answer), Sourced',
         records \in Seq(Elements(records)), NEW e, records' = Append(records, e),
         e.request = r, e.outcome = "SUCCESS", e.items = answer.items
  PROVE  Answers'
<1> SUFFICES ASSUME NEW o \in FoundObjects' \cap Objects PROVE AnswerOf(o, records')
  BY DEF Answers
<1>1. KindOf[o] \in {"database", "data source", "page", "block"}
  BY DEF Sourced
<1>2. /\ \A i \in 1..Len(records) : i \in 1..Len(records') /\ records'[i] = records[i]
      /\ \E i \in 1..Len(records') : records'[i] = e
  BY RecordsGrow
<1>3. CASE o \in FoundObjects
  <2>1. AnswerOf(o, records)
    BY <1>3 DEF Answers
  <2>2. Grows(records, records')
    BY <1>2 DEF Grows
  <2> QED
    BY <2>1, <2>2, AnswerStays
<1>4. CASE o \in NewObjects(r, answer)
  <2>1. PICK i \in 1..Len(records') : records'[i] = e
    BY <1>2
  <2>2. \/ r.op = "get data source" /\ o = r.of /\ KindOf[o] = "data source"
        \/ r.op = "get database" /\ o = r.of /\ KindOf[o] = "database"
        \/ o \in Elements(answer.items) /\ KindOf[o] \in {"page", "block"}
    BY <1>4, Brings
  <2>3. CASE r.op = "get data source" /\ o = r.of /\ KindOf[o] = "data source"
    BY <2>1, <2>3 DEF AnswerOf, Positions
  <2>4. CASE r.op = "get database" /\ o = r.of /\ KindOf[o] = "database"
    BY <2>1, <2>4 DEF AnswerOf, Positions
  <2>5. CASE o \in Elements(answer.items) /\ KindOf[o] \in {"page", "block"}
    <3>1. PICK j \in 1..Len(answer.items) : answer.items[j] = o
      BY <2>5 DEF Elements
    <3> QED
      BY <2>1, <2>5, <3>1 DEF AnswerOf, Positions
  <2> QED
    BY <2>2, <2>3, <2>4, <2>5
<1> QED
  BY <1>3, <1>4 DEF Extends

(* What is left of a list is still asked for, or its items were found.     *)
LEMMA OldIsCovered ==
  ASSUME Shapes, Sourced, NEW r, NEW answer, IsAnswered(r, answer), Extends(r, answer),
         Sane', NEW o \in Objects, Covered(o)
  PROVE  Covered(o)'
<1> SUFFICES ASSUME NEW k \in 1..Len(ItemsIn(o))
             PROVE  \/ ItemsIn(o)[k] \in FoundObjects'
                    \/ \E q \in Asked' : q.op = "get data source" /\ q.of = ItemsIn(o)[k]
                    \/ \E q \in Asked' : IsList(q) /\ q.of = o /\ q.cursor < k
  BY DEF Covered, IsList
<1>1. /\ r \in Requests /\ Made(r) /\ r.op # "refused"
      /\ answer.items \in Seq(Objects) /\ answer.more \in BOOLEAN /\ answer.next \in Nat
  BY Brings
<1>2. CASE ItemsIn(o)[k] \in FoundObjects
  BY <1>2 DEF Extends
<1>3. CASE \E q \in Asked : q.op = "get data source" /\ q.of = ItemsIn(o)[k]
  <2>1. PICK q \in Asked : q.op = "get data source" /\ q.of = ItemsIn(o)[k]
    BY <1>3
  <2>2. CASE q = r
    BY <2>1, <2>2 DEF Extends, NewObjects
  <2>3. CASE q # r
    BY <2>1, <2>3 DEF Extends
  <2> QED
    BY <2>2, <2>3
<1>4. CASE \E q \in Asked : IsList(q) /\ q.of = o /\ q.cursor < k
  <2>1. PICK q \in Asked : IsList(q) /\ q.of = o /\ q.cursor < k
    BY <1>4
  <2>2. CASE q # r
    BY <2>1, <2>2 DEF Extends
  <2>3. CASE q = r
    <3>1. Items(r) = ItemsIn(o) /\ IsList(r) /\ r.of = o
      BY <1>1, <2>1, <2>3, SameItems
    <3>2. r.cursor \in Nat
      BY <1>1 DEF Requests
    <3>3. \/ ItemsIn(o)[k] \in Elements(answer.items)
          \/ answer.more /\ answer.next \in {r.cursor} \cup r.seen
          \/ answer.more /\ answer.next < k
      <4>1. k > r.cursor
        BY <2>1, <2>3, <3>2
      <4> QED
        BY <1>1, <3>1, <4>1, AnswerIs DEF IsAnswered
    <3>4. CASE ItemsIn(o)[k] \in Elements(answer.items)
      <4>1. CASE r.op = "search"
        <5>1. Single("get data source", ItemsIn(o)[k]) \in Asked'
          BY <3>4, <4>1 DEF Extends, CalledFor
        <5>2. /\ Single("get data source", ItemsIn(o)[k]).op = "get data source"
              /\ Single("get data source", ItemsIn(o)[k]).of = ItemsIn(o)[k]
          BY DEF Single, List
        <5> QED
          BY <5>1, <5>2
      <4>2. CASE r.op \in {"query", "children"}
        BY <3>4, <4>2 DEF Extends, NewObjects
      <4> QED
        BY <3>1, <4>1, <4>2 DEF IsList
    <3>5. CASE answer.more
      <4>1. r.cursor = 0 \/ r.cursor \in r.seen
        BY <1>1 DEF Made
      <4>2. \A m \in Elements(MoreOf(r, answer)) : m.of = r.of
        BY <1>1, <4>1, MoreIs
      <4>m. /\ r \in Requests /\ (r.cursor = 0 \/ r.cursor \in r.seen)
            /\ answer.more \in BOOLEAN /\ answer.next \in Nat /\ answer.more
        BY <1>1, <3>5, <4>1
      <4>n. \E m \in Elements(MoreOf(r, answer)) : Continues(m, r, answer)
        <5>1. answer.more = TRUE
          BY <4>m
        <5> QED
          BY <4>m, <5>1, MoreFollows
      <4>3. PICK m \in Elements(MoreOf(r, answer)) :
              \/ m.op = "refused"
              \/ m.op = r.op /\ m.cursor = answer.next /\ answer.next \notin {0} \cup r.seen
        BY <4>n DEF Continues
      <4>4. m.of = o /\ m \in Asked'
        BY <3>1, <4>2 DEF Extends, NextPage
      <4>5. m.op # "refused"
        BY <4>4 DEF Sane
      <4>6. m.op = r.op /\ m.cursor = answer.next /\ answer.next \notin {0} \cup r.seen
        BY <4>3, <4>5
      <4>7. CASE ItemsIn(o)[k] \in Elements(answer.items)
        BY <3>4, <4>7
      <4>8. CASE answer.next < k
        <5>1. IsList(m)
          BY <3>1, <4>6 DEF IsList
        <5> QED
          BY <4>4, <4>6, <4>8, <5>1
      <4> QED
        BY <3>3, <4>1, <4>6, <4>7, <4>8
    <3> QED
      BY <3>3, <3>4, <3>5
  <2> QED
    BY <2>2, <2>3
<1> QED
  BY <1>2, <1>3, <1>4 DEF Covered

(* Whatever is new is asked what is in it, if there is anything.           *)
LEMMA NewIsCovered ==
  ASSUME Shapes, Sourced, NEW r, NEW answer, IsAnswered(r, answer), Extends(r, answer),
         NEW o \in NewObjects(r, answer), o \in Objects
  PROVE  Covered(o)'
<1> SUFFICES ASSUME NEW k \in 1..Len(ItemsIn(o))
             PROVE  \E q \in Asked' : IsList(q) /\ q.of = o /\ q.cursor < k
  BY DEF Covered, IsList
<1>1. \/ r.op = "get data source" /\ o = r.of /\ KindOf[o] = "data source"
      \/ r.op = "get database" /\ o = r.of /\ KindOf[o] = "database"
      \/ r.op = "query" /\ o \in Elements(answer.items)
      \/ r.op = "children" /\ o \in Elements(answer.items) /\ KindOf[o] \in {"page", "block"}
  BY Brings
<1>2. \A op, owner : /\ List(op, o, owner).op = op /\ List(op, o, owner).of = o
                     /\ List(op, o, owner).cursor = 0
  BY DEF List
<1>3. 0 < k
  OBVIOUS
<1>4. CASE r.op = "get data source" /\ o = r.of
  <2>1. List("query", o, o) \in Asked'
    BY <1>4 DEF Extends, CalledFor
  <2> QED
    BY <1>2, <1>3, <2>1 DEF IsList
<1>5. CASE KindOf[o] = "database"
  <2>1. Len(ItemsIn(o)) = 0
    BY <1>5, DatabasesAreEmpty
  <2> QED
    BY <2>1
<1>6. CASE r.op = "query" /\ o \in Elements(answer.items)
  <2>1. List("children", o, o) \in Asked'
    BY <1>6 DEF Extends, CalledFor
  <2> QED
    BY <1>2, <1>3, <2>1 DEF IsList
<1>7. CASE r.op = "children" /\ o \in Elements(answer.items) /\ KindOf[o] \in {"page", "block"}
  <2>1. ItemsIn(o) = Children[o]
    BY <1>7 DEF ItemsIn, Items, List
  <2>2. HasChildren(o)
    BY <2>1 DEF HasChildren
  <2>3. List("children", o, r.owner) \in Asked'
    BY <1>7, <2>2 DEF Extends, CalledFor
  <2> QED
    BY <1>2, <1>3, <2>3 DEF IsList
<1> QED
  BY <1>1, <1>4, <1>5, <1>6, <1>7

LEMMA CoversStep ==
  ASSUME Shapes, Sourced, Covers, NEW r, NEW answer, IsAnswered(r, answer), Extends(r, answer)
  PROVE  Covers'
<1> SUFFICES ASSUME Sane'
             PROVE  /\ \A o \in {Workspace} \cup (FoundObjects' \cap Objects) : Covered(o)'
                    /\ \A d \in FoundOf({"data source"})' :
                         /\ \/ DatabaseOf[d] \in FoundObjects'
                            \/ \E q \in Asked' : q.op = "get database" /\ q.of = DatabaseOf[d]
                         /\ Elements(PropertiesOf[d]) \subseteq FoundObjects'
  BY DEF Covers
<1>1. r \in Requests /\ Made(r) /\ r.op # "refused" /\ r \in Asked /\ r.of \in Objects
  BY Brings
<1>2. Sane
  BY <1>1 DEF Sane, Extends
<1>3. ASSUME NEW o \in {Workspace} \cup (FoundObjects' \cap Objects)
      PROVE  Covered(o)'
  <2>1. CASE o \in {Workspace} \cup (FoundObjects \cap Objects)
    <3>1. Covered(o) /\ o \in Objects
      BY <1>2, <2>1, NotionAssumption DEF Covers
    <3> QED
      BY <3>1, OldIsCovered
  <2>2. CASE o \in NewObjects(r, answer) /\ o \in Objects
    BY <2>2, NewIsCovered
  <2> QED
    BY <1>3, <2>1, <2>2 DEF Extends
<1>4. ASSUME NEW d \in FoundOf({"data source"})'
      PROVE  /\ \/ DatabaseOf[d] \in FoundObjects'
                \/ \E q \in Asked' : q.op = "get database" /\ q.of = DatabaseOf[d]
             /\ Elements(PropertiesOf[d]) \subseteq FoundObjects'
  <2>1. d \in FoundObjects' /\ d \in Objects /\ KindOf[d] = "data source"
    BY <1>4 DEF FoundOf
  <2>2. CASE d \in FoundObjects
    <3>1. d \in FoundOf({"data source"})
      BY <2>1, <2>2 DEF FoundOf
    <3>2. Elements(PropertiesOf[d]) \subseteq FoundObjects'
      BY <1>2, <3>1 DEF Covers, Extends
    <3>3. \/ DatabaseOf[d] \in FoundObjects
          \/ \E q \in Asked : q.op = "get database" /\ q.of = DatabaseOf[d]
      BY <1>2, <3>1 DEF Covers
    <3>4. CASE DatabaseOf[d] \in FoundObjects
      BY <3>2, <3>4 DEF Extends
    <3>5. ASSUME NEW q \in Asked, q.op = "get database", q.of = DatabaseOf[d]
          PROVE  \/ DatabaseOf[d] \in FoundObjects'
                 \/ q \in Asked'
      BY <3>5 DEF Extends, NewObjects
    <3> QED
      BY <3>2, <3>3, <3>4, <3>5
  <2>3. CASE d \in NewObjects(r, answer)
    <3>1. r.op = "get data source" /\ d = r.of
      BY <2>1, <2>3, Brings
    <3>2. Elements(PropertiesOf[d]) \subseteq FoundObjects'
      BY <3>1 DEF Extends, NewObjects
    <3>3. CASE Indexed(DatabaseOf[d])
      <4>1. DatabaseOf[d] \in FoundObjects
        BY <3>3 DEF Indexed, FoundObjects, Positions
      <4> QED
        BY <3>2, <4>1 DEF Extends
    <3>4. CASE ~Indexed(DatabaseOf[d])
      <4> DEFINE q == Single("get database", DatabaseOf[d])
      <4>1. q \in Asked'
        BY <3>1, <3>4 DEF Extends, CalledFor
      <4>2. q.op = "get database" /\ q.of = DatabaseOf[d]
        BY DEF Single, List
      <4> QED
        BY <3>2, <4>1, <4>2
    <3> QED
      BY <3>3, <3>4
  <2> QED
    BY <2>1, <2>2, <2>3 DEF Extends
<1> QED
  BY <1>3, <1>4


(* While nothing is found and nothing is to be asked that was not before.  *)
LEMMA NothingNew ==
  ASSUME Traversed, UNCHANGED <<pending, found>>,
         Grows(records, records') \/ UNCHANGED records,
         pc' \in {"attempt", "sleep"} => pending # <<>> /\ Head(pending).op # "refused",
         Finished'
  PROVE  Traversed'
<1>1. pending' = pending /\ found' = found
  OBVIOUS
<1>2. Asked' = Asked /\ FoundObjects' = FoundObjects
  BY <1>1 DEF Asked, FoundObjects
<1>3. \A kinds : FoundOf(kinds)' = FoundOf(kinds)
  BY <1>2 DEF FoundOf
<1>4. \A q : Made(q)' <=> Made(q)
  BY <1>3 DEF Made
<1>5. Shapes'
  BY <1>1 DEF Traversed, Shapes
<1>6. Sourced'
  BY <1>2, <1>3, <1>4 DEF Traversed, Sourced
<1>7. Answers'
  <2> SUFFICES ASSUME NEW o \in FoundObjects \cap Objects PROVE AnswerOf(o, records')
    BY <1>2 DEF Answers
  <2>1. AnswerOf(o, records)
    BY DEF Traversed, Answers
  <2>2. CASE Grows(records, records')
    BY <2>1, <2>2, AnswerStays
  <2>3. CASE records' = records
    BY <2>1, <2>3
  <2> QED
    BY <2>2, <2>3
<1>8. Under'
  BY <1>1 DEF Traversed, Under
<1>9. Below'
  BY <1>1 DEF Traversed, Below, Once
<1>10. Covers'
  <2>1. \A o : Covered(o)' <=> Covered(o)
    BY <1>2 DEF Covered
  <2>2. Sane' <=> Sane
    BY <1>2 DEF Sane
  <2> QED
    BY <1>2, <1>3, <2>1, <2>2 DEF Traversed, Covers
<1> QED
  BY <1>5, <1>6, <1>7, <1>8, <1>9, <1>10 DEF Traversed

LEMMA RecordsKept ==
  ASSUME records \in Seq(Elements(records)), NEW e, records' = Append(records, e)
  PROVE  Grows(records, records')
<1>1. /\ \A i \in 1..Len(records) : i \in 1..Len(records') /\ records'[i] = records[i]
      /\ \E i \in 1..Len(records') : records'[i] = e
  BY RecordsGrow
<1> QED
  BY <1>1 DEF Grows

(* An attempt of which a record is all that is kept.                       *)
LEMMA RecordedOnly ==
  ASSUME NotionFiles, Traversed, pc = "attempt", NEW e, records' = Append(records, e),
         UNCHANGED <<pending, found, dir>>, step' \in {"open", "fail-ledger"}
  PROVE  Traversed'
<1>1. Grows(records, records')
  <2>1. records \in Seq(Elements(records))
    BY DEF NotionFiles
  <2> QED
    BY <2>1, RecordsKept
<1>2. pending # <<>> /\ Head(pending).op # "refused"
  BY DEF Traversed, Shapes
<1>3. Finished'
  BY DEF NotionFiles, Traversed, Finished
<1> QED
  BY <1>1, <1>2, <1>3, NothingNew

LEMMA TraversedAnswered ==
  ASSUME NotionFiles, Traversed, NotionFiles', pending # <<>>,
         NEW answer \in MayAnswer(Head(pending)), Answered(answer)
  PROVE  Traversed'
<1> DEFINE r == Head(pending)
           e == [request |-> r, attempt |-> attempt, outcome |-> "SUCCESS",
                 retrying |-> FALSE, items |-> answer.items]
<1>1. pc = "attempt" /\ UNCHANGED dir /\ records' = Append(records, e)
  BY DEF Answered, RecordResponse
<1>2. CASE ~answer.valid \/ IsCyclic(r, answer)
  <2>1. UNCHANGED <<pending, found>> /\ step' = "fail-ledger"
    BY <1>2 DEF Answered, GiveUp, Fail
  <2> QED
    BY <1>1, <2>1, RecordedOnly
<1>3. CASE ~(~answer.valid \/ IsCyclic(r, answer))
  <2>1. IsAnswered(r, answer) /\ UNCHANGED step
    BY <1>3 DEF Answered, IsAnswered
  <2>2. Shapes /\ Sourced /\ Answers /\ Under /\ Below /\ Covers
    BY DEF Traversed
  <2>3. e.request = r /\ e.outcome = "SUCCESS" /\ e.items = answer.items
    OBVIOUS
  <2> HIDE DEF e, r
  <2>4. Extends(r, answer) /\ Shapes'
    BY <2>1, <2>2, Extending
  <2>5. Sourced'
    BY <2>1, <2>2, <2>4, SourcedStep
  <2>6. Answers'
    BY <1>1, <2>1, <2>2, <2>3, <2>4, <2>5, AnswersStep DEF NotionFiles
  <2>7. Under'
    BY <2>1, <2>2, UnderStep
  <2>8. Below'
    BY <2>1, <2>2, BelowStep
  <2>9. Covers'
    BY <2>1, <2>2, <2>4, CoversStep
  <2>10. Finished'
    BY <1>1, <2>1 DEF NotionFiles, Finished
  <2> QED
    BY <2>4, <2>5, <2>6, <2>7, <2>8, <2>9, <2>10 DEF Traversed
<1> QED
  BY <1>2, <1>3

LEMMA TraversedRequest ==
  ASSUME NotionFiles, Traversed, NotionFiles', Request
  PROVE  Traversed'
<1>1. CASE NextRequest
  <2>1. Finished'
    BY <1>1 DEF NextRequest, GiveUp, Fail, NotionFiles, Traversed, Finished
  <2>2. /\ UNCHANGED <<pending, found, records>>
        /\ pc' \in {"attempt", "sleep"} => pending # <<>> /\ Head(pending).op # "refused"
    BY <1>1 DEF NextRequest, GiveUp
  <2> QED
    BY <2>1, <2>2, NothingNew
<1>2. CASE AnsweredHonestly
  BY <1>2, TraversedAnswered DEF AnsweredHonestly, MayAnswer
<1>3. ASSUME AnsweredNonsense \/ AnsweredInCircles
      PROVE  Traversed'
  BY <1>3, TraversedAnswered DEF AnsweredNonsense, AnsweredInCircles, MayAnswer
<1>4. ASSUME NEW outcome \in {"WRITE_FAILED", "OMITTED_SECRET"}, NotRecorded(outcome)
      PROVE  Traversed'
  BY <1>4, RecordedOnly DEF NotRecorded, RecordResponse, GiveUp, Fail
<1>5. ASSUME NEW retryable \in BOOLEAN, Refused(retryable)
      PROVE  Traversed'
  <2>1. step' \in {"open", "fail-ledger"}
    BY <1>5 DEF Refused, RecordFailure, GiveUp, Fail
  <2> QED
    BY <1>5, <2>1, RecordedOnly DEF Refused, RecordFailure
<1>6. CASE Unanswered
  <2>1. Finished'
    BY <1>6 DEF Unanswered, GiveUp, Fail, NotionFiles, Traversed, Finished
  <2>2. UNCHANGED <<pending, found, records>> /\ pc' = "returned"
    BY <1>6 DEF Unanswered, GiveUp
  <2> QED
    BY <2>1, <2>2, NothingNew
<1>7. CASE Sleep
  <2>1. Finished'
    BY <1>7 DEF Sleep, GiveUp, Fail, NotionFiles, Traversed, Finished
  <2>2. UNCHANGED <<pending, found, records>> /\ pc = "sleep"
    BY <1>7 DEF Sleep
  <2>3. pending # <<>> /\ Head(pending).op # "refused"
    BY <2>2 DEF Traversed, Shapes
  <2> QED
    BY <2>1, <2>2, <2>3, NothingNew
<1> QED
  BY <1>1, <1>2, <1>3, <1>4, <1>5, <1>6, <1>7 DEF Request

LEMMA TraversedClose ==
  ASSUME NotionFiles, Traversed, Close
  PROVE  Traversed'
<1>1. UNCHANGED <<pending, found, records>> /\ pc' = "returned" /\ pc = "returned"
  <2>1. UNCHANGED <<pending, found>> /\ pc' = "returned" /\ pc = "returned"
    BY DEF Close, clientVars
  <2>2. UNCHANGED records
    BY DEF Close, WriteInventory, WriteLedger, WriteRun, Publish, FailLedger, FailRun, Preserve
  <2> QED
    BY <2>1, <2>2
<1>2. SourceObjects' = SourceObjects
  BY <1>1 DEF SourceObjects
<1>3. Finished'
  <2> USE DEF Traversed, Finished, NotionFiles, WriteOr, MoveOr
  <2>1. CASE WriteInventory(SourceObjects)
    BY <1>1, <1>2, <2>1 DEF WriteInventory
  <2>2. CASE WriteLedger
    BY <1>1, <1>2, <2>2 DEF WriteLedger
  <2>3. CASE WriteRun(SourceObjects)
    <3>1. pending = <<>> /\ step' \in {"rename", "fail-ledger"}
      BY <2>3 DEF WriteRun
    <3>2. \/ dir'.run[1].index = SourceObjects
          \/ dir'.run \in {dir.run, <<>>}
      <4> DEFINE content == [status |-> "COMPLETE", index |-> SourceObjects,
                             summary |-> Summarize(records)]
      <4>1. \/ dir' = [dir EXCEPT !["run"] = <<content>>]
            \/ \E left \in {dir["run"], <<>>} : dir' = [dir EXCEPT !["run"] = left]
        BY <2>3 DEF WriteRun
      <4>2. content.index = SourceObjects
        OBVIOUS
      <4> HIDE DEF content
      <4> QED
        BY <4>1, <4>2
    <3> QED
      BY <1>1, <1>2, <3>1, <3>2
  <2>4. CASE Publish
    BY <1>1, <1>2, <2>4 DEF Publish
  <2>5. CASE FailLedger
    BY <1>1, <1>2, <2>5 DEF FailLedger
  <2>6. CASE FailRun
    <3>1. step' \in {"preserve", "unpreserved"}
      BY <2>6 DEF FailRun
    <3>2. \/ dir'.run[1].status = "FAILED"
          \/ dir'.run \in {dir.run, <<>>}
      <4> DEFINE content == [status |-> "FAILED", index |-> <<>>,
                             summary |-> Summarize(records)]
      <4>1. \/ dir' = [dir EXCEPT !["run"] = <<content>>]
            \/ \E left \in {dir["run"], <<>>} : dir' = [dir EXCEPT !["run"] = left]
        BY <2>6 DEF FailRun
      <4>2. content.status = "FAILED"
        OBVIOUS
      <4> HIDE DEF content
      <4> QED
        BY <4>1, <4>2
    <3> QED
      BY <1>1, <1>2, <3>1, <3>2
  <2>7. CASE Preserve
    BY <1>1, <1>2, <2>7 DEF Preserve
  <2> QED
    BY <2>1, <2>2, <2>3, <2>4, <2>5, <2>6, <2>7 DEF Close
<1> QED
  BY <1>1, <1>3, NothingNew

LEMMA TraversedStep ==
  ASSUME NotionFiles, Traversed, NotionFiles', [Next]_vars
  PROVE  Traversed'
<1>1. CASE Extracted
  <2>1. UNCHANGED <<pending, found, records>> /\ pc' = "returned"
    BY <1>1 DEF Extracted, Complete
  <2>2. Finished'
    BY <1>1 DEF Extracted, Complete, NotionFiles, Traversed, Finished
  <2> QED
    BY <2>1, <2>2, NothingNew
<1>2. CASE Interrupt \/ Kill \/ UNCHANGED vars
  <2>1. UNCHANGED <<pending, found, records, dir, step>> /\ (pc' = pc \/ pc' = "dead")
    BY <1>2 DEF Interrupt, Kill, vars, clientVars, snapshotVars
  <2>2. SourceObjects' = SourceObjects
    BY <2>1 DEF SourceObjects
  <2>3. Finished'
    BY <2>1, <2>2 DEF Traversed, Finished
  <2>4. pc' \in {"attempt", "sleep"} => pending # <<>> /\ Head(pending).op # "refused"
    BY <2>1 DEF Traversed, Shapes
  <2> QED
    BY <2>1, <2>3, <2>4, NothingNew
<1> QED
  BY <1>1, <1>2, TraversedRequest, TraversedClose DEF Next

LEMMA TraversedInitially == Init => Traversed
<1> SUFFICES ASSUME Init PROVE Traversed
  OBVIOUS
<1> DEFINE r == List("search", Workspace, None)
<1>1. /\ pending = <<r>> /\ found = <<>> /\ pc = "request" /\ step = "open"
      /\ dir.run[1].status = "IN_PROGRESS"
  BY DEF Init, BeginInit
<1>2. /\ r \in Requests /\ r.op = "search" /\ r.of = Workspace /\ r.cursor = 0
  <2>1. Workspace \in Objects
    BY NotionAssumption
  <2> QED
    BY <2>1 DEF List, Requests
<1> HIDE DEF r
<1>3. pending \in Seq(Requests) /\ Asked = {r}
  BY <1>1, <1>2, OneOf DEF Asked
<1>4. found \in Seq(Rows) /\ FoundObjects = {} /\ Len(found) = 0
  BY <1>1 DEF FoundObjects
<1>5. \A kinds : FoundOf(kinds) = {}
  BY <1>4 DEF FoundOf
<1>6. Shapes
  BY <1>1, <1>3, <1>4 DEF Shapes
<1>7. Sourced
  BY <1>2, <1>3, <1>4, <1>5 DEF Sourced, Made
<1>8. Answers /\ Under /\ Below
  BY <1>4 DEF Answers, Under, Below
<1>9. Covers
  <2>1. Covered(Workspace)
    <3>1. r \in Asked /\ IsList(r) /\ r.of = Workspace /\ r.cursor = 0
      BY <1>2, <1>3 DEF IsList
    <3>2. \A k \in 1..Len(ItemsIn(Workspace)) : 0 < k
      OBVIOUS
    <3> QED
      BY <3>1, <3>2 DEF Covered
  <2> QED
    BY <1>4, <1>5, <2>1 DEF Covers
<1>10. Finished
  BY <1>1 DEF Finished
<1> QED
  BY <1>6, <1>7, <1>8, <1>9, <1>10 DEF Traversed


-----------------------------------------------------------------------------
(* The way up from an object of an index.                                  *)
PlaceOf(p, index) == CHOOSE i \in 1..Len(index) : index[i].object = p

Parent(p, index) ==
  IF p \in Objects /\ KindOf[p] = "block" THEN index[PlaceOf(p, index)].parent ELSE p

Climbs(o, index, n, g) ==
  g = [m \in 0..n |-> IF m = 0 THEN o ELSE Parent(g[m - 1], index)]

LEMMA Climbing ==
  ASSUME NEW o, NEW index, NEW N \in Nat
  PROVE  \E g : Climbs(o, index, N, g)
<1> DEFINE S == {n \in Nat : \E g : Climbs(o, index, n, g)}
<1>1. 0 \in S
  <2>1. Climbs(o, index, 0, [m \in 0..0 |-> o])
    BY DEF Climbs
  <2> QED
    BY <2>1
<1>2. ASSUME NEW n \in Nat, n \in S
      PROVE  n + 1 \in S
  <2>1. PICK g : Climbs(o, index, n, g)
    BY <1>2
  <2> DEFINE h == [m \in 0..(n + 1) |-> IF m = n + 1 THEN Parent(g[n], index) ELSE g[m]]
  <2>2. Climbs(o, index, n + 1, h)
    <3>1. \A m \in 0..(n + 1) : h[m] = IF m = 0 THEN o ELSE Parent(h[m - 1], index)
      <4>1. \A m \in 0..n : h[m] = g[m]
        OBVIOUS
      <4>2. \A m \in 0..n : m # 0 => m - 1 \in 0..n
        OBVIOUS
      <4>3. \A m \in 0..n : g[m] = IF m = 0 THEN o ELSE Parent(g[m - 1], index)
        BY <2>1 DEF Climbs
      <4>4. h[n + 1] = Parent(h[n], index)
        BY <4>1
      <4>5. \A m \in 0..(n + 1) : m \in 0..n \/ (m = n + 1 /\ m - 1 = n /\ m # 0)
        OBVIOUS
      <4> HIDE DEF h
      <4> QED
        BY <4>1, <4>2, <4>3, <4>4, <4>5
    <3>2. h = [m \in 0..(n + 1) |-> h[m]]
      OBVIOUS
    <3> HIDE DEF h
    <3> QED
      BY <3>1, <3>2 DEF Climbs
  <2> HIDE DEF h
  <2> QED
    BY <2>2
<1> HIDE DEF S
<1>3. Nat \subseteq S
  BY <1>1, <1>2, Induction
<1> USE DEF S
<1> QED
  BY <1>3

(* The index is the workspace and what was found; each object is in it     *)
(* once.                                                                   *)
IsIndex(index) ==
  /\ Len(index) = Len(found) + 1 /\ Len(found) \in Nat
  /\ index[1] = [object |-> Workspace, parent |-> None]
  /\ \A i \in 1..Len(found) : index[i + 1] = found[i]
  /\ ValidIndex(index)

LEMMA IndexIs ==
  ASSUME found \in Seq(Rows), ValidIndex(SourceObjects)
  PROVE  IsIndex(SourceObjects)
<1> DEFINE row == [object |-> Workspace, parent |-> None]
<1>1. <<row>> \in Seq(Rows) /\ Len(<<row>>) = 1 /\ <<row>>[1] = row
  <2>1. row \in Rows
    <3>1. Workspace \in Objects
      BY NotionAssumption
    <3> QED
      BY <3>1 DEF Rows
  <2> HIDE DEF row
  <2> QED
    BY <2>1
<1>2. SourceObjects = <<row>> \o found
  BY DEF SourceObjects
<1> HIDE DEF row
<1>3. /\ Len(SourceObjects) = 1 + Len(found)
      /\ SourceObjects[1] = row
      /\ \A i \in 1..Len(found) : SourceObjects[1 + i] = found[i]
  <2>1. /\ Len(<<row>> \o found) = Len(<<row>>) + Len(found)
        /\ \A i \in 1..Len(<<row>>) : (<<row>> \o found)[i] = <<row>>[i]
        /\ \A i \in 1..Len(found) : (<<row>> \o found)[Len(<<row>>) + i] = found[i]
    BY <1>1, Concatenated
  <2> HIDE DEF row
  <2> QED
    BY <1>1, <1>2, <2>1
<1>4. Len(found) \in Nat
  OBVIOUS
<1>5. \A i \in 1..Len(found) : 1 + i = i + 1
  OBVIOUS
<1> QED
  BY <1>3, <1>4, <1>5 DEF IsIndex, row

LEMMA PlaceIs ==
  ASSUME NEW index, IsIndex(index), NEW j \in 1..Len(found)
  PROVE  PlaceOf(found[j].object, index) = j + 1
<1>1. j + 1 \in 1..Len(index) /\ index[j + 1] = found[j]
  BY DEF IsIndex
<1>2. \A i \in 1..Len(index) : index[i].object = found[j].object => i = j + 1
  BY <1>1 DEF IsIndex, ValidIndex, Positions
<1> QED
  BY <1>1, <1>2 DEF PlaceOf

(* From a block the way goes up, row by row, to a page.                    *)
LEMMA TracedToAPage ==
  ASSUME NEW index, IsIndex(index), Under,
         NEW j \in 1..Len(found), found[j].object \in Objects, KindOf[found[j].object] = "block"
  PROVE  LET p == TracedTo(found[j].object, index) IN p \in Objects /\ KindOf[p] = "page"
<1> DEFINE o == found[j].object
           N == Len(index)
           g == CHOOSE f : Climbs(o, index, N, f)
           IsAt(p, n) ==
             /\ p \in Objects /\ KindOf[p] \in {"page", "block"}
             /\ KindOf[p] = "block" =>
                  \E k \in 1..Len(found) : found[k].object = p /\ k + n <= Len(found)
           S == {n \in Nat : n <= N => IsAt(g[n], n)}
<1>1. N \in Nat /\ N = Len(found) + 1 /\ Len(found) \in Nat
  BY DEF IsIndex
<1>2. Climbs(o, index, N, g)
  BY <1>1, Climbing
<1>3. TracedTo(o, index) = g[N]
  BY DEF TracedTo, Climbs, Parent, PlaceOf, Positions
<1>4. o \in Objects /\ KindOf[o] = "block" /\ found[j].object = o
  OBVIOUS
<1> HIDE DEF N, g, o
<1>5. g[0] = o /\ \A n \in 1..N : g[n] = Parent(g[n - 1], index)
  <2>1. \A n \in 0..N : g[n] = IF n = 0 THEN o ELSE Parent(g[n - 1], index)
    BY <1>2 DEF Climbs
  <2>2. 0 \in 0..N /\ \A n \in 1..N : n \in 0..N /\ n # 0
    BY <1>1
  <2> QED
    BY <2>1, <2>2
<1>6. 0 \in S
  BY <1>1, <1>4, <1>5
<1>7. ASSUME NEW n \in Nat, n \in S
      PROVE  n + 1 \in S
  <2> SUFFICES ASSUME n + 1 <= N PROVE IsAt(g[n + 1], n + 1)
    OBVIOUS
  <2>1. IsAt(g[n], n) /\ n + 1 \in 1..N /\ (n + 1) - 1 = n
    BY <1>1, <1>7
  <2>2. g[n + 1] = Parent(g[n], index)
    BY <1>5, <2>1
  <2>3. CASE KindOf[g[n]] = "page"
    <3>1. g[n + 1] = g[n]
      BY <2>2, <2>3 DEF Parent
    <3> QED
      BY <2>1, <2>3, <3>1
  <2>4. CASE KindOf[g[n]] = "block"
    <3>1. PICK k \in 1..Len(found) : found[k].object = g[n] /\ k + n <= Len(found)
      BY <2>1, <2>4
    <3>2. /\ g[n] \in Objects
          /\ PlaceOf(g[n], index) = k + 1 /\ index[k + 1] = found[k]
      BY <2>1, <3>1, PlaceIs DEF IsIndex
    <3>3. g[n + 1] = found[k].parent
      BY <2>2, <2>4, <3>2 DEF Parent
    <3>4. PICK m \in 1..(k - 1) : /\ found[m].object = found[k].parent
                                  /\ found[m].object \in Objects
                                  /\ KindOf[found[m].object] \in {"page", "block"}
      BY <2>4, <3>1, <3>2 DEF Under
    <3>5. m \in 1..Len(found) /\ m + (n + 1) <= Len(found)
      BY <1>1, <3>1, <3>4
    <3> QED
      BY <3>3, <3>4, <3>5
  <2> QED
    BY <2>1, <2>3, <2>4
<1> HIDE DEF S
<1>8. N \in S
  BY <1>1, <1>6, <1>7, Induction
<1>9. IsAt(g[N], N)
  BY <1>1, <1>8 DEF S
<1>10. KindOf[g[N]] # "block"
  BY <1>1, <1>9
<1>11. g[N] \in Objects /\ KindOf[g[N]] = "page"
  BY <1>9, <1>10
<1> QED
  BY <1>3, <1>11 DEF o


(* When nothing is left to be asked, what was found spans the workspace.   *)
LEMMA AllIsFound ==
  ASSUME Shapes, Sourced, Covers, pending = <<>>
  PROVE  {Workspace} \cup FoundObjects = Reachable
<1> DEFINE all == {Workspace} \cup (FoundObjects \cap Objects)
           objects == {o \in Objects : Reached(o)}
           sources == {o \in objects : KindOf[o] = "data source"}
<1>1. Asked = {} /\ Sane
  BY Singles DEF Asked, Sane
<1>2. /\ \A o \in all : Covered(o)
      /\ \A d \in FoundOf({"data source"}) :
           DatabaseOf[d] \in FoundObjects /\ Elements(PropertiesOf[d]) \subseteq FoundObjects
  BY <1>1 DEF Covers
<1>3. Workspace \in Objects /\ KindOf[Workspace] = "workspace"
  BY NotionAssumption, KindsAreNested
<1>4. Spans(all)
  <2>1. ASSUME NEW o \in all, NEW i \in 1..Len(ItemsIn(o))
        PROVE  ItemsIn(o)[i] \in all
    <3>1. ItemsIn(o)[i] \in FoundObjects
      BY <1>1, <1>2 DEF Covered
    <3>2. o \in Objects
      BY <1>3
    <3>3. ItemsIn(o) \in Seq(Objects)
      BY <3>2, ItemsType, ListType DEF ItemsIn
    <3>4. ItemsIn(o)[i] \in Objects
      BY <3>3
    <3> QED
      BY <3>1, <3>4
  <2> QED
    BY <2>1 DEF Spans, Positions
<1>5. all \in SUBSET Objects
  BY <1>3
<1>6. \A o : Reached(o) => o \in all
  BY <1>4, <1>5 DEF Reached
<1>7. Reached(Workspace)
  BY DEF Reached, Spans
<1>8. sources = FoundOf({"data source"})
  <2>1. ASSUME NEW d \in sources PROVE d \in FoundOf({"data source"})
    BY <1>3, <1>6 DEF FoundOf
  <2>2. ASSUME NEW d \in FoundOf({"data source"}) PROVE d \in sources
    BY DEF FoundOf, Sourced
  <2> QED
    BY <2>1, <2>2
<1>9. Reachable = objects \cup {DatabaseOf[o] : o \in sources}
                  \cup UNION {Elements(PropertiesOf[o]) : o \in sources}
  BY DEF Reachable, Reached, Elements, Positions
<1> HIDE DEF objects, sources
<1>10. ASSUME NEW x \in Reachable PROVE x \in {Workspace} \cup FoundObjects
  <2>1. CASE x \in objects
    BY <1>6, <2>1 DEF objects
  <2>2. CASE x \in {DatabaseOf[o] : o \in sources}
    BY <1>2, <1>8, <2>2
  <2>3. CASE x \in UNION {Elements(PropertiesOf[o]) : o \in sources}
    BY <1>2, <1>8, <2>3
  <2> QED
    BY <1>9, <2>1, <2>2, <2>3
<1>11. ASSUME NEW x \in {Workspace} \cup FoundObjects PROVE x \in Reachable
  <2>1. CASE x = Workspace
    BY <1>3, <1>7, <1>9, <2>1 DEF objects
  <2>2. CASE x \in FoundObjects /\ x \in Objects
    <3>1. KindOf[x] \in {"database", "data source", "page", "block"}
      BY <2>2 DEF Sourced
    <3>2. CASE KindOf[x] = "database"
      <4>1. x \in FoundOf({"database"})
        BY <2>2, <3>2 DEF FoundOf
      <4>2. \E d \in sources : DatabaseOf[d] = x
        BY <1>8, <4>1 DEF Sourced
      <4> QED
        BY <1>9, <4>2
    <3>3. CASE KindOf[x] # "database"
      <4>1. x \in FoundOf({"data source", "page", "block"})
        BY <2>2, <3>1, <3>3 DEF FoundOf
      <4>2. Reached(x)
        BY <4>1 DEF Sourced
      <4> QED
        BY <1>9, <2>2, <4>2 DEF objects
    <3> QED
      BY <3>2, <3>3
  <2>3. CASE x \in FoundObjects /\ x \notin Objects
    <3>1. x \in Properties
      <4>1. PICK i \in 1..Len(found) : x = found[i].object
        BY <2>3 DEF FoundObjects
      <4>2. found[i] \in Rows
        BY Typed DEF Shapes
      <4> QED
        BY <2>3, <4>1, <4>2 DEF Rows
    <3>2. \E d \in sources : x \in Elements(PropertiesOf[d])
      BY <1>8, <2>3, <3>1 DEF Sourced
    <3> QED
      BY <1>9, <3>2
  <2> QED
    BY <2>1, <2>2, <2>3
<1> QED
  BY <1>10, <1>11

LEMMA WholeFollows ==
  ASSUME Traversed, Loads(dir) => dir.requests[1] = records
  PROVE  LoadableIsWhole
<1> SUFFICES ASSUME Loads(dir)
             PROVE  LET index == dir.inventory[1] IN
                    /\ {index[i].object : i \in Positions(index)} = Reachable
                    /\ \A i \in Positions(index) : IsBelow(index[i])
                    /\ Rebuilds(index, dir.requests[1])
  BY DEF LoadableIsWhole
<1> DEFINE index == dir.inventory[1]
<1>1. pending = <<>> /\ index = SourceObjects /\ ValidIndex(index)
  BY DEF Loads, Traversed, Finished
<1>2. IsIndex(index)
  BY <1>1, IndexIs DEF Traversed, Shapes
<1>3. dir.requests[1] = records
  OBVIOUS
<1> HIDE DEF index
<1> SUFFICES /\ {index[i].object : i \in 1..Len(index)} = Reachable
             /\ \A i \in 1..Len(index) : IsBelow(index[i])
             /\ Rebuilds(index, records)
  BY <1>3 DEF index, Positions
<1>4. /\ 1 \in 1..Len(index) /\ index[1] = [object |-> Workspace, parent |-> None]
      /\ \A i \in 1..Len(found) : i + 1 \in 1..Len(index) /\ index[i + 1] = found[i]
      /\ \A i \in 1..Len(index) : i = 1 \/ \E j \in 1..Len(found) : i = j + 1
  <2>1. /\ Len(index) = Len(found) + 1 /\ Len(found) \in Nat
        /\ index[1] = [object |-> Workspace, parent |-> None]
        /\ \A i \in 1..Len(found) : index[i + 1] = found[i]
    BY <1>2 DEF IsIndex
  <2>2. ASSUME NEW i \in 1..Len(index), i # 1
        PROVE  \E j \in 1..Len(found) : i = j + 1
    <3>1. i - 1 \in 1..Len(found) /\ i = (i - 1) + 1
      BY <2>1, <2>2
    <3> QED
      BY <3>1
  <2> QED
    BY <2>1, <2>2
<1>5. \A i \in 1..Len(index) :
        \/ index[i] = [object |-> Workspace, parent |-> None]
        \/ \E j \in 1..Len(found) : index[i] = found[j]
  BY <1>4
<1>6. {index[i].object : i \in 1..Len(index)} = {Workspace} \cup FoundObjects
  <2>1. ASSUME NEW i \in 1..Len(index) PROVE index[i].object \in {Workspace} \cup FoundObjects
    BY <1>5 DEF FoundObjects
  <2>2. Workspace \in {index[i].object : i \in 1..Len(index)}
    BY <1>4
  <2>3. ASSUME NEW i \in 1..Len(found)
        PROVE  found[i].object \in {index[k].object : k \in 1..Len(index)}
    BY <1>4
  <2> QED
    BY <2>1, <2>2, <2>3 DEF FoundObjects
<1>7. {index[i].object : i \in 1..Len(index)} = Reachable
  BY <1>1, <1>6, AllIsFound DEF Traversed
<1>8. \A i \in 1..Len(index) : IsBelow(index[i])
  <2>1. Once
    <3> SUFFICES ASSUME NEW i \in 1..Len(found), NEW j \in 1..Len(found),
                        found[i].object = found[j].object
                 PROVE  i = j
      BY DEF Once
    <3>0. /\ i + 1 \in 1..Len(index) /\ j + 1 \in 1..Len(index)
          /\ index[i + 1].object = index[j + 1].object
      BY <1>4
    <3>1. i + 1 = j + 1
      BY <1>1, <3>0 DEF ValidIndex, Positions
    <3> QED
      BY <3>1
  <2>2. \A j \in 1..Len(found) : IsBelow(found[j])
    BY <2>1 DEF Traversed, Below
  <2>3. IsBelow([object |-> Workspace, parent |-> None])
    BY KindsAreNested DEF IsBelow
  <2> QED
    BY <1>5, <2>2, <2>3
<1>9. ASSUME NEW i \in 1..Len(index), index[i].object \in Objects
      PROVE  /\ AnswerOf(index[i].object, records)
             /\ KindOf[index[i].object] = "block" =>
                  LET p == TracedTo(index[i].object, index) IN
                  p \in Objects /\ KindOf[p] = "page"
  <2>1. CASE index[i] = [object |-> Workspace, parent |-> None]
    <3>1. KindOf[Workspace] = "workspace"
      BY KindsAreNested
    <3>2. AnswerOf(Workspace, records)
      BY <3>1 DEF AnswerOf
    <3>3. index[i].object = Workspace
      BY <2>1
    <3> QED
      BY <3>1, <3>2, <3>3
  <2>2. CASE \E j \in 1..Len(found) : index[i] = found[j]
    <3>1. PICK j \in 1..Len(found) : index[i] = found[j]
      BY <2>2
    <3>2. found[j].object \in FoundObjects \cap Objects
      BY <1>9, <3>1 DEF FoundObjects
    <3>3. AnswerOf(found[j].object, records)
      BY <3>2 DEF Traversed, Answers
    <3>4. ASSUME KindOf[found[j].object] = "block"
          PROVE  LET p == TracedTo(found[j].object, index) IN
                 p \in Objects /\ KindOf[p] = "page"
      BY <1>2, <3>2, <3>4, TracedToAPage DEF Traversed
    <3> QED
      BY <3>1, <3>3, <3>4
  <2> QED
    BY <1>5, <2>1, <2>2
<1>10. Rebuilds(index, records)
  BY <1>9 DEF Rebuilds, Positions
<1> QED
  BY <1>7, <1>8, <1>10

LEMMA FilesAre ==
  ASSUME NotionSession!IInv
  PROVE  NotionFiles
BY DEF NotionSession!IInv, NotionSession!Control, NotionSession!Files,
       NotionSession!IsSequence, NotionFiles, Elements

(* Notion: a snapshot that loads is the whole workspace as far as Notion   *)
(* hands it out.  Whatever was answered, refused, retried, interrupted or  *)
(* killed, LoadComplete accepts no directory that lacks an object of a     *)
(* page, a level or a query that was not read to its end, that has one     *)
(* more, or from which an object cannot be rebuilt.                        *)
THEOREM WholeCorrect == ExtractSpec => []LoadableIsWhole
<1>1. ExtractInit => Traversed
  BY TraversedInitially DEF ExtractInit
<1>2. [ExtractNext]_allVars => [Next]_vars
  BY DEF ExtractNext, NotionStep, ClickUpStep, allVars
<1>3. Traversed /\ NotionFiles /\ NotionFiles' /\ [ExtractNext]_allVars => Traversed'
  BY <1>2, TraversedStep
<1>4. NotionSession!IInv => NotionFiles
  BY FilesAre
<1>5. Traversed /\ LedgerMissesAtMostLast => LoadableIsWhole
  BY WholeFollows DEF LedgerMissesAtMostLast
<1>6. ExtractSpec => []NotionSession!IInv
  BY Safety, NotionImplementsRecording, NotionSession!Invariance, PTL
<1>7. ExtractSpec => []Traversed
  BY <1>1, <1>3, <1>4, <1>6, PTL DEF ExtractSpec, ExtractSafety
<1> QED
  BY <1>5, <1>7, LedgerCorrect, PTL
=============================================================================
