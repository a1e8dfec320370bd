--------------------------- MODULE RecordingProofs ---------------------------
(***************************************************************************)
(* Theorems about Recording, for a client of either provider: what the     *)
(* ledger says, and which directories load, whichever requests are made    *)
(* and whatever the source answers.                                        *)
(***************************************************************************)
EXTENDS Recording, TLAPS

IsSequence(s) == s \in Seq({s[i] : i \in 1..Len(s)})

(* The parts of the invariant.                                             *)

Control ==
  /\ pc \in {"request", "attempt", "sleep", "returned", "dead"}
  /\ step \in {"open", "inventory", "ledger", "run", "rename", "complete",
               "fail-ledger", "fail-run", "preserve", "failed", "unpreserved"}
  /\ pc \in {"request", "attempt", "sleep"} => step = "open"
  /\ pc = "returned" => step # "open"
  /\ IsSequence(records) /\ IsSequence(sent)

(* What was recorded was sent.                                             *)
Follows ==
  /\ \/ Len(sent) = Len(records)
     \/ Silent /\ Len(sent) = Len(records) + 1
  /\ \A i \in 1..Len(records) :
       records[i].request = sent[i].request /\ records[i].attempt = sent[i].attempt

Retries(r, s) ==
  r.retrying /\ s.request = r.request /\ s.attempt = r.attempt + 1

(* While the session is open, the last attempt is the only one that may    *)
(* have failed and not have been retried yet.                              *)
Accounted ==
  step = "open" =>
    /\ Len(sent) = Len(records)
    /\ \A i \in 1..Len(records) :
         records[i].outcome \in {"SUCCESS", "FAILED_ATTEMPT"}
    /\ \A i \in 1..(Len(records) - 1) :
         records[i].outcome = "FAILED_ATTEMPT" => Retries(records[i], records[i + 1])

ToBeRetried ==
  pc # "dead" /\ step = "open" /\ Len(records) > 0 =>
    LET last == records[Len(records)] IN
    last.outcome = "FAILED_ATTEMPT" =>
      /\ last.retrying
      /\ last.request = Head(pending)
      /\ \/ pc = "sleep" /\ attempt = last.attempt
         \/ pc = "attempt" /\ attempt = last.attempt + 1

(* What a snapshot that says COMPLETE may rely on.                         *)
Sound ==
  /\ ValidIndex(index)
  /\ Len(sent) = Len(records)
  /\ \A i \in 1..Len(records) :
       /\ records[i].outcome \in {"SUCCESS", "FAILED_ATTEMPT"}
       /\ records[i].outcome = "FAILED_ATTEMPT" =>
            i < Len(records) /\ Retries(records[i], records[i + 1])

RunRecord(status, objects) ==
  <<[status |-> status, index |-> objects, summary |-> Summarize(records)]>>

(* The files, by where the session is.                                     *)
Files ==
  /\ dir = [at |-> dir.at, inventory |-> dir.inventory,
            requests |-> dir.requests, run |-> dir.run]
  /\ step = "open" => /\ dir.requests = <<>>
                      /\ dir.run # <<>> /\ dir.run[1].status = "IN_PROGRESS"
  /\ dir.requests \in {<<>>, <<records>>}
  /\ dir.at = "target" <=> step = "complete"
  /\ dir.at = "failed" <=> step = "failed"
  /\ step \in {"ledger", "run", "rename", "complete"} => dir.inventory = <<index>>
  /\ step \in {"run", "rename", "complete"} => dir.requests = <<records>>
  /\ step \in {"rename", "complete"} => dir.run = RunRecord("COMPLETE", index)
  /\ step \in {"preserve", "failed"} => dir.run = RunRecord("FAILED", <<>>)

Sounds ==
  \/ Sound
  \/ /\ step \notin {"inventory", "ledger", "run", "rename", "complete"}
     /\ dir.run # <<>> => dir.run[1].status # "COMPLETE"

IInv == Control /\ Follows /\ Accounted /\ ToBeRetried /\ Files /\ Sounds

-----------------------------------------------------------------------------
(* Appending to a sequence of whatever elements.                           *)
LEMMA Appended ==
  ASSUME NEW s, IsSequence(s), NEW e, NEW t, t = Append(s, e)
  PROVE  /\ IsSequence(t)
         /\ Len(t) = Len(s) + 1
         /\ Len(s) \in Nat
         /\ \A i \in 1..Len(s) : t[i] = s[i]
         /\ t[Len(t)] = e
<1> DEFINE S == {s[i] : i \in 1..Len(s)} \cup {e}
<1>1. s \in Seq(S) /\ e \in S
  BY DEF IsSequence
<1>2. /\ t \in Seq(S) /\ Len(t) = Len(s) + 1 /\ Len(s) \in Nat
      /\ \A i \in 1..Len(s) : t[i] = s[i]
      /\ t[Len(t)] = e
  BY <1>1
<1>3. \A i \in 1..Len(t) : t[i] \in {t[j] : j \in 1..Len(t)}
  OBVIOUS
<1>4. t \in Seq({t[j] : j \in 1..Len(t)})
  BY <1>2, <1>3
<1> QED BY <1>2, <1>4 DEF IsSequence

LEMMA LengthIsNat ==
  ASSUME NEW s, IsSequence(s)
  PROVE  Len(s) \in Nat
BY DEF IsSequence

LEMMA Initially == Init => IInv
<1> SUFFICES ASSUME Init PROVE IInv
  OBVIOUS
<1>1. records = <<>> /\ sent = <<>> /\ step = "open" /\ pc = "request"
  BY DEF Init, BeginInit
<1>2. IsSequence(<<>>)
  BY DEF IsSequence
<1>3. Control /\ Follows /\ Accounted /\ ToBeRetried
  BY <1>1, <1>2 DEF Control, Follows, Accounted, ToBeRetried
<1>4. dir = [at |-> "staging", inventory |-> <<>>, requests |-> <<>>,
             run |-> <<[status |-> "IN_PROGRESS", index |-> <<>>,
                        summary |-> Summarize(<<>>)]>>]
  BY DEF Init, BeginInit
<1>5. Files /\ Sounds
  BY <1>1, <1>4 DEF Files, Sounds
<1> QED BY <1>3, <1>5 DEF IInv

-----------------------------------------------------------------------------
(* An attempt that is sent and recorded.                                   *)
LEMMA Recorded ==
  ASSUME IInv, pc = "attempt", step = "open", Send,
         NEW r, records' = Append(records, r),
         r.request = Head(pending), r.attempt = attempt
  PROVE  /\ IsSequence(records)' /\ IsSequence(sent)'
         /\ Follows'
         /\ Len(records') = Len(records) + 1 /\ Len(records) \in Nat
         /\ Len(sent') = Len(records')
         /\ records'[Len(records')] = r
         /\ \A i \in 1..(Len(records') - 1) :
              /\ records'[i].outcome \in {"SUCCESS", "FAILED_ATTEMPT"}
              /\ records'[i].outcome = "FAILED_ATTEMPT" =>
                   Retries(records'[i], records'[i + 1])
<1> DEFINE e == [request |-> Head(pending), attempt |-> attempt]
<1>1. IsSequence(records) /\ IsSequence(sent)
  BY DEF IInv, Control
<1>2. sent' = Append(sent, e)
  BY DEF Send
<1>3. /\ IsSequence(records)' /\ IsSequence(sent)'
      /\ Len(records') = Len(records) + 1 /\ Len(records) \in Nat
      /\ Len(sent') = Len(sent) + 1 /\ Len(sent) \in Nat
      /\ \A i \in 1..Len(records) : records'[i] = records[i]
      /\ \A i \in 1..Len(sent) : sent'[i] = sent[i]
      /\ records'[Len(records')] = r
      /\ sent'[Len(sent')] = e
  <2>1. IsSequence(records')
    BY <1>1, Appended
  <2>2. Len(records') = Len(records) + 1 /\ Len(records) \in Nat
    BY <1>1, Appended
  <2>3. \A i \in 1..Len(records) : records'[i] = records[i]
    BY <1>1, Appended
  <2>4. records'[Len(records')] = r
    BY <1>1, Appended
  <2>5. IsSequence(sent')
    BY <1>1, <1>2, Appended
  <2>6. Len(sent') = Len(sent) + 1 /\ Len(sent) \in Nat
    BY <1>1, <1>2, Appended
  <2>7. \A i \in 1..Len(sent) : sent'[i] = sent[i]
    BY <1>1, <1>2, Appended
  <2>8. sent'[Len(sent')] = e
    BY <1>1, <1>2, Appended
  <2> QED BY <2>1, <2>2, <2>3, <2>4, <2>5, <2>6, <2>7, <2>8 DEF IsSequence
<1>4. Len(sent) = Len(records)
  BY DEF IInv, Accounted
<1>5. Follows'
  BY <1>3, <1>4 DEF IInv, Follows
<1>6. ASSUME NEW i \in 1..(Len(records') - 1)
      PROVE  /\ records'[i].outcome \in {"SUCCESS", "FAILED_ATTEMPT"}
             /\ records'[i].outcome = "FAILED_ATTEMPT" =>
                  Retries(records'[i], records'[i + 1])
  <2>1. i \in 1..Len(records) /\ records'[i] = records[i]
    BY <1>3
  <2>2. records[i].outcome \in {"SUCCESS", "FAILED_ATTEMPT"}
    BY <2>1 DEF IInv, Accounted
  <2>3. CASE i < Len(records)
    <3>1. i \in 1..(Len(records) - 1) /\ i + 1 \in 1..Len(records)
      BY <2>1, <2>3, <1>3
    <3>2. records[i].outcome = "FAILED_ATTEMPT" => Retries(records[i], records[i + 1])
      BY <3>1 DEF IInv, Accounted
    <3> QED BY <2>1, <2>2, <3>1, <3>2, <1>3
  <2>4. CASE i = Len(records)
    <3>1. records'[i + 1] = r
      BY <1>3, <2>4
    <3>2. records[i].outcome = "FAILED_ATTEMPT" =>
            /\ records[i].retrying
            /\ records[i].request = Head(pending)
            /\ attempt = records[i].attempt + 1
      BY <2>1, <2>4 DEF IInv, ToBeRetried
    <3> QED BY <2>1, <2>2, <3>1, <3>2 DEF Retries
  <2> QED BY <2>1, <2>3, <2>4, <1>3
<1> QED BY <1>3, <1>4, <1>5, <1>6

(* While the session is open, the directory has neither ledger nor verdict.*)
LEMMA StillOpen ==
  ASSUME IInv, step = "open", step' \in {"open", "fail-ledger"}, UNCHANGED dir
  PROVE  Files' /\ Sounds'
BY DEF IInv, Files, Sounds, RunRecord

LEMMA AnsweredStep ==
  ASSUME IInv, Answered
  PROVE  IInv'
<1>0. PICK items : RecordResponse(Head(pending), attempt, items, "SUCCESS")
  BY DEF Answered
<1> DEFINE r == [request |-> Head(pending), attempt |-> attempt, outcome |-> "SUCCESS",
                 retrying |-> FALSE, items |-> items]
<1>1. /\ pc = "attempt" /\ step = "open" /\ Send
      /\ records' = Append(records, r)
      /\ \/ pc' = "returned" /\ step' = "fail-ledger"
         \/ pc' = "request" /\ step' = step
      /\ UNCHANGED dir
  BY <1>0 DEF Answered, RecordResponse, GiveUp, Fail, Send
<1>2. r.request = Head(pending) /\ r.attempt = attempt /\ r.outcome = "SUCCESS"
  OBVIOUS
<1> HIDE DEF r
<1>3. /\ IsSequence(records)' /\ IsSequence(sent)'
      /\ Follows'
      /\ Len(records') = Len(records) + 1 /\ Len(records) \in Nat
      /\ Len(sent') = Len(records')
      /\ records'[Len(records')] = r
      /\ \A i \in 1..(Len(records') - 1) :
           /\ records'[i].outcome \in {"SUCCESS", "FAILED_ATTEMPT"}
           /\ records'[i].outcome = "FAILED_ATTEMPT" =>
                Retries(records'[i], records'[i + 1])
  BY <1>1, <1>2, Recorded
<1>4. Control'
  BY <1>1, <1>3 DEF Control
<1>5. \A i \in 1..Len(records') : records'[i].outcome \in {"SUCCESS", "FAILED_ATTEMPT"}
  BY <1>2, <1>3
<1>6. Accounted' /\ ToBeRetried'
  BY <1>1, <1>2, <1>3, <1>5 DEF Accounted, ToBeRetried
<1>7. Files' /\ Sounds'
  BY <1>1, StillOpen
<1> QED BY <1>3, <1>4, <1>6, <1>7 DEF IInv

LEMMA NotRecordedStep ==
  ASSUME IInv, NEW outcome \in {"WRITE_FAILED", "OMITTED_SECRET"}, NotRecorded(outcome)
  PROVE  IInv'
<1> DEFINE r == [request |-> Head(pending), attempt |-> attempt, outcome |-> outcome,
                 retrying |-> FALSE, items |-> <<>>]
<1>1. /\ pc = "attempt" /\ step = "open" /\ Send
      /\ records' = Append(records, r)
      /\ pc' = "returned" /\ step' = "fail-ledger"
      /\ UNCHANGED dir
  BY DEF NotRecorded, RecordResponse, GiveUp, Fail, Send
<1>2. r.request = Head(pending) /\ r.attempt = attempt
  OBVIOUS
<1> HIDE DEF r
<1>3. IsSequence(records)' /\ IsSequence(sent)' /\ Follows'
  BY <1>1, <1>2, Recorded
<1>4. Control' /\ Accounted' /\ ToBeRetried'
  BY <1>1, <1>3 DEF Control, Accounted, ToBeRetried
<1>5. Files' /\ Sounds'
  BY <1>1, StillOpen
<1> QED BY <1>3, <1>4, <1>5 DEF IInv

LEMMA FailedStep ==
  ASSUME IInv, NEW retrying \in BOOLEAN, Failed(retrying)
  PROVE  IInv'
<1> DEFINE r == [request |-> Head(pending), attempt |-> attempt,
                 outcome |-> "FAILED_ATTEMPT", retrying |-> retrying,
                 items |-> <<>>]
<1>1. /\ pc = "attempt" /\ step = "open" /\ Send
      /\ records' = Append(records, r)
      /\ \/ retrying /\ pc' = "sleep" /\ step' = step
         \/ pc' = "returned" /\ step' = "fail-ledger"
      /\ UNCHANGED <<dir, pending, attempt>>
  BY DEF Failed, RecordFailure, GiveUp, Fail, Send
<1>2. /\ r.request = Head(pending) /\ r.attempt = attempt
      /\ r.outcome = "FAILED_ATTEMPT" /\ r.retrying = retrying
  OBVIOUS
<1> HIDE DEF r
<1>3. /\ IsSequence(records)' /\ IsSequence(sent)'
      /\ Follows'
      /\ Len(records') = Len(records) + 1 /\ Len(records) \in Nat
      /\ Len(sent') = Len(records')
      /\ records'[Len(records')] = r
      /\ \A i \in 1..(Len(records') - 1) :
           /\ records'[i].outcome \in {"SUCCESS", "FAILED_ATTEMPT"}
           /\ records'[i].outcome = "FAILED_ATTEMPT" =>
                Retries(records'[i], records'[i + 1])
  BY <1>1, <1>2, Recorded
<1>4. Control'
  BY <1>1, <1>3 DEF Control
<1>5. \A i \in 1..Len(records') : records'[i].outcome \in {"SUCCESS", "FAILED_ATTEMPT"}
  BY <1>2, <1>3
<1>6. Accounted' /\ ToBeRetried'
  BY <1>1, <1>2, <1>3, <1>5 DEF Accounted, ToBeRetried
<1>7. Files' /\ Sounds'
  BY <1>1, StillOpen
<1> QED BY <1>3, <1>4, <1>6, <1>7 DEF IInv

LEMMA UnansweredStep ==
  ASSUME IInv, Unanswered
  PROVE  IInv'
<1> DEFINE e == [request |-> Head(pending), attempt |-> attempt]
<1>1. /\ pc = "attempt" /\ step = "open"
      /\ pc' = "returned" /\ step' = "fail-ledger"
      /\ UNCHANGED <<records, dir>>
  BY DEF Unanswered, GiveUp, Fail, Send
<1>2. sent' = Append(sent, e) /\ IsSequence(sent)
  BY DEF Unanswered, Send, IInv, Control
<1>3. IsSequence(sent')
  BY <1>2, Appended
<1>4. Len(sent') = Len(sent) + 1 /\ Len(sent) \in Nat
  BY <1>2, Appended
<1>5. \A i \in 1..Len(sent) : sent'[i] = sent[i]
  BY <1>2, Appended
<1>6. Len(sent) = Len(records)
  BY <1>1 DEF IInv, Accounted
<1>7. Follows'
  BY <1>1, <1>4, <1>5, <1>6 DEF IInv, Follows, Unanswered
<1>8. Control' /\ Accounted' /\ ToBeRetried'
  BY <1>1, <1>3 DEF IInv, Control, IsSequence, Accounted, ToBeRetried
<1>9. Files' /\ Sounds'
  BY <1>1, StillOpen
<1> QED BY <1>7, <1>8, <1>9 DEF IInv

(* Steps that neither send nor record.                                     *)
LEMMA Quiet ==
  ASSUME IInv, UNCHANGED <<records, sent>>
  PROVE  IsSequence(records)' /\ IsSequence(sent)' /\ Follows'
BY DEF IInv, Control, Follows, IsSequence

LEMMA PrepareStep ==
  ASSUME IInv, Prepare
  PROVE  IInv'
<1>1. /\ pc = "request" /\ step = "open"
      /\ \/ pc' = "returned" /\ step' = "fail-ledger"
         \/ pc' \in {"request", "attempt"} /\ step' = step
      /\ UNCHANGED <<records, dir, sent>>
  BY DEF Prepare, GiveUp, Fail, IInv, Control
<1>2. IsSequence(records)' /\ IsSequence(sent)' /\ Follows'
  BY <1>1, Quiet
<1>3. Control' /\ Accounted'
  BY <1>1, <1>2 DEF IInv, Control, Accounted, Retries
<1>4. ToBeRetried'
  BY <1>1 DEF IInv, ToBeRetried
<1>5. Files' /\ Sounds'
  BY <1>1, StillOpen
<1> QED BY <1>2, <1>3, <1>4, <1>5 DEF IInv

LEMMA SleepStep ==
  ASSUME IInv, Sleep
  PROVE  IInv'
<1>1. /\ pc = "sleep" /\ step = "open"
      /\ \/ pc' = "returned" /\ step' = "fail-ledger"
         \/ pc' = "attempt" /\ step' = step /\ attempt' = attempt + 1
      /\ UNCHANGED <<records, dir, sent, pending>>
  BY DEF Sleep, GiveUp, Fail, IInv, Control
<1>2. IsSequence(records)' /\ IsSequence(sent)' /\ Follows'
  BY <1>1, Quiet
<1>3. Control' /\ Accounted'
  BY <1>1, <1>2 DEF IInv, Control, Accounted, Retries
<1>4. ToBeRetried'
  BY <1>1 DEF IInv, ToBeRetried
<1>5. Files' /\ Sounds'
  BY <1>1, StillOpen
<1> QED BY <1>2, <1>3, <1>4, <1>5 DEF IInv

(* The traversal ends with no attempt left to be retried.                  *)
LEMMA ExtractedStep ==
  ASSUME IInv, Extracted
  PROVE  IInv'
<1>1. /\ pc = "request" /\ step = "open"
      /\ pc' = "returned"
      /\ \/ ValidIndex(index) /\ step' = "inventory"
         \/ step' = "fail-ledger"
      /\ UNCHANGED <<records, dir, sent, index>>
  BY DEF Extracted, Complete
<1>2. IsSequence(records)' /\ IsSequence(sent)' /\ Follows'
  BY <1>1, Quiet
<1>3. Control' /\ Accounted' /\ ToBeRetried'
  BY <1>1, <1>2 DEF Control, Accounted, ToBeRetried
<1>4. CASE step' = "fail-ledger"
  BY <1>1, <1>2, <1>3, <1>4, StillOpen DEF IInv
<1>5. CASE ValidIndex(index) /\ step' = "inventory"
  <2>1. Files'
    BY <1>1, <1>5 DEF IInv, Files
  <2>2. Len(records) \in Nat
    BY LengthIsNat DEF IInv, Control
  <2>3. ASSUME NEW i \in 1..Len(records)
        PROVE  /\ records[i].outcome \in {"SUCCESS", "FAILED_ATTEMPT"}
               /\ records[i].outcome = "FAILED_ATTEMPT" =>
                    i < Len(records) /\ Retries(records[i], records[i + 1])
    <3>1. records[i].outcome \in {"SUCCESS", "FAILED_ATTEMPT"}
      BY <1>1 DEF IInv, Accounted
    <3>2. CASE i < Len(records)
      <4>1. i \in 1..(Len(records) - 1)
        BY <2>2, <3>2
      <4> QED BY <1>1, <3>1, <3>2, <4>1 DEF IInv, Accounted
    <3>3. CASE i = Len(records)
      <4>1. Len(records) > 0 /\ i = Len(records)
        BY <2>2, <3>3
      <4>2. records[Len(records)].outcome # "FAILED_ATTEMPT"
        BY <1>1, <4>1 DEF IInv, ToBeRetried
      <4> QED BY <3>1, <4>1, <4>2
    <3> QED BY <2>2, <3>2, <3>3
  <2>4. Sound
    BY <1>1, <1>5, <2>3 DEF Sound, IInv, Accounted
  <2>5. Sound'
    BY <1>1, <2>4 DEF Sound, Retries
  <2> QED BY <1>2, <1>3, <2>1, <2>5 DEF IInv, Sounds
<1> QED BY <1>1, <1>4, <1>5

LEMMA KillStep ==
  ASSUME IInv, Kill
  PROVE  IInv'
<1>1. pc' = "dead" /\ UNCHANGED <<records, dir, step, pending, attempt, index, sent>>
  BY DEF Kill, snapshotVars
<1> QED
  BY <1>1 DEF IInv, Control, IsSequence, Follows, Accounted, Retries, ToBeRetried,
              Files, RunRecord, Sounds, Sound

-----------------------------------------------------------------------------
(* Closing: what was recorded and index does not change any more.          *)
LEMMA ClosingKeeps ==
  ASSUME IInv, Close,
         step' \in {"ledger", "run", "rename", "complete", "fail-ledger",
                   "fail-run", "preserve", "failed", "unpreserved"}
  PROVE  /\ Control' /\ Follows' /\ Accounted' /\ ToBeRetried'
         /\ Sound => Sound'
         /\ index' = index /\ records' = records
         /\ \A status, objects : RunRecord(status, objects)' = RunRecord(status, objects)
<1>1. /\ pc = "returned"
      /\ UNCHANGED <<pc, pending, attempt, index, sent, records>>
  BY DEF Close, WriteInventory, WriteLedger, WriteRun, Publish,
         FailLedger, FailRun, Preserve
<1>2. Follows' /\ IsSequence(records)' /\ IsSequence(sent)'
  BY <1>1, Quiet
<1>3. Control' /\ Accounted' /\ ToBeRetried'
  BY <1>1, <1>2 DEF Control, Accounted, ToBeRetried
<1>4. Sound => Sound'
  BY <1>1 DEF Sound, Retries
<1>5. index' = index /\ records' = records
  BY <1>1
<1>6. \A status, objects : RunRecord(status, objects)' = RunRecord(status, objects)
  BY <1>1 DEF RunRecord
<1> QED BY <1>2, <1>3, <1>4, <1>5, <1>6

LEMMA WriteInventoryStep ==
  ASSUME IInv, Close, WriteInventory(index)
  PROVE  IInv'
<1>1. /\ step = "inventory"
      /\ \/ step' = "ledger" /\ dir' = [dir EXCEPT !.inventory = <<index>>]
         \/ /\ step' = "fail-ledger"
            /\ \E left : dir' = [dir EXCEPT !.inventory = left]
  BY DEF WriteInventory, WriteOr
<1>2. /\ Control' /\ Follows' /\ Accounted' /\ ToBeRetried'
      /\ Sound => Sound'
      /\ index' = index /\ records' = records
  BY <1>1, ClosingKeeps
<1>3. Files' /\ Sounds'
  BY <1>1, <1>2 DEF IInv, Files, Sounds
<1> QED BY <1>2, <1>3 DEF IInv

LEMMA WriteLedgerStep ==
  ASSUME IInv, Close, WriteLedger
  PROVE  IInv'
<1>1. /\ step = "ledger"
      /\ \/ step' = "run" /\ dir' = [dir EXCEPT !.requests = <<records>>]
         \/ /\ step' = "fail-ledger"
            /\ \E left \in {dir.requests, <<>>} : dir' = [dir EXCEPT !.requests = left]
  BY DEF WriteLedger, WriteOr
<1>2. /\ Control' /\ Follows' /\ Accounted' /\ ToBeRetried'
      /\ Sound => Sound'
      /\ index' = index /\ records' = records
  BY <1>1, ClosingKeeps
<1>3. Files' /\ Sounds'
  BY <1>1, <1>2 DEF IInv, Files, Sounds
<1> QED BY <1>2, <1>3 DEF IInv

LEMMA WriteRunStep ==
  ASSUME IInv, Close, WriteRun(index)
  PROVE  IInv'
<1>1. /\ step = "run"
      /\ \/ /\ step' = "rename"
            /\ dir' = [dir EXCEPT !.run = RunRecord("COMPLETE", index)]
         \/ /\ step' = "fail-ledger"
            /\ \E left \in {dir.run, <<>>} : dir' = [dir EXCEPT !.run = left]
  BY DEF WriteRun, WriteOr, RunRecord
<1>2. /\ Control' /\ Follows' /\ Accounted' /\ ToBeRetried'
      /\ Sound => Sound'
      /\ index' = index /\ records' = records
      /\ RunRecord("COMPLETE", index)' = RunRecord("COMPLETE", index)
  BY <1>1, ClosingKeeps DEF RunRecord
<1>3. Files' /\ Sounds'
  BY <1>1, <1>2 DEF IInv, Files, Sounds
<1> QED BY <1>2, <1>3 DEF IInv

LEMMA PublishStep ==
  ASSUME IInv, Close, Publish
  PROVE  IInv'
<1>1. /\ step = "rename"
      /\ \/ step' = "complete" /\ dir' = [dir EXCEPT !.at = "target"]
         \/ step' = "fail-ledger" /\ dir' = dir
  BY DEF Publish, MoveOr
<1>2. /\ Control' /\ Follows' /\ Accounted' /\ ToBeRetried'
      /\ Sound => Sound'
      /\ index' = index /\ records' = records
      /\ RunRecord("COMPLETE", index)' = RunRecord("COMPLETE", index)
  BY <1>1, ClosingKeeps DEF RunRecord
<1>3. Files' /\ Sounds'
  BY <1>1, <1>2 DEF IInv, Files, Sounds
<1> QED BY <1>2, <1>3 DEF IInv

LEMMA FailLedgerStep ==
  ASSUME IInv, Close, FailLedger
  PROVE  IInv'
<1>1. /\ step = "fail-ledger"
      /\ \/ step' = "fail-run" /\ dir' = [dir EXCEPT !.requests = <<records>>]
         \/ /\ step' = "unpreserved"
            /\ \E left \in {dir.requests, <<>>} : dir' = [dir EXCEPT !.requests = left]
  BY DEF FailLedger, WriteOr
<1>2. /\ Control' /\ Follows' /\ Accounted' /\ ToBeRetried'
      /\ Sound => Sound'
      /\ index' = index /\ records' = records
  BY <1>1, ClosingKeeps
<1>3. Files' /\ Sounds'
  BY <1>1, <1>2 DEF IInv, Files, Sounds
<1> QED BY <1>2, <1>3 DEF IInv

LEMMA FailRunStep ==
  ASSUME IInv, Close, FailRun
  PROVE  IInv'
<1>1. /\ step = "fail-run"
      /\ \/ step' = "preserve" /\ dir' = [dir EXCEPT !.run = RunRecord("FAILED", <<>>)]
         \/ /\ step' = "unpreserved"
            /\ \E left \in {dir.run, <<>>} : dir' = [dir EXCEPT !.run = left]
  BY DEF FailRun, WriteOr, RunRecord
<1>2. /\ Control' /\ Follows' /\ Accounted' /\ ToBeRetried'
      /\ Sound => Sound'
      /\ index' = index /\ records' = records
      /\ RunRecord("FAILED", <<>>)' = RunRecord("FAILED", <<>>)
  BY <1>1, ClosingKeeps DEF RunRecord
<1>3. RunRecord("FAILED", <<>>)[1].status = "FAILED"
  BY DEF RunRecord
<1>4. Files' /\ Sounds'
  BY <1>1, <1>2, <1>3 DEF IInv, Files, Sounds
<1> QED BY <1>2, <1>4 DEF IInv

LEMMA PreserveStep ==
  ASSUME IInv, Close, Preserve
  PROVE  IInv'
<1>1. /\ step = "preserve"
      /\ \/ step' = "failed" /\ dir' = [dir EXCEPT !.at = "failed"]
         \/ step' = "unpreserved" /\ dir' = dir
  BY DEF Preserve, MoveOr
<1>2. /\ Control' /\ Follows' /\ Accounted' /\ ToBeRetried'
      /\ Sound => Sound'
      /\ index' = index /\ records' = records
      /\ RunRecord("FAILED", <<>>)' = RunRecord("FAILED", <<>>)
  BY <1>1, ClosingKeeps DEF RunRecord
<1>3. Files' /\ Sounds'
  BY <1>1, <1>2 DEF IInv, Files, Sounds
<1> QED BY <1>2, <1>3 DEF IInv

-----------------------------------------------------------------------------
LEMMA Step ==
  ASSUME IInv, [Next]_vars
  PROVE  IInv'
<1>1. CASE Prepare
  BY <1>1, PrepareStep
<1>2. CASE Answered
  BY <1>2, AnsweredStep
<1>3. CASE \E outcome \in {"WRITE_FAILED", "OMITTED_SECRET"} : NotRecorded(outcome)
  BY <1>3, NotRecordedStep
<1>4. CASE \E retrying \in BOOLEAN : Failed(retrying)
  BY <1>4, FailedStep
<1>5. CASE Unanswered
  BY <1>5, UnansweredStep
<1>6. CASE Sleep
  BY <1>6, SleepStep
<1>7. CASE Extracted
  BY <1>7, ExtractedStep
<1>8. CASE Close
  <2>1. \/ WriteInventory(index) \/ WriteLedger \/ WriteRun(index)
        \/ Publish \/ FailLedger \/ FailRun \/ Preserve
    BY <1>8 DEF Close
  <2> QED
    BY <1>8, <2>1, WriteInventoryStep, WriteLedgerStep, WriteRunStep, PublishStep,
       FailLedgerStep, FailRunStep, PreserveStep
<1>9. CASE Kill
  BY <1>9, KillStep
<1>10. CASE UNCHANGED vars
  BY <1>10 DEF IInv, Control, IsSequence, Follows, Accounted, Retries, ToBeRetried,
               Files, RunRecord, Sounds, Sound, vars, snapshotVars
<1> QED
  BY <1>1, <1>2, <1>3, <1>4, <1>5, <1>6, <1>7, <1>8, <1>9, <1>10
  DEF Next

LEMMA Invariance == Spec => []IInv
<1>1. Init => IInv
  BY Initially
<1>2. IInv /\ [Next]_vars => IInv'
  BY Step
<1> QED BY <1>1, <1>2, PTL DEF Spec

(* Whatever loads has the ledger that is in memory, and deserves it.       *)
LEMMA LoadedIsSound ==
  ASSUME IInv, Loads(dir)
  PROVE  Sound /\ dir.requests[1] = records
<1>1. dir.run # <<>> /\ dir.requests # <<>> /\ dir.run[1].status = "COMPLETE"
  BY DEF Loads
<1>2. Sound
  BY <1>1 DEF IInv, Sounds
<1>3. dir.requests = <<records>>
  BY <1>1 DEF IInv, Files
<1> QED BY <1>2, <1>3

(* What the invariant is for.                                              *)
LEMMA LedgerHolds ==
  ASSUME IInv
  PROVE  LedgerIsWhatWasSent
<1>1. Loads(dir) => dir.requests[1] = records /\ Len(sent) = Len(records)
  BY LoadedIsSound DEF Sound
<1> QED BY <1>1 DEF IInv, Follows, LedgerIsWhatWasSent, Positions

LEMMA RetriesHold ==
  ASSUME IInv
  PROVE  FailuresAreRetried
<1>1. SUFFICES ASSUME Loads(dir), NEW i \in 1..Len(records),
                      records[i].outcome = "FAILED_ATTEMPT"
               PROVE  i < Len(records) /\ Retries(records[i], records[i + 1])
  BY LoadedIsSound DEF FailuresAreRetried, Positions, Retries
<1> QED BY <1>1, LoadedIsSound DEF Sound

LEMMA TargetHolds ==
  ASSUME IInv
  PROVE  TargetIsLoadable
<1>1. CASE step = "complete"
  <2>1. /\ dir.inventory = <<index>> /\ dir.requests = <<records>>
        /\ dir.run = RunRecord("COMPLETE", index)
        /\ dir.at = "target"
    BY <1>1 DEF IInv, Files
  <2>2. Sound
    BY <1>1 DEF IInv, Sounds
  <2>3. /\ dir.run[1].status = "COMPLETE" /\ dir.run[1].index = index
        /\ dir.run[1].summary = Summarize(records)
        /\ dir.run # <<>> /\ dir.inventory # <<>> /\ dir.requests # <<>>
        /\ dir.inventory[1] = index /\ dir.requests[1] = records
    BY <2>1 DEF RunRecord
  <2>4. Loads(dir)
    BY <2>2, <2>3 DEF Loads, Sound, Positions
  <2> QED BY <2>1, <2>4 DEF TargetIsLoadable
<1>2. CASE step = "failed"
  <2>1. dir.run = RunRecord("FAILED", <<>>) /\ dir.at = "failed"
    BY <1>2 DEF IInv, Files
  <2>2. dir.run[1].status = "FAILED"
    BY <2>1 DEF RunRecord
  <2> QED BY <2>1, <2>2 DEF TargetIsLoadable, Loads
<1>3. CASE step \notin {"complete", "failed"}
  BY <1>3 DEF IInv, Files, TargetIsLoadable
<1> QED BY <1>1, <1>2, <1>3

(* The Session and do, of either provider: the ledger is what was sent,    *)
(* but for an attempt that broke off, and then nothing that was written    *)
(* loads; what loads has a retry after every failure; and the name of the  *)
(* target is given only to a directory that LoadComplete accepts.          *)
THEOREM RecordingCorrect ==
  Spec => [](LedgerIsWhatWasSent /\ FailuresAreRetried /\ TargetIsLoadable)
<1>1. IInv => LedgerIsWhatWasSent /\ FailuresAreRetried /\ TargetIsLoadable
  BY LedgerHolds, RetriesHold, TargetHolds
<1> QED BY <1>1, Invariance, PTL
=============================================================================
