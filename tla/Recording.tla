------------------------------ MODULE Recording ------------------------------
(***************************************************************************)
(* What the two providers' clients have in common, as a specification of   *)
(* its own: do and getWithQuery send the attempts of one request after the *)
(* other, the Session records them, and is completed with the index of     *)
(* what was found or given up.  Which request comes next, what an answer   *)
(* is worth, and when a client gives up is left open: pending and index    *)
(* may become anything while the session is open.                          *)
(***************************************************************************)
EXTENDS Snapshot

CONSTANT
  Silent     (* an attempt may end without a record                        *)

VARIABLES
  pc,        (* where the client is                                        *)
  pending,   (* the requests that are left, the first one now              *)
  attempt,   (* the number of this attempt                                 *)
  index,     (* what was found                                             *)
  sent       (* history: the attempts that were sent                       *)

vars == <<snapshotVars, pc, pending, attempt, index, sent>>

GiveUp == pc' = "returned" /\ Fail

Send ==
  /\ pc = "attempt"
  /\ sent' = Append(sent, [request |-> Head(pending), attempt |-> attempt])

(* Between two requests.                                                   *)
Prepare ==
  /\ pc = "request"
  /\ \/ pc' \in {"request", "attempt"} /\ UNCHANGED step
     \/ GiveUp
  /\ UNCHANGED <<records, dir, index, sent>>

Answered ==
  /\ Send
  /\ \E items : RecordResponse(Head(pending), attempt, items, "SUCCESS")
  /\ \/ pc' = "request" /\ UNCHANGED step
     \/ GiveUp
  /\ UNCHANGED dir

NotRecorded(outcome) ==
  /\ Send
  /\ RecordResponse(Head(pending), attempt, <<>>, outcome)
  /\ GiveUp
  /\ UNCHANGED dir

Failed(retrying) ==
  /\ Send
  /\ RecordFailure(Head(pending), attempt, retrying)
  /\ \/ retrying /\ pc' = "sleep" /\ UNCHANGED step
     \/ GiveUp
  /\ UNCHANGED <<dir, pending, attempt, index>>

Unanswered ==
  /\ Silent
  /\ Send
  /\ GiveUp
  /\ UNCHANGED <<records, dir, index>>

Sleep ==
  /\ pc = "sleep"
  /\ \/ pc' = "attempt" /\ attempt' = attempt + 1 /\ UNCHANGED step
     \/ GiveUp
  /\ UNCHANGED <<records, dir, pending, index, sent>>

Extracted ==
  /\ pc = "request"
  /\ Complete(index)
  /\ pc' = "returned"
  /\ UNCHANGED <<index, sent>>

Close ==
  /\ pc = "returned"
  /\ \/ WriteInventory(index) \/ WriteLedger \/ WriteRun(index)
     \/ Publish \/ FailLedger \/ FailRun \/ Preserve
  /\ UNCHANGED <<pc, pending, attempt, index, sent>>

Kill ==
  /\ pc' = "dead"
  /\ UNCHANGED <<snapshotVars, pending, attempt, index, sent>>

Init ==
  /\ BeginInit
  /\ pc = "request"
  /\ sent = <<>>

Next ==
  \/ Prepare
  \/ Answered
  \/ \E outcome \in {"WRITE_FAILED", "OMITTED_SECRET"} : NotRecorded(outcome)
  \/ \E retrying \in BOOLEAN : Failed(retrying)
  \/ Unanswered
  \/ Sleep
  \/ Extracted
  \/ Close
  \/ Kill

Spec == Init /\ [][Next]_vars

-----------------------------------------------------------------------------
(* The promises.                                                           *)

(* The ledger is what was sent, in order.                                  *)
LedgerIsWhatWasSent ==
  /\ \/ Len(sent) = Len(records)
     \/ Silent /\ Len(sent) = Len(records) + 1
  /\ \A i \in Positions(records) :
       records[i].request = sent[i].request /\ records[i].attempt = sent[i].attempt
  /\ Loads(dir) => dir.requests[1] = records /\ Len(sent) = Len(records)

(* In a directory that loads, a failed attempt is followed by its retry.   *)
FailuresAreRetried ==
  Loads(dir) =>
    LET ledger == dir.requests[1] IN
    \A i \in Positions(ledger) :
      ledger[i].outcome = "FAILED_ATTEMPT" =>
        /\ ledger[i].retrying
        /\ i < Len(ledger)
        /\ ledger[i + 1].request = ledger[i].request
        /\ ledger[i + 1].attempt = ledger[i].attempt + 1

(* What is at the target loads; what was put aside as failed does not.     *)
TargetIsLoadable ==
  /\ dir.at = "target" => Loads(dir)
  /\ dir.at = "failed" => ~Loads(dir)
=============================================================================
