------------------------------- MODULE Snapshot -------------------------------
(***************************************************************************)
(* A raw snapshot (internal/snapshot): one Session records every request   *)
(* of an extraction and the answers, in a staging directory of its own,    *)
(* and closes it in one of two ways.  Complete writes three files and      *)
(* moves the directory to its target; Fail writes two and moves it aside.  *)
(* Whoever reads the directory later has only those files to tell the two  *)
(* apart (LoadComplete).                                                   *)
(*                                                                         *)
(* A file is a sequence: <<content>>, or <<>> when it is absent or cannot  *)
(* be parsed.  Files are written in place, so a write that fails leaves    *)
(* either the old content or an unreadable file.                           *)
(***************************************************************************)
EXTENDS Naturals, Sequences, FiniteSets

CONSTANTS
  None       (* an object without a parent                                 *)

VARIABLES
  records,   (* the request ledger, in memory                              *)
  dir,       (* the directory: where it is, and its files                  *)
  step       (* where the session is                                       *)

snapshotVars == <<records, dir, step>>

-----------------------------------------------------------------------------
Positions(s) == 1..Len(s)

(* The elements of a sequence at these positions, in their order.          *)
Subsequence(s, at) ==
  LET upTo[n \in 0..Len(s)] ==
        IF n = 0 THEN <<>>
        ELSE IF n \in at THEN Append(upTo[n - 1], s[n]) ELSE upTo[n - 1]
  IN  upTo[Len(s)]

(* How many attempts there were of each kind.                              *)
Summarize(ledger) ==
  LET with(P(_)) == Cardinality({i \in Positions(ledger) : P(ledger[i])})
      successful(r) == r.outcome = "SUCCESS"
      retried(r) == r.outcome = "FAILED_ATTEMPT" /\ r.retrying
  IN  [attempts   |-> Len(ledger),
       successful |-> with(successful),
       retried    |-> with(retried)]

(* Every object once, with its parent.                                     *)
ValidIndex(index) ==
  /\ \A i, j \in Positions(index) : index[i].object = index[j].object => i = j
  /\ \A i \in Positions(index) :
       \/ index[i].parent = None
       \/ \E j \in Positions(index) : index[j].object = index[i].parent

(* LoadComplete: the run record says so, and the three files agree.        *)
Loads(d) ==
  /\ d.run # <<>> /\ d.inventory # <<>> /\ d.requests # <<>>
  /\ d.run[1].status = "COMPLETE"
  /\ ValidIndex(d.inventory[1])
  /\ d.run[1].index = d.inventory[1]
  /\ \A i \in Positions(d.requests[1]) :
       d.requests[1][i].outcome \in {"SUCCESS", "FAILED_ATTEMPT"}
  /\ d.run[1].summary = Summarize(d.requests[1])

-----------------------------------------------------------------------------
(* Recording.                                                              *)

RecordResponse(request, attempt, items, outcome) ==
  /\ step = "open"
  /\ records' = Append(records,
       [request |-> request, attempt |-> attempt, outcome |-> outcome,
        retrying |-> FALSE,
        items |-> IF outcome = "SUCCESS" THEN items ELSE <<>>])

RecordFailure(request, attempt, retrying) ==
  /\ step = "open"
  /\ records' = Append(records,
       [request |-> request, attempt |-> attempt, outcome |-> "FAILED_ATTEMPT",
        retrying |-> retrying, items |-> <<>>])

-----------------------------------------------------------------------------
(* Closing.  A write succeeds and the session goes on, or it fails.        *)

WriteOr(file, content, next, failed) ==
  \/ /\ dir' = [dir EXCEPT ![file] = <<content>>]
     /\ step' = next
  \/ /\ \E left \in {dir[file], <<>>} : dir' = [dir EXCEPT ![file] = left]
     /\ step' = failed

MoveOr(place, next, failed) ==
  \/ /\ dir' = [dir EXCEPT !.at = place]
     /\ step' = next
  \/ /\ step' = failed
     /\ UNCHANGED dir

(* Bug: nobody looks at the index before it is written.                    *)
CompleteUnchecked(index) ==
  /\ step = "open"
  /\ step' = "inventory"
  /\ UNCHANGED <<records, dir>>

(* Complete looks at the index before it writes anything; every error of   *)
(* it makes its caller call Fail.                                          *)
Complete(index) ==
  /\ step = "open"
  /\ step' = IF ValidIndex(index) THEN "inventory" ELSE "fail-ledger"
  /\ UNCHANGED <<records, dir>>

WriteInventory(index) ==
  /\ step = "inventory"
  /\ WriteOr("inventory", index, "ledger", "fail-ledger")
  /\ UNCHANGED records

WriteLedger ==
  /\ step = "ledger"
  /\ WriteOr("requests", records, "run", "fail-ledger")
  /\ UNCHANGED records

WriteRun(index) ==
  /\ step = "run"
  /\ WriteOr("run", [status |-> "COMPLETE", index |-> index,
                     summary |-> Summarize(records)],
             "rename", "fail-ledger")
  /\ UNCHANGED records

Publish ==
  /\ step = "rename"
  /\ MoveOr("target", "complete", "fail-ledger")
  /\ UNCHANGED records

(* Fail of a session that is still open.                                   *)
Fail ==
  /\ step = "open"
  /\ step' = "fail-ledger"

FailLedger ==
  /\ step = "fail-ledger"
  /\ WriteOr("requests", records, "fail-run", "unpreserved")
  /\ UNCHANGED records

FailRun ==
  /\ step = "fail-run"
  /\ WriteOr("run", [status |-> "FAILED", index |-> <<>>,
                     summary |-> Summarize(records)],
             "preserve", "unpreserved")
  /\ UNCHANGED records

(* <target>.failed may be taken.                                           *)
Preserve ==
  /\ step = "preserve"
  /\ MoveOr("failed", "failed", "unpreserved")
  /\ UNCHANGED records

BeginInit ==
  /\ records = <<>>
  /\ dir = [at |-> "staging", inventory |-> <<>>, requests |-> <<>>,
            run |-> <<[status |-> "IN_PROGRESS", index |-> <<>>,
                       summary |-> Summarize(<<>>)]>>]
  /\ step = "open"
=============================================================================
