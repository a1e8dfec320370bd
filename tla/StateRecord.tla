----------------------------- MODULE StateRecord -----------------------------
(***************************************************************************)
(* What one operational state document says (internal/state/state.go), and *)
(* how the recorder of cli/state.go rewrites it.  Kept are the fields the  *)
(* properties tell apart: which operation the last attempt and the last    *)
(* success are, when they started, how they ended, and what they point at. *)
(***************************************************************************)
EXTENDS Naturals

CONSTANT None       (* a field that is not there                           *)

Outcomes == {"STARTED", "SKIPPED", "FAILED", "SUCCEEDED"}

Attempt(run, start, outcome, archive, failedPath) ==
  [run |-> run, start |-> start, outcome |-> outcome, archive |-> archive,
   failedPath |-> failedPath]

(* The zero record Update starts from when nothing is recorded.            *)
ZeroRecord ==
  [revision |-> 0, attempt |-> None, success |-> None, verification |-> None]

(* state.Validate, as far as one attempt can contradict another.           *)
Validate(record) ==
  record.success # None =>
    /\ record.success.outcome = "SUCCEEDED"
    /\ record.success.archive # None
    /\ record.attempt # None => record.attempt.start >= record.success.start

(* operationState.write, from beginOperation, skip and fail.               *)
WithAttempt(record, attempt) == [record EXCEPT !.attempt = attempt]

(* operationState.succeed: verification is None when the published archive *)
(* could not be identified.                                                *)
WithSuccess(record, attempt, verification) ==
  [record EXCEPT !.attempt = attempt,
                 !.success = IF attempt.archive # None THEN attempt ELSE @,
                 !.verification = IF verification # None THEN verification
                                                         ELSE @]
=============================================================================
