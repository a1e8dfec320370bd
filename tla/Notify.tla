------------------------------- MODULE Notify -------------------------------
(***************************************************************************)
(* Webhook notifications (internal/notify, internal/cli/notify.go).  Every *)
(* event an operation emits is logged and then posted, one destination     *)
(* after the other, to those that selected its type; a post is repeated    *)
(* while its failure is one a retry could fix.  `alih notify --test` posts *)
(* the newest logged event again, from another process.  A destination     *)
(* discards what carries a key it has seen, which is its part of the       *)
(* contract (webhook.go, IdempotencyKey).                                  *)
(***************************************************************************)
EXTENDS Naturals, Sequences, Functions

CONSTANTS
  Processes,
  Destinations,  (* sequence: the destinations, in the order of their IDs  *)
  Wants,         (* by destination, the event types it selected            *)
  Histories,     (* the sequences of event types operations emit           *)
  Operations,    (* operation IDs: numbers, ordered as the IDs are         *)
  MaxAttempts,   (* Destination.Attempts                                   *)
  MaxReplays,    (* bound on the number of `alih notify --test`            *)
  None

(* What the theorems assume: an operation that replays an event has no ID. *)
NotifyAssumption ==
  /\ 0 \notin Operations
  /\ \A history \in Histories : history \in Seq(STRING)

VARIABLES
  run,           (* by process, its operation and the delivery it is in    *)
  started,       (* operation IDs in use                                   *)
  log,           (* the logged events a replay may pick                    *)
  told,          (* by destination, the last delivery status shows         *)
  sent,          (* requests that may yet arrive, again and again          *)
  processed,     (* by destination, the requests it did not discard        *)
  replays

vars == <<run, started, log, told, sent, processed, replays>>

Selected == Range(Destinations)

(***************************************************************************)
(* Events.  "at" is the place of an event in the history of its operation; *)
(* it tells one transition from another, and no code uses it.              *)
(***************************************************************************)
Event(operation, sequence, type, at) ==
  [operation |-> operation, sequence |-> sequence, type |-> type, at |-> at]

Transition(e) == <<e.operation, e.at>>

(* Bug: the key is that of a position, whatever the operation.             *)
KeyOfPosition(e) == <<e.sequence, e.type>>

IdempotencyKey(e) == <<e.operation, e.sequence, e.type>>

(* event.Order: never the clock.                                           *)
Before(e, f) ==
  \/ e.operation < f.operation
  \/ e.operation = f.operation /\ e.sequence < f.sequence

(* latestSelectedEvent.                                                    *)
Latest(d) ==
  LET candidates == {e \in log : e.type \in Wants[d]}
  IN  {e \in candidates : \A f \in candidates : ~ Before(e, f)}

(***************************************************************************)
(* Operations.                                                             *)
(***************************************************************************)
Idle == [at |-> "idle", operation |-> 0, history |-> <<>>, sequence |-> 0,
         recording |-> FALSE, targets |-> {}, event |-> None, queue |-> <<>>,
         attempt |-> 0, interrupted |-> FALSE]

(* beginOperation, configureNotifications, applyNotificationConfiguration: *)
(* what status shows of a destination that is no longer configured goes; a *)
(* missing or unusable configuration leaves none.                          *)
Begin(p) ==
  \E operation \in Operations \ started, history \in Histories,
     targets \in SUBSET Selected :
    /\ run[p].at = "idle"
    /\ started' = started \cup {operation}
    /\ told' = [d \in Selected |-> IF d \in targets THEN told[d] ELSE None]
    /\ run' = [run EXCEPT ![p] = [Idle EXCEPT
                 !.at = "operation", !.operation = operation,
                 !.history = history, !.recording = TRUE, !.targets = targets]]
    /\ UNCHANGED <<log, sent, processed, replays>>

Queue(targets, type) ==
  SelectSeq(Destinations, LAMBDA d : d \in targets /\ type \in Wants[d])

(* operationState.emit: the first refusal of the log ends the recording of *)
(* this operation, not its notifications.                                  *)
Emit(p) ==
  LET r == run[p]
      e == Event(r.operation, r.sequence + 1, Head(r.history),
                 Len(r.history))
  IN  /\ r.at = "operation"
      /\ r.history # <<>>
      /\ \E logged \in {FALSE, r.recording} :
           /\ log' = IF logged THEN log \cup {e} ELSE log
           /\ run' = [run EXCEPT ![p] = [r EXCEPT
                        !.at = "deliver", !.sequence = @ + 1, !.event = e,
                        !.history = Tail(@), !.recording = logged,
                        !.queue = Queue(r.targets, e.type), !.attempt = 1]]
      /\ UNCHANGED <<started, told, sent, processed, replays>>

(* deliverNotifications returns, or the command does.                      *)
Return(p) ==
  /\ run[p].at = "deliver"
  /\ run[p].queue = <<>>
  /\ run' = [run EXCEPT ![p] = IF run[p].history = <<>> THEN Idle
                               ELSE [@ EXCEPT !.at = "operation"]]
  /\ UNCHANGED <<started, log, told, sent, processed, replays>>

(* runNotify with --test.  The event keeps its identity.                   *)
Replay(p) ==
  \E d \in Selected : \E e \in Latest(d) :
    /\ run[p].at = "idle"
    /\ replays < MaxReplays
    /\ replays' = replays + 1
    /\ run' = [run EXCEPT ![p] = [Idle EXCEPT
                 !.at = "deliver", !.recording = TRUE, !.event = e,
                 !.queue = <<d>>, !.attempt = 1]]
    /\ UNCHANGED <<started, log, told, sent, processed>>

(***************************************************************************)
(* WebhookNotifier.Deliver.                                                *)
(***************************************************************************)
Delivering(p) == run[p].at = "deliver" /\ run[p].queue # <<>>

Request(p) ==
  [to |-> Head(run[p].queue), key |-> IdempotencyKey(run[p].event),
   transition |-> Transition(run[p].event)]

(* recordNotificationResult, and after a failed delivery  *)
(* emitNotificationProblem or appendStandaloneNotificationProblem: no      *)
(* replay picks what they log, and it takes a place in the sequence.       *)
Record(p, delivered) ==
  LET r == run[p]
      d == Head(r.queue)
      n == IF delivered \/ ~ r.recording THEN r.sequence ELSE r.sequence + 1
  IN  /\ told' = [told EXCEPT ![d] = [transition |-> Transition(r.event),
                                      delivered |-> delivered]]
      /\ \E logged \in {FALSE, r.recording} :
           run' = [run EXCEPT ![p] = [r EXCEPT
                     !.at = "deliver", !.queue = Tail(@), !.attempt = 1,
                     !.sequence = n,
                     !.recording = IF delivered THEN @ ELSE logged]]
      /\ UNCHANGED <<started, log, replays>>

(* The destination handles a request, or discards it as a repeat.          *)
Repeat(request) ==
  request.key \in {m.key : m \in processed[request.to]}

Handle(request) ==
  /\ processed' = IF Repeat(request) THEN processed
                  ELSE [processed EXCEPT ![request.to] = @ \cup {request}]
  /\ sent' = sent \ {request}

(* A request that arrives as a repeat is as good as lost.                  *)
Send(request) ==
  sent' = IF Repeat(request) THEN sent ELSE sent \cup {request}

(* The secret is missing, or the destination or the payload is unusable.   *)
NotDeliverable(p) ==
  /\ Delivering(p)
  /\ run[p].attempt = 1
  /\ Record(p, FALSE)
  /\ UNCHANGED <<sent, processed>>

Accepted(p) ==
  /\ Delivering(p)
  /\ Handle(Request(p))
  /\ Record(p, TRUE)

(* A redirect, a client error or an unusable answer.                       *)
Rejected(p) ==
  /\ Delivering(p)
  /\ Record(p, FALSE)
  /\ UNCHANGED <<sent, processed>>

(* A timeout, a network failure, a rate limit or a server error: the       *)
(* request may have arrived, or may yet.                                   *)
Unanswered(p) ==
  /\ Delivering(p)
  /\ Send(Request(p))
  /\ IF run[p].attempt < MaxAttempts
       THEN /\ run' = [run EXCEPT ![p].at = "sleep"]
            /\ UNCHANGED <<started, log, told, replays>>
       ELSE Record(p, FALSE)
  /\ UNCHANGED processed

Retry(p) ==
  /\ run[p].at = "sleep"
  /\ ~ run[p].interrupted
  /\ run' = [run EXCEPT ![p].at = "deliver", ![p].attempt = @ + 1]
  /\ UNCHANGED <<started, log, told, sent, processed, replays>>

(* The context ends before a request, during it or in the sleep after it.  *)
Cancelled(p) ==
  /\ run[p].interrupted
  /\ Delivering(p) \/ run[p].at = "sleep"
  /\ Send(Request(p)) \/ UNCHANGED sent
  /\ Record(p, FALSE)
  /\ UNCHANGED processed

(* Elsewhere it is as if it came at the next delivery.                     *)
Interrupt(p) ==
  /\ Delivering(p) \/ run[p].at = "sleep"
  /\ run' = [run EXCEPT ![p].interrupted = TRUE]
  /\ UNCHANGED <<started, log, told, sent, processed, replays>>

Kill(p) ==
  /\ run[p].at # "idle"
  /\ run' = [run EXCEPT ![p] = Idle]
  /\ UNCHANGED <<started, log, told, sent, processed, replays>>

Arrive ==
  /\ \E request \in sent : Handle(request)
  /\ UNCHANGED <<run, started, log, told, replays>>

Init ==
  /\ run = [p \in Processes |-> Idle]
  /\ started = {}
  /\ log = {}
  /\ told = [d \in Selected |-> None]
  /\ sent = {}
  /\ processed = [d \in Selected |-> {}]
  /\ replays = 0

Next ==
  \/ \E p \in Processes :
       \/ Begin(p) \/ Emit(p) \/ Return(p) \/ Replay(p)
       \/ NotDeliverable(p) \/ Accepted(p) \/ Rejected(p) \/ Unanswered(p)
       \/ Retry(p) \/ Cancelled(p) \/ Interrupt(p) \/ Kill(p)
  \/ Arrive

Spec == Init /\ [][Next]_vars

(***************************************************************************)
(* Properties.                                                             *)
(***************************************************************************)

(* A destination that discards repeats processes every transition at most  *)
(* once, however often it was posted, retried, delayed or replayed; and a  *)
(* delivery that status shows as made was processed, not discarded as the  *)
(* repeat of another transition.                                           *)
OncePerTransition ==
  \A d \in Selected :
    /\ \A m, n \in processed[d] : m.transition = n.transition => m = n
    /\ told[d] # None /\ told[d].delivered =>
         told[d].transition \in {m.transition : m \in processed[d]}
=============================================================================
