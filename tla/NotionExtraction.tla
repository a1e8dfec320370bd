--------------------------- MODULE NotionExtraction ---------------------------
(***************************************************************************)
(* The Notion connector extracts a workspace (internal/connector/notion):  *)
(* traverse makes the requests one after the other, do sends each of them  *)
(* up to MaxAttempts times, and a Session keeps the evidence (Snapshot).   *)
(* The source answers in pages of PageSize items, cuts off a query after   *)
(* MaxQuery rows and says so, may refuse, may not answer, and now and then *)
(* answers what makes no sense.  The operator may interrupt, and the       *)
(* process may be killed.                                                  *)
(*                                                                         *)
(* The requests still to be made are a sequence: what an answer calls for  *)
(* goes where the loops of the code would come to it.                      *)
(***************************************************************************)
EXTENDS Snapshot

CONSTANTS
  Objects,      (* the workspace, databases, data sources, pages, blocks   *)
  Properties,   (* the columns of the data sources                         *)
  Workspace,
  KindOf,       (* function: the kind of an object                         *)
  Children,     (* function: its items in order; of the workspace, the     *)
                (* data sources                                            *)
  DatabaseOf,   (* function on data sources                                *)
  PropertiesOf, (* function on data sources: their columns                 *)
  PageSize,
  MaxQuery,     (* Notion's ceiling on the rows of one query               *)
  MaxAttempts,  (* maxRequestRetries                                       *)
  MaxRequests,  (* what is left of maxTraversalRequests                    *)
  MaxFaults,    (* bound: the answers that make no sense, or are refusals  *)
  EndlessLists  (* whether the source may lead the client in circles       *)

ASSUME NotionAssumption ==
  /\ PageSize \in Nat \ {0}
  /\ MaxQuery \in Nat \ {0}
  /\ MaxAttempts \in Nat \ {0}
  /\ MaxRequests \in Nat
  /\ MaxFaults \in Nat
  /\ EndlessLists \in BOOLEAN
  /\ Workspace \in Objects
  /\ None \notin Objects
  /\ KindOf \in [Objects -> {"workspace", "database", "data source", "page", "block"}]
  /\ Children \in [Objects -> Seq(Objects)]
  /\ Properties \cap (Objects \cup {None}) = {}
  /\ \A o \in Objects : KindOf[o] = "data source" =>
       DatabaseOf[o] \in Objects /\ PropertiesOf[o] \in Seq(Properties)

(* What may be in what: scan passes over an item of another kind.          *)
KindsIn(kind) ==
  CASE kind = "workspace" -> {"data source"}
    [] kind = "data source" -> {"page"}
    [] kind \in {"page", "block"} -> {"block"}
    [] kind = "database" -> {}

ASSUME KindsAreNested ==
  /\ KindOf[Workspace] = "workspace"
  /\ \A o \in Objects : \A i \in 1..Len(Children[o]) :
       KindOf[Children[o][i]] \in KindsIn(KindOf[o])
  /\ \A o \in Objects : KindOf[o] = "data source" => KindOf[DatabaseOf[o]] = "database"

VARIABLES
  pc,           (* where traverse and do are                               *)
  pending,      (* the requests to be made, the first one now              *)
  requests,     (* how many were begun                                     *)
  attempt,      (* the number of this attempt                              *)
  visited,      (* the nodes of this page whose children are or were asked *)
  found,        (* what the traversal found, in order                      *)
  truncated,    (* a query hit the ceiling                                 *)
  interrupted,  (* the context is done                                     *)
  faults,       (* how many answers made no sense, or were refusals        *)
  sent          (* history: the attempts that were sent                    *)

clientVars == <<pc, pending, requests, attempt, visited, found, truncated,
                interrupted, faults, sent>>
vars == <<snapshotVars, clientVars>>

-----------------------------------------------------------------------------
(* Requests.                                                               *)

(* A list is asked for page by page; seen are the cursors it has returned. *)
List(op, of, owner) ==
  [op |-> op, of |-> of, owner |-> owner, cursor |-> 0, seen |-> {}]
Single(op, of) == List(op, of, None)

IsList(request) == request.op \in {"search", "query", "children"}
Same(r, s) == r.op = s.op /\ r.of = s.of /\ r.cursor = s.cursor

(* The items of a list that can be reached at all.                         *)
Items(request) ==
  LET all == Children[request.of] IN
  IF request.op = "query" /\ Len(all) > MaxQuery THEN SubSeq(all, 1, MaxQuery) ELSE all

Honest(request) ==
  LET all == Items(request)
      end == request.cursor + PageSize
      last == IF end < Len(all) THEN end ELSE Len(all)
  IN  [items |-> IF IsList(request) THEN SubSeq(all, request.cursor + 1, last) ELSE <<>>,
       more |-> IsList(request) /\ end < Len(all),
       next |-> end,
       valid |-> TRUE,
       incomplete |-> /\ request.op = "query"
                      /\ end >= Len(all)
                      /\ Len(Children[request.of]) > MaxQuery]

(* What a source may answer that makes no sense: what cannot be parsed; an *)
(* item twice (also what an edit between two pages may lead to).           *)
Nonsense(request) ==
  LET answer == Honest(request) IN
  {[answer EXCEPT !.valid = FALSE]}
  \cup (IF answer.items # <<>>
          THEN {[answer EXCEPT !.items = Append(@, Head(answer.items))]}
          ELSE {})

(* How a source may keep a client busy: with a cursor for the second time; *)
(* with one more page after the last, which is empty or the first page     *)
(* again; with a node that is its own child.                               *)
Circling(request) ==
  LET answer == Honest(request)
      again == Honest([request EXCEPT !.cursor = 0])
  IN  {[answer EXCEPT !.more = TRUE, !.next = c] :
         c \in {request.cursor, answer.next} \cup request.seen}
      \cup (IF answer.items = <<>>
              THEN {[answer EXCEPT !.items = again.items, !.more = TRUE]}
              ELSE {})
      \cup (IF request.op = "children" /\ Children[request.of] # <<>>
              THEN {[answer EXCEPT !.items = Append(@, request.of)]}
              ELSE {})

-----------------------------------------------------------------------------
(* What an answer leads to.                                                *)

HasChildren(o) == Children[o] # <<>>

Indexed(object) == \E i \in Positions(found) : found[i].object = object

(* The nodes of the page whose children are being read: a new page begins  *)
(* with itself.                                                            *)
VisitedBy(request) ==
  IF request.of = request.owner /\ request.cursor = 0
    THEN {request.owner} ELSE visited

ChildNodes(answer) ==
  Subsequence(answer.items, {i \in Positions(answer.items) : HasChildren(answer.items[i])})

IsCyclic(request, answer) ==
  request.op = "children" /\
  \E i, j \in Positions(answer.items) :
    /\ HasChildren(answer.items[i])
    /\ \/ answer.items[i] \in VisitedBy(request)
       \/ i # j /\ answer.items[i] = answer.items[j]

(* Bug: paginating stops after the first page.                             *)
MoreOfFirstPage(request, answer) == <<>>

(* Bug: any cursor will do.                                                *)
MoreOfAnyCursor(request, answer) ==
  IF answer.more
    THEN <<[request EXCEPT !.cursor = answer.next, !.seen = @ \cup {answer.next}]>>
    ELSE <<>>

(* The next page of the same list; the cursor must be there, and be new.   *)
MoreOf(request, answer) ==
  CASE ~answer.more -> <<>>
    [] answer.more /\ answer.next \in {0} \cup request.seen ->
         <<[request EXCEPT !.op = "refused"]>>
    [] answer.more /\ answer.next \notin {0} \cup request.seen ->
         <<[request EXCEPT !.cursor = answer.next, !.seen = @ \cup {answer.next}]>>

(* The requests to be made after this answer.  Data sources are read while *)
(* searching, queried after the search; pages are read after all queries,  *)
(* each of them level by level before the next.                            *)
After(request, answer) ==
  LET rest == Tail(pending)
      each(op) == [i \in Positions(answer.items) |->
                     List(op, answer.items[i], answer.items[i])]
      nodes == [i \in Positions(ChildNodes(answer)) |->
                  List("children", ChildNodes(answer)[i], request.owner)]
      ofPage == {i \in Positions(rest) : /\ rest[i].op = "children"
                                         /\ rest[i].owner = request.owner}
  IN  CASE request.op = "search" ->
             [i \in Positions(answer.items) |-> Single("get data source", answer.items[i])]
             \o MoreOf(request, answer) \o rest
        [] request.op = "get data source" ->
             (IF Indexed(DatabaseOf[request.of]) THEN <<>>
              ELSE <<Single("get database", DatabaseOf[request.of])>>)
             \o rest \o <<List("query", request.of, request.of)>>
        [] request.op = "get database" -> rest
        [] request.op = "query" ->
             MoreOf(request, answer) \o rest \o each("children")
        [] request.op = "children" ->
             MoreOf(request, answer) \o Subsequence(rest, ofPage) \o nodes
             \o Subsequence(rest, Positions(rest) \ ofPage)

FoundIn(request, answer) ==
  CASE request.op = "search" -> <<>>
    [] request.op = "get data source" ->
         <<[object |-> request.of, parent |-> DatabaseOf[request.of]]>> \o
         [i \in Positions(PropertiesOf[request.of]) |->
            [object |-> PropertiesOf[request.of][i], parent |-> request.of]]
    [] request.op = "get database" ->
         <<[object |-> request.of, parent |-> None]>>
    [] request.op \in {"query", "children"} ->
         [i \in Positions(answer.items) |->
            [object |-> answer.items[i], parent |-> request.of]]

(* The index of inventory.json.  A block goes there with its parent only:  *)
(* its page is not written down.                                           *)
SourceObjects == <<[object |-> Workspace, parent |-> None]>> \o found

-----------------------------------------------------------------------------
(* The traversal.                                                          *)

GiveUp == pc' = "returned" /\ Fail

(* The loops come to the next request; paginate looks at the context, and  *)
(* do counts.                                                              *)
NextRequest ==
  /\ pc = "request"
  /\ pending # <<>>
  /\ IF Head(pending).op = "refused" \/ (IsList(Head(pending)) /\ interrupted)
       THEN GiveUp /\ UNCHANGED <<requests, attempt>>
       ELSE /\ requests' = requests + 1
            /\ attempt' = 1
            /\ IF requests' > MaxRequests
                 THEN GiveUp
                 ELSE pc' = "attempt" /\ UNCHANGED step
  /\ UNCHANGED <<records, dir, pending, visited, found, truncated, interrupted,
                 faults, sent>>

Send == sent' = Append(sent, [request |-> Head(pending), attempt |-> attempt])

(* A valid answer is recorded before anything is made of it.               *)
Answered(answer) ==
  LET request == Head(pending)
      refused == ~answer.valid \/ IsCyclic(request, answer)
  IN  /\ pc = "attempt"
      /\ ~interrupted
      /\ Send
      /\ RecordResponse(request, attempt, answer.items, "SUCCESS")
      /\ truncated' = (truncated \/ (answer.valid /\ answer.incomplete))
      /\ IF refused
           THEN GiveUp /\ UNCHANGED <<pending, found, visited>>
           ELSE /\ pc' = "request"
                /\ pending' = After(request, answer)
                /\ found' = found \o FoundIn(request, answer)
                /\ visited' = IF request.op = "children"
                                THEN VisitedBy(request) \cup
                                     {ChildNodes(answer)[i] : i \in Positions(ChildNodes(answer))}
                                ELSE visited
                /\ UNCHANGED step
      /\ UNCHANGED <<dir, requests, attempt, interrupted>>

AnsweredHonestly ==
  /\ pending # <<>>
  /\ Answered(Honest(Head(pending)))
  /\ UNCHANGED faults

AnsweredNonsense ==
  /\ pending # <<>>
  /\ faults < MaxFaults
  /\ \E answer \in Nonsense(Head(pending)) : Answered(answer)
  /\ faults' = faults + 1

IsBeyondTheEnd(request) ==
  request.cursor > 0 /\ request.cursor >= Len(Items(request))

(* It does not have to stop.  Bound: one list is led in circles, and       *)
(* nothing else is wrong then.                                             *)
AnsweredInCircles ==
  /\ pending # <<>>
  /\ EndlessLists /\ IsList(Head(pending))
  /\ faults = 0 \/ IsBeyondTheEnd(Head(pending))
  /\ \E answer \in Circling(Head(pending)) : Answered(answer)
  /\ faults' = MaxFaults

(* The response holds the credential, or it cannot be written.             *)
NotRecorded(outcome) ==
  /\ pc = "attempt"
  /\ ~interrupted
  /\ Send
  /\ RecordResponse(Head(pending), attempt, <<>>, outcome)
  /\ GiveUp
  /\ UNCHANGED <<dir, pending, requests, attempt, visited, found, truncated,
                 interrupted, faults>>

Retrying(retryable) == retryable /\ attempt < MaxAttempts

(* No connection, or a status that is not 200.                             *)
Refused(retryable) ==
  /\ pc = "attempt"
  /\ ~interrupted
  /\ faults < MaxFaults
  /\ faults' = faults + 1
  /\ Send
  /\ RecordFailure(Head(pending), attempt, Retrying(retryable))
  /\ IF Retrying(retryable)
       THEN pc' = "sleep" /\ UNCHANGED step
       ELSE GiveUp
  /\ UNCHANGED <<dir, pending, requests, attempt, visited, found, truncated,
                 interrupted>>

(* Bug: it is recorded as an attempt that failed, and tried again.         *)
UnansweredIsRetried ==
  /\ pc = "attempt"
  /\ Send
  /\ pc' = "attempt"
  /\ attempt < MaxAttempts
  /\ attempt' = attempt + 1
  /\ UNCHANGED <<snapshotVars, pending, requests, visited, found, truncated,
                 interrupted, faults>>

(* The context was done, or the body broke off or is too long: do returns  *)
(* without a record.                                                       *)
Unanswered ==
  /\ pc = "attempt"
  /\ Send
  /\ GiveUp
  /\ UNCHANGED <<records, dir, pending, requests, attempt, visited, found,
                 truncated, interrupted, faults>>

(* Bug: the next attempt is recorded under the number of the last one.     *)
SleepKeepsAttempt ==
  /\ pc = "sleep"
  /\ pc' = "attempt"
  /\ UNCHANGED <<snapshotVars, attempt, pending, requests, visited, found,
                 truncated, interrupted, faults, sent>>

Sleep ==
  /\ pc = "sleep"
  /\ \/ /\ pc' = "attempt"
        /\ attempt' = attempt + 1
        /\ UNCHANGED step
     \/ /\ interrupted
        /\ GiveUp
        /\ UNCHANGED attempt
  /\ UNCHANGED <<records, dir, pending, requests, visited, found, truncated,
                 interrupted, faults, sent>>

(* Nothing is left to be asked.                                            *)
Extracted ==
  /\ pc = "request"
  /\ pending = <<>>
  /\ Complete(SourceObjects)
  /\ pc' = "returned"
  /\ UNCHANGED <<pending, requests, attempt, visited, found, truncated,
                 interrupted, faults, sent>>

Close ==
  /\ pc = "returned"
  /\ \/ WriteInventory(SourceObjects) \/ WriteLedger \/ WriteRun(SourceObjects)
     \/ Publish \/ FailLedger \/ FailRun \/ Preserve
  /\ UNCHANGED clientVars

(* Where a session ends.                                                   *)
Closed == {"complete", "failed", "unpreserved"}

Interrupt ==
  /\ ~interrupted
  /\ pc \in {"request", "attempt", "sleep"}
  /\ interrupted' = TRUE
  /\ UNCHANGED <<snapshotVars, pc, pending, requests, attempt, visited, found,
                 truncated, faults, sent>>

Kill ==
  /\ pc # "dead"
  /\ step \notin Closed
  /\ pc' = "dead"
  /\ UNCHANGED <<snapshotVars, pending, requests, attempt, visited, found,
                 truncated, interrupted, faults, sent>>

-----------------------------------------------------------------------------
Init ==
  /\ BeginInit
  /\ pc = "request"
  /\ pending = <<List("search", Workspace, None)>>
  /\ requests = 0
  /\ attempt = 1
  /\ visited = {}
  /\ found = <<>>
  /\ truncated = FALSE
  /\ interrupted = FALSE
  /\ faults = 0
  /\ sent = <<>>

Request ==
  \/ NextRequest
  \/ AnsweredHonestly
  \/ AnsweredNonsense
  \/ AnsweredInCircles
  \/ \E outcome \in {"WRITE_FAILED", "OMITTED_SECRET"} : NotRecorded(outcome)
  \/ \E retryable \in BOOLEAN : Refused(retryable)
  \/ Unanswered
  \/ Sleep

Next == Request \/ Extracted \/ Close \/ Interrupt \/ Kill

Spec == Init /\ [][Next]_vars

(* The process is scheduled, every request returns (the HTTP client has a  *)
(* timeout), and every sleep ends.                                         *)
FairSpec == Spec /\ WF_vars(Request \/ Extracted \/ Close)

-----------------------------------------------------------------------------
(* What makes sense of a snapshot later.                                   *)

(* rebuild finds the answer an object of the index came with.              *)
AnswerOf(o, ledger) ==
  LET answers == {i \in Positions(ledger) : ledger[i].outcome = "SUCCESS"}
      listed(i) == \E j \in Positions(ledger[i].items) : ledger[i].items[j] = o
      by(op) == \E i \in answers : ledger[i].request.op = op /\ ledger[i].request.of = o
  IN  CASE KindOf[o] = "workspace" -> TRUE
        [] KindOf[o] = "database" -> by("get database")
        [] KindOf[o] = "data source" -> by("get data source")
        [] KindOf[o] \in {"page", "block"} -> \E i \in answers : listed(i)

(* The page of a block, by walking up; the walk ends at what is no block.  *)
TracedTo(o, index) ==
  LET parentOf(p) == (CHOOSE i \in Positions(index) : index[i].object = p)
      above[n \in 0..Len(index)] ==
        IF n = 0 THEN o
        ELSE LET p == above[n - 1] IN
             IF p \in Objects /\ KindOf[p] = "block"
               THEN index[parentOf(p)].parent ELSE p
  IN  above[Len(index)]

Rebuilds(index, ledger) ==
  \A i \in Positions(index) :
    LET o == index[i].object IN
    o \in Objects =>
      /\ AnswerOf(o, ledger)
      /\ KindOf[o] = "block" =>
           LET p == TracedTo(o, index) IN p \in Objects /\ KindOf[p] = "page"

-----------------------------------------------------------------------------
(* Properties.                                                             *)

TypeOK ==
  /\ pc \in {"request", "attempt", "sleep", "returned", "dead"}
  /\ step \in {"open", "inventory", "ledger", "run", "rename", "fail-ledger",
               "fail-run", "preserve"} \cup Closed
  /\ dir.at \in {"staging", "target", "failed"}
  /\ requests \in 0..MaxRequests + 1
  /\ attempt \in 1..MaxAttempts
  /\ visited \subseteq Objects
  /\ faults \in 0..MaxFaults
  /\ truncated \in BOOLEAN /\ interrupted \in BOOLEAN
  /\ \A i \in Positions(found) :
       /\ found[i].object \in Objects \cup Properties
       /\ found[i].parent \in Objects \cup {None}

(* What is in an object and can be reached: what a query cuts off cannot.  *)
ItemsIn(o) ==
  Items(List(IF KindOf[o] = "data source" THEN "query" ELSE "children", o, o))

(* A set of objects with the workspace and all that is in one of them.     *)
Spans(S) ==
  /\ Workspace \in S
  /\ \A o \in S : \A i \in Positions(ItemsIn(o)) : ItemsIn(o)[i] \in S

(* What there is in the workspace and can be reached: the smallest such    *)
(* set, the databases of its data sources and their columns.               *)
Reachable ==
  LET objects == {o \in Objects : \A S \in SUBSET Objects : Spans(S) => o \in S}
      sources == {o \in objects : KindOf[o] = "data source"}
  IN  objects \cup {DatabaseOf[o] : o \in sources}
      \cup UNION {{PropertiesOf[o][i] : i \in Positions(PropertiesOf[o])} : o \in sources}

(* A row of the index has its object below what it was found in.           *)
IsBelow(row) ==
  row.object \in Objects =>
    /\ KindOf[row.object] \in {"workspace", "database"} => row.parent = None
    /\ KindOf[row.object] = "data source" => row.parent = DatabaseOf[row.object]
    /\ KindOf[row.object] \in {"page", "block"} =>
         \E j \in Positions(Children[row.parent]) : Children[row.parent][j] = row.object

(* A directory that loads holds all of the workspace that can be reached,  *)
(* each object below the one it was found in, and the answers to make      *)
(* sense of every one: whatever was refused, retried, interrupted, killed, *)
(* or written in part ("a partial traversal is never a partial archive").  *)
LoadableIsWhole ==
  Loads(dir) =>
    LET index == dir.inventory[1] IN
    /\ {index[i].object : i \in Positions(index)} = Reachable
    /\ \A i \in Positions(index) : IsBelow(index[i])
    /\ Rebuilds(index, dir.requests[1])

(* The ledger is what was sent, in order; at most the last attempt, after  *)
(* which nothing was sent, is missing from it, and then nothing loads.     *)
LedgerMissesAtMostLast ==
  /\ Len(sent) \in {Len(records), Len(records) + 1}
  /\ \A i \in Positions(records) :
       records[i].request = sent[i].request /\ records[i].attempt = sent[i].attempt
  /\ Loads(dir) => dir.requests[1] = records /\ Len(sent) = Len(records)

(* In a directory that loads, every attempt that failed is marked as to be *)
(* retried, and was: the next attempt is the same request's next.  The     *)
(* retries reported to the operator are retries that happened.             *)
RetriedIsRetried ==
  Loads(dir) =>
    LET ledger == dir.requests[1] IN
    \A i \in Positions(ledger) :
      ledger[i].outcome = "FAILED_ATTEMPT" =>
        /\ ledger[i].retrying
        /\ i < Len(ledger)
        /\ Same(ledger[i + 1].request, ledger[i].request)
        /\ ledger[i + 1].attempt = ledger[i].attempt + 1

(* What is at the target loads; what was put aside as failed does not.     *)
TargetIsLoadable ==
  /\ dir.at = "target" => Loads(dir)
  /\ dir.at = "failed" => ~Loads(dir)

(* Unless it is killed, the extraction comes to an end.                    *)
ExtractionEnds == <>(pc = "dead" \/ step \in Closed)

(* Whatever the source answers, and however long, it is not followed in    *)
(* circles: no page of a list is read twice, unless what it is the list of *)
(* (for the blocks of a page: the page) was itself listed twice; and there *)
(* are at most MaxRequests requests.                                       *)
NoCircles ==
  LET answered == {i \in Positions(records) : records[i].outcome = "SUCCESS"}
      twice(o) == \E i, j \in Positions(found) :
                    i # j /\ found[i].object = o /\ found[j].object = o
  IN  /\ \A i, j \in answered :
           /\ i # j
           /\ IsList(records[i].request)
           /\ Same(records[i].request, records[j].request)
           => twice(records[i].request.owner)
      /\ Cardinality({i \in Positions(sent) : sent[i].attempt = 1}) <= MaxRequests

(* scan.go 37: a query that hit the ceiling "makes the run incomplete      *)
(* rather than complete-with-fewer-rows".                                  *)
TruncatedIsNotComplete == truncated => dir.at # "target"

(* vocabulary.go 73: every object is in the index exactly once; so the     *)
(* index of a source that answers honestly is accepted.                    *)
HonestIndexIsValid ==
  faults = 0 /\ pc = "request" /\ pending = <<>> => ValidIndex(SourceObjects)
=============================================================================
