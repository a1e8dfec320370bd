--------------------------- MODULE ClickUpExtraction ---------------------------
(***************************************************************************)
(* The ClickUp connector extracts a Workspace: scan walks it in phases     *)
(* (Spaces, what is in them, what is in Folders, Custom Fields, Tasks, and *)
(* each Task with its comments and their replies), getWithQuery sends each *)
(* request up to MaxAttempts times, and a Session keeps the evidence.      *)
(* Unlike Notion, ClickUp says nowhere that a list has ended: the client   *)
(* asks until a page is empty.                                             *)
(*                                                                         *)
(* The source may be edited once while it is read, may refuse, break off,  *)
(* not answer, or answer what cannot be parsed.  The operator may          *)
(* interrupt, and the process may be killed.                               *)
(***************************************************************************)
EXTENDS ClickUpEvidence

CONSTANTS
  Workspace,
  Source,       (* function: the honest item of an object                  *)
  ListedIn,     (* function: the object it is listed under                 *)
  Archived,     (* the objects that are listed as archived                 *)
  FieldsOf,     (* function on locations: the Custom Fields usable there   *)
  PageSize,
  MaxAttempts,  (* maxRequestAttempts                                      *)
  MaxPages,     (* maxTaskPages, maxCommentPages                           *)
  MaxFaults,    (* bound: refusals, broken answers and edits               *)
  EndlessLists  (* whether the source may lead the client in circles       *)

(* What the instance has to satisfy.                                       *)
ClickUpAssumption ==
  /\ PageSize \in Nat \ {0}
  /\ MaxAttempts \in Nat \ {0}
  /\ MaxPages \in Nat \ {0}
  /\ MaxFaults \in Nat \ {0}
  /\ EndlessLists \in BOOLEAN
  /\ None \notin Objects
  /\ Workspace \in Objects
  /\ Order \in Seq(Objects)
  /\ \A o \in Objects : \E i \in Positions(Order) : Order[i] = o
  /\ \A i, j \in Positions(Order) : Order[i] = Order[j] => i = j

(* What may be in what.                                                    *)
Holders(kind) ==
  CASE kind = "space" -> {"workspace"}
    [] kind = "folder" -> {"space"}
    [] kind = "list" -> {"space", "folder"}
    [] kind = "task" -> {"list"}
    [] kind = "comment" -> {"task", "comment"}
    [] kind = "attachment" -> {"task"}

Kinds == {"workspace", "space", "folder", "list", "task", "comment", "field",
          "attachment", "relationship"}

ObjectsOf(kinds) == {o \in Objects : KindOf[o] \in kinds}

Locations == ObjectsOf({"workspace", "space", "folder", "list"})

Items ==
  [id : Objects, parent : Objects \cup {None}, home : Objects \cup {None},
   name : STRING, definition : STRING, replies : Nat, attachments : Seq(Objects),
   links : SUBSET DOMAIN EndsOf, values : Seq(Objects),
   people : SUBSET [id : STRING, name : STRING]]

(* A Workspace that nobody edits: everything is in something and says so,  *)
(* what hangs on Tasks hangs on one of them, a Subtask is in the List of   *)
(* its Task, and Tasks are not each other's Subtasks.                      *)
WorkspaceAssumption ==
  LET tasks == ObjectsOf({"task"})
      comments == ObjectsOf({"comment"})
      fields == ObjectsOf({"field"})
  IN  /\ KindOf \in [Objects -> Kinds]
      /\ ObjectsOf({"workspace"}) = {Workspace}
      /\ Source \in [Objects -> Items]
      /\ \A o \in Objects : Source[o].id = o
      /\ \A o \in ObjectsOf({"workspace", "field"}) : ListedIn[o] = None
      /\ \A o \in Objects \ ObjectsOf({"workspace", "field", "relationship"}) :
           ListedIn[o] \in ObjectsOf(Holders(KindOf[o]))
      /\ Archived \subseteq ObjectsOf({"space", "folder", "list", "task"})
      /\ fields = UNION {FieldsOf[o] : o \in Locations}
      /\ DOMAIN EndsOf = ObjectsOf({"relationship"})
      /\ DOMAIN EndsOf \subseteq UNION {Source[t].links : t \in tasks}
      /\ \A o \in Objects \ tasks : Source[o].attachments = <<>> /\ Source[o].links = {}
      /\ \A t \in tasks :
           /\ Source[t].home = ListedIn[t]
           /\ Source[t].parent # None =>
                Source[t].parent \in tasks /\ ListedIn[Source[t].parent] = ListedIn[t]
           /\ IsInjective(Source[t].attachments)
           /\ ToSet(Source[t].attachments) =
                {a \in ObjectsOf({"attachment"}) : ListedIn[a] = t}
           /\ IsInjective(Source[t].values) /\ ToSet(Source[t].values) \subseteq fields
      /\ \A S \in SUBSET tasks : S # {} => \E t \in S : Source[t].parent \notin S
      /\ \A c \in comments : ListedIn[c] \in comments =>
           ListedIn[ListedIn[c]] \in tasks /\ Source[ListedIn[c]].replies > 0
      /\ OnePerson({Source[o] : o \in tasks \cup comments})

VARIABLES
  pc,           (* where scan and getWithQuery are                         *)
  phase,        (* the loop of scan                                        *)
  pending,      (* the requests of this phase, the first one now           *)
  attempt,      (* the number of this attempt                              *)
  known,        (* scanState                                               *)
  interrupted,  (* the context is done                                     *)
  faults,       (* how many faults of the source there were                *)
  edited,       (* history: an answer differed from the source             *)
  sent          (* history: the attempts that were sent                    *)

clientVars == <<pc, phase, pending, attempt, known, interrupted, faults, edited, sent>>
vars == <<snapshotVars, clientVars>>

-----------------------------------------------------------------------------
(* Requests.                                                               *)

Get(op, of) ==
  [op |-> op, of |-> of, archived |-> FALSE, page |-> 0, seen |-> {},
   roots |-> <<>>, expected |-> 0]

BothLists(op, of) == <<Get(op, of), [Get(op, of) EXCEPT !.archived = TRUE]>>

IsPaged(request) == request.op \in {"list-tasks", "list-comments"}
Same(r, s) == /\ r.op = s.op /\ r.of = s.of
              /\ r.archived = s.archived /\ r.page = s.page

(* Spaces hold Folders and folderless Lists, Folders hold Lists.           *)
ForEach(os, requests(_)) == FlattenSeq([i \in Positions(os) |-> requests(os[i])])

RequestsOf(p) ==
  LET spaces == Sorted(Of("space", known))
      folders == Sorted(Of("folder", known))
      lists == Sorted(Of("list", known))
      inSpace(s) == <<Get("list-folders", s), Get("list-lists", s),
                      [Get("list-folders", s) EXCEPT !.archived = TRUE],
                      [Get("list-lists", s) EXCEPT !.archived = TRUE]>>
      inFolder(f) == BothLists("list-lists", f)
      inList(l) == BothLists("list-tasks", l)
      each(op, os) == [i \in Positions(os) |-> Get(op, os[i])]
  IN  CASE p = "in-spaces" -> ForEach(spaces, inSpace)
        [] p = "in-folders" -> ForEach(folders, inFolder)
        [] p = "fields" -> each("list-fields", <<Workspace>> \o spaces \o folders \o lists)
        [] p = "tasks" -> ForEach(lists, inList)
        [] p = "details" -> each("get-task", Sorted(Of("task", known)))

NextOf(p) ==
  CASE p = "spaces" -> "in-spaces"
    [] p = "in-spaces" -> "in-folders"
    [] p = "in-folders" -> "fields"
    [] p = "fields" -> "tasks"
    [] p = "tasks" -> "details"

-----------------------------------------------------------------------------
(* The source.                                                             *)

Listed(kind, request) ==
  Sorted({o \in Objects : /\ KindOf[o] = kind
                          /\ ListedIn[o] = request.of
                          /\ (o \in Archived) = request.archived})

(* What a request asks for, on all its pages.                              *)
AskedFor(request) ==
  CASE request.op = "list-spaces" -> Listed("space", request)
    [] request.op = "list-folders" -> Listed("folder", request)
    [] request.op = "list-lists" -> Listed("list", request)
    [] request.op = "list-fields" -> Sorted(FieldsOf[request.of])
    [] request.op = "list-tasks" -> Listed("task", request)
    [] request.op = "get-task" -> <<request.of>>
    [] request.op \in {"list-comments", "list-replies"} -> Listed("comment", request)

Honest(request) ==
  LET all == AskedFor(request)
      first == request.page * PageSize + 1
      last == IF first + PageSize - 1 < Len(all) THEN first + PageSize - 1 ELSE Len(all)
      asked == IF IsPaged(request) THEN SubSeq(all, first, last) ELSE all
  IN  [i \in Positions(asked) |-> Source[asked[i]]]

(* What an answer can say after an edit of the source, or by mistake: an   *)
(* item gone, or twice; another name, definition, parent, List, number of  *)
(* replies, attachment, relationship or person.                            *)
Edits(request) ==
  LET items == Honest(request)
      one == Head(items)
      with(item) == [items EXCEPT ![1] = item]
      tasks == {o \in Objects : KindOf[o] = "task"}
      others == {EndsOf[r][2] : r \in DOMAIN EndsOf}
  IN  IF items = <<>> THEN {}
        ELSE {Append(items, one), with([one EXCEPT !.name = "other"])}
             \cup (IF request.op = "get-task" THEN {} ELSE {Tail(items)})
             \cup (IF request.op = "list-fields"
                     THEN {with([one EXCEPT !.definition = "other"])} ELSE {})
             \cup (IF request.op \in {"list-tasks", "get-task"}
                     THEN {with([one EXCEPT !.home = Workspace])} \cup
                          {with([one EXCEPT !.parent = p]) : p \in tasks \cup others \cup {None}}
                     ELSE {})
             \cup (IF request.op = "list-comments"
                     THEN {with([one EXCEPT !.replies = @ + 1])} ELSE {})
             \cup (IF request.op = "get-task"
                     THEN {with([one EXCEPT !.attachments = @ \o @]),
                           with([one EXCEPT !.people = {[id |-> p.id, name |-> "other"] : p \in @}])}
                          \cup {with([one EXCEPT !.links = @ \cup {r}]) : r \in DOMAIN EndsOf}
                          \cup {with([one EXCEPT !.attachments = Append(@, a)]) :
                                  a \in {o \in Objects : KindOf[o] = "attachment"}}
                     ELSE {})

(* How a source may keep a client busy: with a page it had before, or one  *)
(* more after the last, as if what is listed elsewhere had been moved here.*)
Circling(request) ==
  LET kind == IF request.op = "list-tasks" THEN "task" ELSE "comment"
  IN  {Honest([request EXCEPT !.page = p]) : p \in 0..request.page}
      \cup {<<[Source[o] EXCEPT !.home = request.of]>> :
              o \in {n \in Objects : KindOf[n] = kind}}

-----------------------------------------------------------------------------
(* What an answer leads to.                                                *)

EndsList(request, items) == items = <<>>

(* The next page; a list has at most MaxPages.                             *)
MoreOf(request, items) ==
  LET ids == {items[i].id : i \in Positions(items)}
      roots == [i \in Positions(items) |-> [id |-> items[i].id, replies |-> items[i].replies]]
      next == [request EXCEPT !.page = @ + 1, !.seen = @ \cup ids, !.roots = @ \o roots]
  IN  IF next.page < MaxPages THEN <<next>> ELSE <<[next EXCEPT !.op = "refused"]>>

(* Bug: a single reply is not asked for.                                   *)
RepliesOfThreads(request) ==
  LET answered == {i \in Positions(request.roots) : request.roots[i].replies > 1}
      roots == Subsequence(request.roots, answered)
  IN  [i \in Positions(roots) |->
         [Get("list-replies", roots[i].id) EXCEPT !.expected = roots[i].replies]]

(* Comments that say they have replies are asked for them.                 *)
RepliesOf(request) ==
  LET answered == {i \in Positions(request.roots) : request.roots[i].replies > 0}
      roots == Subsequence(request.roots, answered)
  IN  [i \in Positions(roots) |->
         [Get("list-replies", roots[i].id) EXCEPT !.expected = roots[i].replies]]

After(request, items) ==
  CASE IsPaged(request) /\ ~EndsList(request, items) ->
         MoreOf(request, items) \o Tail(pending)
    [] request.op = "list-comments" /\ EndsList(request, items) ->
         RepliesOf(request) \o Tail(pending)
    [] request.op = "get-task" ->
         <<Get("list-comments", request.of)>> \o Tail(pending)
    [] OTHER -> Tail(pending)

SourceObjects == IndexOf(Workspace, known)

-----------------------------------------------------------------------------
(* The traversal.                                                          *)

GiveUp == pc' = "returned" /\ Fail

NextPhase ==
  /\ pc = "request"
  /\ pending = <<>>
  /\ phase # "details"
  /\ IF phase = "tasks" /\ ~TaskParentsExist(known)
       THEN GiveUp /\ UNCHANGED <<phase, pending>>
       ELSE /\ phase' = NextOf(phase)
            /\ pending' = RequestsOf(phase')
            /\ UNCHANGED <<pc, step>>
  /\ UNCHANGED <<records, dir, attempt, known, interrupted, faults, edited, sent>>

NextRequest ==
  /\ pc = "request"
  /\ pending # <<>>
  /\ IF Head(pending).op = "refused"
       THEN GiveUp /\ UNCHANGED attempt
       ELSE pc' = "attempt" /\ attempt' = 1 /\ UNCHANGED step
  /\ UNCHANGED <<records, dir, phase, pending, known, interrupted, faults, edited, sent>>

Send ==
  /\ pc = "attempt"
  /\ sent' = Append(sent, [request |-> Head(pending), attempt |-> attempt])

(* A 2xx answer is recorded before anything is made of it.                 *)
Answered(items, valid) ==
  LET request == Head(pending) IN
  /\ Send
  /\ ~interrupted
  /\ RecordResponse(request, attempt, items, "SUCCESS")
  /\ IF valid /\ Accepted(known, request, items)
       THEN /\ pc' = "request"
            /\ pending' = After(request, items)
            /\ known' = Learned(known, request, items)
            /\ UNCHANGED step
       ELSE GiveUp /\ UNCHANGED <<pending, known>>
  /\ UNCHANGED <<dir, phase, attempt, interrupted>>

AnsweredHonestly ==
  /\ pending # <<>>
  /\ Answered(Honest(Head(pending)), TRUE)
  /\ UNCHANGED <<faults, edited>>

AnsweredUnparsable ==
  /\ pending # <<>>
  /\ Answered(<<>>, FALSE)
  /\ UNCHANGED <<faults, edited>>

(* Bound: an edit is the only fault of its extraction.                     *)
AnsweredEdited ==
  /\ pending # <<>>
  /\ faults = 0
  /\ \E items \in Edits(Head(pending)) \ {Honest(Head(pending))} : Answered(items, TRUE)
  /\ faults' = MaxFaults
  /\ edited' = TRUE

(* It does not have to stop.  Bound: this is how an edit begins, or it goes*)
(* on with a list that was read in part.                                   *)
AnsweredInCircles ==
  /\ pc = "attempt" /\ pending # <<>>
  /\ EndlessLists /\ IsPaged(Head(pending))
  /\ faults = 0 \/ (edited /\ Head(pending).page > 0)
  /\ \E items \in Circling(Head(pending)) \ {Honest(Head(pending))} : Answered(items, TRUE)
  /\ faults' = MaxFaults
  /\ edited' = TRUE

(* The answer holds the credential, or it cannot be written.               *)
NotRecorded(outcome) ==
  /\ Send
  /\ ~interrupted
  /\ RecordResponse(Head(pending), attempt, <<>>, outcome)
  /\ GiveUp
  /\ UNCHANGED <<dir, phase, pending, attempt, known, interrupted, faults, edited>>

RetryOrGiveUp(retrying) ==
  /\ RecordFailure(Head(pending), attempt, retrying)
  /\ IF retrying THEN pc' = "sleep" /\ UNCHANGED step ELSE GiveUp
  /\ UNCHANGED <<dir, phase, pending, attempt, known, interrupted, edited>>

(* No connection, or the context is done: the request itself fails.        *)
NoConnection ==
  /\ Send
  /\ interrupted \/ faults < MaxFaults
  /\ faults' = IF interrupted THEN faults ELSE faults + 1
  /\ RetryOrGiveUp(attempt < MaxAttempts /\ ~interrupted)

RetriesStatus(retryable) == attempt < MaxAttempts /\ retryable

(* A status that is not 2xx.                                               *)
Refused(retryable) ==
  /\ Send
  /\ ~interrupted
  /\ faults < MaxFaults
  /\ faults' = faults + 1
  /\ RetryOrGiveUp(RetriesStatus(retryable))

(* Bug: a body that breaks off leaves no record.                           *)
BodyFailsSilently ==
  /\ Send
  /\ GiveUp
  /\ UNCHANGED <<records, dir, phase, pending, attempt, known, interrupted, faults, edited>>

(* The body breaks off or is too long.                                     *)
BodyFails ==
  /\ Send
  /\ RetryOrGiveUp(FALSE)
  /\ UNCHANGED faults

(* Bug: the loop is left where it should be continued.                     *)
SleepThenNext ==
  /\ pc = "sleep"
  /\ pc' = "request"
  /\ pending' = Tail(pending)
  /\ UNCHANGED <<snapshotVars, phase, attempt, known, interrupted, faults, edited, sent>>

(* An interrupt ends the sleep, and the request fails although its last    *)
(* attempt was recorded as one to be retried.                              *)
Sleep ==
  /\ pc = "sleep"
  /\ \/ /\ pc' = "attempt"
        /\ attempt' = attempt + 1
        /\ UNCHANGED step
     \/ /\ interrupted
        /\ GiveUp
        /\ UNCHANGED attempt
  /\ UNCHANGED <<records, dir, phase, pending, known, interrupted, faults, edited, sent>>

Extracted ==
  /\ pc = "request"
  /\ pending = <<>>
  /\ phase = "details"
  /\ \E index \in {SourceObjects} : Complete(index)
  /\ pc' = "returned"
  /\ UNCHANGED <<phase, pending, attempt, known, interrupted, faults, edited, sent>>

Close ==
  /\ pc = "returned"
  /\ \/ WriteInventory(SourceObjects) \/ WriteLedger \/ WriteRun(SourceObjects)
     \/ Publish \/ FailLedger \/ FailRun \/ Preserve
  /\ UNCHANGED clientVars

Closed == {"complete", "failed", "unpreserved"}

Interrupt ==
  /\ ~interrupted
  /\ pc \in {"request", "attempt", "sleep"}
  /\ interrupted' = TRUE
  /\ UNCHANGED <<snapshotVars, pc, phase, pending, attempt, known, faults, edited, sent>>

Kill ==
  /\ pc # "dead"
  /\ step \notin Closed
  /\ pc' = "dead"
  /\ UNCHANGED <<snapshotVars, phase, pending, attempt, known, interrupted,
                 faults, edited, sent>>

-----------------------------------------------------------------------------
Init ==
  /\ BeginInit
  /\ pc = "request"
  /\ phase = "spaces"
  /\ pending = BothLists("list-spaces", Workspace)
  /\ attempt = 1
  /\ known = << >>
  /\ interrupted = FALSE
  /\ faults = 0
  /\ edited = FALSE
  /\ sent = <<>>

Request ==
  \/ NextPhase
  \/ NextRequest
  \/ BodyFails
  \/ NoConnection
  \/ \E retryable \in BOOLEAN : Refused(retryable)
  \/ Sleep
  \/ \E outcome \in {"WRITE_FAILED", "OMITTED_SECRET"} : NotRecorded(outcome)
  \/ AnsweredUnparsable
  \/ AnsweredHonestly
  \/ AnsweredEdited
  \/ AnsweredInCircles

Next == Request \/ Extracted \/ Close \/ Interrupt \/ Kill

Spec == Init /\ [][Next]_vars

(* The process is scheduled, every request returns (the HTTP client has a  *)
(* timeout), and every sleep ends.                                         *)
FairSpec == Spec /\ WF_vars(Request \/ Extracted \/ Close)

-----------------------------------------------------------------------------
(* Properties.                                                             *)

(* Whatever an answer in a ledger mentions.                                *)
Mentioned(ledger) ==
  LET all == {"list-spaces", "list-folders", "list-lists", "list-fields",
              "list-tasks", "get-task", "list-comments", "list-replies"}
      items == ItemsOf(all, ledger)
  IN  {item.id : item \in items}
      \cup UNION {ToSet(item.attachments) \cup item.links : item \in items}

(* A snapshot that loads has every object of every answer in its index,    *)
(* and if nothing was edited while it was read, the whole Workspace, each  *)
(* object below its own parent, in a form from which the archive can be    *)
(* built, with every Subtask filed in the List of its Task.  An edit may   *)
(* make the archive refuse a snapshot; it never makes it lose an answer.   *)
LoadableIsWhole ==
  Loads(dir) =>
    LET index == dir.inventory[1]
        ledger == dir.requests[1]
    IN  /\ {index[i].object : i \in Positions(index)} = Mentioned(ledger) \cup {Workspace}
        /\ ~edited =>
             /\ {index[i].object : i \in Positions(index)} = Objects
             /\ \A i \in Positions(index) :
                  index[i].type # "relationship" =>
                    index[i].parent = IF index[i].type = "subtask"
                                        THEN Source[index[i].object].parent
                                        ELSE ListedIn[index[i].object]
             /\ Normalizes(index, ledger)
             /\ \A i \in Positions(index) :
                  index[i].type = "subtask" =>
                    CollectionOf(index, index[i].object) = ListedIn[index[i].object]

(* The ledger is exactly what was sent, also the attempts that an          *)
(* interrupt or a broken answer ended (unless the process is killed).      *)
LedgerIsComplete ==
  /\ Len(records) = Len(sent)
  /\ \A i \in Positions(records) :
       records[i].request = sent[i].request /\ records[i].attempt = sent[i].attempt

(* In a directory that loads, every attempt that failed is marked as to be *)
(* retried, and was, although an interrupt may end the sleep between the   *)
(* mark and the retry.                                                     *)
RetriedIsRetried ==
  Loads(dir) =>
    LET ledger == dir.requests[1] IN
    \A i \in Positions(ledger) :
      ledger[i].outcome = "FAILED_ATTEMPT" =>
        /\ ledger[i].retrying
        /\ i < Len(ledger)
        /\ Same(ledger[i + 1].request, ledger[i].request)
        /\ ledger[i + 1].attempt = ledger[i].attempt + 1

(* Unless it is killed, the extraction comes to an end.                    *)
ExtractionEnds == <>(pc = "dead" \/ step \in Closed)

(* Whatever the source answers, and however long, it is not followed in    *)
(* circles: nothing is asked after a page of a list that has an item of    *)
(* another page of it, and no list is asked for more than MaxPages pages.  *)
NoCircles ==
  LET pages == {i \in Positions(records) : /\ records[i].outcome = "SUCCESS"
                                           /\ IsPaged(records[i].request)}
      ids(i) == {records[i].items[n].id : n \in Positions(records[i].items)}
  IN  /\ \A i, j \in pages :
           /\ i < j
           /\ records[i].request.op = records[j].request.op
           /\ records[i].request.of = records[j].request.of
           /\ records[i].request.archived = records[j].request.archived
           /\ ids(i) \cap ids(j) # {}
           => j = Len(sent)
      /\ \A i \in Positions(sent) : sent[i].request.page < MaxPages
=============================================================================
