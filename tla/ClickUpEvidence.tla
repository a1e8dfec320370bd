---------------------------- MODULE ClickUpEvidence ----------------------------
(***************************************************************************)
(* What the ClickUp connector makes of the answers of its source           *)
(* (internal/connector/clickup): scan.go indexes the objects of a          *)
(* Workspace while it reads, portable.go builds the archive's model from   *)
(* the index and the recorded answers, much later and without the source.  *)
(*                                                                         *)
(* An answer is a sequence of items.  An item carries what some check      *)
(* reads: its id, parent and home List, a name, a definition, the number   *)
(* of its replies, and for a Task its attachments, relationships, field    *)
(* values and people.                                                      *)
(***************************************************************************)
EXTENDS Snapshot, SequencesExt

CONSTANTS
  Objects,   (* everything with an id                                      *)
  KindOf,    (* function: workspace, space, folder, list, task, comment,   *)
             (* field, attachment, or relationship                         *)
  EndsOf,    (* function on relationships: <<from, to>>, ids of Tasks,     *)
             (* which may be outside of the Workspace                      *)
  Order      (* the objects in the order of their ids                      *)

Blank == [id |-> None, parent |-> None, home |-> None, name |-> "name",
          definition |-> "definition", replies |-> 0, attachments |-> <<>>,
          links |-> {}, values |-> <<>>, people |-> {}]

Sorted(S) == Subsequence(Order, {i \in Positions(Order) : Order[i] \in S})

Of(kind, known) == {o \in DOMAIN known : KindOf[o] = kind}

-----------------------------------------------------------------------------
(* The scan.  known is a function on the objects found so far.             *)

LocationOps == {"list-spaces", "list-folders", "list-lists"}

(* What is remembered of an item; two answers may not differ in it.  A     *)
(* Custom Field has no parent, and its definition is not compared.         *)
Entry(request, item) ==
  CASE request.op \in LocationOps ->
         [parent |-> request.of, home |-> None, name |-> item.name]
    [] request.op = "list-fields" ->
         [parent |-> None, home |-> None, name |-> item.name]
    [] request.op \in {"list-tasks", "get-task"} ->
         [parent |-> item.parent, home |-> item.home, name |-> None]
    [] request.op \in {"list-comments", "list-replies"} ->
         [parent |-> request.of, home |-> None, name |-> None]

Agrees(known, o, entry) == o \in DOMAIN known => known[o] = entry

Repeats(items) ==
  \E i, j \in Positions(items) : i # j /\ items[i].id = items[j].id

(* A relationship hangs on the end it comes from, if that is a known Task. *)
HangsOn(known, r) ==
  IF EndsOf[r][1] \in DOMAIN known THEN EndsOf[r][1] ELSE EndsOf[r][2]

(* The detail of a Task repeats its list entry; what hangs on it names it. *)
TaskIsConsistent(known, request, item) ==
  /\ item.id = request.of
  /\ Agrees(known, item.id, Entry(request, item))
  /\ \A i \in Positions(item.attachments) :
       Agrees(known, item.attachments[i],
              [parent |-> request.of, home |-> None, name |-> None])
  /\ \A r \in item.links : request.of \in {EndsOf[r][1], EndsOf[r][2]}

(* The checks of one answer.                                               *)
Accepted(known, request, items) ==
  /\ request.op \in LocationOps \cup {"list-fields"} =>
       /\ \A i \in Positions(items) :
            Agrees(known, items[i].id, Entry(request, items[i]))
       /\ \A i, j \in Positions(items) :
            items[i].id = items[j].id => items[i].name = items[j].name
  /\ request.op = "list-tasks" =>
       /\ ~Repeats(items)
       /\ \A i \in Positions(items) :
            /\ items[i].home = request.of
            /\ items[i].id \notin request.seen
            /\ Agrees(known, items[i].id, Entry(request, items[i]))
  /\ request.op = "get-task" => TaskIsConsistent(known, request, items[1])
  /\ request.op \in {"list-comments", "list-replies"} =>
       /\ ~Repeats(items)
       /\ \A i \in Positions(items) : items[i].id \notin DOMAIN known
  /\ request.op = "list-replies" => Len(items) = request.expected

(* What is known afterwards.  What hangs on a Task becomes known with it.  *)
Learned(known, request, items) ==
  LET first(o) == CHOOSE i \in Positions(items) : items[i].id = o
      ids == {items[i].id : i \in Positions(items)}
      attached == ToSet(items[1].attachments)
      linked == items[1].links
      hangs(parent) == [parent |-> parent, home |-> None, name |-> None]
  IN  IF request.op = "get-task"
        THEN [o \in DOMAIN known \cup attached \cup linked |->
                IF o \in attached THEN hangs(request.of)
                ELSE IF o \in linked THEN hangs(HangsOn(known, o)) ELSE known[o]]
        ELSE [o \in DOMAIN known \cup ids |->
                IF o \in ids THEN Entry(request, items[first(o)]) ELSE known[o]]

TaskParentsExist(known) ==
  \A t \in Of("task", known) :
    known[t].parent = None \/ known[t].parent \in Of("task", known)

(* Type and parent of an object in the index of inventory.json.            *)
IsSubtask(known, o) == KindOf[o] = "task" /\ known[o].parent # None

IndexParent(known, o) ==
  IF KindOf[o] = "task" /\ ~IsSubtask(known, o) THEN known[o].home ELSE known[o].parent

IndexOf(workspace, known) ==
  LET found == Sorted(DOMAIN known) IN
  <<[object |-> workspace, type |-> "workspace", parent |-> None]>> \o
  [i \in Positions(found) |->
     [object |-> found[i],
      type   |-> IF IsSubtask(known, found[i]) THEN "subtask" ELSE KindOf[found[i]],
      parent |-> IndexParent(known, found[i])]]

-----------------------------------------------------------------------------
(* The archive's model, from an index and a ledger.                        *)

(* The items of all answers to some requests.                              *)
ItemsOf(ops, ledger) ==
  UNION {ToSet(ledger[i].items) :
           i \in {j \in Positions(ledger) : /\ ledger[j].outcome = "SUCCESS"
                                            /\ ledger[j].request.op \in ops}}

(* The places of an id in the answers to some requests.                    *)
Occurrences(ops, o, ledger) ==
  UNION {{<<i, j>> : j \in {k \in Positions(ledger[i].items) : ledger[i].items[k].id = o}} :
           i \in {n \in Positions(ledger) : /\ ledger[n].outcome = "SUCCESS"
                                           /\ ledger[n].request.op \in ops}}

OneName(items) == \A a, b \in items : a.id = b.id => a.name = b.name

OneDefinition(items) == \A a, b \in items : a.id = b.id => a.definition = b.definition

(* Nobody may have changed his name between two answers.                   *)
OnePerson(items) ==
  LET people == UNION {item.people : item \in items} IN
  \A p, q \in people : p.id = q.id => p.name = q.name

(* Going up from an object; the walk ends where there is no parent of the  *)
(* kind, or where it has been before.                                      *)
WalkUp(index, o, types) ==
  LET entry(p) == index[CHOOSE i \in Positions(index) : index[i].object = p]
      goesOn(p) == \E i \in Positions(index) :
                     index[i].object = p /\ index[i].type \in types
      up[n \in 0..Len(index)] ==
        IF n = 0 THEN o
        ELSE LET below == up[n - 1] IN
             IF goesOn(below) THEN entry(below).parent ELSE below
  IN  up[Len(index)]

TypeIn(index, o) ==
  IF \E i \in Positions(index) : index[i].object = o
    THEN index[CHOOSE i \in Positions(index) : index[i].object = o].type
    ELSE "missing"

(* The Task a Subtask belongs to, and the record of a Comment.  In a cycle *)
(* the walk ends at one of its members.                                    *)
TaskAbove(index, o) == WalkUp(index, o, {"subtask"})

RecordOf(index, o) == WalkUp(index, o, {"comment"})

(* The List a Task or Subtask is filed under.                              *)
CollectionOf(index, o) ==
  index[CHOOSE i \in Positions(index) : index[i].object = TaskAbove(index, o)].parent

Resolution(index, r) ==
  IF \A n \in 1..2 : TypeIn(index, EndsOf[r][n]) \in {"task", "subtask"}
    THEN "RESOLVED" ELSE "PARTIAL_EXTERNAL"

(* The answers are consistent among themselves.                            *)
EvidenceCollects(ledger) ==
  LET details == ItemsOf({"get-task"}, ledger)
      comments == ItemsOf({"list-comments", "list-replies"}, ledger)
      fields == ItemsOf({"list-fields"}, ledger)
  IN  /\ \A op \in LocationOps : OneName(ItemsOf({op}, ledger))
      /\ OneDefinition(fields)
      /\ OnePerson(details \cup comments)
      /\ \A o \in {item.id : item \in details} :
           Cardinality(Occurrences({"get-task"}, o, ledger)) = 1
      /\ \A o \in {item.id : item \in comments} :
           Cardinality(Occurrences({"list-comments", "list-replies"}, o, ledger)) = 1
      /\ \A item \in details :
           /\ ToSet(item.values) \subseteq {field.id : field \in fields}
           /\ IsInjective(item.values)
      /\ \A item \in details : IsInjective(item.attachments)
      /\ \A a, b \in details :
           a # b => ToSet(a.attachments) \cap ToSet(b.attachments) = {}

(* Every object of the index has its answer, and nothing hangs on a Task   *)
(* that the index does not know.                                           *)
EvidenceCovers(index, ledger) ==
  LET typed(types) == {index[i].object : i \in {j \in Positions(index) : index[j].type \in types}}
      ids(ops) == {item.id : item \in ItemsOf(ops, ledger)}
      details == ItemsOf({"get-task"}, ledger)
      hanging == UNION {ToSet(item.attachments) \cup item.links : item \in details}
  IN  /\ typed({"space"}) \subseteq ids({"list-spaces"})
      /\ typed({"folder"}) \subseteq ids({"list-folders"})
      /\ typed({"list"}) \subseteq ids({"list-lists"})
      /\ typed({"task", "subtask"}) \subseteq ids({"get-task"})
      /\ typed({"comment"}) \subseteq ids({"list-comments", "list-replies"})
      /\ typed({"field"}) \subseteq ids({"list-fields"})
      /\ typed({"attachment", "relationship"}) = hanging

(* Hierarchies end at a Task that is in a List, or at a record.            *)
HierarchiesEnd(index) ==
  \A i \in Positions(index) :
    LET o == index[i].object IN
    /\ index[i].type = "list" => TypeIn(index, index[i].parent) \in {"space", "folder"}
    /\ index[i].type = "subtask" => TypeIn(index, TaskAbove(index, o)) = "task"
    /\ index[i].type = "comment" => TypeIn(index, RecordOf(index, o)) \in {"task", "subtask"}

Normalizes(index, ledger) ==
  EvidenceCollects(ledger) /\ EvidenceCovers(index, ledger) /\ HierarchiesEnd(index)
=============================================================================
