----------------------------- MODULE MCExtraction -----------------------------
(***************************************************************************)
(* The Notion workspace of MCNotionExtraction, and a ClickUp Workspace     *)
(* with one Space, an archived folderless List and a List in a Folder,     *)
(* which has a Task with a Subtask.  The Task has a comment with a reply,  *)
(* an attachment, a field value, a link to its Subtask and one to a Task   *)
(* outside of the Workspace; the Subtask has a comment.                    *)
(***************************************************************************)
EXTENDS Extraction, MCNotionExtraction

KindInClickUp ==
  [w |-> "workspace", s |-> "space", f |-> "folder", l1 |-> "list", l2 |-> "list",
   t1 |-> "task", t2 |-> "task", c1 |-> "comment", c2 |-> "comment", c3 |-> "comment",
   x |-> "field", a |-> "attachment", r1 |-> "relationship", r2 |-> "relationship"]

ListedInClickUp ==
  [w |-> None, s |-> "w", f |-> "s", l1 |-> "s", l2 |-> "f", t1 |-> "l2", t2 |-> "l2",
   c1 |-> "t1", c2 |-> "c1", c3 |-> "t2", x |-> None, a |-> "t1", r1 |-> "t1", r2 |-> "t1"]

Item(o) == [id |-> o, parent |-> None, home |-> None, name |-> "name",
            definition |-> "definition", replies |-> 0, attachments |-> <<>>,
            links |-> {}, values |-> <<>>, people |-> {}]

Anna == [id |-> "anna", name |-> "name"]

SourceInClickUp ==
  [t1 |-> [Item("t1") EXCEPT !.home = "l2", !.attachments = <<"a">>,
                             !.links = {"r1", "r2"}, !.values = <<"x">>,
                             !.people = {Anna}],
   t2 |-> [Item("t2") EXCEPT !.home = "l2", !.parent = "t1", !.links = {"r1"},
                             !.people = {Anna}],
   c1 |-> [Item("c1") EXCEPT !.replies = 1],
   c2 |-> Item("c2"), c3 |-> Item("c3"), w |-> Item("w"), s |-> Item("s"),
   f |-> Item("f"), l1 |-> Item("l1"), l2 |-> Item("l2"), x |-> Item("x"),
   a |-> Item("a"), r1 |-> Item("r1"), r2 |-> Item("r2")]

EndsInClickUp == [r1 |-> <<"t1", "t2">>, r2 |-> <<"t1", "elsewhere">>]

OrderInClickUp ==
  <<"a", "c1", "c2", "c3", "f", "l1", "l2", "r1", "r2", "s", "t1", "t2", "w", "x">>

FieldsInClickUp == [w |-> {"x"}, s |-> {}, f |-> {}, l1 |-> {}, l2 |-> {"x"}]
=============================================================================
