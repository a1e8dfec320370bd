-------------------------------- MODULE MCArchive --------------------------------
(* Small source for OrganizedView: one Workspace, a Space with a Folder,   *)
(* two Lists, a Task with a subtask, a comment with a reply, two           *)
(* attachments, a relationship inside the source and one out of it, and    *)
(* one custom field value.                                                 *)
EXTENDS OrganizedView

Row(table, kind, src, up, home) ==
  [table |-> table, kind |-> kind, type |-> kind, src |-> src, up |-> up,
   home |-> home, ends |-> None, raw |-> Response]

Id(kind, src) == <<kind, src>>
Ends(from, to, fromSrc, toSrc, state) ==
  [from |-> from, to |-> to, fromSrc |-> fromSrc, toSrc |-> toSrc,
   state |-> state]

T1 == Id("task", "t1")
T2 == Id("task", "t2")
L1 == Id("list", "l1")
L2 == Id("list", "l2")
S == Id("space", "s")
F == Id("folder", "f")
C1 == Id("comment", "c1")
C2 == Id("comment", "c2")
W == Id("workspace", "w")

SourceRows ==
  { Row("workspaces", "workspace", "w", None, None),
    Row("containers", "space", "s", None, W),
    Row("containers", "folder", "f", S, W),
    Row("collections", "list", "l1", None, S),
    Row("collections", "list", "l2", None, F),
    Row("records", "task", "t1", None, L1),
    Row("records", "task", "t2", T1, L1),
    Row("comments", "comment", "c1", None, T1),
    Row("comments", "comment", "c2", C1, T1),
    Row("attachments", "attachment", "a", None, T1),
    Row("attachments", "attachment", "b", None, T2),
    [Row("relationships", "relation", "r", None, None) EXCEPT
       !.ends = Ends(T1, T2, "t1", "t2", "RESOLVED")],
    [Row("relationships", "relation", "q", None, None) EXCEPT
       !.ends = Ends(T1, None, "t1", "x", "UNRESOLVED")],
    Row("field_definitions", "field", "d", None, None) }

RightRows ==
  [i \in {PortableID(row) : row \in SourceRows} |->
     CHOOSE row \in SourceRows : PortableID(row) = i]

Index ==
  [k \in {SourceKey(row) : row \in SourceRows} |->
     LET row == CHOOSE x \in SourceRows : SourceKey(x) = k
     IN  CASE row.table = "workspaces" -> None
           [] row.table \in {"relationships", "field_definitions"} -> T1
           [] row.up # None -> row.up
           [] OTHER -> row.home]

Cap(availability) ==
  [requirement |-> "REQUIRED", implementation |-> "SUPPORTED",
   availability |-> availability]

Caps == [c \in {"records", AttachmentContent} |->
           IF c = "records" THEN Cap("AVAILABLE") ELSE Cap("UNKNOWN")]

Evidence ==
  [index |-> Index,
   tally |-> Tally(RightRows, {row.kind : row \in SourceRows}),
   nested |-> 1, caps |-> Caps]

Value(field, verdict) == [record |-> T1, field |-> field, verdict |-> verdict]

Field == Id("field", "d")

BytesAt == [a \in {"a", "b"} |-> File(a, 2)]

Expecting(size) ==
  [a \in {"a", "b"} |-> [status |-> "PENDING", bytes |-> None,
                         expected |-> IF a = "a" THEN size ELSE None]]

Right ==
  [evidence |-> Evidence, rows |-> RightRows,
   values |-> {Value(Field, "VALID")}, held |-> Expecting(2)]

(* A size the metadata gets wrong; a required capability the extraction    *)
(* could not settle.                                                       *)
OtherRight ==
  { [Right EXCEPT !.held = Expecting(3)],
    [Right EXCEPT !.values = {Value(Field, "UNPROVEN")},
                  !.held = Expecting(None),
                  !.evidence.caps["records"].availability = "UNKNOWN"] }

(* What a normalisation may get wrong with every count still right.        *)
MovedRows ==
  LET R == RightRows
      A == Id("attachment", "a")
      Rel == Id("relation", "r")
      Out == Id("relation", "q")
  IN  { [R EXCEPT ![T1].home = L2],
        [R EXCEPT ![T2].home = L2],
        [R EXCEPT ![T1].up = T2, ![T2].up = None],
        [R EXCEPT ![T2].up = None],
        [R EXCEPT ![C2].home = T2],
        [R EXCEPT ![C2].up = None],
        [R EXCEPT ![C1].up = C2],
        [R EXCEPT ![C1].home = T2, ![C2].home = T2],
        [R EXCEPT ![A].home = T2],
        [R EXCEPT ![F].up = None],
        [R EXCEPT ![S].up = F, ![F].up = None],
        [R EXCEPT ![L1].home = F],
        [R EXCEPT ![L2].home = W],
        [R EXCEPT ![T2].raw = <<"raw", "elsewhere">>],
        [R EXCEPT ![T2].src = "t1"],
        [R EXCEPT ![T2].src = "t3"],
        [R EXCEPT ![Rel].ends = Ends(T2, T1, "t1", "t2", "RESOLVED")],
        [R EXCEPT ![Rel].ends = Ends(T1, None, "t1", "t2", "UNRESOLVED")],
        [R EXCEPT ![Out].ends = Ends(T1, T2, "t1", "x", "RESOLVED")] }

Slips ==
  { [Right EXCEPT !.rows = rows] : rows \in MovedRows }
  \union
  { [Right EXCEPT !.values = {Value(Field, "INVALID")}],
    [Right EXCEPT !.values = {Value(T1, "VALID")}],
    [Right EXCEPT !.evidence.caps = [c \in {"records"} |-> Cap("AVAILABLE")]] }

(* Another backup, of when there was less: a Workspace, a Space, a List    *)
(* and a Task without attachments.                                         *)
LessRows == [i \in {W, S, L1, T1} |-> RightRows[i]]

LessKinds == {LessRows[i].kind : i \in DOMAIN LessRows}

Less ==
  [evidence |-> [index |-> [k \in {SourceKey(LessRows[i]) : i \in DOMAIN LessRows} |->
                              Index[k]],
                 tally |-> Tally(LessRows, LessKinds), nested |-> 0,
                 caps |-> Caps],
   rows |-> LessRows, values |-> {}, held |-> [a \in {} |-> None]]

MCSpares == {Right, Less}

MCInputs == {Right, Less} \union OtherRight \union Slips

MCOrder == <<"a", "b">>
=============================================================================
