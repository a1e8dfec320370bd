---------------------------- MODULE ClickUpProofs ----------------------------
(***************************************************************************)
(* What a ClickUp snapshot that loads holds, for any Workspace, page size  *)
(* and number of attempts, pages and faults: ClickUpIsWhole.               *)
(*                                                                         *)
(* The inductive invariant is ScanInv.  While the scan goes on, and again  *)
(* once its index is made:                                                 *)
(*   Queue          what may be asked in this phase;                       *)
(*   LedgerLearned  what an answer mentions is known, and is the source's  *)
(*                  unless it was edited;                                  *)
(*   Said           what is known was said in an answer;                   *)
(*   Details        the detail of a Task is asked for once, CommentsOnce   *)
(*                  and a comment comes in one place;                      *)
(*   Truthful       what is remembered of an object is so, unless the      *)
(*                  source was edited;                                     *)
(*   Reaches        and what is not known yet a request in the queue, or a *)
(*                  later phase, will bring.                               *)
(* At the end of the last phase the queue is empty: LedgerLearned and Said *)
(* make the index what the answers mention, Reaches and Truthful make it   *)
(* the Workspace, and of that portable.go makes an archive.  The ledger    *)
(* and the files are those of Recording, by refinement.                    *)
(***************************************************************************)
EXTENDS ExtractionProofs

Things == DOMAIN ClickUpKindOf
Tasks == {o \in Things : ClickUpKindOf[o] = "task"}
Comments == {o \in Things : ClickUpKindOf[o] = "comment"}
Known == DOMAIN known
Queued == Elements(queue)

Listings == {"list-spaces", "list-folders", "list-lists", "list-fields",
             "list-tasks", "list-comments", "list-replies"}
Ops == Listings \cup {"get-task"}

(* The kind of what is in an answer.                                       *)
KindIn(op) ==
  CASE op = "list-spaces" -> "space"
    [] op = "list-folders" -> "folder"
    [] op = "list-lists" -> "list"
    [] op = "list-fields" -> "field"
    [] op \in {"list-tasks", "get-task"} -> "task"
    [] op \in {"list-comments", "list-replies"} -> "comment"

(* What is asked in a phase, and the phases in their order.                *)
OpsIn(p) ==
  CASE p = "spaces" -> {"list-spaces"}
    [] p = "in-spaces" -> {"list-folders", "list-lists"}
    [] p = "in-folders" -> {"list-lists"}
    [] p = "fields" -> {"list-fields"}
    [] p = "tasks" -> {"list-tasks"}
    [] p = "details" -> {"get-task", "list-comments", "list-replies"}

Phases == {"spaces", "in-spaces", "in-folders", "fields", "tasks", "details"}

Rank(p) ==
  CASE p = "spaces" -> 0
    [] p = "in-spaces" -> 1
    [] p = "in-folders" -> 2
    [] p = "fields" -> 3
    [] p = "tasks" -> 4
    [] p = "details" -> 5

(* The phase in which an object is found.                                  *)
PhaseOf(o) ==
  LET kind == ClickUpKindOf[o] IN
  CASE kind = "space" -> "spaces"
    [] kind = "folder" -> "in-spaces"
    [] kind = "list" /\ ClickUpKindOf[ClickUpListedIn[o]] = "space" -> "in-spaces"
    [] kind = "list" /\ ClickUpKindOf[ClickUpListedIn[o]] = "folder" -> "in-folders"
    [] kind = "field" -> "fields"
    [] kind = "task" -> "tasks"
    [] kind \in {"comment", "attachment", "relationship"} -> "details"

Roots == [id : Things, replies : Nat]

Calls ==
  [op : Ops \cup {"refused"}, of : Things, archived : BOOLEAN, page : Nat,
   seen : SUBSET Things, roots : Seq(Roots), expected : Nat]

(* What may be asked now.                                                  *)
MayAsk(r) ==
  /\ r.op \in OpsIn(phase) \cup {"refused"}
  /\ r.op = "list-fields" => r.of \in ClickUp!Locations
  /\ r.op = "get-task" => r.of \in Known /\ ClickUpKindOf[r.of] = "task"

Queue ==
  /\ queue \in Seq(Calls)
  /\ phase \in Phases
  /\ Known \subseteq Things \ {ClickUpWorkspace}
  /\ \A r \in Queued : MayAsk(r)

HangingOn(item) == ClickUp!ToSet(item.attachments) \cup item.links

(* What was learned of an answer.                                          *)
IsLearned(entry) ==
  /\ entry.request.op \in Ops
  /\ entry.items \in Seq(Elements(entry.items))
  /\ \A i \in 1..Len(entry.items) :
       LET item == entry.items[i] IN
       /\ item.id \in Known /\ ClickUpKindOf[item.id] = KindIn(entry.request.op)
       /\ HangingOn(ClickUpSource[item.id]) \subseteq HangingOn(item)
       /\ IF entry.request.op = "get-task"
            THEN HangingOn(item) \subseteq Known /\ item.id = entry.request.of
            ELSE HangingOn(item) = HangingOn(ClickUpSource[item.id])
       /\ ~edited => item = ClickUpSource[item.id]
  /\ entry.request.op = "get-task" =>
       Len(entry.items) >= 1 /\ (~edited => Len(entry.items) = 1)

IsAnswer(entry) == entry.outcome = "SUCCESS"

LedgerLearned == \A i \in 1..Len(ledger) : IsAnswer(ledger[i]) => IsLearned(ledger[i])

(* The answer that says there is this object.                              *)
Says(entry, o) ==
  /\ IsAnswer(entry)
  /\ IF ClickUpKindOf[o] \in {"attachment", "relationship"}
       THEN /\ entry.request.op = "get-task"
            /\ \E i \in 1..Len(entry.items) : o \in HangingOn(entry.items[i])
       ELSE /\ entry.request.op \in Listings
            /\ KindIn(entry.request.op) = ClickUpKindOf[o]
            /\ \E i \in 1..Len(entry.items) : entry.items[i].id = o

Said == \A o \in Known : \E i \in 1..Len(ledger) : Says(ledger[i], o)

IsDetail(entry, t) ==
  IsAnswer(entry) /\ entry.request.op = "get-task" /\ entry.request.of = t

(* The detail of every Task is asked for once.                             *)
Details ==
  /\ \A i, j \in 1..Len(queue) :
       queue[i].op = "get-task" /\ queue[j].op = "get-task" /\ queue[i].of = queue[j].of => i = j
  /\ \A i \in 1..Len(ledger) : \A t \in Things : IsDetail(ledger[i], t) =>
       /\ phase = "details"
       /\ \A r \in Queued : r.op = "get-task" => r.of # t
       /\ \A j \in 1..Len(ledger) : IsDetail(ledger[j], t) => i = j
  /\ phase = "details" =>
       \A t \in Known : ClickUpKindOf[t] = "task" =>
         \/ \E r \in Queued : r.op = "get-task" /\ r.of = t
         \/ \E i \in 1..Len(ledger) : IsDetail(ledger[i], t)

HasComments(entry) ==
  IsAnswer(entry) /\ entry.request.op \in {"list-comments", "list-replies"}

(* A comment is in one place.                                              *)
CommentsOnce ==
  \A i, k \in 1..Len(ledger) : HasComments(ledger[i]) /\ HasComments(ledger[k]) =>
    \A j \in 1..Len(ledger[i].items) : \A l \in 1..Len(ledger[k].items) :
      ledger[i].items[j].id = ledger[k].items[l].id => i = k /\ j = l

(* What is to be remembered of an object.                                  *)
Truth(o) ==
  LET kind == ClickUpKindOf[o]
      item == ClickUpSource[o]
  IN  CASE kind \in {"space", "folder", "list"} ->
             [parent |-> ClickUpListedIn[o], home |-> None, name |-> item.name]
        [] kind = "field" -> [parent |-> None, home |-> None, name |-> item.name]
        [] kind = "task" -> [parent |-> item.parent, home |-> item.home, name |-> None]
        [] kind \in {"comment", "attachment"} ->
             [parent |-> ClickUpListedIn[o], home |-> None, name |-> None]

Truthful ==
  ~edited => \A o \in Known : ClickUpKindOf[o] # "relationship" => known[o] = Truth(o)

(* What the answers to a request still have.                               *)
Lists(r, o) ==
  /\ r.op \in Listings
  /\ \E k \in 1..Len(ClickUp!AskedFor(r)) :
       ClickUp!AskedFor(r)[k] = o /\ (ClickUp!IsPaged(r) => k > r.page * PageSize)

Threads(r, o) ==
  /\ r.op = "list-comments"
  /\ ClickUpKindOf[o] = "comment" /\ ClickUpListedIn[o] \in Comments
  /\ LET root == ClickUpListedIn[o] IN
     \/ Lists(r, root)
     \/ \E i \in 1..Len(r.roots) :
          r.roots[i] = [id |-> root, replies |-> ClickUpSource[root].replies]

IsUnder(o, t) ==
  \/ o \in HangingOn(ClickUpSource[t])
  \/ ClickUpKindOf[o] = "comment" /\ ClickUpListedIn[o] = t
  \/ /\ ClickUpKindOf[o] = "comment" /\ ClickUpListedIn[o] \in Comments
     /\ ClickUpListedIn[ClickUpListedIn[o]] = t

Awaits(r, o) == Lists(r, o) \/ Threads(r, o) \/ (r.op = "get-task" /\ IsUnder(o, r.of))

Unrefused == \A r \in Queued : r.op # "refused"

Reaches ==
  ~edited /\ Unrefused =>
    \A o \in Things \ {ClickUpWorkspace} :
      \/ o \in Known
      \/ Rank(PhaseOf(o)) > Rank(phase)
      \/ PhaseOf(o) = phase /\ \E r \in Queued : Awaits(r, o)

Scanned ==
  Queue /\ LedgerLearned /\ Said /\ Details /\ CommentsOnce /\ Truthful /\ Reaches

(* Once it is completed nothing more is asked; what was given up says      *)
(* nothing.                                                                *)
IsCompleted == place.run # <<>> /\ place.run[1].status = "COMPLETE"

Ended ==
  closing \in {"inventory", "ledger", "run", "rename", "complete"} \/ IsCompleted

Going == at \in {"request", "attempt", "sleep"}

ScanInv ==
  /\ Going \/ Ended => Scanned
  /\ at \in {"attempt", "sleep"} => queue # <<>> /\ Head(queue).op # "refused"
  /\ Ended => queue = <<>> /\ phase = "details"
  /\ IsCompleted => place.run[1].index = ClickUp!SourceObjects

-----------------------------------------------------------------------------
(* Sequences.                                                              *)
Distinct(s) == \A i, j \in 1..Len(s) : s[i] = s[j] => i = j

LEMMA AppendedDistinct ==
  ASSUME NEW A, NEW s \in Seq(A), NEW e \in A, Distinct(s), e \notin Elements(s)
  PROVE  Distinct(Append(s, e))
<1> DEFINE t == Append(s, e)
<1>1. /\ Len(t) = Len(s) + 1 /\ Len(s) \in Nat
      /\ \A i \in 1..Len(s) : t[i] = s[i]
      /\ t[Len(s) + 1] = e
  OBVIOUS
<1> HIDE DEF t
<1>2. \A i \in 1..Len(t) : i \in 1..Len(s) \/ i = Len(s) + 1
  BY <1>1
<1>3. \A i \in 1..Len(s) : t[i] # e
  BY <1>1 DEF Elements
<1>4. ASSUME NEW i \in 1..Len(t), NEW j \in 1..Len(t), t[i] = t[j]
      PROVE  i = j
  BY <1>1, <1>2, <1>3, <1>4 DEF Distinct
<1>5. Distinct(t)
  BY <1>4 DEF Distinct
<1> QED
  BY <1>5 DEF t

LEMMA SubsequenceDistinct ==
  ASSUME NEW A, NEW s \in Seq(A), Distinct(s), NEW chosen, chosen \subseteq 1..Len(s)
  PROVE  Distinct(Subsequence(s, chosen))
<1> DEFINE N == Len(s)
           g == CHOOSE f : Takes(s, chosen, N, f)
           S == {n \in Nat : n <= N =>
                   /\ g[n] \in Seq(A)
                   /\ Elements(g[n]) \subseteq {s[i] : i \in 1..n}
                   /\ Distinct(g[n])}
<1>1. N \in Nat
  OBVIOUS
<1>2. Takes(s, chosen, N, g)
  BY <1>1, Taking
<1>3. Subsequence(s, chosen) = g[N]
  BY DEF Subsequence, Takes
<1> HIDE DEF N, g
<1>4. /\ g[0] = <<>>
      /\ \A n \in 1..N : g[n] = IF n \in chosen THEN Append(g[n - 1], s[n]) ELSE g[n - 1]
  <2>1. \A n \in 0..N :
          g[n] = IF n = 0 THEN <<>>
                 ELSE IF n \in chosen THEN Append(g[n - 1], s[n]) ELSE g[n - 1]
    BY <1>2 DEF Takes
  <2>2. 0 \in 0..N /\ \A n \in 1..N : n \in 0..N /\ n # 0
    BY <1>1
  <2> QED
    BY <2>1, <2>2
<1>5. 0 \in S
  <2>1. Elements(<<>>) = {} /\ <<>> \in Seq(A) /\ Distinct(<<>>)
    BY DEF Elements, Distinct
  <2> QED
    BY <1>4, <2>1
<1>6. ASSUME NEW n \in Nat, n \in S
      PROVE  n + 1 \in S
  <2> SUFFICES ASSUME n + 1 <= N
               PROVE  /\ g[n + 1] \in Seq(A)
                      /\ Elements(g[n + 1]) \subseteq {s[i] : i \in 1..(n + 1)}
                      /\ Distinct(g[n + 1])
    OBVIOUS
  <2>1. /\ g[n] \in Seq(A) /\ Elements(g[n]) \subseteq {s[i] : i \in 1..n}
        /\ Distinct(g[n])
        /\ n + 1 \in 1..N /\ (n + 1) - 1 = n
    BY <1>1, <1>6
  <2>2. s[n + 1] \in A
    BY <2>1 DEF N
  <2>3. g[n + 1] = IF n + 1 \in chosen THEN Append(g[n], s[n + 1]) ELSE g[n]
    BY <1>4, <2>1
  <2>4. {s[i] : i \in 1..n} \cup {s[n + 1]} \subseteq {s[i] : i \in 1..(n + 1)}
    OBVIOUS
  <2>5. CASE n + 1 \in chosen
    <3>1. s[n + 1] \notin {s[i] : i \in 1..n}
      <4> SUFFICES ASSUME NEW i \in 1..n, s[i] = s[n + 1] PROVE FALSE
        OBVIOUS
      <4>1. i \in 1..Len(s) /\ n + 1 \in 1..Len(s) /\ i # n + 1
        BY <2>1 DEF N
      <4> QED
        BY <4>1 DEF Distinct
    <3>2. /\ g[n + 1] \in Seq(A)
          /\ Elements(g[n + 1]) = Elements(g[n]) \cup {s[n + 1]}
      BY <2>1, <2>2, <2>3, <2>5, Appended
    <3>3. Distinct(g[n + 1])
      BY <2>1, <2>2, <2>3, <2>5, <3>1, AppendedDistinct
    <3> QED
      BY <2>1, <2>4, <3>2, <3>3
  <2>6. CASE n + 1 \notin chosen
    BY <2>1, <2>3, <2>4, <2>6
  <2> QED
    BY <2>5, <2>6
<1> HIDE DEF S
<1>7. N \in S
  BY <1>1, <1>5, <1>6, Induction
<1> QED
  BY <1>1, <1>3, <1>7 DEF S

(* A sequence of sequences, joined as far as its definition takes it.      *)
Flattens(ss, n, g) ==
  g = [m \in 1..n |-> IF m = 1 THEN ss[m] ELSE g[m - 1] \o ss[m]]

LEMMA Flattening ==
  ASSUME NEW ss, NEW N \in Nat
  PROVE  \E g : Flattens(ss, N, g)
<1> DEFINE S == {n \in Nat : \E g : Flattens(ss, n, g)}
<1>1. 0 \in S
  <2>1. Flattens(ss, 0, [m \in 1..0 |-> <<>>])
    BY DEF Flattens
  <2> QED
    BY <2>1
<1>2. ASSUME NEW n \in Nat, n \in S
      PROVE  n + 1 \in S
  <2>1. PICK g : Flattens(ss, n, g)
    BY <1>2
  <2> DEFINE h == [m \in 1..(n + 1) |->
                     IF m = n + 1
                       THEN IF m = 1 THEN ss[m] ELSE g[n] \o ss[m]
                       ELSE g[m]]
  <2>2. Flattens(ss, n + 1, h)
    <3>1. \A m \in 1..(n + 1) : h[m] = IF m = 1 THEN ss[m] ELSE h[m - 1] \o ss[m]
      <4>1. \A m \in 1..n : h[m] = g[m]
        OBVIOUS
      <4>2. \A m \in 1..n : m # 1 => m - 1 \in 1..n
        OBVIOUS
      <4>3. \A m \in 1..n : g[m] = IF m = 1 THEN ss[m] ELSE g[m - 1] \o ss[m]
        BY <2>1 DEF Flattens
      <4>4. h[n + 1] = IF n + 1 = 1 THEN ss[n + 1] ELSE g[n] \o ss[n + 1]
        OBVIOUS
      <4>5. n + 1 # 1 => h[n] = g[n]
        OBVIOUS
      <4>6. \A m \in 1..(n + 1) : m \in 1..n \/ (m = n + 1 /\ m - 1 = n)
        OBVIOUS
      <4> HIDE DEF h
      <4> QED
        BY <4>1, <4>2, <4>3, <4>4, <4>5, <4>6
    <3>2. h = [m \in 1..(n + 1) |-> h[m]]
      OBVIOUS
    <3> HIDE DEF h
    <3> QED
      BY <3>1, <3>2 DEF Flattens
  <2> HIDE DEF h
  <2> QED
    BY <2>2
<1> HIDE DEF S
<1>3. Nat \subseteq S
  BY <1>1, <1>2, Induction
<1> USE DEF S
<1> QED
  BY <1>3

LEMMA FlattenIs ==
  ASSUME NEW A, NEW ss \in Seq(Seq(A))
  PROVE  /\ ClickUp!FlattenSeq(ss) \in Seq(A)
         /\ Elements(ClickUp!FlattenSeq(ss)) = UNION {Elements(ss[i]) : i \in 1..Len(ss)}
<1> DEFINE N == Len(ss)
           g == CHOOSE f : Flattens(ss, N, f)
           S == {n \in Nat : n + 1 <= N =>
                   /\ g[n + 1] \in Seq(A)
                   /\ Elements(g[n + 1]) = UNION {Elements(ss[i]) : i \in 1..(n + 1)}}
<1>1. N \in Nat /\ \A i \in 1..N : ss[i] \in Seq(A)
  OBVIOUS
<1>2. CASE N = 0
  <2>1. ss = <<>> /\ 1..Len(ss) = {}
    BY <1>2
  <2>2. ClickUp!FlattenSeq(ss) = <<>>
    BY <2>1 DEF ClickUp!FlattenSeq
  <2>3. UNION {Elements(ss[i]) : i \in 1..Len(ss)} = {}
    BY <2>1
  <2> QED
    BY <2>2, <2>3, Nothing
<1>3. CASE N # 0
  <2>1. Flattens(ss, N, g)
    BY <1>1, Flattening
  <2>2. ClickUp!FlattenSeq(ss) = g[N]
    BY <1>3 DEF ClickUp!FlattenSeq, Flattens
  <2> HIDE DEF g
  <2>3. \A m \in 1..N : g[m] = IF m = 1 THEN ss[m] ELSE g[m - 1] \o ss[m]
    BY <2>1 DEF Flattens
  <2> HIDE DEF N
  <2>4. 0 \in S
    <3>1. 1 \in 1..N
      BY <1>1, <1>3
    <3>2. g[1] = ss[1] /\ ss[1] \in Seq(A)
      BY <1>1, <2>3, <3>1
    <3>3. 1..(0 + 1) = {1} /\ 0 + 1 = 1
      OBVIOUS
    <3>4. UNION {Elements(ss[i]) : i \in {1}} = Elements(ss[1])
      OBVIOUS
    <3>5. UNION {Elements(ss[i]) : i \in 1..(0 + 1)} = Elements(ss[1])
      BY <3>3, <3>4
    <3> QED
      BY <3>2, <3>3, <3>5
  <2>5. ASSUME NEW n \in Nat, n \in S
        PROVE  n + 1 \in S
    <3> SUFFICES ASSUME (n + 1) + 1 <= N
                 PROVE  /\ g[(n + 1) + 1] \in Seq(A)
                        /\ Elements(g[(n + 1) + 1]) =
                             UNION {Elements(ss[i]) : i \in 1..((n + 1) + 1)}
      OBVIOUS
    <3> DEFINE k == (n + 1) + 1
    <3>1. /\ g[n + 1] \in Seq(A)
          /\ Elements(g[n + 1]) = UNION {Elements(ss[i]) : i \in 1..(n + 1)}
          /\ k \in 1..N /\ k # 1 /\ k - 1 = n + 1
      BY <1>1, <2>5
    <3>2. g[k] = g[n + 1] \o ss[k] /\ ss[k] \in Seq(A)
      BY <1>1, <2>3, <3>1
    <3>3. 1..k = 1..(n + 1) \cup {k}
      OBVIOUS
    <3> HIDE DEF k
    <3>4. UNION {Elements(ss[i]) : i \in 1..k} =
            (UNION {Elements(ss[i]) : i \in 1..(n + 1)}) \cup Elements(ss[k])
      BY <3>3
    <3>5. g[k] \in Seq(A) /\ Elements(g[k]) = Elements(g[n + 1]) \cup Elements(ss[k])
      BY <3>1, <3>2, Joined
    <3>6. g[k] \in Seq(A) /\ Elements(g[k]) = UNION {Elements(ss[i]) : i \in 1..k}
      BY <3>1, <3>4, <3>5
    <3> QED
      BY <3>6 DEF k
  <2> HIDE DEF S
  <2>6. N - 1 \in S
    <3>1. N - 1 \in Nat
      BY <1>1, <1>3
    <3>2. \A n \in Nat : n \in S
      BY <2>4, <2>5, Induction, Zenon
    <3> QED
      BY <3>1, <3>2, Zenon
  <2>7. (N - 1) + 1 = N
    BY <1>1
  <2>8. g[N] \in Seq(A) /\ Elements(g[N]) = UNION {Elements(ss[i]) : i \in 1..N}
    BY <1>1, <2>6, <2>7 DEF S
  <2> QED
    BY <2>2, <2>8 DEF N
<1> QED
  BY <1>2, <1>3

-----------------------------------------------------------------------------
(* The Workspace.                                                          *)
LEMMA Bounds ==
  /\ PageSize \in Nat \ {0} /\ MaxAttempts \in Nat \ {0} /\ ClickUpMaxPages \in Nat \ {0}
  /\ None \notin Things
  /\ ClickUpWorkspace \in Things
BY WorkspaceIsOne DEF ClickUp!ClickUpAssumption, Things

LEMMA OrderIs ==
  /\ ClickUpOrder \in Seq(Things)
  /\ Elements(ClickUpOrder) = Things
  /\ Distinct(ClickUpOrder)
<1>1. /\ ClickUpOrder \in Seq(Things)
      /\ \A o \in Things : \E i \in 1..Len(ClickUpOrder) : ClickUpOrder[i] = o
      /\ \A i, j \in 1..Len(ClickUpOrder) : ClickUpOrder[i] = ClickUpOrder[j] => i = j
  BY WorkspaceIsOne DEF ClickUp!ClickUpAssumption, ClickUp!Positions, Things
<1>2. Elements(ClickUpOrder) \subseteq Things
  BY <1>1, Typed DEF Elements
<1> QED
  BY <1>1, <1>2 DEF Elements, Distinct

LEMMA KindsAre ==
  /\ \A o \in Things : ClickUpKindOf[o] \in ClickUp!Kinds
  /\ \A o \in Things : ClickUpKindOf[o] = "workspace" <=> o = ClickUpWorkspace
<1>1. ClickUpKindOf \in [Things -> ClickUp!Kinds]
  BY WorkspaceIsOne DEF ClickUp!WorkspaceAssumption, Things
<1>2. ClickUp!ObjectsOf({"workspace"}) = {ClickUpWorkspace}
  BY WorkspaceIsOne DEF ClickUp!WorkspaceAssumption
<1>3. \A o : o \in ClickUp!ObjectsOf({"workspace"}) <=>
               o \in Things /\ ClickUpKindOf[o] = "workspace"
  BY DEF ClickUp!ObjectsOf, Things
<1> QED
  BY <1>1, <1>2, <1>3

LEMMA SourceIs ==
  \A o \in Things : ClickUpSource[o] \in ClickUp!Items /\ ClickUpSource[o].id = o
BY WorkspaceIsOne DEF ClickUp!WorkspaceAssumption, Things

LEMMA ItemIs ==
  ASSUME NEW o \in Things
  PROVE  LET item == ClickUpSource[o] IN
         /\ item.id = o /\ item.replies \in Nat
         /\ item.attachments \in Seq(Things)
         /\ item.links \subseteq DOMAIN ClickUpEndsOf
BY SourceIs DEF ClickUp!Items, Things

LEMMA NotInAnything ==
  \A o \in Things : ClickUpKindOf[o] \in {"workspace", "field"} => ClickUpListedIn[o] = None
BY WorkspaceIsOne DEF ClickUp!WorkspaceAssumption, ClickUp!ObjectsOf, Things

(* What is in what.                                                        *)
LEMMA ListedInIs ==
  ASSUME NEW o \in Things
  PROVE  LET in == ClickUpListedIn[o] IN
         /\ ClickUpKindOf[o] = "space" => in = ClickUpWorkspace
         /\ ClickUpKindOf[o] = "folder" => in \in Things /\ ClickUpKindOf[in] = "space"
         /\ ClickUpKindOf[o] = "list" =>
              in \in Things /\ ClickUpKindOf[in] \in {"space", "folder"}
         /\ ClickUpKindOf[o] = "task" => in \in Things /\ ClickUpKindOf[in] = "list"
         /\ ClickUpKindOf[o] = "comment" =>
              in \in Things /\ ClickUpKindOf[in] \in {"task", "comment"}
         /\ ClickUpKindOf[o] = "attachment" => in \in Tasks
<1>1. \A x \in Things \ ClickUp!ObjectsOf({"workspace", "field", "relationship"}) :
        ClickUpListedIn[x] \in ClickUp!ObjectsOf(ClickUp!Holders(ClickUpKindOf[x]))
  BY WorkspaceIsOne DEF ClickUp!WorkspaceAssumption, Things
<1>2. ClickUpKindOf[o] \notin {"workspace", "field", "relationship"} =>
        /\ ClickUpListedIn[o] \in Things
        /\ ClickUpKindOf[ClickUpListedIn[o]] \in ClickUp!Holders(ClickUpKindOf[o])
  BY <1>1 DEF ClickUp!ObjectsOf, Things
<1>3. /\ ClickUp!Holders("space") = {"workspace"}
      /\ ClickUp!Holders("folder") = {"space"}
      /\ ClickUp!Holders("list") = {"space", "folder"}
      /\ ClickUp!Holders("task") = {"list"}
      /\ ClickUp!Holders("comment") = {"task", "comment"}
      /\ ClickUp!Holders("attachment") = {"task"}
  BY DEF ClickUp!Holders
<1> QED
  BY <1>2, <1>3, KindsAre DEF Tasks

LEMMA ArchivedAre ==
  ClickUpArchived \subseteq {o \in Things : ClickUpKindOf[o] \in {"space", "folder", "list", "task"}}
BY WorkspaceIsOne DEF ClickUp!WorkspaceAssumption, ClickUp!ObjectsOf, Things

LEMMA LocationsAre ==
  ClickUp!Locations =
    {o \in Things : ClickUpKindOf[o] \in {"workspace", "space", "folder", "list"}}
BY DEF ClickUp!Locations, ClickUp!ObjectsOf, Things

LEMMA FieldsAre ==
  {o \in Things : ClickUpKindOf[o] = "field"} =
    UNION {ClickUpFieldsOf[o] : o \in ClickUp!Locations}
BY WorkspaceIsOne DEF ClickUp!WorkspaceAssumption, ClickUp!ObjectsOf, Things

LEMMA RelationshipsAre ==
  /\ DOMAIN ClickUpEndsOf = {o \in Things : ClickUpKindOf[o] = "relationship"}
  /\ \A r \in DOMAIN ClickUpEndsOf : \E t \in Tasks : r \in ClickUpSource[t].links
<1>1. DOMAIN ClickUpEndsOf = ClickUp!ObjectsOf({"relationship"})
  BY WorkspaceIsOne DEF ClickUp!WorkspaceAssumption
<1>2. DOMAIN ClickUpEndsOf \subseteq UNION {ClickUpSource[t].links : t \in ClickUp!ObjectsOf({"task"})}
  BY WorkspaceIsOne DEF ClickUp!WorkspaceAssumption
<1>3. ClickUp!ObjectsOf({"task"}) = Tasks
  BY DEF ClickUp!ObjectsOf, Things, Tasks
<1>4. ClickUp!ObjectsOf({"relationship"}) = {o \in Things : ClickUpKindOf[o] = "relationship"}
  BY DEF ClickUp!ObjectsOf, Things
<1> QED
  BY <1>1, <1>2, <1>3, <1>4

LEMMA OnlyTasksHold ==
  \A o \in Things \ Tasks : ClickUpSource[o].attachments = <<>> /\ ClickUpSource[o].links = {}
<1>1. ClickUp!ObjectsOf({"task"}) = Tasks
  BY DEF ClickUp!ObjectsOf, Things, Tasks
<1> QED
  BY <1>1, WorkspaceIsOne DEF ClickUp!WorkspaceAssumption, Things

LEMMA TaskIs ==
  ASSUME NEW t \in Tasks
  PROVE  LET item == ClickUpSource[t] IN
         /\ item.home = ClickUpListedIn[t]
         /\ item.parent # None =>
              item.parent \in Tasks /\ ClickUpListedIn[item.parent] = ClickUpListedIn[t]
         /\ ClickUp!IsInjective(item.attachments) /\ ClickUp!IsInjective(item.values)
         /\ ClickUp!ToSet(item.attachments) =
              {a \in Things : ClickUpKindOf[a] = "attachment" /\ ClickUpListedIn[a] = t}
         /\ ClickUp!ToSet(item.values) \subseteq {o \in Things : ClickUpKindOf[o] = "field"}
<1>1. ClickUp!ObjectsOf({"task"}) = Tasks
  BY DEF ClickUp!ObjectsOf, Things, Tasks
<1>2. /\ ClickUp!ObjectsOf({"attachment"}) = {o \in Things : ClickUpKindOf[o] = "attachment"}
      /\ ClickUp!ObjectsOf({"field"}) = {o \in Things : ClickUpKindOf[o] = "field"}
  BY DEF ClickUp!ObjectsOf, Things
<1>3. LET item == ClickUpSource[t] IN
      /\ item.home = ClickUpListedIn[t]
      /\ item.parent # None =>
           item.parent \in Tasks /\ ClickUpListedIn[item.parent] = ClickUpListedIn[t]
      /\ ClickUp!IsInjective(item.attachments) /\ ClickUp!IsInjective(item.values)
      /\ ClickUp!ToSet(item.attachments) =
           {a \in ClickUp!ObjectsOf({"attachment"}) : ClickUpListedIn[a] = t}
      /\ ClickUp!ToSet(item.values) \subseteq ClickUp!ObjectsOf({"field"})
  BY <1>1, WorkspaceIsOne DEF ClickUp!WorkspaceAssumption
<1> QED
  BY <1>2, <1>3

LEMMA NoCycles == \A S \in SUBSET Tasks : S # {} => \E t \in S : ClickUpSource[t].parent \notin S
<1>1. ClickUp!ObjectsOf({"task"}) = Tasks
  BY DEF ClickUp!ObjectsOf, Things, Tasks
<1> QED
  BY <1>1, WorkspaceIsOne DEF ClickUp!WorkspaceAssumption

LEMMA RepliesAre ==
  \A c \in Comments : ClickUpListedIn[c] \in Comments =>
    /\ ClickUpListedIn[ClickUpListedIn[c]] \in Tasks
    /\ ClickUpSource[ClickUpListedIn[c]].replies > 0
<1>1. ClickUp!ObjectsOf({"task"}) = Tasks /\ ClickUp!ObjectsOf({"comment"}) = Comments
  BY DEF ClickUp!ObjectsOf, Things, Tasks, Comments
<1> QED
  BY <1>1, WorkspaceIsOne DEF ClickUp!WorkspaceAssumption

LEMMA PeopleAre == ClickUp!OnePerson({ClickUpSource[o] : o \in Tasks \cup Comments})
<1>1. ClickUp!ObjectsOf({"task"}) = Tasks /\ ClickUp!ObjectsOf({"comment"}) = Comments
  BY DEF ClickUp!ObjectsOf, Things, Tasks, Comments
<1> QED
  BY <1>1, WorkspaceIsOne DEF ClickUp!WorkspaceAssumption

-----------------------------------------------------------------------------
(* Requests and answers.                                                   *)
LEMMA ElementsAre ==
  ASSUME NEW s
  PROVE  ClickUp!ToSet(s) = {s[i] : i \in DOMAIN s}
BY DEF ClickUp!ToSet

LEMMA SortedIs ==
  ASSUME NEW S, S \subseteq Things
  PROVE  /\ ClickUp!Sorted(S) \in Seq(Things)
         /\ Elements(ClickUp!Sorted(S)) = S
         /\ Distinct(ClickUp!Sorted(S))
<1> DEFINE chosen == {i \in 1..Len(ClickUpOrder) : ClickUpOrder[i] \in S}
<1>1. ClickUp!Sorted(S) = Subsequence(ClickUpOrder, chosen)
  BY DEF ClickUp!Sorted, ClickUp!Positions, ClickUp!Subsequence, Subsequence
<1>2. chosen \subseteq 1..Len(ClickUpOrder)
  OBVIOUS
<1>3. {ClickUpOrder[i] : i \in chosen} = S
  BY OrderIs DEF Elements
<1> HIDE DEF chosen
<1>4. /\ Subsequence(ClickUpOrder, chosen) \in Seq(Things)
      /\ Elements(Subsequence(ClickUpOrder, chosen)) = {ClickUpOrder[i] : i \in chosen}
      /\ Distinct(Subsequence(ClickUpOrder, chosen))
  BY <1>2, OrderIs, SubsequenceIs, SubsequenceDistinct
<1> QED
  BY <1>1, <1>3, <1>4

(* A request that may be asked.                                            *)
IsCall(r) ==
  /\ r \in Calls /\ r.op \in Ops
  /\ r.op = "list-fields" => r.of \in ClickUp!Locations
  /\ r.op = "get-task" => r.of \in Tasks

LEMMA CallIs ==
  ASSUME NEW r, IsCall(r)
  PROVE  /\ r.op \in Ops /\ r.of \in Things /\ r.archived \in BOOLEAN /\ r.page \in Nat
         /\ r.seen \in SUBSET Things /\ r.roots \in Seq(Roots) /\ r.expected \in Nat
BY DEF IsCall, Calls

(* What it asks for.                                                       *)
Wanted(r) ==
  CASE r.op = "get-task" -> {r.of}
    [] r.op = "list-fields" -> ClickUpFieldsOf[r.of]
    [] OTHER -> {o \in Things : /\ ClickUpKindOf[o] = KindIn(r.op)
                                /\ ClickUpListedIn[o] = r.of
                                /\ IF r.archived THEN o \in ClickUpArchived
                                                  ELSE o \notin ClickUpArchived}

LEMMA WantedIs ==
  ASSUME NEW r, IsCall(r), NEW o \in Wanted(r)
  PROVE  o \in Things /\ ClickUpKindOf[o] = KindIn(r.op)
<1>1. CASE r.op = "get-task"
  BY <1>1 DEF Wanted, IsCall, Tasks, KindIn
<1>2. CASE r.op = "list-fields"
  <2>1. o \in UNION {ClickUpFieldsOf[l] : l \in ClickUp!Locations}
    BY <1>2 DEF Wanted, IsCall
  <2> QED
    BY <1>2, <2>1, FieldsAre DEF KindIn
<1>3. CASE r.op \notin {"get-task", "list-fields"}
  BY <1>3 DEF Wanted
<1> QED
  BY <1>1, <1>2, <1>3

LEMMA AskedForIs ==
  ASSUME NEW r, IsCall(r)
  PROVE  /\ ClickUp!AskedFor(r) \in Seq(Things)
         /\ Elements(ClickUp!AskedFor(r)) = Wanted(r)
         /\ r.op = "get-task" => Len(ClickUp!AskedFor(r)) = 1 /\ ClickUp!AskedFor(r)[1] = r.of
<1>1. CASE r.op = "get-task"
  <2>1. ClickUp!AskedFor(r) = <<r.of>>
    BY <1>1 DEF ClickUp!AskedFor
  <2> QED
    BY <1>1, <2>1, CallIs, OneOf DEF Wanted
<1>2. CASE r.op # "get-task"
  <2>1. \A o \in Wanted(r) : o \in Things
    BY WantedIs
  <2>2. ClickUp!AskedFor(r) = ClickUp!Sorted(Wanted(r))
    <3>1. CASE r.op = "list-fields"
      BY <3>1 DEF ClickUp!AskedFor, Wanted
    <3>2. CASE r.op # "list-fields"
      <4>1. ClickUp!AskedFor(r) = ClickUp!Listed(KindIn(r.op), r)
        BY <1>2, <3>2 DEF ClickUp!AskedFor, IsCall, Ops, Listings, KindIn
      <4>2. ClickUp!Listed(KindIn(r.op), r) =
              ClickUp!Sorted({o \in Things : /\ ClickUpKindOf[o] = KindIn(r.op)
                                             /\ ClickUpListedIn[o] = r.of
                                             /\ (o \in ClickUpArchived) = r.archived})
        BY DEF ClickUp!Listed, Things
      <4>3. Wanted(r) = {o \in Things : /\ ClickUpKindOf[o] = KindIn(r.op)
                                        /\ ClickUpListedIn[o] = r.of
                                        /\ IF r.archived THEN o \in ClickUpArchived
                                                          ELSE o \notin ClickUpArchived}
        BY <1>2, <3>2 DEF Wanted
      <4>4. r.archived = TRUE \/ r.archived = FALSE
        BY CallIs
      <4>5. ASSUME NEW o
            PROVE  ((o \in ClickUpArchived) = r.archived) <=>
                     IF r.archived THEN o \in ClickUpArchived ELSE o \notin ClickUpArchived
        <5>1. CASE r.archived = TRUE
          <6>1. r.archived
            BY <5>1
          <6>2. (o \in ClickUpArchived) = TRUE <=> o \in ClickUpArchived
            OBVIOUS
          <6> QED
            BY <5>1, <6>1, <6>2
        <5>2. CASE r.archived = FALSE
          <6>1. ~r.archived
            BY <5>2
          <6>2. (o \in ClickUpArchived) = FALSE <=> o \notin ClickUpArchived
            OBVIOUS
          <6> QED
            BY <5>2, <6>1, <6>2
        <5> QED
          BY <4>4, <5>1, <5>2
      <4>6. Wanted(r) = {o \in Things : /\ ClickUpKindOf[o] = KindIn(r.op)
                                        /\ ClickUpListedIn[o] = r.of
                                        /\ (o \in ClickUpArchived) = r.archived}
        BY <4>3, <4>5
      <4> QED
        BY <4>1, <4>2, <4>6
    <3> QED
      BY <3>1, <3>2
  <2>3. Wanted(r) \subseteq Things
    BY <2>1
  <2> QED
    BY <1>2, <2>2, <2>3, SortedIs
<1> QED
  BY <1>1, <1>2

LEMMA NextPageBegins == \A p, n \in Nat : p * n \in Nat /\ (p + 1) * n = p * n + n
OBVIOUS

(* The part of it that is on one page.                                     *)
PageOf(r) ==
  LET all == ClickUp!AskedFor(r)
      first == r.page * PageSize + 1
      last == IF first + PageSize - 1 < Len(all) THEN first + PageSize - 1 ELSE Len(all)
  IN  IF ClickUp!IsPaged(r) THEN SubSeq(all, first, last) ELSE all

LEMMA PartIs ==
  ASSUME NEW r, IsCall(r)
  PROVE  LET all == ClickUp!AskedFor(r)
             part == PageOf(r)
         IN  /\ part \in Seq(Things)
             /\ Elements(part) \subseteq Wanted(r)
             /\ r.op = "get-task" => Len(part) = 1 /\ part[1] = r.of
             /\ \A k \in 1..Len(all) :
                  (ClickUp!IsPaged(r) => k > r.page * PageSize) =>
                    \/ all[k] \in Elements(part)
                    \/ /\ ClickUp!IsPaged(r) /\ part # <<>>
                       /\ k > (r.page + 1) * PageSize
<1> DEFINE all == ClickUp!AskedFor(r)
           before == r.page * PageSize
           end == before + 1 + PageSize - 1
           last == IF end < Len(all) THEN end ELSE Len(all)
           cut == SubSeq(all, before + 1, last)
           part == PageOf(r)
<1>1. /\ all \in Seq(Things) /\ Len(all) \in Nat /\ Elements(all) = Wanted(r)
      /\ r.op = "get-task" => Len(all) = 1 /\ all[1] = r.of
  <2>1. all \in Seq(Things) /\ Elements(all) = Wanted(r) /\ (r.op = "get-task" => Len(all) = 1 /\ all[1] = r.of)
    BY AskedForIs
  <2> HIDE DEF all
  <2> QED
    BY <2>1
<1>5. before \in Nat /\ PageSize \in Nat \ {0}
  BY CallIs, Bounds, NextPageBegins
<1>6. (r.page + 1) * PageSize = before + PageSize
  BY CallIs, Bounds, NextPageBegins
<1>2. part = IF ClickUp!IsPaged(r) THEN cut ELSE all
  BY DEF PageOf
<1>3. CASE ~ClickUp!IsPaged(r)
  <2> HIDE DEF all
  <2>1. \A k \in 1..Len(all) : all[k] \in Elements(all)
    BY DEF Elements
  <2>2. part = all
    BY <1>2, <1>3
  <2> QED
    BY <1>1, <1>3, <2>1, <2>2 DEF all
<1>4. CASE ClickUp!IsPaged(r)
  <2>1. part = cut /\ r.op # "get-task"
    BY <1>2, <1>4 DEF ClickUp!IsPaged
  <2> HIDE DEF all, before, part
  <2>2. /\ end = before + PageSize /\ end \in Nat /\ last \in Nat
        /\ last <= Len(all) /\ last <= end
        /\ end < Len(all) => last = end
        /\ end >= Len(all) => last = Len(all)
    BY <1>1, <1>5
  <2> HIDE DEF end, last
  <2>3. /\ cut \in Seq(Things)
        /\ Len(cut) = IF before + 1 <= last THEN last - before ELSE 0
        /\ \A i \in 1..Len(cut) : cut[i] = all[before + i] /\ before + i \in 1..Len(all)
    <3>1. \A i \in (before + 1)..last : i \in 1..Len(all)
      BY <1>1, <1>5, <2>2
    <3>2. cut \in Seq(Things)
      BY <1>1, <1>5, <2>2, <3>1
    <3>3. /\ Len(cut) = IF before + 1 <= last THEN last - (before + 1) + 1 ELSE 0
          /\ \A i \in 1..Len(cut) : cut[i] = all[(before + 1) + i - 1]
      BY <1>1, <1>5, <2>2
    <3> HIDE DEF cut
    <3>4. \A i \in 1..Len(cut) : (before + 1) + i - 1 = before + i /\ before + i \in 1..Len(all)
      BY <1>1, <1>5, <2>2, <3>3
    <3> QED
      BY <1>1, <1>5, <2>2, <3>2, <3>3, <3>4
  <2> HIDE DEF cut
  <2>4. Elements(cut) \subseteq Elements(all)
    BY <2>3 DEF Elements
  <2>5. ASSUME NEW k \in 1..Len(all), k > before
        PROVE  all[k] \in Elements(cut) \/ (cut # <<>> /\ k > before + PageSize)
    <3>1. CASE k <= last
      <4>1. k - before \in 1..Len(cut) /\ before + (k - before) = k
        BY <1>1, <1>5, <2>2, <2>3, <2>5, <3>1
      <4>2. cut[k - before] = all[k]
        BY <2>3, <4>1
      <4> QED
        BY <4>1, <4>2 DEF Elements
    <3>2. CASE ~(k <= last)
      <4>1. last = end /\ k > before + PageSize
        BY <1>1, <1>5, <2>2, <2>5, <3>2
      <4>2. Len(cut) = PageSize
        BY <1>1, <1>5, <2>2, <2>3, <4>1
      <4>3. cut # <<>>
        BY <1>1, <1>5, <4>2
      <4> QED
        BY <4>1, <4>3
    <3> QED
      BY <3>1, <3>2
  <2>6. \A k \in 1..Len(all) : k > r.page * PageSize =>
          \/ all[k] \in Elements(part)
          \/ part # <<>> /\ k > (r.page + 1) * PageSize
    BY <1>6, <2>1, <2>5 DEF before
  <2>7. part \in Seq(Things) /\ Elements(part) \subseteq Wanted(r)
    BY <1>1, <2>1, <2>3, <2>4
  <2> QED
    BY <1>4, <2>1, <2>6, <2>7 DEF all, part
<1> QED
  BY <1>3, <1>4

LEMMA HonestIs ==
  ASSUME NEW r, IsCall(r)
  PROVE  LET items == ClickUp!Honest(r)
             all == ClickUp!AskedFor(r)
         IN  /\ items \in Seq({ClickUpSource[o] : o \in Wanted(r)})
             /\ r.op = "get-task" => Len(items) = 1 /\ items[1] = ClickUpSource[r.of]
             /\ \A k \in 1..Len(all) :
                  (ClickUp!IsPaged(r) => k > r.page * PageSize) =>
                    \/ ClickUpSource[all[k]] \in Elements(items)
                    \/ /\ ClickUp!IsPaged(r) /\ items # <<>>
                       /\ k > (r.page + 1) * PageSize
<1> DEFINE items == ClickUp!Honest(r)
           all == ClickUp!AskedFor(r)
           part == PageOf(r)
<1>1. /\ part \in Seq(Things) /\ Elements(part) \subseteq Wanted(r)
      /\ r.op = "get-task" => Len(part) = 1 /\ part[1] = r.of
      /\ \A k \in 1..Len(all) :
           (ClickUp!IsPaged(r) => k > r.page * PageSize) =>
             \/ all[k] \in Elements(part)
             \/ ClickUp!IsPaged(r) /\ part # <<>> /\ k > (r.page + 1) * PageSize
  BY PartIs
<1>0. /\ part \in Seq(Things) /\ Elements(part) \subseteq Wanted(r)
      /\ r.op = "get-task" => Len(part) = 1 /\ part[1] = r.of
  BY PartIs
<1>2. items = [i \in 1..Len(part) |-> ClickUpSource[part[i]]]
  BY DEF ClickUp!Honest, PageOf, ClickUp!Positions
<1> HIDE DEF items, all, part
<1>3. Len(part) \in Nat /\ \A i \in 1..Len(part) : part[i] \in Wanted(r)
  BY <1>0 DEF Elements
<1>4. /\ items \in Seq({ClickUpSource[o] : o \in Wanted(r)})
      /\ Len(items) = Len(part)
  BY <1>2, <1>3
<1>5. \A i \in 1..Len(items) : items[i] = ClickUpSource[part[i]]
  BY <1>2, <1>4
<1>6. \A o \in Elements(part) : ClickUpSource[o] \in Elements(items)
  BY <1>4, <1>5 DEF Elements
<1>7. r.op = "get-task" => Len(items) = 1 /\ items[1] = ClickUpSource[r.of]
  <2> SUFFICES ASSUME r.op = "get-task" PROVE Len(items) = 1 /\ items[1] = ClickUpSource[r.of]
    OBVIOUS
  <2>1. Len(part) = 1 /\ part[1] = r.of
    BY <1>0
  <2> QED
    BY <1>2, <2>1
<1>8. part # <<>> => items # <<>>
  BY <1>0, <1>4
<1> QED
  BY <1>1, <1>4, <1>6, <1>7, <1>8 DEF items, all, part

(* What hangs on a Task.                                                   *)
Hangable == {o \in Things : ClickUpKindOf[o] \in {"attachment", "relationship"}}

LEMMA AttachedAre ==
  \A A : \A s \in Seq(A) : ClickUp!ToSet(s) = Elements(s)
BY DEF ClickUp!ToSet, Elements

LEMMA HangingIs ==
  ASSUME NEW o \in Things
  PROVE  /\ HangingOn(ClickUpSource[o]) \subseteq Hangable
         /\ o \notin Tasks => HangingOn(ClickUpSource[o]) = {}
<1>1. ClickUpSource[o].links \subseteq Hangable
  BY ItemIs, RelationshipsAre DEF Hangable
<1>2. CASE o \in Tasks
  <2>1. ClickUp!ToSet(ClickUpSource[o].attachments) \subseteq Hangable
    BY <1>2, TaskIs DEF Hangable
  <2> QED
    BY <1>1, <1>2, <2>1 DEF HangingOn
<1>3. CASE o \notin Tasks
  <2>1. ClickUpSource[o].attachments = <<>> /\ ClickUpSource[o].links = {}
    BY <1>3, OnlyTasksHold
  <2>2. ClickUp!ToSet(<<>>) = {}
    BY DEF ClickUp!ToSet
  <2>3. HangingOn(ClickUpSource[o]) = {}
    BY <2>1, <2>2 DEF HangingOn
  <2> QED
    BY <2>3
<1> QED
  BY <1>2, <1>3

(* What an answer may hold, edited or not.                                 *)
IsItem(r, item) ==
  /\ item.id \in Things /\ ClickUpKindOf[item.id] = KindIn(r.op)
  /\ item.replies \in Nat
  /\ HangingOn(ClickUpSource[item.id]) \subseteq HangingOn(item)
  /\ IF r.op = "get-task"
       THEN HangingOn(item) \subseteq Hangable /\ item.id = r.of
       ELSE HangingOn(item) = HangingOn(ClickUpSource[item.id])

Plausible(r, items) ==
  /\ items \in Seq(Elements(items))
  /\ \A item \in Elements(items) : IsItem(r, item)
  /\ r.op = "get-task" => Len(items) >= 1 /\ \A i \in 1..Len(items) : items[i] = items[1]

LEMMA SourceItemIs ==
  ASSUME NEW r, IsCall(r), NEW o \in Wanted(r)
  PROVE  IsItem(r, ClickUpSource[o]) /\ ClickUpSource[o] \in ClickUp!Items
<1>1. o \in Things /\ ClickUpKindOf[o] = KindIn(r.op)
  BY WantedIs
<1>2. ClickUpSource[o].id = o /\ ClickUpSource[o].replies \in Nat /\ ClickUpSource[o] \in ClickUp!Items
  BY <1>1, ItemIs, SourceIs
<1>3. HangingOn(ClickUpSource[o]) \subseteq Hangable
  BY <1>1, HangingIs
<1>4. r.op = "get-task" => o = r.of
  BY DEF Wanted
<1> QED
  BY <1>1, <1>2, <1>3, <1>4 DEF IsItem

LEMMA SingleItem ==
  ASSUME NEW s, Len(s) = 1
  PROVE  Len(s) >= 1 /\ \A i \in 1..Len(s) : s[i] = s[1]
OBVIOUS

LEMMA HonestIsPlausible ==
  ASSUME NEW r, IsCall(r)
  PROVE  /\ Plausible(r, ClickUp!Honest(r))
         /\ \A x \in Elements(ClickUp!Honest(r)) :
              x \in ClickUp!Items /\ x.id \in Wanted(r) /\ x = ClickUpSource[x.id]
<1> DEFINE items == ClickUp!Honest(r)
           A == {ClickUpSource[o] : o \in Wanted(r)}
<1>1. /\ items \in Seq(A)
      /\ r.op = "get-task" => Len(items) = 1 /\ items[1] = ClickUpSource[r.of]
  BY HonestIs
<1> HIDE DEF items
<1>2. \A x \in A : IsItem(r, x) /\ x \in ClickUp!Items /\ x.id \in Wanted(r) /\ x = ClickUpSource[x.id]
  <2> SUFFICES ASSUME NEW o \in Wanted(r), NEW x, x = ClickUpSource[o]
               PROVE  IsItem(r, x) /\ x \in ClickUp!Items /\ x.id \in Wanted(r) /\ x = ClickUpSource[x.id]
    OBVIOUS
  <2>1. o \in Things
    BY WantedIs
  <2>2. x.id = o
    BY <2>1, SourceIs
  <2> QED
    BY <2>2, SourceItemIs
<1> HIDE DEF A
<1>3. Len(items) \in Nat /\ \A i \in 1..Len(items) : items[i] \in A
  BY <1>1
<1>4. items \in Seq(Elements(items)) /\ Elements(items) \subseteq A
  BY <1>1, <1>3 DEF Elements
<1>5. r.op = "get-task" => Len(items) >= 1 /\ \A i \in 1..Len(items) : items[i] = items[1]
  BY <1>1, SingleItem
<1> QED
  BY <1>2, <1>4, <1>5 DEF Plausible, items

(* An edit leaves what an item is and what hangs on it, or adds to that.   *)
LEMMA Modified ==
  ASSUME NEW r, NEW one, IsItem(r, one), NEW x,
         x.id = one.id, x.replies \in Nat,
         \/ HangingOn(x) = HangingOn(one)
         \/ /\ r.op = "get-task"
            /\ HangingOn(one) \subseteq HangingOn(x) /\ HangingOn(x) \subseteq Hangable
  PROVE  IsItem(r, x)
<1>1. CASE HangingOn(x) = HangingOn(one)
  BY <1>1 DEF IsItem
<1>2. CASE /\ r.op = "get-task"
           /\ HangingOn(one) \subseteq HangingOn(x) /\ HangingOn(x) \subseteq Hangable
  BY <1>2 DEF IsItem
<1> QED
  BY <1>1, <1>2

(* An item of an answer that is edited.                                    *)
EditsOf(r, one) ==
  LET tasks == {o \in DOMAIN ClickUpKindOf : ClickUpKindOf[o] = "task"}
      others == {ClickUpEndsOf[l][2] : l \in DOMAIN ClickUpEndsOf}
  IN  {[one EXCEPT !.name = "other"], [one EXCEPT !.definition = "other"],
       [one EXCEPT !.home = ClickUpWorkspace], [one EXCEPT !.replies = @ + 1]}
      \cup {[one EXCEPT !.parent = p] : p \in tasks \cup others \cup {None}}
      \cup (IF r.op = "get-task"
              THEN {[one EXCEPT !.attachments = @ \o @],
                    [one EXCEPT !.people = {[id |-> p.id, name |-> "other"] : p \in @}]}
                   \cup {[one EXCEPT !.links = @ \cup {l}] : l \in DOMAIN ClickUpEndsOf}
                   \cup {[one EXCEPT !.attachments = Append(@, a)] :
                           a \in {o \in DOMAIN ClickUpKindOf : ClickUpKindOf[o] = "attachment"}}
              ELSE {})

LEMMA EditsAre ==
  ASSUME NEW r, NEW items \in ClickUp!Edits(r)
  PROVE  LET honest == ClickUp!Honest(r)
             one == Head(honest)
         IN  /\ honest # <<>>
             /\ \/ items = Append(honest, one)
                \/ r.op # "get-task" /\ items = Tail(honest)
                \/ \E x \in EditsOf(r, one) : items = [honest EXCEPT ![1] = x]
<1> DEFINE honest == ClickUp!Honest(r)
           one == Head(honest)
<1>1. CASE honest = <<>>
  BY <1>1 DEF ClickUp!Edits
<1>2. CASE honest # <<>>
  <2> DEFINE with(x) == [honest EXCEPT ![1] = x]
             tasks == {o \in DOMAIN ClickUpKindOf : ClickUpKindOf[o] = "task"}
             others == {ClickUpEndsOf[l][2] : l \in DOMAIN ClickUpEndsOf}
             attachments == {o \in DOMAIN ClickUpKindOf : ClickUpKindOf[o] = "attachment"}
  <2>1. items \in {Append(honest, one), with([one EXCEPT !.name = "other"])}
             \cup (IF r.op = "get-task" THEN {} ELSE {Tail(honest)})
             \cup (IF r.op = "list-fields"
                     THEN {with([one EXCEPT !.definition = "other"])} ELSE {})
             \cup (IF r.op \in {"list-tasks", "get-task"}
                     THEN {with([one EXCEPT !.home = ClickUpWorkspace])} \cup
                          {with([one EXCEPT !.parent = p]) : p \in tasks \cup others \cup {None}}
                     ELSE {})
             \cup (IF r.op = "list-comments"
                     THEN {with([one EXCEPT !.replies = @ + 1])} ELSE {})
             \cup (IF r.op = "get-task"
                     THEN {with([one EXCEPT !.attachments = @ \o @]),
                           with([one EXCEPT !.people = {[id |-> p.id, name |-> "other"] : p \in @}])}
                          \cup {with([one EXCEPT !.links = @ \cup {l}]) : l \in DOMAIN ClickUpEndsOf}
                          \cup {with([one EXCEPT !.attachments = Append(@, a)]) : a \in attachments}
                     ELSE {})
    BY <1>2 DEF ClickUp!Edits
  <2>2. \/ items = Append(honest, one)
        \/ r.op # "get-task" /\ items = Tail(honest)
        \/ \E x \in EditsOf(r, one) : items = with(x)
    BY <2>1 DEF EditsOf
  <2> QED
    BY <1>2, <2>2
<1> QED
  BY <1>1, <1>2

LEMMA EditedItemIs ==
  ASSUME NEW r, NEW one \in ClickUp!Items, IsItem(r, one), NEW x \in EditsOf(r, one)
  PROVE  IsItem(r, x)
<1>1. /\ one.replies \in Nat
      /\ one.attachments \in Seq(Things)
      /\ DOMAIN one = {"id", "parent", "home", "name", "definition", "replies",
                       "attachments", "links", "values", "people"}
  BY DEF ClickUp!Items, Things
<1>2. CASE x \in {[one EXCEPT !.name = "other"], [one EXCEPT !.definition = "other"],
                  [one EXCEPT !.home = ClickUpWorkspace], [one EXCEPT !.replies = @ + 1]}
  <2>1. x.id = one.id /\ x.replies \in Nat /\ x.attachments = one.attachments /\ x.links = one.links
    BY <1>1, <1>2
  <2>2. HangingOn(x) = HangingOn(one)
    BY <2>1 DEF HangingOn
  <2> QED
    BY <2>1, <2>2, Modified
<1>3. CASE \E p : x = [one EXCEPT !.parent = p]
  <2>1. x.id = one.id /\ x.replies \in Nat /\ x.attachments = one.attachments /\ x.links = one.links
    BY <1>1, <1>3
  <2>2. HangingOn(x) = HangingOn(one)
    BY <2>1 DEF HangingOn
  <2> QED
    BY <2>1, <2>2, Modified
<1>4. CASE \E ps : x = [one EXCEPT !.people = ps]
  <2>1. x.id = one.id /\ x.replies \in Nat /\ x.attachments = one.attachments /\ x.links = one.links
    BY <1>1, <1>4
  <2>2. HangingOn(x) = HangingOn(one)
    BY <2>1 DEF HangingOn
  <2> QED
    BY <2>1, <2>2, Modified
<1>5. CASE r.op = "get-task" /\ \E l \in DOMAIN ClickUpEndsOf : x = [one EXCEPT !.links = @ \cup {l}]
  <2>1. PICK l \in DOMAIN ClickUpEndsOf : x = [one EXCEPT !.links = @ \cup {l}]
    BY <1>5
  <2>2. /\ x.id = one.id /\ x.replies \in Nat /\ x.attachments = one.attachments
        /\ x.links = one.links \cup {l}
    BY <1>1, <2>1
  <2>3. l \in Hangable
    BY RelationshipsAre DEF Hangable
  <2>4. HangingOn(x) = HangingOn(one) \cup {l}
    BY <2>2 DEF HangingOn
  <2>5. HangingOn(one) \subseteq Hangable
    BY <1>5 DEF IsItem
  <2> QED
    BY <1>5, <2>2, <2>3, <2>4, <2>5, Modified
<1>6. CASE r.op = "get-task" /\ x = [one EXCEPT !.attachments = @ \o @]
  <2>1. /\ x.id = one.id /\ x.replies \in Nat /\ x.links = one.links
        /\ x.attachments = one.attachments \o one.attachments
    BY <1>1, <1>6
  <2>2. ClickUp!ToSet(x.attachments) = ClickUp!ToSet(one.attachments)
    <3> DEFINE s == one.attachments
    <3>1. s \in Seq(Things) /\ x.attachments = s \o s
      BY <1>1, <2>1
    <3> HIDE DEF s
    <3>2. s \o s \in Seq(Things) /\ Elements(s \o s) = Elements(s) \cup Elements(s)
      BY <3>1, Joined
    <3>3. ClickUp!ToSet(s \o s) = ClickUp!ToSet(s)
      BY <3>1, <3>2, AttachedAre
    <3> QED
      BY <3>1, <3>3 DEF s
  <2>3. HangingOn(x) = HangingOn(one)
    BY <2>1, <2>2 DEF HangingOn
  <2> QED
    BY <2>1, <2>3, Modified
<1>7. CASE r.op = "get-task" /\ \E a \in Things : /\ ClickUpKindOf[a] = "attachment"
                                                  /\ x = [one EXCEPT !.attachments = Append(@, a)]
  <2>1. PICK a \in Things : /\ ClickUpKindOf[a] = "attachment"
                            /\ x = [one EXCEPT !.attachments = Append(@, a)]
    BY <1>7
  <2>2. /\ x.id = one.id /\ x.replies \in Nat /\ x.links = one.links
        /\ x.attachments = Append(one.attachments, a)
    BY <1>1, <2>1
  <2>3. ClickUp!ToSet(x.attachments) = ClickUp!ToSet(one.attachments) \cup {a}
    <3> DEFINE s == one.attachments
    <3>1. s \in Seq(Things) /\ x.attachments = Append(s, a)
      BY <1>1, <2>2
    <3> HIDE DEF s
    <3>2. Append(s, a) \in Seq(Things) /\ Elements(Append(s, a)) = Elements(s) \cup {a}
      BY <3>1, Appended
    <3>3. ClickUp!ToSet(Append(s, a)) = ClickUp!ToSet(s) \cup {a}
      BY <3>1, <3>2, AttachedAre
    <3> QED
      BY <3>1, <3>3 DEF s
  <2>4. HangingOn(x) = HangingOn(one) \cup {a}
    BY <2>2, <2>3 DEF HangingOn
  <2>5. HangingOn(one) \subseteq Hangable /\ a \in Hangable
    BY <1>7, <2>1 DEF IsItem, Hangable
  <2> QED
    BY <1>7, <2>2, <2>4, <2>5, Modified
<1>8. \/ x \in {[one EXCEPT !.name = "other"], [one EXCEPT !.definition = "other"],
                [one EXCEPT !.home = ClickUpWorkspace], [one EXCEPT !.replies = @ + 1]}
      \/ \E p : x = [one EXCEPT !.parent = p]
      \/ \E ps : x = [one EXCEPT !.people = ps]
      \/ r.op = "get-task" /\ \E l \in DOMAIN ClickUpEndsOf : x = [one EXCEPT !.links = @ \cup {l}]
      \/ r.op = "get-task" /\ x = [one EXCEPT !.attachments = @ \o @]
      \/ r.op = "get-task" /\ \E a \in Things : /\ ClickUpKindOf[a] = "attachment"
                                                /\ x = [one EXCEPT !.attachments = Append(@, a)]
  BY DEF EditsOf, Things
<1> QED
  BY <1>2, <1>3, <1>4, <1>5, <1>6, <1>7, <1>8

LEMMA OwnElements ==
  ASSUME NEW A, NEW s \in Seq(A)
  PROVE  s \in Seq(Elements(s)) /\ Elements(s) \subseteq A
<1>1. Len(s) \in Nat /\ \A i \in 1..Len(s) : s[i] \in A /\ s[i] \in Elements(s)
  BY DEF Elements
<1> QED
  BY <1>1 DEF Elements

LEMMA FirstReplaced ==
  ASSUME NEW s, s \in Seq(Elements(s)), s # <<>>, NEW x, NEW t, t = [s EXCEPT ![1] = x]
  PROVE  /\ t \in Seq(Elements(t)) /\ Len(t) = Len(s)
         /\ Elements(t) \subseteq Elements(s) \cup {x}
         /\ t[1] = x
<1>1. Len(s) \in Nat /\ Len(s) >= 1 /\ s = [i \in 1..Len(s) |-> s[i]]
  OBVIOUS
<1>2. t = [i \in 1..Len(s) |-> IF i = 1 THEN x ELSE s[i]]
  BY <1>1
<1>3. \A i \in 1..Len(s) : t[i] = IF i = 1 THEN x ELSE s[i]
  BY <1>2
<1>4. t \in Seq(Elements(s) \cup {x}) /\ Len(t) = Len(s)
  <2>1. \A i \in 1..Len(s) : (IF i = 1 THEN x ELSE s[i]) \in Elements(s) \cup {x}
    BY DEF Elements
  <2> QED
    BY <1>1, <1>2, <2>1
<1>5. t \in Seq(Elements(t))
  BY <1>4, OwnElements
<1> QED
  BY <1>1, <1>3, <1>4, <1>5 DEF Elements

LEMMA EditedIsPlausible ==
  ASSUME NEW r, IsCall(r), NEW items \in ClickUp!Edits(r)
  PROVE  Plausible(r, items)
<1> DEFINE honest == ClickUp!Honest(r)
           one == Head(honest)
<1>1. Plausible(r, honest) /\ \A x \in Elements(honest) : x \in ClickUp!Items
  BY HonestIsPlausible
<1>3. CASE honest # <<>>
  <2> HIDE DEF honest
  <2>1. /\ honest \in Seq(Elements(honest))
        /\ \A item \in Elements(honest) : IsItem(r, item)
        /\ one \in Elements(honest) /\ one = honest[1]
        /\ r.op = "get-task" => Len(honest) >= 1 /\ \A i \in 1..Len(honest) : honest[i] = honest[1]
    <3>1. honest \in Seq(Elements(honest))
      BY <1>1 DEF Plausible
    <3>2. one \in Elements(honest) /\ one = honest[1]
      BY <1>3, <3>1
    <3> QED
      BY <1>1, <3>1, <3>2 DEF Plausible
  <2>2. CASE items = Append(honest, one)
    <3>1. items \in Seq(Elements(honest)) /\ Elements(items) = Elements(honest) \cup {one}
      BY <2>1, <2>2, Appended
    <3>2. Elements(items) = Elements(honest)
      BY <2>1, <3>1
    <3>3. r.op = "get-task" => Len(items) >= 1 /\ \A i \in 1..Len(items) : items[i] = items[1]
      <4>1. /\ Len(honest) \in Nat /\ Len(items) = Len(honest) + 1
            /\ \A i \in 1..Len(honest) : items[i] = honest[i]
            /\ items[Len(honest) + 1] = one
        BY <2>1, <2>2
      <4>2. \A i \in 1..Len(items) : i \in 1..Len(honest) \/ i = Len(honest) + 1
        BY <4>1
      <4>3. Len(honest) >= 1 => 1 \in 1..Len(honest)
        BY <4>1
      <4> QED
        BY <2>1, <4>1, <4>2, <4>3
    <3> QED
      BY <2>1, <3>1, <3>2, <3>3 DEF Plausible
  <2>3. CASE r.op # "get-task" /\ items = Tail(honest)
    <3>1. items \in Seq(Elements(honest)) /\ Elements(items) \subseteq Elements(honest)
      BY <1>3, <2>1, <2>3, Split
    <3>2. items \in Seq(Elements(items))
      BY <3>1 DEF Elements
    <3> QED
      BY <2>1, <2>3, <3>1, <3>2 DEF Plausible
  <2>4. CASE \E x \in EditsOf(r, one) : items = [honest EXCEPT ![1] = x]
    <3>1. PICK x \in EditsOf(r, one) : items = [honest EXCEPT ![1] = x]
      BY <2>4
    <3>2. /\ items \in Seq(Elements(items)) /\ Len(items) = Len(honest)
          /\ Elements(items) \subseteq Elements(honest) \cup {x}
          /\ items[1] = x
      BY <1>3, <2>1, <3>1, FirstReplaced
    <3>3. IsItem(r, x)
      <4>1. one \in ClickUp!Items /\ IsItem(r, one)
        BY <1>1, <2>1
      <4> HIDE DEF one
      <4> QED
        BY <4>1, EditedItemIs
    <3>4. r.op = "get-task" => Len(items) = 1
      <4>1. r.op = "get-task" => Len(honest) = 1
        BY HonestIs DEF honest
      <4> QED
        BY <3>2, <4>1
    <3>5. r.op = "get-task" => Len(items) >= 1 /\ \A i \in 1..Len(items) : items[i] = items[1]
      BY <3>4, SingleItem
    <3> QED
      BY <2>1, <3>2, <3>3, <3>5 DEF Plausible
  <2>5. \/ items = Append(honest, one)
        \/ r.op # "get-task" /\ items = Tail(honest)
        \/ \E x \in EditsOf(r, one) : items = [honest EXCEPT ![1] = x]
    BY <1>3, EditsAre DEF honest
  <2> QED
    BY <2>2, <2>3, <2>4, <2>5
<1>4. honest # <<>>
  BY EditsAre
<1> QED
  BY <1>3, <1>4

(* A page the list had before, or what is listed elsewhere.                *)
LEMMA CirclingIsPlausible ==
  ASSUME NEW r, IsCall(r), ClickUp!IsPaged(r), NEW items \in ClickUp!Circling(r)
  PROVE  Plausible(r, items)
<1>1. r.op # "get-task" /\ r.op \in {"list-tasks", "list-comments"}
  BY DEF ClickUp!IsPaged
<1>2. CASE \E p \in 0..r.page : items = ClickUp!Honest([r EXCEPT !.page = p])
  <2>1. PICK p \in 0..r.page : items = ClickUp!Honest([r EXCEPT !.page = p])
    BY <1>2
  <2> DEFINE q == [r EXCEPT !.page = p]
  <2>2. q \in Calls /\ q.op = r.op /\ q.of = r.of
    BY DEF IsCall, Calls
  <2>3. items = ClickUp!Honest(q)
    BY <2>1
  <2> HIDE DEF q
  <2>4. IsCall(q)
    BY <1>1, <2>2 DEF IsCall
  <2>5. Plausible(q, items)
    BY <2>3, <2>4, HonestIsPlausible
  <2> QED
    BY <2>2, <2>5 DEF Plausible, IsItem
<1>3. CASE \E o \in Things : /\ ClickUpKindOf[o] = KindIn(r.op)
                            /\ items = <<[ClickUpSource[o] EXCEPT !.home = r.of]>>
  <2>1. PICK o \in Things : /\ ClickUpKindOf[o] = KindIn(r.op)
                            /\ items = <<[ClickUpSource[o] EXCEPT !.home = r.of]>>
    BY <1>3
  <2> DEFINE one == ClickUpSource[o]
             x == [ClickUpSource[o] EXCEPT !.home = r.of]
  <2>2. one \in ClickUp!Items /\ one.id = o
    BY ItemIs, SourceIs
  <2>3. /\ x.id = o /\ x.replies \in Nat
        /\ x.attachments = one.attachments /\ x.links = one.links
    BY <2>2 DEF ClickUp!Items
  <2>4. items = <<x>>
    BY <2>1
  <2> HIDE DEF x
  <2>5. HangingOn(x) = HangingOn(ClickUpSource[o])
    BY <2>3 DEF HangingOn
  <2>6. IsItem(r, x)
    BY <1>1, <2>1, <2>3, <2>5 DEF IsItem
  <2>7. items \in Seq({x}) /\ Elements(items) = {x}
    BY <2>4, Singles
  <2> QED
    BY <1>1, <2>6, <2>7 DEF Plausible
<1>4. /\ r.op = "list-tasks" => KindIn(r.op) = "task"
      /\ r.op = "list-comments" => KindIn(r.op) = "comment"
  BY DEF KindIn
<1> QED
  BY <1>1, <1>2, <1>3, <1>4 DEF ClickUp!Circling, Things

-----------------------------------------------------------------------------
(* What is learned of an answer, and what it leads to.                     *)
Map(f, s) == [i \in 1..Len(s) |-> f[s[i]]]

LEMMA Mapped ==
  ASSUME NEW s, Len(s) \in Nat, NEW f
  PROVE  /\ Len(Map(f, s)) = Len(s)
         /\ \A i \in 1..Len(s) : Map(f, s)[i] = f[s[i]]
         /\ Elements(Map(f, s)) = {f[x] : x \in Elements(s)}
         /\ \A B : (\A x \in Elements(s) : f[x] \in B) => Map(f, s) \in Seq(B)
<1> DEFINE t == Map(f, s)
<1>0. t = [i \in 1..Len(s) |-> f[s[i]]]
  BY DEF Map
<1> HIDE DEF t
<1>1. Len(t) = Len(s)
  BY <1>0
<1>2. \A i \in 1..Len(t) : t[i] = f[s[i]]
  BY <1>0, <1>1
<1>3. Elements(t) = {f[x] : x \in Elements(s)}
  BY <1>1, <1>2 DEF Elements
<1>4. ASSUME NEW B, \A x \in Elements(s) : f[x] \in B
      PROVE  t \in Seq(B)
  <2>1. \A i \in 1..Len(s) : f[s[i]] \in B
    BY <1>4 DEF Elements
  <2> QED
    BY <1>0, <2>1
<1> QED
  BY <1>1, <1>2, <1>3, <1>4 DEF t

IdsOf(items) == {items[i].id : i \in 1..Len(items)}

(* The objects that an answer names.                                       *)
Brought(r, items) ==
  IF r.op = "get-task" THEN HangingOn(items[1]) ELSE IdsOf(items)

LEMMA BroughtIs ==
  ASSUME NEW r, IsCall(r), NEW items, Plausible(r, items), NEW o \in Brought(r, items)
  PROVE  /\ o \in Things
         /\ IF r.op = "get-task" THEN o \in Hangable ELSE ClickUpKindOf[o] = KindIn(r.op)
<1>1. CASE r.op = "get-task"
  <2>1. Len(items) >= 1 /\ items \in Seq(Elements(items))
    BY <1>1 DEF Plausible
  <2>2. items[1] \in Elements(items)
    BY <2>1 DEF Elements
  <2>3. HangingOn(items[1]) \subseteq Hangable
    BY <1>1, <2>2 DEF Plausible, IsItem
  <2> QED
    BY <1>1, <2>3 DEF Brought, Hangable
<1>2. CASE r.op # "get-task"
  BY <1>2 DEF Brought, IdsOf, Plausible, IsItem, Elements
<1> QED
  BY <1>1, <1>2

(* What is remembered of one of these items.                               *)
IsEntry(r, items, o, x) ==
  \E i \in 1..Len(items) : items[i].id = o /\ x = ClickUp!Entry(r, items[i])

LEMMA LearnedIs ==
  ASSUME NEW r, NEW items
  PROVE  LET then == ClickUp!Learned(known, r, items) IN
         /\ DOMAIN then = Known \cup Brought(r, items)
         /\ \A o \in Known \ Brought(r, items) : then[o] = known[o]
         /\ r.op = "get-task" => \A o \in ClickUp!ToSet(items[1].attachments) :
              then[o] = [parent |-> r.of, home |-> None, name |-> None]
         /\ r.op # "get-task" =>
              \A o \in Brought(r, items) : IsEntry(r, items, o, then[o])
<1> DEFINE then == ClickUp!Learned(known, r, items)
<1>1. CASE r.op = "get-task"
  <2> DEFINE attached == ClickUp!ToSet(items[1].attachments)
             linked == items[1].links
             hangs(p) == [parent |-> p, home |-> None, name |-> None]
  <2>1. then = [o \in Known \cup attached \cup linked |->
                  IF o \in attached THEN hangs(r.of)
                  ELSE IF o \in linked THEN hangs(ClickUp!HangsOn(known, o)) ELSE known[o]]
    BY <1>1 DEF ClickUp!Learned, Known
  <2>2. Brought(r, items) = attached \cup linked
    BY <1>1 DEF Brought, HangingOn
  <2> HIDE DEF then, attached, linked
  <2>3. DOMAIN then = Known \cup Brought(r, items)
    BY <2>1, <2>2
  <2>4. \A o \in Known \ Brought(r, items) : then[o] = known[o]
    BY <2>1, <2>2
  <2>5. \A o \in attached : then[o] = [parent |-> r.of, home |-> None, name |-> None]
    BY <2>1
  <2> QED
    BY <1>1, <2>3, <2>4, <2>5 DEF then, attached
<1>2. CASE r.op # "get-task"
  <2> DEFINE first(o) == CHOOSE i \in 1..Len(items) : items[i].id = o
             ids == IdsOf(items)
  <2>1. then = [o \in Known \cup ids |->
                  IF o \in ids THEN ClickUp!Entry(r, items[first(o)]) ELSE known[o]]
    BY <1>2 DEF ClickUp!Learned, ClickUp!Positions, Known, IdsOf
  <2>2. Brought(r, items) = ids
    BY <1>2 DEF Brought
  <2>3. \A o \in ids : first(o) \in 1..Len(items) /\ items[first(o)].id = o
    BY DEF IdsOf
  <2> HIDE DEF then, ids, first
  <2>4. DOMAIN then = Known \cup Brought(r, items)
    BY <2>1, <2>2
  <2>5. \A o \in Known \ Brought(r, items) : then[o] = known[o]
    BY <2>1, <2>2
  <2>6. \A o \in Brought(r, items) : then[o] = ClickUp!Entry(r, items[first(o)])
    BY <2>1, <2>2
  <2>7. \A o \in Brought(r, items) : IsEntry(r, items, o, then[o])
    BY <2>2, <2>3, <2>6 DEF IsEntry
  <2> QED
    BY <1>2, <2>4, <2>5, <2>7 DEF then
<1> QED
  BY <1>1, <1>2

(* The source says of an object what is to be remembered of it.            *)
LEMMA EntryIsTrue ==
  ASSUME NEW r, IsCall(r), r.op # "get-task", NEW o \in Wanted(r)
  PROVE  ClickUp!Entry(r, ClickUpSource[o]) = Truth(o)
<1>1. o \in Things /\ ClickUpKindOf[o] = KindIn(r.op) /\ r.op \in Listings
  BY WantedIs DEF IsCall, Ops
<1>2. r.op # "list-fields" => ClickUpListedIn[o] = r.of
  BY DEF Wanted
<1>3. CASE r.op \in {"list-spaces", "list-folders", "list-lists"}
  <2>1. ClickUpKindOf[o] \in {"space", "folder", "list"} /\ ClickUpListedIn[o] = r.of
    BY <1>1, <1>2, <1>3 DEF KindIn
  <2>2. ClickUp!Entry(r, ClickUpSource[o]) =
          [parent |-> r.of, home |-> None, name |-> ClickUpSource[o].name]
    BY <1>3 DEF ClickUp!Entry, ClickUp!LocationOps
  <2> QED
    BY <2>1, <2>2 DEF Truth
<1>4. CASE r.op = "list-fields"
  <2>1. ClickUpKindOf[o] = "field"
    BY <1>1, <1>4 DEF KindIn
  <2> QED
    BY <1>4, <2>1 DEF ClickUp!Entry, ClickUp!LocationOps, Truth
<1>5. CASE r.op = "list-tasks"
  <2>1. ClickUpKindOf[o] = "task"
    BY <1>1, <1>5 DEF KindIn
  <2> QED
    BY <1>5, <2>1 DEF ClickUp!Entry, ClickUp!LocationOps, Truth
<1>6. CASE r.op \in {"list-comments", "list-replies"}
  <2>1. ClickUpKindOf[o] = "comment" /\ ClickUpListedIn[o] = r.of
    BY <1>1, <1>2, <1>6 DEF KindIn
  <2>2. ClickUp!Entry(r, ClickUpSource[o]) = [parent |-> r.of, home |-> None, name |-> None]
    BY <1>6 DEF ClickUp!Entry, ClickUp!LocationOps
  <2> QED
    BY <2>1, <2>2 DEF Truth
<1> QED
  BY <1>1, <1>3, <1>4, <1>5, <1>6 DEF Listings

LEMMA GetIs ==
  ASSUME NEW op \in Ops, NEW of \in Things
  PROVE  LET q == ClickUp!Get(op, of) IN
         /\ q \in Calls /\ q.op = op /\ q.of = of /\ ~q.archived /\ q.page = 0
         /\ q.roots = <<>>
<1>1. <<>> \in Seq(Roots)
  OBVIOUS
<1> QED
  BY <1>1 DEF ClickUp!Get, Calls

(* The next page.                                                          *)
NextPageOf(r, items) ==
  [r EXCEPT !.page = @ + 1, !.seen = @ \cup IdsOf(items),
            !.roots = @ \o [i \in 1..Len(items) |-> [id |-> items[i].id, replies |-> items[i].replies]]]

LEMMA NextPageIs ==
  ASSUME NEW r, IsCall(r), NEW items, Plausible(r, items)
  PROVE  LET next == NextPageOf(r, items) IN
         /\ next \in Calls
         /\ next.op = r.op /\ next.of = r.of /\ next.archived = r.archived
         /\ next.page = r.page + 1
         /\ \A i \in 1..Len(r.roots) : \E j \in 1..Len(next.roots) : next.roots[j] = r.roots[i]
         /\ \A i \in 1..Len(items) : \E j \in 1..Len(next.roots) :
              next.roots[j] = [id |-> items[i].id, replies |-> items[i].replies]
<1> DEFINE new == [i \in 1..Len(items) |-> [id |-> items[i].id, replies |-> items[i].replies]]
           old == r.roots
           next == NextPageOf(r, items)
<1>1. /\ items \in Seq(Elements(items))
      /\ \A item \in Elements(items) : item.id \in Things /\ item.replies \in Nat
  BY DEF Plausible, IsItem
<1>2. Len(items) \in Nat /\ \A i \in 1..Len(items) : items[i].id \in Things /\ items[i].replies \in Nat
  BY <1>1 DEF Elements
<1>3. new \in Seq(Roots) /\ Len(new) = Len(items)
  <2>1. \A i \in 1..Len(items) : [id |-> items[i].id, replies |-> items[i].replies] \in Roots
    BY <1>2 DEF Roots
  <2> QED
    BY <1>2, <2>1
<1>4. \A i \in 1..Len(items) : new[i] = [id |-> items[i].id, replies |-> items[i].replies]
  OBVIOUS
<1>5. old \in Seq(Roots) /\ r.seen \in SUBSET Things /\ r.page \in Nat /\ r \in Calls
  BY CallIs DEF IsCall
<1>6. IdsOf(items) \in SUBSET Things
  BY <1>2 DEF IdsOf
<1>7. /\ DOMAIN r = {"op", "of", "archived", "page", "seen", "roots", "expected"}
      /\ next = [r EXCEPT !.page = r.page + 1, !.seen = r.seen \cup IdsOf(items),
                          !.roots = old \o new]
  BY <1>5 DEF NextPageOf, Calls
<1> HIDE DEF new, old, next
<1>8. /\ old \o new \in Seq(Roots)
      /\ \A i \in 1..Len(old) : (old \o new)[i] = old[i]
      /\ \A i \in 1..Len(new) : (old \o new)[Len(old) + i] = new[i]
      /\ Len(old \o new) = Len(old) + Len(new) /\ Len(old) \in Nat /\ Len(new) \in Nat
  <2>1. Len(old) \in Nat /\ Len(new) \in Nat
    BY <1>3, <1>5
  <2>2. old \in Seq(Roots) /\ new \in Seq(Roots)
    BY <1>3, <1>5
  <2>3. /\ old \o new \in Seq(Roots)
        /\ \A i \in 1..Len(old) : (old \o new)[i] = old[i]
        /\ \A i \in 1..Len(new) : (old \o new)[Len(old) + i] = new[i]
        /\ Len(old \o new) = Len(old) + Len(new)
    BY <2>2, Concatenated
  <2> QED
    BY <2>1, <2>3
<1>9. /\ next \in Calls /\ next.op = r.op /\ next.of = r.of /\ next.archived = r.archived
      /\ next.page = r.page + 1 /\ next.roots = old \o new
  <2> DEFINE roots == old \o new
  <2>1. roots \in Seq(Roots)
    BY <1>8
  <2> HIDE DEF roots
  <2>2. next = [r EXCEPT !.page = r.page + 1, !.seen = r.seen \cup IdsOf(items), !.roots = roots]
    BY <1>7 DEF roots
  <2>4. /\ next.op = r.op /\ next.of = r.of /\ next.archived = r.archived
        /\ next.page = r.page + 1 /\ next.seen = r.seen \cup IdsOf(items)
        /\ next.roots = roots /\ next.expected = r.expected
    BY <1>7, <2>2
  <2>5. next = [op |-> next.op, of |-> next.of, archived |-> next.archived, page |-> next.page,
                seen |-> next.seen, roots |-> next.roots, expected |-> next.expected]
    BY <1>7, <2>2
  <2>6. /\ r.op \in Ops \cup {"refused"} /\ r.of \in Things /\ r.archived \in BOOLEAN
        /\ r.page + 1 \in Nat /\ r.seen \cup IdsOf(items) \in SUBSET Things /\ r.expected \in Nat
    BY <1>5, <1>6, CallIs
  <2>3. /\ next \in Calls /\ next.op = r.op /\ next.of = r.of /\ next.archived = r.archived
        /\ next.page = r.page + 1 /\ next.roots = roots
    BY <2>1, <2>4, <2>5, <2>6 DEF Calls
  <2> QED
    BY <2>3 DEF roots
<1>10. /\ \A i \in 1..Len(old) : i \in 1..Len(old \o new)
       /\ \A i \in 1..Len(new) : Len(old) + i \in 1..Len(old \o new)
  BY <1>8
<1>11. \A i \in 1..Len(old) : \E j \in 1..Len(next.roots) : next.roots[j] = old[i]
  BY <1>8, <1>9, <1>10
<1>12. \A i \in 1..Len(items) : \E j \in 1..Len(next.roots) :
         next.roots[j] = [id |-> items[i].id, replies |-> items[i].replies]
  BY <1>3, <1>4, <1>8, <1>9, <1>10
<1> QED
  BY <1>9, <1>11, <1>12 DEF old, next

LEMMA MoreOfIs ==
  ASSUME NEW r, IsCall(r), NEW items, Plausible(r, items)
  PROVE  LET next == NextPageOf(r, items)
             more == ClickUp!MoreOf(r, items)
         IN  /\ more \in Seq(Calls) /\ Len(more) = 1
             /\ \A q \in Elements(more) : q.op \in {r.op, "refused"} /\ q.of = r.of
             /\ more[1].op # "refused" => Elements(more) = {next}
<1> DEFINE next == NextPageOf(r, items)
           stop == [next EXCEPT !.op = "refused"]
<1>1. /\ next \in Calls /\ next.op = r.op /\ next.of = r.of
  BY NextPageIs
<1>2. ClickUp!MoreOf(r, items) = IF next.page < ClickUpMaxPages THEN <<next>> ELSE <<stop>>
  BY DEF ClickUp!MoreOf, NextPageOf, IdsOf, ClickUp!Positions
<1> HIDE DEF next
<1>3. stop \in Calls /\ stop.op = "refused" /\ stop.of = r.of
  BY <1>1 DEF Calls
<1> HIDE DEF stop
<1>4. /\ <<next>> \in Seq(Calls) /\ Len(<<next>>) = 1 /\ <<next>>[1] = next
      /\ <<stop>> \in Seq(Calls) /\ Len(<<stop>>) = 1 /\ <<stop>>[1] = stop
      /\ Elements(<<next>>) = {next} /\ Elements(<<stop>>) = {stop}
  <2>1. Elements(<<next>>) = {next} /\ Elements(<<stop>>) = {stop}
    BY Singles
  <2> QED
    BY <1>1, <1>3, <2>1
<1>5. CASE next.page < ClickUpMaxPages
  BY <1>1, <1>2, <1>4, <1>5 DEF next
<1>6. CASE ~(next.page < ClickUpMaxPages)
  BY <1>1, <1>2, <1>3, <1>4, <1>6 DEF next
<1> QED
  BY <1>5, <1>6

LEMMA RepliesOfIs ==
  ASSUME NEW r, IsCall(r)
  PROVE  LET replies == ClickUp!RepliesOf(r) IN
         /\ replies \in Seq(Calls)
         /\ \A q \in Elements(replies) :
              q.op = "list-replies" /\ q.page = 0 /\ ~q.archived
         /\ \A i \in 1..Len(r.roots) : r.roots[i].replies > 0 =>
              \E q \in Elements(replies) : q.of = r.roots[i].id
<1> DEFINE all == r.roots
           answered == {i \in 1..Len(all) : all[i].replies > 0}
           roots == Subsequence(all, answered)
           ask == [root \in Roots |->
                     [ClickUp!Get("list-replies", root.id) EXCEPT !.expected = root.replies]]
           replies == ClickUp!RepliesOf(r)
<1>1. all \in Seq(Roots)
  BY CallIs
<1>2. replies = [i \in 1..Len(roots) |->
         [ClickUp!Get("list-replies", roots[i].id) EXCEPT !.expected = roots[i].replies]]
  BY DEF ClickUp!RepliesOf, ClickUp!Positions, ClickUp!Subsequence, Subsequence
<1> HIDE DEF all, replies
<1>3. answered \subseteq 1..Len(all)
  OBVIOUS
<1>4. \A i \in 1..Len(all) : i \in answered <=> all[i].replies > 0
  OBVIOUS
<1> HIDE DEF answered
<1>5. roots \in Seq(Roots) /\ Elements(roots) = {all[i] : i \in answered}
  BY <1>1, <1>3, SubsequenceIs
<1> HIDE DEF roots
<1>6. \A root \in Roots :
        /\ ask[root] \in Calls /\ ask[root].op = "list-replies" /\ ask[root].of = root.id
        /\ ask[root].page = 0 /\ ask[root].archived = FALSE
  <2> SUFFICES ASSUME NEW root \in Roots, NEW q,
                      q = [ClickUp!Get("list-replies", root.id) EXCEPT !.expected = root.replies]
               PROVE  /\ q \in Calls /\ q.op = "list-replies" /\ q.of = root.id
                      /\ q.page = 0 /\ ~q.archived
    OBVIOUS
  <2>1. root.id \in Things /\ root.replies \in Nat
    BY DEF Roots
  <2> DEFINE plain == ClickUp!Get("list-replies", root.id)
  <2>2. "list-replies" \in Ops
    BY DEF Ops, Listings
  <2>3. /\ plain \in Calls /\ plain.op = "list-replies" /\ plain.of = root.id
        /\ ~plain.archived /\ plain.page = 0
    BY <2>1, <2>2, GetIs
  <2>4. q = [plain EXCEPT !.expected = root.replies]
    OBVIOUS
  <2> HIDE DEF plain
  <2> QED
    BY <2>1, <2>3, <2>4 DEF Calls
<1>8. replies = Map(ask, roots)
  <2>1. \A i \in 1..Len(roots) : roots[i] \in Roots
    BY <1>5, Typed
  <2> QED
    BY <1>2, <2>1 DEF Map
<1> HIDE DEF ask
<1>10. Elements(roots) \subseteq Roots
  BY <1>5, OwnElements
<1>9. replies \in Seq(Calls) /\ Elements(replies) = {ask[x] : x \in Elements(roots)}
  <2>1. Len(roots) \in Nat
    BY <1>5
  <2>2. \A x \in Elements(roots) : ask[x] \in Calls
    BY <1>6, <1>10
  <2> QED
    BY <1>8, <2>1, <2>2, Mapped
<1>11. \A q \in Elements(replies) :
         q.op = "list-replies" /\ q.page = 0 /\ ~q.archived
  BY <1>6, <1>9, <1>10
<1>12. \A i \in 1..Len(all) : all[i].replies > 0 =>
         \E q \in Elements(replies) : q.of = all[i].id
  <2> SUFFICES ASSUME NEW i \in 1..Len(all), all[i].replies > 0
               PROVE  \E q \in Elements(replies) : q.of = all[i].id
    OBVIOUS
  <2>1. all[i] \in Elements(roots)
    BY <1>4, <1>5
  <2>2. ask[all[i]] \in Elements(replies) /\ ask[all[i]].of = all[i].id
    BY <1>6, <1>9, <1>10, <2>1
  <2> QED
    BY <2>2
<1> QED
  BY <1>9, <1>11, <1>12 DEF replies, all

(* What is asked next because of an answer.                                *)
NewCalls(r, items) ==
  CASE ClickUp!IsPaged(r) /\ items # <<>> -> ClickUp!MoreOf(r, items)
    [] r.op = "list-comments" /\ items = <<>> -> ClickUp!RepliesOf(r)
    [] r.op = "get-task" -> <<ClickUp!Get("list-comments", r.of)>>
    [] OTHER -> <<>>

LEMMA NewCallsAre ==
  ASSUME NEW r, IsCall(r), NEW items, Plausible(r, items)
  PROVE  /\ NewCalls(r, items) \in Seq(Calls)
         /\ \A q \in Elements(NewCalls(r, items)) :
              \/ q.op = "refused"
              \/ q.op = r.op /\ ClickUp!IsPaged(r)
              \/ q.op = "list-replies" /\ r.op = "list-comments"
              \/ q.op = "list-comments" /\ r.op = "get-task"
<1>1. CASE ClickUp!IsPaged(r) /\ items # <<>>
  <2>1. NewCalls(r, items) = ClickUp!MoreOf(r, items)
    BY <1>1 DEF NewCalls, ClickUp!IsPaged
  <2> QED
    BY <1>1, <2>1, MoreOfIs
<1>2. CASE r.op = "list-comments" /\ items = <<>>
  <2>1. NewCalls(r, items) = ClickUp!RepliesOf(r)
    BY <1>2 DEF NewCalls
  <2> QED
    BY <1>2, <2>1, RepliesOfIs
<1>3. CASE r.op = "get-task"
  <2> DEFINE q == ClickUp!Get("list-comments", r.of)
  <2>1. NewCalls(r, items) = <<q>>
    BY <1>3 DEF NewCalls, ClickUp!IsPaged
  <2>2. q \in Calls /\ q.op = "list-comments"
    <3>1. "list-comments" \in Ops
      BY DEF Ops, Listings
    <3> QED
      BY <3>1, CallIs, GetIs
  <2> HIDE DEF q
  <2>3. <<q>> \in Seq(Calls) /\ Elements(<<q>>) = {q}
    BY <2>2, OneOf
  <2> QED
    BY <1>3, <2>1, <2>2, <2>3
<1>4. CASE /\ ~(ClickUp!IsPaged(r) /\ items # <<>>)
           /\ ~(r.op = "list-comments" /\ items = <<>>)
           /\ r.op # "get-task"
  <2>1. NewCalls(r, items) = <<>>
    BY <1>4 DEF NewCalls
  <2>2. <<>> \in Seq(Calls) /\ Elements(<<>>) = {}
    BY Nothing
  <2> QED
    BY <2>1, <2>2
<1> QED
  BY <1>1, <1>2, <1>3, <1>4

LEMMA CallsAfter ==
  ASSUME Tail(queue) \in Seq(Calls), NEW r, NEW items
  PROVE  ClickUp!After(r, items) = NewCalls(r, items) \o Tail(queue)
<1>1. <<>> \o Tail(queue) = Tail(queue)
  OBVIOUS
<1>2. CASE ClickUp!IsPaged(r) /\ items # <<>>
  BY <1>2 DEF ClickUp!After, NewCalls, ClickUp!EndsList
<1>3. CASE r.op = "list-comments" /\ items = <<>>
  BY <1>3 DEF ClickUp!After, NewCalls, ClickUp!EndsList, ClickUp!IsPaged
<1>4. CASE r.op = "get-task"
  BY <1>4 DEF ClickUp!After, NewCalls, ClickUp!EndsList, ClickUp!IsPaged
<1>5. CASE /\ ~(ClickUp!IsPaged(r) /\ items # <<>>)
           /\ ~(r.op = "list-comments" /\ items = <<>>)
           /\ r.op # "get-task"
  <2>1. NewCalls(r, items) = <<>>
    BY <1>5 DEF NewCalls
  <2>2. ClickUp!After(r, items) = Tail(queue)
    BY <1>5 DEF ClickUp!After, ClickUp!EndsList
  <2> QED
    BY <1>1, <2>1, <2>2
<1> QED
  BY <1>2, <1>3, <1>4, <1>5

-----------------------------------------------------------------------------
(* Whatever was awaited is brought, or awaited of what is asked next.      *)
LEMMA BeginsList ==
  ASSUME NEW r, IsCall(r), r.op \in Listings, r.page = 0, NEW o \in Wanted(r)
  PROVE  Lists(r, o)
<1> DEFINE all == ClickUp!AskedFor(r)
<1>1. all \in Seq(Things) /\ Elements(all) = Wanted(r)
  BY AskedForIs
<1>2. PICK k \in 1..Len(all) : all[k] = o
  BY <1>1 DEF Elements
<1>3. r.page * PageSize = 0
  BY Bounds
<1>4. k > r.page * PageSize
  BY <1>3
<1> QED
  BY <1>2, <1>4 DEF Lists

LEMMA CommentIsWanted ==
  ASSUME NEW o \in Comments, NEW q, q.op \in {"list-comments", "list-replies"},
         q.of = ClickUpListedIn[o], ~q.archived
  PROVE  o \in Wanted(q)
<1>1. o \notin ClickUpArchived /\ ClickUpKindOf[o] = "comment" /\ o \in Things
  BY ArchivedAre DEF Comments
<1>2. KindIn(q.op) = "comment"
  BY DEF KindIn
<1>4. q.op \notin {"get-task", "list-fields"}
  OBVIOUS
<1> QED
  BY <1>1, <1>2, <1>4 DEF Wanted

LEMMA ListFollows ==
  ASSUME NEW r, IsCall(r), NEW items, items = ClickUp!Honest(r), NEW o, Lists(r, o)
  PROVE  \/ o \in Brought(r, items) /\ ClickUpSource[o] \in Elements(items)
         \/ /\ ClickUp!IsPaged(r) /\ items # <<>>
            /\ Lists(NextPageOf(r, items), o)
<1> DEFINE all == ClickUp!AskedFor(r)
           next == NextPageOf(r, items)
<1>1. PICK k \in 1..Len(all) : all[k] = o /\ (ClickUp!IsPaged(r) => k > r.page * PageSize)
  BY DEF Lists
<1>2. all \in Seq(Things) /\ r.op # "get-task" /\ r.op \in Listings
  BY AskedForIs DEF Lists, Listings
<1>3. o \in Things
  BY <1>1, <1>2
<1>4. \/ ClickUpSource[o] \in Elements(items)
      \/ ClickUp!IsPaged(r) /\ items # <<>> /\ k > (r.page + 1) * PageSize
  BY <1>1, HonestIs
<1>5. CASE ClickUpSource[o] \in Elements(items)
  <2>1. ClickUpSource[o].id = o
    BY <1>3, SourceIs
  <2>2. o \in IdsOf(items)
    BY <1>5, <2>1 DEF Elements, IdsOf
  <2> QED
    BY <1>2, <1>5, <2>2 DEF Brought
<1>6. CASE ClickUp!IsPaged(r) /\ items # <<>> /\ k > (r.page + 1) * PageSize
  <2>1. Plausible(r, items)
    BY HonestIsPlausible
  <2>2. /\ next.op = r.op /\ next.of = r.of /\ next.archived = r.archived
        /\ next.page = r.page + 1
    BY <2>1, NextPageIs
  <2> HIDE DEF next
  <2>3. ClickUp!AskedFor(next) = all
    BY <2>2 DEF ClickUp!AskedFor, ClickUp!Listed
  <2>4. ClickUp!IsPaged(next)
    BY <1>6, <2>2 DEF ClickUp!IsPaged
  <2>5. k > next.page * PageSize
    BY <1>6, <2>2
  <2>6. Lists(next, o)
    BY <1>1, <1>2, <2>2, <2>3, <2>4, <2>5 DEF Lists
  <2> QED
    BY <1>6, <2>6 DEF next
<1> QED
  BY <1>4, <1>5, <1>6

LEMMA PageFollows ==
  ASSUME NEW r, IsCall(r), NEW items, Plausible(r, items), ClickUp!IsPaged(r), items # <<>>,
         \A q \in Elements(NewCalls(r, items)) : q.op # "refused"
  PROVE  Elements(NewCalls(r, items)) = {NextPageOf(r, items)}
<1> DEFINE more == ClickUp!MoreOf(r, items)
<1>1. NewCalls(r, items) = more
  BY DEF NewCalls, ClickUp!IsPaged
<1>2. Len(more) = 1 /\ (more[1].op # "refused" => Elements(more) = {NextPageOf(r, items)})
  BY MoreOfIs
<1>3. more[1] \in Elements(more)
  BY <1>2 DEF Elements
<1> QED
  BY <1>1, <1>2, <1>3

LEMMA ThreadFollows ==
  ASSUME NEW r, IsCall(r), NEW items, items = ClickUp!Honest(r), NEW o \in Things, Threads(r, o),
         \A q \in Elements(NewCalls(r, items)) : q.op # "refused"
  PROVE  \E q \in Elements(NewCalls(r, items)) : Awaits(q, o)
<1> DEFINE root == ClickUpListedIn[o]
           next == NextPageOf(r, items)
           thread == [id |-> root, replies |-> ClickUpSource[root].replies]
<1>1. /\ r.op = "list-comments" /\ ClickUp!IsPaged(r) /\ o \in Comments
      /\ Lists(r, root) \/ \E i \in 1..Len(r.roots) : r.roots[i] = thread
  BY DEF Threads, ClickUp!IsPaged, Comments
<1>2. Plausible(r, items)
  BY HonestIsPlausible
<1>3. /\ next.op = r.op
      /\ \A i \in 1..Len(r.roots) : \E j \in 1..Len(next.roots) : next.roots[j] = r.roots[i]
      /\ \A i \in 1..Len(items) : \E j \in 1..Len(next.roots) :
           next.roots[j] = [id |-> items[i].id, replies |-> items[i].replies]
  BY <1>2, NextPageIs
<1>4. CASE items # <<>>
  <2>1. Elements(NewCalls(r, items)) = {next}
    BY <1>1, <1>2, <1>4, PageFollows
  <2>2. CASE \E i \in 1..Len(r.roots) : r.roots[i] = thread
    <3>1. \E j \in 1..Len(next.roots) : next.roots[j] = thread
      BY <1>3, <2>2
    <3> HIDE DEF next
    <3>2. Threads(next, o)
      BY <1>1, <1>3, <3>1 DEF Threads, Comments
    <3> QED
      BY <2>1, <3>2 DEF Awaits
  <2>3. CASE Lists(r, root)
    <3>1. \/ root \in Brought(r, items) /\ ClickUpSource[root] \in Elements(items)
          \/ Lists(next, root)
      BY <2>3, ListFollows
    <3>2. CASE root \in Brought(r, items) /\ ClickUpSource[root] \in Elements(items)
      <4>1. PICK i \in 1..Len(items) : items[i] = ClickUpSource[root]
        BY <3>2 DEF Elements
      <4>2. root \in Things
        BY <1>2, <3>2, BroughtIs
      <4>3. items[i].id = root
        BY <4>1, <4>2, SourceIs
      <4>4. \E j \in 1..Len(next.roots) : next.roots[j] = thread
        BY <1>3, <4>1, <4>3
      <4> HIDE DEF next
      <4>5. Threads(next, o)
        BY <1>1, <1>3, <4>4 DEF Threads, Comments
      <4> QED
        BY <2>1, <4>5 DEF Awaits
    <3>3. CASE Lists(next, root)
      <4> HIDE DEF next
      <4>1. Threads(next, o)
        BY <1>1, <1>3, <3>3 DEF Threads, Comments
      <4> QED
        BY <2>1, <4>1 DEF Awaits
    <3> QED
      BY <3>1, <3>2, <3>3
  <2> QED
    BY <1>1, <2>2, <2>3
<1>5. CASE items = <<>>
  <2>1. NewCalls(r, items) = ClickUp!RepliesOf(r)
    BY <1>1, <1>5 DEF NewCalls
  <2>2. ~Lists(r, root)
    <3>1. Elements(items) = {}
      BY <1>5, Singles
    <3> QED
      BY <1>5, <3>1, ListFollows
  <2>3. PICK i \in 1..Len(r.roots) : r.roots[i] = thread
    BY <1>1, <2>2
  <2>4. root \in Comments /\ ClickUpSource[root].replies > 0
    BY <1>1, RepliesAre DEF Threads
  <2>5. PICK q \in Elements(ClickUp!RepliesOf(r)) : q.of = root
    <3>1. r.roots[i].id = root /\ r.roots[i].replies > 0
      BY <2>3, <2>4
    <3> QED
      BY <3>1, RepliesOfIs
  <2>6. q \in Calls /\ q.op = "list-replies" /\ q.page = 0 /\ ~q.archived
    <3>1. ClickUp!RepliesOf(r) \in Seq(Calls)
      BY RepliesOfIs
    <3>2. Elements(ClickUp!RepliesOf(r)) \subseteq Calls
      BY <3>1, OwnElements
    <3> QED
      BY <3>2, RepliesOfIs
  <2>7. IsCall(q) /\ q.op \in Listings
    BY <2>6 DEF IsCall, Ops, Listings
  <2>8. o \in Wanted(q)
    <3>1. o \in Comments /\ q.op \in {"list-comments", "list-replies"}
      BY <1>1, <2>6
    <3> QED
      BY <2>5, <2>6, <3>1, CommentIsWanted
  <2>9. Lists(q, o)
    BY <2>6, <2>7, <2>8, BeginsList
  <2> QED
    BY <2>1, <2>5, <2>9 DEF Awaits
<1> QED
  BY <1>4, <1>5

LEMMA DetailFollows ==
  ASSUME NEW r, IsCall(r), r.op = "get-task", NEW items, items = ClickUp!Honest(r),
         NEW o \in Things, IsUnder(o, r.of)
  PROVE  o \in Brought(r, items) \/ \E q \in Elements(NewCalls(r, items)) : Awaits(q, o)
<1> DEFINE q == ClickUp!Get("list-comments", r.of)
<1>1. Len(items) = 1 /\ items[1] = ClickUpSource[r.of]
  BY HonestIs
<1>2. NewCalls(r, items) = <<q>>
  BY DEF NewCalls, ClickUp!IsPaged
<1>3. /\ q \in Calls /\ q.op = "list-comments" /\ q.of = r.of /\ q.page = 0 /\ ~q.archived
  <2>1. "list-comments" \in Ops
    BY DEF Ops, Listings
  <2>2. r.of \in Things
    BY CallIs
  <2> QED
    BY <2>1, <2>2, GetIs
<1> HIDE DEF q
<1>4. q \in Elements(NewCalls(r, items))
  BY <1>2, Singles
<1>5. IsCall(q) /\ q.op \in Listings
  BY <1>3 DEF IsCall, Ops, Listings
<1>6. \A c \in Comments : ClickUpListedIn[c] = r.of => Lists(q, c)
  <2> SUFFICES ASSUME NEW c \in Comments, ClickUpListedIn[c] = r.of PROVE Lists(q, c)
    OBVIOUS
  <2>1. q.op \in {"list-comments", "list-replies"} /\ q.of = ClickUpListedIn[c]
    BY <1>3
  <2>2. c \in Wanted(q)
    BY <1>3, <2>1, CommentIsWanted
  <2> QED
    BY <1>3, <1>5, <2>2, BeginsList
<1>7. CASE o \in HangingOn(ClickUpSource[r.of])
  BY <1>1, <1>7 DEF Brought
<1>8. CASE ClickUpKindOf[o] = "comment" /\ ClickUpListedIn[o] = r.of
  BY <1>4, <1>6, <1>8 DEF Comments, Awaits
<1>9. CASE /\ ClickUpKindOf[o] = "comment" /\ ClickUpListedIn[o] \in Comments
           /\ ClickUpListedIn[ClickUpListedIn[o]] = r.of
  <2>1. Lists(q, ClickUpListedIn[o])
    BY <1>6, <1>9
  <2>2. Threads(q, o)
    BY <1>3, <1>9, <2>1 DEF Threads
  <2> QED
    BY <1>4, <2>2 DEF Awaits
<1> QED
  BY <1>7, <1>8, <1>9 DEF IsUnder

LEMMA Follows ==
  ASSUME NEW r, IsCall(r), NEW items, items = ClickUp!Honest(r), NEW o \in Things, Awaits(r, o),
         \A q \in Elements(NewCalls(r, items)) : q.op # "refused"
  PROVE  o \in Brought(r, items) \/ \E q \in Elements(NewCalls(r, items)) : Awaits(q, o)
<1>1. CASE Lists(r, o)
  <2>1. \/ o \in Brought(r, items)
        \/ /\ ClickUp!IsPaged(r) /\ items # <<>>
           /\ Lists(NextPageOf(r, items), o)
    BY <1>1, ListFollows
  <2>2. CASE /\ ClickUp!IsPaged(r) /\ items # <<>>
             /\ Lists(NextPageOf(r, items), o)
    <3>1. Plausible(r, items)
      BY HonestIsPlausible
    <3>2. Elements(NewCalls(r, items)) = {NextPageOf(r, items)}
      BY <2>2, <3>1, PageFollows
    <3> QED
      BY <2>2, <3>2 DEF Awaits
  <2> QED
    BY <2>1, <2>2
<1>2. CASE Threads(r, o)
  BY <1>2, ThreadFollows
<1>3. CASE r.op = "get-task" /\ IsUnder(o, r.of)
  BY <1>3, DetailFollows
<1> QED
  BY <1>1, <1>2, <1>3 DEF Awaits

-----------------------------------------------------------------------------
(* What a phase asks.                                                      *)
Begun(r, op, of) == r.op = op /\ r.of = of /\ r.page = 0

(* Both what is archived and what is not.                                  *)
AsksBoth(S, op, of) ==
  /\ \E r \in S : Begun(r, op, of) /\ r.archived
  /\ \E r \in S : Begun(r, op, of) /\ ~r.archived

LEMMA ArchivedGetIs ==
  ASSUME NEW op \in Ops, NEW of \in Things
  PROVE  LET q == [ClickUp!Get(op, of) EXCEPT !.archived = TRUE] IN
         /\ q \in Calls /\ Begun(q, op, of) /\ q.archived
<1> DEFINE plain == ClickUp!Get(op, of)
           q == [plain EXCEPT !.archived = TRUE]
<1>1. plain \in Calls /\ plain.op = op /\ plain.of = of /\ plain.page = 0
  BY GetIs
<1> HIDE DEF plain
<1>2. q \in Calls /\ q.op = op /\ q.of = of /\ q.page = 0 /\ q.archived = TRUE
  BY <1>1 DEF Calls
<1> HIDE DEF q
<1>3. q.archived
  BY <1>2
<1> QED
  BY <1>2, <1>3 DEF q, plain, Begun

LEMMA TwoOf ==
  ASSUME NEW A, NEW a \in A, NEW b \in A
  PROVE  <<a, b>> \in Seq(A) /\ Elements(<<a, b>>) = {a, b}
<1> DEFINE s == <<a, b>>
<1>1. s \in Seq(A) /\ Len(s) = 2 /\ s[1] = a /\ s[2] = b
  OBVIOUS
<1> HIDE DEF s
<1>2. Elements(s) = {s[1], s[2]}
  <2>1. 1..Len(s) = {1, 2}
    BY <1>1
  <2> QED
    BY <2>1 DEF Elements
<1> QED
  BY <1>1, <1>2 DEF s

LEMMA FourOf ==
  ASSUME NEW A, NEW a \in A, NEW b \in A, NEW c \in A, NEW d \in A
  PROVE  <<a, b, c, d>> \in Seq(A) /\ Elements(<<a, b, c, d>>) = {a, b, c, d}
<1> DEFINE s == <<a, b, c, d>>
<1>1. s \in Seq(A) /\ Len(s) = 4 /\ s[1] = a /\ s[2] = b /\ s[3] = c /\ s[4] = d
  OBVIOUS
<1> HIDE DEF s
<1>2. Elements(s) = {s[1], s[2], s[3], s[4]}
  <2>1. 1..Len(s) = {1, 2, 3, 4}
    BY <1>1
  <2> QED
    BY <2>1 DEF Elements
<1> QED
  BY <1>1, <1>2 DEF s

LEMMA BothListsIs ==
  ASSUME NEW op \in Ops, NEW of \in Things
  PROVE  LET both == ClickUp!BothLists(op, of) IN
         /\ both \in Seq(Calls)
         /\ \A r \in Elements(both) : Begun(r, op, of)
         /\ AsksBoth(Elements(both), op, of)
<1> DEFINE a == ClickUp!Get(op, of)
           b == [ClickUp!Get(op, of) EXCEPT !.archived = TRUE]
<1>1. a \in Calls /\ Begun(a, op, of) /\ ~a.archived
  BY GetIs DEF Begun
<1>2. b \in Calls /\ Begun(b, op, of) /\ b.archived
  BY ArchivedGetIs
<1>3. ClickUp!BothLists(op, of) = <<a, b>>
  BY DEF ClickUp!BothLists
<1> HIDE DEF a, b
<1>4. <<a, b>> \in Seq(Calls) /\ Elements(<<a, b>>) = {a, b}
  BY <1>1, <1>2, TwoOf
<1> QED
  BY <1>1, <1>2, <1>3, <1>4 DEF AsksBoth

LEMMA JoinedFor ==
  ASSUME NEW os \in Seq(Things), NEW f, \A o \in Things : f[o] \in Seq(Calls)
  PROVE  /\ ClickUp!FlattenSeq(Map(f, os)) \in Seq(Calls)
         /\ Elements(ClickUp!FlattenSeq(Map(f, os))) = UNION {Elements(f[o]) : o \in Elements(os)}
<1> DEFINE ss == Map(f, os)
           B == Seq(Calls)
<1>0. Len(os) \in Nat /\ \A x \in Elements(os) : f[x] \in B
  BY OwnElements
<1> HIDE DEF B
<1>1. /\ ss \in Seq(B) /\ Len(ss) = Len(os)
      /\ \A i \in 1..Len(os) : ss[i] = f[os[i]]
  BY <1>0, Mapped
<1> HIDE DEF ss
<1> USE DEF B
<1>2. /\ ClickUp!FlattenSeq(ss) \in Seq(Calls)
      /\ Elements(ClickUp!FlattenSeq(ss)) = UNION {Elements(ss[i]) : i \in 1..Len(ss)}
  BY <1>1, FlattenIs
<1>3. Elements(os) = {os[i] : i \in 1..Len(os)}
  BY DEF Elements
<1>4. UNION {Elements(ss[i]) : i \in 1..Len(ss)} = UNION {Elements(f[o]) : o \in Elements(os)}
  <2>1. \A x : x \in UNION {Elements(ss[i]) : i \in 1..Len(ss)} <=>
                 \E i \in 1..Len(os) : x \in Elements(f[os[i]])
    BY <1>1
  <2>2. \A x : x \in UNION {Elements(f[o]) : o \in Elements(os)} <=>
                 \E i \in 1..Len(os) : x \in Elements(f[os[i]])
    BY <1>3
  <2> QED
    BY <2>1, <2>2
<1> QED
  BY <1>2, <1>4 DEF ss

(* What is known of a kind.                                                *)
KnownOf(kind) == {o \in Known : ClickUpKindOf[o] = kind}

LEMMA KnownAre ==
  ASSUME Known \subseteq Things, NEW kind
  PROVE  LET os == ClickUp!Sorted(ClickUp!Of(kind, known)) IN
         os \in Seq(Things) /\ Elements(os) = KnownOf(kind) /\ Distinct(os)
<1>1. ClickUp!Of(kind, known) = KnownOf(kind)
  BY DEF ClickUp!Of, KnownOf, Known
<1>2. KnownOf(kind) \subseteq Things
  BY DEF KnownOf
<1> QED
  BY <1>1, <1>2, SortedIs

LEMMA ForEachAsks ==
  ASSUME NEW op \in Ops, NEW os \in Seq(Things)
  PROVE  LET rs == ClickUp!FlattenSeq([i \in 1..Len(os) |-> ClickUp!BothLists(op, os[i])]) IN
         /\ rs \in Seq(Calls)
         /\ \A r \in Elements(rs) : r.op = op
         /\ \A o \in Elements(os) : AsksBoth(Elements(rs), op, o)
<1> DEFINE f == [o \in Things |-> ClickUp!BothLists(op, o)]
           rs == ClickUp!FlattenSeq(Map(f, os))
<1>1. \A o \in Things : /\ f[o] \in Seq(Calls)
                        /\ \A r \in Elements(f[o]) : r.op = op
                        /\ AsksBoth(Elements(f[o]), op, o)
  BY BothListsIs DEF Begun
<1>2. \A o \in Things : f[o] \in Seq(Calls)
  BY <1>1
<1>3. [i \in 1..Len(os) |-> ClickUp!BothLists(op, os[i])] = Map(f, os)
  <2>1. \A i \in 1..Len(os) : os[i] \in Things
    OBVIOUS
  <2> QED
    BY <2>1 DEF Map
<1> HIDE DEF f
<1>4. rs \in Seq(Calls) /\ Elements(rs) = UNION {Elements(f[o]) : o \in Elements(os)}
  BY <1>2, JoinedFor
<1> HIDE DEF rs
<1>5. Elements(os) \subseteq Things
  BY OwnElements
<1>6. \A o \in Elements(os) : AsksBoth(Elements(rs), op, o)
  BY <1>1, <1>4, <1>5 DEF AsksBoth
<1>7. \A r \in Elements(rs) : r.op = op
  BY <1>1, <1>4, <1>5
<1> QED
  BY <1>3, <1>4, <1>6, <1>7 DEF rs

LEMMA EachAsks ==
  ASSUME NEW op \in Ops, NEW os \in Seq(Things)
  PROVE  LET rs == [i \in 1..Len(os) |-> ClickUp!Get(op, os[i])] IN
         /\ rs \in Seq(Calls) /\ Len(rs) = Len(os)
         /\ \A i \in 1..Len(os) : rs[i].of = os[i]
         /\ \A r \in Elements(rs) : r.op = op /\ r.of \in Elements(os)
         /\ \A o \in Elements(os) : \E r \in Elements(rs) : Begun(r, op, o)
<1> DEFINE f == [o \in Things |-> ClickUp!Get(op, o)]
           rs == Map(f, os)
<1>1. \A o \in Things : f[o] \in Calls /\ Begun(f[o], op, o)
  BY GetIs DEF Begun
<1>3. [i \in 1..Len(os) |-> ClickUp!Get(op, os[i])] = Map(f, os)
  <2>1. \A i \in 1..Len(os) : os[i] \in Things
    OBVIOUS
  <2> QED
    BY <2>1 DEF Map
<1> HIDE DEF f
<1>5. Elements(os) \subseteq Things /\ \A i \in 1..Len(os) : os[i] \in Things
  BY OwnElements, Typed
<1>4. /\ rs \in Seq(Calls) /\ Len(rs) = Len(os)
      /\ \A i \in 1..Len(os) : rs[i] = f[os[i]]
      /\ Elements(rs) = {f[o] : o \in Elements(os)}
  <2>1. Len(os) \in Nat
    OBVIOUS
  <2>2. \A x \in Elements(os) : f[x] \in Calls
    BY <1>1, <1>5
  <2> QED
    BY <2>1, <2>2, Mapped
<1> HIDE DEF rs
<1>6. \A i \in 1..Len(os) : rs[i].of = os[i]
  BY <1>1, <1>4, <1>5 DEF Begun
<1>7. /\ \A r \in Elements(rs) : r.op = op /\ r.of \in Elements(os)
      /\ \A o \in Elements(os) : \E r \in Elements(rs) : Begun(r, op, o)
  BY <1>1, <1>4, <1>5 DEF Begun
<1> QED
  BY <1>3, <1>4, <1>6, <1>7 DEF rs

(* What a phase asks is in order, and asks of all that is known.           *)
InOrder(p, rs) ==
  /\ rs \in Seq(Calls)
  /\ \A r \in Elements(rs) :
       /\ r.op \in OpsIn(p)
       /\ r.op = "list-fields" => r.of \in ClickUp!Locations
       /\ r.op = "get-task" => r.of \in KnownOf("task")
  /\ \A i, j \in 1..Len(rs) :
       rs[i].op = "get-task" /\ rs[j].op = "get-task" /\ rs[i].of = rs[j].of => i = j

AsksAll(p, S) ==
  /\ p = "in-spaces" => \A o \in KnownOf("space") :
       AsksBoth(S, "list-folders", o) /\ AsksBoth(S, "list-lists", o)
  /\ p = "in-folders" => \A o \in KnownOf("folder") : AsksBoth(S, "list-lists", o)
  /\ p = "fields" =>
       \A o \in {ClickUpWorkspace} \cup KnownOf("space") \cup KnownOf("folder") \cup KnownOf("list") :
         \E r \in S : Begun(r, "list-fields", o)
  /\ p = "tasks" => \A o \in KnownOf("list") : AsksBoth(S, "list-tasks", o)
  /\ p = "details" => \A o \in KnownOf("task") : \E r \in S : Begun(r, "get-task", o)

LEMMA NoDetailsInOrder ==
  ASSUME NEW p \in Phases, NEW rs \in Seq(Calls),
         \A r \in Elements(rs) : r.op \in OpsIn(p) \ {"get-task", "list-fields"}
  PROVE  InOrder(p, rs)
<1>1. \A i \in 1..Len(rs) : rs[i].op # "get-task"
  BY DEF Elements
<1> QED
  BY <1>1 DEF InOrder

LEMMA InSpacesAre ==
  ASSUME Known \subseteq Things
  PROVE  LET rs == ClickUp!RequestsOf("in-spaces") IN
         InOrder("in-spaces", rs) /\ AsksAll("in-spaces", Elements(rs))
<1> DEFINE os == ClickUp!Sorted(ClickUp!Of("space", known))
           a(s) == ClickUp!Get("list-folders", s)
           b(s) == ClickUp!Get("list-lists", s)
           c(s) == [ClickUp!Get("list-folders", s) EXCEPT !.archived = TRUE]
           d(s) == [ClickUp!Get("list-lists", s) EXCEPT !.archived = TRUE]
           f == [s \in Things |-> <<a(s), b(s), c(s), d(s)>>]
           rs == ClickUp!RequestsOf("in-spaces")
           joined == ClickUp!FlattenSeq(Map(f, os))
<1>1. os \in Seq(Things) /\ Elements(os) = KnownOf("space")
  BY KnownAre
<1>2. rs = ClickUp!FlattenSeq([i \in 1..Len(os) |-> <<a(os[i]), b(os[i]), c(os[i]), d(os[i])>>])
  BY DEF ClickUp!RequestsOf, ClickUp!ForEach, ClickUp!Positions
<1> HIDE DEF os, rs
<1>3. [i \in 1..Len(os) |-> <<a(os[i]), b(os[i]), c(os[i]), d(os[i])>>] = Map(f, os)
  <2>1. \A i \in 1..Len(os) : os[i] \in Things
    BY <1>1
  <2> QED
    BY <2>1 DEF Map
<1>4. ASSUME NEW s \in Things
      PROVE  /\ f[s] \in Seq(Calls)
             /\ \A r \in Elements(f[s]) : r.op \in {"list-folders", "list-lists"}
             /\ AsksBoth(Elements(f[s]), "list-folders", s)
             /\ AsksBoth(Elements(f[s]), "list-lists", s)
  <2>1. "list-folders" \in Ops /\ "list-lists" \in Ops
    BY DEF Ops, Listings
  <2>2. /\ a(s) \in Calls /\ Begun(a(s), "list-folders", s) /\ ~a(s).archived
        /\ b(s) \in Calls /\ Begun(b(s), "list-lists", s) /\ ~b(s).archived
    BY <2>1, GetIs DEF Begun
  <2>3. /\ c(s) \in Calls /\ Begun(c(s), "list-folders", s) /\ c(s).archived
        /\ d(s) \in Calls /\ Begun(d(s), "list-lists", s) /\ d(s).archived
    BY <2>1, ArchivedGetIs
  <2>4. f[s] = <<a(s), b(s), c(s), d(s)>>
    OBVIOUS
  <2> HIDE DEF a, b, c, d, f
  <2>5. f[s] \in Seq(Calls) /\ Elements(f[s]) = {a(s), b(s), c(s), d(s)}
    BY <2>2, <2>3, <2>4, FourOf
  <2> QED
    BY <2>2, <2>3, <2>5 DEF AsksBoth, Begun
<1> HIDE DEF a, b, c, d, f
<1>5. joined \in Seq(Calls) /\ Elements(joined) = UNION {Elements(f[o]) : o \in Elements(os)}
  BY <1>1, <1>4, JoinedFor
<1>6. rs = joined
  BY <1>2, <1>3
<1> HIDE DEF joined
<1>7. Elements(os) \subseteq Things
  BY <1>1 DEF KnownOf
<1>8. \A r \in Elements(rs) : r.op \in OpsIn("in-spaces") \ {"get-task", "list-fields"}
  BY <1>4, <1>5, <1>6, <1>7 DEF OpsIn
<1>9. InOrder("in-spaces", rs)
  BY <1>5, <1>6, <1>8, NoDetailsInOrder DEF Phases
<1>10. \A o \in KnownOf("space") :
         AsksBoth(Elements(rs), "list-folders", o) /\ AsksBoth(Elements(rs), "list-lists", o)
  BY <1>1, <1>4, <1>5, <1>6, <1>7 DEF AsksBoth
<1> QED
  BY <1>9, <1>10 DEF AsksAll, rs

LEMMA InFoldersAre ==
  ASSUME Known \subseteq Things
  PROVE  LET rs == ClickUp!RequestsOf("in-folders") IN
         InOrder("in-folders", rs) /\ AsksAll("in-folders", Elements(rs))
<1> DEFINE os == ClickUp!Sorted(ClickUp!Of("folder", known))
           rs == ClickUp!RequestsOf("in-folders")
<1>1. os \in Seq(Things) /\ Elements(os) = KnownOf("folder")
  BY KnownAre
<1>2. rs = ClickUp!FlattenSeq([i \in 1..Len(os) |-> ClickUp!BothLists("list-lists", os[i])])
  BY DEF ClickUp!RequestsOf, ClickUp!ForEach, ClickUp!Positions
<1> HIDE DEF os, rs
<1>3. /\ rs \in Seq(Calls)
      /\ \A r \in Elements(rs) : r.op = "list-lists"
      /\ \A o \in Elements(os) : AsksBoth(Elements(rs), "list-lists", o)
  BY <1>1, <1>2, ForEachAsks DEF Ops, Listings
<1>4. InOrder("in-folders", rs)
  BY <1>3, NoDetailsInOrder DEF Phases, OpsIn
<1> QED
  BY <1>1, <1>3, <1>4 DEF AsksAll, rs

LEMMA TasksAre ==
  ASSUME Known \subseteq Things
  PROVE  LET rs == ClickUp!RequestsOf("tasks") IN
         InOrder("tasks", rs) /\ AsksAll("tasks", Elements(rs))
<1> DEFINE os == ClickUp!Sorted(ClickUp!Of("list", known))
           rs == ClickUp!RequestsOf("tasks")
<1>1. os \in Seq(Things) /\ Elements(os) = KnownOf("list")
  BY KnownAre
<1>2. rs = ClickUp!FlattenSeq([i \in 1..Len(os) |-> ClickUp!BothLists("list-tasks", os[i])])
  BY DEF ClickUp!RequestsOf, ClickUp!ForEach, ClickUp!Positions
<1> HIDE DEF os, rs
<1>3. /\ rs \in Seq(Calls)
      /\ \A r \in Elements(rs) : r.op = "list-tasks"
      /\ \A o \in Elements(os) : AsksBoth(Elements(rs), "list-tasks", o)
  BY <1>1, <1>2, ForEachAsks DEF Ops, Listings
<1>4. InOrder("tasks", rs)
  BY <1>3, NoDetailsInOrder DEF Phases, OpsIn
<1> QED
  BY <1>1, <1>3, <1>4 DEF AsksAll, rs

LEMMA FieldRequestsAre ==
  ASSUME Known \subseteq Things
  PROVE  LET rs == ClickUp!RequestsOf("fields") IN
         InOrder("fields", rs) /\ AsksAll("fields", Elements(rs))
<1> DEFINE spaces == ClickUp!Sorted(ClickUp!Of("space", known))
           folders == ClickUp!Sorted(ClickUp!Of("folder", known))
           lists == ClickUp!Sorted(ClickUp!Of("list", known))
           one == <<ClickUpWorkspace>>
           two == one \o spaces
           three == two \o folders
           os == three \o lists
           rs == ClickUp!RequestsOf("fields")
<1>1. /\ spaces \in Seq(Things) /\ Elements(spaces) = KnownOf("space")
      /\ folders \in Seq(Things) /\ Elements(folders) = KnownOf("folder")
      /\ lists \in Seq(Things) /\ Elements(lists) = KnownOf("list")
  BY KnownAre
<1>2. rs = [i \in 1..Len(os) |-> ClickUp!Get("list-fields", os[i])]
  BY DEF ClickUp!RequestsOf, ClickUp!Positions
<1> HIDE DEF spaces, folders, lists, rs
<1>3. one \in Seq(Things) /\ Elements(one) = {ClickUpWorkspace}
  BY Bounds, OneOf
<1> HIDE DEF one
<1>4. two \in Seq(Things) /\ Elements(two) = {ClickUpWorkspace} \cup KnownOf("space")
  BY <1>1, <1>3, Joined
<1> HIDE DEF two
<1>5. three \in Seq(Things) /\ Elements(three) = Elements(two) \cup KnownOf("folder")
  BY <1>1, <1>4, Joined
<1> HIDE DEF three
<1>6. os \in Seq(Things) /\ Elements(os) = Elements(three) \cup KnownOf("list")
  BY <1>1, <1>5, Joined
<1> HIDE DEF os
<1>7. Elements(os) = {ClickUpWorkspace} \cup KnownOf("space") \cup KnownOf("folder") \cup KnownOf("list")
  BY <1>4, <1>5, <1>6
<1>8. Elements(os) \subseteq ClickUp!Locations
  BY <1>7, LocationsAre, KindsAre, Bounds DEF KnownOf
<1>9. /\ rs \in Seq(Calls)
      /\ \A r \in Elements(rs) : r.op = "list-fields" /\ r.of \in Elements(os)
      /\ \A o \in Elements(os) : \E r \in Elements(rs) : Begun(r, "list-fields", o)
  <2>1. "list-fields" \in Ops
    BY DEF Ops, Listings
  <2> QED
    BY <1>2, <1>6, <2>1, EachAsks
<1>10. InOrder("fields", rs)
  <2>1. \A i \in 1..Len(rs) : rs[i].op # "get-task"
    BY <1>9 DEF Elements
  <2> QED
    BY <1>8, <1>9, <2>1 DEF InOrder, OpsIn
<1> QED
  BY <1>7, <1>9, <1>10 DEF AsksAll, rs

LEMMA DetailRequestsAre ==
  ASSUME Known \subseteq Things
  PROVE  LET rs == ClickUp!RequestsOf("details") IN
         InOrder("details", rs) /\ AsksAll("details", Elements(rs))
<1> DEFINE os == ClickUp!Sorted(ClickUp!Of("task", known))
           rs == ClickUp!RequestsOf("details")
<1>1. os \in Seq(Things) /\ Elements(os) = KnownOf("task") /\ Distinct(os)
  BY KnownAre
<1>2. rs = [i \in 1..Len(os) |-> ClickUp!Get("get-task", os[i])]
  BY DEF ClickUp!RequestsOf, ClickUp!Positions
<1> HIDE DEF os, rs
<1>3. /\ rs \in Seq(Calls) /\ Len(rs) = Len(os)
      /\ \A i \in 1..Len(os) : rs[i].of = os[i]
      /\ \A r \in Elements(rs) : r.op = "get-task" /\ r.of \in Elements(os)
      /\ \A o \in Elements(os) : \E r \in Elements(rs) : Begun(r, "get-task", o)
  <2>1. "get-task" \in Ops
    BY DEF Ops
  <2> QED
    BY <1>1, <1>2, <2>1, EachAsks
<1>4. \A i, j \in 1..Len(rs) : rs[i].of = rs[j].of => i = j
  BY <1>1, <1>3 DEF Distinct
<1>5. InOrder("details", rs)
  BY <1>1, <1>3, <1>4 DEF InOrder, OpsIn
<1> QED
  BY <1>1, <1>3, <1>5 DEF AsksAll, rs

LEMMA RequestsAre ==
  ASSUME Known \subseteq Things, NEW p \in Phases \ {"spaces"}
  PROVE  LET rs == ClickUp!RequestsOf(p) IN
         InOrder(p, rs) /\ AsksAll(p, Elements(rs))
BY InSpacesAre, InFoldersAre, FieldRequestsAre, TasksAre, DetailRequestsAre DEF Phases

-----------------------------------------------------------------------------
(* A phase follows on another.                                             *)
LEMMA LedgerKept ==
  ASSUME LedgerLearned, Said, CommentsOnce, Truthful, UNCHANGED <<ledger, known, edited>>
  PROVE  LedgerLearned' /\ Said' /\ CommentsOnce' /\ Truthful'
<1>1. ledger' = ledger /\ known' = known /\ edited' = edited /\ Known' = Known
  BY DEF Known
<1>2. LedgerLearned'
  <2>1. \A entry : IsLearned(entry)' <=> IsLearned(entry)
    BY <1>1 DEF IsLearned
  <2> QED
    BY <1>1, <2>1 DEF LedgerLearned, IsAnswer
<1>3. Said'
  BY <1>1 DEF Said, Says, IsAnswer
<1>4. CommentsOnce'
  BY <1>1 DEF CommentsOnce, HasComments, IsAnswer
<1>5. Truthful'
  BY <1>1 DEF Truthful
<1> QED
  BY <1>2, <1>3, <1>4, <1>5

(* The phases in which whatever holds an object is found are earlier ones. *)
LEMMA PhasesAre ==
  ASSUME NEW o \in Things \ {ClickUpWorkspace}
  PROVE  /\ PhaseOf(o) \in Phases
         /\ ClickUpKindOf[o] = "space" => PhaseOf(o) = "spaces"
         /\ ClickUpKindOf[o] = "folder" => PhaseOf(o) = "in-spaces"
         /\ ClickUpKindOf[o] = "list" => PhaseOf(o) \in {"in-spaces", "in-folders"}
         /\ ClickUpKindOf[o] = "task" => PhaseOf(o) = "tasks"
<1>1. ClickUpKindOf[o] \in ClickUp!Kinds \ {"workspace"}
  BY KindsAre
<1>2. ClickUpKindOf[o] = "list" => ClickUpKindOf[ClickUpListedIn[o]] \in {"space", "folder"}
  BY ListedInIs
<1> QED
  BY <1>1, <1>2 DEF PhaseOf, Phases, ClickUp!Kinds

LEMMA RanksAre ==
  /\ \A p \in Phases : Rank(p) \in 0..5
  /\ \A p \in Phases \ {"details"} :
       ClickUp!NextOf(p) \in Phases \ {"spaces"} /\ Rank(ClickUp!NextOf(p)) = Rank(p) + 1
  /\ \A p, q \in Phases : Rank(p) = Rank(q) => p = q
<1>1. /\ Rank("spaces") = 0 /\ Rank("in-spaces") = 1 /\ Rank("in-folders") = 2
      /\ Rank("fields") = 3 /\ Rank("tasks") = 4 /\ Rank("details") = 5
  BY DEF Rank
<1>2. /\ ClickUp!NextOf("spaces") = "in-spaces"
      /\ ClickUp!NextOf("in-spaces") = "in-folders"
      /\ ClickUp!NextOf("in-folders") = "fields"
      /\ ClickUp!NextOf("fields") = "tasks"
      /\ ClickUp!NextOf("tasks") = "details"
  BY DEF ClickUp!NextOf
<1>3. \A p \in Phases : Rank(p) \in 0..5
  BY <1>1 DEF Phases
<1>4. \A p \in Phases \ {"details"} :
        ClickUp!NextOf(p) \in Phases \ {"spaces"} /\ Rank(ClickUp!NextOf(p)) = Rank(p) + 1
  BY <1>1, <1>2 DEF Phases
<1>5. \A p, q \in Phases : Rank(p) = Rank(q) => p = q
  BY <1>1 DEF Phases
<1> QED
  BY <1>3, <1>4, <1>5

LEMMA BothAwait ==
  ASSUME NEW S, S \subseteq Calls, NEW op \in Listings \ {"list-fields"}, NEW o \in Things,
         ClickUpKindOf[o] = KindIn(op), AsksBoth(S, op, ClickUpListedIn[o])
  PROVE  \E r \in S : Awaits(r, o)
<1>1. PICK r \in S : /\ Begun(r, op, ClickUpListedIn[o])
                     /\ IF r.archived THEN o \in ClickUpArchived ELSE o \notin ClickUpArchived
  <2>1. PICK a \in S : Begun(a, op, ClickUpListedIn[o]) /\ a.archived
    BY DEF AsksBoth
  <2>2. PICK b \in S : Begun(b, op, ClickUpListedIn[o]) /\ ~b.archived
    BY DEF AsksBoth
  <2>3. CASE o \in ClickUpArchived
    BY <2>1, <2>3
  <2>4. CASE o \notin ClickUpArchived
    BY <2>2, <2>4
  <2> QED
    BY <2>3, <2>4
<1>2. r.op = op /\ r.of = ClickUpListedIn[o] /\ r.page = 0
  BY <1>1 DEF Begun
<1>3. IsCall(r) /\ r.op \in Listings
  BY <1>2 DEF IsCall, Ops, Listings
<1>4. o \in Wanted(r)
  <2>1. r.op \notin {"get-task", "list-fields"}
    BY <1>2 DEF Listings
  <2> QED
    BY <1>1, <1>2, <2>1 DEF Wanted
<1> QED
  BY <1>2, <1>3, <1>4, BeginsList DEF Awaits

LEMMA FieldAwaits ==
  ASSUME NEW S, S \subseteq Calls, NEW l \in ClickUp!Locations, NEW o \in ClickUpFieldsOf[l],
         \E r \in S : Begun(r, "list-fields", l)
  PROVE  \E r \in S : Awaits(r, o)
<1>1. PICK r \in S : r.op = "list-fields" /\ r.of = l /\ r.page = 0
  BY DEF Begun
<1>2. IsCall(r) /\ r.op \in Listings
  BY <1>1 DEF IsCall, Ops, Listings
<1>3. o \in Wanted(r)
  BY <1>1 DEF Wanted
<1> QED
  BY <1>1, <1>2, <1>3, BeginsList DEF Awaits

(* All that a phase finds is in or on what is known by then.               *)
LEMMA UnderSomething ==
  ASSUME NEW o \in Things, ClickUpKindOf[o] \in {"comment", "attachment", "relationship"}
  PROVE  \E t \in Tasks : IsUnder(o, t)
<1>1. CASE ClickUpKindOf[o] = "comment"
  <2>1. ClickUpListedIn[o] \in Tasks \cup Comments
    BY <1>1, ListedInIs DEF Tasks, Comments
  <2>2. CASE ClickUpListedIn[o] \in Tasks
    BY <1>1, <2>2 DEF IsUnder
  <2>3. CASE ClickUpListedIn[o] \in Comments
    <3>1. o \in Comments
      BY <1>1 DEF Comments
    <3>2. ClickUpListedIn[ClickUpListedIn[o]] \in Tasks
      BY <2>3, <3>1, RepliesAre
    <3> QED
      BY <1>1, <2>3, <3>2 DEF IsUnder
  <2> QED
    BY <2>1, <2>2, <2>3
<1>2. CASE ClickUpKindOf[o] = "attachment"
  <2>1. ClickUpListedIn[o] \in Tasks
    BY <1>2, ListedInIs
  <2>2. o \in ClickUp!ToSet(ClickUpSource[ClickUpListedIn[o]].attachments)
    BY <1>2, <2>1, TaskIs
  <2> QED
    BY <2>1, <2>2 DEF IsUnder, HangingOn
<1>3. CASE ClickUpKindOf[o] = "relationship"
  <2>1. o \in DOMAIN ClickUpEndsOf
    BY <1>3, RelationshipsAre
  <2>2. PICK t \in Tasks : o \in ClickUpSource[t].links
    BY <2>1, RelationshipsAre
  <2> QED
    BY <2>2 DEF IsUnder, HangingOn
<1> QED
  BY <1>1, <1>2, <1>3

LEMMA PhaseAwaits ==
  ASSUME Known \subseteq Things, NEW p \in Phases \ {"spaces"},
         \A x \in Things \ {ClickUpWorkspace} : x \in Known \/ Rank(PhaseOf(x)) >= Rank(p),
         NEW o \in Things \ {ClickUpWorkspace}, PhaseOf(o) = p,
         NEW S, S \subseteq Calls, AsksAll(p, S)
  PROVE  \E r \in S : Awaits(r, o)
<1>0. /\ ClickUpKindOf[o] \in ClickUp!Kinds \ {"workspace", "space"}
      /\ Rank("spaces") = 0 /\ Rank("in-spaces") = 1 /\ Rank("in-folders") = 2
      /\ Rank("fields") = 3 /\ Rank("tasks") = 4 /\ Rank("details") = 5
  BY KindsAre, PhasesAre DEF Rank
<1>1. CASE ClickUpKindOf[o] = "folder"
  <2> DEFINE s == ClickUpListedIn[o]
  <2>1. s \in Things /\ ClickUpKindOf[s] = "space" /\ s # ClickUpWorkspace /\ p = "in-spaces"
    BY <1>1, ListedInIs, KindsAre, PhasesAre
  <2>2. s \in KnownOf("space")
    BY <1>0, <2>1, PhasesAre DEF KnownOf
  <2>3. AsksBoth(S, "list-folders", s)
    BY <2>1, <2>2 DEF AsksAll
  <2>4. "list-folders" \in Listings \ {"list-fields"} /\ KindIn("list-folders") = "folder"
    BY DEF Listings, KindIn
  <2> QED
    BY <1>1, <2>3, <2>4, BothAwait
<1>2. CASE ClickUpKindOf[o] = "list"
  <2> DEFINE s == ClickUpListedIn[o]
  <2>1. s \in Things /\ ClickUpKindOf[s] \in {"space", "folder"} /\ s # ClickUpWorkspace
    BY <1>2, ListedInIs, KindsAre
  <2>2. "list-lists" \in Listings \ {"list-fields"} /\ KindIn("list-lists") = "list"
    BY DEF Listings, KindIn
  <2>3. CASE ClickUpKindOf[s] = "space"
    <3>1. p = "in-spaces"
      BY <1>2, <2>3 DEF PhaseOf
    <3>2. s \in KnownOf("space")
      BY <1>0, <2>1, <2>3, <3>1, PhasesAre DEF KnownOf
    <3>3. AsksBoth(S, "list-lists", s)
      BY <3>1, <3>2 DEF AsksAll
    <3> QED
      BY <1>2, <2>2, <3>3, BothAwait
  <2>4. CASE ClickUpKindOf[s] = "folder"
    <3>1. p = "in-folders"
      BY <1>2, <2>4 DEF PhaseOf
    <3>2. s \in KnownOf("folder")
      BY <1>0, <2>1, <2>4, <3>1, PhasesAre DEF KnownOf
    <3>3. AsksBoth(S, "list-lists", s)
      BY <3>1, <3>2 DEF AsksAll
    <3> QED
      BY <1>2, <2>2, <3>3, BothAwait
  <2> QED
    BY <2>1, <2>3, <2>4
<1>3. CASE ClickUpKindOf[o] = "field"
  <2>1. PICK l \in ClickUp!Locations : o \in ClickUpFieldsOf[l]
    BY <1>3, FieldsAre
  <2>2. p = "fields"
    BY <1>3 DEF PhaseOf
  <2>3. /\ l \in Things /\ ClickUpKindOf[l] \in {"workspace", "space", "folder", "list"}
        /\ ClickUpKindOf[l] = "workspace" => l = ClickUpWorkspace
    BY LocationsAre, KindsAre
  <2>4. l # ClickUpWorkspace => Rank(PhaseOf(l)) < 3
    BY <1>0, <2>3, PhasesAre
  <2>5. l # ClickUpWorkspace => l \in Known
    <3>1. Rank(p) = 3
      BY <1>0, <2>2
    <3>2. l # ClickUpWorkspace => Rank(PhaseOf(l)) \in 0..5
      BY <2>3, PhasesAre, RanksAre
    <3> QED
      BY <2>3, <2>4, <3>1, <3>2
  <2>6. l \in {ClickUpWorkspace} \cup KnownOf("space") \cup KnownOf("folder") \cup KnownOf("list")
    BY <2>3, <2>5 DEF KnownOf
  <2>7. \E r \in S : Begun(r, "list-fields", l)
    BY <2>2, <2>6 DEF AsksAll
  <2> QED
    BY <2>1, <2>7, FieldAwaits
<1>4. CASE ClickUpKindOf[o] = "task"
  <2> DEFINE l == ClickUpListedIn[o]
  <2>1. l \in Things /\ ClickUpKindOf[l] = "list" /\ l # ClickUpWorkspace /\ p = "tasks"
    BY <1>4, ListedInIs, KindsAre, PhasesAre
  <2>2. l \in KnownOf("list")
    BY <1>0, <2>1, PhasesAre DEF KnownOf
  <2>3. AsksBoth(S, "list-tasks", l)
    BY <2>1, <2>2 DEF AsksAll
  <2>4. "list-tasks" \in Listings \ {"list-fields"} /\ KindIn("list-tasks") = "task"
    BY DEF Listings, KindIn
  <2> QED
    BY <1>4, <2>3, <2>4, BothAwait
<1>5. CASE ClickUpKindOf[o] \in {"comment", "attachment", "relationship"}
  <2>1. p = "details"
    BY <1>5 DEF PhaseOf
  <2>2. PICK t \in Tasks : IsUnder(o, t)
    BY <1>5, UnderSomething
  <2>3. t \in Things /\ ClickUpKindOf[t] = "task" /\ t # ClickUpWorkspace
    BY KindsAre DEF Tasks
  <2>4. t \in KnownOf("task")
    BY <1>0, <2>1, <2>3, PhasesAre DEF KnownOf
  <2>5. PICK r \in S : Begun(r, "get-task", t)
    BY <2>1, <2>4 DEF AsksAll
  <2> QED
    BY <2>2, <2>5 DEF Awaits, Begun
<1> QED
  BY <1>0, <1>1, <1>2, <1>3, <1>4, <1>5 DEF ClickUp!Kinds

LEMMA PhaseBegins ==
  ASSUME Scanned, queue = <<>>, phase # "details", phase' = ClickUp!NextOf(phase),
         queue' = ClickUp!RequestsOf(phase'), UNCHANGED <<known, ledger, edited>>
  PROVE  Scanned'
<1>1. PICK p : p = ClickUp!NextOf(phase)
  OBVIOUS
<1>2. PICK rs : rs = ClickUp!RequestsOf(p)
  OBVIOUS
<1>3. phase' = p /\ queue' = rs
  BY <1>1, <1>2
<1>4. /\ p \in Phases \ {"spaces"} /\ Rank(p) = Rank(phase) + 1 /\ Rank(phase) \in 0..5
      /\ phase \in Phases /\ Known \subseteq Things \ {ClickUpWorkspace}
  BY <1>1, RanksAre DEF Scanned, Queue
<1>5. InOrder(p, rs) /\ AsksAll(p, Elements(rs))
  BY <1>2, <1>4, RequestsAre
<1>6. Known' = Known /\ Queued' = Elements(rs) /\ edited' = edited /\ ledger' = ledger
  BY <1>3 DEF Known, Queued
<1>7. Queue'
  <2>1. queue' \in Seq(Calls) /\ phase' \in Phases /\ Known' \subseteq Things \ {ClickUpWorkspace}
    BY <1>3, <1>4, <1>5, <1>6 DEF InOrder
  <2>2. ASSUME NEW r \in Elements(rs) PROVE MayAsk(r)'
    <3>1. /\ r.op \in OpsIn(p)
          /\ r.op = "list-fields" => r.of \in ClickUp!Locations
          /\ r.op = "get-task" => r.of \in KnownOf("task")
      BY <1>5, <2>2 DEF InOrder
    <3> QED
      BY <1>3, <1>6, <3>1 DEF MayAsk, KnownOf
  <2> QED
    BY <1>6, <2>1, <2>2 DEF Queue
<1>8. Details'
  <2>1. \A i \in 1..Len(ledger) : \A t \in Things : ~IsDetail(ledger[i], t)
    BY DEF Scanned, Details
  <2>2. \A i, j \in 1..Len(rs) :
          rs[i].op = "get-task" /\ rs[j].op = "get-task" /\ rs[i].of = rs[j].of => i = j
    BY <1>5 DEF InOrder
  <2>3. p = "details" => \A t \in Known : ClickUpKindOf[t] = "task" =>
          \E r \in Elements(rs) : r.op = "get-task" /\ r.of = t
    BY <1>5 DEF AsksAll, KnownOf, Begun
  <2> QED
    BY <1>3, <1>6, <2>1, <2>2, <2>3 DEF Details
<1>9. Reaches'
  <2> SUFFICES ASSUME ~edited, NEW o \in Things \ {ClickUpWorkspace}
               PROVE  \/ o \in Known
                      \/ Rank(PhaseOf(o)) > Rank(p)
                      \/ PhaseOf(o) = p /\ \E r \in Elements(rs) : Awaits(r, o)
    BY <1>3, <1>6 DEF Reaches
  <2>1. Queued = {} /\ Unrefused
    BY Nothing DEF Queued, Unrefused
  <2>2. \A x \in Things \ {ClickUpWorkspace} : x \in Known \/ Rank(PhaseOf(x)) > Rank(phase)
    BY <2>1 DEF Scanned, Reaches
  <2>3. \A x \in Things \ {ClickUpWorkspace} : x \in Known \/ Rank(PhaseOf(x)) >= Rank(p)
    BY <1>4, <2>2, PhasesAre, RanksAre
  <2>4. CASE o \notin Known /\ ~(Rank(PhaseOf(o)) > Rank(p))
    <3>1. PhaseOf(o) \in Phases /\ Rank(PhaseOf(o)) \in 0..5 /\ Rank(p) \in 0..5
      BY <1>4, PhasesAre, RanksAre
    <3>2. PhaseOf(o) = p
      BY <1>4, <2>3, <2>4, <3>1, RanksAre
    <3>3. Elements(rs) \subseteq Calls
      BY <1>5, OwnElements DEF InOrder
    <3> QED
      BY <1>4, <1>5, <2>3, <3>2, <3>3, PhaseAwaits
  <2> QED
    BY <2>4
<1>10. LedgerLearned' /\ Said' /\ CommentsOnce' /\ Truthful'
  BY LedgerKept DEF Scanned
<1> QED
  BY <1>7, <1>8, <1>9, <1>10 DEF Scanned

-----------------------------------------------------------------------------
(* What the source answers when it is edited, or does not end.             *)
EditedAnswers(r) ==
  ClickUp!Edits(r) \cup {items \in ClickUp!Circling(r) : ClickUp!IsPaged(r)}

(* An answer is accepted.                                                  *)
Accepts(r, items, e) ==
  /\ queue # <<>> /\ r = Head(queue) /\ r.op # "refused"
  /\ \/ items = ClickUp!Honest(r) /\ edited' = edited
     \/ items \in EditedAnswers(r) /\ edited' = TRUE
  /\ ClickUp!Accepted(known, r, items)
  /\ e.request = r /\ e.outcome = "SUCCESS" /\ e.items = items
  /\ ledger \in Seq(Elements(ledger)) /\ ledger' = Append(ledger, e)
  /\ known' = ClickUp!Learned(known, r, items)
  /\ queue' = ClickUp!After(r, items)
  /\ phase' = phase

LEMMA HeadIsCall ==
  ASSUME Queue, queue # <<>>, NEW r, r = Head(queue), r.op # "refused"
  PROVE  /\ IsCall(r) /\ r \in Queued /\ r.op \in OpsIn(phase)
         /\ r.op = "get-task" => r.of \in Known
         /\ r.op \in {"list-comments", "list-replies", "get-task"} => phase = "details"
         /\ Tail(queue) \in Seq(Calls)
         /\ Queued = {r} \cup Elements(Tail(queue))
<1>1. /\ Tail(queue) \in Seq(Calls) /\ Elements(queue) = {r} \cup Elements(Tail(queue))
      /\ r \in Calls
  BY Split DEF Queue
<1>2. r \in Queued
  BY <1>1 DEF Queued
<1>3. MayAsk(r)
  BY <1>2 DEF Queue
<1>4. r.op \in OpsIn(phase) /\ phase \in Phases
  BY <1>3 DEF MayAsk, Queue
<1>5. r.op \in Ops
  BY <1>4 DEF OpsIn, Phases, Ops, Listings
<1>6. r.op \in {"list-comments", "list-replies", "get-task"} => phase = "details"
  BY <1>4 DEF OpsIn, Phases
<1>7. /\ r.op = "list-fields" => r.of \in ClickUp!Locations
      /\ r.op = "get-task" => r.of \in Known /\ r.of \in Tasks
  BY <1>3 DEF MayAsk, Queue, Tasks
<1> QED
  BY <1>1, <1>2, <1>4, <1>5, <1>6, <1>7 DEF IsCall, Queued

LEMMA AcceptedIs ==
  ASSUME Queue, NEW r, NEW items, NEW e, Accepts(r, items, e)
  PROVE  /\ IsCall(r) /\ Plausible(r, items)
         /\ queue' = NewCalls(r, items) \o Tail(queue)
         /\ NewCalls(r, items) \in Seq(Calls) /\ queue' \in Seq(Calls)
         /\ Queued' = Elements(NewCalls(r, items)) \cup Elements(Tail(queue))
         /\ Known' = Known \cup Brought(r, items)
         /\ Brought(r, items) \subseteq Things \ {ClickUpWorkspace}
         /\ ~edited' => ~edited /\ items = ClickUp!Honest(r)
<1>1. IsCall(r) /\ Tail(queue) \in Seq(Calls)
  BY HeadIsCall DEF Accepts
<1>2. Plausible(r, items)
  BY <1>1, HonestIsPlausible, EditedIsPlausible, CirclingIsPlausible
  DEF Accepts, EditedAnswers
<1>3. NewCalls(r, items) \in Seq(Calls)
  BY <1>1, <1>2, NewCallsAre
<1>4. queue' = NewCalls(r, items) \o Tail(queue)
  BY <1>1, CallsAfter DEF Accepts
<1>5. /\ queue' \in Seq(Calls)
      /\ Elements(queue') = Elements(NewCalls(r, items)) \cup Elements(Tail(queue))
  BY <1>1, <1>3, <1>4, Joined
<1>6. Known' = Known \cup Brought(r, items)
  BY LearnedIs DEF Accepts, Known
<1>7. Brought(r, items) \subseteq Things \ {ClickUpWorkspace}
  <2> SUFFICES ASSUME NEW o \in Brought(r, items) PROVE o \in Things /\ o # ClickUpWorkspace
    OBVIOUS
  <2>1. o \in Things /\ IF r.op = "get-task" THEN o \in Hangable ELSE ClickUpKindOf[o] = KindIn(r.op)
    BY <1>1, <1>2, BroughtIs
  <2>2. r.op # "get-task" => KindIn(r.op) # "workspace"
    BY <1>1 DEF IsCall, Ops, Listings, KindIn
  <2>3. ClickUpKindOf[o] # "workspace"
    BY <2>1, <2>2 DEF Hangable
  <2> QED
    BY <2>1, <2>3, KindsAre
<1>8. ~edited' => ~edited /\ items = ClickUp!Honest(r)
  BY DEF Accepts
<1> QED
  BY <1>1, <1>2, <1>3, <1>4, <1>5, <1>6, <1>7, <1>8 DEF Queued

LEMMA LedgerGrows ==
  ASSUME ledger \in Seq(Elements(ledger)), NEW e, ledger' = Append(ledger, e)
  PROVE  /\ Len(ledger) \in Nat /\ Len(ledger') = Len(ledger) + 1
         /\ \A i \in 1..Len(ledger) : i \in 1..Len(ledger') /\ ledger'[i] = ledger[i]
         /\ ledger'[Len(ledger) + 1] = e /\ Len(ledger) + 1 \in 1..Len(ledger')
         /\ \A i \in 1..Len(ledger') : i \in 1..Len(ledger) \/ i = Len(ledger) + 1
OBVIOUS

LEMMA QueueAfter ==
  ASSUME Queue, NEW r, NEW items, NEW e, Accepts(r, items, e)
  PROVE  Queue'
<1>1. /\ IsCall(r) /\ Plausible(r, items) /\ queue' \in Seq(Calls)
      /\ Queued' = Elements(NewCalls(r, items)) \cup Elements(Tail(queue))
      /\ Known' = Known \cup Brought(r, items)
      /\ Brought(r, items) \subseteq Things \ {ClickUpWorkspace}
  BY AcceptedIs
<1>2. /\ r.op \in OpsIn(phase) /\ Queued = {r} \cup Elements(Tail(queue))
      /\ r.op \in {"list-comments", "list-replies", "get-task"} => phase = "details"
  BY HeadIsCall DEF Accepts
<1>3. phase' = phase /\ phase \in Phases
  BY DEF Accepts, Queue
<1>4. ASSUME NEW q \in Elements(NewCalls(r, items)) PROVE MayAsk(q)'
  <2>1. \/ q.op = "refused"
        \/ q.op = r.op /\ ClickUp!IsPaged(r)
        \/ q.op = "list-replies" /\ r.op = "list-comments"
        \/ q.op = "list-comments" /\ r.op = "get-task"
    BY <1>1, NewCallsAre
  <2>2. q.op \in OpsIn(phase) \cup {"refused"}
    BY <1>2, <2>1 DEF OpsIn
  <2>3. q.op \notin {"list-fields", "get-task"}
    BY <2>1 DEF ClickUp!IsPaged
  <2> QED
    BY <1>3, <2>2, <2>3 DEF MayAsk
<1>5. ASSUME NEW q \in Elements(Tail(queue)) PROVE MayAsk(q)'
  <2>1. MayAsk(q)
    BY <1>2 DEF Queue
  <2> QED
    BY <1>1, <1>3, <2>1 DEF MayAsk
<1>6. Known' \subseteq Things \ {ClickUpWorkspace}
  BY <1>1 DEF Queue
<1>7. \A q \in Queued' : MayAsk(q)'
  BY <1>1, <1>4, <1>5
<1> QED
  BY <1>1, <1>3, <1>6, <1>7 DEF Queue

LEMMA LearnedAfter ==
  ASSUME Queue, LedgerLearned, NEW r, NEW items, NEW e, Accepts(r, items, e)
  PROVE  LedgerLearned'
<1>1. /\ IsCall(r) /\ Plausible(r, items)
      /\ Known' = Known \cup Brought(r, items)
      /\ ~edited' => ~edited /\ items = ClickUp!Honest(r)
  BY AcceptedIs
<1>2. ASSUME NEW entry, IsLearned(entry) PROVE IsLearned(entry)'
  BY <1>1, <1>2 DEF IsLearned
<1>3. IsLearned(e)'
  <2>1. e.request = r /\ e.items = items
    BY DEF Accepts
  <2>2. \A i \in 1..Len(items) : items[i] \in Elements(items) /\ IsItem(r, items[i])
    BY <1>1 DEF Plausible, Elements
  <2>3. ASSUME NEW i \in 1..Len(items)
        PROVE  LET item == items[i] IN
               /\ item.id \in Known' /\ ClickUpKindOf[item.id] = KindIn(r.op)
               /\ HangingOn(ClickUpSource[item.id]) \subseteq HangingOn(item)
               /\ IF r.op = "get-task"
                    THEN HangingOn(item) \subseteq Known' /\ item.id = r.of
                    ELSE HangingOn(item) = HangingOn(ClickUpSource[item.id])
               /\ ~edited' => item = ClickUpSource[item.id]
    <3>1. IsItem(r, items[i])
      BY <2>2
    <3>2. items[i].id \in Known'
      <4>1. CASE r.op = "get-task"
        <5>1. items[i].id = r.of
          BY <3>1, <4>1 DEF IsItem
        <5>2. r.of \in Known
          BY <4>1, HeadIsCall DEF Accepts
        <5> QED
          BY <1>1, <5>1, <5>2
      <4>2. CASE r.op # "get-task"
        BY <1>1, <4>2 DEF Brought, IdsOf
      <4> QED
        BY <4>1, <4>2
    <3>3. r.op = "get-task" => HangingOn(items[i]) \subseteq Known'
      <4>1. r.op = "get-task" => items[i] = items[1]
        BY <1>1 DEF Plausible
      <4> QED
        BY <1>1, <4>1 DEF Brought
    <3>4. ~edited' => items[i] = ClickUpSource[items[i].id]
      BY <1>1, <2>2, HonestIsPlausible
    <3> QED
      BY <3>1, <3>2, <3>3, <3>4 DEF IsItem
  <2>4. r.op = "get-task" => Len(items) >= 1
    BY <1>1 DEF Plausible
  <2>5. r.op = "get-task" => (~edited' => Len(items) = 1)
    BY <1>1, HonestIs
  <2>6. r.op \in Ops
    BY <1>1 DEF IsCall
  <2>7. items \in Seq(Elements(items))
    BY <1>1 DEF Plausible
  <2> QED
    BY <2>1, <2>3, <2>4, <2>5, <2>6, <2>7 DEF IsLearned
<1>4. /\ \A i \in 1..Len(ledger) : ledger'[i] = ledger[i]
      /\ ledger'[Len(ledger) + 1] = e
      /\ \A i \in 1..Len(ledger') : i \in 1..Len(ledger) \/ i = Len(ledger) + 1
  BY LedgerGrows DEF Accepts
<1>5. ASSUME NEW i \in 1..Len(ledger'), NEW entry, entry = ledger'[i], IsAnswer(entry)
      PROVE  IsLearned(entry)'
  <2>1. CASE i \in 1..Len(ledger)
    BY <1>2, <1>4, <1>5, <2>1 DEF LedgerLearned
  <2>2. CASE i = Len(ledger) + 1
    BY <1>3, <1>4, <1>5, <2>2
  <2> QED
    BY <1>4, <2>1, <2>2
<1> QED
  BY <1>5 DEF LedgerLearned, IsLearned, IsAnswer

LEMMA SaidAfter ==
  ASSUME Queue, Said, NEW r, NEW items, NEW e, Accepts(r, items, e)
  PROVE  Said'
<1>1. /\ IsCall(r) /\ Plausible(r, items) /\ Known' = Known \cup Brought(r, items)
  BY AcceptedIs
<1>2. /\ \A i \in 1..Len(ledger) : i \in 1..Len(ledger') /\ ledger'[i] = ledger[i]
      /\ ledger'[Len(ledger) + 1] = e /\ Len(ledger) + 1 \in 1..Len(ledger')
  BY LedgerGrows DEF Accepts
<1>3. ASSUME NEW o \in Brought(r, items) PROVE Says(e, o)
  <2>1. e.request = r /\ e.items = items /\ IsAnswer(e)
    BY DEF Accepts, IsAnswer
  <2>2. IF r.op = "get-task" THEN o \in Hangable ELSE ClickUpKindOf[o] = KindIn(r.op)
    BY <1>1, BroughtIs
  <2>3. CASE r.op = "get-task"
    <3>1. Len(items) >= 1 /\ 1 \in 1..Len(items)
      BY <1>1, <2>3 DEF Plausible
    <3>2. o \in HangingOn(items[1])
      BY <2>3 DEF Brought
    <3> QED
      BY <2>1, <2>2, <2>3, <3>1, <3>2 DEF Says, Hangable
  <2>4. CASE r.op # "get-task"
    <3>1. r.op \in Listings /\ KindIn(r.op) \notin {"attachment", "relationship"}
      BY <1>1, <2>4 DEF IsCall, Ops, Listings, KindIn
    <3>2. \E i \in 1..Len(items) : items[i].id = o
      BY <2>4 DEF Brought, IdsOf
    <3> QED
      BY <2>1, <2>2, <2>4, <3>1, <3>2 DEF Says
  <2> QED
    BY <2>3, <2>4
<1>4. ASSUME NEW o \in Known' PROVE \E i \in 1..Len(ledger') : Says(ledger'[i], o)
  BY <1>1, <1>2, <1>3, <1>4 DEF Said
<1>5. \A o \in Known' : \E i \in 1..Len(ledger') : Says(ledger'[i], o)
  BY <1>4
<1> QED
  BY <1>5 DEF Said, Says, IsAnswer

LEMMA DetailsAfter ==
  ASSUME Queue, Details, NEW r, NEW items, NEW e, Accepts(r, items, e)
  PROVE  Details'
<1> DEFINE new == NewCalls(r, items)
           rest == Tail(queue)
<1>1. /\ IsCall(r) /\ Plausible(r, items) /\ queue' = new \o rest /\ new \in Seq(Calls)
      /\ Queued' = Elements(new) \cup Elements(rest)
      /\ Known' = Known \cup Brought(r, items)
  BY AcceptedIs
<1>2. /\ r \in Queued /\ Queued = {r} \cup Elements(rest) /\ rest \in Seq(Calls)
      /\ r.op \in {"list-comments", "list-replies", "get-task"} => phase = "details"
      /\ r.op \in OpsIn(phase)
  BY HeadIsCall DEF Accepts
<1>3. /\ phase' = phase /\ phase \in Phases /\ e.request = r /\ e.outcome = "SUCCESS"
      /\ queue \in Seq(Calls) /\ queue # <<>> /\ r = Head(queue)
  BY DEF Accepts, Queue
<1>4. \A q \in Elements(new) : q.op # "get-task"
  BY <1>1, NewCallsAre DEF ClickUp!IsPaged
<1> HIDE DEF new
<1>5. /\ Len(rest) \in Nat /\ Len(queue) = Len(rest) + 1 /\ queue[1] = r
      /\ \A i \in 1..Len(rest) : rest[i] = queue[i + 1] /\ i + 1 \in 1..Len(queue)
      /\ 1 \in 1..Len(queue)
  BY <1>3
<1> HIDE DEF rest
<1>6. \A q \in Elements(rest) : r.op = "get-task" /\ q.op = "get-task" => q.of # r.of
  <2> SUFFICES ASSUME NEW i \in 1..Len(rest), r.op = "get-task", rest[i].op = "get-task",
                      rest[i].of = r.of
               PROVE  FALSE
    BY DEF Elements
  <2>1. i + 1 = 1
    BY <1>5 DEF Details
  <2> QED
    BY <1>5, <2>1
<1>7. ASSUME NEW i \in 1..Len(queue'), NEW j \in 1..Len(queue'),
             queue'[i].op = "get-task", queue'[j].op = "get-task", queue'[i].of = queue'[j].of
      PROVE  i = j
  <2> DEFINE n == Len(new)
             joined == new \o rest
  <2>1. /\ n \in Nat /\ Len(joined) = n + Len(rest)
        /\ \A k \in 1..n : joined[k] = new[k]
        /\ \A k \in 1..Len(rest) : joined[n + k] = rest[k]
    <3>1. /\ Len(joined) = Len(new) + Len(rest)
          /\ \A k \in 1..Len(new) : joined[k] = new[k]
          /\ \A k \in 1..Len(rest) : joined[Len(new) + k] = rest[k]
      BY <1>1, <1>2, Concatenated
    <3>2. Len(new) \in Nat
      BY <1>1
    <3> QED
      BY <3>1, <3>2
  <2>2. queue' = joined
    BY <1>1
  <2>3. \A k \in 1..n : joined[k].op # "get-task"
    BY <1>4, <2>1 DEF Elements
  <2> HIDE DEF n, joined
  <2>4. \A k \in 1..Len(joined) : k \in 1..n \/ (k - n \in 1..Len(rest) /\ n + (k - n) = k)
    BY <1>5, <2>1
  <2>5. ASSUME NEW k \in 1..Len(joined), joined[k].op = "get-task"
        PROVE  k - n \in 1..Len(rest) /\ joined[k] = queue[k - n + 1] /\ k - n + 1 \in 1..Len(queue)
    BY <1>5, <2>1, <2>3, <2>4, <2>5
  <2>6. i - n + 1 = j - n + 1
    <3>1. /\ joined[i] = queue[i - n + 1] /\ i - n + 1 \in 1..Len(queue)
          /\ joined[j] = queue[j - n + 1] /\ j - n + 1 \in 1..Len(queue)
      BY <1>7, <2>2, <2>5
    <3> QED
      BY <1>7, <2>2, <3>1 DEF Details
  <2> QED
    BY <1>7, <2>1, <2>2, <2>5, <2>6
<1>8. /\ \A i \in 1..Len(ledger) : i \in 1..Len(ledger') /\ ledger'[i] = ledger[i]
      /\ ledger'[Len(ledger) + 1] = e /\ Len(ledger) + 1 \in 1..Len(ledger')
      /\ \A i \in 1..Len(ledger') : i \in 1..Len(ledger) \/ i = Len(ledger) + 1
  BY LedgerGrows DEF Accepts
<1>9. \A t : IsDetail(e, t) <=> r.op = "get-task" /\ r.of = t
  BY <1>3 DEF IsDetail, IsAnswer
<1>10. ASSUME NEW t \in Things, NEW i \in 1..Len(ledger'), IsDetail(ledger'[i], t)
       PROVE  /\ phase = "details"
              /\ \A q \in Queued' : q.op = "get-task" => q.of # t
              /\ \A j \in 1..Len(ledger') : IsDetail(ledger'[j], t) => i = j
  <2>1. CASE i \in 1..Len(ledger)
    <3>1. /\ phase = "details"
          /\ \A q \in Queued : q.op = "get-task" => q.of # t
          /\ \A j \in 1..Len(ledger) : IsDetail(ledger[j], t) => i = j
      BY <1>8, <1>10, <2>1 DEF Details
    <3>2. ~IsDetail(e, t)
      BY <1>2, <1>9, <3>1
    <3> QED
      BY <1>1, <1>2, <1>4, <1>8, <3>1, <3>2
  <2>2. CASE i = Len(ledger) + 1
    <3>1. r.op = "get-task" /\ r.of = t
      BY <1>8, <1>9, <1>10, <2>2
    <3>2. \A j \in 1..Len(ledger) : ~IsDetail(ledger[j], t)
      BY <1>2, <3>1 DEF Details
    <3> QED
      BY <1>1, <1>2, <1>4, <1>6, <1>8, <2>2, <3>1, <3>2
  <2> QED
    BY <1>8, <2>1, <2>2
<1>11. ASSUME phase = "details", NEW t \in Known', ClickUpKindOf[t] = "task"
       PROVE  \/ \E q \in Queued' : q.op = "get-task" /\ q.of = t
              \/ \E i \in 1..Len(ledger') : IsDetail(ledger'[i], t)
  <2>1. t \in Known
    <3> SUFFICES ASSUME t \in Brought(r, items) PROVE FALSE
      BY <1>1
    <3>1. IF r.op = "get-task" THEN t \in Hangable ELSE ClickUpKindOf[t] = KindIn(r.op)
      BY <1>1, BroughtIs
    <3>2. r.op # "get-task" => KindIn(r.op) = "comment"
      BY <1>2, <1>11 DEF OpsIn, KindIn
    <3> QED
      BY <1>11, <3>1, <3>2 DEF Hangable
  <2>2. \/ \E q \in Queued : q.op = "get-task" /\ q.of = t
        \/ \E i \in 1..Len(ledger) : IsDetail(ledger[i], t)
    BY <1>11, <2>1 DEF Details
  <2>3. CASE \E i \in 1..Len(ledger) : IsDetail(ledger[i], t)
    BY <1>8, <2>3
  <2>4. CASE \E q \in Queued : q.op = "get-task" /\ q.of = t
    BY <1>1, <1>2, <1>8, <1>9, <2>4
  <2> QED
    BY <2>2, <2>3, <2>4
<1>12. \A i, j \in 1..Len(queue') :
         queue'[i].op = "get-task" /\ queue'[j].op = "get-task" /\ queue'[i].of = queue'[j].of
           => i = j
  BY <1>7
<1>13. \A i \in 1..Len(ledger') : \A t \in Things : IsDetail(ledger'[i], t) =>
         /\ phase = "details"
         /\ \A q \in Queued' : q.op = "get-task" => q.of # t
         /\ \A j \in 1..Len(ledger') : IsDetail(ledger'[j], t) => i = j
  BY <1>10
<1>14. phase = "details" =>
         \A t \in Known' : ClickUpKindOf[t] = "task" =>
           \/ \E q \in Queued' : q.op = "get-task" /\ q.of = t
           \/ \E i \in 1..Len(ledger') : IsDetail(ledger'[i], t)
  BY <1>11
<1> QED
  BY <1>3, <1>12, <1>13, <1>14 DEF Details, IsDetail, IsAnswer

LEMMA CommentsAfter ==
  ASSUME Queue, LedgerLearned, CommentsOnce, NEW r, NEW items, NEW e, Accepts(r, items, e)
  PROVE  CommentsOnce'
<1>1. e.request = r /\ e.items = items /\ IsAnswer(e)
  BY DEF Accepts, IsAnswer
<1>2. /\ \A i \in 1..Len(ledger) : i \in 1..Len(ledger') /\ ledger'[i] = ledger[i]
      /\ ledger'[Len(ledger) + 1] = e /\ Len(ledger) + 1 \in 1..Len(ledger')
      /\ \A i \in 1..Len(ledger') : i \in 1..Len(ledger) \/ i = Len(ledger) + 1
  BY LedgerGrows DEF Accepts
<1>3. ASSUME HasComments(e)
      PROVE  /\ \A i, j \in 1..Len(items) : items[i].id = items[j].id => i = j
             /\ \A i \in 1..Len(items) : items[i].id \notin Known
  <2>1. r.op \in {"list-comments", "list-replies"}
    BY <1>1, <1>3 DEF HasComments
  <2>2. /\ ~ClickUp!Repeats(items)
        /\ \A i \in 1..Len(items) : items[i].id \notin DOMAIN known
    BY <2>1 DEF Accepts, ClickUp!Accepted, ClickUp!Positions
  <2> QED
    BY <2>2 DEF ClickUp!Repeats, ClickUp!Positions, Known
<1>4. ASSUME NEW i \in 1..Len(ledger), HasComments(ledger[i]), NEW j \in 1..Len(ledger[i].items)
      PROVE  ledger[i].items[j].id \in Known
  <2>1. IsLearned(ledger[i])
    BY <1>4 DEF LedgerLearned, HasComments
  <2> QED
    BY <1>4, <2>1 DEF IsLearned
<1>5. ASSUME NEW i \in 1..Len(ledger'), NEW k \in 1..Len(ledger'),
             HasComments(ledger'[i]), HasComments(ledger'[k]),
             NEW j \in 1..Len(ledger'[i].items), NEW l \in 1..Len(ledger'[k].items),
             ledger'[i].items[j].id = ledger'[k].items[l].id
      PROVE  i = k /\ j = l
  <2>1. CASE i \in 1..Len(ledger) /\ k \in 1..Len(ledger)
    BY <1>2, <1>5, <2>1 DEF CommentsOnce
  <2>2. CASE i \in 1..Len(ledger) /\ k = Len(ledger) + 1
    <3>1. ledger[i].items[j].id \in Known
      BY <1>2, <1>4, <1>5, <2>2
    <3>2. items[l].id \notin Known
      BY <1>1, <1>2, <1>3, <1>5, <2>2
    <3> QED
      BY <1>1, <1>2, <1>5, <2>2, <3>1, <3>2
  <2>3. CASE i = Len(ledger) + 1 /\ k \in 1..Len(ledger)
    <3>1. ledger[k].items[l].id \in Known
      BY <1>2, <1>4, <1>5, <2>3
    <3>2. items[j].id \notin Known
      BY <1>1, <1>2, <1>3, <1>5, <2>3
    <3> QED
      BY <1>1, <1>2, <1>5, <2>3, <3>1, <3>2
  <2>4. CASE i = Len(ledger) + 1 /\ k = Len(ledger) + 1
    BY <1>1, <1>2, <1>3, <1>5, <2>4
  <2> QED
    BY <1>2, <2>1, <2>2, <2>3, <2>4
<1>6. \A i, k \in 1..Len(ledger') : HasComments(ledger'[i]) /\ HasComments(ledger'[k]) =>
        \A j \in 1..Len(ledger'[i].items) : \A l \in 1..Len(ledger'[k].items) :
          ledger'[i].items[j].id = ledger'[k].items[l].id => i = k /\ j = l
  BY <1>5
<1> QED
  BY <1>6 DEF CommentsOnce, HasComments, IsAnswer

LEMMA TruthAfter ==
  ASSUME Queue, Truthful, NEW r, NEW items, NEW e, Accepts(r, items, e)
  PROVE  Truthful'
<1>1. /\ IsCall(r) /\ Plausible(r, items) /\ Known' = Known \cup Brought(r, items)
      /\ ~edited' => ~edited /\ items = ClickUp!Honest(r)
  BY AcceptedIs
<1>2. ASSUME ~edited', NEW o \in Known', ClickUpKindOf[o] # "relationship"
      PROVE  known'[o] = Truth(o)
  <2>1. ~edited /\ items = ClickUp!Honest(r)
    BY <1>1, <1>2
  <2> DEFINE then == ClickUp!Learned(known, r, items)
  <2>2. known' = then
    BY DEF Accepts
  <2>6. /\ \A x \in Known \ Brought(r, items) : then[x] = known[x]
        /\ r.op = "get-task" => \A x \in ClickUp!ToSet(items[1].attachments) :
             then[x] = [parent |-> r.of, home |-> None, name |-> None]
        /\ r.op # "get-task" =>
             \A x \in Brought(r, items) : IsEntry(r, items, x, then[x])
    BY LearnedIs
  <2> HIDE DEF then
  <2>3. CASE o \notin Brought(r, items)
    <3>1. o \in Known
      BY <1>1, <1>2, <2>3
    <3>2. then[o] = known[o]
      BY <2>3, <2>6, <3>1
    <3>3. known[o] = Truth(o)
      BY <1>2, <2>1, <3>1 DEF Truthful
    <3> QED
      BY <2>2, <3>2, <3>3
  <2>4. CASE r.op = "get-task" /\ o \in Brought(r, items)
    <3>1. Len(items) = 1 /\ items[1] = ClickUpSource[r.of]
      BY <1>1, <2>1, <2>4, HonestIs
    <3>2. r.of \in Tasks /\ r.of \in Things
      BY <1>1, <2>4 DEF IsCall, Tasks
    <3>3. o \notin items[1].links
      <4>1. items[1].links \subseteq DOMAIN ClickUpEndsOf
        BY <3>1, <3>2, ItemIs
      <4> QED
        BY <1>2, <4>1, RelationshipsAre
    <3>4. o \in ClickUp!ToSet(items[1].attachments)
      BY <2>4, <3>3 DEF Brought, HangingOn
    <3>5. ClickUpKindOf[o] = "attachment" /\ ClickUpListedIn[o] = r.of
      BY <3>1, <3>2, <3>4, TaskIs
    <3>6. then[o] = [parent |-> r.of, home |-> None, name |-> None]
      BY <2>4, <2>6, <3>4
    <3>7. Truth(o) = [parent |-> r.of, home |-> None, name |-> None]
      BY <3>5 DEF Truth
    <3> QED
      BY <2>2, <3>6, <3>7
  <2>5. CASE r.op # "get-task" /\ o \in Brought(r, items)
    <3>1. PICK i \in 1..Len(items) : items[i].id = o /\ then[o] = ClickUp!Entry(r, items[i])
      BY <2>5, <2>6 DEF IsEntry
    <3>2. items[i] \in Elements(items)
      BY DEF Elements
    <3>3. items[i] = ClickUpSource[o] /\ o \in Wanted(r)
      BY <1>1, <2>1, <3>1, <3>2, HonestIsPlausible
    <3>4. ClickUp!Entry(r, ClickUpSource[o]) = Truth(o)
      BY <1>1, <2>5, <3>3, EntryIsTrue
    <3> QED
      BY <2>2, <3>1, <3>3, <3>4
  <2> QED
    BY <2>3, <2>4, <2>5
<1> QED
  BY <1>2 DEF Truthful

LEMMA ReachesAfter ==
  ASSUME Queue, Reaches, NEW r, NEW items, NEW e, Accepts(r, items, e)
  PROVE  Reaches'
<1>1. /\ IsCall(r) /\ Plausible(r, items) /\ Known' = Known \cup Brought(r, items)
      /\ Queued' = Elements(NewCalls(r, items)) \cup Elements(Tail(queue))
      /\ ~edited' => ~edited /\ items = ClickUp!Honest(r)
  BY AcceptedIs
<1>2. Queued = {r} \cup Elements(Tail(queue)) /\ r.op # "refused" /\ phase' = phase
  BY HeadIsCall DEF Accepts
<1>3. ASSUME ~edited', \A q \in Queued' : q.op # "refused", NEW o \in Things \ {ClickUpWorkspace}
      PROVE  \/ o \in Known'
             \/ Rank(PhaseOf(o)) > Rank(phase)
             \/ PhaseOf(o) = phase /\ \E q \in Queued' : Awaits(q, o)
  <2>1. ~edited /\ Unrefused /\ items = ClickUp!Honest(r)
    BY <1>1, <1>2, <1>3 DEF Unrefused
  <2>2. \/ o \in Known
        \/ Rank(PhaseOf(o)) > Rank(phase)
        \/ PhaseOf(o) = phase /\ \E q \in Queued : Awaits(q, o)
    BY <2>1 DEF Reaches
  <2>3. ASSUME Awaits(r, o)
        PROVE  o \in Brought(r, items) \/ \E q \in Elements(NewCalls(r, items)) : Awaits(q, o)
    BY <1>1, <1>3, <2>1, <2>3, Follows
  <2> QED
    BY <1>1, <1>2, <2>2, <2>3
<1>4. ~edited' /\ (\A q \in Queued' : q.op # "refused") =>
        \A o \in Things \ {ClickUpWorkspace} :
          \/ o \in Known'
          \/ Rank(PhaseOf(o)) > Rank(phase)
          \/ PhaseOf(o) = phase /\ \E q \in Queued' : Awaits(q, o)
  BY <1>3
<1> QED
  BY <1>2, <1>4 DEF Reaches, Unrefused

LEMMA ScannedAfter ==
  ASSUME Scanned, NEW r, NEW items, NEW e, Accepts(r, items, e)
  PROVE  Scanned'
BY QueueAfter, LearnedAfter, SaidAfter, DetailsAfter, CommentsAfter, TruthAfter, ReachesAfter
   DEF Scanned

-----------------------------------------------------------------------------
(* The invariant.                                                          *)

(* What is taken from the invariant of Recording.                          *)
ClickUpFiles ==
  /\ ledger \in Seq(Elements(ledger))
  /\ Going => closing = "open"
  /\ closing = "open" => place.run # <<>> /\ place.run[1].status = "IN_PROGRESS"
  /\ place = [at |-> place.at, inventory |-> place.inventory,
              requests |-> place.requests, run |-> place.run]

LEMMA ClickUpFilesAre == ClickUpSession!IInv => ClickUpFiles
<1> SUFFICES ASSUME ClickUpSession!IInv PROVE ClickUpFiles
  OBVIOUS
<1>1. /\ at \in {"request", "attempt", "sleep"} => closing = "open"
      /\ ledger \in Seq({ledger[i] : i \in 1..Len(ledger)})
      /\ closing = "open" => place.run # <<>> /\ place.run[1].status = "IN_PROGRESS"
      /\ place = [at |-> place.at, inventory |-> place.inventory,
                  requests |-> place.requests, run |-> place.run]
  BY DEF ClickUpSession!IInv, ClickUpSession!Control, ClickUpSession!IsSequence,
         ClickUpSession!Files
<1> QED
  BY <1>1 DEF ClickUpFiles, Elements, Going

LEMMA RestKept ==
  ASSUME Queue, Reaches, UNCHANGED <<phase, queue, known, edited>>
  PROVE  Queue' /\ Reaches'
<1>1. /\ phase' = phase /\ queue' = queue /\ edited' = edited
      /\ Known' = Known /\ Queued' = Queued
  BY DEF Known, Queued
<1>2. \A r : MayAsk(r)' <=> MayAsk(r)
  BY <1>1 DEF MayAsk
<1>3. Queue'
  BY <1>1, <1>2 DEF Queue
<1>4. Unrefused' <=> Unrefused
  BY <1>1 DEF Unrefused
<1>5. Reaches'
  BY <1>1, <1>4 DEF Reaches
<1> QED
  BY <1>3, <1>5

LEMMA Frozen ==
  ASSUME Scanned, UNCHANGED <<phase, queue, known, edited, ledger>>
  PROVE  Scanned'
<1>1. Queue' /\ Reaches'
  BY RestKept DEF Scanned
<1>2. LedgerLearned' /\ Said' /\ CommentsOnce' /\ Truthful'
  BY LedgerKept DEF Scanned
<1>3. Known' = Known /\ Queued' = Queued
  BY DEF Known, Queued
<1>4. Details'
  BY <1>3 DEF Scanned, Details, IsDetail, IsAnswer
<1> QED
  BY <1>1, <1>2, <1>4 DEF Scanned

(* An attempt that failed says nothing.                                    *)
LEMMA FailureIsRecorded ==
  ASSUME Scanned, ledger \in Seq(Elements(ledger)), NEW e, e.outcome = "FAILED_ATTEMPT",
         ledger' = Append(ledger, e), UNCHANGED <<phase, queue, known, edited>>
  PROVE  Scanned'
<1>1. /\ \A i \in 1..Len(ledger) : i \in 1..Len(ledger') /\ ledger'[i] = ledger[i]
      /\ ledger'[Len(ledger) + 1] = e
      /\ \A i \in 1..Len(ledger') : i \in 1..Len(ledger) \/ i = Len(ledger) + 1
  BY LedgerGrows
<1>2. ~IsAnswer(e)
  BY DEF IsAnswer
<1>3. \A i \in 1..Len(ledger') :
        IsAnswer(ledger'[i]) => i \in 1..Len(ledger) /\ ledger'[i] = ledger[i]
  BY <1>1, <1>2
<1>4. Known' = Known /\ Queued' = Queued /\ phase' = phase /\ edited' = edited
  BY DEF Known, Queued
<1>5. Queue' /\ Reaches'
  BY RestKept DEF Scanned
<1>6. LedgerLearned'
  <2>0. \A entry : IsLearned(entry)' <=> IsLearned(entry)
    BY <1>4 DEF IsLearned
  <2>1. ASSUME NEW i \in 1..Len(ledger'), NEW entry, entry = ledger'[i], IsAnswer(entry)
        PROVE  IsLearned(entry)'
    <3>1. IsLearned(entry)
      BY <1>3, <2>1 DEF Scanned, LedgerLearned
    <3> QED
      BY <2>0, <3>1
  <2> QED
    BY <2>1 DEF LedgerLearned, IsLearned, IsAnswer
<1>7. Said'
  <2>1. \A o \in Known : \E i \in 1..Len(ledger') : Says(ledger'[i], o)
    BY <1>1 DEF Scanned, Said
  <2> QED
    BY <1>4, <2>1 DEF Said, Says, IsAnswer
<1>8. Details'
  <2>1. \A i \in 1..Len(ledger') : \A t \in Things : IsDetail(ledger'[i], t) =>
          /\ phase = "details"
          /\ \A r \in Queued : r.op = "get-task" => r.of # t
          /\ \A j \in 1..Len(ledger') : IsDetail(ledger'[j], t) => i = j
    BY <1>3 DEF Scanned, Details, IsDetail
  <2>2. phase = "details" =>
          \A t \in Known : ClickUpKindOf[t] = "task" =>
            \/ \E r \in Queued : r.op = "get-task" /\ r.of = t
            \/ \E i \in 1..Len(ledger') : IsDetail(ledger'[i], t)
    BY <1>1 DEF Scanned, Details
  <2>3. \A i, j \in 1..Len(queue') :
          queue'[i].op = "get-task" /\ queue'[j].op = "get-task" /\ queue'[i].of = queue'[j].of
            => i = j
    BY DEF Scanned, Details
  <2> QED
    BY <1>4, <2>1, <2>2, <2>3 DEF Details, IsDetail, IsAnswer
<1>9. CommentsOnce'
  <2>1. \A i, k \in 1..Len(ledger') : HasComments(ledger'[i]) /\ HasComments(ledger'[k]) =>
          \A j \in 1..Len(ledger'[i].items) : \A l \in 1..Len(ledger'[k].items) :
            ledger'[i].items[j].id = ledger'[k].items[l].id => i = k /\ j = l
    <3>1. \A i \in 1..Len(ledger') :
            HasComments(ledger'[i]) => i \in 1..Len(ledger) /\ ledger'[i] = ledger[i]
      BY <1>3 DEF HasComments
    <3> QED
      BY <3>1 DEF Scanned, CommentsOnce
  <2> QED
    BY <2>1 DEF CommentsOnce, HasComments, IsAnswer
<1>10. Truthful'
  BY <1>4 DEF Scanned, Truthful
<1> QED
  BY <1>5, <1>6, <1>7, <1>8, <1>9, <1>10 DEF Scanned

(* An open session goes on, or is given up.                                *)
LEMMA GoesOn ==
  ASSUME ClickUpFiles, closing = "open", closing' = "open", UNCHANGED place, Scanned',
         at' \in {"attempt", "sleep"} => queue' # <<>> /\ Head(queue').op # "refused"
  PROVE  ScanInv'
<1>1. ~Ended' /\ ~IsCompleted'
  BY DEF ClickUpFiles, Ended, IsCompleted
<1> QED
  BY <1>1 DEF ScanInv

LEMMA GivenUp ==
  ASSUME ClickUpFiles, closing = "open", ClickUp!GiveUp, UNCHANGED place
  PROVE  ScanInv'
<1>1. at' = "returned" /\ closing' = "fail-ledger"
  BY DEF ClickUp!GiveUp, ClickUp!Fail
<1>2. ~Ended' /\ ~IsCompleted' /\ ~Going'
  BY <1>1 DEF ClickUpFiles, Ended, IsCompleted, Going
<1> QED
  BY <1>1, <1>2 DEF ScanInv

LEMMA AttemptFailed ==
  ASSUME ClickUpFiles, ScanInv, at = "attempt", NEW retrying \in BOOLEAN,
         ClickUp!RetryOrGiveUp(retrying)
  PROVE  ScanInv'
<1>1. closing = "open" /\ Scanned /\ queue # <<>> /\ Head(queue).op # "refused" /\ UNCHANGED place
  BY DEF ClickUpFiles, ScanInv, Going, ClickUp!RetryOrGiveUp
<1>2. CASE ~retrying
  BY <1>1, <1>2, GivenUp DEF ClickUp!RetryOrGiveUp
<1>3. CASE retrying
  <2> DEFINE e == [request |-> Head(queue), attempt |-> try, outcome |-> "FAILED_ATTEMPT",
                   retrying |-> retrying, items |-> <<>>]
  <2>1. ledger' = Append(ledger, e) /\ UNCHANGED <<phase, queue, known, edited, closing>>
    BY <1>3 DEF ClickUp!RetryOrGiveUp, ClickUp!RecordFailure
  <2>2. e.outcome = "FAILED_ATTEMPT"
    OBVIOUS
  <2> HIDE DEF e
  <2>3. Scanned'
    BY <1>1, <2>1, <2>2, FailureIsRecorded DEF ClickUpFiles
  <2> QED
    BY <1>1, <2>1, <2>3, GoesOn
<1> QED
  BY <1>2, <1>3

LEMMA ScanAnswered ==
  ASSUME ClickUpFiles, ScanInv, NEW items, NEW valid \in BOOLEAN, ClickUp!Answered(items, valid),
         valid => \/ items = ClickUp!Honest(Head(queue)) /\ edited' = edited
                  \/ items \in EditedAnswers(Head(queue)) /\ edited' = TRUE
  PROVE  ScanInv'
<1> DEFINE r == Head(queue)
           e == [request |-> r, attempt |-> try, outcome |-> "SUCCESS",
                 retrying |-> FALSE, items |-> items]
<1>1. at = "attempt" /\ UNCHANGED <<place, phase>> /\ ledger' = Append(ledger, e)
  BY DEF ClickUp!Answered, ClickUp!Send, ClickUp!RecordResponse
<1>2. closing = "open" /\ Scanned /\ queue # <<>> /\ r.op # "refused"
  BY <1>1 DEF ClickUpFiles, ScanInv, Going
<1>3. CASE valid /\ ClickUp!Accepted(known, r, items)
  <2>1. /\ at' = "request" /\ queue' = ClickUp!After(r, items)
        /\ known' = ClickUp!Learned(known, r, items) /\ closing' = closing
    BY <1>3 DEF ClickUp!Answered
  <2>2. e.request = r /\ e.outcome = "SUCCESS" /\ e.items = items
    OBVIOUS
  <2> HIDE DEF e
  <2>3. Accepts(r, items, e)
    BY <1>1, <1>2, <1>3, <2>1, <2>2 DEF Accepts, ClickUpFiles
  <2> HIDE DEF r
  <2>4. Scanned'
    BY <1>2, <2>3, ScannedAfter
  <2> QED
    BY <1>1, <1>2, <2>1, <2>4, GoesOn
<1>4. CASE ~(valid /\ ClickUp!Accepted(known, r, items))
  <2>1. ClickUp!GiveUp
    BY <1>4 DEF ClickUp!Answered
  <2> QED
    BY <1>1, <1>2, <2>1, GivenUp
<1> QED
  BY <1>3, <1>4

LEMMA ScanRequest ==
  ASSUME ClickUpFiles, ScanInv, ClickUp!Request
  PROVE  ScanInv'
<1>0. Going => closing = "open" /\ Scanned
  BY DEF ClickUpFiles, ScanInv
<1>1. CASE ClickUp!NextPhase
  <2>1. closing = "open" /\ Scanned /\ queue = <<>> /\ phase # "details" /\ at = "request"
        /\ UNCHANGED <<place, known, ledger, edited>>
    BY <1>0, <1>1 DEF ClickUp!NextPhase, Going
  <2>2. CASE ClickUp!GiveUp
    BY <2>1, <2>2, GivenUp
  <2>3. CASE /\ phase' = ClickUp!NextOf(phase) /\ queue' = ClickUp!RequestsOf(phase')
             /\ UNCHANGED <<at, closing>>
    <3>1. Scanned'
      BY <2>1, <2>3, PhaseBegins
    <3> QED
      BY <2>1, <2>3, <3>1, GoesOn
  <2> QED
    BY <1>1, <2>2, <2>3 DEF ClickUp!NextPhase
<1>2. CASE ClickUp!NextRequest
  <2>1. closing = "open" /\ Scanned /\ UNCHANGED <<place, phase, queue, known, ledger, edited>>
    BY <1>0, <1>2 DEF ClickUp!NextRequest, Going
  <2>2. CASE ClickUp!GiveUp
    BY <2>1, <2>2, GivenUp
  <2>3. CASE queue # <<>> /\ Head(queue).op # "refused" /\ closing' = closing
    <3>1. Scanned'
      BY <2>1, Frozen
    <3> QED
      BY <2>1, <2>3, <3>1, GoesOn
  <2> QED
    BY <1>2, <2>2, <2>3 DEF ClickUp!NextRequest
<1>3. CASE ClickUp!BodyFails
  BY <1>3, AttemptFailed DEF ClickUp!BodyFails, ClickUp!Send
<1>4. CASE ClickUp!NoConnection
  <2>1. (try < MaxAttempts /\ ~stopped) \in BOOLEAN
    OBVIOUS
  <2> QED
    BY <1>4, <2>1, AttemptFailed DEF ClickUp!NoConnection, ClickUp!Send
<1>5. ASSUME NEW retryable \in BOOLEAN, ClickUp!Refused(retryable)
      PROVE  ScanInv'
  <2>1. ClickUp!RetriesStatus(retryable) \in BOOLEAN
    BY DEF ClickUp!RetriesStatus
  <2> QED
    BY <1>5, <2>1, AttemptFailed DEF ClickUp!Refused, ClickUp!Send
<1>6. CASE ClickUp!Sleep
  <2>1. /\ closing = "open" /\ Scanned /\ UNCHANGED <<place, phase, queue, known, ledger, edited>>
        /\ queue # <<>> /\ Head(queue).op # "refused"
    BY <1>0, <1>6 DEF ClickUp!Sleep, Going, ScanInv
  <2>2. CASE ClickUp!GiveUp
    BY <2>1, <2>2, GivenUp
  <2>3. CASE closing' = closing
    <3>1. Scanned'
      BY <2>1, Frozen
    <3> QED
      BY <2>1, <2>3, <3>1, GoesOn
  <2> QED
    BY <1>6, <2>2, <2>3 DEF ClickUp!Sleep
<1>7. ASSUME NEW outcome \in {"WRITE_FAILED", "OMITTED_SECRET"}, ClickUp!NotRecorded(outcome)
      PROVE  ScanInv'
  <2>1. closing = "open" /\ UNCHANGED place /\ ClickUp!GiveUp
    BY <1>0, <1>7 DEF ClickUp!NotRecorded, ClickUp!Send, Going
  <2> QED
    BY <2>1, GivenUp
<1>8. CASE ClickUp!AnsweredUnparsable
  BY <1>8, ScanAnswered DEF ClickUp!AnsweredUnparsable
<1>9. CASE ClickUp!AnsweredHonestly
  BY <1>9, ScanAnswered DEF ClickUp!AnsweredHonestly
<1>10. CASE ClickUp!AnsweredEdited
  <2>1. PICK items \in ClickUp!Edits(Head(queue)) : ClickUp!Answered(items, TRUE)
    BY <1>10 DEF ClickUp!AnsweredEdited
  <2>2. edited' = TRUE
    BY <1>10 DEF ClickUp!AnsweredEdited
  <2> QED
    BY <2>1, <2>2, ScanAnswered DEF EditedAnswers
<1>11. CASE ClickUp!AnsweredInCircles
  <2>1. /\ edited' = TRUE /\ ClickUp!IsPaged(Head(queue))
        /\ \E items \in ClickUp!Circling(Head(queue)) : ClickUp!Answered(items, TRUE)
    BY <1>11 DEF ClickUp!AnsweredInCircles
  <2> QED
    BY <2>1, ScanAnswered DEF EditedAnswers
<1> QED
  BY <1>1, <1>2, <1>3, <1>4, <1>5, <1>6, <1>7, <1>8, <1>9, <1>10, <1>11
  DEF ClickUp!Request

LEMMA ScanClose ==
  ASSUME ClickUpFiles, ScanInv, ClickUp!Close
  PROVE  ScanInv'
<1>1. /\ UNCHANGED <<phase, queue, known, edited, ledger>> /\ at' = "returned" /\ at = "returned"
  <2>1. UNCHANGED <<phase, queue, known, edited>> /\ at' = "returned" /\ at = "returned"
    BY DEF ClickUp!Close, ClickUp!clientVars
  <2>2. UNCHANGED ledger
    BY DEF ClickUp!Close, ClickUp!WriteInventory, ClickUp!WriteLedger, ClickUp!WriteRun,
           ClickUp!Publish, ClickUp!FailLedger, ClickUp!FailRun, ClickUp!Preserve
  <2> QED
    BY <2>1, <2>2
<1>2. ClickUp!SourceObjects' = ClickUp!SourceObjects
  BY <1>1, SameIndex
<1> DEFINE before == closing \in {"inventory", "ledger", "run", "rename", "complete"}
           after == closing' \in {"inventory", "ledger", "run", "rename", "complete"}
           completed == place'.run # <<>> /\ place'.run[1].status = "COMPLETE"
<1>3. /\ after => before
      /\ completed => \/ IsCompleted /\ place'.run = place.run
                      \/ before /\ place'.run[1].index = ClickUp!SourceObjects
  <2> USE DEF ClickUpFiles, IsCompleted, ClickUp!WriteOr, ClickUp!MoveOr
  <2>1. CASE ClickUp!WriteInventory(ClickUp!SourceObjects)
    BY <2>1 DEF ClickUp!WriteInventory
  <2>2. CASE ClickUp!WriteLedger
    BY <2>2 DEF ClickUp!WriteLedger
  <2>3. CASE ClickUp!WriteRun(ClickUp!SourceObjects)
    <3>1. before
      BY <2>3 DEF ClickUp!WriteRun
    <3>2. \/ place'.run[1].index = ClickUp!SourceObjects
          \/ place'.run \in {place.run, <<>>}
      <4> DEFINE content == [status |-> "COMPLETE", index |-> ClickUp!SourceObjects,
                             summary |-> ClickUp!Summarize(ledger)]
      <4>1. \/ place' = [place EXCEPT !["run"] = <<content>>]
            \/ \E left \in {place["run"], <<>>} : place' = [place EXCEPT !["run"] = left]
        BY <2>3 DEF ClickUp!WriteRun
      <4>2. content.index = ClickUp!SourceObjects
        OBVIOUS
      <4> HIDE DEF content
      <4> QED
        BY <4>1, <4>2
    <3> QED
      BY <3>1, <3>2
  <2>4. CASE ClickUp!Publish
    BY <2>4 DEF ClickUp!Publish
  <2>5. CASE ClickUp!FailLedger
    BY <2>5 DEF ClickUp!FailLedger
  <2>6. CASE ClickUp!FailRun
    <3>1. closing' \in {"preserve", "unpreserved"}
      BY <2>6 DEF ClickUp!FailRun
    <3>2. \/ place'.run[1].status = "FAILED"
          \/ place'.run \in {place.run, <<>>}
      <4> DEFINE content == [status |-> "FAILED", index |-> <<>>,
                             summary |-> ClickUp!Summarize(ledger)]
      <4>1. \/ place' = [place EXCEPT !["run"] = <<content>>]
            \/ \E left \in {place["run"], <<>>} : place' = [place EXCEPT !["run"] = left]
        BY <2>6 DEF ClickUp!FailRun
      <4>2. content.status = "FAILED"
        OBVIOUS
      <4> HIDE DEF content
      <4> QED
        BY <4>1, <4>2
    <3> QED
      BY <3>1, <3>2
  <2>7. CASE ClickUp!Preserve
    BY <2>7 DEF ClickUp!Preserve
  <2> QED
    BY <2>1, <2>2, <2>3, <2>4, <2>5, <2>6, <2>7 DEF ClickUp!Close
<1>4. Ended' => Ended
  BY <1>3 DEF Ended, IsCompleted
<1>5. Ended' => Scanned'
  BY <1>1, <1>4, Frozen DEF ScanInv
<1>6. ~Going'
  BY <1>1 DEF Going
<1>7. IsCompleted' => place'.run[1].index = ClickUp!SourceObjects'
  BY <1>2, <1>3 DEF ScanInv, IsCompleted
<1> QED
  BY <1>1, <1>4, <1>5, <1>6, <1>7 DEF ScanInv

LEMMA ScanStep ==
  ASSUME ClickUpFiles, ScanInv, [ClickUp!Next]_(ClickUp!vars)
  PROVE  ScanInv'
<1>1. CASE ClickUp!Extracted
  <2>1. /\ UNCHANGED <<phase, queue, known, edited, ledger, place>> /\ at' = "returned"
        /\ queue = <<>> /\ phase = "details" /\ closing = "open" /\ at = "request"
    BY <1>1 DEF ClickUp!Extracted, ClickUp!Complete
  <2>2. Scanned'
    BY <2>1, Frozen DEF ScanInv, Going
  <2>3. ~IsCompleted'
    BY <2>1 DEF IsCompleted, ClickUpFiles
  <2> QED
    BY <2>1, <2>2, <2>3 DEF ScanInv, Going
<1>2. CASE ClickUp!Interrupt \/ ClickUp!Kill \/ UNCHANGED ClickUp!vars
  <2>1. /\ UNCHANGED <<phase, queue, known, edited, ledger, place, closing>>
        /\ at' = at \/ at' = "dead"
    BY <1>2 DEF ClickUp!Interrupt, ClickUp!Kill, ClickUp!vars, ClickUp!clientVars,
                ClickUp!snapshotVars
  <2>2. ClickUp!SourceObjects' = ClickUp!SourceObjects
    BY <2>1, SameIndex
  <2>3. (Ended' => Ended) /\ (IsCompleted' => IsCompleted) /\ (Going' => Going)
    BY <2>1 DEF Ended, IsCompleted, Going
  <2>4. Going' \/ Ended' => Scanned'
    BY <2>1, <2>3, Frozen DEF ScanInv
  <2>5. IsCompleted' => place'.run[1].index = ClickUp!SourceObjects'
    BY <2>1, <2>2, <2>3 DEF ScanInv
  <2>6. at' \in {"attempt", "sleep"} => queue' # <<>> /\ Head(queue').op # "refused"
    BY <2>1 DEF ScanInv
  <2>7. Ended' => queue' = <<>> /\ phase' = "details"
    BY <2>1, <2>3 DEF ScanInv
  <2> QED
    BY <2>4, <2>5, <2>6, <2>7 DEF ScanInv
<1> QED
  BY <1>1, <1>2, ScanRequest, ScanClose DEF ClickUp!Next

LEMMA ScanInitially == ClickUp!Init => ScanInv
<1> SUFFICES ASSUME ClickUp!Init PROVE ScanInv
  OBVIOUS
<1>1. /\ queue = ClickUp!BothLists("list-spaces", ClickUpWorkspace) /\ phase = "spaces"
      /\ ledger = <<>> /\ at = "request" /\ closing = "open"
      /\ place.run[1].status = "IN_PROGRESS"
  BY DEF ClickUp!Init, ClickUp!BeginInit
<1>2. Known = {}
  <2>1. known = <<>>
    BY DEF ClickUp!Init
  <2> QED
    BY <2>1 DEF Known
<1>3. /\ queue \in Seq(Calls)
      /\ \A r \in Queued : r.op = "list-spaces"
      /\ AsksBoth(Queued, "list-spaces", ClickUpWorkspace)
  <2>1. "list-spaces" \in Ops /\ ClickUpWorkspace \in Things
    BY Bounds DEF Ops, Listings
  <2> QED
    BY <1>1, <2>1, BothListsIs DEF Queued, Begun
<1>4. Queue
  <2>1. \A r \in Queued : MayAsk(r)
    BY <1>1, <1>3 DEF MayAsk, OpsIn
  <2> QED
    BY <1>1, <1>2, <1>3, <2>1 DEF Queue, Phases
<1>5. Len(ledger) = 0
  BY <1>1
<1>6. LedgerLearned /\ Said /\ CommentsOnce /\ Truthful
  BY <1>2, <1>5 DEF LedgerLearned, Said, CommentsOnce, Truthful
<1>7. Details
  <2>1. \A i \in 1..Len(queue) : queue[i].op # "get-task"
    BY <1>3 DEF Queued, Elements
  <2> QED
    BY <1>1, <1>5, <2>1 DEF Details
<1>8. Reaches
  <2>1. ASSUME NEW o \in Things \ {ClickUpWorkspace}
        PROVE  \/ Rank(PhaseOf(o)) > Rank(phase)
               \/ PhaseOf(o) = phase /\ \E r \in Queued : Awaits(r, o)
    <3>1. CASE ClickUpKindOf[o] = "space"
      <4>1. ClickUpListedIn[o] = ClickUpWorkspace /\ PhaseOf(o) = phase
        BY <1>1, <3>1, ListedInIs, PhasesAre
      <4>2. Queued \subseteq Calls
        BY <1>3, OwnElements DEF Queued
      <4>3. "list-spaces" \in Listings \ {"list-fields"} /\ KindIn("list-spaces") = "space"
        BY DEF Listings, KindIn
      <4>4. \E r \in Queued : Awaits(r, o)
        BY <1>3, <3>1, <4>1, <4>2, <4>3, BothAwait
      <4> QED
        BY <4>1, <4>4
    <3>2. CASE ClickUpKindOf[o] # "space"
      <4>1. PhaseOf(o) \in Phases \ {"spaces"}
        <5>1. ClickUpKindOf[o] \in ClickUp!Kinds \ {"workspace"}
          BY KindsAre
        <5>2. ClickUpKindOf[o] = "list" => ClickUpKindOf[ClickUpListedIn[o]] \in {"space", "folder"}
          BY ListedInIs
        <5> QED
          BY <3>2, <5>1, <5>2 DEF PhaseOf, Phases, ClickUp!Kinds
      <4>2. Rank("spaces") = 0 /\ Rank(PhaseOf(o)) \in 0..5 /\ Rank(PhaseOf(o)) # Rank("spaces")
        <5>1. "spaces" \in Phases
          BY DEF Phases
        <5> QED
          BY <4>1, <5>1, RanksAre DEF Rank
      <4> QED
        BY <1>1, <4>2
    <3> QED
      BY <3>1, <3>2
  <2> QED
    BY <2>1 DEF Reaches
<1>9. Scanned
  BY <1>4, <1>6, <1>7, <1>8 DEF Scanned
<1>10. ~Ended /\ ~IsCompleted
  BY <1>1 DEF Ended, IsCompleted
<1> QED
  BY <1>1, <1>9, <1>10 DEF ScanInv

-----------------------------------------------------------------------------
(* The index of what was found, and the answers.                           *)
RootRow == [object |-> ClickUpWorkspace, type |-> "workspace", parent |-> None]

RowOf(o) ==
  [object |-> o,
   type |-> IF ClickUp!IsSubtask(known, o) THEN "subtask" ELSE ClickUpKindOf[o],
   parent |-> ClickUp!IndexParent(known, o)]

LEMMA RowsAre ==
  ASSUME Known \subseteq Things
  PROVE  /\ Len(ClickUp!SourceObjects) \in Nat
         /\ Elements(ClickUp!SourceObjects) = {RootRow} \cup {RowOf(o) : o \in Known}
<1> DEFINE names == ClickUp!Sorted(Known)
           f == [o \in Known |-> RowOf(o)]
           rows == [i \in 1..Len(names) |->
             [object |-> names[i],
              type |-> IF ClickUp!IsSubtask(known, names[i]) THEN "subtask"
                         ELSE ClickUpKindOf[names[i]],
              parent |-> ClickUp!IndexParent(known, names[i])]]
           one == <<RootRow>>
           A == {RootRow} \cup {RowOf(o) : o \in Known}
<1>1. /\ names \in Seq(Things) /\ Elements(names) = Known
  BY SortedIs
<1>2. ClickUp!SourceObjects = one \o rows
  BY DEF ClickUp!SourceObjects, ClickUp!IndexOf, ClickUp!Positions, Known, RootRow
<1> HIDE DEF names
<1>3. rows = Map(f, names)
  <2>1. \A i \in 1..Len(names) : names[i] \in Known
    BY <1>1 DEF Elements
  <2> QED
    BY <2>1 DEF Map, RowOf
<1> HIDE DEF rows
<1>4. \A x \in Elements(names) : f[x] \in A /\ f[x] = RowOf(x)
  BY <1>1
<1> HIDE DEF f
<1>5. rows \in Seq(A) /\ Elements(rows) = {RowOf(o) : o \in Known}
  <2>1. Len(names) \in Nat
    BY <1>1
  <2>2. \A x \in Elements(names) : f[x] \in A
    BY <1>4
  <2> HIDE DEF A
  <2>3. Map(f, names) \in Seq(A) /\ Elements(Map(f, names)) = {f[x] : x \in Elements(names)}
    BY <2>1, <2>2, Mapped
  <2>4. {f[x] : x \in Elements(names)} = {RowOf(o) : o \in Known}
    BY <1>1, <1>4
  <2> QED
    BY <1>3, <2>3, <2>4
<1>6. one \in Seq(A) /\ Elements(one) = {RootRow}
  <2>1. RootRow \in A
    OBVIOUS
  <2> HIDE DEF A
  <2> QED
    BY <2>1, OneOf
<1> HIDE DEF one, A
<1>7. one \o rows \in Seq(A) /\ Elements(one \o rows) = Elements(one) \cup Elements(rows)
  BY <1>5, <1>6, Joined
<1>8. Len(one \o rows) \in Nat
  BY <1>7
<1> QED
  BY <1>2, <1>5, <1>6, <1>7, <1>8

LEMMA ObjectsInIndex ==
  ASSUME Known \subseteq Things
  PROVE  {ClickUp!SourceObjects[i].object : i \in 1..Len(ClickUp!SourceObjects)} =
           Known \cup {ClickUpWorkspace}
<1> DEFINE index == ClickUp!SourceObjects
<1>1. Elements(index) = {RootRow} \cup {RowOf(o) : o \in Known}
  BY RowsAre
<1>2. {index[i].object : i \in 1..Len(index)} = {row.object : row \in Elements(index)}
  BY DEF Elements
<1> HIDE DEF index
<1>3. RootRow.object = ClickUpWorkspace /\ \A o \in Known : RowOf(o).object = o
  BY DEF RootRow, RowOf
<1>4. {row.object : row \in {RootRow} \cup {RowOf(o) : o \in Known}} = Known \cup {ClickUpWorkspace}
  BY <1>3
<1> QED
  BY <1>1, <1>2, <1>4 DEF index

(* An item of an answer to one of these requests.                          *)
IsFrom(ops, i, j) ==
  /\ i \in 1..Len(ledger) /\ IsAnswer(ledger[i]) /\ ledger[i].request.op \in ops
  /\ j \in 1..Len(ledger[i].items)

LEMMA ItemsOfAre ==
  ASSUME LedgerLearned, NEW ops, NEW item
  PROVE  item \in ClickUp!ItemsOf(ops, ledger) <=>
           \E i, j \in Nat : IsFrom(ops, i, j) /\ item = ledger[i].items[j]
<1> DEFINE given(i) == IsAnswer(ledger[i]) /\ ledger[i].request.op \in ops
<1>1. item \in ClickUp!ItemsOf(ops, ledger) <=>
        \E i \in 1..Len(ledger) : given(i) /\ item \in ClickUp!ToSet(ledger[i].items)
  BY DEF ClickUp!ItemsOf, ClickUp!Positions, IsAnswer
<1>2. ASSUME NEW i \in 1..Len(ledger), given(i)
      PROVE  /\ ClickUp!ToSet(ledger[i].items) = Elements(ledger[i].items)
             /\ 1..Len(ledger[i].items) \subseteq Nat
  <2>1. ledger[i].items \in Seq(Elements(ledger[i].items))
    BY <1>2 DEF LedgerLearned, IsLearned
  <2> QED
    BY <2>1, AttachedAre
<1>3. \A i \in 1..Len(ledger) : given(i) =>
        (item \in ClickUp!ToSet(ledger[i].items) <=>
           \E j \in 1..Len(ledger[i].items) : item = ledger[i].items[j])
  BY <1>2 DEF Elements
<1> QED
  BY <1>1, <1>2, <1>3 DEF IsFrom

(* What is known and what was answered are the same.                       *)
AllOps == {"list-spaces", "list-folders", "list-lists", "list-fields",
           "list-tasks", "get-task", "list-comments", "list-replies"}

LEMMA HangingIsKnown ==
  ASSUME Scanned, phase = "details", queue = <<>>, NEW i, NEW j, IsFrom(AllOps, i, j)
  PROVE  ledger[i].items[j].id \in Known /\ HangingOn(ledger[i].items[j]) \subseteq Known
<1> DEFINE item == ledger[i].items[j]
<1>1. IsLearned(ledger[i])
  BY DEF IsFrom, Scanned, LedgerLearned
<1>2. item.id \in Known /\ item.id \in Things
  BY <1>1 DEF IsFrom, IsLearned, Scanned, Queue
<1>3. CASE ledger[i].request.op = "get-task"
  BY <1>1, <1>2, <1>3 DEF IsFrom, IsLearned
<1>4. CASE ledger[i].request.op # "get-task" /\ item.id \notin Tasks
  BY <1>1, <1>2, <1>4, HangingIs DEF IsFrom, IsLearned
<1>5. CASE ledger[i].request.op # "get-task" /\ item.id \in Tasks
  <2>1. Queued = {}
    BY Nothing DEF Queued
  <2>2. PICK k \in 1..Len(ledger) : IsDetail(ledger[k], item.id)
    BY <1>2, <1>5, <2>1 DEF Tasks, Scanned, Details
  <2>3. /\ IsLearned(ledger[k]) /\ ledger[k].request.op = "get-task" /\ ledger[k].request.of = item.id
    BY <2>2 DEF IsDetail, Scanned, LedgerLearned
  <2>4. 1 \in 1..Len(ledger[k].items)
    BY <2>3 DEF IsLearned
  <2>5. /\ ledger[k].items[1].id = item.id
        /\ HangingOn(ledger[k].items[1]) \subseteq Known
        /\ HangingOn(ClickUpSource[item.id]) \subseteq HangingOn(ledger[k].items[1])
    BY <2>3, <2>4 DEF IsLearned
  <2>6. HangingOn(item) = HangingOn(ClickUpSource[item.id])
    BY <1>1, <1>5 DEF IsFrom, IsLearned
  <2> QED
    BY <1>2, <2>5, <2>6
<1> QED
  BY <1>3, <1>4, <1>5

LEMMA MentionedAre ==
  ASSUME Scanned, phase = "details", queue = <<>>
  PROVE  ClickUp!Mentioned(ledger) = Known
<1> DEFINE items == ClickUp!ItemsOf(AllOps, ledger)
<1>1. ClickUp!Mentioned(ledger) =
        {item.id : item \in items} \cup (UNION {HangingOn(item) : item \in items})
  BY DEF ClickUp!Mentioned, AllOps, HangingOn
<1>2. \A item : item \in items <=>
        \E i, j \in Nat : IsFrom(AllOps, i, j) /\ item = ledger[i].items[j]
  BY ItemsOfAre DEF Scanned
<1> HIDE DEF items
<1>3. \A item \in items : item.id \in Known /\ HangingOn(item) \subseteq Known
  BY <1>2, HangingIsKnown
<1>4. ASSUME NEW o \in Known
      PROVE  \E item \in items : item.id = o \/ o \in HangingOn(item)
  <2>1. PICK i \in 1..Len(ledger) : Says(ledger[i], o)
    BY DEF Scanned, Said
  <2>2. PICK j \in 1..Len(ledger[i].items) :
          ledger[i].items[j].id = o \/ o \in HangingOn(ledger[i].items[j])
    BY <2>1 DEF Says
  <2>3. IsAnswer(ledger[i]) /\ ledger[i].request.op \in AllOps
    BY <2>1 DEF Says, AllOps, Listings
  <2>4. i \in Nat /\ j \in Nat
    OBVIOUS
  <2>5. IsFrom(AllOps, i, j)
    BY <2>3 DEF IsFrom
  <2> QED
    BY <1>2, <2>2, <2>4, <2>5
<1> QED
  BY <1>1, <1>3, <1>4

-----------------------------------------------------------------------------
(* Nobody edited the Workspace while it was scanned.                       *)
Untouched == Scanned /\ phase = "details" /\ queue = <<>> /\ ~edited

TypeOf(o) ==
  IF o \in Tasks /\ ClickUpSource[o].parent # None THEN "subtask" ELSE ClickUpKindOf[o]

ParentOf(o) ==
  IF TypeOf(o) = "subtask" THEN ClickUpSource[o].parent ELSE ClickUpListedIn[o]

(* The index has each object once, and tells the truth of it.              *)
IsTrueIndex(index) ==
  /\ Len(index) \in Nat
  /\ \A i \in 1..Len(index) :
       /\ index[i].object \in Things
       /\ index[i].type = TypeOf(index[i].object)
       /\ index[i].type # "relationship" => index[i].parent = ParentOf(index[i].object)
  /\ \A o \in Things : \E i \in 1..Len(index) : index[i].object = o
  /\ \A i, j \in 1..Len(index) : index[i].object = index[j].object => i = j

LEMMA AllIsKnown ==
  ASSUME Untouched
  PROVE  Known = Things \ {ClickUpWorkspace}
<1>1. Queued = {} /\ Unrefused
  BY Nothing DEF Untouched, Queued, Unrefused
<1>2. Rank("details") = 5
  BY DEF Rank
<1>3. ASSUME NEW o \in Things \ {ClickUpWorkspace} PROVE o \in Known
  <2>1. Rank(PhaseOf(o)) \in 0..5
    BY PhasesAre, RanksAre
  <2> QED
    BY <1>1, <1>2, <2>1 DEF Untouched, Scanned, Reaches
<1> QED
  BY <1>3 DEF Untouched, Scanned, Queue

LEMMA RowIsTrue ==
  ASSUME Untouched, NEW o \in Known
  PROVE  /\ RowOf(o).type = TypeOf(o)
         /\ RowOf(o).type # "relationship" => RowOf(o).parent = ParentOf(o)
<1>1. o \in Things /\ o # ClickUpWorkspace /\ ClickUpKindOf[o] \in ClickUp!Kinds \ {"workspace"}
  BY KindsAre DEF Untouched, Scanned, Queue
<1>2. ClickUpKindOf[o] # "relationship" => known[o] = Truth(o)
  BY DEF Untouched, Scanned, Truthful
<1>3. CASE ClickUpKindOf[o] = "task"
  <2>1. o \in Tasks
    BY <1>1, <1>3 DEF Tasks
  <2>2. known[o].parent = ClickUpSource[o].parent /\ known[o].home = ClickUpSource[o].home
    BY <1>2, <1>3 DEF Truth
  <2>3. ClickUpSource[o].home = ClickUpListedIn[o]
    BY <2>1, TaskIs
  <2>4. CASE ClickUpSource[o].parent # None
    BY <1>3, <2>1, <2>2, <2>4
    DEF RowOf, TypeOf, ParentOf, ClickUp!IsSubtask, ClickUp!IndexParent
  <2>5. CASE ClickUpSource[o].parent = None
    BY <1>3, <2>1, <2>2, <2>3, <2>5
    DEF RowOf, TypeOf, ParentOf, ClickUp!IsSubtask, ClickUp!IndexParent
  <2> QED
    BY <2>4, <2>5
<1>4. CASE ClickUpKindOf[o] # "task"
  <2>1. o \notin Tasks /\ TypeOf(o) = ClickUpKindOf[o] /\ TypeOf(o) # "subtask"
    BY <1>1, <1>4 DEF Tasks, TypeOf, ClickUp!Kinds
  <2>2. RowOf(o).type = ClickUpKindOf[o] /\ RowOf(o).parent = known[o].parent
    BY <1>4 DEF RowOf, ClickUp!IsSubtask, ClickUp!IndexParent
  <2>3. ClickUpKindOf[o] # "relationship" => known[o].parent = ClickUpListedIn[o]
    <3>1. CASE ClickUpKindOf[o] \in {"space", "folder", "list"}
      BY <1>2, <3>1 DEF Truth
    <3>2. CASE ClickUpKindOf[o] = "field"
      BY <1>1, <1>2, <3>2, NotInAnything DEF Truth
    <3>3. CASE ClickUpKindOf[o] \in {"comment", "attachment"}
      BY <1>2, <3>3 DEF Truth
    <3> QED
      BY <1>1, <1>4, <3>1, <3>2, <3>3 DEF ClickUp!Kinds
  <2> QED
    BY <2>1, <2>2, <2>3 DEF ParentOf
<1> QED
  BY <1>3, <1>4

LEMMA RootIsTrue ==
  /\ RootRow.object = ClickUpWorkspace /\ RootRow.type = TypeOf(ClickUpWorkspace)
  /\ RootRow.parent = ParentOf(ClickUpWorkspace)
<1>1. ClickUpWorkspace \in Things /\ ClickUpKindOf[ClickUpWorkspace] = "workspace"
  BY Bounds, KindsAre
<1>2. ClickUpWorkspace \notin Tasks
  BY <1>1 DEF Tasks
<1>3. TypeOf(ClickUpWorkspace) = "workspace"
  BY <1>1, <1>2 DEF TypeOf
<1>4. ParentOf(ClickUpWorkspace) = None
  BY <1>1, <1>3, NotInAnything DEF ParentOf
<1> QED
  BY <1>3, <1>4 DEF RootRow

LEMMA TheIndexIsTrue ==
  ASSUME Untouched, ClickUp!ValidIndex(ClickUp!SourceObjects)
  PROVE  IsTrueIndex(ClickUp!SourceObjects)
<1> DEFINE index == ClickUp!SourceObjects
<1>1. Known = Things \ {ClickUpWorkspace} /\ ClickUpWorkspace \in Things
  BY AllIsKnown, Bounds
<1>2. Len(index) \in Nat /\ Elements(index) = {RootRow} \cup {RowOf(o) : o \in Known}
  BY <1>1, RowsAre
<1>3. {index[i].object : i \in 1..Len(index)} = Known \cup {ClickUpWorkspace}
  BY <1>1, ObjectsInIndex
<1>4. \A i, j \in 1..Len(index) : index[i].object = index[j].object => i = j
  BY DEF ClickUp!ValidIndex, ClickUp!Positions
<1> HIDE DEF index
<1>5. ASSUME NEW i \in 1..Len(index)
      PROVE  /\ index[i].object \in Things
             /\ index[i].type = TypeOf(index[i].object)
             /\ index[i].type # "relationship" => index[i].parent = ParentOf(index[i].object)
  <2>1. index[i] = RootRow \/ \E o \in Known : index[i] = RowOf(o)
    BY <1>2 DEF Elements
  <2>2. CASE index[i] = RootRow
    BY <1>1, <2>2, RootIsTrue
  <2>3. CASE \E o \in Known : index[i] = RowOf(o)
    <3>1. PICK o \in Known : index[i] = RowOf(o)
      BY <2>3
    <3>2. index[i].object = o
      BY <3>1 DEF RowOf
    <3> QED
      BY <1>1, <3>1, <3>2, RowIsTrue
  <2> QED
    BY <2>1, <2>2, <2>3
<1>6. \A o \in Things : \E i \in 1..Len(index) : index[i].object = o
  BY <1>1, <1>3
<1> QED
  BY <1>2, <1>4, <1>5, <1>6 DEF IsTrueIndex, index

(* Reading an index that tells the truth.                                  *)
LEMMA PlaceInIndex ==
  ASSUME NEW index, IsTrueIndex(index), NEW o \in Things
  PROVE  LET i == CHOOSE k \in 1..Len(index) : index[k].object = o IN
         /\ i \in 1..Len(index) /\ index[i].object = o
         /\ index[i].type = TypeOf(o)
         /\ TypeOf(o) # "relationship" => index[i].parent = ParentOf(o)
<1>1. \E k \in 1..Len(index) : index[k].object = o
  BY DEF IsTrueIndex
<1> DEFINE i == CHOOSE k \in 1..Len(index) : index[k].object = o
<1>2. i \in 1..Len(index) /\ index[i].object = o
  BY <1>1
<1> HIDE DEF i
<1>3. /\ index[i].type = TypeOf(o)
      /\ TypeOf(o) # "relationship" => index[i].parent = ParentOf(o)
  BY <1>2 DEF IsTrueIndex
<1> QED
  BY <1>2, <1>3 DEF i

LEMMA TypeInIs ==
  ASSUME NEW index, IsTrueIndex(index), NEW o \in Things
  PROVE  ClickUp!TypeIn(index, o) = TypeOf(o)
<1>1. \E k \in 1..Len(index) : index[k].object = o
  BY DEF IsTrueIndex
<1> QED
  BY <1>1, PlaceInIndex DEF ClickUp!TypeIn, ClickUp!Positions

(* One step up, and a walk of them.                                        *)
Up(index, p, types) ==
  IF \E i \in 1..Len(index) : index[i].object = p /\ index[i].type \in types
    THEN index[CHOOSE i \in 1..Len(index) : index[i].object = p].parent
    ELSE p

Walks(index, o, types, n, g) ==
  g = [m \in 0..n |-> IF m = 0 THEN o ELSE Up(index, g[m - 1], types)]

LEMMA Walking ==
  ASSUME NEW index, NEW o, NEW types, NEW N \in Nat
  PROVE  \E g : Walks(index, o, types, N, g)
<1> DEFINE S == {n \in Nat : \E g : Walks(index, o, types, n, g)}
<1>1. 0 \in S
  <2>1. Walks(index, o, types, 0, [m \in 0..0 |-> o])
    BY DEF Walks
  <2> QED
    BY <2>1
<1>2. ASSUME NEW n \in Nat, n \in S
      PROVE  n + 1 \in S
  <2>1. PICK g : Walks(index, o, types, n, g)
    BY <1>2
  <2> DEFINE h == [m \in 0..(n + 1) |-> IF m = n + 1 THEN Up(index, g[n], types) ELSE g[m]]
  <2>2. Walks(index, o, types, n + 1, h)
    <3>1. \A m \in 0..(n + 1) : h[m] = IF m = 0 THEN o ELSE Up(index, h[m - 1], types)
      <4>1. \A m \in 0..n : h[m] = g[m]
        OBVIOUS
      <4>2. \A m \in 0..n : m # 0 => m - 1 \in 0..n
        OBVIOUS
      <4>3. \A m \in 0..n : g[m] = IF m = 0 THEN o ELSE Up(index, g[m - 1], types)
        BY <2>1 DEF Walks
      <4>4. h[n + 1] = Up(index, h[n], types)
        BY <4>1
      <4>5. \A m \in 0..(n + 1) : m \in 0..n \/ (m = n + 1 /\ m - 1 = n /\ m # 0)
        OBVIOUS
      <4> HIDE DEF h
      <4> QED
        BY <4>1, <4>2, <4>3, <4>4, <4>5
    <3>2. h = [m \in 0..(n + 1) |-> h[m]]
      OBVIOUS
    <3> HIDE DEF h
    <3> QED
      BY <3>1, <3>2 DEF Walks
  <2> HIDE DEF h
  <2> QED
    BY <2>2
<1> HIDE DEF S
<1>3. Nat \subseteq S
  BY <1>1, <1>2, Induction
<1> USE DEF S
<1> QED
  BY <1>3

(* The way up from an object, over objects of these types.                 *)
IsWay(index, o, types, g) ==
  /\ g[0] = o
  /\ \A n \in 1..Len(index) :
       g[n] = IF TypeOf(g[n - 1]) \in types THEN ParentOf(g[n - 1]) ELSE g[n - 1]
  /\ \A n \in 0..Len(index) : g[n] \in Things
  /\ ClickUp!WalkUp(index, o, types) = g[Len(index)]

LEMMA WayIs ==
  ASSUME NEW index, IsTrueIndex(index), NEW o \in Things, NEW types, "relationship" \notin types,
         \A p \in Things : TypeOf(p) \in types => ParentOf(p) \in Things
  PROVE  \E g : IsWay(index, o, types, g)
<1> DEFINE N == Len(index)
           g == CHOOSE f : Walks(index, o, types, N, f)
           S == {n \in Nat : n <= N => g[n] \in Things}
<1>1. N \in Nat
  BY DEF IsTrueIndex
<1>2. Walks(index, o, types, N, g)
  BY <1>1, Walking
<1>3. ClickUp!WalkUp(index, o, types) = g[N]
  BY DEF ClickUp!WalkUp, Walks, Up, ClickUp!Positions
<1> HIDE DEF N, g
<1>4. g[0] = o /\ \A n \in 1..N : g[n] = Up(index, g[n - 1], types)
  <2>1. \A n \in 0..N : g[n] = IF n = 0 THEN o ELSE Up(index, g[n - 1], types)
    BY <1>2 DEF Walks
  <2>2. 0 \in 0..N /\ \A n \in 1..N : n \in 0..N /\ n # 0
    BY <1>1
  <2> QED
    BY <2>1, <2>2
<1>5. ASSUME NEW p \in Things
      PROVE  Up(index, p, types) = IF TypeOf(p) \in types THEN ParentOf(p) ELSE p
  <2>1. (\E i \in 1..Len(index) : index[i].object = p /\ index[i].type \in types)
          <=> TypeOf(p) \in types
    BY DEF IsTrueIndex
  <2>2. TypeOf(p) \in types =>
          index[CHOOSE i \in 1..Len(index) : index[i].object = p].parent = ParentOf(p)
    BY PlaceInIndex
  <2> QED
    BY <2>1, <2>2 DEF Up
<1>6. 0 \in S
  BY <1>4
<1>7. ASSUME NEW n \in Nat, n \in S
      PROVE  n + 1 \in S
  <2> SUFFICES ASSUME n + 1 <= N PROVE g[n + 1] \in Things
    OBVIOUS
  <2>1. g[n] \in Things /\ n + 1 \in 1..N /\ (n + 1) - 1 = n
    BY <1>1, <1>7
  <2>2. g[n + 1] = IF TypeOf(g[n]) \in types THEN ParentOf(g[n]) ELSE g[n]
    BY <1>4, <1>5, <2>1
  <2> QED
    BY <2>1, <2>2
<1> HIDE DEF S
<1>8. Nat \subseteq S
  BY <1>6, <1>7, Induction
<1> USE DEF S
<1>9. \A n \in 0..N : g[n] \in Things
  BY <1>1, <1>8
<1> HIDE DEF S
<1>10. \A n \in 1..N :
         g[n] = IF TypeOf(g[n - 1]) \in types THEN ParentOf(g[n - 1]) ELSE g[n - 1]
  <2> SUFFICES ASSUME NEW n \in 1..N
               PROVE  g[n] = IF TypeOf(g[n - 1]) \in types THEN ParentOf(g[n - 1]) ELSE g[n - 1]
    OBVIOUS
  <2>1. n - 1 \in 0..N
    BY <1>1
  <2> QED
    BY <1>4, <1>5, <1>9, <2>1
<1>11. IsWay(index, o, types, g)
  BY <1>3, <1>4, <1>9, <1>10 DEF IsWay, N
<1> QED
  BY <1>11

-----------------------------------------------------------------------------
(* Every way up ends.                                                      *)
LEMMA SubtaskIs ==
  ASSUME NEW t \in Things, TypeOf(t) = "subtask"
  PROVE  /\ t \in Tasks /\ ParentOf(t) = ClickUpSource[t].parent
         /\ ParentOf(t) \in Tasks /\ ClickUpListedIn[ParentOf(t)] = ClickUpListedIn[t]
<1>1. ClickUpKindOf[t] # "subtask"
  BY KindsAre DEF ClickUp!Kinds
<1>2. t \in Tasks /\ ClickUpSource[t].parent # None
  BY <1>1 DEF TypeOf
<1>3. ParentOf(t) = ClickUpSource[t].parent
  BY DEF ParentOf
<1> QED
  BY <1>2, <1>3, TaskIs

(* A Subtask of a Subtask of ... is one of a Task: a way that went on for  *)
(* as many steps as there are rows would come to a Task a second time, and *)
(* the Tasks between would all be Subtasks of each other.                  *)
LEMMA SubtasksEnd ==
  ASSUME NEW index, IsTrueIndex(index), NEW o \in Tasks
  PROVE  LET top == ClickUp!TaskAbove(index, o) IN
         /\ top \in Tasks /\ TypeOf(top) = "task" /\ ClickUpListedIn[top] = ClickUpListedIn[o]
<1> DEFINE N == Len(index)
<1>1. N \in Nat
  BY DEF IsTrueIndex
<1>2. PICK g : IsWay(index, o, {"subtask"}, g)
  <2>1. o \in Things
    BY DEF Tasks
  <2>2. \A p \in Things : TypeOf(p) \in {"subtask"} => ParentOf(p) \in Things
    BY SubtaskIs DEF Tasks
  <2>3. "relationship" \notin {"subtask"}
    OBVIOUS
  <2> HIDE DEF N
  <2> QED
    BY <2>1, <2>2, <2>3, WayIs
<1>3. ClickUp!TaskAbove(index, o) = g[N]
  BY <1>2 DEF IsWay, ClickUp!TaskAbove
<1>4. /\ g[0] = o
      /\ \A n \in 1..N : g[n] = IF TypeOf(g[n - 1]) = "subtask" THEN ParentOf(g[n - 1]) ELSE g[n - 1]
  BY <1>2 DEF IsWay
<1>5. \A n \in 0..N : g[n] \in Things
  BY <1>2 DEF IsWay
<1> HIDE DEF N
<1> DEFINE IsAt(p) == p \in Tasks /\ ClickUpListedIn[p] = ClickUpListedIn[o]
           S == {n \in Nat : n <= N => IsAt(g[n])}
<1>6. \A n \in 0..N : IsAt(g[n])
  <2>1. 0 \in S
    BY <1>4
  <2>2. ASSUME NEW n \in Nat, n \in S PROVE n + 1 \in S
    <3> SUFFICES ASSUME n + 1 <= N PROVE IsAt(g[n + 1])
      OBVIOUS
    <3>1. IsAt(g[n]) /\ g[n] \in Things /\ n + 1 \in 1..N /\ (n + 1) - 1 = n
      BY <1>1, <1>5, <2>2
    <3>2. g[n + 1] = IF TypeOf(g[n]) = "subtask" THEN ParentOf(g[n]) ELSE g[n]
      BY <1>4, <3>1
    <3> QED
      BY <3>1, <3>2, SubtaskIs
  <2> HIDE DEF S
  <2>3. Nat \subseteq S
    BY <2>1, <2>2, Induction
  <2> USE DEF S
  <2> QED
    BY <1>1, <2>3
<1>7. TypeOf(g[N]) # "subtask"
  <2> SUFFICES ASSUME TypeOf(g[N]) = "subtask" PROVE FALSE
    OBVIOUS
  (* Then every step went up.                                              *)
  <2>1. \A n \in 0..N : TypeOf(g[n]) = "subtask"
    <3> DEFINE D == {n \in Nat : n <= N => TypeOf(g[N - n]) = "subtask"}
    <3>1. 0 \in D
      BY <1>1
    <3>2. ASSUME NEW n \in Nat, n \in D PROVE n + 1 \in D
      <4> SUFFICES ASSUME n + 1 <= N PROVE TypeOf(g[N - (n + 1)]) = "subtask"
        OBVIOUS
      <4> DEFINE k == N - n
      <4>1. k \in 1..N /\ k - 1 = N - (n + 1) /\ TypeOf(g[k]) = "subtask"
        BY <1>1, <3>2
      <4> HIDE DEF k
      <4>2. TypeOf(g[k - 1]) = "subtask"
        BY <1>4, <4>1
      <4> QED
        BY <4>1, <4>2
    <3> HIDE DEF D
    <3>3. Nat \subseteq D
      BY <3>1, <3>2, Induction
    <3> USE DEF D
    <3>4. ASSUME NEW n \in 0..N PROVE TypeOf(g[n]) = "subtask"
      <4>1. N - n \in Nat /\ N - n <= N /\ N - (N - n) = n
        BY <1>1
      <4>2. N - n \in D
        BY <3>3, <4>1
      <4> QED
        BY <4>1, <4>2
    <3> QED
      BY <3>4
  <2>2. \A n \in 1..N : g[n] = ClickUpSource[g[n - 1]].parent
    <3> SUFFICES ASSUME NEW n \in 1..N PROVE g[n] = ClickUpSource[g[n - 1]].parent
      OBVIOUS
    <3>1. n - 1 \in 0..N
      BY <1>1
    <3>2. TypeOf(g[n - 1]) = "subtask" /\ g[n - 1] \in Things
      BY <1>5, <2>1, <3>1
    <3> QED
      BY <1>4, <3>2, SubtaskIs
  (* It came to one of them twice.                                         *)
  <2> DEFINE row(p) == CHOOSE i \in 1..N : index[i].object = p
             at1 == [n \in 0..N |-> row(g[n])]
  <2>3. \A n \in 0..N : row(g[n]) \in 1..N /\ index[row(g[n])].object = g[n]
    BY <1>5 DEF IsTrueIndex, N
  <2>4. PICK i \in 0..N, j \in 0..N : i # j /\ at1[i] = at1[j]
    <3>1. IsFiniteSet(0..N) /\ Cardinality(0..N) = N + 1
      BY <1>1, FS_Interval
    <3>2. IsFiniteSet(1..N) /\ Cardinality(1..N) = N
      BY <1>1, FS_Interval
    <3>3. at1 \in [0..N -> 1..N]
      BY <2>3
    <3>4. Cardinality(1..N) < Cardinality(0..N)
      BY <1>1, <3>1, <3>2
    <3> HIDE DEF at1
    <3> QED
      BY <3>1, <3>2, <3>3, <3>4, FS_PigeonHole
  <2>5. g[i] = g[j]
    <3>1. row(g[i]) = row(g[j])
      BY <2>4
    <3> HIDE DEF row
    <3> QED
      BY <2>3, <3>1
  <2> HIDE DEF row, at1
  <2>6. PICK a \in 0..N, b \in 0..N : a < b /\ g[a] = g[b]
    <3>1. i < j \/ j < i
      BY <1>1, <2>4
    <3> QED
      BY <2>5, <3>1
  (* Those from there to there have their parents among them.              *)
  <2> DEFINE loop == {g[n] : n \in a..(b - 1)}
  <2>7. loop \in SUBSET Tasks /\ loop # {}
    <3>1. a..(b - 1) \subseteq 0..N /\ a \in a..(b - 1)
      BY <1>1, <2>6
    <3> QED
      BY <1>6, <3>1
  <2>8. \A t \in loop : ClickUpSource[t].parent \in loop
    <3> SUFFICES ASSUME NEW n \in a..(b - 1) PROVE ClickUpSource[g[n]].parent \in loop
      OBVIOUS
    <3>1. n + 1 \in 1..N /\ (n + 1) - 1 = n
      BY <1>1
    <3>2. ClickUpSource[g[n]].parent = g[n + 1]
      BY <2>2, <3>1
    <3>3. CASE n + 1 = b
      <4>1. g[n + 1] = g[a] /\ a \in a..(b - 1)
        BY <1>1, <2>6, <3>3
      <4> QED
        BY <3>2, <4>1
    <3>4. CASE n + 1 # b
      <4>1. n + 1 \in a..(b - 1)
        BY <1>1, <3>4
      <4> QED
        BY <3>2, <4>1
    <3> QED
      BY <3>3, <3>4
  <2> HIDE DEF loop
  <2> QED
    BY <2>7, <2>8, NoCycles
<1>8. N \in 0..N
  BY <1>1
<1>9. TypeOf(g[N]) = "task"
  <2>1. g[N] \in Tasks
    BY <1>6, <1>8
  <2> QED
    BY <1>7, <2>1 DEF TypeOf, Tasks
<1> QED
  BY <1>3, <1>6, <1>8, <1>9

LEMMA TwoRows ==
  ASSUME NEW index, IsTrueIndex(index), NEW o \in Things, o # ClickUpWorkspace
  PROVE  Len(index) >= 2
<1>1. PICK i \in 1..Len(index) : index[i].object = o
  BY DEF IsTrueIndex
<1>2. PICK j \in 1..Len(index) : index[j].object = ClickUpWorkspace
  BY Bounds DEF IsTrueIndex
<1>3. i # j /\ Len(index) \in Nat
  BY <1>1, <1>2 DEF IsTrueIndex
<1> QED
  BY <1>3

LEMMA CommentIs ==
  ASSUME NEW o \in Things, TypeOf(o) = "comment"
  PROVE  o \in Comments /\ ParentOf(o) = ClickUpListedIn[o] /\ ParentOf(o) \in Tasks \cup Comments
<1>1. o \in Comments
  BY DEF TypeOf, Comments
<1>2. ParentOf(o) = ClickUpListedIn[o]
  BY DEF ParentOf
<1> QED
  BY <1>1, <1>2, ListedInIs DEF Comments, Tasks

LEMMA TypeOfTask ==
  ASSUME NEW t \in Tasks
  PROVE  t \in Things /\ TypeOf(t) \in {"task", "subtask"}
BY DEF TypeOf, Tasks

LEMMA CommentsEnd ==
  ASSUME NEW index, IsTrueIndex(index), NEW o \in Comments
  PROVE  ClickUp!RecordOf(index, o) \in Tasks
<1> DEFINE N == Len(index)
<1>1. N \in Nat /\ N >= 2 /\ o \in Things
  <2>1. o \in Things /\ ClickUpKindOf[o] = "comment"
    BY DEF Comments
  <2>2. o # ClickUpWorkspace
    BY <2>1, KindsAre
  <2> QED
    BY <2>1, <2>2, TwoRows DEF IsTrueIndex
<1>2. PICK g : IsWay(index, o, {"comment"}, g)
  <2>1. \A p \in Things : TypeOf(p) \in {"comment"} => ParentOf(p) \in Things
    BY CommentIs DEF Tasks, Comments
  <2>2. "relationship" \notin {"comment"}
    OBVIOUS
  <2> HIDE DEF N
  <2> QED
    BY <1>1, <2>1, <2>2, WayIs
<1>3. ClickUp!RecordOf(index, o) = g[N]
  BY <1>2 DEF IsWay, ClickUp!RecordOf
<1>4. /\ g[0] = o
      /\ \A n \in 1..N : g[n] = IF TypeOf(g[n - 1]) = "comment" THEN ParentOf(g[n - 1]) ELSE g[n - 1]
  BY <1>2 DEF IsWay
<1> HIDE DEF N
<1>5. TypeOf(o) = "comment"
  BY DEF TypeOf, Comments, Tasks
<1>6. g[1] = ClickUpListedIn[o] /\ g[1] \in Tasks \cup Comments
  <2>1. 1 \in 1..N /\ 1 - 1 = 0
    BY <1>1
  <2>2. g[1] = ParentOf(o)
    BY <1>4, <1>5, <2>1
  <2> QED
    BY <1>1, <1>5, <2>2, CommentIs
<1>7. g[2] \in Tasks
  <2>1. 2 \in 1..N /\ 2 - 1 = 1
    BY <1>1
  <2>2. g[2] = IF TypeOf(g[1]) = "comment" THEN ParentOf(g[1]) ELSE g[1]
    BY <1>4, <2>1
  <2>3. CASE g[1] \in Tasks
    BY <2>2, <2>3, TypeOfTask
  <2>4. CASE g[1] \in Comments
    <3>1. TypeOf(g[1]) = "comment" /\ g[1] \in Things
      BY <2>4 DEF TypeOf, Comments, Tasks
    <3>2. g[2] = ClickUpListedIn[g[1]]
      BY <2>2, <3>1, CommentIs
    <3> QED
      BY <1>6, <2>4, <3>2, RepliesAre
  <2> QED
    BY <1>6, <2>3, <2>4
<1> DEFINE S == {n \in Nat : n + 2 <= N => g[n + 2] \in Tasks}
<1>8. 0 \in S
  BY <1>7
<1>9. ASSUME NEW n \in Nat, n \in S PROVE n + 1 \in S
  <2> DEFINE k == (n + 1) + 2
  <2> SUFFICES ASSUME k <= N PROVE g[k] \in Tasks
    OBVIOUS
  <2>1. k \in 1..N /\ k - 1 = n + 2 /\ n + 2 <= N
    BY <1>1
  <2>2. g[k - 1] \in Tasks
    BY <1>9, <2>1
  <2> HIDE DEF k
  <2>3. g[k] = g[k - 1]
    BY <1>4, <2>1, <2>2, TypeOfTask
  <2> QED
    BY <2>2, <2>3
<1> HIDE DEF S
<1>10. Nat \subseteq S
  BY <1>8, <1>9, Induction
<1>11. N - 2 \in S
  BY <1>1, <1>10
<1>12. g[N] \in Tasks
  <2>1. (N - 2) + 2 = N
    BY <1>1
  <2> QED
    BY <1>11, <2>1 DEF S
<1> QED
  BY <1>3, <1>12

LEMMA AllHierarchiesEnd ==
  ASSUME NEW index, IsTrueIndex(index)
  PROVE  ClickUp!HierarchiesEnd(index)
<1> SUFFICES ASSUME NEW i \in 1..Len(index)
             PROVE  LET o == index[i].object IN
                    /\ index[i].type = "list" =>
                         ClickUp!TypeIn(index, index[i].parent) \in {"space", "folder"}
                    /\ index[i].type = "subtask" =>
                         ClickUp!TypeIn(index, ClickUp!TaskAbove(index, o)) = "task"
                    /\ index[i].type = "comment" =>
                         ClickUp!TypeIn(index, ClickUp!RecordOf(index, o)) \in {"task", "subtask"}
  BY DEF ClickUp!HierarchiesEnd, ClickUp!Positions
<1> DEFINE o == index[i].object
<1>1. /\ o \in Things /\ index[i].type = TypeOf(o)
      /\ index[i].type # "relationship" => index[i].parent = ParentOf(o)
  BY DEF IsTrueIndex
<1> HIDE DEF o
<1>2. ASSUME TypeOf(o) = "list"
      PROVE  ClickUp!TypeIn(index, index[i].parent) \in {"space", "folder"}
  <2>1. ClickUpKindOf[o] = "list" /\ ParentOf(o) = ClickUpListedIn[o]
    BY <1>2 DEF TypeOf, ParentOf
  <2>2. ParentOf(o) \in Things /\ ClickUpKindOf[ParentOf(o)] \in {"space", "folder"}
    BY <1>1, <2>1, ListedInIs
  <2>3. TypeOf(ParentOf(o)) \in {"space", "folder"}
    BY <2>2 DEF TypeOf, Tasks
  <2> QED
    BY <1>1, <1>2, <2>2, <2>3, TypeInIs
<1>3. ASSUME TypeOf(o) = "subtask"
      PROVE  ClickUp!TypeIn(index, ClickUp!TaskAbove(index, o)) = "task"
  <2>1. o \in Tasks
    BY <1>1, <1>3, SubtaskIs
  <2>2. ClickUp!TaskAbove(index, o) \in Tasks /\ TypeOf(ClickUp!TaskAbove(index, o)) = "task"
    BY <2>1, SubtasksEnd
  <2> QED
    BY <2>2, TypeInIs, TypeOfTask
<1>4. ASSUME TypeOf(o) = "comment"
      PROVE  ClickUp!TypeIn(index, ClickUp!RecordOf(index, o)) \in {"task", "subtask"}
  <2>1. o \in Comments
    BY <1>1, <1>4, CommentIs
  <2>2. ClickUp!RecordOf(index, o) \in Tasks
    BY <2>1, CommentsEnd
  <2> QED
    BY <2>2, TypeInIs, TypeOfTask
<1> QED
  BY <1>1, <1>2, <1>3, <1>4 DEF o

LEMMA SubtasksAreFiled ==
  ASSUME NEW index, IsTrueIndex(index), NEW i \in 1..Len(index), index[i].type = "subtask"
  PROVE  ClickUp!CollectionOf(index, index[i].object) = ClickUpListedIn[index[i].object]
<1> DEFINE o == index[i].object
           top == ClickUp!TaskAbove(index, o)
<1>1. o \in Things /\ TypeOf(o) = "subtask"
  BY DEF IsTrueIndex
<1> HIDE DEF o
<1>2. top \in Tasks /\ TypeOf(top) = "task" /\ ClickUpListedIn[top] = ClickUpListedIn[o]
  BY <1>1, SubtaskIs, SubtasksEnd
<1> HIDE DEF top
<1>3. index[CHOOSE k \in 1..Len(index) : index[k].object = top].parent = ParentOf(top)
  BY <1>2, PlaceInIndex, TypeOfTask
<1>4. ClickUp!CollectionOf(index, o) = ParentOf(top)
  BY <1>3 DEF ClickUp!CollectionOf, ClickUp!Positions, top
<1> QED
  BY <1>2, <1>4 DEF ParentOf, o

-----------------------------------------------------------------------------
(* The answers to an untouched scan.                                       *)
CommentOps == {"list-comments", "list-replies"}

LEMMA ItemIsSource ==
  ASSUME Untouched, NEW ops, NEW item \in ClickUp!ItemsOf(ops, ledger)
  PROVE  \E i, j \in Nat :
           /\ IsFrom(ops, i, j) /\ item = ledger[i].items[j]
           /\ item.id \in Known /\ item = ClickUpSource[item.id]
           /\ ClickUpKindOf[item.id] = KindIn(ledger[i].request.op)
<1>1. PICK i \in Nat, j \in Nat : IsFrom(ops, i, j) /\ item = ledger[i].items[j]
  BY ItemsOfAre DEF Untouched, Scanned
<1>2. IsLearned(ledger[i]) /\ j \in 1..Len(ledger[i].items)
  BY <1>1 DEF IsFrom, Untouched, Scanned, LedgerLearned
<1>3. /\ item.id \in Known /\ item = ClickUpSource[item.id]
      /\ ClickUpKindOf[item.id] = KindIn(ledger[i].request.op)
  BY <1>1, <1>2 DEF IsLearned, Untouched
<1> QED
  BY <1>1, <1>3

LEMMA SourceItems ==
  ASSUME Untouched, NEW ops, NEW item \in ClickUp!ItemsOf(ops, ledger)
  PROVE  item.id \in Known /\ item.id \in Things /\ item = ClickUpSource[item.id]
<1>1. item.id \in Known /\ item = ClickUpSource[item.id]
  BY ItemIsSource
<1> QED
  BY <1>1 DEF Untouched, Scanned, Queue

LEMMA DetailItems ==
  ASSUME Untouched, NEW item \in ClickUp!ItemsOf({"get-task"}, ledger)
  PROVE  item.id \in Tasks /\ item = ClickUpSource[item.id]
<1>1. PICK i \in Nat, j \in Nat :
        /\ IsFrom({"get-task"}, i, j)
        /\ item = ClickUpSource[item.id] /\ ClickUpKindOf[item.id] = KindIn(ledger[i].request.op)
  BY ItemIsSource
<1>2. ClickUpKindOf[item.id] = "task"
  BY <1>1 DEF IsFrom, KindIn
<1> QED
  BY <1>1, <1>2, SourceItems DEF Tasks

LEMMA CommentItems ==
  ASSUME Untouched, NEW item \in ClickUp!ItemsOf(CommentOps, ledger)
  PROVE  item.id \in Comments /\ item = ClickUpSource[item.id]
<1>1. PICK i \in Nat, j \in Nat :
        /\ IsFrom(CommentOps, i, j)
        /\ item = ClickUpSource[item.id] /\ ClickUpKindOf[item.id] = KindIn(ledger[i].request.op)
  BY ItemIsSource
<1>2. ClickUpKindOf[item.id] = "comment"
  BY <1>1 DEF IsFrom, KindIn, CommentOps
<1> QED
  BY <1>1, <1>2, SourceItems DEF Comments

(* Each object is in an answer to what asks for its kind.                  *)
LEMMA AnsweredFor ==
  ASSUME Untouched, NEW o \in Known,
         ClickUpKindOf[o] \notin {"attachment", "relationship"},
         NEW ops, \A op \in Listings : KindIn(op) = ClickUpKindOf[o] => op \in ops
  PROVE  o \in {item.id : item \in ClickUp!ItemsOf(ops, ledger)}
<1>1. PICK i \in 1..Len(ledger) : Says(ledger[i], o)
  BY DEF Untouched, Scanned, Said
<1>2. /\ IsAnswer(ledger[i]) /\ ledger[i].request.op \in ops
      /\ \E j \in 1..Len(ledger[i].items) : ledger[i].items[j].id = o
  BY <1>1 DEF Says
<1>3. PICK j \in 1..Len(ledger[i].items) : ledger[i].items[j].id = o
  BY <1>2
<1>4. i \in Nat /\ j \in Nat /\ IsFrom(ops, i, j)
  BY <1>2 DEF IsFrom
<1>5. ledger[i].items[j] \in ClickUp!ItemsOf(ops, ledger)
  BY <1>4, ItemsOfAre DEF Untouched, Scanned
<1> QED
  BY <1>3, <1>5

LEMMA KindsInAre ==
  ASSUME NEW op \in Listings
  PROVE  /\ KindIn(op) = "space" => op = "list-spaces"
         /\ KindIn(op) = "folder" => op = "list-folders"
         /\ KindIn(op) = "list" => op = "list-lists"
         /\ KindIn(op) = "field" => op = "list-fields"
         /\ KindIn(op) = "comment" => op \in CommentOps
BY DEF Listings, KindIn, CommentOps

LEMMA DetailOf ==
  ASSUME Untouched, NEW t \in Known, ClickUpKindOf[t] = "task"
  PROVE  \E i \in 1..Len(ledger) :
           /\ IsDetail(ledger[i], t) /\ Len(ledger[i].items) = 1 /\ ledger[i].items[1].id = t
           /\ ledger[i].items[1] = ClickUpSource[t]
           /\ ledger[i].items[1] \in ClickUp!ItemsOf({"get-task"}, ledger)
<1>1. Queued = {}
  BY Nothing DEF Untouched, Queued
<1>2. PICK i \in 1..Len(ledger) : IsDetail(ledger[i], t)
  BY <1>1 DEF Untouched, Scanned, Details
<1>3. IsLearned(ledger[i]) /\ ledger[i].request.op = "get-task" /\ ledger[i].request.of = t
  BY <1>2 DEF IsDetail, Untouched, Scanned, LedgerLearned
<1>4. Len(ledger[i].items) = 1 /\ 1 \in 1..Len(ledger[i].items)
  BY <1>3 DEF IsLearned, Untouched
<1>5. ledger[i].items[1].id = t /\ ledger[i].items[1] = ClickUpSource[t]
  BY <1>3, <1>4 DEF IsLearned, Untouched
<1>6. i \in Nat /\ 1 \in Nat /\ IsFrom({"get-task"}, i, 1)
  BY <1>2, <1>4 DEF IsFrom, IsDetail
<1>7. ledger[i].items[1] \in ClickUp!ItemsOf({"get-task"}, ledger)
  BY <1>6, ItemsOfAre DEF Untouched, Scanned
<1> QED
  BY <1>2, <1>4, <1>5, <1>7

-----------------------------------------------------------------------------
(* They cover the index.                                                   *)
LEMMA Covering ==
  ASSUME Untouched, NEW index, IsTrueIndex(index)
  PROVE  ClickUp!EvidenceCovers(index, ledger)
<1> DEFINE typed(types) == {index[i].object : i \in {j \in 1..Len(index) : index[j].type \in types}}
           ids(ops) == {item.id : item \in ClickUp!ItemsOf(ops, ledger)}
           details == ClickUp!ItemsOf({"get-task"}, ledger)
           hanging == UNION {HangingOn(item) : item \in details}
<1>1. \A types : \A o : o \in typed(types) <=> o \in Things /\ TypeOf(o) \in types
  <2> SUFFICES ASSUME NEW types, NEW o
               PROVE  o \in typed(types) <=> o \in Things /\ TypeOf(o) \in types
    OBVIOUS
  <2>1. o \in typed(types) => o \in Things /\ TypeOf(o) \in types
    BY DEF IsTrueIndex
  <2>2. ASSUME o \in Things, TypeOf(o) \in types PROVE o \in typed(types)
    <3>1. PICK i \in 1..Len(index) : index[i].object = o
      BY <2>2 DEF IsTrueIndex
    <3>2. index[i].type \in types
      BY <2>2, <3>1 DEF IsTrueIndex
    <3> QED
      BY <3>1, <3>2
  <2> QED
    BY <2>1, <2>2
<1>2. Known = Things \ {ClickUpWorkspace} /\ ClickUpKindOf[ClickUpWorkspace] = "workspace"
  BY AllIsKnown, Bounds, KindsAre
<1>3. TypeOf(ClickUpWorkspace) = "workspace"
  BY RootIsTrue DEF RootRow
<1>4. \A o \in Things : TypeOf(o) \notin {"task", "subtask"} => TypeOf(o) = ClickUpKindOf[o]
  BY DEF TypeOf
<1> HIDE DEF typed, details, hanging
<1>5. /\ typed({"space"}) \subseteq ids({"list-spaces"})
      /\ typed({"folder"}) \subseteq ids({"list-folders"})
      /\ typed({"list"}) \subseteq ids({"list-lists"})
      /\ typed({"field"}) \subseteq ids({"list-fields"})
      /\ typed({"comment"}) \subseteq ids(CommentOps)
  <2>1. ASSUME NEW kind \in {"space", "folder", "list", "field", "comment"}, NEW o \in typed({kind}),
               NEW ops, \A op \in Listings : KindIn(op) = kind => op \in ops
        PROVE  o \in ids(ops)
    <3>1. o \in Things /\ TypeOf(o) = kind
      BY <1>1, <2>1
    <3>2. ClickUpKindOf[o] = kind /\ o \in Known
      BY <1>2, <1>3, <1>4, <3>1
    <3>3. ClickUpKindOf[o] \notin {"attachment", "relationship"}
      BY <3>2
    <3>4. \A op \in Listings : KindIn(op) = ClickUpKindOf[o] => op \in ops
      BY <2>1, <3>2
    <3> QED
      BY <3>2, <3>3, <3>4, AnsweredFor
  <2> HIDE DEF ids
  <2>2. ASSUME NEW o \in typed({"space"}) PROVE o \in ids({"list-spaces"})
    BY <2>1, KindsInAre
  <2>3. ASSUME NEW o \in typed({"folder"}) PROVE o \in ids({"list-folders"})
    BY <2>1, KindsInAre
  <2>4. ASSUME NEW o \in typed({"list"}) PROVE o \in ids({"list-lists"})
    BY <2>1, KindsInAre
  <2>5. ASSUME NEW o \in typed({"field"}) PROVE o \in ids({"list-fields"})
    BY <2>1, KindsInAre
  <2>6. ASSUME NEW o \in typed({"comment"}) PROVE o \in ids(CommentOps)
    BY <2>1, KindsInAre
  <2> QED
    BY <2>2, <2>3, <2>4, <2>5, <2>6
<1>6. typed({"task", "subtask"}) \subseteq ids({"get-task"})
  <2>1. ASSUME NEW o \in typed({"task", "subtask"}) PROVE o \in ids({"get-task"})
    <3>1. o \in Things /\ TypeOf(o) \in {"task", "subtask"}
      BY <1>1
    <3>2. ClickUpKindOf[o] = "task"
      BY <3>1, SubtaskIs DEF TypeOf, Tasks
    <3>3. o \in Known
      BY <1>2, <3>1, <3>2
    <3> QED
      BY <3>2, <3>3, DetailOf
  <2> QED
    BY <2>1
<1>7. typed({"attachment", "relationship"}) = hanging
  <2>1. ASSUME NEW o \in typed({"attachment", "relationship"}) PROVE o \in hanging
    <3>1. o \in Things /\ TypeOf(o) \in {"attachment", "relationship"}
      BY <1>1
    <3>2. ClickUpKindOf[o] \in {"attachment", "relationship"} /\ o \in Known
      BY <1>2, <1>4, <3>1
    <3>3. PICK i \in 1..Len(ledger) : Says(ledger[i], o)
      BY <3>2 DEF Untouched, Scanned, Said
    <3>4. IsAnswer(ledger[i]) /\ ledger[i].request.op = "get-task"
      BY <3>2, <3>3 DEF Says
    <3>5. PICK j \in 1..Len(ledger[i].items) : o \in HangingOn(ledger[i].items[j])
      BY <3>2, <3>3 DEF Says
    <3>6. i \in Nat /\ j \in Nat /\ IsFrom({"get-task"}, i, j)
      BY <3>4 DEF IsFrom
    <3>7. ledger[i].items[j] \in details
      BY <3>6, ItemsOfAre DEF Untouched, Scanned, details
    <3> QED
      BY <3>5, <3>7 DEF hanging
  <2>2. ASSUME NEW item \in details, NEW o \in HangingOn(item)
        PROVE  o \in typed({"attachment", "relationship"})
    <3>1. item.id \in Tasks /\ item = ClickUpSource[item.id]
      BY <2>2, DetailItems DEF details
    <3>2. o \in Hangable
      <4>1. item.id \in Things
        BY <3>1 DEF Tasks
      <4>2. HangingOn(ClickUpSource[item.id]) \subseteq Hangable
        BY <4>1, HangingIs
      <4>3. HangingOn(item) = HangingOn(ClickUpSource[item.id])
        BY <3>1
      <4> QED
        BY <2>2, <4>2, <4>3
    <3>3. o \in Things /\ TypeOf(o) \in {"attachment", "relationship"}
      BY <3>2 DEF Hangable, TypeOf, Tasks
    <3> QED
      BY <1>1, <3>3
  <2> QED
    BY <2>1, <2>2 DEF hanging
<1>8. hanging = UNION {ClickUp!ToSet(item.attachments) \cup item.links : item \in details}
  BY DEF hanging, HangingOn
<1> QED
  BY <1>5, <1>6, <1>7, <1>8
  DEF ClickUp!EvidenceCovers, ClickUp!Positions, typed, details, CommentOps

-----------------------------------------------------------------------------
(* They are consistent among themselves.                                   *)
LEMMA CountOfOne ==
  ASSUME NEW S, NEW x, S = {x}
  PROVE  ClickUp!Cardinality(S) = 1
<1>1. Cardinality(S) = 1
  BY FS_Singleton
<1>2. ClickUp!Cardinality(S) = Cardinality(S)
  BY DEF ClickUp!Cardinality, Cardinality
<1> QED
  BY <1>1, <1>2

LEMMA OccurrencesAre ==
  ASSUME NEW ops, NEW o, NEW x
  PROVE  x \in ClickUp!Occurrences(ops, o, ledger) <=>
           \E i \in 1..Len(ledger) :
             /\ IsAnswer(ledger[i]) /\ ledger[i].request.op \in ops
             /\ \E j \in 1..Len(ledger[i].items) : ledger[i].items[j].id = o /\ x = <<i, j>>
BY DEF ClickUp!Occurrences, ClickUp!Positions, IsAnswer

LEMMA Collecting ==
  ASSUME Untouched
  PROVE  ClickUp!EvidenceCollects(ledger)
<1> DEFINE details == ClickUp!ItemsOf({"get-task"}, ledger)
           comments == ClickUp!ItemsOf(CommentOps, ledger)
           fields == ClickUp!ItemsOf({"list-fields"}, ledger)
<1>1. ASSUME NEW ops, NEW a \in ClickUp!ItemsOf(ops, ledger), NEW b \in ClickUp!ItemsOf(ops, ledger),
             a.id = b.id
      PROVE  a = b
  BY <1>1, SourceItems
<1>2. \A op \in ClickUp!LocationOps : ClickUp!OneName(ClickUp!ItemsOf({op}, ledger))
  BY <1>1 DEF ClickUp!OneName
<1>3. ClickUp!OneDefinition(fields)
  BY <1>1 DEF ClickUp!OneDefinition
<1>4. \A item \in details : item.id \in Tasks /\ item = ClickUpSource[item.id]
  BY DetailItems
<1>5. \A item \in comments : item.id \in Comments /\ item = ClickUpSource[item.id]
  BY CommentItems
<1> HIDE DEF details, comments, fields
<1>6. ClickUp!OnePerson(details \cup comments)
  <2> DEFINE all == {ClickUpSource[o] : o \in Tasks \cup Comments}
  <2>1. details \cup comments \subseteq all
    BY <1>4, <1>5
  <2>2. UNION {item.people : item \in details \cup comments} \subseteq UNION {item.people : item \in all}
    BY <2>1
  <2> HIDE DEF all
  <2>3. \A p, q \in UNION {item.people : item \in all} : p.id = q.id => p.name = q.name
    BY PeopleAre DEF ClickUp!OnePerson, all
  <2> QED
    BY <2>2, <2>3 DEF ClickUp!OnePerson
<1>7. \A o \in {item.id : item \in details} :
        ClickUp!Cardinality(ClickUp!Occurrences({"get-task"}, o, ledger)) = 1
  <2> SUFFICES ASSUME NEW item \in details
               PROVE  ClickUp!Cardinality(ClickUp!Occurrences({"get-task"}, item.id, ledger)) = 1
    OBVIOUS
  <2> DEFINE t == item.id
             S == ClickUp!Occurrences({"get-task"}, t, ledger)
  <2>1. t \in Known /\ ClickUpKindOf[t] = "task" /\ t \in Things
    BY <1>4, SourceItems DEF Tasks, details
  <2> HIDE DEF t
  <2>2. PICK i \in 1..Len(ledger) :
          IsDetail(ledger[i], t) /\ Len(ledger[i].items) = 1 /\ ledger[i].items[1].id = t
    BY <2>1, DetailOf
  <2>3. ASSUME NEW k \in 1..Len(ledger), IsAnswer(ledger[k]), ledger[k].request.op = "get-task",
               NEW j \in 1..Len(ledger[k].items), ledger[k].items[j].id = t
        PROVE  k = i /\ j = 1
    <3>1. IsLearned(ledger[k])
      BY <2>3 DEF Untouched, Scanned, LedgerLearned
    <3>2. ledger[k].request.of = t
      BY <2>3, <3>1 DEF IsLearned
    <3>3. IsDetail(ledger[k], t)
      BY <2>3, <3>2 DEF IsDetail
    <3>4. k = i
      BY <2>1, <2>2, <3>3 DEF Untouched, Scanned, Details
    <3> QED
      BY <2>2, <2>3, <3>4
  <2>4. \A x : x \in S <=> x = <<i, 1>>
    <3>1. \A x : x \in S <=>
            \E k \in 1..Len(ledger) :
              /\ IsAnswer(ledger[k]) /\ ledger[k].request.op \in {"get-task"}
              /\ \E j \in 1..Len(ledger[k].items) : ledger[k].items[j].id = t /\ x = <<k, j>>
      BY OccurrencesAre
    <3> HIDE DEF S
    <3>2. IsAnswer(ledger[i]) /\ ledger[i].request.op = "get-task" /\ 1 \in 1..Len(ledger[i].items)
      BY <2>2 DEF IsDetail
    <3>3. <<i, 1>> \in S
      BY <2>2, <3>1, <3>2
    <3>4. ASSUME NEW x \in S PROVE x = <<i, 1>>
      BY <2>3, <3>1
    <3> QED
      BY <3>3, <3>4
  <2> HIDE DEF S
  <2>5. S = {<<i, 1>>}
    BY <2>4
  <2>6. ClickUp!Cardinality(S) = 1
    BY <2>5, CountOfOne
  <2> QED
    BY <2>6 DEF S, t
<1>8. \A o \in {item.id : item \in comments} :
        ClickUp!Cardinality(ClickUp!Occurrences(CommentOps, o, ledger)) = 1
  <2> SUFFICES ASSUME NEW item \in comments
               PROVE  ClickUp!Cardinality(ClickUp!Occurrences(CommentOps, item.id, ledger)) = 1
    OBVIOUS
  <2> DEFINE S == ClickUp!Occurrences(CommentOps, item.id, ledger)
  <2>1. PICK i \in Nat, j \in Nat : IsFrom(CommentOps, i, j) /\ item = ledger[i].items[j]
    BY ItemIsSource DEF comments
  <2>2. /\ i \in 1..Len(ledger) /\ j \in 1..Len(ledger[i].items) /\ HasComments(ledger[i])
        /\ ledger[i].items[j].id = item.id
    BY <2>1 DEF IsFrom, HasComments, CommentOps
  <2>3. ASSUME NEW k \in 1..Len(ledger), IsAnswer(ledger[k]), ledger[k].request.op \in CommentOps,
               NEW l \in 1..Len(ledger[k].items), ledger[k].items[l].id = item.id
        PROVE  k = i /\ l = j
    <3>1. HasComments(ledger[k])
      BY <2>3 DEF HasComments, CommentOps
    <3> QED
      BY <2>2, <2>3, <3>1 DEF Untouched, Scanned, CommentsOnce
  <2>4. \A x : x \in S <=> x = <<i, j>>
    <3>1. \A x : x \in S <=>
            \E k \in 1..Len(ledger) :
              /\ IsAnswer(ledger[k]) /\ ledger[k].request.op \in CommentOps
              /\ \E l \in 1..Len(ledger[k].items) : ledger[k].items[l].id = item.id /\ x = <<k, l>>
      BY OccurrencesAre
    <3> HIDE DEF S
    <3>2. IsAnswer(ledger[i]) /\ ledger[i].request.op \in CommentOps
      BY <2>1 DEF IsFrom
    <3>3. <<i, j>> \in S
      BY <2>2, <3>1, <3>2
    <3>4. ASSUME NEW x \in S PROVE x = <<i, j>>
      BY <2>3, <3>1
    <3> QED
      BY <3>3, <3>4
  <2> HIDE DEF S
  <2>5. S = {<<i, j>>}
    BY <2>4
  <2>6. ClickUp!Cardinality(S) = 1
    BY <2>5, CountOfOne
  <2> QED
    BY <2>6 DEF S
<1>9. \A item \in details :
        /\ ClickUp!ToSet(item.values) \subseteq {field.id : field \in fields}
        /\ ClickUp!IsInjective(item.values) /\ ClickUp!IsInjective(item.attachments)
  <2> SUFFICES ASSUME NEW item \in details, NEW t, t = item.id, item = ClickUpSource[t], t \in Tasks
               PROVE  /\ ClickUp!ToSet(item.values) \subseteq {field.id : field \in fields}
                      /\ ClickUp!IsInjective(item.values) /\ ClickUp!IsInjective(item.attachments)
    BY <1>4
  <2>1. /\ ClickUp!IsInjective(item.values) /\ ClickUp!IsInjective(item.attachments)
        /\ ClickUp!ToSet(item.values) \subseteq {o \in Things : ClickUpKindOf[o] = "field"}
    BY TaskIs
  <2>2. ASSUME NEW o \in Things, ClickUpKindOf[o] = "field"
        PROVE  o \in {field.id : field \in fields}
    <3>1. o \in Known
      BY <2>2, AllIsKnown, Bounds, KindsAre
    <3>2. \A op \in Listings : KindIn(op) = ClickUpKindOf[o] => op \in {"list-fields"}
      BY <2>2, KindsInAre
    <3>3. ClickUpKindOf[o] \notin {"attachment", "relationship"}
      BY <2>2
    <3> QED
      BY <3>1, <3>2, <3>3, AnsweredFor DEF fields
  <2> QED
    BY <2>1, <2>2
<1>10. \A a, b \in details :
         a # b => ClickUp!ToSet(a.attachments) \cap ClickUp!ToSet(b.attachments) = {}
  <2>1. \A t \in Tasks : \A x \in ClickUp!ToSet(ClickUpSource[t].attachments) : ClickUpListedIn[x] = t
    BY TaskIs
  <2> QED
    BY <1>4, <2>1
<1> QED
  BY <1>2, <1>3, <1>6, <1>7, <1>8, <1>9, <1>10
  DEF ClickUp!EvidenceCollects, details, comments, fields, CommentOps

-----------------------------------------------------------------------------
(* What loads is whole.                                                    *)
LEMMA ClickUpWholeFollows ==
  ASSUME ScanInv, ClickUp!Loads(place) => place.requests[1] = ledger
  PROVE  ClickUpIsWhole
<1> DEFINE IsWhole(index, answers) ==
             /\ {index[i].object : i \in 1..Len(index)} =
                  ClickUp!Mentioned(answers) \cup {ClickUpWorkspace}
             /\ ~edited =>
                  /\ {index[i].object : i \in 1..Len(index)} = Things
                  /\ \A i \in 1..Len(index) :
                       index[i].type # "relationship" =>
                         index[i].parent = IF index[i].type = "subtask"
                                             THEN ClickUpSource[index[i].object].parent
                                             ELSE ClickUpListedIn[index[i].object]
                  /\ ClickUp!Normalizes(index, answers)
                  /\ \A i \in 1..Len(index) :
                       index[i].type = "subtask" =>
                         ClickUp!CollectionOf(index, index[i].object) =
                           ClickUpListedIn[index[i].object]
<1> SUFFICES ASSUME ClickUp!Loads(place)
             PROVE  IsWhole(place.inventory[1], place.requests[1])
  BY DEF ClickUpIsWhole, ClickUp!LoadableIsWhole, ClickUp!Positions, Things
<1>0. place.requests[1] = ledger
  OBVIOUS
<1> HIDE DEF IsWhole
<1> DEFINE index == place.inventory[1]
<1>1. IsCompleted /\ index = place.run[1].index /\ ClickUp!ValidIndex(index)
  BY DEF ClickUp!Loads, IsCompleted
<1>2. Scanned /\ queue = <<>> /\ phase = "details" /\ index = ClickUp!SourceObjects
  BY <1>1 DEF ScanInv, Ended
<1>3. Known \subseteq Things
  BY <1>2 DEF Scanned, Queue
<1> HIDE DEF index
<1>4. {index[i].object : i \in 1..Len(index)} = ClickUp!Mentioned(ledger) \cup {ClickUpWorkspace}
  BY <1>2, <1>3, ObjectsInIndex, MentionedAre
<1>5. ASSUME ~edited
      PROVE  /\ {index[i].object : i \in 1..Len(index)} = Things
             /\ \A i \in 1..Len(index) :
                  index[i].type # "relationship" =>
                    index[i].parent = IF index[i].type = "subtask"
                                        THEN ClickUpSource[index[i].object].parent
                                        ELSE ClickUpListedIn[index[i].object]
             /\ ClickUp!Normalizes(index, ledger)
             /\ \A i \in 1..Len(index) :
                  index[i].type = "subtask" =>
                    ClickUp!CollectionOf(index, index[i].object) = ClickUpListedIn[index[i].object]
  <2>1. Untouched
    BY <1>2, <1>5 DEF Untouched
  <2>2. IsTrueIndex(index)
    BY <1>1, <1>2, <2>1, TheIndexIsTrue
  <2>3. {index[i].object : i \in 1..Len(index)} = Things
    BY <2>2 DEF IsTrueIndex
  <2>4. \A i \in 1..Len(index) :
          index[i].type # "relationship" =>
            index[i].parent = IF index[i].type = "subtask"
                                THEN ClickUpSource[index[i].object].parent
                                ELSE ClickUpListedIn[index[i].object]
    BY <2>2 DEF IsTrueIndex, ParentOf
  <2>5. ClickUp!Normalizes(index, ledger)
    BY <2>1, <2>2, Collecting, Covering, AllHierarchiesEnd DEF ClickUp!Normalizes
  <2>6. \A i \in 1..Len(index) :
          index[i].type = "subtask" =>
            ClickUp!CollectionOf(index, index[i].object) = ClickUpListedIn[index[i].object]
    BY <2>2, SubtasksAreFiled
  <2> QED
    BY <2>3, <2>4, <2>5, <2>6
<1>6. IsWhole(index, ledger)
  BY <1>4, <1>5 DEF IsWhole
<1> QED
  BY <1>0, <1>6 DEF index

(* ClickUp: a snapshot that loads holds every object that any of its       *)
(* answers mentions, whatever was edited while scan and getWithQuery went  *)
(* through the Workspace; and if nothing was edited it is the whole        *)
(* Workspace, each object below its own parent, accepted by portable.go,   *)
(* with every Subtask in the List of its Task.                             *)
THEOREM ClickUpWholeCorrect == ExtractSpec => []ClickUpIsWhole
<1>1. ExtractInit => ScanInv
  BY ScanInitially DEF ExtractInit
<1>2. [ExtractNext]_allVars => [ClickUp!Next]_(ClickUp!vars)
  BY DEF ExtractNext, NotionStep, ClickUpStep, allVars, clickUpVars, ClickUp!vars,
         ClickUp!clientVars, ClickUp!snapshotVars
<1>3. ScanInv /\ ClickUpFiles /\ [ExtractNext]_allVars => ScanInv'
  BY <1>2, ScanStep
<1>4. ClickUpSession!IInv => ClickUpFiles
  BY ClickUpFilesAre
<1>5. ScanInv /\ ClickUpSession!LedgerIsWhatWasSent => ClickUpIsWhole
  BY ClickUpWholeFollows, ClickUpLoads DEF ClickUpSession!LedgerIsWhatWasSent
<1>6. ExtractSpec => []ClickUpSession!IInv
  BY Safety, ClickUpImplementsRecording, ClickUpSession!Invariance, PTL
<1>7. ExtractSpec => []ScanInv
  BY <1>1, <1>3, <1>4, <1>6, PTL DEF ExtractSpec, ExtractSafety
<1>8. ExtractSpec => []ClickUpSession!LedgerIsWhatWasSent
  BY Safety, ClickUpImplementsRecording, ClickUpSession!RecordingCorrect, PTL
<1> QED
  BY <1>5, <1>7, <1>8, PTL
=============================================================================
