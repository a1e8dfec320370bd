-------------------------- MODULE MCNotionExtraction --------------------------
(***************************************************************************)
(* A workspace with two data sources of one database.  The first has three *)
(* pages, one more than a query returns; the first page has three levels   *)
(* of blocks, the first of them on two pages of a list.                    *)
(***************************************************************************)
EXTENDS NotionExtraction

CONSTANTS ws, db, ds1, ds2, p1, p2, p3, b1, b2, b3, title, stage

MCObjects == {ws, db, ds1, ds2, p1, p2, p3, b1, b2, b3}

MCProperties == {title, stage}

MCKindOf ==
  [o \in MCObjects |->
     CASE o = ws -> "workspace"
       [] o = db -> "database"
       [] o \in {ds1, ds2} -> "data source"
       [] o \in {p1, p2, p3} -> "page"
       [] o \in {b1, b2, b3} -> "block"]

MCChildren ==
  [o \in MCObjects |->
     CASE o = ws -> <<ds1, ds2>>
       [] o = ds1 -> <<p1, p2, p3>>
       [] o = p1 -> <<b1, b3>>
       [] o = b1 -> <<b2>>
       [] OTHER -> <<>>]

MCDatabaseOf == [o \in {ds1, ds2} |-> db]

(* As in the fixture of the tests: the second data source has no columns.  *)
MCPropertiesOf == [o \in {ds1, ds2} |-> IF o = ds1 THEN <<title, stage>> ELSE <<>>]

(* Every data source has a title column, and its id is always the same.    *)
MCTitlesOf == [o \in {ds1, ds2} |-> IF o = ds1 THEN <<title, stage>> ELSE <<title>>]
=============================================================================
