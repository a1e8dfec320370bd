----------------------------- MODULE OrganizedView -----------------------------
(***************************************************************************)
(* The organized view of an archive (internal/organize.Build): a derived   *)
(* directory of pages and copied attachments, for a reader who browses.    *)
(* The archive is verified, read entity by entity while it may change, and *)
(* verified again before one rename publishes the view: it may decay, and  *)
(* its owner may put another one in its place.  The view's place may be    *)
(* taken meanwhile by somebody else; it is never merged into.              *)
(***************************************************************************)
EXTENDS ArchiveBuild, RecoveryReport

VARIABLES
  view,    (* [at, tables, pages, binaries, of, returned]: the view being  *)
           (* written; how many tables have their pages; of is the         *)
           (* manifest's checksum it was started with; returned (history), *)
           (* the archive of that manifest was put back meanwhile          *)
  output   (* the directory it is meant for                                *)

viewVars == <<view, output>>

ViewInit ==
  /\ view = [at |-> "begin", tables |-> 0, pages |-> {}, binaries |-> Absent,
             of |-> None, returned |-> FALSE]
  /\ output = Absent

ViewEnds == {"refused", "failed", "published", "killed"}

(* Whatever goes wrong, the staging directory is removed.                  *)
ViewFails == view' = [view EXCEPT !.at = "failed", !.tables = 0,
                                  !.pages = {}, !.binaries = Absent]

ViewStep(from) ==
  /\ view.at = from
  /\ UNCHANGED buildVars

Readable(path) == path \in DOMAIN disk /\ disk[path].intact

(* The first verification, and the place of the view must be free.         *)
VerifyBefore ==
  /\ ViewStep("begin")
  /\ step = "sealed"
  /\ view' = [view EXCEPT !.at =
                IF output = Absent /\ Clean(disk) THEN "read manifest"
                                                  ELSE "refused"]
  /\ UNCHANGED output

ReadManifest ==
  /\ ViewStep("read manifest")
  /\ IF Readable(Sealed) /\ Db \in DOMAIN disk
       THEN view' = [view EXCEPT !.at = "pages", !.of = disk[Sealed]]
       ELSE ViewFails
  /\ UNCHANGED output

(* A page for every row of the tables that have pages, in one query per    *)
(* table: the Workspace, its containers, collections, and records.         *)
PageTables == <<"workspaces", "containers", "collections", "records">>

WritePages ==
  /\ ViewStep("pages")
  /\ IF Readable(Db)
       THEN view' = [view EXCEPT
                       !.at = IF view.tables + 1 = Len(PageTables)
                                THEN "attachments" ELSE @,
                       !.tables = @ + 1,
                       !.pages = @ \union IdsIn(disk[Db].data.rows,
                                               PageTables[view.tables + 1])]
       ELSE ViewFails
  /\ UNCHANGED output

(* The attachments of the records with pages, each compared with the       *)
(* checksum of its row while it is copied.                                 *)
Copies(b) ==
  {a \in DOMAIN b.held :
     \E i \in IdsIn(b.rows, "attachments") :
       b.rows[i].src = a /\ b.rows[i].home \in view.pages}

CopyAttachments ==
  /\ ViewStep("attachments")
  /\ IF /\ Readable(Db)
        /\ \A a \in Copies(disk[Db].data) :
             /\ disk[Db].data.held[a].status = "RETRIEVED"
             /\ Binary(a) \in DOMAIN disk
             /\ disk[Binary(a)] = disk[Db].data.held[a].bytes
       THEN view' = [view EXCEPT !.at = "verify", !.binaries =
                       [a \in Copies(disk[Db].data) |-> disk[Binary(a)]]]
       ELSE ViewFails
  /\ UNCHANGED output

VerifyAgain ==
  /\ ViewStep("verify")
  /\ IF Clean(disk) THEN view' = [view EXCEPT !.at = "compare"] ELSE ViewFails
  /\ UNCHANGED output

(* Bug: that it verifies is enough.                                        *)
CompareNothing ==
  /\ ViewStep("compare")
  /\ view' = [view EXCEPT !.at = "publish"]
  /\ UNCHANGED output

CompareManifest ==
  /\ ViewStep("compare")
  /\ IF Readable(Sealed) /\ disk[Sealed] = view.of
       THEN view' = [view EXCEPT !.at = "publish"] ELSE ViewFails
  /\ UNCHANGED output

(* Bug: the place was free when the command started.                       *)
PublishViewOver ==
  /\ ViewStep("publish")
  /\ output' = [pages |-> view.pages, binaries |-> view.binaries,
                of |-> view.of]
  /\ view' = [view EXCEPT !.at = "published"]

PublishView ==
  /\ ViewStep("publish")
  /\ IF output = Absent
       THEN /\ output' = [pages |-> view.pages, binaries |-> view.binaries,
                          of |-> view.of]
            /\ view' = [view EXCEPT !.at = "published"]
       ELSE ViewFails /\ UNCHANGED output

(* An error of its own or an interruption; a kill leaves the staging.      *)
ViewInterrupted ==
  /\ view.at \notin ViewEnds \union {"begin"}
  /\ faults < MaxFaults
  /\ faults' = faults + 1
  /\ ViewFails
  /\ UNCHANGED <<step, input, held, attempt, staging, disk, aside,
                 interrupted, damage, swaps, output>>

ViewKilled ==
  /\ view.at \notin ViewEnds
  /\ view' = [view EXCEPT !.at = "killed"]
  /\ UNCHANGED buildVars
  /\ UNCHANGED output

(* Somebody else's directory, without a manifest's checksum.               *)
ForeignView == [pages |-> {}, binaries |-> Absent, of |-> None]

TakeOutput ==
  /\ step = "sealed"
  /\ output = Absent
  /\ view.at \notin ViewEnds
  /\ output' = ForeignView
  /\ UNCHANGED view
  /\ UNCHANGED buildVars

(* The owner exchanges the archive under the view's hands.  At any other   *)
(* moment it is as if the other archive had been the one that was built.   *)
Reading == {"pages", "attachments", "verify", "compare"}

ArchiveExchanged ==
  /\ view.at \in Reading \union {"read manifest", "publish"}
  /\ Exchange
  /\ view' = [view EXCEPT !.returned =
                @ \/ (view.at \in Reading /\ disk'[Sealed] = view.of)]
  /\ UNCHANGED output

-----------------------------------------------------------------------------
Init == BuildInit /\ ViewInit

Next ==
  \/ BuildNext /\ UNCHANGED viewVars
  \/ VerifyBefore \/ ReadManifest \/ WritePages \/ CopyAttachments
  \/ VerifyAgain \/ CompareManifest \/ PublishView
  \/ ViewInterrupted \/ ViewKilled \/ TakeOutput \/ ArchiveExchanged

vars == <<buildVars, viewVars>>

Spec == Init /\ [][Next]_vars
-----------------------------------------------------------------------------
(* Properties.                                                             *)

Truth == input.evidence

(* The source key of what a row says it hangs on.                          *)
ParentKey(rows, i) ==
  LET over == IF rows[i].up # None THEN rows[i].up ELSE rows[i].home
  IN  IF over = None THEN None ELSE SourceKey(rows[over])

(* A row of the tree hangs where the extraction saw its object, and a      *)
(* nested record or a reply is filed with what it is nested in.            *)
HangsRight(rows, i) ==
  LET row == rows[i]
  IN  /\ ParentKey(rows, i) = Truth.index[SourceKey(row)]
      /\ row.table \in {"records", "comments"} /\ row.up # None =>
           row.home = rows[row.up].home

Tree == {"collections", "records", "comments", "attachments"}

(* Whatever mistakes a connector's normalisation made and whatever         *)
(* happened to the directory since: an archive that verifies holds exactly *)
(* the objects the extraction saw, each where it was seen, and every       *)
(* attachment as it was at the source (verify.Archive).                    *)
VerifiedIsTheSource ==
  Clean(disk) =>
    LET b == disk[Db].data
    IN  /\ {SourceKey(b.rows[i]) : i \in DOMAIN b.rows} = DOMAIN Truth.index
        /\ \A i \in DOMAIN b.rows :
             b.rows[i].table \in Tree => HangsRight(b.rows, i)
        /\ \A a \in DOMAIN input.held :
             Binary(a) \in DOMAIN disk /\ disk[Binary(a)] = Bytes[a]

(* The objects of an extraction hang on one another, and every chain ends. *)
Forest(index) ==
  \A key \in DOMAIN index :
    /\ index[key] \in DOMAIN index \union {None}
    /\ Above(index, key)[Cardinality(DOMAIN index)] = None

(* A row says of its object what the extraction saw.  A container may have *)
(* no parent in the index, although it belongs to the Workspace.           *)
Describes(rows, i) ==
  LET row == rows[i]
      seen == Truth.index[SourceKey(row)]
  IN  /\ i = PortableID(row)
      /\ row.raw \in {Control, Response}
      /\ row.table = "workspaces" => seen = None
      /\ row.table = "containers" =>
           /\ row.kind = row.type
           /\ HangsRight(rows, i) \/ (row.up = None /\ seen = None)
      /\ row.table \in Tree => HangsRight(rows, i)
      /\ row.table = "relationships" => RelationshipStands(rows, row)

(* A normalisation without a mistake: one row for every object of the      *)
(* extraction, and the capabilities of a connector that finished it, all   *)
(* of them required, and attachments not tried yet.                        *)
Faithful ==
  LET rows == input.rows
      caps == Truth.caps
  IN  /\ Forest(Truth.index)
      /\ IndexIsSound(rows)
      /\ {SourceKey(rows[i]) : i \in DOMAIN rows} = DOMAIN Truth.index
      /\ Cardinality(IdsIn(rows, "workspaces")) = 1
      /\ \A i \in DOMAIN rows : Describes(rows, i)
      /\ \A v \in input.values : v.verdict # "INVALID"
      /\ DOMAIN caps # {}
      /\ \A id \in DOMAIN caps :
           /\ caps[id].requirement = "REQUIRED"
           /\ id = AttachmentContent => caps[id].availability = "UNKNOWN"

(* The builder and the verifier agree: what was built of a faithful        *)
(* extraction and left alone is never called FAILED, and it is INCOMPLETE  *)
(* exactly when an attachment could not be had (archive.Build against      *)
(* verify.Archive).                                                        *)
FaithfulIsVerified ==
  step = "sealed" /\ damage = 0 /\ Faithful =>
    Result(Verify(disk)) =
      IF \E a \in DOMAIN held : held[a].status # "RETRIEVED"
        THEN "INCOMPLETE" ELSE "VERIFIED_WITH_LIMITATIONS"

(* The target's name never shows a half-built archive: at every moment,    *)
(* also after a kill, it is free, somebody else's, or holds every file its *)
(* manifest lists and no other, and a database with the manifest's status  *)
(* (the staging directory of archive.Build).                               *)
TargetIsWhole ==
  \/ disk \in {Absent, Foreign}
  \/ damage > 0
  \/ LET m == disk[Sealed].data
     IN  /\ StructureCheck(disk) = "PASS"
         /\ FileInventoryCheck(disk, m) = "PASS"
         /\ FileChecksumsCheck(disk, m) = "PASS"
         /\ m.status = disk[Db].data.status
         /\ \A a \in DOMAIN input.held :
              Binary(a) \in DOMAIN disk <=> m.held[a].status = "RETRIEVED"

(* A claim of the recovery report is PROVEN on its own checks even when    *)
(* the verification as a whole failed: of a damaged archive or a wrong     *)
(* normalisation, what it says is proven is true all the same.  And of an  *)
(* archive that is not all that the extraction saw, it always says that it *)
(* is not proven as a whole, and names each attachment its readable        *)
(* manifest knows to be missing (report.Build).                            *)
AllHeld ==
  \A a \in DOMAIN input.held :
    Binary(a) \in DOMAIN disk /\ disk[Binary(a)] = Bytes[a]

AllThere ==
  LET rows == disk[Db].data.rows
  IN  {SourceKey(rows[i]) : i \in DOMAIN rows} = DOMAIN Truth.index

AllInPlace ==
  LET rows == disk[Db].data.rows
  IN  \A i \in DOMAIN rows :
        /\ rows[i].table \in Tree
        /\ SourceKey(rows[i]) \in DOMAIN Truth.index
        => HangsRight(rows, i)

ReportIsHonest ==
  step = "sealed" =>
    LET report == Report(disk)
    IN  /\ "nothing_lost" \in report.proven => AllThere
        /\ "reassembles" \in report.proven => AllInPlace
        /\ "binaries" \in report.proven => AllHeld
        /\ \/ "proven as a whole" \in report.mustNotClaim
           \/ Db \in DOMAIN disk /\ AllHeld /\ AllThere /\ AllInPlace
        /\ ManifestRead(disk) =>
             report.unresolved =
               {a \in DOMAIN input.held : held[a].status # "RETRIEVED"}
        /\ report.conclusion.verdict = "cannot be proven" =>
             report.conclusion.contradicted # {}

(* A published view is of one archive, the one whose manifest it names: it *)
(* has a page for every object of its database and every attachment,       *)
(* although it was read file by file and table by table while the archive  *)
(* could decay or be exchanged under it (organize.Build verifies before    *)
(* and after and compares the manifest's checksum).  The one exception is  *)
(* an archive that was put back before the comparison: what was read while *)
(* it was away is then nowhere noticed.                                    *)
ViewIsOfOneArchive ==
  view.at = "published" /\ ~view.returned =>
    LET written == output.of.data.files[Db].data
    IN  /\ output.pages = UNION {IdsIn(written.rows, PageTables[k]) :
                                   k \in DOMAIN PageTables}
        /\ output.binaries = [a \in DOMAIN written.held |-> Bytes[a]]

(* Neither the builder nor the view ever writes into or over a directory   *)
(* that was there: archive, failed archive and view come into being once,  *)
(* whole (the renames of archive.Build, preserveFailedArchive and          *)
(* organize.Build).                                                        *)
NothingIsReplaced ==
  [][/\ disk # Absent => disk' = disk \/ damage' # damage \/ swaps' # swaps
     /\ aside # Absent => aside' = aside
     /\ output # Absent => output' = output]_vars
=============================================================================
