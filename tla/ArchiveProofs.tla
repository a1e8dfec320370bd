------------------------------ MODULE ArchiveProofs ------------------------------
(***************************************************************************)
(* Theorems about the archive and the view made of it (OrganizedView), for *)
(* any inputs, attachments, attempts, faults and damage.                   *)
(***************************************************************************)
EXTENDS OrganizedView, FiniteSetTheorems, FunctionTheorems, TLAPS

(* The files of an archive but its manifest, as the builder writes them.   *)
Binaries == {Binary(a) : a \in Retrieved(held)}

Content(p) ==
  CASE p = Control -> File(input.evidence, 1)
    [] p = Response -> File("answers", 1)
    [] p = Db -> File(Database, 1)
    [] p = Schema -> File("schema", 1)
    [] OTHER -> Bytes[p[2]]

Holds(d, paths) ==
  /\ DOMAIN d = paths \cup {Control, Response} \cup Binaries
  /\ \A p \in DOMAIN d \ {Sealed} : d[p] = Content(p)

(* The manifest says what the builder knew.                                *)
SealOK(m) ==
  /\ m.status = ArchiveStatus(held, ObservedCapabilities)
  /\ m.caps = ObservedCapabilities
  /\ m.health = AggregateHealth(ObservedCapabilities)
  /\ m.held = held
  /\ m.discrepancies = Discrepancies(input.rows, held)
  /\ m.tally = input.evidence.tally /\ m.nested = input.evidence.nested
  /\ m.archived = Tally(input.rows, DOMAIN input.evidence.tally)
  /\ m.retrieved = Cardinality(Retrieved(held))
  /\ m.digest = Digest(input.evidence)
  /\ Holds(m.files, {Db, Schema})

IsArchive(d) ==
  /\ Holds(d, {Db, Schema, Sealed})
  /\ d[Sealed] = File(d[Sealed].data, 1)
  /\ SealOK(d[Sealed].data)

(* A database that is not as it was written will not be again.             *)
DbLost(d) ==
  \/ Db \notin DOMAIN d
  \/ ~ d[Db].intact
  \/ ~ (DOMAIN input.rows \subseteq DOMAIN d[Db].data.rows)

Table(b) == DOMAIN b = {"rows", "values", "held", "status", "digest"}

Decayed(d) ==
  /\ \A p \in DOMAIN d : DOMAIN d[p] = {"data", "intact", "size"}
  /\ \A p \in DOMAIN d \ {Sealed, Db, Binary("stray")} :
       d[p].intact => d[p] = Content(p)
  /\ Sealed \in DOMAIN d => SealOK(d[Sealed].data)
  /\ Db \in DOMAIN d =>
       LET b == d[Db].data
       IN  /\ Table(b)
           /\ DOMAIN b.rows \subseteq DOMAIN input.rows
           /\ \A i \in DOMAIN b.rows : b.rows[i] = input.rows[i]
  /\ DbLost(d) \/ d[Db] = Content(Db)

HeldOK ==
  /\ input \in Inputs
  /\ DOMAIN held = DOMAIN input.held
  /\ \A a \in DOMAIN held :
       /\ DOMAIN held[a] = {"status", "bytes", "expected"}
       /\ held[a].status \in {"PENDING", "RETRIEVED", "UNRESOLVED"}
       /\ held[a].status = "RETRIEVED" =>
            held[a].bytes = Bytes[a] /\ held[a].expected \in {None, Bytes[a].size}
       /\ held[a].status # "RETRIEVED" => held[a].bytes = None
  /\ attempt # None =>
       /\ attempt = <<attempt[1], attempt[2]>>
       /\ attempt[1] \in AttachmentsPending

StagingOK ==
  /\ step \in {"begin", "copy"} => held = input.held
  /\ step \in {"download", "database"} => Holds(staging, {})
  /\ step = "schema" => Holds(staging, {Db})
  /\ step = "manifest" => Holds(staging, {Db, Schema})
  /\ step = "publish" => IsArchive(staging)
  /\ step \in {"database", "schema", "manifest", "publish", "sealed"} =>
       \A a \in DOMAIN held : held[a].status # "PENDING"
  /\ step \in {"schema", "manifest", "publish", "sealed"} =>
       ReferencesHold(input.rows, input.values)
  /\ step \in {"copy", "download", "database", "schema", "manifest", "publish",
               "sealed"} => Validates(input)

DiskOK ==
  /\ damage \in Nat
  /\ step # "sealed" => disk \in {Absent, Foreign} /\ damage = 0
  /\ step = "sealed" => Decayed(disk) /\ (damage = 0 => IsArchive(disk))

(* The view: as long as the archive that it was started with is there,    *)
(* what it has read of the database is right, or the database is damaged,  *)
(* which the last verification sees.                                       *)
PagesOf(n) == UNION {IdsIn(input.rows, PageTables[k]) : k \in 1..n}

BinariesAreAll == view.binaries = [a \in DOMAIN input.held |-> Bytes[a]]

Begun == {"read manifest", "pages", "attachments", "verify", "compare",
          "publish", "published"}

Ours ==
  /\ ~view.returned
  /\ Sealed \in DOMAIN disk /\ disk[Sealed] = view.of

ViewIsRight ==
  LET written == view.of.data.files[Db].data
  IN  /\ view.pages = UNION {IdsIn(written.rows, PageTables[k]) : k \in 1..4}
      /\ view.binaries = [a \in DOMAIN written.held |-> Bytes[a]]

ViewOK ==
  /\ DOMAIN view = {"at", "tables", "pages", "binaries", "of", "returned"}
  /\ view.returned \in BOOLEAN
  /\ view.at \in Begun => step = "sealed"
  /\ view.at \in Reading => view.of.intact
  /\ view.at \in {"begin", "read manifest"} => view.tables = 0 /\ view.pages = {}
  /\ view.at = "pages" => view.tables \in 0..3
  /\ view.at \in {"attachments", "verify"} => view.tables = 4
  /\ view.at \in {"pages", "attachments", "verify"} /\ Ours =>
       DbLost(disk) \/ view.pages = PagesOf(view.tables)
  /\ view.at = "verify" /\ Ours => DbLost(disk) \/ BinariesAreAll
  /\ view.at = "compare" /\ Ours => view.pages = PagesOf(4) /\ BinariesAreAll
  /\ view.at \in {"publish", "published"} /\ ~view.returned => ViewIsRight
  /\ view.at = "published" =>
       output = [pages |-> view.pages, binaries |-> view.binaries,
                 of |-> view.of]

IInv == HeldOK /\ StagingOK /\ DiskOK /\ ViewOK

-----------------------------------------------------------------------------
(* Paths.                                                                  *)
LEMMA Paths ==
  /\ Control # Response /\ Control # Db /\ Control # Schema /\ Control # Sealed
  /\ Response # Db /\ Response # Schema /\ Response # Sealed
  /\ Db # Schema /\ Db # Sealed /\ Schema # Sealed
  /\ \A a : Binary(a) \notin {Control, Response, Db, Schema, Sealed}
  /\ \A a, b : Binary(a) = Binary(b) => a = b
BY DEF Control, Response, Db, Schema, Sealed, Binary

LEMMA Contents ==
  /\ Content(Control) = File(input.evidence, 1)
  /\ Content(Response) = File("answers", 1)
  /\ Content(Db) = File(Database, 1)
  /\ Content(Schema) = File("schema", 1)
  /\ \A a : Content(Binary(a)) = Bytes[a]
<1>1. \A a : Content(Binary(a)) = Bytes[a]
  <2>1. \A a : Binary(a)[2] = a
    BY DEF Binary
  <2> QED
    BY <2>1, Paths DEF Content
<1> QED
  BY <1>1, Paths DEF Content

LEMMA Names ==
  /\ Absent # Foreign
  /\ Sealed \notin DOMAIN Foreign /\ Db \notin DOMAIN Foreign
BY DEF Absent, Foreign, Sealed, Db

(* The files are what the input and the attachments make them.             *)
LEMMA SameContent ==
  ASSUME input' = input, held' = held
  PROVE  /\ \A p : Content(p)' = Content(p)
         /\ Binaries' = Binaries
         /\ \A m : SealOK(m)' = SealOK(m)
         /\ ObservedCapabilities' = ObservedCapabilities
<1>1. ObservedCapabilities' = ObservedCapabilities
  BY DEF ObservedCapabilities
<1>2. Database' = Database
  BY <1>1 DEF Database
<1>3. Binaries' = Binaries
  BY DEF Binaries
<1>4. \A p : Content(p)' = Content(p)
  BY <1>2 DEF Content
<1>5. \A m : SealOK(m)' = SealOK(m)
  BY <1>1, <1>3, <1>4 DEF SealOK, Holds
<1> QED
  BY <1>1, <1>3, <1>4, <1>5

LEMMA StagingStands ==
  ASSUME StagingOK, UNCHANGED <<input, held, staging>>,
         \/ step' = step
         \/ step' \notin {"begin", "copy", "download", "database", "schema",
                          "manifest", "publish", "sealed"}
  PROVE  StagingOK'
BY SameContent DEF StagingOK, Holds, IsArchive

LEMMA DiskStands ==
  ASSUME DiskOK, UNCHANGED <<input, held, disk, damage>>,
         step' = "sealed" <=> step = "sealed"
  PROVE  DiskOK' /\ DbLost(disk)' = DbLost(disk)
BY SameContent DEF DiskOK, Holds, IsArchive, Decayed, DbLost, Table

LEMMA ViewStands ==
  ASSUME ViewOK, UNCHANGED <<input, viewVars>>, step = "sealed" => step' = "sealed",
         step = "sealed" => (DbLost(disk) => DbLost(disk)'),
         view.at \in Reading => (Ours' => Ours)
  PROVE  ViewOK'
<1>1. view' = view /\ output' = output
  BY DEF viewVars
<1>2. PagesOf(view.tables)' = PagesOf(view.tables) /\ PagesOf(4)' = PagesOf(4)
  BY <1>1 DEF PagesOf
<1>3. BinariesAreAll' = BinariesAreAll
  BY <1>1 DEF BinariesAreAll
<1>4. view.at \in Begun => step' = "sealed" /\ (DbLost(disk) => DbLost(disk)')
  BY DEF ViewOK
<1>5. Reading \subseteq Begun
      /\ Reading = {"pages", "attachments", "verify", "compare"}
  BY DEF Begun, Reading
<1>6. ViewIsRight' = ViewIsRight
  BY <1>1 DEF ViewIsRight
<1> QED
  BY <1>1, <1>2, <1>3, <1>4, <1>5, <1>6 DEF ViewOK

(* Before the archive is published no view has begun.                      *)
LEMMA NotReading ==
  ASSUME ViewOK, step # "sealed"
  PROVE  view.at \notin Reading
BY DEF ViewOK, Reading, Begun

LEMMA HeldStands ==
  ASSUME HeldOK, UNCHANGED <<input, held, attempt>>
  PROVE  HeldOK'
BY DEF HeldOK, AttachmentsPending

(* A step of the builder before the archive is published.                  *)
LEMMA Working ==
  ASSUME IInv, UNCHANGED <<input, held, attempt, disk, damage, viewVars>>,
         step # "sealed", step' # "sealed", StagingOK'
  PROVE  IInv'
<1>1. DiskOK'
  BY DiskStands DEF IInv
<1>2. ViewOK'
  BY ViewStands, NotReading DEF IInv
<1>3. HeldOK'
  BY HeldStands DEF IInv
<1> QED
  BY <1>1, <1>2, <1>3 DEF IInv

(* A step after which the staging directory no longer matters.             *)
Later == {"refused", "fail", "preserve", "failed", "unpreserved", "killed"}

LEMMA Leaving ==
  ASSUME IInv, UNCHANGED <<input, held, attempt, disk, damage, viewVars>>,
         step # "sealed", step' \in Later
  PROVE  IInv'
<1>1. step' \notin {"begin", "copy", "download", "database", "schema", "manifest",
                   "publish", "sealed"}
  BY DEF Later
<1>2. StagingOK'
  BY <1>1 DEF StagingOK
<1> QED
  BY <1>1, <1>2, Working

LEMMA Failing ==
  ASSUME IInv, UNCHANGED viewVars, step # "sealed", NEW next \in Later, Fails(next)
  PROVE  IInv'
BY Leaving DEF Fails

LEMMA PutOne ==
  ASSUME NEW S, NEW path, Holds(staging, S), NEW file, Put(path, file),
         path # Sealed => file = Content(path),
         input' = input, held' = held
  PROVE  Holds(staging, S \cup {path})' /\ staging'[path] = file
<1>1. /\ DOMAIN staging' = DOMAIN staging \cup {path}
      /\ staging'[path] = file
      /\ \A p \in DOMAIN staging : p # path => staging'[p] = staging[p]
  BY DEF Put
<1>2. DOMAIN staging' = (S \cup {path}) \cup {Control, Response} \cup Binaries'
  BY <1>1, SameContent DEF Holds
<1>3. ASSUME NEW p \in DOMAIN staging' \ {Sealed}
      PROVE  staging'[p] = Content(p)'
  <2>1. Content(p)' = Content(p)
    BY SameContent
  <2> QED
    BY <1>1, <1>3, <2>1 DEF Holds
<1> QED
  BY <1>1, <1>2, <1>3 DEF Holds

LEMMA Begins ==
  ASSUME IInv, UNCHANGED viewVars, Begin
  PROVE  IInv'
<1>1. CASE step = "begin" /\ Fails("refused")
  BY <1>1, Failing DEF Later
<1>2. CASE /\ step = "begin"
           /\ step' = IF Validates(input) /\ disk = Absent THEN "copy" ELSE "refused"
           /\ UNCHANGED <<input, held, attempt, staging, disk, aside, interrupted,
                          faults, damage>>
  <2>1. CASE step' = "refused"
    BY <1>2, <2>1, Leaving DEF Later
  <2>2. CASE step' = "copy"
    <3>1. StagingOK'
      BY <1>2, <2>2 DEF IInv, StagingOK
    <3> QED
      BY <1>2, <2>2, <3>1, Working
  <2> QED
    BY <1>2, <2>1, <2>2
<1> QED
  BY <1>1, <1>2 DEF Begin

(* Nothing is retrieved before the first download.                         *)
LEMMA CopiesRaw ==
  ASSUME IInv, UNCHANGED viewVars, CopyRaw
  PROVE  IInv'
<1>1. CASE step = "copy" /\ Fails("fail")
  BY <1>1, Failing DEF Later
<1>2. CASE /\ Goes("copy", "download")
           /\ staging' = [p \in {Control, Response} |->
                            IF p = Control THEN File(input.evidence, 1)
                                           ELSE File("answers", 1)]
  <2>1. /\ step = "copy" /\ step' = "download"
        /\ UNCHANGED <<input, held, attempt, disk, damage>>
    BY <1>2 DEF Goes
  <2>2. Binaries = {}
    <3>1. \A a \in DOMAIN held : held[a].status = "PENDING"
      BY <2>1, InputsAreRead DEF IInv, StagingOK, HeldOK
    <3> QED
      BY <3>1 DEF Binaries, Retrieved
  <2>3. Holds(staging, {})'
    <3>1. DOMAIN staging' = {} \cup {Control, Response} \cup Binaries'
      BY <1>2, <2>1, <2>2, SameContent
    <3>2. \A p \in DOMAIN staging' : staging'[p] = Content(p)'
      <4>1. staging'[Control] = Content(Control) /\ staging'[Response] = Content(Response)
        BY <1>2, Paths, Contents
      <4> QED
        BY <1>2, <2>1, <4>1, SameContent
    <3> QED
      BY <3>1, <3>2 DEF Holds
  <2>4. Validates(input)
    BY <2>1 DEF IInv, StagingOK
  <2>5. StagingOK'
    BY <2>1, <2>3, <2>4 DEF StagingOK
  <2> QED
    BY <2>1, <2>5, Working
<1> QED
  BY <1>1, <1>2 DEF CopyRaw

-----------------------------------------------------------------------------
(* Attachments.                                                            *)

(* While attachments are downloaded, only they matter.                     *)
LEMMA DownloadKeeps ==
  ASSUME IInv, UNCHANGED viewVars, Downloading, HeldOK', Holds(staging, {})'
  PROVE  IInv'
<1>1. step = "download" /\ UNCHANGED <<step, input, disk, damage>>
  BY DEF Downloading
<1>2. StagingOK'
  <2>1. Validates(input)
    BY <1>1 DEF IInv, StagingOK
  <2> QED
    BY <1>1, <2>1 DEF StagingOK
<1>3. DiskOK'
  BY <1>1 DEF IInv, DiskOK
<1>4. ViewOK'
  BY <1>1, ViewStands, NotReading DEF IInv
<1> QED
  BY <1>2, <1>3, <1>4 DEF IInv

LEMMA DownloadHas ==
  ASSUME IInv, Downloading
  PROVE  HeldOK /\ Holds(staging, {}) /\ input' = input
BY DEF Downloading, IInv, StagingOK

(* The attachment at hand is not to be had.                                *)
LEMMA GivingUp ==
  ASSUME IInv, UNCHANGED viewVars, Downloading, attempt # None, Unresolved,
         UNCHANGED staging
  PROVE  IInv'
<1> DEFINE a == attempt[1]
<1>1. /\ a \in DOMAIN held /\ held[a].status = "PENDING"
      /\ DOMAIN held[a] = {"status", "bytes", "expected"}
  BY DEF IInv, HeldOK, AttachmentsPending
<1>2. /\ held' = [held EXCEPT ![a].status = "UNRESOLVED"]
      /\ attempt' = None
  BY DEF Unresolved
<1>3. /\ DOMAIN held' = DOMAIN held
      /\ \A b \in DOMAIN held : b # a => held'[b] = held[b]
      /\ held'[a] = [held[a] EXCEPT !.status = "UNRESOLVED"]
  BY <1>1, <1>2
<1>4. /\ DOMAIN held'[a] = {"status", "bytes", "expected"}
      /\ held'[a].status = "UNRESOLVED" /\ held'[a].bytes = None
  <2>1. held[a].bytes = None
    BY <1>1 DEF IInv, HeldOK
  <2> QED
    BY <1>1, <1>3, <2>1
<1> HIDE DEF a
<1>5. HeldOK'
  BY <1>2, <1>3, <1>4, DownloadHas DEF HeldOK
<1>6. Retrieved(held') = Retrieved(held)
  BY <1>1, <1>3, <1>4 DEF Retrieved
<1>7. Holds(staging, {})'
  <2>1. DOMAIN staging' = {} \cup {Control, Response} \cup Binaries'
    BY <1>6, DownloadHas DEF Holds, Binaries
  <2>2. ASSUME NEW p \in DOMAIN staging \ {Sealed}
        PROVE  staging[p] = Content(p)'
    <3>1. staging[p] = Content(p)
      BY DownloadHas DEF Holds
    <3>2. p # Db
      BY DownloadHas, Paths DEF Holds, Binaries
    <3> QED
      BY <3>1, <3>2, DownloadHas DEF Content
  <2> QED
    BY <2>1, <2>2 DEF Holds
<1> QED
  BY <1>5, <1>7, DownloadKeeps

LEMMA Downloads ==
  ASSUME IInv, UNCHANGED viewVars, Download
  PROVE  IInv'
<1> DEFINE a == attempt[1]
<1>0. Downloading /\ attempt # None
  BY DEF Download
<1>1. /\ a \in DOMAIN held
      /\ DOMAIN held[a] = {"status", "bytes", "expected"}
  BY <1>0 DEF IInv, HeldOK, AttachmentsPending
<1>2. /\ Put(Binary(a), Bytes[a])
      /\ held' = [held EXCEPT ![a].status = "RETRIEVED", ![a].bytes = Bytes[a]]
      /\ attempt' = None
      /\ held[a].expected \in {None, Bytes[a].size}
  BY DEF Download
<1>3. /\ DOMAIN held' = DOMAIN held
      /\ \A b \in DOMAIN held : b # a => held'[b] = held[b]
      /\ DOMAIN held'[a] = {"status", "bytes", "expected"}
      /\ held'[a].status = "RETRIEVED" /\ held'[a].bytes = Bytes[a]
      /\ held'[a].expected = held[a].expected
  BY <1>1, <1>2
<1> HIDE DEF a
<1>4. HeldOK'
  BY <1>0, <1>2, <1>3, DownloadHas DEF HeldOK
<1>5. Binaries' = Binaries \cup {Binary(a)}
  BY <1>1, <1>3 DEF Binaries, Retrieved
<1>6. Holds(staging, {})'
  <2>1. DOMAIN staging' = {} \cup {Control, Response} \cup Binaries'
    BY <1>0, <1>2, <1>5, DownloadHas DEF Holds, Put
  <2>2. ASSUME NEW p \in DOMAIN staging' \ {Sealed}
        PROVE  staging'[p] = Content(p)'
    <3>1. p # Db
      BY <2>1, Paths DEF Binaries
    <3>2. Content(p)' = Content(p)
      BY <3>1, <1>0, DownloadHas DEF Content
    <3>3. CASE p = Binary(a)
      BY <3>2, <3>3, <1>2, Contents DEF Put
    <3>4. CASE p # Binary(a)
      <4>1. p \in DOMAIN staging /\ staging'[p] = staging[p]
        BY <3>4, <1>2 DEF Put
      <4> QED
        BY <4>1, <3>2, <1>0, DownloadHas DEF Holds
    <3> QED
      BY <3>3, <3>4
  <2> QED
    BY <2>1, <2>2 DEF Holds
<1> QED
  BY <1>0, <1>4, <1>6, DownloadKeeps

(* Another attempt, or none.                                               *)
LEMMA Retries ==
  ASSUME IInv, UNCHANGED viewVars, Downloading, attempt # None, Retried
  PROVE  IInv'
<1>1. CASE attempt' = [attempt EXCEPT ![2] = @ + 1] /\ UNCHANGED <<held, staging>>
  <2>1. /\ attempt = <<attempt[1], attempt[2]>>
        /\ attempt[1] \in AttachmentsPending
    BY DEF IInv, HeldOK
  <2>2. attempt' = <<attempt[1], attempt[2] + 1>>
    BY <1>1, <2>1
  <2>3. attempt'[1] = attempt[1] /\ attempt' = <<attempt'[1], attempt'[2]>>
    BY <2>2
  <2>4. AttachmentsPending' = AttachmentsPending
    BY <1>1 DEF AttachmentsPending
  <2> HIDE <1>1
  <2>5. UNCHANGED <<held, staging>>
    BY <1>1
  <2>6. HeldOK'
    BY <2>1, <2>3, <2>4, <2>5, DownloadHas DEF HeldOK
  <2>7. Holds(staging, {})'
    BY <2>5, DownloadHas, SameContent DEF Holds
  <2> QED
    BY <2>6, <2>7, DownloadKeeps
<1>2. CASE Unresolved /\ UNCHANGED staging
  BY <1>2, GivingUp
<1> QED
  BY <1>1, <1>2 DEF Retried

LEMMA Picks ==
  ASSUME IInv, UNCHANGED viewVars, NextAttachment
  PROVE  IInv'
<1>1. Downloading /\ UNCHANGED <<held, staging>>
  BY DEF NextAttachment
<1>2. PICK a \in AttachmentsPending : attempt' = <<a, 1>>
  BY DEF NextAttachment
<1>3. attempt' = <<attempt'[1], attempt'[2]>> /\ attempt'[1] \in AttachmentsPending
  BY <1>2
<1>4. AttachmentsPending' = AttachmentsPending
  BY <1>1 DEF AttachmentsPending
<1>5. HeldOK'
  BY <1>1, <1>3, <1>4, DownloadHas DEF HeldOK
<1>6. Holds(staging, {})'
  BY <1>1, DownloadHas, SameContent DEF Holds
<1> QED
  BY <1>1, <1>5, <1>6, DownloadKeeps

LEMMA Attachments ==
  ASSUME IInv, UNCHANGED viewVars,
         \/ NextAttachment \/ Download \/ DownloadBreaks
         \/ DownloadMismatches \/ DownloadRefused
  PROVE  IInv'
<1>1. CASE DownloadBreaks \/ DownloadMismatches
  BY <1>1, Retries DEF DownloadBreaks, DownloadMismatches
<1>2. CASE DownloadRefused
  BY <1>2, GivingUp DEF DownloadRefused
<1> QED
  BY <1>1, <1>2, Picks, Downloads

LEMMA AllTried ==
  ASSUME IInv, UNCHANGED viewVars, Downloaded
  PROVE  IInv'
<1>1. /\ step = "download" /\ step' \in {"fail", "database"}
      /\ UNCHANGED <<input, held, attempt, staging, disk, damage>>
      /\ \A a \in DOMAIN held : held[a].status # "PENDING"
  BY DEF Downloaded, AttachmentsPending
<1>2. Holds(staging, {})'
  BY <1>1, SameContent DEF IInv, StagingOK, Holds
<1>3. StagingOK'
  <2>1. Validates(input)
    BY <1>1 DEF IInv, StagingOK
  <2> QED
    BY <1>1, <1>2, <2>1 DEF StagingOK
<1> QED
  BY <1>1, <1>3, Working

-----------------------------------------------------------------------------
(* From the attachments to the archive.                                    *)
LEMMA WritesDatabase ==
  ASSUME IInv, UNCHANGED viewVars, WriteDatabase
  PROVE  IInv'
<1>1. CASE step = "database" /\ Fails("fail")
  BY <1>1, Failing DEF Later
<1>2. CASE /\ step = "database" /\ step' = "fail"
           /\ UNCHANGED <<input, held, attempt, staging, disk, aside, interrupted,
                          faults, damage>>
  BY <1>2, Leaving DEF Later
<1>3. CASE /\ ReferencesHold(input.rows, input.values)
           /\ Goes("database", "schema")
           /\ Put(Db, File(Database, 1))
  <2>1. /\ step = "database" /\ step' = "schema"
        /\ UNCHANGED <<input, held, attempt, disk, damage>>
    BY <1>3 DEF Goes
  <2>2. /\ Holds(staging, {}) /\ Validates(input)
        /\ \A a \in DOMAIN held : held[a].status # "PENDING"
    BY <2>1 DEF IInv, StagingOK
  <2>3. Holds(staging, {} \cup {Db})'
    BY <1>3, <2>1, <2>2, Contents, PutOne
  <2>4. Holds(staging, {Db})'
    BY <2>3
  <2>5. StagingOK'
    BY <1>3, <2>1, <2>2, <2>4 DEF StagingOK
  <2> QED
    BY <2>1, <2>5, Working
<1> QED
  BY <1>1, <1>2, <1>3 DEF WriteDatabase

LEMMA WritesSchema ==
  ASSUME IInv, UNCHANGED viewVars, WriteSchema
  PROVE  IInv'
<1>1. CASE step = "schema" /\ Fails("fail")
  BY <1>1, Failing DEF Later
<1>2. CASE Goes("schema", "manifest") /\ Put(Schema, File("schema", 1))
  <2>1. /\ step = "schema" /\ step' = "manifest"
        /\ UNCHANGED <<input, held, attempt, disk, damage>>
    BY <1>2 DEF Goes
  <2>2. /\ Holds(staging, {Db})
        /\ \A a \in DOMAIN held : held[a].status # "PENDING"
        /\ ReferencesHold(input.rows, input.values) /\ Validates(input)
    BY <2>1 DEF IInv, StagingOK
  <2>3. Holds(staging, {Db} \cup {Schema})'
    BY <1>2, <2>1, <2>2, Contents, PutOne
  <2>4. {Db} \cup {Schema} = {Db, Schema}
    OBVIOUS
  <2>5. Holds(staging, {Db, Schema})'
    BY <2>3, <2>4
  <2>6. StagingOK'
    BY <2>1, <2>2, <2>5 DEF StagingOK
  <2> QED
    BY <2>1, <2>6, Working
<1> QED
  BY <1>1, <1>2 DEF WriteSchema

(* The manifest records exactly the other files.                           *)
LEMMA WritesManifest ==
  ASSUME IInv, UNCHANGED viewVars, WriteManifest
  PROVE  IInv'
<1>1. CASE step = "manifest" /\ Fails("fail")
  BY <1>1, Failing DEF Later
<1>2. CASE Goes("manifest", "publish") /\ Put(Sealed, File(Manifest, 1))
  <2>1. /\ step = "manifest" /\ step' = "publish"
        /\ UNCHANGED <<input, held, attempt, disk, damage>>
    BY <1>2 DEF Goes
  <2>2. /\ Holds(staging, {Db, Schema})
        /\ \A a \in DOMAIN held : held[a].status # "PENDING"
        /\ ReferencesHold(input.rows, input.values) /\ Validates(input)
    BY <2>1 DEF IInv, StagingOK
  <2>3. Sealed \notin DOMAIN staging
    BY <2>2, Paths DEF Holds, Binaries
  <2>4. /\ Holds(staging, {Db, Schema} \cup {Sealed})'
        /\ staging'[Sealed] = File(Manifest, 1)
    BY <1>2, <2>1, <2>2, PutOne
  <2>5. PICK m : m = Manifest
    OBVIOUS
  <2>6. SealOK(m)
    <3>1. /\ DOMAIN m.files = DOMAIN staging
          /\ \A p \in DOMAIN staging : m.files[p] = staging[p]
      BY <2>3, <2>5 DEF Manifest, ManifestOf
    <3>2. Holds(m.files, {Db, Schema})
      BY <2>2, <3>1 DEF Holds
    <3> QED
      BY <2>5, <3>2 DEF SealOK, Manifest, ManifestOf
  <2>7. IsArchive(staging)'
    <3>1. SealOK(m)'
      BY <2>1, <2>6, SameContent
    <3>2. staging'[Sealed] = File(m, 1) /\ File(m, 1).data = m
      BY <2>4, <2>5 DEF File
    <3>3. {Db, Schema} \cup {Sealed} = {Db, Schema, Sealed}
      OBVIOUS
    <3>4. Holds(staging, {Db, Schema, Sealed})'
      BY <2>4, <3>3
    <3> QED
      BY <3>1, <3>2, <3>4 DEF IsArchive, SealOK
  <2>8. StagingOK'
    BY <2>1, <2>2, <2>7 DEF StagingOK
  <2> QED
    BY <2>1, <2>8, Working
<1> QED
  BY <1>1, <1>2 DEF WriteManifest

(* A new archive is one without damage.                                    *)
LEMMA Whole ==
  ASSUME HeldOK, NEW d, IsArchive(d)
  PROVE  Decayed(d)
<1>1. /\ DOMAIN d = {Db, Schema, Sealed} \cup {Control, Response} \cup Binaries
      /\ \A p \in DOMAIN d \ {Sealed} : d[p] = Content(p)
      /\ d[Sealed] = File(d[Sealed].data, 1) /\ SealOK(d[Sealed].data)
  BY DEF IsArchive, Holds
<1>2. ASSUME NEW p \in DOMAIN d
      PROVE  DOMAIN d[p] = {"data", "intact", "size"}
  <2>1. CASE p = Sealed
    <3>1. DOMAIN File(d[Sealed].data, 1) = {"data", "intact", "size"}
      BY DEF File
    <3> QED
      BY <2>1, <3>1, <1>1
  <2>2. CASE p \in Binaries
    <3>1. PICK a \in DOMAIN held : p = Binary(a)
      BY <2>2 DEF Binaries, Retrieved
    <3>2. d[p] = Bytes[a]
      BY <3>1, <1>1, Paths, Contents
    <3>3. Bytes[a] = File(Bytes[a].data, Bytes[a].size)
      BY InputsAreRead, BytesAreWhole DEF HeldOK
    <3>4. DOMAIN File(Bytes[a].data, Bytes[a].size) = {"data", "intact", "size"}
      BY DEF File
    <3> QED
      BY <3>2, <3>3, <3>4
  <2>3. CASE p \in {Db, Schema, Control, Response}
    <3>1. d[p] = Content(p)
      BY <1>1, <2>3, Paths
    <3> QED
      BY <2>3, <3>1, Contents DEF File
  <2> QED
    BY <2>1, <2>2, <2>3, <1>1
<1>3. d[Db] = File(Database, 1)
  BY <1>1, Paths, Contents
<1>4. d[Db].data = Database
  BY <1>3 DEF File
<1>5. Table(Database) /\ Database.rows = input.rows
  BY DEF Table, Database
<1> QED
  BY <1>1, <1>2, <1>3, <1>4, <1>5, Contents DEF Decayed

LEMMA WholeAlways == HeldOK /\ IsArchive(disk) => Decayed(disk)
BY Whole

LEMMA Publishes ==
  ASSUME IInv, UNCHANGED viewVars, Publish
  PROVE  IInv'
<1>1. CASE step = "publish" /\ Fails("fail")
  BY <1>1, Failing DEF Later
<1>2. CASE /\ step = "publish" /\ step' = "fail"
           /\ UNCHANGED <<input, held, attempt, staging, disk, aside, interrupted,
                          faults, damage>>
  BY <1>2, Leaving DEF Later
<1>3. CASE /\ step = "publish"
           /\ disk' = staging
           /\ step' = "sealed"
           /\ UNCHANGED <<input, held, attempt, damage>>
  <2>1. PICK d : d = staging
    OBVIOUS
  <2>2. /\ IsArchive(d)
        /\ \A a \in DOMAIN held : held[a].status # "PENDING"
        /\ ReferencesHold(input.rows, input.values) /\ Validates(input)
        /\ damage = 0
    BY <1>3, <2>1 DEF IInv, StagingOK, DiskOK
  <2>3. Decayed(d)
    BY <2>2, Whole DEF IInv
  <2>4. IsArchive(d)' /\ Decayed(d)'
    BY <1>3, <2>2, <2>3, SameContent
       DEF IsArchive, Holds, Decayed, DbLost, Table
  <2>5. DiskOK'
    BY <1>3, <2>1, <2>2, <2>4 DEF DiskOK, IsArchive, Holds, Decayed, DbLost, Table
  <2>6. StagingOK'
    BY <1>3, <2>2 DEF StagingOK
  <2>7. ViewOK'
    BY <1>3, ViewStands, NotReading DEF IInv
  <2> QED
    BY <1>3, <2>5, <2>6, <2>7, HeldStands DEF IInv
<1> QED
  BY <1>1, <1>2, <1>3 DEF Publish

(* Keeping what a failed build leaves.                                     *)
LEMMA GivesUp ==
  ASSUME IInv, UNCHANGED viewVars, MarkFailed \/ Preserve
  PROVE  IInv'
<1>1. /\ step # "sealed" /\ step' \in Later
      /\ UNCHANGED <<input, held, attempt, disk, damage, viewVars>>
  BY DEF MarkFailed, Preserve, Goes, Fails, Later
<1> QED
  BY <1>1, Leaving

LEMMA Ends ==
  ASSUME IInv, UNCHANGED viewVars, Interrupt \/ Kill
  PROVE  IInv'
<1>1. CASE Kill
  BY <1>1, Leaving DEF Kill, BuildEnds, Later
<1>2. CASE Interrupt
  <2>1. UNCHANGED <<step, input, held, attempt, staging, disk, damage>>
    BY <1>2 DEF Interrupt
  <2>2. StagingOK'
    BY <2>1, StagingStands DEF IInv
  <2> QED
    BY <1>2, <2>1, <2>2, Working DEF Interrupt, BuildEnds
<1> QED
  BY <1>1, <1>2

LEMMA NameTaken ==
  ASSUME IInv, UNCHANGED viewVars, TakeName
  PROVE  IInv'
<1>1. /\ step # "sealed" /\ disk' = Foreign
      /\ UNCHANGED <<step, input, held, attempt, staging, damage>>
  BY DEF TakeName, BuildEnds
<1>2. StagingOK'
  BY <1>1, StagingStands DEF IInv
<1>3. DiskOK'
  BY <1>1 DEF IInv, DiskOK
<1>4. ViewOK'
  BY <1>1, ViewStands, NotReading DEF IInv
<1> QED
  BY <1>1, <1>2, <1>3, <1>4, HeldStands DEF IInv

-----------------------------------------------------------------------------
(* Damage takes away, and adds nothing that could pass for what was there. *)
LEMMA Removed ==
  ASSUME NEW d, Decayed(d), NEW p \in DOMAIN d, NEW e,
         e = [q \in DOMAIN d \ {p} |-> d[q]]
  PROVE  Decayed(e) /\ (DbLost(d) => DbLost(e))
BY DEF Decayed, DbLost

LEMMA Changed ==
  ASSUME NEW d, Decayed(d), NEW p \in DOMAIN d, NEW e,
         e = [d EXCEPT ![p].intact = FALSE]
  PROVE  Decayed(e) /\ (DbLost(d) => DbLost(e))
<1>1. /\ DOMAIN e = DOMAIN d
      /\ \A q \in DOMAIN d : q # p => e[q] = d[q]
      /\ DOMAIN e[p] = {"data", "intact", "size"}
      /\ e[p].data = d[p].data /\ e[p].intact = FALSE
  BY DEF Decayed
<1>2. p = Db => DbLost(e)
  BY <1>1 DEF DbLost
<1>3. p # Db => (DbLost(e) <=> DbLost(d))
  BY <1>1 DEF DbLost
<1>4. DbLost(d) => DbLost(e)
  BY <1>2, <1>3
<1>5. DbLost(e) \/ e[Db] = Content(Db)
  BY <1>1, <1>2, <1>3 DEF Decayed, DbLost
<1>6. \A q \in DOMAIN e : e[q].data = d[q].data
  BY <1>1
<1>7. \A q \in DOMAIN e \ {Sealed, Db, Binary("stray")} :
        e[q].intact => e[q] = Content(q)
  BY <1>1 DEF Decayed
<1>8. \A q \in DOMAIN e : DOMAIN e[q] = {"data", "intact", "size"}
  BY <1>1 DEF Decayed
<1> QED
  BY <1>1, <1>4, <1>5, <1>6, <1>7, <1>8 DEF Decayed

LEMMA Strayed ==
  ASSUME NEW d, Decayed(d), Binary("stray") \notin DOMAIN d, NEW e,
         e = [p \in DOMAIN d \union {Binary("stray")} |->
                IF p \in DOMAIN d THEN d[p] ELSE File("stray", 1)]
  PROVE  Decayed(e) /\ (DbLost(d) => DbLost(e))
<1>1. Binary("stray") # Db /\ Binary("stray") # Sealed
  BY Paths
<1>2. DOMAIN File("stray", 1) = {"data", "intact", "size"}
  BY DEF File
<1>3. /\ DOMAIN e = DOMAIN d \cup {Binary("stray")}
      /\ \A p \in DOMAIN d : e[p] = d[p]
      /\ DOMAIN e[Binary("stray")] = {"data", "intact", "size"}
  BY <1>2
<1>4. DbLost(e) <=> DbLost(d)
  BY <1>1, <1>3 DEF DbLost
<1>5. \A p \in DOMAIN e \ {Binary("stray")} : p \in DOMAIN d /\ e[p] = d[p]
  BY <1>3
<1>6. \A p \in DOMAIN e : DOMAIN e[p] = {"data", "intact", "size"}
  BY <1>3 DEF Decayed
<1>7. DbLost(e) \/ e[Db] = Content(Db)
  BY <1>1, <1>4, <1>5 DEF Decayed, DbLost
<1> QED
  BY <1>1, <1>4, <1>5, <1>6, <1>7 DEF Decayed

LEMMA RowLost ==
  ASSUME NEW d, Decayed(d), Db \in DOMAIN d, NEW i \in DOMAIN d[Db].data.rows,
         NEW e, e = [d EXCEPT ![Db].data = WithoutRow(@, i)]
  PROVE  Decayed(e) /\ DbLost(e)
<1> DEFINE b == d[Db].data
           c == e[Db].data
<1>1. /\ DOMAIN e = DOMAIN d
      /\ \A q \in DOMAIN d : q # Db => e[q] = d[q]
      /\ DOMAIN e[Db] = {"data", "intact", "size"}
      /\ c = WithoutRow(b, i)
  BY DEF Decayed
<1>2. /\ Table(b) /\ DOMAIN b.rows \subseteq DOMAIN input.rows
      /\ \A x \in DOMAIN b.rows : b.rows[x] = input.rows[x]
  BY DEF Decayed
<1> HIDE DEF b, c
<1>3. /\ Table(c)
      /\ DOMAIN c.rows = DOMAIN b.rows \ {i}
      /\ \A x \in DOMAIN c.rows : c.rows[x] = b.rows[x]
  BY <1>1, <1>2 DEF WithoutRow, Table
<1>4. i \in DOMAIN input.rows /\ i \notin DOMAIN c.rows
  BY <1>2, <1>3 DEF b
<1>5. DbLost(e)
  BY <1>4 DEF DbLost, c
<1> QED
  BY <1>1, <1>2, <1>3, <1>5, Paths DEF Decayed, c

(* Damage to the manifest shows in the manifest.                           *)
LEMMA SealKept ==
  ASSUME NEW d, Decayed(d), NEW e, Sealed \in DOMAIN e, e[Sealed].intact,
         \/ \E p \in DOMAIN d :
              \/ e = [q \in DOMAIN d \ {p} |-> d[q]]
              \/ e = [d EXCEPT ![p].intact = FALSE]
         \/ /\ Binary("stray") \notin DOMAIN d
            /\ e = [p \in DOMAIN d \union {Binary("stray")} |->
                      IF p \in DOMAIN d THEN d[p] ELSE File("stray", 1)]
         \/ \E b : e = [d EXCEPT ![Db].data = b]
  PROVE  Sealed \in DOMAIN d /\ d[Sealed] = e[Sealed]
<1>1. CASE \E p \in DOMAIN d : e = [q \in DOMAIN d \ {p} |-> d[q]]
  BY <1>1
<1>2. CASE \E p \in DOMAIN d : e = [d EXCEPT ![p].intact = FALSE]
  <2>1. PICK p \in DOMAIN d : e = [d EXCEPT ![p].intact = FALSE]
    BY <1>2
  <2>2. DOMAIN e = DOMAIN d /\ (p # Sealed => e[Sealed] = d[Sealed])
    BY <2>1
  <2>3. p # Sealed
    <3>1. SUFFICES ASSUME p = Sealed PROVE FALSE
      OBVIOUS
    <3>2. "intact" \in DOMAIN d[Sealed]
      BY <2>2 DEF Decayed
    <3>3. e[Sealed].intact = FALSE
      BY <2>1, <3>1, <3>2
    <3> QED
      BY <3>3
  <2> QED
    BY <2>2, <2>3
<1>3. CASE /\ Binary("stray") \notin DOMAIN d
           /\ e = [p \in DOMAIN d \union {Binary("stray")} |->
                     IF p \in DOMAIN d THEN d[p] ELSE File("stray", 1)]
  BY <1>3, Paths
<1>4. CASE \E b : e = [d EXCEPT ![Db].data = b]
  BY <1>4, Paths
<1> QED
  BY <1>1, <1>2, <1>3, <1>4

LEMMA Decays ==
  ASSUME IInv, UNCHANGED viewVars, Decay
  PROVE  IInv'
<1>1. /\ step = "sealed" /\ step' = "sealed"
      /\ UNCHANGED <<input, held, attempt, staging>>
      /\ damage' = damage + 1
  BY DEF Decay
<1>2. PICK d, e : d = disk /\ e = disk'
  OBVIOUS
<1>3. Decayed(d)
  BY <1>1, <1>2 DEF IInv, DiskOK
<1>4. Decayed(e) /\ (DbLost(d) => DbLost(e))
  BY <1>2, <1>3, Removed, Changed, Strayed, RowLost DEF Decay
<1>5. Decayed(e)' /\ (DbLost(d) => DbLost(e)')
  BY <1>1, <1>4, SameContent DEF Decayed, DbLost, Table
<1>6. DiskOK'
  BY <1>1, <1>2, <1>5 DEF IInv, DiskOK, Decayed, DbLost, Table
<1>7. DbLost(disk) => DbLost(disk)'
  BY <1>1, <1>2, <1>5 DEF DbLost
<1>8. ViewOK'
  <2>1. ASSUME view.at \in Reading, Ours' PROVE Ours
    <3>1. view.of.intact /\ view' = view
      BY <2>1 DEF IInv, ViewOK, viewVars
    <3>2. /\ Sealed \in DOMAIN e /\ e[Sealed] = view.of
      BY <1>2, <2>1, <3>1 DEF Ours
    <3>3. Sealed \in DOMAIN d /\ d[Sealed] = e[Sealed]
      <4>1. CASE \E p \in DOMAIN d :
                   \/ e = [q \in DOMAIN d \ {p} |-> d[q]]
                   \/ e = [d EXCEPT ![p].intact = FALSE]
        BY <1>3, <3>1, <3>2, <4>1, SealKept
      <4>2. CASE /\ Binary("stray") \notin DOMAIN d
                 /\ e = [p \in DOMAIN d \union {Binary("stray")} |->
                           IF p \in DOMAIN d THEN d[p] ELSE File("stray", 1)]
        BY <1>3, <3>1, <3>2, <4>2, SealKept
      <4>3. CASE \E i \in DOMAIN d[Db].data.rows :
                   e = [d EXCEPT ![Db].data = WithoutRow(@, i)]
        <5>1. PICK b : e = [d EXCEPT ![Db].data = b]
          BY <4>3
        <5> QED
          BY <1>3, <3>1, <3>2, <5>1, SealKept
      <4> QED
        BY <1>2, <4>1, <4>2, <4>3 DEF Decay
    <3> QED
      BY <1>2, <2>1, <3>1, <3>2, <3>3 DEF Ours
  <2> QED
    BY <1>1, <1>7, <2>1, ViewStands DEF IInv
<1>9. StagingOK'
  BY <1>1, StagingStands DEF IInv
<1> QED
  BY <1>1, <1>6, <1>8, <1>9, HeldStands DEF IInv

-----------------------------------------------------------------------------
(* What a verification without a failure has passed.                       *)
LEMMA Checked ==
  ASSUME NEW d
  PROVE  LET c == Verify(d)
             readable == Sealed \in DOMAIN d /\ d[Sealed].intact
             m == d[Sealed].data
             manifest == readable /\ ManifestStands(m)
             database == Db \in DOMAIN d /\ d[Db].intact
             b == d[Db].data
             e == d[Control].data
             evidence == /\ EvidenceLoads(d)
                         /\ manifest => RawEvidenceCheck(e, m) = "PASS"
         IN  /\ {"archive_structure", "manifest_integrity", "file_checksums",
                 "sqlite_integrity", "raw_evidence_integrity",
                 "referential_integrity", "attachment_integrity",
                 "source_objects", "hierarchy", "counts"} \subseteq DOMAIN c
             /\ c["archive_structure"] = StructureCheck(d)
             /\ c["manifest_integrity"] = PassIf(manifest)
             /\ c["file_checksums"] =
                  IF manifest THEN FileChecksumsCheck(d, m) ELSE "NOT_EVALUATED"
             /\ c["sqlite_integrity"] = PassIf(database)
             /\ c["raw_evidence_integrity"] = PassIf(evidence)
             /\ c["referential_integrity"] =
                  IF database /\ manifest THEN ReferenceCheck(b) ELSE "NOT_EVALUATED"
             /\ c["attachment_integrity"] =
                  IF database /\ manifest THEN AttachmentCheck(d, m, b)
                                          ELSE "NOT_EVALUATED"
             /\ c["source_objects"] =
                  IF database /\ evidence THEN SourceObjectCheck(b, e)
                                          ELSE "NOT_EVALUATED"
             /\ c["hierarchy"] =
                  IF database /\ evidence THEN HierarchyCheck(b, e)
                                          ELSE "NOT_EVALUATED"
BY DEF Verify

LEMMA CleanIsPassed ==
  ASSUME NEW d, Clean(d)
  PROVE  /\ {Db, Sealed} \subseteq DOMAIN d /\ d[Db].intact /\ d[Sealed].intact
         /\ EvidenceLoads(d)
         /\ FileChecksumsCheck(d, d[Sealed].data) = "PASS"
         /\ ReferenceCheck(d[Db].data) = "PASS"
         /\ AttachmentCheck(d, d[Sealed].data, d[Db].data) = "PASS"
         /\ SourceObjectCheck(d[Db].data, d[Control].data) = "PASS"
         /\ HierarchyCheck(d[Db].data, d[Control].data) = "PASS"
<1> DEFINE c == Verify(d)
           statuses == {c[name] : name \in DOMAIN c}
<1>1. {"FAIL", "NOT_EVALUATED"} \intersect statuses = {} /\ "INCOMPLETE" \notin statuses
  BY DEF Clean, Result
<1>2. \A name \in DOMAIN c : c[name] \notin {"FAIL", "NOT_EVALUATED", "INCOMPLETE"}
  BY <1>1
<1> HIDE DEF c
<1>3. /\ Sealed \in DOMAIN d /\ d[Sealed].intact /\ ManifestStands(d[Sealed].data)
      /\ Db \in DOMAIN d /\ d[Db].intact
      /\ EvidenceLoads(d)
  BY <1>2, Checked DEF c, PassIf
<1>4. /\ FileChecksumsCheck(d, d[Sealed].data) # "FAIL"
      /\ ReferenceCheck(d[Db].data) # "FAIL"
      /\ AttachmentCheck(d, d[Sealed].data, d[Db].data) \notin {"FAIL", "INCOMPLETE"}
      /\ SourceObjectCheck(d[Db].data, d[Control].data) # "FAIL"
      /\ HierarchyCheck(d[Db].data, d[Control].data) # "FAIL"
  BY <1>2, <1>3, Checked DEF c, PassIf
<1>5. \A holds : PassIf(holds) # "FAIL" => PassIf(holds) = "PASS"
  BY DEF PassIf
<1> QED
  BY <1>3, <1>4 DEF PassIf, FileChecksumsCheck, ReferenceCheck, AttachmentCheck,
                    SourceObjectCheck, HierarchyCheck

(* An archive that passes has the database that was written.               *)
LEMMA CleanIsWritten ==
  ASSUME NEW d, Decayed(d), Clean(d)
  PROVE  ~DbLost(d) /\ d[Db] = Content(Db)
<1>1. /\ {Db, Sealed} \subseteq DOMAIN d /\ d[Db].intact
      /\ FileChecksumsCheck(d, d[Sealed].data) = "PASS"
  BY CleanIsPassed
<1>2. Holds(d[Sealed].data.files, {Db, Schema})
  BY <1>1 DEF Decayed, SealOK
<1>3. Db \in DOMAIN d[Sealed].data.files /\ d[Sealed].data.files[Db] = Content(Db)
  BY <1>2, Paths DEF Holds
<1>4. d[Db] = Content(Db)
  BY <1>1, <1>3 DEF FileChecksumsCheck, PassIf
<1>5. d[Db].data.rows = input.rows
  BY <1>4, Contents DEF File, Database
<1> QED
  BY <1>1, <1>4, <1>5 DEF DbLost

LEMMA EmptyIsNotClean ==
  ~Clean(Absent) /\ ~Clean(Foreign)
BY CleanIsPassed, Names DEF Absent

-----------------------------------------------------------------------------
(* Making the view.                                                        *)
LEMMA Viewing ==
  ASSUME IInv, UNCHANGED buildVars, ViewOK'
  PROVE  IInv'
<1>1. UNCHANGED <<step, input, held, attempt, staging, disk, damage>>
  BY DEF buildVars
<1>2. StagingOK'
  BY <1>1, StagingStands DEF IInv
<1>3. DiskOK'
  BY <1>1, DiskStands DEF IInv
<1> QED
  BY <1>1, <1>2, <1>3, HeldStands DEF IInv

LEMMA ViewFailed ==
  ASSUME ViewOK, ViewFails
  PROVE  ViewOK'
<1>1. /\ view'.at = "failed" /\ view'.returned \in BOOLEAN
      /\ DOMAIN view' = {"at", "tables", "pages", "binaries", "of", "returned"}
  BY DEF ViewFails, ViewOK
<1> QED
  BY <1>1 DEF ViewOK, Begun, Reading

LEMMA BuildStands ==
  ASSUME UNCHANGED buildVars
  PROVE  /\ UNCHANGED <<step, input, disk>>
         /\ Reading' = Reading
         /\ DbLost(disk)' = DbLost(disk)
         /\ PagesOf(view.tables)' = PagesOf(view'.tables)
         /\ PagesOf(4)' = PagesOf(4)
BY DEF buildVars, DbLost, PagesOf, Reading

(* A step of the view leaves the archive alone.                            *)
LEMMA OursStands ==
  ASSUME UNCHANGED buildVars, view'.returned = view.returned, view'.of = view.of
  PROVE  Ours' = Ours
BY DEF buildVars, Ours

LEMMA RightStands ==
  ASSUME view'.pages = view.pages, view'.binaries = view.binaries, view'.of = view.of
  PROVE  ViewIsRight' = ViewIsRight
BY DEF ViewIsRight

LEMMA VerifiesBefore ==
  ASSUME IInv, VerifyBefore
  PROVE  IInv'
<1>1. ViewOK'
  <2>1. /\ view' = [view EXCEPT !.at = view'.at]
        /\ view'.at \in {"read manifest", "refused"}
    BY DEF VerifyBefore, IInv, ViewOK
  <2>2. view.tables = 0 /\ view.pages = {} /\ step = "sealed"
    BY DEF VerifyBefore, ViewStep, IInv, ViewOK
  <2> QED
    BY <2>1, <2>2, BuildStands DEF VerifyBefore, ViewStep, IInv, ViewOK, Begun, Reading
<1> QED
  BY <1>1, Viewing DEF VerifyBefore, ViewStep

LEMMA ReadsManifest ==
  ASSUME IInv, ReadManifest
  PROVE  IInv'
<1>1. view.at = "read manifest" /\ UNCHANGED buildVars
  BY DEF ReadManifest, ViewStep
<1>2. CASE ViewFails
  BY <1>1, <1>2, ViewFailed, Viewing DEF IInv
<1>3. CASE /\ Readable(Sealed)
           /\ view' = [view EXCEPT !.at = "pages", !.of = disk[Sealed]]
  <2>1. /\ step = "sealed" /\ view.tables = 0 /\ view.pages = {}
        /\ DOMAIN view = {"at", "tables", "pages", "binaries", "of", "returned"}
    BY <1>1 DEF IInv, ViewOK, Begun
  <2>2. disk[Sealed].intact
    BY <1>3 DEF Readable
  <2>3. PagesOf(0) = {}
    BY DEF PagesOf
  <2>4. /\ view'.at = "pages" /\ view'.tables = 0 /\ view'.pages = {}
        /\ view'.of = disk[Sealed] /\ DOMAIN view' = DOMAIN view
        /\ view'.returned = view.returned
    BY <1>3, <2>1
  <2>5. (view.pages = PagesOf(view.tables))'
    BY <1>1, <2>3, <2>4, BuildStands
  <2>6. view'.of.intact
    BY <2>2, <2>4
  <2>7. view'.tables \in 0..3 /\ step' = "sealed"
    <3>1. 0 \in 0..3
      OBVIOUS
    <3>2. step' = step
      BY <1>1, BuildStands
    <3> QED
      BY <2>1, <2>4, <3>1, <3>2
  <2>8. ViewOK'
    BY <2>4, <2>5, <2>6, <2>7 DEF IInv, ViewOK
  <2> QED
    BY <1>1, <2>8, Viewing
<1> QED
  BY <1>2, <1>3 DEF ReadManifest

LEMMA WritesPages ==
  ASSUME IInv, WritePages
  PROVE  IInv'
<1>1. view.at = "pages" /\ UNCHANGED buildVars
  BY DEF WritePages, ViewStep
<1>2. CASE ViewFails
  BY <1>1, <1>2, ViewFailed, Viewing DEF IInv
<1>3. CASE /\ Readable(Db)
           /\ view' = [view EXCEPT
                         !.at = IF view.tables + 1 = Len(PageTables)
                                  THEN "attachments" ELSE @,
                         !.tables = @ + 1,
                         !.pages = @ \union IdsIn(disk[Db].data.rows,
                                                 PageTables[view.tables + 1])]
  <2> DEFINE n == view.tables
  <2>1. /\ step = "sealed" /\ n \in 0..3
        /\ Ours => DbLost(disk) \/ view.pages = PagesOf(n)
        /\ view.of.intact /\ view.returned \in BOOLEAN
        /\ DOMAIN view = {"at", "tables", "pages", "binaries", "of", "returned"}
    BY <1>1 DEF IInv, ViewOK, Begun, Reading
  <2>2. /\ view'.at = IF n + 1 = 4 THEN "attachments" ELSE "pages"
        /\ view'.tables = n + 1
        /\ view'.pages = view.pages \cup IdsIn(disk[Db].data.rows, PageTables[n + 1])
        /\ view'.of = view.of /\ DOMAIN view' = DOMAIN view
        /\ view'.returned = view.returned
    BY <1>1, <1>3, <2>1 DEF PageTables
  <2> HIDE DEF n
  <2>3. PagesOf(n + 1) = PagesOf(n) \cup IdsIn(input.rows, PageTables[n + 1])
    BY <2>1 DEF PagesOf
  <2>4. DbLost(disk) \/ disk[Db].data.rows = input.rows
    <3>1. DbLost(disk) \/ disk[Db] = File(Database, 1)
      BY <2>1, Contents DEF IInv, DiskOK, Decayed
    <3> QED
      BY <3>1 DEF File, Database
  <2>5. Ours => DbLost(disk) \/ view'.pages = PagesOf(n + 1)
    BY <2>1, <2>2, <2>3, <2>4
  <2>6. n + 1 \in 0..3 \/ n + 1 = 4
    BY <2>1
  <2>7. Ours' => DbLost(disk)' \/ (view.pages = PagesOf(view.tables))'
    BY <1>1, <2>2, <2>5, BuildStands, OursStands
  <2>8. ViewOK'
    BY <1>1, <2>1, <2>2, <2>6, <2>7, BuildStands DEF ViewOK, Begun
  <2> QED
    BY <1>1, <2>8, Viewing
<1> QED
  BY <1>2, <1>3 DEF WritePages

(* Every attachment has a row, and its record a page.                      *)
LEMMA CopiesAreAll ==
  ASSUME input \in Inputs, view.pages = PagesOf(4),
         ReferencesHold(input.rows, input.values), DOMAIN held = DOMAIN input.held
  PROVE  Copies(Database) = DOMAIN input.held
<1>1. Database.held = held /\ Database.rows = input.rows
  BY DEF Database
<1>2. IdsIn(input.rows, "records") \subseteq PagesOf(4)
  BY DEF PagesOf, PageTables
<1>3. ASSUME NEW a \in DOMAIN input.held
      PROVE  \E i \in IdsIn(input.rows, "attachments") :
               input.rows[i].src = a /\ input.rows[i].home \in view.pages
  <2>1. PICK i \in IdsIn(input.rows, "attachments") : input.rows[i].src = a
    BY InputsAreRead
  <2>2. i \in DOMAIN input.rows /\ input.rows[i].table = "attachments"
    BY DEF IdsIn
  <2>3. /\ "attachments" \in DOMAIN HomeTable
        /\ HomeTable["attachments"] = "records"
    BY DEF HomeTable
  <2>4. input.rows[i].home \in IdsIn(input.rows, "records")
    BY <2>2, <2>3 DEF ReferencesHold
  <2> QED
    BY <2>1, <2>4, <1>2
<1> QED
  BY <1>1, <1>3 DEF Copies

LEMMA CopiesAttachments ==
  ASSUME IInv, CopyAttachments
  PROVE  IInv'
<1>1. view.at = "attachments" /\ UNCHANGED buildVars
  BY DEF CopyAttachments, ViewStep
<1>2. CASE ViewFails
  BY <1>1, <1>2, ViewFailed, Viewing DEF IInv
<1>3. CASE /\ \A a \in Copies(disk[Db].data) :
                /\ disk[Db].data.held[a].status = "RETRIEVED"
                /\ disk[Binary(a)] = disk[Db].data.held[a].bytes
           /\ view' = [view EXCEPT !.at = "verify", !.binaries =
                         [a \in Copies(disk[Db].data) |-> disk[Binary(a)]]]
  <2>1. /\ step = "sealed" /\ view.tables = 4
        /\ Ours => DbLost(disk) \/ view.pages = PagesOf(4)
        /\ view.of.intact /\ view.returned \in BOOLEAN
        /\ DOMAIN view = {"at", "tables", "pages", "binaries", "of", "returned"}
    BY <1>1 DEF IInv, ViewOK, Begun, Reading
  <2>2. /\ view'.at = "verify" /\ view'.tables = 4 /\ view'.pages = view.pages
        /\ view'.of = view.of /\ DOMAIN view' = DOMAIN view
        /\ view'.returned = view.returned
        /\ view'.binaries = [a \in Copies(disk[Db].data) |-> disk[Binary(a)]]
    BY <1>3, <2>1
  <2>3. ASSUME Ours, ~DbLost(disk)
        PROVE  view'.binaries = [a \in DOMAIN input.held |-> Bytes[a]]
    <3>1. disk[Db].data = Database
      BY <2>1, <2>3, Contents DEF IInv, DiskOK, Decayed, File
    <3>2. Copies(Database) = DOMAIN input.held /\ DOMAIN held = DOMAIN input.held
      BY <2>1, <2>3, CopiesAreAll DEF IInv, StagingOK, HeldOK
    <3>3. \A a \in DOMAIN input.held : disk[Binary(a)] = Bytes[a]
      BY <1>3, <3>1, <3>2 DEF Database, IInv, HeldOK
    <3> QED
      BY <2>2, <3>1, <3>2, <3>3
  <2>4. Ours => BinariesAreAll' \/ DbLost(disk)
    BY <1>1, <2>3, BuildStands DEF BinariesAreAll
  <2>5. Ours => (view.pages = PagesOf(view.tables))' \/ DbLost(disk)
    BY <1>1, <2>1, <2>2, BuildStands
  <2>6. Ours' = Ours
    BY <1>1, <2>2, OursStands
  <2>7. ViewOK'
    BY <1>1, <2>1, <2>2, <2>4, <2>5, <2>6, BuildStands DEF ViewOK, Begun
  <2> QED
    BY <1>1, <2>7, Viewing
<1> QED
  BY <1>2, <1>3 DEF CopyAttachments

(* What was read was right, since the database still is.                   *)
LEMMA VerifiesAgain ==
  ASSUME IInv, VerifyAgain
  PROVE  IInv'
<1>1. view.at = "verify" /\ UNCHANGED buildVars
  BY DEF VerifyAgain, ViewStep
<1>2. CASE ViewFails
  BY <1>1, <1>2, ViewFailed, Viewing DEF IInv
<1>3. CASE Clean(disk) /\ view' = [view EXCEPT !.at = "compare"]
  <2>1. /\ step = "sealed" /\ view.tables = 4
        /\ Ours => DbLost(disk) \/ (view.pages = PagesOf(4) /\ BinariesAreAll)
        /\ view.of.intact /\ view.returned \in BOOLEAN
        /\ DOMAIN view = {"at", "tables", "pages", "binaries", "of", "returned"}
    <3>1. view.at \in Begun \cap Reading
      BY <1>1 DEF Begun, Reading
    <3> QED
      BY <1>1, <3>1 DEF IInv, ViewOK
  <2>2. ~DbLost(disk)
    BY <1>3, <2>1, CleanIsWritten DEF IInv, DiskOK
  <2>3. /\ view'.at = "compare" /\ view'.pages = view.pages
        /\ view'.binaries = view.binaries /\ view'.returned = view.returned
        /\ view'.of = view.of /\ DOMAIN view' = DOMAIN view
    BY <1>3, <2>1
  <2>4. Ours' => BinariesAreAll' /\ (view.pages = PagesOf(4))'
    BY <1>1, <2>1, <2>2, <2>3, BuildStands, OursStands DEF BinariesAreAll
  <2>5. ViewOK'
    BY <1>1, <2>1, <2>3, <2>4, BuildStands DEF ViewOK, Begun
  <2> QED
    BY <1>1, <2>5, Viewing
<1> QED
  BY <1>2, <1>3 DEF VerifyAgain

(* The manifest records the database that was written.                     *)
LEMMA RecordedIsWritten ==
  ASSUME NEW d, Decayed(d), Sealed \in DOMAIN d
  PROVE  d[Sealed].data.files[Db].data = Database
<1>1. Holds(d[Sealed].data.files, {Db, Schema})
  BY DEF Decayed, SealOK
<1>2. d[Sealed].data.files[Db] = File(Database, 1)
  BY <1>1, Paths, Contents DEF Holds
<1> QED
  BY <1>2 DEF File

LEMMA Compares ==
  ASSUME IInv, CompareManifest
  PROVE  IInv'
<1>1. view.at = "compare" /\ UNCHANGED buildVars
  BY DEF CompareManifest, ViewStep
<1>2. CASE ViewFails
  BY <1>1, <1>2, ViewFailed, Viewing DEF IInv
<1>3. CASE /\ Readable(Sealed) /\ disk[Sealed] = view.of
           /\ view' = [view EXCEPT !.at = "publish"]
  <2>1. /\ step = "sealed" /\ view.returned \in BOOLEAN
        /\ Ours => view.pages = PagesOf(4) /\ BinariesAreAll
        /\ DOMAIN view = {"at", "tables", "pages", "binaries", "of", "returned"}
    <3>1. view.at \in Begun
      BY <1>1 DEF Begun
    <3> QED
      BY <1>1, <3>1 DEF IInv, ViewOK
  <2>2. /\ view'.at = "publish" /\ view'.pages = view.pages
        /\ view'.binaries = view.binaries /\ view'.returned = view.returned
        /\ view'.of = view.of /\ DOMAIN view' = DOMAIN view
    BY <1>3, <2>1
  <2>3. ASSUME ~view.returned PROVE ViewIsRight
    <3>1. Ours
      BY <1>3, <2>3 DEF Ours, Readable
    <3>2. view.of.data.files[Db].data = Database
      BY <1>3, <2>1, RecordedIsWritten DEF IInv, DiskOK, Readable
    <3>3. Database.rows = input.rows /\ Database.held = held
      BY DEF Database
    <3>4. DOMAIN held = DOMAIN input.held
      BY DEF IInv, HeldOK
    <3> QED
      BY <2>1, <3>1, <3>2, <3>3, <3>4 DEF ViewIsRight, PagesOf, BinariesAreAll
  <2>4. ~view'.returned => ViewIsRight'
    BY <2>2, <2>3, RightStands
  <2>5. ViewOK'
    BY <1>1, <2>1, <2>2, <2>4, BuildStands DEF ViewOK, Begun, Reading
  <2> QED
    BY <1>1, <2>5, Viewing
<1> QED
  BY <1>2, <1>3 DEF CompareManifest

LEMMA PublishesView ==
  ASSUME IInv, PublishView
  PROVE  IInv'
<1>1. view.at = "publish" /\ UNCHANGED buildVars
  BY DEF PublishView, ViewStep
<1>2. CASE ViewFails
  BY <1>1, <1>2, ViewFailed, Viewing DEF IInv
<1>3. CASE /\ output' = [pages |-> view.pages, binaries |-> view.binaries,
                         of |-> view.of]
           /\ view' = [view EXCEPT !.at = "published"]
  <2>1. /\ step = "sealed" /\ view.returned \in BOOLEAN
        /\ ~view.returned => ViewIsRight
        /\ DOMAIN view = {"at", "tables", "pages", "binaries", "of", "returned"}
    <3>1. view.at \in Begun
      BY <1>1 DEF Begun
    <3> QED
      BY <1>1, <3>1 DEF IInv, ViewOK
  <2>2. /\ view'.at = "published" /\ view'.pages = view.pages
        /\ view'.binaries = view.binaries /\ view'.returned = view.returned
        /\ view'.of = view.of /\ DOMAIN view' = DOMAIN view
    BY <1>3, <2>1
  <2>3. ~view'.returned => ViewIsRight'
    BY <2>1, <2>2, RightStands
  <2>4. ViewOK'
    BY <1>1, <1>3, <2>1, <2>2, <2>3, BuildStands DEF ViewOK, Begun, Reading
  <2> QED
    BY <1>1, <2>4, Viewing
<1> QED
  BY <1>2, <1>3 DEF PublishView

LEMMA ViewEndsEarly ==
  ASSUME IInv, ViewInterrupted \/ ViewKilled
  PROVE  IInv'
<1>1. CASE ViewInterrupted
  <2>1. UNCHANGED <<step, input, held, attempt, staging, disk, damage>> /\ ViewFails
    BY <1>1 DEF ViewInterrupted
  <2>2. ViewOK'
    BY <2>1, ViewFailed DEF IInv
  <2>3. StagingOK' /\ DiskOK'
    BY <2>1, StagingStands, DiskStands DEF IInv
  <2> QED
    BY <2>1, <2>2, <2>3, HeldStands DEF IInv
<1>2. CASE ViewKilled
  <2>1. UNCHANGED buildVars /\ view'.at = "killed" /\ view'.returned \in BOOLEAN
        /\ DOMAIN view' = {"at", "tables", "pages", "binaries", "of", "returned"}
    BY <1>2 DEF ViewKilled, IInv, ViewOK
  <2>2. ViewOK'
    BY <2>1 DEF ViewOK, Begun, Reading
  <2> QED
    BY <2>1, <2>2, Viewing
<1> QED
  BY <1>1, <1>2

LEMMA OutputTaken ==
  ASSUME IInv, TakeOutput
  PROVE  IInv'
<1>1. UNCHANGED buildVars /\ view' = view /\ view.at # "published"
  BY DEF TakeOutput, ViewEnds
<1>2. BinariesAreAll' = BinariesAreAll
  BY <1>1, BuildStands DEF BinariesAreAll
<1>3. Ours' = Ours /\ ViewIsRight' = ViewIsRight
  BY <1>1, OursStands, RightStands
<1>4. ViewOK'
  BY <1>1, <1>2, <1>3, BuildStands DEF IInv, ViewOK, Begun
<1> QED
  BY <1>1, <1>4, Viewing

(* The archive that takes the other's place is whole, and the one the view *)
(* was started with is gone, unless it is this one.                        *)
LEMMA Sealing ==
  IsArchive(SealedArchive)
<1> DEFINE files == [p \in {Control, Response, Db, Schema}
                           \union {Binary(a) : a \in Retrieved(held)} |->
                      CASE p = Control -> File(input.evidence, 1)
                        [] p = Response -> File("answers", 1)
                        [] p = Db -> File(Database, 1)
                        [] p = Schema -> File("schema", 1)
                        [] OTHER -> Bytes[p[2]]]
           d == SealedArchive
<1>1. DOMAIN files = {Control, Response, Db, Schema} \cup Binaries
  BY DEF Binaries
<1>2. \A p \in DOMAIN files : files[p] = Content(p)
  BY DEF Content
<1>3. Sealed \notin DOMAIN files
  BY <1>1, Paths DEF Binaries
<1>4. Holds(files, {Db, Schema})
  BY <1>1, <1>2 DEF Holds
<1>5. d = [p \in DOMAIN files \union {Sealed} |->
             IF p = Sealed THEN File(ManifestOf(files), 1) ELSE files[p]]
  BY DEF SealedArchive
<1> HIDE DEF files, d
<1>6. SealOK(ManifestOf(files))
  BY <1>4 DEF SealOK, ManifestOf
<1>7. /\ DOMAIN d = DOMAIN files \cup {Sealed}
      /\ d[Sealed] = File(ManifestOf(files), 1)
      /\ \A p \in DOMAIN d \ {Sealed} : d[p] = Content(p)
  BY <1>2, <1>3, <1>5
<1>8. d[Sealed].data = ManifestOf(files)
  BY <1>7 DEF File
<1>9. Holds(d, {Db, Schema, Sealed})
  BY <1>1, <1>7 DEF Holds
<1>10. IsArchive(d)
  BY <1>6, <1>7, <1>8, <1>9 DEF IsArchive
<1> QED
  BY <1>10 DEF d

LEMMA OutcomeOf ==
  ASSUME NEW i \in Inputs, NEW h \in Outcomes(i)
  PROVE  /\ DOMAIN h = DOMAIN i.held
         /\ \A a \in DOMAIN h :
              /\ DOMAIN h[a] = {"status", "bytes", "expected"}
              /\ h[a].status \in {"RETRIEVED", "UNRESOLVED"}
              /\ h[a].status = "RETRIEVED" =>
                   h[a].bytes = Bytes[a] /\ h[a].expected \in {None, Bytes[a].size}
              /\ h[a].status # "RETRIEVED" => h[a].bytes = None
<1>1. PICK got \in SUBSET {a \in DOMAIN i.held :
                             i.held[a].expected \in {None, Bytes[a].size}} :
        h = [a \in DOMAIN i.held |->
               IF a \in got
                 THEN [i.held[a] EXCEPT !.status = "RETRIEVED", !.bytes = Bytes[a]]
                 ELSE [i.held[a] EXCEPT !.status = "UNRESOLVED"]]
  BY DEF Outcomes
<1>2. \A a \in DOMAIN i.held :
        /\ DOMAIN i.held[a] = {"status", "bytes", "expected"}
        /\ i.held[a].bytes = None
  BY InputsAreRead
<1> QED
  BY <1>1, <1>2

LEMMA Exchanges ==
  ASSUME IInv, ArchiveExchanged
  PROVE  IInv'
<1>1. /\ step = "sealed" /\ step' = "sealed" /\ damage' = 0
      /\ UNCHANGED <<attempt, staging, output>>
      /\ \/ input' \in Spares /\ held' \in Outcomes(input')
         \/ UNCHANGED <<input, held>>
      /\ disk' = SealedArchive'
  BY DEF ArchiveExchanged, Exchange
<1>2. /\ attempt = None
      /\ \A a \in DOMAIN held : held[a].status # "PENDING"
      /\ ReferencesHold(input.rows, input.values) /\ Validates(input)
    BY <1>1 DEF IInv, HeldOK, StagingOK, AttachmentsPending
<1>3. HeldOK' /\ StagingOK'
  <2>1. CASE input' \in Spares /\ held' \in Outcomes(input')
    <3>1. /\ input' \in Inputs /\ Validates(input')
          /\ ReferencesHold(input'.rows, input'.values)
      BY <2>1, SparesAreSealed
    <3>2. HeldOK'
      BY <1>1, <1>2, <2>1, <3>1, OutcomeOf DEF HeldOK
    <3>3. \A a \in DOMAIN held' : held'[a].status # "PENDING"
      BY <2>1, <3>1, OutcomeOf
    <3>4. StagingOK'
      BY <1>1, <3>1, <3>3 DEF StagingOK
    <3> QED
      BY <3>2, <3>4
  <2>2. CASE UNCHANGED <<input, held>>
    BY <1>1, <1>2, <2>2, HeldStands, StagingStands DEF IInv
  <2> QED
    BY <1>1, <2>1, <2>2
<1>4. DiskOK'
  <2>1. IsArchive(SealedArchive)'
    BY Sealing, PTL
  <2>2. IsArchive(disk)'
    BY <1>1, <2>1 DEF IsArchive, Holds
  <2>3. Decayed(disk)'
    BY <1>3, <2>2, WholeAlways, PTL
  <2> QED
    BY <1>1, <2>2, <2>3 DEF DiskOK
<1>5. ViewOK'
  <2>1. /\ view' = [view EXCEPT !.returned =
                       @ \/ (view.at \in Reading /\ disk'[Sealed] = view.of)]
        /\ view.at \in Reading \union {"read manifest", "publish"}
    BY DEF ArchiveExchanged
  <2>2. /\ DOMAIN view' = DOMAIN view /\ view'.at = view.at
        /\ view'.tables = view.tables /\ view'.pages = view.pages
        /\ view'.binaries = view.binaries /\ view'.of = view.of
        /\ view'.returned \in BOOLEAN
        /\ view'.returned <=> view.returned \/
                              (view.at \in Reading /\ disk'[Sealed] = view.of)
    BY <2>1 DEF IInv, ViewOK
  <2>3. view.at \in Reading => ~Ours'
    BY <2>2 DEF Ours
  <2>4. ViewIsRight' = ViewIsRight
    BY <2>2, RightStands
  <2> QED
    BY <1>1, <2>1, <2>2, <2>3, <2>4 DEF IInv, ViewOK, Reading
<1> QED
  BY <1>3, <1>4, <1>5 DEF IInv

-----------------------------------------------------------------------------
(* The invariant.                                                          *)
LEMMA Initially == Init => IInv
<1> SUFFICES ASSUME Init PROVE IInv
  OBVIOUS
<1> USE DEF Init, BuildInit, ViewInit
<1>1. HeldOK
  BY InputsAreRead DEF HeldOK
<1>2. StagingOK
  BY DEF StagingOK
<1>3. DiskOK
  BY DEF DiskOK
<1>4. ViewOK
  BY DEF ViewOK, Begun, Reading
<1> QED
  BY <1>1, <1>2, <1>3, <1>4 DEF IInv

LEMMA Stutters ==
  ASSUME IInv, UNCHANGED vars
  PROVE  IInv'
<1>1. UNCHANGED <<step, input, held, attempt, staging, disk, damage, viewVars>>
      /\ UNCHANGED buildVars
  BY DEF vars, buildVars
<1>2. ViewOK'
  BY <1>1, ViewStands, BuildStands, OursStands DEF IInv, viewVars
<1> QED
  BY <1>1, <1>2, Viewing

LEMMA Consecution == IInv /\ [Next]_vars => IInv'
<1> SUFFICES ASSUME IInv, [Next]_vars PROVE IInv'
  OBVIOUS
<1>1. CASE BuildNext /\ UNCHANGED viewVars
  BY <1>1, Begins, CopiesRaw, Attachments, AllTried, WritesDatabase, WritesSchema,
     WritesManifest, Publishes, GivesUp, Ends, NameTaken, Decays DEF BuildNext
<1>2. CASE UNCHANGED vars
  BY <1>2, Stutters
<1> QED
  BY <1>1, <1>2, VerifiesBefore, ReadsManifest, WritesPages, CopiesAttachments,
     VerifiesAgain, Compares, PublishesView, ViewEndsEarly, OutputTaken, Exchanges
     DEF Next

(* The builder, the damage and the view keep together what the archive on  *)
(* disk, the rows read and the output must be for the theorems below.      *)
THEOREM Invariance == Spec => []IInv
BY Initially, Consecution, PTL DEF Spec

LEMMA WholeTarget == IInv => TargetIsWhole
<1> SUFFICES ASSUME IInv, disk \notin {Absent, Foreign}, ~(damage > 0)
             PROVE  TargetIsWhole
  BY DEF TargetIsWhole
<1>1. step = "sealed" /\ damage = 0
  BY DEF IInv, DiskOK
<1> DEFINE m == disk[Sealed].data
<1>2. /\ Holds(disk, {Db, Schema, Sealed})
      /\ SealOK(m)
      /\ Holds(m.files, {Db, Schema})
      /\ m.held = held /\ m.status = ArchiveStatus(held, ObservedCapabilities)
  BY <1>1 DEF IInv, DiskOK, IsArchive, SealOK
<1> HIDE DEF m
<1>3. Sealed \notin Binaries /\ {Db, Schema, Control} \cap {Sealed} = {}
  BY Paths DEF Binaries
<1>4. DOMAIN m.files = DOMAIN disk \ {Sealed}
  BY <1>2, <1>3, Paths DEF Holds
<1>5. \A p \in DOMAIN m.files : m.files[p] = disk[p]
  BY <1>2, <1>4 DEF Holds
<1>6. StructureCheck(disk) = "PASS"
  BY <1>2 DEF StructureCheck, PassIf, Required, Holds
<1>7. disk[Db].data.status = m.status
  <2>1. disk[Db] = File(Database, 1)
    BY <1>2, Paths, Contents DEF Holds
  <2> QED
    BY <1>2, <2>1 DEF File, Database
<1>8. ASSUME NEW a \in DOMAIN input.held
      PROVE  Binary(a) \in DOMAIN disk <=> m.held[a].status = "RETRIEVED"
  <2>1. Binary(a) \in DOMAIN disk <=> Binary(a) \in Binaries
    BY <1>2, Paths DEF Holds
  <2>2. Binary(a) \in Binaries <=> a \in Retrieved(held)
    BY Paths DEF Binaries
  <2>3. a \in DOMAIN held
    BY DEF IInv, HeldOK
  <2> QED
    BY <1>2, <2>1, <2>2, <2>3 DEF Retrieved
<1> QED
  BY <1>4, <1>5, <1>6, <1>7, <1>8
     DEF TargetIsWhole, FileInventoryCheck, FileChecksumsCheck, PassIf, m

(* The target's name never shows a half-built archive (one rename at the   *)
(* end of archive.Build).                                                  *)
THEOREM TargetWhole == Spec => []TargetIsWhole
BY WholeTarget, Invariance, PTL

(* A published view is of one archive, the one whose manifest it names:    *)
(* what was read while the archive could decay or be exchanged is what the *)
(* last verification found there and the manifest records, unless that     *)
(* archive was away for a while (organize.Build).                          *)
THEOREM ViewOfOne == Spec => []ViewIsOfOneArchive
<1>1. IInv => ViewIsOfOneArchive
  <2> SUFFICES ASSUME IInv, view.at = "published", ~view.returned
               PROVE  ViewIsOfOneArchive
    BY DEF ViewIsOfOneArchive
  <2>1. DOMAIN PageTables = 1..4
    BY DEF PageTables
  <2>2. /\ output.pages = view.pages /\ output.binaries = view.binaries
        /\ output.of = view.of /\ ViewIsRight
    BY DEF IInv, ViewOK
  <2> QED
    BY <2>1, <2>2 DEF ViewIsOfOneArchive, ViewIsRight
<1> QED
  BY <1>1, Invariance, PTL

(* Exchanges are counted.                                                  *)
SwapsOK == swaps \in Nat

LEMMA SwapsCount == Spec => []SwapsOK
<1>1. Init => SwapsOK
  BY DEF Init, BuildInit, SwapsOK
<1>2. ASSUME SwapsOK, [Next]_vars PROVE SwapsOK'
  <2> USE DEF SwapsOK
  <2>1. CASE BuildNext
    BY <1>2, <2>1
       DEF BuildNext, Begin, CopyRaw, NextAttachment, Download, DownloadBreaks,
           DownloadMismatches, DownloadRefused, Downloaded, WriteDatabase,
           WriteSchema, WriteManifest, Publish, MarkFailed, Preserve, Interrupt,
           Kill, TakeName, Decay, Goes, Fails, Downloading
  <2>2. CASE UNCHANGED buildVars
    BY <1>2, <2>2 DEF buildVars
  <2>3. CASE ViewInterrupted
    BY <1>2, <2>3 DEF ViewInterrupted
  <2>4. CASE ArchiveExchanged
    <3>1. swaps' = swaps + 1
      BY <2>4 DEF ArchiveExchanged, Exchange
    <3> QED
      BY <1>2, <3>1
  <2> QED
    BY <1>2, <2>1, <2>2, <2>3, <2>4
       DEF Next, vars, VerifyBefore, ReadManifest, WritePages, CopyAttachments,
           VerifyAgain, CompareManifest, PublishView, ViewKilled, TakeOutput, ViewStep
<1> QED
  BY <1>1, <1>2, PTL DEF Spec

(* Neither the builder nor the view writes into or over a directory that   *)
(* was there (the renames of archive.Build, preserveFailedArchive and      *)
(* organize.Build).                                                        *)
THEOREM NothingReplaced == Spec => NothingIsReplaced
<1> DEFINE Step == /\ disk # Absent => disk' = disk \/ damage' # damage \/ swaps' # swaps
                   /\ aside # Absent => aside' = aside
                   /\ output # Absent => output' = output
<1>1. ASSUME IInv, SwapsOK, Next PROVE Step
  <2>1. CASE BuildNext /\ UNCHANGED viewVars
    <3>1. CASE Decay
      <4>1. damage \in Nat /\ damage' = damage + 1 /\ UNCHANGED <<aside, output>>
        BY <3>1, <2>1, <1>1 DEF Decay, IInv, DiskOK, viewVars
      <4> QED
        BY <4>1
    <3>2. CASE Begin \/ CopyRaw \/ WriteDatabase \/ WriteSchema \/ WriteManifest
      BY <3>2, <2>1 DEF Begin, CopyRaw, WriteDatabase, WriteSchema, WriteManifest,
                        Goes, Fails, viewVars
    <3>3. CASE \/ NextAttachment \/ Download \/ DownloadBreaks \/ DownloadMismatches
               \/ DownloadRefused \/ Downloaded
      BY <3>3, <2>1 DEF NextAttachment, Download, DownloadBreaks, DownloadMismatches,
                        DownloadRefused, Downloaded, Downloading, viewVars
    <3>4. CASE Publish \/ MarkFailed \/ Preserve
      BY <3>4, <2>1 DEF Publish, MarkFailed, Preserve, Goes, Fails, viewVars
    <3>5. CASE Interrupt \/ Kill \/ TakeName
      BY <3>5, <2>1 DEF Interrupt, Kill, TakeName, viewVars
    <3> QED
      BY <2>1, <3>1, <3>2, <3>3, <3>4, <3>5 DEF BuildNext
  <2>2. CASE \/ VerifyBefore \/ ReadManifest \/ WritePages \/ CopyAttachments
             \/ VerifyAgain \/ CompareManifest
    BY <2>2 DEF VerifyBefore, ReadManifest, WritePages, CopyAttachments,
                VerifyAgain, CompareManifest, ViewStep, buildVars
  <2>3. CASE PublishView \/ ViewInterrupted \/ ViewKilled \/ TakeOutput
    BY <2>3 DEF PublishView, ViewInterrupted, ViewKilled, TakeOutput, ViewStep,
                buildVars
  <2>4. CASE ArchiveExchanged
    <3>1. swaps' = swaps + 1 /\ UNCHANGED <<aside, output>>
      BY <2>4 DEF ArchiveExchanged, Exchange
    <3>2. swaps' # swaps
      BY <3>1, <1>1 DEF SwapsOK
    <3> QED
      BY <3>1, <3>2
  <2> QED
    BY <1>1, <2>1, <2>2, <2>3, <2>4 DEF Next
<1>2. IInv /\ SwapsOK /\ [Next]_vars => [Step]_vars
  BY <1>1
<1> QED
  BY <1>2, Invariance, SwapsCount, PTL DEF Spec, NothingIsReplaced

-----------------------------------------------------------------------------
(* The chain of parents.                                                   *)

(* Induction: a set with 0 that has the successor of each of its numbers   *)
(* has them all.  Up to a number outside it the successor would map the    *)
(* set, which is finite there, into itself without 0.                      *)
LEMMA Induction ==
  ASSUME NEW S, 0 \in S, \A n \in Nat : n \in S => n + 1 \in S
  PROVE  Nat \subseteq S
<1> SUFFICES ASSUME NEW n \in Nat, n \notin S PROVE FALSE
  OBVIOUS
<1> DEFINE T == (0..n) \cap S
           f == [m \in T |-> m + 1]
<1>1. IsFiniteSet(T) /\ Cardinality(T) \in Nat
  <2>1. IsFiniteSet(0..n)
    BY FS_Interval
  <2>2. IsFiniteSet(T)
    BY <2>1, FS_Intersection
  <2> QED
    BY <2>2, FS_CardinalityType
<1>2. \A m \in T : m + 1 \in T \ {0}
  OBVIOUS
<1>3. f \in Injection(T, T \ {0})
  <2>1. f \in [T -> T \ {0}]
    BY <1>2
  <2>2. \A x, y \in T : f[x] = f[y] => x = y
    OBVIOUS
  <2> QED
    BY <2>1, <2>2 DEF Injection, IsInjective
<1>4. 0 \in T
  OBVIOUS
<1> HIDE DEF T, f
<1>5. IsFiniteSet(T \ {0}) /\ Cardinality(T \ {0}) = Cardinality(T) - 1
  BY <1>1, <1>4, FS_RemoveElement
<1>6. Cardinality(T) <= Cardinality(T \ {0})
  BY <1>3, <1>5, FS_Injection
<1> QED
  BY <1>1, <1>5, <1>6

Climbs(index, key, n, g) ==
  g = [k \in 0..n |->
         IF k = 0 THEN key
         ELSE IF g[k - 1] \in DOMAIN index THEN index[g[k - 1]] ELSE None]

LEMMA Climbing ==
  ASSUME NEW index, NEW key, NEW N \in Nat
  PROVE  \E g : Climbs(index, key, N, g)
<1> DEFINE S == {n \in Nat : \E g : Climbs(index, key, n, g)}
<1>1. 0 \in S
  <2>1. Climbs(index, key, 0, [k \in 0..0 |-> key])
    BY DEF Climbs
  <2> QED
    BY <2>1
<1>2. ASSUME NEW n \in Nat, n \in S
      PROVE  n + 1 \in S
  <2>1. PICK g : Climbs(index, key, n, g)
    BY <1>2
  <2> DEFINE h == [k \in 0..(n + 1) |->
                     IF k = n + 1
                       THEN IF g[n] \in DOMAIN index THEN index[g[n]] ELSE None
                       ELSE g[k]]
  <2>2. Climbs(index, key, n + 1, h)
    <3>1. \A k \in 0..(n + 1) :
            h[k] = IF k = 0 THEN key
                   ELSE IF h[k - 1] \in DOMAIN index THEN index[h[k - 1]] ELSE None
      BY <2>1 DEF Climbs
    <3>2. h = [k \in 0..(n + 1) |-> h[k]]
      OBVIOUS
    <3> HIDE DEF h
    <3> QED
      BY <3>1, <3>2 DEF Climbs
  <2> HIDE DEF h
  <2> QED
    BY <2>2
<1> HIDE DEF S
<1>3. Nat \subseteq S
  BY <1>1, <1>2, Induction
<1> USE DEF S
<1> QED
  BY <1>3

(* Above is what its recursion says.                                       *)
LEMMA AboveIs ==
  ASSUME NEW index, IsFiniteSet(DOMAIN index), NEW key
  PROVE  LET N == Cardinality(DOMAIN index)
             above == Above(index, key)
         IN  /\ N \in Nat
             /\ DOMAIN above = 0..N
             /\ above[0] = key
             /\ \A n \in 1..N :
                  above[n] = IF above[n - 1] \in DOMAIN index
                               THEN index[above[n - 1]] ELSE None
<1> DEFINE N == Cardinality(DOMAIN index)
<1>1. N \in Nat
  BY FS_CardinalityType
<1>2. Climbs(index, key, N, Above(index, key))
  BY <1>1, Climbing DEF Above, Climbs
<1> HIDE DEF N
<1> QED
  BY <1>1, <1>2 DEF Climbs, N

(* The chain of an object is the object, then the chain of its parent.     *)
LEMMA AboveParent ==
  ASSUME NEW index, IsFiniteSet(DOMAIN index), NEW key \in DOMAIN index
  PROVE  LET N == Cardinality(DOMAIN index)
         IN  /\ N >= 1
             /\ \A n \in 0..(N - 1) :
                  Above(index, key)[n + 1] = Above(index, index[key])[n]
<1> DEFINE N == Cardinality(DOMAIN index)
           a == Above(index, key)
           b == Above(index, index[key])
           S == {n \in Nat : n <= N - 1 => a[n + 1] = b[n]}
<1>1. N \in Nat /\ N >= 1
  BY FS_CardinalityType, FS_EmptySet
<1>2. /\ a[0] = key /\ b[0] = index[key]
      /\ \A n \in 1..N : a[n] = IF a[n - 1] \in DOMAIN index
                                  THEN index[a[n - 1]] ELSE None
      /\ \A n \in 1..N : b[n] = IF b[n - 1] \in DOMAIN index
                                  THEN index[b[n - 1]] ELSE None
  BY AboveIs
<1> HIDE DEF N, a, b
<1>3. 0 \in S
  <2>1. a[1] = index[key]
    BY <1>1, <1>2
  <2> QED
    BY <1>2, <2>1
<1>4. ASSUME NEW n \in Nat, n \in S
      PROVE  n + 1 \in S
  <2> SUFFICES ASSUME n + 1 <= N - 1 PROVE a[n + 2] = b[n + 1]
    BY <1>1
  <2>1. a[n + 1] = b[n]
    BY <1>1, <1>4
  <2>2. n + 2 \in 1..N /\ n + 1 \in 1..N /\ (n + 2) - 1 = n + 1 /\ (n + 1) - 1 = n
    BY <1>1
  <2>3. a[n + 2] = IF a[n + 1] \in DOMAIN index THEN index[a[n + 1]] ELSE None
    BY <1>2, <2>2
  <2>4. b[n + 1] = IF b[n] \in DOMAIN index THEN index[b[n]] ELSE None
    BY <1>2, <2>2
  <2> QED
    BY <2>1, <2>3, <2>4
<1> HIDE DEF S
<1>5. Nat \subseteq S
  BY <1>3, <1>4, Induction
<1>6. \A n \in 0..(N - 1) : a[n + 1] = b[n]
  BY <1>1, <1>5 DEF S
<1> QED
  BY <1>1, <1>6 DEF N, a, b

Found(rows, index, key, table) ==
  {n \in DOMAIN Above(index, key) :
     /\ n > 0
     /\ TableAt(rows, Above(index, key)[n]) = table
     /\ \A k \in 1..n : At(rows, Above(index, key)[k]) # None}

LEMMA AncestorIs ==
  ASSUME NEW rows, NEW index, NEW key, NEW table, IsFiniteSet(DOMAIN index),
         NEW least \in Found(rows, index, key, table),
         \A k \in Found(rows, index, key, table) : least <= k
  PROVE  AncestorIn(rows, index, key, table) = At(rows, Above(index, key)[least])
<1> DEFINE F == Found(rows, index, key, table)
<1>1. F \subseteq Nat
  BY AboveIs DEF Found
<1> HIDE DEF F
<1>2. (CHOOSE n \in F : \A k \in F : n <= k) = least
  <2>1. \A n \in F : (\A k \in F : n <= k) => n = least
    BY <1>1 DEF F
  <2>2. least \in F /\ \A k \in F : least <= k
    BY DEF F
  <2> QED
    BY <2>1, <2>2
<1>3. F # {}
  BY DEF F
<1> QED
  BY <1>2, <1>3 DEF AncestorIn, Found, F

LEMMA Least ==
  ASSUME NEW T, T \subseteq Nat, T # {}
  PROVE  \E n \in T : \A m \in T : n <= m
<1> DEFINE S == {n \in Nat : \A m \in T : n <= m}
<1> SUFFICES ASSUME \A n \in T : \E m \in T : ~ (n <= m)
             PROVE  FALSE
  OBVIOUS
<1>1. 0 \in S
  OBVIOUS
<1>2. \A n \in Nat : n \in S => n + 1 \in S
  OBVIOUS
<1> HIDE DEF S
<1>3. Nat \subseteq S
  BY <1>1, <1>2, Induction
<1>4. PICK n \in T : TRUE
  OBVIOUS
<1>5. n + 1 \in S
  BY <1>3, <1>4
<1> QED
  BY <1>4, <1>5 DEF S

(* An object whose parent is in another table has the ancestor of its      *)
(* parent.                                                                 *)
LEMMA AncestorAbove ==
  ASSUME NEW rows, NEW index, IsFiniteSet(DOMAIN index),
         NEW key \in DOMAIN index, NEW table,
         TableAt(rows, index[key]) # table,
         AncestorIn(rows, index, key, table) # None
  PROVE  /\ AncestorIn(rows, index, key, table)
              = AncestorIn(rows, index, index[key], table)
         /\ \/ index[key] \in DOMAIN index
            \/ At(rows, None) # None
         /\ index[key] \in DOMAIN index /\ TableAt(rows, index[index[key]]) = table =>
              AncestorIn(rows, index, key, table) = At(rows, index[index[key]])
<1> DEFINE N == Cardinality(DOMAIN index)
           up == index[key]
           a == Above(index, key)
           b == Above(index, up)
           F == Found(rows, index, key, table)
           G == Found(rows, index, up, table)
<1>1. /\ N \in Nat /\ N >= 1
      /\ \A n \in 0..(N - 1) : a[n + 1] = b[n]
      /\ DOMAIN a = 0..N /\ DOMAIN b = 0..N
      /\ b[0] = up
      /\ b[1] = IF up \in DOMAIN index THEN index[up] ELSE None
  BY AboveIs, AboveParent
<1>2. F # {}
  BY DEF AncestorIn, Found
<1>3. /\ \A n : n \in F <=> /\ n \in 1..N
                            /\ TableAt(rows, a[n]) = table
                            /\ \A k \in 1..n : At(rows, a[k]) # None
      /\ \A n : n \in G <=> /\ n \in 1..N
                            /\ TableAt(rows, b[n]) = table
                            /\ \A k \in 1..n : At(rows, b[k]) # None
  BY <1>1 DEF Found
<1>4. TableAt(rows, up) # table
  OBVIOUS
<1> HIDE DEF N, up, a, b, F, G
<1>5. a[1] = up
  BY <1>1
<1>6. ASSUME NEW n \in F
      PROVE  /\ n \in 2..N /\ n - 1 \in G
             /\ At(rows, up) # None /\ At(rows, b[1]) # None
  <2>1. n \in 2..N
    <3>1. n \in 1..N /\ n # 1
      BY <1>3, <1>4, <1>5
    <3> QED
      BY <3>1, <1>1
  <2>2. n - 1 \in 1..N /\ a[n] = b[n - 1]
    BY <1>1, <2>1
  <2>3. \A k \in 1..(n - 1) : k + 1 \in 1..n /\ b[k] = a[k + 1]
    BY <1>1, <2>1
  <2>4. \A k \in 1..(n - 1) : At(rows, b[k]) # None
    BY <1>3, <2>3
  <2>5. 1 \in 1..n /\ 1 \in 1..(n - 1)
    BY <2>1
  <2> QED
    BY <1>3, <1>5, <2>1, <2>2, <2>4, <2>5
<1>7. ASSUME NEW n \in G, n + 1 \in 1..N
      PROVE  n + 1 \in F
  <2>1. n \in 1..N
    BY <1>3
  <2>2. a[n + 1] = b[n] /\ At(rows, up) # None
    BY <1>1, <1>2, <1>6, <2>1, <1>7
  <2>3. ASSUME NEW k \in 1..(n + 1) PROVE At(rows, a[k]) # None
    <3>1. CASE k = 1
      BY <3>1, <1>5, <2>2
    <3>2. CASE k # 1
      <4>1. k - 1 \in 1..n /\ k - 1 \in 0..(N - 1) /\ (k - 1) + 1 = k
        BY <3>2, <1>1, <2>1, <1>7
      <4>2. a[k] = b[k - 1]
        BY <4>1, <1>1
      <4> QED
        BY <4>1, <4>2, <1>3
    <3> QED
      BY <3>1, <3>2
  <2> QED
    BY <1>3, <1>7, <2>2, <2>3
<1>8. F \subseteq Nat /\ G \subseteq Nat
  BY <1>1, <1>3
<1>9. PICK f \in F : \A k \in F : f <= k
  BY <1>2, <1>8, Least
<1>10. f \in 2..N /\ f - 1 \in G
  BY <1>6
<1>11. ASSUME NEW k \in G PROVE f - 1 <= k
  <2>1. CASE k + 1 \in 1..N
    <3>1. f <= k + 1
      BY <2>1, <1>7, <1>9
    <3> QED
      BY <3>1, <1>8, <1>10
  <2>2. CASE k + 1 \notin 1..N
    BY <2>2, <1>1, <1>8, <1>10
  <2> QED
    BY <2>1, <2>2
<1>12. AncestorIn(rows, index, key, table) = At(rows, a[f])
  BY <1>9, AncestorIs DEF F, a
<1>13. AncestorIn(rows, index, up, table) = At(rows, b[f - 1])
  BY <1>10, <1>11, AncestorIs DEF G, b
<1>14. a[f] = b[f - 1]
  BY <1>1, <1>10
<1>15. up \in DOMAIN index \/ At(rows, None) # None
  BY <1>1, <1>6, <1>9
<1>16. ASSUME up \in DOMAIN index, TableAt(rows, index[up]) = table
       PROVE  AncestorIn(rows, index, key, table) = At(rows, index[up])
  <2>1. b[1] = index[up] /\ At(rows, b[1]) # None
    BY <1>1, <1>6, <1>9, <1>16
  <2>2. \A k \in 1..1 : k = 1
    OBVIOUS
  <2>3. 1 \in G
    BY <1>1, <1>3, <1>16, <2>1, <2>2
  <2>4. f = 2
    BY <1>10, <1>11, <2>3
  <2> QED
    BY <1>12, <1>14, <2>1, <2>4
<1> QED
  BY <1>12, <1>13, <1>14, <1>15, <1>16 DEF up

-----------------------------------------------------------------------------
(* What the checks of pointers and hierarchy establish of a row.           *)
LEMMA AtIs ==
  ASSUME NEW rows
  PROVE  /\ \A key : At(rows, key) # None =>
              At(rows, key) \in DOMAIN rows /\ SourceKey(rows[At(rows, key)]) = key
         /\ IndexIsSound(rows) =>
              \A i \in DOMAIN rows : At(rows, SourceKey(rows[i])) = i
<1>1. ASSUME NEW key, NEW i \in DOMAIN rows, SourceKey(rows[i]) = key
      PROVE  /\ At(rows, key) \in DOMAIN rows
             /\ SourceKey(rows[At(rows, key)]) = key
  BY <1>1 DEF At
<1> QED
  BY <1>1 DEF At, IndexIsSound

Proper(rows) ==
  \A x \in DOMAIN rows :
    /\ x # None /\ SourceKey(rows[x]) # None
    /\ rows[x].table \notin {"containers", "records", "comments"} =>
         rows[x].up = None

LEMMA Hanging ==
  ASSUME NEW rows, NEW values, NEW index,
         IsFiniteSet(DOMAIN index), Proper(rows),
         IndexIsSound(rows), ReferencesHold(rows, values),
         \A key \in DOMAIN index : At(rows, key) # None => Linked(rows, index, key),
         NEW i \in DOMAIN rows, rows[i].table \in Tree,
         SourceKey(rows[i]) \in DOMAIN index
  PROVE  /\ ParentKey(rows, i) = index[SourceKey(rows[i])]
         /\ rows[i].table \in {"records", "comments"} /\ rows[i].up # None =>
              rows[i].home = rows[rows[i].up].home
<1> DEFINE row == rows[i]
           key == SourceKey(row)
           up == index[key]
           parent == At(rows, up)
<1>1. i # None /\ At(rows, key) = i
  BY AtIs DEF Proper
<1>2. Linked(rows, index, key) /\ key \in DOMAIN index
  BY <1>1
<1>3. None \notin ObjectTables
  BY InputsAreRead
<1>4. /\ up # None => parent # None
      /\ parent # None => parent \in DOMAIN rows /\ SourceKey(rows[parent]) = up
  BY <1>1, <1>2, AtIs DEF Linked
<1>5. TableAt(rows, up) = IF parent = None THEN None ELSE rows[parent].table
  BY DEF TableAt
<1> DEFINE over == IF up = None \/ parent = None THEN None ELSE rows[parent].table
<1>6. /\ row.table = "collections" => over = "containers" /\ row.home = parent
      /\ row.table = "records" =>
           \/ over = "collections" /\ row.up = None /\ row.home = parent
           \/ /\ over = "records" /\ row.up = parent
              /\ row.home = AncestorIn(rows, index, key, "collections")
      /\ row.table = "comments" =>
           \/ over = "records" /\ row.up = None /\ row.home = parent
           \/ /\ over = "comments" /\ row.up = parent
              /\ row.home = AncestorIn(rows, index, key, "records")
      /\ row.table = "attachments" => over = "records" /\ row.home = parent
  <2>1. CASE up = None
    BY <1>1, <1>2, <1>3, <2>1 DEF Linked, ObjectTables
  <2>2. CASE up # None
    BY <1>1, <1>2, <2>2 DEF Linked
  <2> QED
    BY <2>1, <2>2
<1>7. over # None => up # None /\ parent # None
  OBVIOUS
<1>8. over \in ObjectTables => /\ parent # None /\ parent \in DOMAIN rows
                         /\ SourceKey(rows[parent]) = up
                         /\ over = rows[parent].table
  BY <1>3, <1>4, <1>7
<1>9. row.table \in {"collections", "attachments"} => row.up = None
  BY DEF Proper
<1> HIDE DEF over, parent, up, key, row
<1>10. row.table \in Tree
  BY DEF row
<1>11. /\ over \in ObjectTables
       /\ \/ row.home = parent /\ row.up = None
          \/ row.up = parent
  BY <1>6, <1>9, <1>10 DEF Tree, ObjectTables
<1>12. ParentKey(rows, i) = up
  BY <1>8, <1>11 DEF ParentKey, row
<1>13. ASSUME NEW table, table \in ObjectTables, row.table # table,
              row.up = parent, over = row.table,
              row.home = AncestorIn(rows, index, key, table),
              HomeTable[row.table] = table, row.table \in {"records", "comments"}
       PROVE  row.home = rows[parent].home
  <2>1. row.home \in IdsIn(rows, table)
    BY <1>13 DEF ReferencesHold, row, HomeTable
  <2>2. AncestorIn(rows, index, key, table) # None
    BY <1>13, <2>1 DEF Proper, IdsIn
  <2>3. /\ TableAt(rows, up) = row.table
        /\ parent \in DOMAIN rows /\ parent # None /\ SourceKey(rows[parent]) = up
        /\ rows[parent].table = row.table
    BY <1>5, <1>8, <1>11, <1>13
  <2>4. At(rows, None) = None
    BY AtIs DEF Proper
  <2>5. /\ AncestorIn(rows, index, key, table) = AncestorIn(rows, index, up, table)
        /\ up \in DOMAIN index
        /\ TableAt(rows, index[up]) = table =>
             AncestorIn(rows, index, key, table) = At(rows, index[up])
    BY <1>2, <1>13, <2>2, <2>3, <2>4, AncestorAbove DEF up
  <2>6. At(rows, up) = parent
    BY DEF parent
  <2>7. Linked(rows, index, up)
    BY <2>3, <2>5, <2>6
  <2> DEFINE grand == IF index[up] = None THEN None ELSE At(rows, index[up])
  <2>8. \/ /\ grand # None /\ rows[grand].table = table
           /\ rows[parent].home = grand
        \/ rows[parent].home = AncestorIn(rows, index, up, table)
    BY <1>3, <1>13, <2>3, <2>6, <2>7 DEF Linked, HomeTable, ObjectTables
  <2>9. CASE /\ grand # None /\ rows[grand].table = table
             /\ rows[parent].home = grand
    <3>1. grand = At(rows, index[up]) /\ TableAt(rows, index[up]) = table
      BY <2>9 DEF TableAt
    <3> QED
      BY <1>13, <2>5, <2>9, <3>1
  <2> QED
    BY <1>13, <2>5, <2>8, <2>9
<1>14. row.table \in {"records", "comments"} /\ row.up # None =>
         row.home = rows[row.up].home
  <2>1. CASE row.table = "records" /\ row.up # None
    <3>1. HomeTable[row.table] = "collections"
      BY <2>1 DEF HomeTable
    <3> QED
      BY <1>6, <1>13, <2>1, <3>1 DEF ObjectTables
  <2>2. CASE row.table = "comments" /\ row.up # None
    <3>1. HomeTable[row.table] = "records"
      BY <2>2 DEF HomeTable
    <3> QED
      BY <1>6, <1>13, <2>2, <3>1 DEF ObjectTables
  <2> QED
    BY <2>1, <2>2
<1> QED
  BY <1>12, <1>14 DEF row, key, up

-----------------------------------------------------------------------------
(* What a decayed archive that passes a check still holds.                 *)
LEMMA EvidenceStands ==
  ASSUME NEW d, Decayed(d), EvidenceLoads(d)
  PROVE  d[Control].data = input.evidence
<1>1. Control \in DOMAIN d \ {Sealed, Db, Binary("stray")} /\ d[Control].intact
  BY Paths DEF EvidenceLoads
<1>2. d[Control] = File(input.evidence, 1)
  BY <1>1, Contents DEF Decayed
<1> QED
  BY <1>2 DEF File

LEMMA HeldIsThere ==
  ASSUME IInv, step = "sealed", NEW d, Decayed(d), Sealed \in DOMAIN d,
         AttachmentCheck(d, d[Sealed].data, d[Db].data) = "PASS",
         NEW a \in DOMAIN input.held
  PROVE  Binary(a) \in DOMAIN d /\ d[Binary(a)] = Bytes[a]
<1> DEFINE m == d[Sealed].data
           b == d[Db].data
<1>1. m.held = held
  BY DEF Decayed, SealOK
<1> HIDE DEF m, b
<1>2. /\ b.held = m.held
      /\ \A x \in DOMAIN b.held : BinaryStands(d, m, x, b.held[x])
      /\ \A x \in DOMAIN b.held : b.held[x].status # "UNRESOLVED"
  BY DEF AttachmentCheck, m, b
<1>3. a \in DOMAIN held /\ held[a].status = "RETRIEVED" /\ held[a].bytes = Bytes[a]
  BY <1>1, <1>2 DEF IInv, HeldOK, StagingOK
<1> QED
  BY <1>1, <1>2, <1>3 DEF BinaryStands

LEMMA PlacesAreRight ==
  ASSUME IInv, NEW d, Decayed(d), Db \in DOMAIN d, EvidenceLoads(d),
         ReferenceCheck(d[Db].data) = "PASS",
         HierarchyCheck(d[Db].data, d[Control].data) = "PASS",
         NEW i \in DOMAIN d[Db].data.rows,
         d[Db].data.rows[i].table \in Tree,
         SourceKey(d[Db].data.rows[i]) \in DOMAIN Truth.index
  PROVE  HangsRight(d[Db].data.rows, i)
<1> DEFINE rows == d[Db].data.rows
           values == d[Db].data.values
           index == Truth.index
<1>1. d[Control].data = Truth
  BY EvidenceStands DEF Truth
<1>2. /\ IndexIsSound(rows) /\ ReferencesHold(rows, values)
      /\ \A key \in DOMAIN index : At(rows, key) # None => Linked(rows, index, key)
  BY <1>1 DEF ReferenceCheck, HierarchyCheck, PassIf
<1>3. Proper(rows)
  BY InputsAreRead DEF Proper, Decayed, IInv, HeldOK
<1>4. IsFiniteSet(DOMAIN index)
  BY InputsAreRead DEF Truth, IInv, HeldOK
<1>5. i \in DOMAIN rows /\ rows[i].table \in Tree /\ SourceKey(rows[i]) \in DOMAIN index
  OBVIOUS
<1> HIDE DEF rows, values, index
<1>6. /\ ParentKey(rows, i) = index[SourceKey(rows[i])]
      /\ rows[i].table \in {"records", "comments"} /\ rows[i].up # None =>
           rows[i].home = rows[rows[i].up].home
  BY <1>2, <1>3, <1>4, <1>5, Hanging
<1> QED
  BY <1>6 DEF HangsRight, rows, index

LEMMA CleanIsSource ==
  ASSUME IInv, step = "sealed", Clean(disk)
  PROVE  /\ disk[Db].data.rows = input.rows
         /\ Db \in DOMAIN disk
         /\ AllThere /\ AllInPlace /\ AllHeld
<1>1. Decayed(disk)
  BY DEF IInv, DiskOK
<1>2. /\ {Db, Sealed} \subseteq DOMAIN disk /\ EvidenceLoads(disk)
      /\ ReferenceCheck(disk[Db].data) = "PASS"
      /\ AttachmentCheck(disk, disk[Sealed].data, disk[Db].data) = "PASS"
      /\ SourceObjectCheck(disk[Db].data, disk[Control].data) = "PASS"
      /\ HierarchyCheck(disk[Db].data, disk[Control].data) = "PASS"
  BY CleanIsPassed
<1>3. disk[Db].data.rows = input.rows
  BY <1>1, CleanIsWritten, Contents DEF File, Database
<1>4. AllThere
  BY <1>1, <1>2, EvidenceStands DEF SourceObjectCheck, PassIf, AllThere, Truth
<1>5. AllInPlace
  BY <1>1, <1>2, PlacesAreRight DEF AllInPlace
<1>6. AllHeld
  BY <1>1, <1>2, HeldIsThere DEF AllHeld
<1> QED
  BY <1>2, <1>3, <1>4, <1>5, <1>6

(* An archive that verifies holds what the extraction saw, where it was    *)
(* seen, and every attachment as it was at the source, whatever a          *)
(* normalisation got wrong and whatever happened to the directory          *)
(* (verify.Archive).                                                       *)
THEOREM VerifiedSource == Spec => []VerifiedIsTheSource
<1>1. IInv => VerifiedIsTheSource
  <2> SUFFICES ASSUME IInv, Clean(disk) PROVE VerifiedIsTheSource
    BY DEF VerifiedIsTheSource
  <2>1. step = "sealed"
    BY EmptyIsNotClean DEF IInv, DiskOK
  <2>2. AllThere /\ AllInPlace /\ AllHeld /\ disk[Db].data.rows = input.rows
    BY <2>1, CleanIsSource
  <2>3. \A i \in DOMAIN disk[Db].data.rows :
          SourceKey(disk[Db].data.rows[i]) \in DOMAIN Truth.index
    BY <2>2 DEF AllThere
  <2> QED
    BY <2>2, <2>3 DEF VerifiedIsTheSource, AllThere, AllInPlace, AllHeld
<1> QED
  BY <1>1, Invariance, PTL

(* What a recovery report calls proven is true, although the verification  *)
(* as a whole may have failed, and a defect is never passed over in        *)
(* silence (report.Build).                                                 *)
THEOREM HonestReport == Spec => []ReportIsHonest
<1>1. IInv => ReportIsHonest
  <2> SUFFICES ASSUME IInv, step = "sealed" PROVE ReportIsHonest
    BY DEF ReportIsHonest
  <2> DEFINE report == Report(disk)
             c == Verify(disk)
  <2>1. Decayed(disk)
    BY DEF IInv, DiskOK
  <2>2. /\ report.proven = Proven(c)
        /\ report.mustNotClaim = MustNotClaim(disk, c)
        /\ report.unresolved = ListedUnresolved(disk)
        /\ report.conclusion = Conclusion(disk, c)
    BY DEF Report
  <2> HIDE DEF report, c
  <2>3. "nothing_lost" \in report.proven => AllThere
    <3> SUFFICES ASSUME "nothing_lost" \in Proven(c) PROVE AllThere
      BY <2>2
    <3>1. c["source_objects"] = "PASS"
      BY DEF Proven, ContentStatement, BasedOn
    <3>2. /\ EvidenceLoads(disk)
          /\ SourceObjectCheck(disk[Db].data, disk[Control].data) = "PASS"
      BY <3>1, Checked DEF c
    <3> QED
      BY <2>1, <3>2, EvidenceStands DEF SourceObjectCheck, PassIf, AllThere, Truth
  <2>4. "reassembles" \in report.proven => AllInPlace
    <3> SUFFICES ASSUME "reassembles" \in Proven(c) PROVE AllInPlace
      BY <2>2
    <3>1. c["hierarchy"] = "PASS" /\ c["referential_integrity"] = "PASS"
      BY DEF Proven, ContentStatement, BasedOn
    <3>2. /\ EvidenceLoads(disk) /\ Db \in DOMAIN disk
          /\ ReferenceCheck(disk[Db].data) = "PASS"
          /\ HierarchyCheck(disk[Db].data, disk[Control].data) = "PASS"
      BY <3>1, Checked DEF c
    <3> QED
      BY <2>1, <3>2, PlacesAreRight DEF AllInPlace
  <2>5. "binaries" \in report.proven => AllHeld
    <3> SUFFICES ASSUME "binaries" \in Proven(c) PROVE AllHeld
      BY <2>2
    <3>1. c["attachment_integrity"] = "PASS"
      BY DEF Proven, ContentStatement, BasedOn
    <3>2. /\ Sealed \in DOMAIN disk
          /\ AttachmentCheck(disk, disk[Sealed].data, disk[Db].data) = "PASS"
      BY <3>1, Checked DEF c
    <3> QED
      BY <2>1, <3>2, HeldIsThere DEF AllHeld
  <2>6. \/ "proven as a whole" \in report.mustNotClaim
        \/ Db \in DOMAIN disk /\ AllHeld /\ AllThere /\ AllInPlace
    <3>1. CASE Clean(disk)
      BY <3>1, CleanIsSource
    <3>2. CASE ~Clean(disk)
      BY <2>2, <3>2 DEF MustNotClaim, Clean, c
    <3> QED
      BY <3>1, <3>2
  <2>7. ManifestRead(disk) =>
          report.unresolved =
            {a \in DOMAIN input.held : held[a].status # "RETRIEVED"}
    <3>1. ManifestRead(disk) => disk[Sealed].data.held = held
      BY <2>1 DEF ManifestRead, Decayed, SealOK
    <3>2. DOMAIN held = DOMAIN input.held
      BY DEF IInv, HeldOK
    <3> QED
      BY <2>2, <3>1, <3>2 DEF ListedUnresolved
  <2>8. report.conclusion.verdict = "cannot be proven" =>
          report.conclusion.contradicted # {}
    <3> SUFFICES ASSUME Conclusion(disk, c).verdict = "cannot be proven"
                 PROVE  Conclusion(disk, c).contradicted # {}
      BY <2>2
    <3>1. Result(c) = "FAILED"
      BY DEF Conclusion, Result
    <3>2. {"FAIL", "NOT_EVALUATED"} \intersect {c[name] : name \in DOMAIN c} # {}
      BY <3>1 DEF Result
    <3>3. NotEstablished(c) # {}
      BY <3>2 DEF NotEstablished
    <3> QED
      BY <3>1, <3>3 DEF Conclusion
  <2> QED
    BY <2>3, <2>4, <2>5, <2>6, <2>7, <2>8 DEF ReportIsHonest, report
<1> QED
  BY <1>1, Invariance, PTL
-----------------------------------------------------------------------------
(* What the checks find of a faithful normalisation.                       *)

(* A row that hangs in its own table hangs where its object does, with the *)
(* home of what it hangs on; a record or comment that does not, has its    *)
(* object's parent for its home.                                           *)
Seen(rows, index) ==
  \A x \in DOMAIN rows :
    LET row == rows[x]
        parent == index[SourceKey(row)]
    IN  /\ row.up # None =>
             /\ row.up \in IdsIn(rows, row.table)
             /\ SourceKey(rows[row.up]) = parent
        /\ row.table \in {"records", "comments"} =>
             IF row.up # None THEN row.home = rows[row.up].home
             ELSE /\ row.home \in IdsIn(rows, HomeTable[row.table])
                  /\ SourceKey(rows[row.home]) = parent

Grown(rows, index) ==
  /\ IsFiniteSet(DOMAIN index) /\ Proper(rows) /\ IndexIsSound(rows)
  /\ {SourceKey(rows[x]) : x \in DOMAIN rows} = DOMAIN index
  /\ Forest(index) /\ Seen(rows, index)

LEMMA AsManyRows ==
  ASSUME NEW rows, NEW index, Grown(rows, index)
  PROVE  /\ IsFiniteSet(DOMAIN rows)
         /\ Cardinality(DOMAIN rows) = Cardinality(DOMAIN index)
<1> DEFINE f == [x \in DOMAIN rows |-> SourceKey(rows[x])]
<1>1. f \in Injection(DOMAIN rows, DOMAIN index)
  BY DEF Grown, IndexIsSound, Injection, IsInjective
<1>2. f \in Surjection(DOMAIN rows, DOMAIN index)
  BY DEF Grown, Surjection
<1> HIDE DEF f
<1> QED
  BY <1>1, <1>2, FS_Injection DEF Grown

(* The chain of a row's parents is what its recursion says.                *)
LEMMA ChainIs ==
  ASSUME NEW rows, IsFiniteSet(DOMAIN rows), NEW i
  PROVE  LET N == Cardinality(DOMAIN rows)
         IN  \E up : /\ up[0] = i
                     /\ \A n \in 1..N :
                          up[n] = IF up[n - 1] \in DOMAIN rows
                                    THEN rows[up[n - 1]].up ELSE None
                     /\ ChainEnds(rows, i) <=> up[N] = None
<1> DEFINE N == Cardinality(DOMAIN rows)
           ups == [x \in DOMAIN rows |-> rows[x].up]
           Says(g) == g = [n \in 0..N |->
                             IF n = 0 THEN i
                             ELSE IF g[n - 1] \in DOMAIN rows
                                    THEN rows[g[n - 1]].up ELSE None]
           up == CHOOSE g : Says(g)
<1>1. N \in Nat
  BY FS_CardinalityType
<1>2. \E g : Says(g)
  <2>1. PICK g : Climbs(ups, i, N, g)
    BY <1>1, Climbing
  <2>2. \A n \in 0..N : (IF g[n - 1] \in DOMAIN ups THEN ups[g[n - 1]] ELSE None)
                          = IF g[n - 1] \in DOMAIN rows
                              THEN rows[g[n - 1]].up ELSE None
    OBVIOUS
  <2> QED
    BY <2>1, <2>2 DEF Climbs
<1>3. Says(up)
  BY <1>2
<1>4. ChainEnds(rows, i) <=> up[N] = None
  BY DEF ChainEnds
<1> HIDE DEF N, up
<1>5. /\ up[0] = i
      /\ \A n \in 1..N : up[n] = IF up[n - 1] \in DOMAIN rows
                                   THEN rows[up[n - 1]].up ELSE None
  BY <1>1, <1>3
<1> QED
  BY <1>4, <1>5 DEF N

(* The chain of a row follows that of its object, and ends before it.      *)
LEMMA ChainsEnd ==
  ASSUME NEW rows, NEW index, Grown(rows, index), NEW i \in DOMAIN rows
  PROVE  ChainEnds(rows, i)
<1> DEFINE N == Cardinality(DOMAIN index)
           key == SourceKey(rows[i])
           above == Above(index, key)
<1>1. /\ N \in Nat /\ key \in DOMAIN index /\ above[0] = key
      /\ \A n \in 1..N : above[n] = IF above[n - 1] \in DOMAIN index
                                      THEN index[above[n - 1]] ELSE None
      /\ above[N] = None
  BY AboveIs DEF Grown, Forest
<1>2. PICK up : /\ up[0] = i
                /\ \A n \in 1..N : up[n] = IF up[n - 1] \in DOMAIN rows
                                             THEN rows[up[n - 1]].up ELSE None
                /\ ChainEnds(rows, i) <=> up[N] = None
  BY AsManyRows, ChainIs
<1> DEFINE Follows(n) == \/ up[n] = None
                         \/ /\ up[n] \in DOMAIN rows
                            /\ SourceKey(rows[up[n]]) = above[n]
           S == {n \in Nat : n <= N => Follows(n)}
<1>3. None \notin DOMAIN rows /\ \A x \in DOMAIN rows : SourceKey(rows[x]) # None
  BY DEF Grown, Proper
<1> HIDE DEF N, above, key
<1>4. 0 \in S
  BY <1>1, <1>2 DEF key
<1>5. ASSUME NEW n \in Nat, n \in S
      PROVE  n + 1 \in S
  <2> SUFFICES ASSUME n + 1 <= N PROVE Follows(n + 1)
    OBVIOUS
  <2>1. Follows(n) /\ n + 1 \in 1..N /\ (n + 1) - 1 = n
    BY <1>1, <1>5
  <2>2. CASE up[n] = None
    BY <1>2, <1>3, <2>1, <2>2
  <2>3. CASE up[n] \in DOMAIN rows /\ SourceKey(rows[up[n]]) = above[n]
    <3>1. above[n] \in DOMAIN index
      BY <2>3 DEF Grown
    <3>2. above[n + 1] = index[above[n]] /\ up[n + 1] = rows[up[n]].up
      BY <1>1, <1>2, <2>1, <2>3, <3>1
    <3>3. rows[up[n]].up # None =>
            /\ rows[up[n]].up \in DOMAIN rows
            /\ SourceKey(rows[rows[up[n]].up]) = index[above[n]]
      BY <2>3 DEF Grown, Seen, IdsIn
    <3> QED
      BY <3>2, <3>3
  <2> QED
    BY <2>1, <2>2, <2>3
<1> HIDE DEF S
<1>6. N \in S
  BY <1>1, <1>4, <1>5, Induction
<1> QED
  BY <1>1, <1>2, <1>3, <1>6 DEF S
(* The first ancestor in the table of its home is the home of a row.       *)
LEMMA AncestorIsHome ==
  ASSUME NEW rows, NEW index, Grown(rows, index), NEW i \in DOMAIN rows,
         rows[i].table \in {"records", "comments"}
  PROVE  AncestorIn(rows, index, SourceKey(rows[i]), HomeTable[rows[i].table])
           = rows[i].home
<1> DEFINE N == Cardinality(DOMAIN index)
           key == SourceKey(rows[i])
           above == Above(index, key)
           table == HomeTable[rows[i].table]
           home == rows[i].home
           Kin(x) == /\ x \in DOMAIN rows /\ rows[x].table = rows[i].table
                     /\ rows[x].home = home
           Below(n) == \A k \in 0..n : Kin(At(rows, above[k]))
           Past(n) == \E m \in 1..n : /\ Below(m - 1)
                                      /\ home \in IdsIn(rows, table)
                                      /\ above[m] = SourceKey(rows[home])
           S == {n \in Nat : n <= N => Below(n) \/ Past(n)}
<1>1. /\ N \in Nat /\ key \in DOMAIN index /\ above[0] = key
      /\ \A n \in 1..N : above[n] = IF above[n - 1] \in DOMAIN index
                                      THEN index[above[n - 1]] ELSE None
      /\ above[N] = None
      /\ DOMAIN above = 0..N
      /\ IsFiniteSet(DOMAIN index)
  BY AboveIs DEF Grown, Forest
<1>2. /\ None \notin DOMAIN rows
      /\ \A x \in DOMAIN rows : SourceKey(rows[x]) # None
      /\ \A x \in DOMAIN rows : /\ SourceKey(rows[x]) \in DOMAIN index
                                /\ At(rows, SourceKey(rows[x])) = x
      /\ \A k : At(rows, k) # None => SourceKey(rows[At(rows, k)]) = k
  BY AtIs DEF Grown, Proper
<1>3. table # rows[i].table /\ \A x : Kin(x) => HomeTable[rows[x].table] = table
  BY DEF HomeTable
<1> HIDE DEF N, above, key, table
<1>4. 0 \in S
  BY <1>1, <1>2 DEF key
<1>5. ASSUME NEW n \in Nat, n \in S
      PROVE  n + 1 \in S
  <2> SUFFICES ASSUME n + 1 <= N PROVE Below(n + 1) \/ Past(n + 1)
    OBVIOUS
  <2>1. n + 1 \in 1..N /\ (n + 1) - 1 = n /\ (Below(n) \/ Past(n))
    BY <1>1, <1>5
  <2>2. CASE Past(n)
    BY <2>2
  <2>3. CASE Below(n)
    <3>1. PICK x : x = At(rows, above[n])
      OBVIOUS
    <3>2. Kin(x) /\ SourceKey(rows[x]) = above[n]
      BY <1>2, <2>3, <3>1
    <3>3. above[n + 1] = index[SourceKey(rows[x])]
      BY <1>1, <1>2, <2>1, <3>2
    <3>4. CASE rows[x].up # None
      <4>1. Kin(rows[x].up) /\ SourceKey(rows[rows[x].up]) = above[n + 1]
        BY <3>2, <3>3, <3>4 DEF Grown, Seen, IdsIn
      <4>2. Kin(At(rows, above[n + 1]))
        BY <1>2, <4>1
      <4>3. \A k \in 0..(n + 1) : k \in 0..n \/ k = n + 1
        OBVIOUS
      <4> QED
        BY <2>3, <4>2, <4>3
    <3>5. CASE rows[x].up = None
      <4>1. home \in IdsIn(rows, table) /\ SourceKey(rows[home]) = above[n + 1]
        BY <1>3, <3>2, <3>3, <3>5 DEF Grown, Seen
      <4> QED
        BY <2>1, <2>3, <4>1
    <3> QED
      BY <3>4, <3>5
  <2> QED
    BY <2>1, <2>2, <2>3
<1> HIDE DEF S
<1>6. Below(N) \/ Past(N)
  <2>1. N \in S
    BY <1>1, <1>4, <1>5, Induction
  <2> QED
    BY <1>1, <2>1 DEF S
<1>7. ~Below(N)
  BY <1>1, <1>2
<1>8. PICK m \in 1..N : /\ Below(m - 1)
                        /\ home \in IdsIn(rows, table)
                        /\ above[m] = SourceKey(rows[home])
  BY <1>6, <1>7
<1>9. home \in DOMAIN rows /\ rows[home].table = table /\ At(rows, above[m]) = home
  BY <1>2, <1>8 DEF IdsIn
<1>10. \A k \in 0..(m - 1) :
         /\ At(rows, above[k]) # None
         /\ TableAt(rows, above[k]) # table
  BY <1>2, <1>3, <1>8 DEF TableAt
<1>11. m \in Found(rows, index, key, table)
  <2>1. \A k \in 1..m : k \in 0..(m - 1) \/ k = m
    BY <1>1
  <2>2. TableAt(rows, above[m]) = table
    BY <1>2, <1>9 DEF TableAt
  <2> QED
    BY <1>1, <1>2, <1>9, <1>10, <2>1, <2>2 DEF Found, above
<1>12. ASSUME NEW k \in Found(rows, index, key, table)
       PROVE  m <= k
  <2>1. k \in 0..N /\ k > 0 /\ TableAt(rows, above[k]) = table
    BY <1>1, <1>12 DEF Found, above
  <2> QED
    BY <1>1, <1>10, <2>1
<1>13. AncestorIn(rows, index, key, table) = At(rows, above[m])
  BY <1>1, <1>11, <1>12, AncestorIs DEF above
<1> QED
  BY <1>9, <1>13 DEF key, table
LEMMA FaithfulGrows ==
  ASSUME IInv, step = "sealed", Faithful
  PROVE  Grown(input.rows, Truth.index)
<1> DEFINE rows == input.rows
           index == Truth.index
<1>1. ReferencesHold(rows, input.values) /\ Proper(rows) /\ IsFiniteSet(DOMAIN index)
  BY InputsAreRead DEF IInv, StagingOK, HeldOK, Proper, Truth
<1>2. /\ Forest(index) /\ IndexIsSound(rows)
      /\ {SourceKey(rows[x]) : x \in DOMAIN rows} = DOMAIN index
      /\ \A x \in DOMAIN rows : Describes(rows, x)
  BY DEF Faithful
<1>3. ASSUME NEW x \in DOMAIN rows
      PROVE  LET row == rows[x]
                 parent == index[SourceKey(row)]
             IN  /\ row.up # None =>
                      /\ row.up \in IdsIn(rows, row.table)
                      /\ SourceKey(rows[row.up]) = parent
                 /\ row.table \in {"records", "comments"} =>
                      IF row.up # None THEN row.home = rows[row.up].home
                      ELSE /\ row.home \in IdsIn(rows, HomeTable[row.table])
                           /\ SourceKey(rows[row.home]) = parent
  <2> DEFINE row == rows[x]
  <2>1. /\ row.up = None \/ row.up \in IdsIn(rows, row.table)
        /\ row.table \in DOMAIN HomeTable =>
             row.home \in IdsIn(rows, HomeTable[row.table])
        /\ row.up # None => row.table \in {"containers", "records", "comments"}
        /\ None \notin DOMAIN rows
    BY <1>1 DEF ReferencesHold, Proper
  <2>2. row.table \in {"records", "comments"} \/ row.up # None => HangsRight(rows, x)
    BY <1>2, <2>1 DEF Describes, Tree
  <2>3. HangsRight(rows, x) =>
          /\ ParentKey(rows, x) = index[SourceKey(row)]
          /\ row.table \in {"records", "comments"} /\ row.up # None =>
               row.home = rows[row.up].home
    BY DEF HangsRight
  <2>4. {"records", "comments"} \subseteq DOMAIN HomeTable
    BY DEF HomeTable
  <2>5. /\ row.up # None => ParentKey(rows, x) = SourceKey(rows[row.up])
        /\ row.up = None /\ row.home # None =>
             ParentKey(rows, x) = SourceKey(rows[row.home])
    BY DEF ParentKey
  <2> HIDE DEF rows, index
  <2> QED
    BY <2>1, <2>2, <2>3, <2>4, <2>5 DEF IdsIn
<1>4. Seen(rows, index)
  BY <1>3 DEF Seen
<1> QED
  BY <1>1, <1>2, <1>4 DEF Grown

LEMMA FaithfulLinks ==
  ASSUME IInv, step = "sealed", Faithful, NEW key \in DOMAIN Truth.index,
         At(input.rows, key) # None
  PROVE  Linked(input.rows, Truth.index, key)
<1> DEFINE rows == input.rows
           index == Truth.index
           i == At(rows, key)
           row == rows[i]
           up == index[key]
           parent == IF up = None THEN None ELSE At(rows, up)
           over == IF parent = None THEN None ELSE rows[parent].table
<1>1. Grown(rows, index)
  BY FaithfulGrows
<1>2. /\ i \in DOMAIN rows /\ SourceKey(row) = key
      /\ \A x \in DOMAIN rows : At(rows, SourceKey(rows[x])) = x
      /\ None \notin DOMAIN rows
      /\ \A x \in DOMAIN rows : SourceKey(rows[x]) # None
  BY <1>1, AtIs DEF Grown, Proper
<1>3. Describes(rows, i)
  BY <1>2 DEF Faithful
<1>4. /\ row.up = None \/ row.up \in IdsIn(rows, row.table)
      /\ row.table \in DOMAIN HomeTable =>
           row.home \in IdsIn(rows, HomeTable[row.table])
      /\ row.table \notin {"containers", "records", "comments"} => row.up = None
  BY <1>1, <1>2 DEF IInv, StagingOK, ReferencesHold, Grown, Proper
<1>5. up # None => parent # None
  <2> SUFFICES ASSUME up # None PROVE parent # None
    OBVIOUS
  <2>1. up \in DOMAIN index
    BY <1>1 DEF Grown, Forest
  <2>2. PICK x \in DOMAIN rows : SourceKey(rows[x]) = up
    BY <1>1, <2>1 DEF Grown
  <2> QED
    BY <1>2, <2>2
<1>6. ASSUME NEW x \in DOMAIN rows, SourceKey(rows[x]) = up
      PROVE  parent = x /\ over = rows[x].table
  BY <1>2, <1>6
<1>7. HangsRight(rows, i) =>
        /\ row.up # None => parent = row.up /\ over = row.table
        /\ row.up = None /\ row.table \in DOMAIN HomeTable =>
             parent = row.home /\ over = HomeTable[row.table]
  <2> SUFFICES ASSUME HangsRight(rows, i)
               PROVE  /\ row.up # None => parent = row.up /\ over = row.table
                      /\ row.up = None /\ row.table \in DOMAIN HomeTable =>
                           parent = row.home /\ over = HomeTable[row.table]
    OBVIOUS
  <2>1. ParentKey(rows, i) = up
    BY <1>2 DEF HangsRight
  <2>2. CASE row.up # None
    <3>1. row.up \in DOMAIN rows /\ rows[row.up].table = row.table
      BY <1>4, <2>2 DEF IdsIn
    <3>2. SourceKey(rows[row.up]) = up
      BY <2>1, <2>2 DEF ParentKey
    <3> QED
      BY <1>6, <2>2, <3>1, <3>2
  <2>3. CASE row.up = None /\ row.table \in DOMAIN HomeTable
    <3>1. /\ row.home \in DOMAIN rows /\ row.home # None
          /\ rows[row.home].table = HomeTable[row.table]
      BY <1>2, <1>4, <2>3 DEF IdsIn
    <3>2. SourceKey(rows[row.home]) = up
      BY <2>1, <2>3, <3>1 DEF ParentKey
    <3> QED
      BY <1>6, <2>3, <3>1, <3>2
  <2> QED
    BY <2>2, <2>3
<1>8. row.table \in {"records", "comments"} =>
        row.home = AncestorIn(rows, index, key, HomeTable[row.table])
  BY <1>1, <1>2, AncestorIsHome
<1>9. /\ row.table = "workspaces" => up = None
      /\ row.table = "containers" =>
           HangsRight(rows, i) \/ (row.up = None /\ up = None)
      /\ row.table \in Tree => HangsRight(rows, i)
  BY <1>2, <1>3 DEF Describes
<1> HIDE DEF rows, index, i, row, up, parent, over
<1>10. /\ HomeTable["containers"] = "workspaces"
       /\ HomeTable["collections"] = "containers"
       /\ HomeTable["records"] = "collections"
       /\ HomeTable["comments"] = "records"
       /\ HomeTable["attachments"] = "records"
       /\ DOMAIN HomeTable = {"containers", "collections", "records", "comments",
                              "attachments"}
  BY DEF HomeTable
<1>11. up = None => parent = None
  BY DEF parent
<1>12. /\ row.table = "workspaces" => parent = None
       /\ row.table = "containers" =>
            \/ parent = None /\ row.up = None
            \/ over = "workspaces" /\ row.up = None /\ row.home = parent
            \/ over = "containers" /\ row.up = parent
       /\ row.table = "collections" => over = "containers" /\ row.home = parent
       /\ row.table = "records" =>
            \/ over = "collections" /\ row.up = None /\ row.home = parent
            \/ /\ over = "records" /\ row.up = parent
               /\ row.home = AncestorIn(rows, index, key, "collections")
       /\ row.table = "comments" =>
            \/ over = "records" /\ row.up = None /\ row.home = parent
            \/ /\ over = "comments" /\ row.up = parent
               /\ row.home = AncestorIn(rows, index, key, "records")
       /\ row.table = "attachments" => over = "records" /\ row.home = parent
  <2>1. CASE row.up = None
    BY <1>4, <1>7, <1>9, <1>10, <1>11, <2>1 DEF Tree
  <2>2. CASE row.up # None
    BY <1>4, <1>7, <1>8, <1>9, <1>10, <1>11, <2>2 DEF Tree
  <2> QED
    BY <2>1, <2>2
<1> QED
  BY <1>5, <1>12 DEF Linked, rows, index, i, row, up, parent, over
(* What was built and left alone, file by file.                            *)
LEMMA Built ==
  ASSUME IInv, step = "sealed", damage = 0
  PROVE  /\ DOMAIN disk = {Db, Schema, Sealed} \cup {Control, Response} \cup Binaries
         /\ \A p \in {Db, Schema, Sealed, Control, Response} : disk[p].intact
         /\ disk[Db].data = Database /\ disk[Control].data = input.evidence
         /\ \A a \in Retrieved(held) : disk[Binary(a)] = Bytes[a]
         /\ SealOK(disk[Sealed].data)
         /\ StructureCheck(disk) = "PASS"
         /\ FileInventoryCheck(disk, disk[Sealed].data) = "PASS"
         /\ FileChecksumsCheck(disk, disk[Sealed].data) = "PASS"
<1>1. IsArchive(disk)
  BY DEF IInv, DiskOK
<1>2. /\ DOMAIN disk = {Db, Schema, Sealed} \cup {Control, Response} \cup Binaries
      /\ \A p \in DOMAIN disk \ {Sealed} : disk[p] = Content(p)
      /\ SealOK(disk[Sealed].data)
      /\ disk[Sealed] = File(disk[Sealed].data, 1)
  BY <1>1 DEF IsArchive, Holds
<1>3. \A a \in Retrieved(held) : disk[Binary(a)] = Bytes[a]
  BY <1>2, Paths, Contents DEF Binaries
<1>4. /\ disk[Db] = File(Database, 1) /\ disk[Schema] = File("schema", 1)
      /\ disk[Control] = File(input.evidence, 1)
      /\ disk[Response] = File("answers", 1)
  BY <1>2, Paths, Contents
<1>5. \A p \in {Db, Schema, Sealed, Control, Response} : disk[p].intact
  BY <1>2, <1>4 DEF File
<1>6. disk[Db].data = Database /\ disk[Control].data = input.evidence
  BY <1>4 DEF File
<1>7. disk \notin {Absent, Foreign}
  BY <1>2, Names DEF Absent
<1>8. ~(damage > 0)
  OBVIOUS
<1>9. /\ StructureCheck(disk) = "PASS"
      /\ FileInventoryCheck(disk, disk[Sealed].data) = "PASS"
      /\ FileChecksumsCheck(disk, disk[Sealed].data) = "PASS"
  BY <1>7, <1>8, WholeTarget DEF TargetIsWhole
<1> QED
  BY <1>2, <1>3, <1>5, <1>6, <1>9

(* The capabilities that the builder settled.                              *)
LEMMA Settled ==
  ASSUME IInv, Faithful
  PROVE  LET caps == ObservedCapabilities
         IN  /\ CapabilitiesAgree(Truth.caps, caps)
             /\ DOMAIN caps # {}
             /\ \A id \in DOMAIN caps : caps[id].requirement = "REQUIRED"
<1> DEFINE raw == Truth.caps
           caps == ObservedCapabilities
           ac == AttachmentContent
<1>1. /\ DOMAIN raw # {}
      /\ \A id \in DOMAIN raw :
           /\ raw[id].requirement = "REQUIRED"
           /\ id = ac => raw[id].availability = "UNKNOWN"
           /\ DOMAIN raw[id] = {"requirement", "implementation", "availability"}
  BY InputsAreRead DEF Faithful, Truth, IInv, HeldOK
<1>2. PICK seen : caps = IF ac \in DOMAIN raw
                           THEN [raw EXCEPT ![ac].availability = seen] ELSE raw
  BY DEF ObservedCapabilities, Truth
<1> HIDE DEF raw, caps, ac
<1>3. /\ DOMAIN caps = DOMAIN raw
      /\ \A id \in DOMAIN raw :
           caps[id] = IF id = ac THEN [raw[id] EXCEPT !.availability = seen]
                                 ELSE raw[id]
  BY <1>2
<1>4. ASSUME NEW id \in DOMAIN raw
      PROVE  /\ caps[id].requirement = raw[id].requirement
             /\ caps[id].implementation = raw[id].implementation
             /\ raw[id].availability \in {"UNKNOWN", caps[id].availability}
  <2>1. CASE id = ac
    BY <1>1, <1>3, <2>1
  <2>2. CASE id # ac
    BY <1>3, <2>2
  <2> QED
    BY <2>1, <2>2
<1> QED
  BY <1>1, <1>3, <1>4 DEF CapabilitiesAgree, raw, caps

LEMMA FaithfulManifest ==
  ASSUME IInv, Faithful, NEW m, SealOK(m)
  PROVE  ManifestStands(m) /\ RawEvidenceCheck(input.evidence, m) = "PASS"
<1> DEFINE caps == ObservedCapabilities
<1>1. /\ CapabilitiesAgree(Truth.caps, caps) /\ DOMAIN caps # {}
      /\ \A id \in DOMAIN caps : caps[id].requirement = "REQUIRED"
  BY Settled
<1>2. /\ m.caps = caps /\ m.health = AggregateHealth(caps)
      /\ m.status = ArchiveStatus(held, caps) /\ m.digest = Digest(input.evidence)
  BY DEF SealOK
<1> HIDE DEF caps
<1>3. ASSUME RequiredAvailable(caps)
      PROVE  AggregateHealth(caps) = "HEALTHY"
  <2> DEFINE scoped(id) == IF /\ caps[id].requirement = "OPTIONAL"
                              /\ CapabilityHealth(caps[id]) = "UNAVAILABLE"
                             THEN "DEGRADED" ELSE CapabilityHealth(caps[id])
             states == {scoped(id) : id \in DOMAIN caps}
  <2>1. \A id \in DOMAIN caps : CapabilityHealth(caps[id]) = "HEALTHY"
    BY <1>1, <1>3 DEF RequiredAvailable, CapabilityHealth
  <2>2. states = {"HEALTHY"}
    BY <1>1, <2>1
  <2>3. Severity["HEALTHY"] = 0
    BY DEF Severity
  <2>4. (CHOOSE s \in {"HEALTHY"} :
           \A t \in {"HEALTHY"} : Severity[t] <= Severity[s]) = "HEALTHY"
    BY <2>3
  <2>5. AggregateHealth(caps) =
          IF states = {} THEN "UNKNOWN"
          ELSE CHOOSE s \in states : \A t \in states : Severity[t] <= Severity[s]
    BY DEF AggregateHealth
  <2> HIDE DEF states
  <2> QED
    BY <2>2, <2>4, <2>5
<1>4. ManifestStands(m)
  BY <1>2, <1>3 DEF ManifestStands, ArchiveStatus
<1>5. RawEvidenceCheck(input.evidence, m) = "PASS"
  BY <1>1, <1>2 DEF RawEvidenceCheck, PassIf, Truth
<1> QED
  BY <1>4, <1>5

(* The attachments are all or not all there, and the check says which.     *)
LEMMA BuiltAttachments ==
  ASSUME IInv, step = "sealed", damage = 0
  PROVE  AttachmentCheck(disk, disk[Sealed].data, disk[Db].data) =
           IF \E a \in DOMAIN held : held[a].status # "RETRIEVED"
             THEN "INCOMPLETE" ELSE "PASS"
<1> DEFINE m == disk[Sealed].data
           b == disk[Db].data
<1>1. /\ m.held = held /\ b.held = held
      /\ Holds(m.files, {Db, Schema})
  BY Built DEF SealOK, Database
<1> HIDE DEF m, b
<1>2. \A a \in DOMAIN held :
        /\ held[a].status \in {"RETRIEVED", "UNRESOLVED"}
        /\ held[a].status = "RETRIEVED" =>
             held[a].bytes = Bytes[a] /\ held[a].expected \in {None, Bytes[a].size}
        /\ held[a].status = "UNRESOLVED" => held[a].bytes = None
        /\ Bytes[a] # None
  BY InputsAreRead, BytesAreWhole DEF IInv, HeldOK, StagingOK
<1>3. ASSUME NEW a \in DOMAIN held
      PROVE  BinaryStands(disk, m, a, held[a])
  <2>1. CASE held[a].status = "UNRESOLVED"
    BY <1>2, <2>1 DEF BinaryStands
  <2>2. CASE held[a].status = "RETRIEVED"
    <3>1. a \in Retrieved(held)
      BY <2>2 DEF Retrieved
    <3>2. Binary(a) \in DOMAIN disk /\ disk[Binary(a)] = Bytes[a]
      BY <3>1, Built DEF Binaries
    <3>3. Binary(a) \in DOMAIN m.files => m.files[Binary(a)] = Bytes[a]
      BY <1>1, Paths, Contents DEF Holds
    <3> QED
      BY <1>2, <2>2, <3>2, <3>3 DEF BinaryStands
  <2> QED
    BY <1>2, <2>1, <2>2
<1>4. ASSUME NEW p \in DOMAIN disk, p[1] = "attachments"
      PROVE  \E a \in DOMAIN held : p = Binary(a) /\ held[a].status = "RETRIEVED"
  <2>1. \A q \in {Db, Schema, Sealed, Control, Response} : q[1] # "attachments"
    BY DEF Db, Schema, Sealed, Control, Response
  <2>2. p \in Binaries
    BY <1>4, <2>1, Built
  <2> QED
    BY <2>2 DEF Binaries, Retrieved
<1>5. (\E a \in DOMAIN held : held[a].status = "UNRESOLVED")
        <=> (\E a \in DOMAIN held : held[a].status # "RETRIEVED")
  BY <1>2
<1> QED
  BY <1>1, <1>3, <1>4, <1>5 DEF AttachmentCheck, m, b
LEMMA FaithfulDatabase ==
  ASSUME IInv, step = "sealed", Faithful, NEW m, SealOK(m)
  PROVE  /\ MetadataCheck(Database, m) = "PASS"
         /\ IdentifierCheck(Database) = "PASS"
         /\ ReferenceCheck(Database) = "PASS"
         /\ CustomFieldCheck(Database) \in {"PASS", "UNPROVEN"}
         /\ DiscrepancyCheck(Database, m) = "PASS"
         /\ LimitationCheck(m) \in {"PASS", "UNPROVEN"}
<1> DEFINE rows == input.rows
           b == Database
<1>1. /\ b.rows = rows /\ b.values = input.values /\ b.held = held
      /\ b.status = m.status /\ b.digest = m.digest
      /\ m.discrepancies = Discrepancies(rows, held)
      /\ m.caps = ObservedCapabilities
  BY DEF Database, SealOK
<1> HIDE DEF rows, b
<1>2. Grown(rows, Truth.index) /\ ReferencesHold(rows, input.values)
  BY FaithfulGrows DEF IInv, StagingOK, rows
<1>3. /\ Cardinality(IdsIn(rows, "workspaces")) = 1
      /\ \A x \in DOMAIN rows : Describes(rows, x)
      /\ \A v \in input.values : v.verdict # "INVALID"
  BY DEF Faithful, rows
<1>4. MetadataCheck(b, m) = "PASS"
  BY <1>1, <1>3 DEF MetadataCheck, PassIf
<1>5. IdentifierCheck(b) = "PASS"
  BY <1>1, <1>3 DEF IdentifierCheck, PassIf, Describes
<1>6. ReferenceCheck(b) = "PASS"
  <2>1. \A x \in DOMAIN rows : ChainEnds(rows, x)
    BY <1>2, ChainsEnd
  <2>2. \A x \in IdsIn(rows, "relationships") : RelationshipStands(rows, rows[x])
    BY <1>3 DEF Describes, IdsIn
  <2> QED
    BY <1>1, <1>2, <2>1, <2>2 DEF ReferenceCheck, PassIf, Grown
<1>7. CustomFieldCheck(b) \in {"PASS", "UNPROVEN"}
  <2>1. \A v \in input.values : v.field \in DOMAIN rows
    BY <1>2 DEF ReferencesHold, IdsIn
  <2> QED
    BY <1>1, <1>3, <2>1 DEF CustomFieldCheck
<1>8. DiscrepancyCheck(b, m) = "PASS"
  BY <1>1 DEF DiscrepancyCheck, PassIf
<1>9. LimitationCheck(m) \in {"PASS", "UNPROVEN"}
  <2>1. m.caps # <<>>
    BY <1>1, Settled
  <2> QED
    BY <2>1 DEF LimitationCheck
<1> QED
  BY <1>4, <1>5, <1>6, <1>7, <1>8, <1>9 DEF b

LEMMA FaithfulEvidence ==
  ASSUME IInv, step = "sealed", damage = 0, Faithful, NEW m, SealOK(m)
  PROVE  /\ SourceObjectCheck(Database, input.evidence) = "PASS"
         /\ HierarchyCheck(Database, input.evidence) = "PASS"
         /\ RawPathCheck(disk, Database) = "PASS"
         /\ CountCheck(Database, m, input.evidence) = "PASS"
<1>1. Database.rows = input.rows /\ Database.held = held
  BY DEF Database
<1>2. SourceObjectCheck(Database, input.evidence) = "PASS"
  BY <1>1, FaithfulGrows DEF SourceObjectCheck, PassIf, Grown, Truth
<1>3. HierarchyCheck(Database, input.evidence) = "PASS"
  BY <1>1, FaithfulLinks DEF HierarchyCheck, PassIf, Truth
<1>4. RawPathCheck(disk, Database) = "PASS"
  <2>1. \A x \in DOMAIN input.rows : input.rows[x].raw \in {Control, Response}
    BY DEF Faithful, Describes
  <2>2. Control[1] = "raw" /\ Response[1] = "raw" /\ {Control, Response} \subseteq DOMAIN disk
    BY Built DEF Control, Response
  <2> QED
    BY <1>1, <2>1, <2>2 DEF RawPathCheck, PassIf
<1>5. CountCheck(Database, m, input.evidence) = "PASS"
  <2>1. Validates(input)
    BY DEF IInv, StagingOK
  <2> QED
    BY <1>1, <2>1 DEF CountCheck, PassIf, Validates, SealOK
<1> QED
  BY <1>2, <1>3, <1>4, <1>5

(* Every check that a verifier makes, when nothing is missing or unread.   *)
LEMMA AllChecked ==
  ASSUME NEW d,
         {Sealed, Db, Control, Response, Schema} \subseteq DOMAIN d,
         \A p \in {Sealed, Db, Control, Response, Schema} : d[p].intact,
         NEW m, m = d[Sealed].data, NEW b, b = d[Db].data,
         NEW e, e = d[Control].data,
         ManifestStands(m), RawEvidenceCheck(e, m) = "PASS"
  PROVE  LET c == Verify(d)
         IN  /\ {"attachment_integrity", "access_scope"} \subseteq DOMAIN c
             /\ c["attachment_integrity"] = AttachmentCheck(d, m, b)
             /\ c["access_scope"] = "UNPROVEN"
             /\ \A name \in DOMAIN c \ {"attachment_integrity", "access_scope"} :
                  c[name] \in
                    {"PASS", StructureCheck(d), FileInventoryCheck(d, m),
                     FileChecksumsCheck(d, m), MetadataCheck(b, m),
                     IdentifierCheck(b), ReferenceCheck(b), CustomFieldCheck(b),
                     DiscrepancyCheck(b, m), SourceObjectCheck(b, e),
                     HierarchyCheck(b, e), RawPathCheck(d, b),
                     CountCheck(b, m, e), LimitationCheck(m)}
<1>1. EvidenceLoads(d) /\ SchemaCheck(d) = "PASS"
  BY DEF EvidenceLoads, SchemaCheck, PassIf
<1> QED
  BY <1>1 DEF Verify, PassIf

(* The verification of what was built of a faithful extraction passes, and *)
(* says of it that it is incomplete exactly when an attachment could not   *)
(* be had (archive.Build against verify.Archive).                          *)
THEOREM FaithfulVerified == Spec => []FaithfulIsVerified
<1>1. IInv => FaithfulIsVerified
  <2> SUFFICES ASSUME IInv, step = "sealed", damage = 0, Faithful
               PROVE  Result(Verify(disk)) =
                        IF \E a \in DOMAIN held : held[a].status # "RETRIEVED"
                          THEN "INCOMPLETE" ELSE "VERIFIED_WITH_LIMITATIONS"
    BY DEF FaithfulIsVerified
  <2> DEFINE c == Verify(disk)
             statuses == {c[name] : name \in DOMAIN c}
             others == DOMAIN c \ {"attachment_integrity", "access_scope"}
             missing == \E a \in DOMAIN held : held[a].status # "RETRIEVED"
  <2>1. PICK m : m = disk[Sealed].data
    OBVIOUS
  <2>2. /\ SealOK(m) /\ disk[Db].data = Database /\ disk[Control].data = input.evidence
        /\ {Sealed, Db, Control, Response, Schema} \subseteq DOMAIN disk
        /\ \A p \in {Sealed, Db, Control, Response, Schema} : disk[p].intact
    BY <2>1, Built
  <2>3. ManifestStands(m) /\ RawEvidenceCheck(input.evidence, m) = "PASS"
    BY <2>2, FaithfulManifest
  <2>4. /\ {"attachment_integrity", "access_scope"} \subseteq DOMAIN c
        /\ c["attachment_integrity"] = AttachmentCheck(disk, m, Database)
        /\ c["access_scope"] = "UNPROVEN"
        /\ \A name \in others :
             c[name] \in
               {"PASS", StructureCheck(disk), FileInventoryCheck(disk, m),
                FileChecksumsCheck(disk, m), MetadataCheck(Database, m),
                IdentifierCheck(Database), ReferenceCheck(Database),
                CustomFieldCheck(Database), DiscrepancyCheck(Database, m),
                SourceObjectCheck(Database, input.evidence),
                HierarchyCheck(Database, input.evidence),
                RawPathCheck(disk, Database),
                CountCheck(Database, m, input.evidence), LimitationCheck(m)}
    BY <2>1, <2>2, <2>3, AllChecked
  <2>5. \A name \in others : c[name] \in {"PASS", "UNPROVEN"}
    BY <2>1, <2>2, <2>4, Built, FaithfulDatabase, FaithfulEvidence
  <2>6. c["attachment_integrity"] = IF missing THEN "INCOMPLETE" ELSE "PASS"
    BY <2>1, <2>2, <2>4, BuiltAttachments
  <2> HIDE DEF c, missing
  <2>7. /\ {"FAIL", "NOT_EVALUATED"} \intersect statuses = {}
        /\ "UNPROVEN" \in statuses
        /\ "INCOMPLETE" \in statuses <=> missing
    <3>1. \A s \in statuses : s \in {"PASS", "UNPROVEN"} \/ s = c["attachment_integrity"]
      BY <2>4, <2>5
    <3>2. c["attachment_integrity"] \in statuses /\ c["access_scope"] \in statuses
      BY <2>4
    <3> QED
      BY <2>4, <2>6, <3>1, <3>2
  <2>8. Result(c) = IF missing THEN "INCOMPLETE" ELSE "VERIFIED_WITH_LIMITATIONS"
    BY <2>7 DEF Result
  <2> QED
    BY <2>8 DEF c, missing
<1> QED
  BY <1>1, Invariance, PTL
=============================================================================
