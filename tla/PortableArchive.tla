---------------------------- MODULE PortableArchive ----------------------------
(***************************************************************************)
(* A portable archive and its independent verification (internal/archive,  *)
(* internal/verify): what an archive directory holds, the checks a         *)
(* verifier makes of it with nothing but the directory, and the result     *)
(* they add up to.  Its writer is ArchiveBuild; what a recovery report     *)
(* draws from the checks is in RecoveryReport.                             *)
(*                                                                         *)
(* A row of the database is a record                                       *)
(*    [table, kind, type, src, up, home, ends, raw]                        *)
(* with its source identity (type and src), the pointer to its parent in   *)
(* its own table (up), to the row it belongs to (home: a container's       *)
(* Workspace, a collection's container, a record's collection, the record  *)
(* of a comment or attachment), a relationship's two ends, and the raw     *)
(* answer it was read from.  rows is a function on portable identifiers;   *)
(* PortableID, a SHA-256, is taken to be injective.                        *)
(*                                                                         *)
(* A file is [data, intact, size].  A checksum stands for the whole file.  *)
(* A directory is a function on paths; <<>>, without any path, is absent.  *)
(***************************************************************************)
EXTENDS Integers, Sequences, FiniteSets

CONSTANTS
  None,
  Reads      (* whether the verifier knows the connector's field values    *)

Absent == <<>>

Db == <<"alih.db">>
Schema == <<"schema.json">>
Sealed == <<"manifest.json">>
Control == <<"raw", "control">>
Response == <<"raw", "response">>
Binary(id) == <<"attachments", id>>

Required == {Db, Schema, Sealed}

-----------------------------------------------------------------------------
(* Rows.                                                                   *)

PortableID(row) == <<row.type, row.src>>

(* A record is indexed by its kind, everything else by its source type.    *)
SourceKey(row) ==
  <<IF row.table = "records" THEN row.kind ELSE row.type, row.src>>

IdsIn(rows, table) == {i \in DOMAIN rows : rows[i].table = table}

(* The tables whose rows are objects of the index.                         *)
ObjectTables == {"workspaces", "containers", "collections", "records", "comments",
                 "attachments", "relationships", "field_definitions"}

HomeTable == [containers |-> "workspaces", collections |-> "containers",
              records |-> "collections", comments |-> "records",
              attachments |-> "records"]

(* The number of rows of each kind, and of nested records.                 *)
Tally(rows, kinds) ==
  [k \in kinds |-> Cardinality({i \in DOMAIN rows : rows[i].kind = k})]

Nested(rows) ==
  Cardinality({i \in IdsIn(rows, "records") : rows[i].up # None})

(* Every pointer of the database leads to a row of the right table.        *)
ReferencesHold(rows, values) ==
  /\ \A i \in DOMAIN rows :
       LET row == rows[i]
       IN  /\ row.up = None \/ row.up \in IdsIn(rows, row.table)
           /\ row.table \in DOMAIN HomeTable =>
                row.home \in IdsIn(rows, HomeTable[row.table])
           /\ row.table = "relationships" =>
                /\ row.ends.from \in IdsIn(rows, "records") \union {None}
                /\ row.ends.to \in IdsIn(rows, "records") \union {None}
  /\ \A v \in values :
       /\ v.record \in IdsIn(rows, "records")
       /\ v.field \in IdsIn(rows, "field_definitions")

(* The UNIQUE constraint of every table.                                   *)
SourcesUnique(rows) ==
  \A i, j \in DOMAIN rows :
    /\ rows[i].table = rows[j].table
    /\ rows[i].type = rows[j].type /\ rows[i].src = rows[j].src
    => i = j

(* The chain of parents of a row ends.                                     *)
ChainEnds(rows, i) ==
  LET up[n \in 0..Cardinality(DOMAIN rows)] ==
        IF n = 0 THEN i
        ELSE LET below == up[n - 1]
             IN  IF below \in DOMAIN rows THEN rows[below].up ELSE None
  IN  up[Cardinality(DOMAIN rows)] = None

(* A relationship says RESOLVED exactly when both of its ends are records  *)
(* of the archive, and then it points at them.                             *)
EndResolves(rows, src, pointer) ==
  LET there == {i \in IdsIn(rows, "records") : rows[i].src = src}
  IN  IF there = {} THEN pointer = None ELSE pointer \in there

RelationshipStands(rows, row) ==
  LET known == {rows[i].src : i \in IdsIn(rows, "records")}
      ends == row.ends
  IN  /\ EndResolves(rows, ends.fromSrc, ends.from)
      /\ EndResolves(rows, ends.toSrc, ends.to)
      /\ ends.state = IF {ends.fromSrc, ends.toSrc} \subseteq known
                        THEN "RESOLVED" ELSE "UNRESOLVED"

-----------------------------------------------------------------------------
(* Capabilities and health.                                                *)

AttachmentContent == "attachment_content"

CapabilityHealth(capability) ==
  CASE capability.availability = "AVAILABLE" -> "HEALTHY"
    [] capability.availability \in {"FAILED", "UNAVAILABLE"} -> "UNAVAILABLE"
    [] OTHER -> "UNKNOWN"

Severity == [HEALTHY |-> 0, UNKNOWN |-> 1, DEGRADED |-> 2, UNAVAILABLE |-> 3]

(* A required capability that is unavailable dominates; an optional one    *)
(* degrades.                                                               *)
AggregateHealth(caps) ==
  LET scoped(id) ==
        IF /\ caps[id].requirement = "OPTIONAL"
           /\ CapabilityHealth(caps[id]) = "UNAVAILABLE"
          THEN "DEGRADED" ELSE CapabilityHealth(caps[id])
      states == {scoped(id) : id \in DOMAIN caps}
  IN  IF states = {} THEN "UNKNOWN"
      ELSE CHOOSE s \in states :
             \A t \in states : Severity[t] <= Severity[s]

(* The manifest may only settle what the extraction left UNKNOWN.          *)
CapabilitiesAgree(raw, sealed) ==
  /\ DOMAIN raw = DOMAIN sealed
  /\ \A id \in DOMAIN raw :
       /\ raw[id].requirement = sealed[id].requirement
       /\ raw[id].implementation = sealed[id].implementation
       /\ raw[id].availability \in {"UNKNOWN", sealed[id].availability}

RequiredAvailable(caps) ==
  \A id \in DOMAIN caps :
    caps[id].requirement = "REQUIRED" => caps[id].availability = "AVAILABLE"

ArchiveStatus(held, caps) ==
  IF /\ \A a \in DOMAIN held : held[a].status = "RETRIEVED"
     /\ RequiredAvailable(caps)
    THEN "CREATED_UNVERIFIED" ELSE "INCOMPLETE"

(* What the manifest has to disclose.                                      *)
Discrepancies(rows, held) ==
  {<<"ATTACHMENT_UNRESOLVED", a>> :
     a \in {b \in DOMAIN held : held[b].status # "RETRIEVED"}}
  \union
  {<<"RELATIONSHIP_UNRESOLVED", i>> :
     i \in {j \in IdsIn(rows, "relationships") :
              rows[j].ends.state # "RESOLVED"}}

-----------------------------------------------------------------------------
(* The checks, each of the archive directory d and, where it reads them,   *)
(* of its manifest m, its database b and its raw evidence e.               *)

PassIf(holds) == IF holds THEN "PASS" ELSE "FAIL"

StructureCheck(d) == PassIf(Required \union {Control} \subseteq DOMAIN d)

(* A clean construction needs every required capability and good health.   *)
ManifestStands(m) ==
  /\ m.status \in {"CREATED_UNVERIFIED", "INCOMPLETE"}
  /\ m.status = "CREATED_UNVERIFIED" =>
       /\ RequiredAvailable(m.caps)
       /\ m.health \in {None, "HEALTHY"}

FileInventoryCheck(d, m) == PassIf(DOMAIN m.files = DOMAIN d \ {Sealed})

FileChecksumsCheck(d, m) ==
  PassIf(\A p \in DOMAIN m.files \intersect DOMAIN d : m.files[p] = d[p])

(* The logical inventory digest.                                           *)
Digest(e) == [index |-> e.index, tally |-> e.tally, nested |-> e.nested]

(* snapshot.LoadComplete: control files and raw answers, with checksums.   *)
EvidenceLoads(d) ==
  /\ {Control, Response} \subseteq DOMAIN d
  /\ d[Control].intact /\ d[Response].intact

RawEvidenceCheck(e, m) ==
  PassIf(/\ Digest(e) = m.digest
         /\ CapabilitiesAgree(e.caps, m.caps))

SchemaCheck(d) == PassIf(Schema \in DOMAIN d /\ d[Schema].intact)

MetadataCheck(b, m) ==
  PassIf(/\ b.status = m.status
         /\ b.digest = m.digest
         /\ Cardinality(IdsIn(b.rows, "workspaces")) = 1)

IdentifierCheck(b) ==
  PassIf(\A i \in DOMAIN b.rows :
           /\ i = PortableID(b.rows[i])
           /\ b.rows[i].table = "containers" =>
                b.rows[i].kind = b.rows[i].type)

(* No source object is archived twice.                                     *)
IndexIsSound(rows) ==
  \A i, j \in DOMAIN rows : SourceKey(rows[i]) = SourceKey(rows[j]) => i = j

ReferenceCheck(b) ==
  PassIf(/\ IndexIsSound(b.rows)
         /\ ReferencesHold(b.rows, b.values)
         /\ \A i \in DOMAIN b.rows : ChainEnds(b.rows, i)
         /\ \A i \in IdsIn(b.rows, "relationships") :
              RelationshipStands(b.rows, b.rows[i]))

(* Bug: the size of a binary is compared, not its checksum.                *)
BinaryStandsBySize(d, m, a, held) ==
  IF held.status = "UNRESOLVED"
    THEN held.bytes = None
    ELSE Binary(a) \in DOMAIN d /\ d[Binary(a)].size = held.bytes.size

(* A binary is where its row says, and is what its row and the manifest    *)
(* say; there is no binary besides.                                        *)
BinaryStands(d, m, a, held) ==
  IF held.status = "UNRESOLVED"
    THEN held.bytes = None
    ELSE /\ held.bytes # None
         /\ Binary(a) \in DOMAIN d
         /\ d[Binary(a)] = held.bytes
         /\ held.expected \in {None, held.bytes.size}
         /\ Binary(a) \in DOMAIN m.files => m.files[Binary(a)] = held.bytes

AttachmentCheck(d, m, b) ==
  IF \/ m.held # b.held
     \/ \E a \in DOMAIN b.held : ~BinaryStands(d, m, a, b.held[a])
     \/ \E p \in DOMAIN d :
          /\ p[1] = "attachments"
          /\ \A a \in DOMAIN b.held :
               p = Binary(a) => b.held[a].status # "RETRIEVED"
    THEN "FAIL"
    ELSE IF \E a \in DOMAIN b.held : b.held[a].status = "UNRESOLVED"
           THEN "INCOMPLETE" ELSE "PASS"

CustomFieldCheck(b) ==
  IF \E v \in b.values :
       \/ v.field \notin DOMAIN b.rows
       \/ Reads /\ v.verdict = "INVALID"
    THEN "FAIL"
    ELSE IF \E v \in b.values : ~Reads \/ v.verdict = "UNPROVEN"
           THEN "UNPROVEN" ELSE "PASS"

DiscrepancyCheck(b, m) ==
  PassIf(m.discrepancies = Discrepancies(b.rows, b.held))

(* The primary check against silent loss: every object of the extraction's *)
(* index is archived, once, and nothing else is.  A relationship, a field  *)
(* and an attachment are objects too; an identity is not.                  *)
SourceObjectCheck(b, e) ==
  PassIf(/\ IndexIsSound(b.rows)
         /\ {SourceKey(b.rows[i]) : i \in DOMAIN b.rows} = DOMAIN e.index)

At(rows, key) ==
  IF \E i \in DOMAIN rows : SourceKey(rows[i]) = key
    THEN CHOOSE i \in DOMAIN rows : SourceKey(rows[i]) = key
    ELSE None

TableAt(rows, key) ==
  IF At(rows, key) = None THEN None ELSE rows[At(rows, key)].table

(* Up the extraction's index: an object, its parent, the parent's parent.  *)
Above(index, key) ==
  LET above[n \in 0..Cardinality(DOMAIN index)] ==
        IF n = 0 THEN key
        ELSE LET below == above[n - 1]
             IN  IF below \in DOMAIN index THEN index[below] ELSE None
  IN  above

(* The first object on the way that is archived in a table.                *)
AncestorIn(rows, index, key, table) ==
  LET above == Above(index, key)
      found == {n \in DOMAIN above :
                  /\ n > 0
                  /\ TableAt(rows, above[n]) = table
                  /\ \A k \in 1..n : At(rows, above[k]) # None}
  IN  IF found = {} THEN None
      ELSE At(rows, above[CHOOSE n \in found : \A k \in found : n <= k])

(* Bug: a nested row is only asked what it is nested in.                   *)
LinkedAbove(rows, index, key) ==
  LET row == rows[At(rows, key)]
      parent == IF index[key] = None THEN None ELSE At(rows, index[key])
  IN  \/ index[key] = None
      \/ row.table \in {"relationships", "field_definitions"}
      \/ parent # None /\ parent \in {row.up, row.home}

(* The pointers of a row are those its object has in the index.            *)
Linked(rows, index, key) ==
  LET row == rows[At(rows, key)]
      parent == IF index[key] = None THEN None ELSE At(rows, index[key])
      over == IF parent = None THEN None ELSE rows[parent].table
  IN  /\ index[key] # None => parent # None
      /\ row.table = "workspaces" => parent = None
      /\ row.table = "containers" =>
           \/ parent = None /\ row.up = None
           \/ over = "workspaces" /\ row.up = None /\ row.home = parent
           \/ over = "containers" /\ row.up = parent
      /\ row.table = "collections" =>
           over = "containers" /\ row.home = parent
      /\ row.table = "records" =>
           \/ over = "collections" /\ row.up = None /\ row.home = parent
           \/ /\ over = "records" /\ row.up = parent
              /\ row.home = AncestorIn(rows, index, key, "collections")
      /\ row.table = "comments" =>
           \/ over = "records" /\ row.up = None /\ row.home = parent
           \/ /\ over = "comments" /\ row.up = parent
              /\ row.home = AncestorIn(rows, index, key, "records")
      /\ row.table = "attachments" => over = "records" /\ row.home = parent

HierarchyCheck(b, e) ==
  PassIf(\A key \in DOMAIN e.index :
           At(b.rows, key) # None => Linked(b.rows, e.index, key))

RawPathCheck(d, b) ==
  PassIf(\A i \in DOMAIN b.rows :
           b.rows[i].raw[1] = "raw" /\ b.rows[i].raw \in DOMAIN d)

(* The extraction's counts, the manifest's, and the rows'.  An attachment  *)
(* that is not there is counted as unresolved.                             *)
Retrieved(held) == {a \in DOMAIN held : held[a].status = "RETRIEVED"}

CountCheck(b, m, e) ==
  PassIf(/\ e.tally = Tally(b.rows, DOMAIN e.tally)
         /\ e.nested = Nested(b.rows)
         /\ m.tally = e.tally
         /\ m.nested = e.nested
         /\ m.archived = Tally(b.rows, DOMAIN e.tally)
         /\ m.retrieved = Cardinality(Retrieved(b.held)))

LimitationCheck(m) ==
  IF m.caps = <<>> THEN "FAIL"
  ELSE IF \E id \in DOMAIN m.caps :
            \/ m.caps[id].implementation # "SUPPORTED"
            \/ m.caps[id].availability # "AVAILABLE"
         THEN "UNPROVEN" ELSE "PASS"

-----------------------------------------------------------------------------
(* The verification.  A check whose evidence cannot be read is not         *)
(* evaluated, which counts as a failure.  What the credential could see    *)
(* (access_scope) and the source's consistency over time cannot be         *)
(* established from an archive: such a check never passes.                 *)

Verify(d) ==
  LET readable == Sealed \in DOMAIN d /\ d[Sealed].intact
      m == d[Sealed].data
      manifest == readable /\ ManifestStands(m)
      database == Db \in DOMAIN d /\ d[Db].intact
      b == d[Db].data
      loads == EvidenceLoads(d)
      e == d[Control].data
      evidence == loads /\ (manifest => RawEvidenceCheck(e, m) = "PASS")
      given(possible, status) == IF possible THEN status ELSE "NOT_EVALUATED"
  IN  [archive_structure     |-> StructureCheck(d),
       manifest_integrity    |-> PassIf(manifest),
       manifest_file_inventory |->
         IF readable THEN FileInventoryCheck(d, m) ELSE "NOT_RUN",
       file_checksums        |-> given(manifest, FileChecksumsCheck(d, m)),
       sqlite_integrity      |-> PassIf(database),
       raw_evidence_integrity |-> PassIf(evidence),
       schema_consistency    |-> given(database, SchemaCheck(d)),
       archive_metadata      |-> given(database /\ manifest, MetadataCheck(b, m)),
       identifier_derivation |-> given(database /\ manifest, IdentifierCheck(b)),
       referential_integrity |-> given(database /\ manifest, ReferenceCheck(b)),
       attachment_integrity  |->
         given(database /\ manifest, AttachmentCheck(d, m, b)),
       custom_field_evidence |-> given(database /\ manifest, CustomFieldCheck(b)),
       discrepancies         |->
         given(database /\ manifest, DiscrepancyCheck(b, m)),
       source_objects        |->
         given(database /\ evidence, SourceObjectCheck(b, e)),
       hierarchy             |-> given(database /\ evidence, HierarchyCheck(b, e)),
       raw_paths             |-> given(database /\ evidence, RawPathCheck(d, b)),
       counts                |->
         given(database /\ manifest /\ evidence, CountCheck(b, m, e)),
       limitations           |-> given(manifest, LimitationCheck(m)),
       access_scope          |-> given(manifest, "UNPROVEN")]

Result(checks) ==
  LET statuses == {checks[name] : name \in DOMAIN checks}
  IN  CASE {"FAIL", "NOT_EVALUATED"} \intersect statuses # {} -> "FAILED"
        [] OTHER -> IF "INCOMPLETE" \in statuses THEN "INCOMPLETE"
                    ELSE IF "UNPROVEN" \in statuses
                           THEN "VERIFIED_WITH_LIMITATIONS" ELSE "VERIFIED"

Clean(d) ==
  Result(Verify(d)) \in {"VERIFIED", "VERIFIED_WITH_LIMITATIONS"}

=============================================================================
