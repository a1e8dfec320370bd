------------------------------ MODULE ArchiveBuild ------------------------------
(***************************************************************************)
(* Building a portable archive (internal/archive.Build).  The archive      *)
(* grows in a staging directory beside its target: raw evidence, one       *)
(* attachment after the other, the database, its schema, the manifest; one *)
(* rename publishes it.  An attachment that cannot be had does not stop    *)
(* the build, any other error does, and what there is then moves aside.    *)
(* The process can be interrupted or killed at any step, another one can   *)
(* take the target's name, a published archive can decay, and its owner    *)
(* can put another one under its name, or the same one again.              *)
(***************************************************************************)
EXTENDS PortableArchive

CONSTANTS
  Inputs,      (* set of [evidence, rows, values, held]: what a connector  *)
               (* can hand over, right or wrong                            *)
  Order,       (* the attachments in the order of their ids                *)
  Bytes,       (* function on attachments: the file at the source          *)
  MaxAttempts, (* maxDownloadAttempts                                      *)
  MaxFaults,   (* bound on refused requests and local failures             *)
  MaxDamage,   (* bound on the times a published archive decays; each      *)
               (* exchange takes one of them away                          *)
  Spares,      (* the inputs of other archives the owner has               *)
  MaxSwaps     (* bound on the times the owner exchanges the archive       *)

ASSUME BuildBounds ==
  /\ MaxAttempts \in Nat \ {0} /\ MaxFaults \in Nat
  /\ MaxDamage \in Nat /\ MaxSwaps \in Nat

VARIABLES
  step,        (* where Build is                                           *)
  input,       (* what it was given; later, what the archive under the     *)
               (* target's name was built from                             *)
  held,        (* what is known of each attachment, likewise               *)
  attempt,     (* of the attachment at hand, <<a, n>>, or None             *)
  staging,     (* the directory it writes                                  *)
  disk,        (* the target directory                                     *)
  aside,       (* <target>.failed                                          *)
  interrupted,
  faults, damage, swaps

buildVars == <<step, input, held, attempt, staging, disk, aside, interrupted,
               faults, damage, swaps>>

File(data, size) == [data |-> data, intact |-> TRUE, size |-> size]

(* What a connector hands over.  No attachment has been tried, and each    *)
(* has a row.  Only containers, records and comments have a column for     *)
(* their parent.  None, the NULL of the database, is neither a row, nor an *)
(* object, nor a table.                                                    *)
ASSUME InputsAreRead ==
  /\ None \notin ObjectTables
  /\ \A i \in Inputs :
       /\ IsFiniteSet(DOMAIN i.evidence.index)
       /\ \A id \in DOMAIN i.evidence.caps :
            DOMAIN i.evidence.caps[id] =
              {"requirement", "implementation", "availability"}
       /\ \A x \in DOMAIN i.rows :
            /\ x # None /\ SourceKey(i.rows[x]) # None
            /\ i.rows[x].table \notin {"containers", "records", "comments"} =>
                 i.rows[x].up = None
       /\ \A a \in DOMAIN i.held :
            /\ a \in DOMAIN Bytes
            /\ DOMAIN i.held[a] = {"status", "bytes", "expected"}
            /\ i.held[a].status = "PENDING" /\ i.held[a].bytes = None
            /\ \E x \in IdsIn(i.rows, "attachments") : i.rows[x].src = a

(* The files at the source are whole; a stray file is none of them.        *)
ASSUME BytesAreWhole ==
  /\ "stray" \notin DOMAIN Bytes
  /\ \A a \in DOMAIN Bytes :
       Bytes[a] = File(Bytes[a].data, Bytes[a].size) /\ Bytes[a] # None

-----------------------------------------------------------------------------
(* The contract of the input (validatePortable): the counts of what the    *)
(* connector built are those of the evidence.  Which row is which is not   *)
(* looked at.                                                              *)
Validates(i) ==
  /\ i.evidence.tally = Tally(i.rows, DOMAIN i.evidence.tally)
  /\ {i.rows[x].kind : x \in DOMAIN i.rows} \subseteq DOMAIN i.evidence.tally
  /\ i.evidence.nested = Nested(i.rows)

(* The owner's other archives are such as Build seals.                     *)
ASSUME SparesAreSealed ==
  /\ Spares \subseteq Inputs
  /\ \A i \in Spares :
       /\ Validates(i)
       /\ ReferencesHold(i.rows, i.values) /\ SourcesUnique(i.rows)
       /\ DOMAIN i.held = {} \/ AttachmentContent \in DOMAIN i.evidence.caps

AttachmentsPending == {a \in DOMAIN held : held[a].status = "PENDING"}

(* After every expected attachment was tried.                              *)
ObservedCapabilities ==
  LET caps == input.evidence.caps
      seen == IF Retrieved(held) = DOMAIN held THEN "AVAILABLE" ELSE "FAILED"
  IN  IF AttachmentContent \in DOMAIN caps
        THEN [caps EXCEPT ![AttachmentContent].availability = seen]
        ELSE caps

Database ==
  [rows |-> input.rows, values |-> input.values, held |-> held,
   status |-> ArchiveStatus(held, ObservedCapabilities),
   digest |-> Digest(input.evidence)]

(* Bug: every expected attachment counts as retrieved.                     *)
ManifestOfExpected(files) ==
  [status        |-> ArchiveStatus(held, ObservedCapabilities),
   caps          |-> ObservedCapabilities,
   health        |-> AggregateHealth(ObservedCapabilities),
   held          |-> held,
   discrepancies |-> Discrepancies(input.rows, held),
   tally         |-> input.evidence.tally,
   nested        |-> input.evidence.nested,
   archived      |-> Tally(input.rows, DOMAIN input.evidence.tally),
   retrieved     |-> Cardinality(DOMAIN held),
   digest        |-> Digest(input.evidence),
   files         |-> files]

ManifestOf(files) ==
  [status        |-> ArchiveStatus(held, ObservedCapabilities),
   caps          |-> ObservedCapabilities,
   health        |-> AggregateHealth(ObservedCapabilities),
   held          |-> held,
   discrepancies |-> Discrepancies(input.rows, held),
   tally         |-> input.evidence.tally,
   nested        |-> input.evidence.nested,
   archived      |-> Tally(input.rows, DOMAIN input.evidence.tally),
   retrieved     |-> Cardinality(Retrieved(held)),
   digest        |-> Digest(input.evidence),
   files         |-> files]

Manifest == ManifestOf([p \in DOMAIN staging \ {Sealed} |-> staging[p]])

FailedManifest ==
  [Manifest EXCEPT !.status = "FAILED", !.files = Absent, !.held = Absent,
                   !.caps = input.evidence.caps, !.health = None,
                   !.discrepancies = {<<"ARCHIVE_BUILD_FAILED", None>>}]

-----------------------------------------------------------------------------
Put(path, file) ==
  staging' = [p \in DOMAIN staging \union {path} |->
                IF p = path THEN file ELSE staging[p]]

(* A local error: Build goes on to keep what there is.                     *)
Fails(next) ==
  /\ faults < MaxFaults
  /\ faults' = faults + 1
  /\ step' = next
  /\ UNCHANGED <<input, held, attempt, staging, disk, aside, interrupted,
                 damage, swaps>>

Goes(from, next) ==
  /\ step = from
  /\ step' = next
  /\ UNCHANGED <<input, held, attempt, disk, aside, interrupted, faults,
                 damage, swaps>>

(* The input is checked and the target must be free; nothing is written.   *)
Begin ==
  \/ /\ step = "begin"
     /\ step' = IF Validates(input) /\ disk = Absent THEN "copy" ELSE "refused"
     /\ UNCHANGED <<input, held, attempt, staging, disk, aside, interrupted,
                    faults, damage, swaps>>
  \/ step = "begin" /\ Fails("refused")

CopyRaw ==
  \/ /\ Goes("copy", "download")
     /\ staging' = [p \in {Control, Response} |->
                      IF p = Control THEN File(input.evidence, 1)
                                     ELSE File("answers", 1)]
  \/ step = "copy" /\ Fails("fail")

-----------------------------------------------------------------------------
(* Attachments, in the order of their ids.                                 *)

Downloading ==
  /\ step = "download"
  /\ UNCHANGED <<step, input, disk, aside, interrupted, damage, swaps>>

NextAttachment ==
  /\ Downloading
  /\ attempt = None
  /\ \E k \in DOMAIN Order :
       /\ Order[k] \in AttachmentsPending
       /\ \A j \in 1..(k - 1) : Order[j] \notin AttachmentsPending
       /\ attempt' = <<Order[k], 1>>
  /\ UNCHANGED <<held, staging, faults>>

Unresolved ==
  /\ held' = [held EXCEPT ![attempt[1]].status = "UNRESOLVED"]
  /\ attempt' = None

(* The bytes are on disk, whole, and of the expected size if one is known. *)
Download ==
  /\ Downloading
  /\ attempt # None
  /\ ~interrupted
  /\ LET a == attempt[1]
     IN  /\ held[a].expected \in {None, Bytes[a].size}
         /\ Put(Binary(a), Bytes[a])
         /\ held' = [held EXCEPT ![a].status = "RETRIEVED",
                                 ![a].bytes = Bytes[a]]
  /\ attempt' = None
  /\ UNCHANGED faults

(* A status worth another request, a broken transfer, a wrong size: after  *)
(* a pause there is another attempt, up to the last.                       *)
Retried ==
  /\ IF attempt[2] < MaxAttempts
       THEN attempt' = [attempt EXCEPT ![2] = @ + 1] /\ UNCHANGED held
       ELSE Unresolved
  /\ UNCHANGED staging

DownloadBreaks ==
  /\ Downloading
  /\ attempt # None
  /\ ~interrupted
  /\ faults < MaxFaults
  /\ faults' = faults + 1
  /\ Retried

(* Bug: what was downloaded stays where it is.                             *)
DownloadMismatchesKept ==
  /\ Downloading
  /\ attempt # None
  /\ ~interrupted
  /\ held[attempt[1]].expected \notin {None, Bytes[attempt[1]].size}
  /\ IF attempt[2] < MaxAttempts
       THEN attempt' = [attempt EXCEPT ![2] = @ + 1] /\ UNCHANGED held
       ELSE Unresolved
  /\ Put(Binary(attempt[1]), Bytes[attempt[1]])
  /\ UNCHANGED faults

(* The metadata names another size than the file has, every time.          *)
DownloadMismatches ==
  /\ Downloading
  /\ attempt # None
  /\ ~interrupted
  /\ held[attempt[1]].expected \notin {None, Bytes[attempt[1]].size}
  /\ Retried
  /\ UNCHANGED faults

(* A refusal nothing helps against, or an interrupted request or pause.    *)
DownloadRefused ==
  /\ Downloading
  /\ attempt # None
  /\ \/ interrupted /\ UNCHANGED faults
     \/ faults < MaxFaults /\ faults' = faults + 1
  /\ Unresolved
  /\ UNCHANGED staging

Downloaded ==
  /\ attempt = None
  /\ AttachmentsPending = {}
  /\ step = "download"
  /\ step' = IF /\ AttachmentContent \notin DOMAIN input.evidence.caps
                /\ DOMAIN held # {}
               THEN "fail" ELSE "database"
  /\ UNCHANGED <<input, held, attempt, staging, disk, aside, interrupted,
                 faults, damage, swaps>>

-----------------------------------------------------------------------------
(* The database refuses rows that point nowhere or name a source twice.    *)
WriteDatabase ==
  \/ /\ ReferencesHold(input.rows, input.values)
     /\ SourcesUnique(input.rows)
     /\ Goes("database", "schema")
     /\ Put(Db, File(Database, 1))
  \/ /\ step = "database"
     /\ ~(ReferencesHold(input.rows, input.values) /\ SourcesUnique(input.rows))
     /\ step' = "fail"
     /\ UNCHANGED <<input, held, attempt, staging, disk, aside, interrupted,
                    faults, damage, swaps>>
  \/ step = "database" /\ Fails("fail")

WriteSchema ==
  \/ Goes("schema", "manifest") /\ Put(Schema, File("schema", 1))
  \/ step = "schema" /\ Fails("fail")

(* Everything else is there; the manifest records it with its checksums.   *)
WriteManifest ==
  \/ Goes("manifest", "publish") /\ Put(Sealed, File(Manifest, 1))
  \/ step = "manifest" /\ Fails("fail")

(* A directory is not renamed onto an existing one.                        *)
Publish ==
  \/ /\ step = "publish"
     /\ disk = Absent
     /\ disk' = staging
     /\ staging' = Absent
     /\ step' = "sealed"
     /\ UNCHANGED <<input, held, attempt, aside, interrupted, faults, damage,
                    swaps>>
  \/ /\ step = "publish"
     /\ disk # Absent
     /\ step' = "fail"
     /\ UNCHANGED <<input, held, attempt, staging, disk, aside, interrupted,
                    faults, damage, swaps>>
  \/ step = "publish" /\ Fails("fail")

(* preserveFailedArchive: a manifest that says FAILED, if it can be        *)
(* written, and another name, if that is free.  The look and the rename    *)
(* are one step, since the rename refuses what would appear in between: a  *)
(* directory with something in it.  That it replaces an empty one is not   *)
(* modelled here.                                                          *)
MarkFailed ==
  \/ Goes("fail", "preserve") /\ Put(Sealed, File(FailedManifest, 1))
  \/ step = "fail" /\ Fails("preserve")

Preserve ==
  \/ /\ step = "preserve"
     /\ aside = Absent
     /\ aside' = staging
     /\ staging' = Absent
     /\ step' = "failed"
     /\ UNCHANGED <<input, held, attempt, disk, interrupted, faults, damage,
                    swaps>>
  \/ /\ step = "preserve"
     /\ aside # Absent
     /\ step' = "unpreserved"
     /\ UNCHANGED <<input, held, attempt, staging, disk, aside, interrupted,
                    faults, damage, swaps>>
  \/ step = "preserve" /\ Fails("unpreserved")

-----------------------------------------------------------------------------
(* The environment.                                                        *)

BuildEnds == {"refused", "sealed", "failed", "unpreserved", "killed"}

Interrupt ==
  /\ step \notin BuildEnds
  /\ ~interrupted
  /\ interrupted' = TRUE
  /\ UNCHANGED <<step, input, held, attempt, staging, disk, aside, faults,
                 damage, swaps>>

Kill ==
  /\ step \notin BuildEnds
  /\ step' = "killed"
  /\ UNCHANGED <<input, held, attempt, staging, disk, aside, interrupted,
                 faults, damage, swaps>>

(* Somebody else's directory under the target's name, with something in it.*)
Foreign == [p \in {<<"foreign">>} |-> File("foreign", 1)]

TakeName ==
  /\ disk = Absent
  /\ step \notin BuildEnds
  /\ disk' = Foreign
  /\ UNCHANGED <<step, input, held, attempt, staging, aside, interrupted,
                 faults, damage, swaps>>

(* One file of the published archive is lost, its bytes change, another    *)
(* file appears, or a row vanishes from the database.                      *)
WithoutRow(b, i) ==
  [b EXCEPT !.rows = [x \in DOMAIN b.rows \ {i} |-> b.rows[x]],
            !.held = [a \in DOMAIN b.held \ {b.rows[i].src} |-> b.held[a]]]

Decay ==
  /\ step = "sealed"
  /\ damage + swaps < MaxDamage
  /\ damage' = damage + 1
  /\ \/ \E p \in DOMAIN disk :
          \/ disk' = [q \in DOMAIN disk \ {p} |-> disk[q]]
          \/ disk' = [disk EXCEPT ![p].intact = FALSE]
     \/ /\ Binary("stray") \notin DOMAIN disk
        /\ disk' = [p \in DOMAIN disk \union {Binary("stray")} |->
                      IF p \in DOMAIN disk THEN disk[p] ELSE File("stray", 1)]
     \/ /\ Db \in DOMAIN disk
        /\ \E i \in DOMAIN disk[Db].data.rows :
             disk' = [disk EXCEPT ![Db].data = WithoutRow(@, i)]
  /\ UNCHANGED <<step, input, held, attempt, staging, aside, interrupted,
                 faults, swaps>>

(* What the downloads of another build can come to.                        *)
Outcomes(i) ==
  LET had(got) ==
        [a \in DOMAIN i.held |->
           IF a \in got
             THEN [i.held[a] EXCEPT !.status = "RETRIEVED", !.bytes = Bytes[a]]
             ELSE [i.held[a] EXCEPT !.status = "UNRESOLVED"]]
      fits == {a \in DOMAIN i.held : i.held[a].expected \in {None, Bytes[a].size}}
  IN  {had(got) : got \in SUBSET fits}

(* The directory that Build publishes of its input and what it could have. *)
SealedArchive ==
  LET files ==
        [p \in {Control, Response, Db, Schema}
               \union {Binary(a) : a \in Retrieved(held)} |->
           CASE p = Control -> File(input.evidence, 1)
             [] p = Response -> File("answers", 1)
             [] p = Db -> File(Database, 1)
             [] p = Schema -> File("schema", 1)
             [] OTHER -> Bytes[p[2]]]
  IN  [p \in DOMAIN files \union {Sealed} |->
         IF p = Sealed THEN File(ManifestOf(files), 1) ELSE files[p]]

(* The owner puts another archive under the name, or a copy of the same    *)
(* one, whatever happened to it since.                                     *)
Exchange ==
  /\ step = "sealed"
  /\ swaps < MaxSwaps
  /\ swaps' = swaps + 1
  /\ \/ input' \in Spares /\ held' \in Outcomes(input')
     \/ UNCHANGED <<input, held>>
  /\ disk' = SealedArchive'
  /\ damage' = 0
  /\ UNCHANGED <<step, attempt, staging, aside, interrupted, faults>>

BuildInit ==
  /\ step = "begin"
  /\ input \in Inputs
  /\ held = input.held
  /\ attempt = None
  /\ staging = Absent
  /\ disk \in {Absent, Foreign}
  /\ aside \in {Absent, Foreign}
  /\ interrupted = FALSE
  /\ faults = 0 /\ damage = 0 /\ swaps = 0

BuildNext ==
  \/ Begin \/ CopyRaw
  \/ NextAttachment \/ Download \/ DownloadBreaks \/ DownloadMismatches
  \/ DownloadRefused \/ Downloaded
  \/ WriteDatabase \/ WriteSchema \/ WriteManifest \/ Publish
  \/ MarkFailed \/ Preserve
  \/ Interrupt \/ Kill \/ TakeName \/ Decay
=============================================================================
