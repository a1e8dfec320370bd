----------------------------- MODULE RecoveryReport -----------------------------
(***************************************************************************)
(* The recovery report (internal/report): what may be claimed of an        *)
(* archive, and what may not, drawn from nothing but its verification and  *)
(* its manifest.  A sentence stands for its wording.                       *)
(***************************************************************************)
EXTENDS PortableArchive

(* Each recovery claim names the checks it rests on, and is PROVEN when    *)
(* all of them passed, whatever the result as a whole.                     *)
BasedOn ==
  [readable     |-> {"sqlite_integrity"},
   explained    |-> {"schema_consistency"},
   traceable    |-> {"identifier_derivation", "raw_paths"},
   evidence     |-> {"raw_evidence_integrity"},
   reassembles  |-> {"hierarchy", "referential_integrity"},
   binaries     |-> {"attachment_integrity"},
   nothing_lost |-> {"counts", "source_objects"},
   unaltered    |-> {"file_checksums", "manifest_file_inventory"},
   field_values |-> {"custom_field_evidence"}]

(* The archive's content is only stated when its counts are corroborated.  *)
ContentStatement(checks) ==
  IF /\ checks["sqlite_integrity"] = "PASS"
     /\ checks["counts"] = "PASS"
    THEN {"content"} ELSE {}

Proven(checks) ==
  ContentStatement(checks) \union
  {claim \in DOMAIN BasedOn : \A name \in BasedOn[claim] : checks[name] = "PASS"}

Established(checks) == {name \in DOMAIN checks : checks[name] = "PASS"}

NotEstablished(checks) ==
  {name \in DOMAIN checks : checks[name] \notin {"PASS", "UNPROVEN", "NOT_RUN"}}

-----------------------------------------------------------------------------
(* The manifest's own statement, if it can be read.                        *)
ManifestRead(d) == Sealed \in DOMAIN d /\ d[Sealed].intact

(* The archive's identity is UNKNOWN without a manifest, never blank.      *)
RecordedStatus(d) ==
  IF ManifestRead(d) THEN d[Sealed].data.status ELSE "UNKNOWN"

(* Items from the manifest's own admissions and from every check that      *)
(* neither passed nor is merely unproven.                                  *)
Items(d, checks) ==
  (IF ManifestRead(d) THEN d[Sealed].data.discrepancies ELSE {})
  \union {<<"VERIFICATION", name>> : name \in NotEstablished(checks)}

(* The unresolved attachments are those the manifest does not call         *)
(* retrieved; their number is the reconciliation's, which exists only when *)
(* the counts were compared.                                               *)
ListedUnresolved(d) ==
  IF ManifestRead(d)
    THEN {a \in DOMAIN d[Sealed].data.held :
            d[Sealed].data.held[a].status # "RETRIEVED"}
    ELSE {}

CountedUnresolved(d, checks) ==
  IF checks["counts"] \in {"PASS", "FAIL"}
    THEN LET held == d[Db].data.held
         IN  Cardinality(DOMAIN held) - Cardinality(Retrieved(held))
    ELSE 0

AttachmentNote(checks) ==
  CASE checks["attachment_integrity"] = "PASS" -> "all match"
    [] checks["attachment_integrity"] = "INCOMPLETE" -> "some never archived"
    [] checks["attachment_integrity"] = "FAIL" -> "must not be assumed"
    [] OTHER -> "not established"

(* What the archive proves of a capability is another question than the    *)
(* capability's state at the source.                                       *)
CapabilityEvidence(capability, result) ==
  CASE capability.availability # "AVAILABLE" -> "see verification"
    [] capability.implementation \notin {"SUPPORTED", "PARTIAL"} -> "no claim"
    [] result \in {"VERIFIED", "VERIFIED_WITH_LIMITATIONS"} -> "passed"
    [] result = "INCOMPLETE" -> "incomplete"
    [] OTHER -> "failed"

Capabilities(d, result) ==
  IF ManifestRead(d)
    THEN LET caps == d[Sealed].data.caps
         IN  [id \in DOMAIN caps |-> CapabilityEvidence(caps[id], result)]
    ELSE Absent

-----------------------------------------------------------------------------
(* What must not be claimed grows as the evidence weakens.  A snapshot is  *)
(* never atomic, custom fields are never executable, and the source today  *)
(* is never described: those sentences are always there.                   *)
MustNotClaim(d, checks) ==
  LET result == Result(checks)
      failed == result \notin {"VERIFIED", "VERIFIED_WITH_LIMITATIONS"}
      caps == IF ManifestRead(d) THEN d[Sealed].data.caps ELSE Absent
  IN  {"executable fields", "the product", "the source today"}
      \union (IF failed THEN {"proven as a whole"} ELSE {})
      \union (IF ManifestRead(d) THEN {"one point in time"} ELSE {"content"})
      \union (IF \E id \in DOMAIN caps : caps[id].implementation # "SUPPORTED"
                THEN {"a capability"} ELSE {})
      \union (IF CountedUnresolved(d, checks) > 0
                THEN {"unresolved attachments"} ELSE {})
      \union (IF \E item \in Items(d, checks) :
                   item[1] = "RELATIONSHIP_UNRESOLVED"
                THEN {"every relationship end"} ELSE {})
      \union (IF checks["source_objects"] # "PASS"
                THEN {"everything observed"} ELSE {})

(* The verdict, and the two statements that depend on more than it.        *)
Conclusion(d, checks) ==
  LET result == Result(checks)
  IN  [verdict |->
         CASE result = "VERIFIED" -> "proven"
           [] result = "VERIFIED_WITH_LIMITATIONS" -> "proven, with limits"
           [] result = "INCOMPLETE" -> "not complete"
           [] OTHER -> "cannot be proven",
       contradicted |-> IF result = "FAILED" THEN NotEstablished(checks) ELSE {},
       unresolved |-> CountedUnresolved(d, checks)]

Report(d) ==
  LET checks == Verify(d)
  IN  [status       |-> RecordedStatus(d),
       proven       |-> Proven(checks),
       established  |-> Established(checks),
       attachments  |-> AttachmentNote(checks),
       unresolved   |-> ListedUnresolved(d),
       capabilities |-> Capabilities(d, Result(checks)),
       items        |-> Items(d, checks),
       mustNotClaim |-> MustNotClaim(d, checks),
       conclusion   |-> Conclusion(d, checks)]
=============================================================================
