------------------------------ MODULE Extraction ------------------------------
(***************************************************************************)
(* `alih extract` of either provider (internal/cli runExtract): a process  *)
(* extracts from Notion, as in NotionExtraction, or from ClickUp, as in    *)
(* ClickUpExtraction, each into a session of its own.                      *)
(***************************************************************************)
EXTENDS NotionExtraction

CONSTANTS
  ClickUpWorkspace,
  ClickUpKindOf,     (* function: the kind of each object of the Workspace *)
  ClickUpEndsOf,     (* function: the ends of a relationship               *)
  ClickUpOrder,      (* the objects, in the order of their ids             *)
  ClickUpSource,     (* function: the honest item of an object             *)
  ClickUpListedIn,   (* function: the object it is listed under            *)
  ClickUpArchived,   (* the objects that are listed as archived            *)
  ClickUpFieldsOf,   (* function on locations: the fields usable there     *)
  ClickUpMaxPages    (* maxTaskPages, maxCommentPages                      *)

VARIABLES
  provider,                                      (* what is extracted from *)
  ledger, place, closing,                        (* the ClickUp session    *)
  at, phase, queue, try, known, stopped, wrong, edited, requested

clickUpVars == <<ledger, place, closing, at, phase, queue, try, known, stopped,
                 wrong, edited, requested>>
allVars == <<provider, vars, clickUpVars>>

ClickUp == INSTANCE ClickUpExtraction WITH
  Workspace <- ClickUpWorkspace, Objects <- DOMAIN ClickUpKindOf,
  KindOf <- ClickUpKindOf, EndsOf <- ClickUpEndsOf, Order <- ClickUpOrder,
  Source <- ClickUpSource, ListedIn <- ClickUpListedIn, Archived <- ClickUpArchived,
  FieldsOf <- ClickUpFieldsOf, MaxPages <- ClickUpMaxPages,
  records <- ledger, dir <- place, step <- closing, pc <- at, pending <- queue,
  attempt <- try, interrupted <- stopped, faults <- wrong, sent <- requested

ASSUME WorkspaceIsOne == ClickUp!ClickUpAssumption /\ ClickUp!WorkspaceAssumption

-----------------------------------------------------------------------------
ExtractInit == provider \in {"notion", "clickup"} /\ Init /\ ClickUp!Init

NotionStep == provider = "notion" /\ Next /\ UNCHANGED <<provider, clickUpVars>>

ClickUpStep == provider = "clickup" /\ ClickUp!Next /\ UNCHANGED <<provider, vars>>

ExtractNext == NotionStep \/ ClickUpStep

ExtractSafety == ExtractInit /\ [][ExtractNext]_allVars

(* The fairness of the two modules: whichever process it is, it is         *)
(* scheduled.                                                              *)
ExtractFairness ==
  WF_allVars(\/ /\ provider = "notion"
                /\ Request \/ Extracted \/ Close
                /\ UNCHANGED <<provider, clickUpVars>>
             \/ /\ provider = "clickup"
                /\ ClickUp!Request \/ ClickUp!Extracted \/ ClickUp!Close
                /\ UNCHANGED <<provider, vars>>)

ExtractSpec == ExtractSafety /\ ExtractFairness

(* The properties of the ClickUp client, as its module states them: what   *)
(* loads is whole, every attempt is in the ledger, what it calls retried   *)
(* was.                                                                    *)
ClickUpIsWhole == ClickUp!LoadableIsWhole
ClickUpLedgerIsComplete == ClickUp!LedgerIsComplete
ClickUpRetriedIsRetried == ClickUp!RetriedIsRetried

(* Unless it is killed, the extraction comes to an end, and no list is     *)
(* followed in circles on the way, although the source may answer so       *)
(* forever.                                                                *)
EveryExtractionEnds ==
  /\ [](provider = "notion" => NoCircles)
  /\ [](provider = "clickup" => ClickUp!NoCircles)
  /\ provider = "notion" => ExtractionEnds
  /\ provider = "clickup" => ClickUp!ExtractionEnds
=============================================================================
