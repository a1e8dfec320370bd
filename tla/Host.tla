-------------------------------- MODULE Host --------------------------------
(***************************************************************************)
(* The parts of one host that share no state: the state store within one   *)
(* process (StateStore), the record of one scope (ScopeStatus), the        *)
(* credential file (Credentials), notifications (Notify) and native        *)
(* schedules (Schedule).  What one does cannot disturb another, so every   *)
(* behaviour follows one of them, and the others stay as they began.       *)
(***************************************************************************)
EXTENDS StateStore

CONSTANTS
  Commands,                                           (* processes         *)
  MaxRuns, MaxChanges, MaxOthers, Stamps,             (* ScopeStatus       *)
  Connectors, Secrets, Legacy, MaxWrites, Unusable,   (* Credentials       *)
  Destinations, Wants, Histories, Operations,         (* Notify            *)
  MaxAttempts, MaxReplays,
  Definitions, Disabled, MaxEdits,                    (* Schedule          *)
  None

VARIABLES
  part,
  now, disk, seals, record, cmd, noted, count,
  secrets, holder, kept, dropped, writes,
  run, started, log, told, sent, processed, replays,
  platform, definition, files, on, loaded, command, said, edits

scopeVars == <<now, disk, seals, record, cmd, noted, count>>
credentialVars == <<secrets, holder, kept, dropped, writes>>
notifyVars == <<run, started, log, told, sent, processed, replays>>
scheduleVars == <<platform, definition, files, on, loaded, command, said, edits>>
hostVars == <<vars, part, scopeVars, credentialVars, notifyVars, scheduleVars>>

Scope == INSTANCE ScopeStatus

Credential == INSTANCE Credentials WITH
  Processes <- Commands, file <- secrets, proc <- holder, saved <- kept

Webhook == INSTANCE Notify WITH Processes <- Commands

Native == INSTANCE Schedule

ASSUME ReplayHasNoOperation == Webhook!NotifyAssumption

ASSUME NothingRecorded == Scope!ScopeAssumption

HostInit ==
  /\ part \in {"store", "scope", "credentials", "notify", "schedule"}
  /\ Init /\ Scope!Init /\ Credential!Init /\ Webhook!Init /\ Native!Init
  /\ part # "store" => file = Absent
  /\ part # "schedule" => platform = "linux" /\ definition = (CHOOSE d \in Definitions : TRUE)

StoreStep ==
  /\ part = "store"
  /\ Next
  /\ UNCHANGED <<part, scopeVars, credentialVars, notifyVars, scheduleVars>>

ScopeStep ==
  /\ part = "scope"
  /\ Scope!Next
  /\ UNCHANGED <<part, vars, credentialVars, notifyVars, scheduleVars>>

CredentialStep ==
  /\ part = "credentials"
  /\ Credential!Next
  /\ UNCHANGED <<part, vars, scopeVars, notifyVars, scheduleVars>>

NotifyStep ==
  /\ part = "notify"
  /\ Webhook!Next
  /\ UNCHANGED <<part, vars, scopeVars, credentialVars, scheduleVars>>

ScheduleStep ==
  /\ part = "schedule"
  /\ Native!Next
  /\ UNCHANGED <<part, vars, scopeVars, credentialVars, notifyVars>>

HostNext ==
  StoreStep \/ ScopeStep \/ CredentialStep \/ NotifyStep \/ ScheduleStep

HostSpec == HostInit /\ [][HostNext]_hostVars

-----------------------------------------------------------------------------
(* The properties of the parts, as their modules state them: what status   *)
(* calls present is what was judged, and no older success replaces a newer.*)
PresentIsProven == Scope!PresentIsProven
NewerIsKept == Scope!NewerIsKept

(* Only a Save that overlaps another change can drop a credential.         *)
OnlyOverlapDrops == Credential!OnlyOverlapDrops

(* A destination that discards repeats processes a transition once, and    *)
(* what status shows as delivered was processed.                           *)
OncePerTransition == Webhook!OncePerTransition

(* A schedule command that says it succeeded is right.                     *)
InstalledIsTrue == Native!InstalledIsTrue
=============================================================================
