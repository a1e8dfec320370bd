------------------------------ MODULE Credentials ------------------------------
(***************************************************************************)
(* The credential file (internal/credentials): one secret per connector,   *)
(* read, merged and renamed into place by every process that verified a    *)
(* token from its environment, with no lock.  Other programs may leave a   *)
(* file that this build cannot read, or the shape of an older one.         *)
(***************************************************************************)
EXTENDS Naturals, FiniteSets

CONSTANTS
  Processes,
  Connectors,
  Secrets,
  Legacy,     (* the connector the version 1 file can hold                 *)
  MaxWrites,  (* bound on the number of foreign changes to the file        *)
  None,       (* no secret                                                 *)
  Unusable    (* what Load says of a file it cannot decode                 *)

VARIABLES
  file,       (* the credential file: version and secret by connector      *)
  proc,       (* by process, what it is about to save                      *)
  saved,      (* by connector, what was saved for it last                  *)
  dropped,    (* the connectors whose secret an overlapping Save may have  *)
              (* dropped                                                   *)
  writes

vars == <<file, proc, saved, dropped, writes>>

Empty == [c \in Connectors |-> None]

Missing == [version |-> 0, secrets |-> Empty]

(* Versions this build decodes; 0 stands for no file.                      *)
Known == {0, 1, 2}

Held(secrets) == {c \in Connectors : secrets[c] # None}

(* Bug: the file is written for one connector.                             *)
MergeAlone(secrets, c, s) ==
  [version |-> IF c = Legacy THEN 1 ELSE 2,
   secrets |-> [d \in DOMAIN secrets |-> IF d = c THEN s ELSE None]]

(* mergeCredential: the version follows what the file will hold.           *)
Merge(secrets, c, s) ==
  LET merged == [secrets EXCEPT ![c] = s]
  IN  [version |-> IF Held(merged) = {Legacy} THEN 1 ELSE 2, secrets |-> merged]

(* FileStore.Load, for the owner of the file.                              *)
Load(c) == IF file.version \in Known THEN file.secrets[c] ELSE Unusable

(***************************************************************************)
(* A command verifies the token of its environment and saves it.           *)
(***************************************************************************)
Idle == [at |-> "idle", connector |-> None, secret |-> None, secrets |-> Empty,
         stale |-> FALSE]

(* authenticationToken, Authenticate.                                      *)
Verify(p) ==
  \E c \in Connectors, s \in Secrets :
    /\ proc[p].at = "idle"
    /\ proc' = [proc EXCEPT ![p] = [Idle EXCEPT
                 !.at = "verified", !.connector = c, !.secret = s]]
    /\ UNCHANGED <<file, saved, dropped, writes>>

(* existingEntries: a missing file is none, one that cannot be decoded     *)
(* ends the Save.                                                          *)
Read(p) ==
  /\ proc[p].at = "verified"
  /\ proc' = [proc EXCEPT ![p] =
                IF file.version \in Known
                  THEN [@ EXCEPT !.at = "read", !.secrets = file.secrets]
                  ELSE Idle]
  /\ UNCHANGED <<file, saved, dropped, writes>>

(* The directory, the temporary file or its rename fails, or the process   *)
(* dies: nothing but a temporary file can remain.                          *)
WriteFails(p) ==
  /\ proc[p].at = "read"
  /\ proc' = [proc EXCEPT ![p] = Idle]
  /\ UNCHANGED <<file, saved, dropped, writes>>

(* Everybody else who has read has read an older file.                     *)
Stale(p) ==
  [q \in Processes |->
     IF q # p /\ proc[q].at = "read" THEN [proc[q] EXCEPT !.stale = TRUE]
                                     ELSE proc[q]]

Rename(p) ==
  LET c == proc[p].connector
  IN  /\ proc[p].at = "read"
      /\ file' = Merge(proc[p].secrets, c, proc[p].secret)
      /\ saved' = [saved EXCEPT ![c] = proc[p].secret]
      /\ dropped' = (IF proc[p].stale THEN Connectors ELSE dropped) \ {c}
      /\ proc' = [Stale(p) EXCEPT ![p] = Idle]
      /\ UNCHANGED writes

(***************************************************************************)
(* Other programs: the file goes bad, or is one of a newer Alih; or it is  *)
(* that of an older Alih, which knows one connector.                       *)
(***************************************************************************)
Foreign(new) ==
  /\ writes < MaxWrites
  /\ writes' = writes + 1
  /\ file' = new
  /\ saved' = [c \in Connectors |->
                 IF new.version \in Known THEN new.secrets[c] ELSE Unusable]
  /\ dropped' = {}
  /\ proc' = [q \in Processes |->
                IF proc[q].at = "read" THEN [proc[q] EXCEPT !.stale = TRUE]
                                       ELSE proc[q]]

GoesUnreadable == Foreign([version |-> 3, secrets |-> Empty])

OlderSaves ==
  \E s \in Secrets :
    /\ file.version \in {0, 1}
    /\ Foreign([version |-> 1, secrets |-> [Empty EXCEPT ![Legacy] = s]])

Removed == file.version # 0 /\ Foreign(Missing)

Init ==
  /\ file = Missing
  /\ proc = [p \in Processes |-> Idle]
  /\ saved = Empty
  /\ dropped = {}
  /\ writes = 0

Next ==
  \/ \E p \in Processes : Verify(p) \/ Read(p) \/ WriteFails(p) \/ Rename(p)
  \/ GoesUnreadable
  \/ OlderSaves
  \/ Removed

Spec == Init /\ [][Next]_vars

(***************************************************************************)
(* Properties.                                                             *)
(***************************************************************************)

(* Saving one connector leaves every other connector's secret untouched,   *)
(* and a file that cannot be decoded is kept, except by a Save that read   *)
(* the file before another change of it.  A file an older Alih refuses     *)
(* holds more than its one connector.                                      *)
OnlyOverlapDrops ==
  /\ \A c \in Connectors \ dropped : Load(c) = saved[c]
  /\ file.version = 2 => Held(file.secrets) # {Legacy}
=============================================================================
