------------------------------ MODULE Schedule ------------------------------
(***************************************************************************)
(* `alih schedule install` and `remove` (internal/schedule): the files of  *)
(* one definition, and the commands that make the scheduler of the         *)
(* platform read them.  Any step may fail, be interrupted or be the last   *)
(* one before a kill.  The schedulers are external: what is said of them   *)
(* here is what their documentation says of these commands.                *)
(***************************************************************************)
EXTENDS Naturals, Sequences

CONSTANTS
  Definitions,  (* what schedules.json may say of the schedule             *)
  Disabled,     (* those that are not enabled                              *)
  MaxEdits,     (* bound on the edits of schedules.json                    *)
  None

VARIABLES
  platform,
  definition,   (* the schedule's entry in schedules.json                  *)
  files,        (* by artifact, the definition it was generated from       *)
  on,           (* the scheduler has the task                              *)
  loaded,       (* by artifact, what the scheduler has read                *)
  command,      (* the running command: its definition and steps left      *)
  said,         (* what the last command to succeed said, until the next   *)
  edits

vars == <<platform, definition, files, on, loaded, command, said, edits>>

Platforms == {"linux", "darwin", "windows"}

Artifacts == IF platform = "linux" THEN {"service", "timer"} ELSE {"task"}

From(d) == [a \in Artifacts |-> d]

Nothing == From(None)

(***************************************************************************)
(* Plans (Generate).  A step names what it works on.                       *)
(***************************************************************************)
Write(a) == [do |-> "write", to |-> a]

Delete(a) == [do |-> "delete", to |-> a]

Run(name) == [do |-> "run", to |-> name]

(* Install: the files, then the commands.                                  *)
InstallSteps ==
  CASE platform = "linux" -> <<Write("service"), Write("timer"),
                               Run("daemon-reload"), Run("enable")>>
    [] platform = "darwin" -> <<Write("task"), Run("bootstrap")>>
    [] platform = "windows" -> <<Write("task"), Run("create")>>

(* Remove: the first command, the files, the remaining commands.           *)
RemoveSteps ==
  CASE platform = "linux" -> <<Run("disable"), Delete("service"),
                               Delete("timer"), Run("daemon-reload")>>
    [] platform = "darwin" -> <<Run("bootout"), Delete("task")>>
    [] platform = "windows" -> <<Run("delete"), Delete("task")>>

(* Inspect: the files match the plan.                                      *)
Installed(d) == files = From(d)

(* Manager.Registered: is-enabled, print or Query.                         *)
Registered == on

(***************************************************************************)
(* The schedulers.  systemd reads the unit files again whenever it enables *)
(* or disables one; launchd refuses a label it has and one it has not;     *)
(* Task Scheduler keeps a copy, and /F replaces it.                        *)
(***************************************************************************)
Accepts(name) ==
  CASE name = "daemon-reload" -> TRUE
    [] name \in {"enable", "disable"} -> files["timer"] # None
    [] name = "bootstrap" -> ~ on /\ files # Nothing
    [] name = "create" -> files # Nothing
    [] name \in {"bootout", "delete"} -> on

Scheduler(name) ==
  /\ Accepts(name)
  /\ on' = (\/ name \in {"enable", "bootstrap", "create"}
            \/ name = "daemon-reload" /\ on)
  /\ loaded' = IF name \in {"bootout", "delete"} THEN Nothing ELSE files

(* The next login, or another daemon-reload.  launchd loads what lies in   *)
(* the LaunchAgents directory; no command outlives the session before.     *)
Restart ==
  /\ platform = "darwin" => command.verb = "none"
  /\ on' = IF platform = "darwin" THEN files # Nothing ELSE on
  /\ loaded' = IF platform = "windows" THEN loaded ELSE files
  /\ UNCHANGED <<platform, definition, files, command, said, edits>>

(***************************************************************************)
(* The command.                                                            *)
(***************************************************************************)
NoCommand == [verb |-> "none", definition |-> None, steps |-> <<>>]

Plan(verb, steps) ==
  /\ command = NoCommand
  /\ definition # None
  /\ command' = [verb |-> verb, definition |-> definition, steps |-> steps]
  /\ said' = NoCommand
  /\ UNCHANGED <<platform, definition, files, on, loaded, edits>>

Install == definition \notin Disabled /\ Plan("install", InstallSteps)

Remove == Plan("remove", RemoveSteps)

(* What a step does when it does something.                                *)
Effect(step) ==
  \/ /\ step.do = "write"
     /\ files' = [files EXCEPT ![step.to] = command.definition]
     /\ UNCHANGED <<on, loaded>>
  \/ /\ step.do = "delete"
     /\ files' = [files EXCEPT ![step.to] = None]
     /\ UNCHANGED <<on, loaded>>
  \/ step.do = "run" /\ Scheduler(step.to) /\ UNCHANGED files

(* Bug: a command of the scheduler that fails does not end the work.       *)
DoRegardless(step) ==
  \/ Effect(step)
  \/ step.do = "run" /\ UNCHANGED <<files, on, loaded>>

Do(step) == Effect(step)

Works ==
  /\ command.steps # <<>>
  /\ Do(Head(command.steps))
  /\ command' = [command EXCEPT !.steps = Tail(@)]
  /\ UNCHANGED <<platform, definition, said, edits>>

(* An error, an interrupt or a kill, before the step or after it.          *)
Fails ==
  /\ command.steps # <<>>
  /\ Effect(Head(command.steps)) \/ UNCHANGED <<files, on, loaded>>
  /\ command' = NoCommand
  /\ UNCHANGED <<platform, definition, said, edits>>

Ends ==
  /\ command.verb # "none"
  /\ command.steps = <<>>
  /\ said' = command
  /\ command' = NoCommand
  /\ UNCHANGED <<platform, definition, files, on, loaded, edits>>

Edit ==
  /\ edits < MaxEdits
  /\ edits' = edits + 1
  /\ definition' \in Definitions \cup {None}
  /\ UNCHANGED <<platform, files, on, loaded, command, said>>

Init ==
  /\ platform \in Platforms
  /\ definition \in Definitions
  /\ files = Nothing
  /\ on = FALSE
  /\ loaded = Nothing
  /\ command = NoCommand
  /\ said = NoCommand
  /\ edits = 0

Next == Install \/ Remove \/ Works \/ Fails \/ Ends \/ Edit \/ Restart

Spec == Init /\ [][Next]_vars

(***************************************************************************)
(* Properties.                                                             *)
(***************************************************************************)

(* After whatever went wrong before, and whatever was edited since: an     *)
(* install that says it succeeded left the files and the task of the       *)
(* definition it read, in one piece, and a remove left nothing that a      *)
(* restart could bring back (Install: "it never pretends the schedule is   *)
(* installed").                                                            *)
InstalledIsTrue ==
  /\ said.verb = "install" =>
       /\ Installed(said.definition)
       /\ Registered
       /\ loaded = From(said.definition)
  /\ said.verb = "remove" =>
       /\ files = Nothing
       /\ ~ Registered
       /\ loaded = Nothing
=============================================================================
