---------------------------- MODULE AtomicRecord ----------------------------
(***************************************************************************)
(* What a caller would like Store.Update (internal/state/store.go) to be:  *)
(* one indivisible read-modify-write of the document, or an error and no   *)
(* effect, and one answer for each call.                                   *)
(***************************************************************************)
EXTENDS Naturals

CONSTANT Updates    (* the updates callers ask for                         *)

VARIABLES value,    (* the document                                        *)
          saved,    (* updates whose caller was told they are stored       *)
          refused   (* updates whose caller was told they are not          *)

Undecided(u) == u \notin saved \cup refused

Init ==
  /\ value \in [kind : {"absent", "corrupt", "future"}, revision : {0},
                applied : {{}}]
  /\ saved = {}
  /\ refused = {}

Apply(u) ==
  /\ Undecided(u)
  /\ value.kind \in {"absent", "record"}
  /\ value' = [kind |-> "record", revision |-> value.revision + 1,
               applied |-> value.applied \cup {u}]
  /\ saved' = saved \cup {u}
  /\ UNCHANGED refused

Refuse(u) ==
  /\ Undecided(u)
  /\ refused' = refused \cup {u}
  /\ UNCHANGED <<value, saved>>

Next == \E u \in Updates : Apply(u) \/ Refuse(u)

Spec == Init /\ [][Next]_<<value, saved, refused>>
=============================================================================
