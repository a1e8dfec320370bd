------------------------------ MODULE ScopeLock ------------------------------
(***************************************************************************)
(* What a command relies on when it takes the operation lock: one lock for *)
(* one scope, held by at most one operation, free again when its operation *)
(* is over, however it ends.                                               *)
(***************************************************************************)
CONSTANTS Operations,   (* operations that may take the lock                *)
          Nobody        (* no operation                                     *)

VARIABLE holder         (* the operation inside the scope                   *)

Init == holder = Nobody
Take(o) == holder = Nobody /\ holder' = o
Drop(o) == holder = o /\ holder' = Nobody
Next == \E o \in Operations : Take(o) \/ Drop(o)
Spec == Init /\ [][Next]_holder
=============================================================================
