--------------------------- MODULE AtLeastOnceCall ---------------------------
(***************************************************************************)
(* What one API call promises its caller, the transport forgotten: the     *)
(* server may carry the operation out at any time, up to Bound times, even *)
(* after the caller has its verdict; "ok" is only said of an operation     *)
(* that was carried out; and the verdict is final.                         *)
(***************************************************************************)
EXTENDS Integers

CONSTANTS Bound,        \* most times the operation can be carried out
          Errors        \* the verdicts that are not "ok"

VARIABLES applied,      \* times the server carried the operation out
          verdict       \* "pending" until the caller knows

vars == <<applied, verdict>>

Init == applied = 0 /\ verdict = "pending"

Apply == /\ applied < Bound
         /\ applied' = applied + 1
         /\ UNCHANGED verdict

Return == /\ verdict = "pending"
          /\ \/ verdict' = "ok" /\ applied > 0
             \/ verdict' \in Errors
          /\ UNCHANGED applied

Next == Apply \/ Return

Spec == Init /\ [][Next]_vars
=============================================================================
