----------------------------- MODULE MCDeletes -----------------------------
(* Constants of the finite instance of Deletes that TLC checks: two days of  *)
(* two instants each, 0 and 1, 2 and 3, with rows at the start and at the    *)
(* end of the second.  The first day has a directory and tombstones only.    *)
EXTENDS Deletes, TLC

CONSTANTS r1, r2,      \* rows
          p            \* a predicate

MCTimeOf     == (r1 :> 2) @@ (r2 :> 3)
MCSatisfying == p :> {r2}

(* From the end of the second day on; up to its start; for the stream p,     *)
(* from the end of the first day on; for p, up to the epoch.                 *)
MCSpecs == {[start |-> {3}, end |-> {}, rest |-> NoPred],
            [start |-> {}, end |-> {2}, rest |-> NoPred],
            [start |-> {1}, end |-> {}, rest |-> p],
            [start |-> {}, end |-> {0}, rest |-> p]}
=============================================================================
