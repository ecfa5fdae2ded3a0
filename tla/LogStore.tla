------------------------------ MODULE LogStore ------------------------------
(* What one day partition promises a client, with the write-ahead log off    *)
(* (the default, storage.go Options.EnableWAL): an appended row is readable  *)
(* at once but volatile (the tip), becomes durable together with everything  *)
(* else that was buffered, and from then on survives any crash.  A crash     *)
(* loses exactly the tip.  No row is ever lost once durable, none comes      *)
(* back once lost, and no row is stored in two places.                       *)
CONSTANT Rows

VARIABLES tip,       \* rows held in memory only
          durable    \* rows a restart brings back

vars == <<tip, durable>>

TypeOK == tip \subseteq Rows /\ durable \subseteq Rows

Init == tip = {} /\ durable = {}

Append(r) == /\ r \notin tip \cup durable
             /\ tip' = tip \cup {r}
             /\ UNCHANGED durable

Persist == /\ tip # {}
           /\ durable' = durable \cup tip
           /\ tip' = {}

Crash == /\ tip' = {}
         /\ UNCHANGED durable

Next == (\E r \in Rows : Append(r)) \/ Persist \/ Crash

Spec == Init /\ [][Next]_vars
=============================================================================
