--------------------------- MODULE MCDayPartition ---------------------------
(* Constants of the finite instances of DayPartition that TLC checks.        *)
EXTENDS DayPartition, TLC

CONSTANTS r1, r2, r3, r4, r5,  \* rows
          a, b,              \* streams
          host, svcA, svcB,  \* tags
          m1, m2             \* mergers

(* Both streams carry the host tag, each has a service tag of its own: a     *)
(* query may select both streams, one or none.                               *)
MCTagsOf == (a :> {host, svcA}) @@ (b :> {host, svcB})

MCStreamOf1 == (r1 :> a)
MCStreamOf2 == (r1 :> a) @@ (r2 :> b)
MCStreamOf3 == (r1 :> a) @@ (r2 :> b) @@ (r3 :> a)
MCStreamOf4 == MCStreamOf3 @@ (r4 :> b)
MCStreamOf5 == MCStreamOf4 @@ (r5 :> a)

MCQueries == {{}, {svcA}, {host, svcB}}
MCAllRows == {{}}

(* The background worker uses MergeMinParts, a forced merge of a day 2.      *)
MCMinParts == [m \in Mergers |-> 2]
MCMinPartsMixed == [m \in Mergers |-> IF m = m1 THEN 3 ELSE 1]
=============================================================================
