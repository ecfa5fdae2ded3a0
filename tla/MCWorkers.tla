----------------------------- MODULE MCWorkers -----------------------------
(* Constants of the finite instance of Workers that TLC checks.              *)
EXTENDS Workers, TLC

CONSTANTS i1, i2, i3   \* insert requests

MCDayOf == (i1 :> 2) @@ (i2 :> 2)
=============================================================================
