---------------------------- MODULE MCWalBuffer ----------------------------
(* Constants of the finite instances of WalBuffer that TLC checks.           *)
EXTENDS WalBuffer, TLC

CONSTANTS r1, r2, r3, r4,  \* rows
          b1, b2           \* blocks

MCBlockOf3 == (r1 :> b1) @@ (r2 :> b2) @@ (r3 :> b1)
MCBlockOf4 == MCBlockOf3 @@ (r4 :> b2)
MCTwoDays  == (b1 :> "d1") @@ (b2 :> "d2")
=============================================================================
