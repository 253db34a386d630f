---------------------------- MODULE MCPurchasing ----------------------------
(***************************************************************************)
(* Purchasing with small sets: u1 owns two active pets, u2 one, u3 only an *)
(* inactive one.                                                           *)
(***************************************************************************)
EXTENDS Purchasing, TLC

CONSTANTS u1, u2, u3

MCOwner == (1 :> u1) @@ (2 :> u1) @@ (3 :> u2) @@ (4 :> u3)

MCInitialCredit == (u1 :> 4) @@ (u2 :> 2) @@ (u3 :> 1)
=============================================================================
