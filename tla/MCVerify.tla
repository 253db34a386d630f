------------------------------ MODULE MCVerify ------------------------------
(* The instance of MCIndexPipeline, with verify.py run between its scripts. *)
EXTENDS MCIndexPipeline, Verify

(* A purchase more than in MCIndexPipeline: one member has three.            *)
FourBuyers == MCBuyer @@ (4 :> u1)

LaterLoads ==
  {[reviews |-> (3 :> Row(short, FALSE)) @@ (4 :> NoRow) @@ load.reviews,
    products |-> load.products] : load \in BothLoads}
=============================================================================
