-------------------------- MODULE MCIndexPipeline ---------------------------
(***************************************************************************)
(* IndexPipeline with three purchases of two members (1 and 3 are one      *)
(* member's), a text that is cut into two pieces by one model and not by   *)
(* the other, and two contents of the CSV files.                           *)
(***************************************************************************)
EXTENDS IndexPipeline, TLC

CONSTANTS u1, u2, short, long, s1, l1, l2, small, wide, large, now, then

MCBuyer == (1 :> u1) @@ (2 :> u2) @@ (3 :> u1)

MCDim == [m \in Models |-> IF m = large THEN 2 ELSE 1]

MCSplit ==
  [m \in Models |->
     (short :> <<s1>>) @@ (long :> IF m = large THEN <<l1, l2>> ELSE <<l1>>)]

MCTokens == (s1 :> 1) @@ (l1 :> 1) @@ (l2 :> 2)

Row(body, held) == [body |-> body, is_holdout |-> held]

FirstLoad ==
  [reviews |-> (1 :> NoRow) @@ (2 :> Row(short, FALSE)) @@ (3 :> Row(short, FALSE)),
   products |-> (1 :> NoRow)]

SecondLoad ==
  [reviews |-> (1 :> Row(long, FALSE)) @@ (2 :> Row(short, FALSE)) @@ (3 :> NoRow),
   products |-> (1 :> then)]

BothLoads == {FirstLoad, SecondLoad}
OneLoad == {SecondLoad}

SingleJobs == {<<job>> : job \in Jobs}
InOrder == {Documented, <<"load">>, <<"embed">>}

EmptyMeta == [model |-> NoRow, dim |-> NoRow, source |-> NoRow]
=============================================================================
