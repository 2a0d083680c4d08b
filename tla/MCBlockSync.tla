---------------------------- MODULE MCBlockSync ----------------------------
(***************************************************************************)
(* Model checking of BlockSync with two peers, each on a branch of its own *)
(* or both on one branch.                                                  *)
(***************************************************************************)
EXTENDS BlockSync, TLC

CONSTANTS p1, p2, main, side

OneBranch == p1 :> main @@ p2 :> main

OnePeer == p1 :> main

TwoBranches == p1 :> main @@ p2 :> side
=============================================================================
