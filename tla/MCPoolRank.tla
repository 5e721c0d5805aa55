------------------------------ MODULE MCPoolRank ------------------------------
(* Two T2 resolvers and one T1; a query ends soon or late.  Two queries    *)
(* are kept, so that averages are of one query or two; of the four tests   *)
(* one is a second test.                                                   *)
EXTENDS PoolRank

CONSTANTS r1, r2, r3

MCT1 == <<r1>>
MCT2 == <<r2, r3>>
MCLatencies == {10, 100}
=============================================================================
