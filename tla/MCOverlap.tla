----------------------------- MODULE MCOverlap -----------------------------
(***************************************************************************)
(* Instances of Overlap for TLC, with reports of one patch.                *)
(***************************************************************************)
EXTENDS MCRadar, Overlap

SamePatch == [i \in FeedItems |-> {Post(g1, "PATCH", t1)}]
=============================================================================
