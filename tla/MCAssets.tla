----------------------------- MODULE MCAssets -----------------------------
(* Instances of Assets for TLC.                                            *)
EXTENDS Assets, TLC

Symmetry == Permutations(Images) \union Permutations(Documents)
                \union Permutations(Requests) \union Permutations(Cleaners)
============================================================================
