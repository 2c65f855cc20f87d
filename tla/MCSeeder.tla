------------------------------- MODULE MCSeeder -------------------------------
(* Instances of Seeder: two blogs; two posts of the first with the same     *)
(* slug, and a post of the second that has this slug too.                   *)
EXTENDS Seeder, TLC

CONSTANTS b1, b2, d1, d2, d3

MCBlogOf == [d \in Docs |-> IF d = d3 THEN b2 ELSE b1]
MCSlug == [d \in Docs |-> 1]
Symmetry == Permutations(Ids) \cup Permutations({d1, d2})
=============================================================================
