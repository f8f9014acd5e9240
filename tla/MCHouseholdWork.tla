-------------------------- MODULE MCHouseholdWork --------------------------
(* Instances of HouseholdWork for TLC.                                     *)
EXTENDS HouseholdWork, TLC

CONSTANTS ann, ben, guest, t1, t2, b1, b2, w1, w2

MCAskedRanges == {<<0, 1>>}

(* Ids are generated at random, so they are interchangeable, and so are    *)
(* the two members.                                                        *)
MCSymmetry ==
    Permutations(TaskIds) \union Permutations(BlockIds) \union Permutations(WorkIds)
        \union Permutations(Active)
=============================================================================
