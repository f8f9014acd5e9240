------------------------------ MODULE MCWebApp ------------------------------
(* An instance of WebApp for TLC.                                          *)
EXTENDS WebApp, TLC

CONSTANTS i1, i2, n1, n2, k1, k2

(* Items, loads and presses are interchangeable, and so are the weeks.     *)
MCSymmetry ==
    Permutations(Items) \union Permutations(Loads) \union Permutations(Presses)
        \union Permutations(Weeks)
=============================================================================
