-------------------------- MODULE MCOAuthProvider --------------------------
(* Instances of OAuthProvider for TLC.                                     *)
EXTENDS OAuthProvider, TLC

(* Secrets are drawn at random, and accounts, households, clients and      *)
(* calls are interchangeable.                                              *)
MCSymmetry ==
    Permutations(Users) \union Permutations(Households) \union Permutations(Clients)
        \union Permutations(Requests) \union Permutations(Codes)
        \union Permutations(Tokens) \union Permutations(Exchanges)
=============================================================================
