---------------------------- MODULE MCMembership ----------------------------
(* Instances of Membership for TLC.                                        *)
EXTENDS Membership, TLC

(* Accounts, invitations and requests are interchangeable.                 *)
MCSymmetry == Permutations(Users) \union Permutations(Invites) \union Permutations(Joins)
=============================================================================
