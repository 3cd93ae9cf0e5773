---------------------------- MODULE MCUserSession ----------------------------
(* UserSession on small sets of users, products and outstanding requests. *)
EXTENDS UserSession, TLC

Symmetry == Permutations(Slots) \cup Permutations(Uids) \cup Permutations(Products)
==============================================================================
