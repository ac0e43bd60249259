---------------------------- MODULE MCStatTracker ----------------------------
(* Instances of StatTracker for TLC. *)
EXTENDS StatTracker, TLC

CONSTANTS u1, u2, s1, s2

\* Users are interchangeable, and so are the kinds of statistics.
Symmetry == Permutations(Users) \union Permutations(StatTypes)
=============================================================================
