--------------------------- MODULE MCFriendships ----------------------------
(* Instances of Friendships for TLC.                                         *)
EXTENDS Friendships, TLC

\* Handlers are interchangeable.
Symmetry == Permutations(Handlers)
=============================================================================
