---------------------------- MODULE MCDelivery ----------------------------
EXTENDS Delivery, TLC
CONSTANTS u1, u2, s1, s2
MCMembers == {u1, u2}
MCSessions == {s1, s2}
\* One session for each of the two members.
MCOwner == s1 :> u1 @@ s2 :> u2
\* The two members can be swapped together with their sessions.
Swap == u1 :> u2 @@ u2 :> u1 @@ s1 :> s2 @@ s2 :> s1
DeliverySymmetry == Permutations(Tokens) \cup Permutations(Calls) \cup {Swap}
=============================================================================
