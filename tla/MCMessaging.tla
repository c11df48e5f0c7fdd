---------------------------- MODULE MCMessaging -----------------------------
(* Small instances of Messaging for TLC: two members, a client id each, and   *)
(* requests that collide on a key, follow each other or report reads.         *)
EXTENDS Messaging, TLC

CONSTANTS r1, r2, r3, alice, bob

\* Requests differ only in their names, and so do members.
Symmetry == Permutations({r1, r2, r3}) \cup Permutations({alice, bob})
=============================================================================
