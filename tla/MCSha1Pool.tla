----------------------------- MODULE MCSha1Pool -----------------------------
(* Sha1Pool with interchangeable owners, hashers and pool objects. *)
EXTENDS Sha1Pool, TLC

Perms == Permutations(Owners) \cup Permutations(Hashers) \cup Permutations(Pools)
=============================================================================
