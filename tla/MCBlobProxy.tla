----------------------------- MODULE MCBlobProxy -----------------------------
(* BlobProxy on small sets. *)
EXTENDS BlobProxy, TLC

Slots == Permutations(Handler) \cup Permutations(TempName)
=============================================================================
