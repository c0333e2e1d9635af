----------------------------- MODULE MCSyncMerge -----------------------------
(* SyncMerge for TLC: ids and versions are interchangeable.                  *)
EXTENDS SyncMerge, TLC

VaultSymmetry == Permutations(Ids) \cup Permutations(Versions)
=============================================================================
