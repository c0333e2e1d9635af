-------------------------- MODULE MCExtensionServer --------------------------
(* ExtensionServer for TLC: connections and servers are interchangeable.     *)
EXTENDS ExtensionServer, TLC

ServerSymmetry == Permutations(Clients) \cup Permutations(Servers)
=============================================================================
