----------------------- MODULE MCExtensionBackground ------------------------
(* ExtensionBackground on a few objects and calls. Objects are               *)
(* interchangeable; so are the calls of one kind.                            *)
EXTENDS ExtensionBackground, TLC

SocketSymmetry == Permutations(Sockets)
=============================================================================
