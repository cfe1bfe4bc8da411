-------------------------- MODULE MCRemoteCommands --------------------------
(* RemoteCommands on small sets; timeouts in the code's order, 25 s < 30 s. *)
EXTENDS RemoteCommands, TLC

MCSymmetry == Permutations(Commands) \cup Permutations(Conns) \cup Permutations(Nodes)
=============================================================================
