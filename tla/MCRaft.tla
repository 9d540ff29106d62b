-------------------------------- MODULE MCRaft --------------------------------
(* The servers are interchangeable: no action tells one from another.        *)
EXTENDS RaftService, TLC

Symmetry == Permutations(Servers)
================================================================================
