------------------------- MODULE MCEthernetServer -------------------------
(* EthernetServer for TLC: one byte of data per word is enough, since the  *)
(* server's bookkeeping only asks whether a buffer is empty.               *)
EXTENDS EthernetServer, TLC

MCWords == [c \in Conns |-> {<<49>>}]
Symmetry == Permutations(Conns)
=============================================================================
