--------------------------- MODULE MCPassiveConn ---------------------------
(* PassiveConn with enough connections for one to replace another while a  *)
(* handler stops the server.                                               *)
EXTENDS PassiveConn, TLC

Symmetry == Permutations(Conns) \cup Permutations(Callers)
=============================================================================
