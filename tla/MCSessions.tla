----------------------------- MODULE MCSessions -----------------------------
(* Sessions on a small instance.                                           *)
EXTENDS Sessions
=============================================================================
