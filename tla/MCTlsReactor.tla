------------------------------ MODULE MCTlsReactor ------------------------------
(* Instances of TlsReactor for TLC. *)
EXTENDS TlsReactor, TLC

CONSTANTS c1, c2, t1
=================================================================================
