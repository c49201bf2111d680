------------------------------ MODULE MCSocBus ------------------------------
(* Constants of SocBus for TLC. *)
EXTENDS SocBus

\* The RAM starts out with zeros.
MCImage == [a \in Addr |-> Zero]
=============================================================================
