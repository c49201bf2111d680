------------------------- MODULE MCSocBusImplements -------------------------
(* Constants of SocBusImplements for TLC. *)
EXTENDS SocBusImplements

\* The RAM starts out with zeros.
MCImage == [a \in Addr |-> Zero]
=============================================================================
