------------------------------ MODULE MCSocUart ------------------------------
EXTENDS SocUart

MCImage == [a \in Addr |-> Zero]
=============================================================================
