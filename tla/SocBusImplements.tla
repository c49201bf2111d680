-------------------------- MODULE SocBusImplements --------------------------
(***************************************************************************)
(* SocBus implements ObiMemory.  The pending transaction is the arbiter's  *)
(* in_flight with the registers of the APB master; the value taken is the  *)
(* read register of port B, once the master is in ACCESS.                  *)
(***************************************************************************)
EXTENDS SocBus

CONSTANT NoPending

ASSUME NoPendingAssumption ==
    \A b \in Arbiter!Bus, x \in Master!Xfer :
        NoPending # [bus |-> b, addr |-> x.addr, write |-> x.write,
                     wdata |-> x.wdata]

pending ==
    IF in_flight = "NONE" THEN NoPending
    ELSE [bus |-> in_flight, addr |-> addr_reg, write |-> write_reg,
          wdata |-> wdata_reg]

taken == mstate = "ACCESS"

value == IF taken THEN b_read_data ELSE Zero

Obi == INSTANCE ObiMemory

\* The CPU and the MAC see one memory that answers requests one at a time:
\* APB phases, the free-running slave state machines, the doubled write
\* strobe and the registered read data are not visible to them.
Implements == Obi!SafeSpec
=============================================================================
