--------------------------- MODULE DualPortMemory ---------------------------
(***************************************************************************)
(* synch_dual_port_memory (rtl/submodules/memory): port A belongs to the   *)
(* MAC accelerator, port B to the APB slave of the RAM.  A write is NoWrite *)
(* (write enable low) or [addr, data].  The array has no reset.            *)
(***************************************************************************)
CONSTANTS Data, NoWrite

VARIABLES
    mem,            \* memory
    b_read_data     \* the read register of port B

Write(m, w) == IF w = NoWrite THEN m ELSE [m EXCEPT ![w.addr] = w.data]

\* Both ports write at the same edge from two processes: for the same
\* address either may be the last one.
Tick(a_write, b_write, b_addr) ==
    /\ mem' \in {Write(Write(mem, a_write), b_write),
                 Write(Write(mem, b_write), a_write)}
    /\ b_read_data' = mem[b_addr]
=============================================================================
