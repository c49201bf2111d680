----------------------------- MODULE CompDecoder -----------------------------
(***************************************************************************)
(* Comp_Decoder (rtl/submodules/apb_bus/Comp_Decoder.v): the address       *)
(* decoder.  It selects a slave by PADDR alone, whether or not the master  *)
(* has a transfer on the bus, and routes that slave's PREADY and PRDATA    *)
(* back.  Its last branch assigns PSELx only: for an address of no slave   *)
(* PREADY and PRDATA are inferred latches.                                 *)
(***************************************************************************)
EXTENDS Integers

Slaves == {"MEM", "MULT", "UART"}

MEM_BASE_ADDR  == 0
MULT_BASE_ADDR == 256     \* 10'h100
UART_BASE_ADDR == 512     \* 10'h200
MAX_ADDR       == 767     \* 10'h2FF

\* The slave whose PSELx bit is set, "NONE" for 3'b000.
Select(addr) ==
    IF addr >= MEM_BASE_ADDR /\ addr < MULT_BASE_ADDR THEN "MEM"
    ELSE IF addr >= MULT_BASE_ADDR /\ addr < UART_BASE_ADDR THEN "MULT"
    ELSE IF addr >= UART_BASE_ADDR /\ addr < MAX_ADDR THEN "UART"
    ELSE "NONE"

Mapped(addr) == Select(addr) # "NONE"

PSEL(addr, s) == Select(addr) = s
=============================================================================
