------------------------------ MODULE ApbSlave ------------------------------
(***************************************************************************)
(* APB_slave (rtl/submodules/apb_bus/APB_Slave.v): the completer in front  *)
(* of the RAM, of the MAC configuration registers and of the UART.  The    *)
(* SoC holds three of them, so the module is a set of operators of the     *)
(* state of one slave.                                                     *)
(***************************************************************************)

SlaveState == {"IDLE", "WAIT", "ACCESS"}

\* Seeded bug: ACCESS always returns to IDLE.
NextState_NoBackToBack(st, PSEL, PENABLE) ==
    IF st = "WAIT" THEN "ACCESS"
    ELSE IF st = "IDLE" /\ PSEL /\ ~PENABLE THEN "WAIT" ELSE "IDLE"

\* next_state.  A slave leaves IDLE, and skips IDLE after ACCESS, when it is
\* selected and PENABLE is low.
NextState(st, PSEL, PENABLE) ==
    IF st = "WAIT" THEN "ACCESS"
    ELSE IF PSEL /\ ~PENABLE THEN "WAIT" ELSE "IDLE"

PREADY(st) == st = "ACCESS"

\* PRDATA: what the peripheral shows, in the ACCESS state of a read.
PRDATA(st, PWRITE, i_rdata, zero) ==
    IF st = "ACCESS" /\ ~PWRITE THEN i_rdata ELSE zero

\* Seeded bug: the strobe is not gated by the ACCESS phase.
WriteStrobe_NoEnable(PWRITE, PSEL, PENABLE) == PWRITE /\ PSEL

\* o_write_slave: the write strobe to the peripheral.
WriteStrobe(PWRITE, PSEL, PENABLE) == PWRITE /\ PSEL /\ PENABLE
=============================================================================
