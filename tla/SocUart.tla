------------------------------- MODULE SocUart -------------------------------
(***************************************************************************)
(* The bus fabric with the transmitter of the UART behind it               *)
(* (RISC-V_based_Soc.v, UART_SYSTEM.V): the strobe of the UART's slave     *)
(* writes the register that PADDR[3:0] names.                              *)
(***************************************************************************)
EXTENDS SocBus

VARIABLES
    tx_reg, parity_enable, parity_type, tstate, busy, ser_count, data_v,
    par_data, parity, TX_OUT

uart == <<tx_reg, parity_enable, parity_type, tstate, busy, ser_count, data_v,
          par_data, parity, TX_OUT>>

\* wr_data[7:0], bit 0 first.
ByteOf(word) == [i \in 1..8 |-> (word \div 2^(i - 1)) % 2]

Uart == INSTANCE UartTx WITH Bytes <- {ByteOf(d) : d \in Data}

TX_ADDR   == 0
CTRL_ADDR == 8

uart_write ==
    IF Strobe("UART") /\ addr_reg % 16 = TX_ADDR
    THEN [reg |-> "TX", data |-> ByteOf(wdata_reg)]
    ELSE IF Strobe("UART") /\ addr_reg % 16 = CTRL_ADDR
    THEN [reg |-> "CTRL", enable |-> wdata_reg % 2 = 1, odd |-> (wdata_reg \div 2) % 2 = 1]
    ELSE NoWrite

SocInit == Init /\ Uart!Init
SocClock == Clock /\ Uart!Tick(uart_write)
SocReset == Reset /\ Uart!Reset

SocNext == SocClock \/ SocReset

SocSpec == SocInit /\ [][SocNext]_<<vars, uart>>

\* README.md:82: a write to 0x800 immediately triggers the transmission, so
\* the data bits of a frame are those of the byte last stored.
FrameCarriesStore == tstate = "data" /\ ser_count = 0 => data_v = tx_reg
=============================================================================
