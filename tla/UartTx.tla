------------------------------- MODULE UartTx -------------------------------
(***************************************************************************)
(* The transmit side of the UART: the TX and CTRL registers of             *)
(* uart_reg_file and UART_TX (rtl/submodules/uart), its state machine,     *)
(* serializer, parity and output multiplexer.  One bit is sent per clock.  *)
(*                                                                         *)
(* The input of a cycle is NoWrite or a write to one of the registers:     *)
(* [reg |-> "TX", data |-> a byte] or [reg |-> "CTRL", enable |-> ...,     *)
(* odd |-> ...].  A byte is a sequence of eight bits, bit 0 first.         *)
(***************************************************************************)
EXTENDS Integers, Sequences

CONSTANTS Bytes, NoWrite

VARIABLES
    tx_reg, parity_enable, parity_type,     \* uart_reg_file
    tstate, busy,                           \* uart_tx_fsm: current_state, busy
    ser_count, data_v,                      \* Serializer
    par_data, parity,                       \* parity_calc: DATA_V, parity
    TX_OUT                                  \* mux

uart_tx == <<tx_reg, parity_enable, parity_type, tstate, busy, ser_count,
             data_v, par_data, parity, TX_OUT>>

Bit == {0, 1}
ZeroByte == [i \in 1..8 |-> 0]

UartTxTypeOK ==
    /\ tx_reg \in Bytes \cup {ZeroByte}
    /\ {parity_enable, parity_type, busy} \subseteq BOOLEAN
    /\ tstate \in {"IDLE", "start", "data", "parity", "stop"}
    /\ ser_count \in 0..7
    /\ data_v \in [1..8 -> Bit]
    /\ par_data \in Bytes \cup {ZeroByte}
    /\ {parity, TX_OUT} \subseteq Bit

Init ==
    /\ tx_reg = ZeroByte
    /\ parity_enable = FALSE /\ parity_type = FALSE
    /\ tstate = "IDLE" /\ busy = FALSE
    /\ ser_count = 0 /\ data_v = ZeroByte
    /\ par_data = ZeroByte /\ parity = 0
    /\ TX_OUT = 0

-----------------------------------------------------------------------------

valid_tx(w) == w # NoWrite /\ w.reg = "TX"

\* Seeded bug: the counter has three bits and never gets there.
ser_done_Eight == ser_count = 8

ser_done == ser_count = 7
Ser_enable == tstate = "data" /\ ~ser_done

\* The exclusive or of the bits; parity_type 0 is even parity, 1 is odd.
ParityOf(byte, odd) ==
    (byte[1] + byte[2] + byte[3] + byte[4] + byte[5] + byte[6] + byte[7] + byte[8]
       + (IF odd THEN 1 ELSE 0)) % 2

RegisterTick(w) ==
    /\ tx_reg' = IF valid_tx(w) THEN w.data ELSE tx_reg
    /\ IF w # NoWrite /\ w.reg = "CTRL"
       THEN parity_enable' = w.enable /\ parity_type' = w.odd
       ELSE UNCHANGED <<parity_enable, parity_type>>

\* busy is a register: it follows the state by one cycle.
FsmTick(w) ==
    /\ tstate' = CASE tstate = "IDLE"  -> IF valid_tx(w) THEN "start" ELSE "IDLE"
                   [] tstate = "start" -> "data"
                   [] tstate = "data"  -> IF ~ser_done THEN "data"
                                          ELSE IF parity_enable THEN "parity" ELSE "stop"
                   [] tstate = "parity" -> "stop"
                   [] tstate = "stop"   -> "IDLE"
    /\ busy' = (tstate # "IDLE")

\* Seeded bugs: nothing is shifted in; a store in the middle of a frame, when
\* busy is up, replaces the byte that is being sent.
SerializerTick_NoFill(w) ==
    /\ data_v' = IF valid_tx(w) /\ ~busy THEN tx_reg
                 ELSE IF Ser_enable THEN Tail(data_v) ELSE data_v
    /\ ser_count' = IF Ser_enable THEN (ser_count + 1) % 8 ELSE 0

SerializerTick_Busy(w) ==
    /\ data_v' = IF valid_tx(w) THEN tx_reg
                 ELSE IF Ser_enable THEN Append(Tail(data_v), 0) ELSE data_v
    /\ ser_count' = IF Ser_enable THEN (ser_count + 1) % 8 ELSE 0

\* tx_data is tx_reg as it was before this edge.
SerializerTick(w) ==
    /\ data_v' = IF valid_tx(w) /\ ~busy THEN tx_reg
                 ELSE IF Ser_enable THEN Append(Tail(data_v), 0) ELSE data_v
    /\ ser_count' = IF Ser_enable THEN (ser_count + 1) % 8 ELSE 0

ParityTick(w) ==
    /\ par_data' = IF valid_tx(w) /\ ~busy THEN tx_reg ELSE par_data
    /\ parity' = IF parity_enable THEN ParityOf(par_data, parity_type) ELSE parity

MuxTick ==
    TX_OUT' = CASE tstate = "start"  -> 0
                [] tstate = "data"   -> data_v[1]
                [] tstate = "parity" -> parity
                [] tstate \in {"IDLE", "stop"} -> 1

Tick(w) ==
    /\ RegisterTick(w)
    /\ FsmTick(w)
    /\ SerializerTick(w)
    /\ ParityTick(w)
    /\ MuxTick

\* RST low.
Reset ==
    /\ tx_reg' = ZeroByte
    /\ parity_enable' = FALSE /\ parity_type' = FALSE
    /\ tstate' = "IDLE" /\ busy' = FALSE
    /\ ser_count' = 0 /\ data_v' = ZeroByte
    /\ par_data' = ZeroByte /\ parity' = 0
    /\ TX_OUT' = 0
=============================================================================
