---------------------------- MODULE UartLoopback ----------------------------
(***************************************************************************)
(* UART_SYSTEM with its output wired to its input, as in the repository's  *)
(* test bench (tb/submodules_tb/UART_SYSTEM_tb.v): transmitter and         *)
(* receiver on one clock and one CTRL register.  The program writes CTRL   *)
(* once, with the prescale of the bench, and then stores bytes, each when  *)
(* transmitter and receiver are both idle.                                 *)
(***************************************************************************)
EXTENDS UartTxBench

CONSTANT Prescale       \* 1 to 63

VARIABLES
    setting, rstate, edge_count, bit_count, Samples, sampled_bit,
    P_DATA, strt_glitch, par_err, stp_err

Rx == INSTANCE UartRx

loopback == <<vars, Rx!uart_rx>>

\* The receiver is out of reset with CTRL 0.
LoopInit ==
    /\ BenchInit
    /\ Rx!Quiescent
    /\ setting = [prescale |-> 0, parity_enable |-> FALSE, parity_type |-> 0]

\* The fields of CTRL that the receiver has; the transmitter takes its own in
\* RegisterTick.
SettingTick ==
    setting' = IF wr # NoWrite /\ wr.reg = "CTRL"
               THEN [prescale |-> Prescale, parity_enable |-> wr.enable,
                     parity_type |-> IF wr.odd THEN 1 ELSE 0]
               ELSE setting

\* The line of this cycle is the transmitter's output.
ReceiverTick ==
    /\ Rx!FsmTick(TX_OUT)
    /\ Rx!CounterTick(TX_OUT)
    /\ Rx!SamplerTick(TX_OUT)
    /\ Rx!DeserializerTick
    /\ Rx!ChecksTick(TX_OUT)
    /\ SettingTick

Program ==
    /\ Drive
    /\ wr = NoWrite /\ wr' # NoWrite =>
         IF setting.prescale = 0 THEN wr'.reg = "CTRL"
         ELSE wr'.reg = "TX" /\ tstate = "IDLE" /\ ~busy /\ rstate = "IDLE"

LoopClock == Tick(wr) /\ ReceiverTick /\ Program

\* The clock never stops.
LoopSpec == LoopInit /\ [][LoopClock]_loopback /\ WF_loopback(LoopClock)

-----------------------------------------------------------------------------
\* The bench's comment: since the output is connected directly to the input,
\* the UART receives the byte that it transmitted.
LoopbackReceives ==
    \A b \in Bytes : tstate = "start" /\ tx_reg = b ~> Rx!data_valid /\ P_DATA = b
=============================================================================
