------------------------------- MODULE UartRx --------------------------------
(***************************************************************************)
(* The receiver, UART_RX.v: state machine, edge and bit counters, sampler, *)
(* deserializer, and the checks of start, parity and stop bit.  One Tick   *)
(* per clock, given the level of the line in this cycle.  A bit lasts      *)
(* prescale cycles.                                                        *)
(***************************************************************************)
EXTENDS Integers, Sequences

VARIABLES
    setting,            \* [prescale, parity_enable, parity_type] of ctrl_reg
    rstate,             \* current_state of uart_rx_fsm
    edge_count, bit_count,
    Samples, sampled_bit,
    P_DATA,             \* bit 0 first
    strt_glitch, par_err, stp_err

uart_rx == <<setting, rstate, edge_count, bit_count, Samples, sampled_bit, P_DATA,
             strt_glitch, par_err, stp_err>>

Bit == {0, 1}
Byte == [1..8 -> Bit]
RxStates == {"IDLE", "start", "data", "parity", "stop", "err_chk"}

UartRxTypeOK ==
    /\ setting \in [prescale : 0..63, parity_enable : BOOLEAN, parity_type : Bit]
    /\ rstate \in RxStates
    /\ edge_count \in 0..63 /\ bit_count \in 0..15
    /\ Samples \in [0..2 -> Bit] /\ sampled_bit \in Bit
    /\ P_DATA \in Byte
    /\ strt_glitch \in Bit /\ par_err \in Bit /\ stp_err \in Bit

Quiescent ==
    /\ rstate = "IDLE" /\ edge_count = 0 /\ bit_count = 0
    /\ Samples = [s \in 0..2 |-> 0] /\ sampled_bit = 0
    /\ P_DATA = [b \in 1..8 |-> 0]
    /\ strt_glitch = 0 /\ par_err = 0 /\ stp_err = 0

\* Six-bit subtraction: a prescale of 0 or 1 wraps.
check_edge == (setting.prescale + 63) % 64
error_check_edge == (setting.prescale + 62) % 64

\* Five-bit.
half_edges == ((setting.prescale \div 2) + 31) % 32
half_edges_n1 == (half_edges + 31) % 32
half_edges_p1 == (half_edges + 1) % 32

\* Number of the last bit before the stop bit.
bits == IF setting.parity_enable THEN 10 ELSE 9

\* The outputs of the state machine for a line level.
starting(line) == rstate = "IDLE" /\ line = 0
edge_bit_en(line) == rstate \in {"start", "data", "parity", "stop"} \/ starting(line)
dat_samp_en(line) == rstate # "IDLE" \/ starting(line)
strt_chk_en(line) == rstate = "start" \/ starting(line)
data_valid == rstate = "err_chk" /\ par_err = 0 /\ stp_err = 0

\* Seeded bug: the machine waits for the end of the stop bit.
StopEdge_Late == check_edge

\* The stop bit is left one cycle before its end.
StopEdge == error_check_edge

\* Seeded bug: a glitch is taken for a start bit.
AfterStart_Unchecked == "data"

AfterStart == IF strt_glitch = 0 THEN "data" ELSE "IDLE"

\* Seeded bug: the machine waits for the next start bit where it is.
AfterCheck_Stays(line) == IF line = 0 THEN "start" ELSE "err_chk"

\* The next frame may begin at once.
AfterCheck(line) == IF line = 0 THEN "start" ELSE "IDLE"

FsmTick(line) ==
    rstate' =
        CASE rstate = "IDLE"   -> IF line = 0 THEN "start" ELSE "IDLE"
          [] rstate = "start"  -> IF bit_count = 0 /\ edge_count = check_edge
                                  THEN AfterStart ELSE "start"
          [] rstate = "data"   -> IF bit_count = 8 /\ edge_count = check_edge
                                  THEN IF setting.parity_enable THEN "parity" ELSE "stop"
                                  ELSE "data"
          [] rstate = "parity" -> IF bit_count = 9 /\ edge_count = check_edge
                                  THEN "stop" ELSE "parity"
          [] rstate = "stop"   -> IF bit_count = bits /\ edge_count = StopEdge
                                  THEN "err_chk" ELSE "stop"
          [] OTHER             -> AfterCheck(line)

EdgeDone == edge_count = check_edge

CounterTick(line) ==
    IF edge_bit_en(line)
    THEN /\ edge_count' = IF EdgeDone THEN 0 ELSE (edge_count + 1) % 64
         /\ bit_count' = IF EdgeDone THEN (bit_count + 1) % 16 ELSE bit_count
    ELSE edge_count' = 0 /\ bit_count' = 0

\* Seeded bug: the ones are counted and nothing is decided.
Majority_Count(samples) == samples[0] + samples[1] + samples[2]

Majority(samples) == IF samples[0] + samples[1] + samples[2] >= 2 THEN 1 ELSE 0

\* Which of the three samples is taken in this cycle.
Slots ==
    IF edge_count = half_edges_n1 THEN {0}
    ELSE IF edge_count = half_edges THEN {1}
    ELSE IF edge_count = half_edges_p1 THEN {2} ELSE {}

SamplerTick(line) ==
    IF dat_samp_en(line)
    THEN /\ Samples' = [s \in 0..2 |-> IF s \in Slots THEN line ELSE Samples[s]]
         /\ sampled_bit' = Majority(Samples)
    ELSE Samples' = [s \in 0..2 |-> 0] /\ sampled_bit' = 0

DeserializerTick ==
    P_DATA' = IF rstate = "data" /\ edge_count = check_edge
              THEN [b \in 1..8 |-> IF b = 8 THEN sampled_bit ELSE P_DATA[b + 1]]
              ELSE P_DATA

\* Even parity makes the number of ones even, odd parity odd.
ParityOf(byte, type) ==
    (byte[1] + byte[2] + byte[3] + byte[4] + byte[5] + byte[6] + byte[7] + byte[8] + type) % 2

ChecksTick(line) ==
    /\ strt_glitch' = IF strt_chk_en(line) THEN sampled_bit ELSE strt_glitch
    /\ par_err' = IF rstate = "parity"
                  THEN (ParityOf(P_DATA, setting.parity_type) + sampled_bit) % 2 ELSE par_err
    /\ stp_err' = IF rstate = "stop" THEN 1 - sampled_bit ELSE stp_err

Tick(line) ==
    /\ FsmTick(line)
    /\ CounterTick(line)
    /\ SamplerTick(line)
    /\ DeserializerTick
    /\ ChecksTick(line)
    /\ UNCHANGED setting

Reset ==
    /\ rstate' = "IDLE" /\ edge_count' = 0 /\ bit_count' = 0
    /\ Samples' = [s \in 0..2 |-> 0] /\ sampled_bit' = 0
    /\ P_DATA' = [b \in 1..8 |-> 0]
    /\ strt_glitch' = 0 /\ par_err' = 0 /\ stp_err' = 0
    /\ UNCHANGED setting
=============================================================================
