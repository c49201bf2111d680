----------------------------- MODULE UartTxBench -----------------------------
(***************************************************************************)
(* UartTx behind its APB slave, under a program that stores whenever it    *)
(* likes to, to both registers, as sw/generate_hex.py does without looking *)
(* at tx_busy.  A store is a strobe of one or two cycles (WriteStrobe of   *)
(* ApbSlave); the setup phase of the bus leaves a cycle free between two.  *)
(***************************************************************************)
EXTENDS UartTx

CONSTANT StrobeLengths

VARIABLES
    wr,         \* the register write of this cycle
    left        \* strobe cycles left after this one

bench == <<wr, left>>
vars == <<uart_tx, bench>>

Writes ==
    [reg : {"TX"}, data : Bytes] \cup [reg : {"CTRL"}, enable : BOOLEAN, odd : BOOLEAN]

ASSUME BenchAssumption ==
    /\ Bytes \subseteq [1..8 -> Bit]
    /\ StrobeLengths \subseteq {1, 2}
    /\ NoWrite \notin Writes

TypeOK ==
    /\ UartTxTypeOK
    /\ wr \in Writes \cup {NoWrite}
    /\ left \in 0..1

BenchInit == Init /\ wr = NoWrite /\ left = 0

\* The next cycle's write.
Drive ==
    \/ wr # NoWrite /\ left > 0 /\ UNCHANGED wr /\ left' = left - 1
    \/ wr # NoWrite /\ left = 0 /\ wr' = NoWrite /\ left' = 0
    \/ wr = NoWrite /\ UNCHANGED bench
    \/ /\ wr = NoWrite
       /\ \E w \in Writes, length \in StrobeLengths :
            wr' = w /\ left' = length - 1

Clock == Tick(wr) /\ Drive

BenchReset == Reset /\ wr' = NoWrite /\ left' = 0

Next == Clock \/ BenchReset

\* The clock never stops.
Spec == BenchInit /\ [][Next]_vars /\ WF_vars(Clock)

-----------------------------------------------------------------------------
(* The frame on the line.  The cycle after a stop bit is the one in which  *)
(* busy is still up; the serializer shifts out of the front of data_v.     *)

part == IF tstate = "IDLE" THEN (IF busy THEN "end" ELSE "rest") ELSE tstate

bits ==
    IF tstate = "start" THEN data_v
    ELSE IF tstate = "data" THEN SubSeq(data_v, 1, 8 - ser_count) ELSE SubSeq(data_v, 1, 1)

Serial == INSTANCE SerialLine WITH
    line <- TX_OUT, TX <- tx_reg, checked <- par_data,
    sum <- IF tstate = "parity" THEN parity ELSE 0

\* Whatever is stored and whenever, and CTRL written in the middle of a frame
\* too, what goes out are frames, bit for bit, with the byte that SerialLine
\* says, unless a reset cuts them off.
SendsFrames == Serial!SafeSpec

\* Every frame that is begun ends.
FramesEnd == tstate # "IDLE" ~> tstate = "IDLE"
=============================================================================
