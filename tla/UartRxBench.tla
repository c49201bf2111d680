---------------------------- MODULE UartRxBench ------------------------------
(***************************************************************************)
(* UartRx on a line.  A sender puts frames on it, good ones and ones with  *)
(* a wrong parity or stop bit, back to back or with pauses; a bit may have *)
(* one disturbed cycle; between frames the line may drop for less than     *)
(* half a bit.  After such a drop, and after a frame without a stop bit,   *)
(* the line is high for Recovery(prescale) cycles before the next frame.   *)
(***************************************************************************)
EXTENDS UartRx

CONSTANTS Bytes, NoByte, Prescales, Recovery(_),
    Noise       \* a bit of a frame may have one disturbed cycle

VARIABLES
    wave,       \* the rest of the waveform, bit by bit
    flip,       \* the line is disturbed in this cycle
    due         \* a byte sent that the receiver has not delivered yet

bench == <<wave, flip, due>>
vars == <<uart_rx, bench>>

ASSUME BenchAssumption ==
    /\ Bytes \subseteq Byte /\ NoByte \notin Bytes
    /\ Prescales \subseteq 1..63
    /\ \A p \in Prescales : Recovery(p) \in Nat \ {0}
    /\ Noise \in BOOLEAN

Settings == [prescale : Prescales, parity_enable : BOOLEAN, parity_type : Bit]

\* A level, for so many cycles; one of them may be disturbed.
Piece == [level : Bit, cycles : Nat \ {0}, noise : BOOLEAN]

TypeOK ==
    /\ UartRxTypeOK
    /\ wave \in Seq(Piece) /\ flip \in BOOLEAN
    /\ due \in Bytes \cup {NoByte}

level == IF wave = <<>> THEN 1 ELSE Head(wave).level
RX_IN == IF flip THEN 1 - level ELSE level

BenchInit ==
    /\ Quiescent /\ setting \in Settings
    /\ wave = <<>> /\ flip = FALSE /\ due = NoByte

FrameBit(lev) == [level |-> lev, cycles |-> setting.prescale, noise |-> Noise]
Steady(lev, cyc) == [level |-> lev, cycles |-> cyc, noise |-> FALSE]
Rest == Steady(1, Recovery(setting.prescale))

\* The frame of a byte, with these values added to its parity and stop bit.
Frame(byte, bad_parity, bad_stop) ==
    LET par == (ParityOf(byte, setting.parity_type) + bad_parity) % 2
    IN  <<FrameBit(0)>> \o [b \in 1..8 |-> FrameBit(byte[b])]
        \o (IF setting.parity_enable THEN <<FrameBit(par)>> ELSE <<>>)
        \o (IF bad_stop = 1 THEN <<FrameBit(0), Rest>> ELSE <<FrameBit(1)>>)

Glitch(cyc) == <<Steady(0, cyc), Rest>>

\* The last cycle of the waveform.
Ending == Len(wave) <= 1 /\ (wave # <<>> => Head(wave).cycles = 1)

\* The receiver has delivered the byte that was due.
StillDue == IF data_valid THEN NoByte ELSE due

Begin ==
    /\ Ending /\ flip' = FALSE
    /\ \/ wave' = <<>> /\ due' = StillDue
       \/ \E byte \in Bytes, bad_parity, bad_stop \in Bit :
            /\ bad_parity = 1 => setting.parity_enable
            /\ wave' = Frame(byte, bad_parity, bad_stop)
            /\ due' = IF bad_parity + bad_stop = 0 THEN byte ELSE NoByte
       \/ \E cyc \in 1..(setting.prescale \div 2 - 1) :
            wave' = Glitch(cyc) /\ due' = StillDue

\* The next bit, whose first cycle is not disturbed.
NextBit ==
    /\ ~Ending /\ Head(wave).cycles = 1
    /\ wave' = Tail(wave) /\ flip' = FALSE /\ due' = StillDue

\* The next cycle of a bit; the first and the last are never disturbed.
SameBit ==
    LET now == Head(wave) IN
    /\ wave # <<>> /\ now.cycles > 1
    /\ flip' \in BOOLEAN
    /\ flip' => now.noise /\ now.cycles > 2
    /\ wave' = <<[now EXCEPT !.cycles = @ - 1, !.noise = @ /\ ~flip']>> \o Tail(wave)
    /\ due' = StillDue

Clock == Tick(RX_IN) /\ (Begin \/ NextBit \/ SameBit)

BenchReset == Reset /\ wave' = <<>> /\ flip' = FALSE /\ due' = NoByte

Next == Clock \/ BenchReset

\* The clock never stops.
Spec == BenchInit /\ [][Next]_vars /\ WF_vars(Clock)

-----------------------------------------------------------------------------

\* What the receiver delivers is the byte of the frame on the line, a good one,
\* and it delivers it once.
OnlySentBytes == data_valid => P_DATA = due

\* A good frame is delivered before it ends: no byte is lost, whatever came
\* before it.
DeliveredInTime == Ending /\ due # NoByte => data_valid

\* The receiver never stays out of idle: it is ready for the next frame.
BackToIdle == rstate # "IDLE" ~> rstate = "IDLE"
=============================================================================
