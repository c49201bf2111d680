-------------------------- MODULE UartRxBench_proofs --------------------------
(***************************************************************************)
(* Safety of the receiver on its line, for every prescale from 7 on, every *)
(* set of bytes, with and without noise: theorems of UartRxBench!Spec.     *)
(***************************************************************************)
EXTENDS UartRxBench, SequenceTheorems, TLAPS

\* The numbers the receiver is right for: its counters have time to sample a bit
\* and to decide, and the line rests until a false start has been left.
EnoughTime == \A p \in Prescales : p >= 7 /\ Recovery(p) > p

-----------------------------------------------------------------------------
(* The inductive invariant.                                                *)

Prescale == setting.prescale
Half == Prescale \div 2 - 1

\* A line that rests: nothing is on its way.
Resting ==
    /\ wave = <<>> /\ ~flip /\ due = NoByte
    /\ rstate = "IDLE" /\ edge_count = 0 /\ bit_count = 0

\* During a glitch, which ends before the second sample is taken.
InGlitch ==
    /\ Len(wave) = 2 /\ wave[1].level = 0 /\ ~wave[1].noise /\ wave[2] = Rest
    /\ ~flip /\ due = NoByte
    /\ edge_count + wave[1].cycles <= Half
    /\ rstate = (IF edge_count = 0 THEN "IDLE" ELSE "start") /\ bit_count = 0

\* The receiver has taken a glitch, or a missing stop bit, for a start: two of
\* its samples tell it otherwise, before the line has rested.
FalseStart ==
    /\ rstate = "start" /\ bit_count = 0
    /\ edge_count < Prescale /\ edge_count + wave[1].cycles >= Recovery(Prescale)
    /\ edge_count > Half => Samples[1] = 1
    /\ edge_count > Half + 1 => Samples[2] = 1
    /\ edge_count > Half + 2 => sampled_bit = 1
    /\ edge_count > Half + 3 => strt_glitch = 1

InRest ==
    /\ Len(wave) = 1 /\ wave[1].level = 1 /\ ~wave[1].noise
    /\ ~flip /\ due = NoByte
    /\ FalseStart \/ (rstate = "IDLE" /\ edge_count = 0 /\ bit_count \in {0, 1})

\* The level of bit n of a frame: start bit, data, parity, stop bit.
Level(byte, bad_parity, bad_stop, n) ==
    IF n = 0 THEN 0
    ELSE IF n <= 8 THEN byte[n]
    ELSE IF n < bits THEN (ParityOf(byte, setting.parity_type) + bad_parity) % 2
    ELSE 1 - bad_stop

\* The wave is the frame from bit n on, whose cycle edge_count it is.
OnLine(byte, bad_parity, bad_stop, n) ==
    /\ Len(wave) = bits + 1 + bad_stop - n
    /\ wave[1].level = Level(byte, bad_parity, bad_stop, n)
    /\ wave[1].cycles = Prescale - edge_count
    /\ \A i \in 2..Len(wave) : wave[i] = Frame(byte, bad_parity, bad_stop)[n + i]
    /\ edge_count = 0 \/ edge_count = Prescale - 1 => ~flip

\* The receiver is in the same bit.
InStep(n) ==
    /\ bit_count = n /\ edge_count < Prescale
    /\ rstate = IF n = 0 THEN IF edge_count = 0 THEN "IDLE" ELSE "start"
                ELSE IF n <= 8 THEN "data"
                ELSE IF n < bits THEN "parity"
                ELSE IF edge_count = Prescale - 1 THEN "err_chk" ELSE "stop"

Wrong(s, lev) == edge_count > Half - 1 + s /\ Samples[s] # lev

\* One sample of a bit may be wrong, and then its disturbed cycle is over.
Sampling(lev) ==
    /\ \A s, t \in 0..2 : Wrong(s, lev) /\ Wrong(t, lev) => s = t
    /\ \A s \in 0..2 : Wrong(s, lev) => ~flip /\ ~wave[1].noise
    /\ flip => ~wave[1].noise
    /\ edge_count > Half + 2 => sampled_bit = lev

\* Data bits that are in the shift register during bit n.
Shifted(n) == IF n <= 8 THEN n - 1 ELSE 8

\* What has been received of the frame.
Received(byte, bad_parity, bad_stop, n) ==
    /\ n = 0 /\ edge_count > Half + 3 => strt_glitch = 0
    /\ \A b \in 1..Shifted(n) : P_DATA[8 - Shifted(n) + b] = byte[b]
    /\ n = bits => par_err = bad_parity
    /\ n = bits /\ edge_count = Prescale - 1 => stp_err = bad_stop

InBit(byte, bad_parity, bad_stop, n) ==
    /\ bad_parity = 1 => setting.parity_enable
    /\ due = IF bad_parity + bad_stop = 0 THEN byte ELSE NoByte
    /\ OnLine(byte, bad_parity, bad_stop, n)
    /\ InStep(n)
    /\ Sampling(Level(byte, bad_parity, bad_stop, n))
    /\ Received(byte, bad_parity, bad_stop, n)

InFrame ==
    \E byte \in Bytes, bad_parity, bad_stop \in Bit, n \in 0..bits :
        InBit(byte, bad_parity, bad_stop, n)

LineInv ==
    /\ setting \in Settings
    /\ ~setting.parity_enable => par_err = 0
    /\ Resting \/ InGlitch \/ InRest \/ InFrame

RxInv == TypeOK /\ LineInv

-----------------------------------------------------------------------------
(* Numbers and levels.                                                     *)

LEMMA SettingFields ==
    ASSUME setting \in Settings
    PROVE  /\ Prescale \in Prescales /\ Prescale = setting.prescale
           /\ setting.parity_enable \in BOOLEAN /\ setting.parity_type \in Bit
  BY DEF Settings, Prescale

\* The counters' constants do not wrap, and a bit is long enough: the decision
\* on a start bit is there in its last cycle, the one on a stop bit in the
\* cycle before.
LEMMA Numbers ==
    ASSUME EnoughTime, setting \in Settings
    PROVE  /\ Prescale \in 7..63 /\ Half \in 2..30
           /\ check_edge = Prescale - 1 /\ error_check_edge = Prescale - 2
           /\ half_edges_n1 = Half - 1 /\ half_edges = Half /\ half_edges_p1 = Half + 1
           /\ Half + 4 < Prescale
           /\ Recovery(Prescale) \in Nat /\ Recovery(Prescale) > Prescale
           /\ Prescale \in Prescales
PROOF
<1>1. Prescale \in Prescales
  BY SettingFields
<1>2. Prescale \in 1..63 /\ Prescale >= 7 /\ Recovery(Prescale) \in Nat /\ Recovery(Prescale) > Prescale
  BY <1>1, BenchAssumption DEF EnoughTime
<1>3. Prescale \div 2 \in 3..31 /\ 2 * (Prescale \div 2) <= Prescale /\ Prescale <= 2 * (Prescale \div 2) + 1
  BY <1>2
<1>4. Half \in 2..30 /\ 2 * Half + 2 <= Prescale /\ Prescale <= 2 * Half + 3
  BY <1>2, <1>3 DEF Half
<1>5. half_edges = Half
  BY <1>3, <1>4 DEF half_edges, Half, Prescale
<1>6. half_edges_n1 = Half - 1 /\ half_edges_p1 = Half + 1
  BY <1>4, <1>5 DEF half_edges_n1, half_edges_p1
<1>7. check_edge = Prescale - 1 /\ error_check_edge = Prescale - 2
  BY <1>2 DEF check_edge, error_check_edge, Prescale
<1> QED
  BY <1>1, <1>2, <1>4, <1>5, <1>6, <1>7

LEMMA BitsOfFrame == bits \in {9, 10} /\ (setting.parity_enable <=> bits = 10)
  BY DEF bits

LEMMA ParityIsBit ==
    ASSUME NEW byte \in Byte, NEW odd \in Bit
    PROVE  ParityOf(byte, odd) \in Bit
PROOF
<1>1. \A n \in 1..8 : byte[n] \in Int
  BY DEF Byte, Bit
<1>2. odd \in Int
  BY DEF Bit
<1> DEFINE ones == byte[1] + byte[2] + byte[3] + byte[4] + byte[5] + byte[6] + byte[7] + byte[8] + odd
<1>3. ones \in Int
  BY <1>1, <1>2
<1>4. ones % 2 \in 0..1
  <2> HIDE DEF ones
  <2> QED
    BY <1>3
<1> QED
  BY <1>4 DEF ParityOf, Bit

LEMMA LevelIsBit ==
    ASSUME setting \in Settings, NEW byte \in Byte, NEW bad_parity \in Bit, NEW bad_stop \in Bit, NEW n \in 0..10
    PROVE  Level(byte, bad_parity, bad_stop, n) \in Bit
PROOF
<1>1. ParityOf(byte, setting.parity_type) \in Bit
  BY ParityIsBit, SettingFields
<1>2. (ParityOf(byte, setting.parity_type) + bad_parity) % 2 \in Bit
  BY <1>1 DEF Bit
<1>3. n # 0 /\ n <= 8 => byte[n] \in Bit
  BY DEF Byte
<1>4. 0 \in Bit /\ 1 - bad_stop \in Bit
  BY DEF Bit
<1> QED
  BY <1>2, <1>3, <1>4 DEF Level

\* Two right samples out of three decide.
LEMMA MajorityRight ==
    ASSUME NEW samples \in [0..2 -> Bit], NEW lev \in Bit,
           \A s, t \in 0..2 : samples[s] # lev /\ samples[t] # lev => s = t
    PROVE  Majority(samples) = lev
PROOF
<1>1. samples[0] \in {0, 1} /\ samples[1] \in {0, 1} /\ samples[2] \in {0, 1} /\ lev \in {0, 1}
  BY DEF Bit
<1>2. /\ samples[0] = lev \/ samples[1] = lev
      /\ samples[0] = lev \/ samples[2] = lev
      /\ samples[1] = lev \/ samples[2] = lev
  OBVIOUS
<1> QED
  BY <1>1, <1>2 DEF Majority

\* The received parity bit adds up to what was added to it.
LEMMA ParityDifference ==
    ASSUME NEW x \in Bit, NEW y \in Bit
    PROVE  (x + ((x + y) % 2)) % 2 = y
  BY DEF Bit

-----------------------------------------------------------------------------
(* The wave.                                                               *)

LEMMA PieceFields ==
    ASSUME NEW piece \in Piece
    PROVE  piece.level \in Bit /\ piece.cycles \in Nat \ {0} /\ piece.noise \in BOOLEAN
  BY DEF Piece

LEMMA NewPieces ==
    ASSUME setting \in Settings
    PROVE  /\ \A lev \in Bit :
                /\ FrameBit(lev) \in Piece
                /\ FrameBit(lev).level = lev /\ FrameBit(lev).cycles = Prescale
                /\ \A cyc \in Nat \ {0} : Steady(lev, cyc) \in Piece
           /\ Rest \in Piece /\ Rest.level = 1 /\ Rest.cycles = Recovery(Prescale) /\ ~Rest.noise
PROOF
<1>1. Prescale \in Nat \ {0} /\ Recovery(Prescale) \in Nat \ {0} /\ Noise \in BOOLEAN
  <2>1. Prescale \in Prescales
    BY SettingFields
  <2> QED
    BY <2>1, BenchAssumption
<1>2. 1 \in Bit
  BY DEF Bit
<1> QED
  BY <1>1, <1>2 DEF FrameBit, Steady, Rest, Piece, Prescale

\* A sequence without its first element, and with another first element.
LEMMA TailOfWave ==
    ASSUME NEW w \in Seq(Piece), w # <<>>
    PROVE  /\ Len(w) \in Nat \ {0} /\ Head(w) = w[1] /\ w[1] \in Piece
           /\ Tail(w) \in Seq(Piece) /\ Len(Tail(w)) = Len(w) - 1
           /\ \A i \in 1..Len(w) - 1 : Tail(w)[i] = w[i + 1]
  BY HeadTailProperties, EmptySeq, LenProperties, ElementOfSeq

LEMMA NewFirst ==
    ASSUME NEW w \in Seq(Piece), w # <<>>, NEW first \in Piece
    PROVE  LET v == <<first>> \o Tail(w) IN
           /\ v \in Seq(Piece) /\ v # <<>>
           /\ Len(v) = Len(w) /\ v[1] = first
           /\ \A i \in 2..Len(w) : v[i] = w[i]
PROOF
<1> DEFINE v == <<first>> \o Tail(w)
<1>1. <<first>> \in Seq(Piece) /\ Len(<<first>>) = 1 /\ <<first>>[1] = first
  OBVIOUS
<1>2. /\ Len(w) \in Nat \ {0} /\ Tail(w) \in Seq(Piece) /\ Len(Tail(w)) = Len(w) - 1
      /\ \A i \in 1..Len(w) - 1 : Tail(w)[i] = w[i + 1]
  BY TailOfWave
<1>3. /\ v \in Seq(Piece) /\ Len(v) = Len(<<first>>) + Len(Tail(w))
      /\ \A i \in 1..Len(<<first>>) + Len(Tail(w)) :
           v[i] = IF i <= Len(<<first>>) THEN <<first>>[i] ELSE Tail(w)[i - Len(<<first>>)]
  BY <1>1, <1>2, ConcatProperties
<1> HIDE DEF v
<1>4. Len(v) = Len(w) /\ v[1] = first
  BY <1>1, <1>2, <1>3
<1>5. ASSUME NEW i \in 2..Len(w) PROVE v[i] = w[i]
  <2>1. i \in 1..Len(<<first>>) + Len(Tail(w)) /\ ~(i <= Len(<<first>>)) /\ i - 1 \in 1..Len(w) - 1
    BY <1>1, <1>2
  <2>2. v[i] = Tail(w)[i - 1]
    BY <1>1, <1>3, <2>1
  <2> QED
    BY <1>2, <2>1, <2>2
<1>6. v # <<>>
  BY <1>2, <1>4
<1> QED
  BY <1>3, <1>4, <1>5, <1>6 DEF v

\* A frame, bit by bit.
LEMMA FrameShape ==
    ASSUME setting \in Settings, NEW byte \in Byte, NEW bad_parity \in Bit, NEW bad_stop \in Bit
    PROVE  LET F == Frame(byte, bad_parity, bad_stop) IN
           /\ F \in Seq(Piece) /\ Len(F) = bits + 1 + bad_stop
           /\ \A i \in 1..bits + 1 : F[i] = FrameBit(Level(byte, bad_parity, bad_stop, i - 1))
           /\ bad_stop = 1 => F[bits + 2] = Rest
PROOF
<1> DEFINE par == (ParityOf(byte, setting.parity_type) + bad_parity) % 2
           Start == <<FrameBit(0)>>
           Data == [b \in 1..8 |-> FrameBit(byte[b])]
           Par == IF setting.parity_enable THEN <<FrameBit(par)>> ELSE <<>>
           Stop == IF bad_stop = 1 THEN <<FrameBit(0), Rest>> ELSE <<FrameBit(1)>>
<1>1. \A lev \in Bit : FrameBit(lev) \in Piece
  BY NewPieces
<1>2. 0 \in Bit /\ 1 \in Bit /\ par \in Bit /\ Rest \in Piece
  <2>1. ParityOf(byte, setting.parity_type) \in Bit
    BY ParityIsBit, SettingFields
  <2> QED
    BY <2>1, NewPieces DEF Bit
<1>3. Start \in Seq(Piece) /\ Len(Start) = 1 /\ Start[1] = FrameBit(0)
  BY <1>1, <1>2
<1>4. Data \in Seq(Piece) /\ Len(Data) = 8 /\ \A b \in 1..8 : Data[b] = FrameBit(byte[b])
  <2>1. \A b \in 1..8 : FrameBit(byte[b]) \in Piece
    BY <1>1 DEF Byte
  <2>2. Data \in [1..8 -> Piece]
    BY <2>1
  <2> QED
    BY <2>2
<1>5. Par \in Seq(Piece) /\ Len(Par) = bits - 9 /\ (bits = 10 => Par[1] = FrameBit(par))
  <2> HIDE DEF par
  <2> QED
    BY <1>1, <1>2 DEF bits
<1>6. /\ Stop \in Seq(Piece) /\ Len(Stop) = 1 + bad_stop
      /\ Stop[1] = FrameBit(1 - bad_stop) /\ (bad_stop = 1 => Stop[2] = Rest)
  <2>1. CASE bad_stop = 1
    BY <1>1, <1>2, <2>1
  <2>2. CASE bad_stop = 0
    BY <1>1, <1>2, <2>2
  <2> QED
    BY <2>1, <2>2 DEF Bit
<1>7. Frame(byte, bad_parity, bad_stop) = ((Start \o Data) \o Par) \o Stop
  BY DEF Frame
<1>8. bits \in {9, 10} /\ bad_stop \in {0, 1}
  BY BitsOfFrame DEF Bit
<1> DEFINE X == Start \o Data
           Y == X \o Par
           F == Y \o Stop
<1> HIDE DEF Start, Data, Par, Stop
<1>9. X \in Seq(Piece) /\ Len(X) = 9 /\ X[1] = FrameBit(0) /\ \A b \in 1..8 : X[1 + b] = FrameBit(byte[b])
  <2>1. /\ X \in Seq(Piece) /\ Len(X) = Len(Start) + Len(Data)
        /\ \A i \in 1..Len(Start) + Len(Data) : X[i] = IF i <= Len(Start) THEN Start[i] ELSE Data[i - Len(Start)]
    BY <1>3, <1>4, ConcatProperties
  <2> HIDE DEF X
  <2>2. X[1] = Start[1] /\ \A b \in 1..8 : X[1 + b] = Data[b]
    BY <1>3, <1>4, <2>1
  <2> QED
    BY <1>3, <1>4, <2>1, <2>2
<1> HIDE DEF X
<1>10. /\ Y \in Seq(Piece) /\ Len(Y) = bits
       /\ \A i \in 1..9 : Y[i] = X[i]
       /\ bits = 10 => Y[10] = FrameBit(par)
  <2>1. /\ Y \in Seq(Piece) /\ Len(Y) = Len(X) + Len(Par)
        /\ \A i \in 1..Len(X) + Len(Par) : Y[i] = IF i <= Len(X) THEN X[i] ELSE Par[i - Len(X)]
    BY <1>5, <1>9, ConcatProperties
  <2> HIDE DEF Y, par
  <2> QED
    BY <1>5, <1>8, <1>9, <2>1
<1> HIDE DEF Y
<1>11. /\ F \in Seq(Piece) /\ Len(F) = bits + 1 + bad_stop
       /\ \A i \in 1..bits : F[i] = Y[i]
       /\ F[bits + 1] = FrameBit(1 - bad_stop)
       /\ bad_stop = 1 => F[bits + 2] = Rest
  <2>1. /\ F \in Seq(Piece) /\ Len(F) = Len(Y) + Len(Stop)
        /\ \A i \in 1..Len(Y) + Len(Stop) : F[i] = IF i <= Len(Y) THEN Y[i] ELSE Stop[i - Len(Y)]
    BY <1>6, <1>10, ConcatProperties
  <2> HIDE DEF F
  <2>2. F[bits + 1] = Stop[1] /\ (bad_stop = 1 => F[bits + 2] = Stop[2])
    BY <1>6, <1>8, <1>10, <2>1
  <2>3. \A i \in 1..bits : F[i] = Y[i]
    BY <1>6, <1>8, <1>10, <2>1
  <2> QED
    BY <1>6, <1>8, <1>10, <2>1, <2>2, <2>3
<1> HIDE DEF F
<1>12. ASSUME NEW i \in 1..bits + 1 PROVE F[i] = FrameBit(Level(byte, bad_parity, bad_stop, i - 1))
  <2>1. CASE i = 1
    BY <1>8, <1>9, <1>10, <1>11, <2>1 DEF Level
  <2>2. CASE i \in 2..9
    <3>1. i - 1 \in 1..8 /\ i \in 1..bits /\ i \in 1..9 /\ 1 + (i - 1) = i
      BY <1>8, <2>2
    <3>2. F[i] = FrameBit(byte[i - 1])
      BY <1>9, <1>10, <1>11, <3>1
    <3>3. Level(byte, bad_parity, bad_stop, i - 1) = byte[i - 1]
      BY <3>1 DEF Level
    <3> QED
      BY <3>2, <3>3
  <2>3. CASE i = 10 /\ bits = 10
    <3>1. F[i] = FrameBit(par)
      <4> HIDE DEF par
      <4> QED
        BY <1>10, <1>11, <2>3
    <3>2. Level(byte, bad_parity, bad_stop, i - 1) = par
      BY <2>3 DEF Level
    <3> QED
      BY <3>1, <3>2, Zenon
  <2>4. CASE i = bits + 1
    <3>1. Level(byte, bad_parity, bad_stop, i - 1) = 1 - bad_stop
      BY <1>8, <2>4 DEF Level
    <3> QED
      BY <1>11, <2>4, <3>1
  <2> QED
    BY <1>8, <2>1, <2>2, <2>3, <2>4
<1> QED
  BY <1>7, <1>11, <1>12 DEF F, Y, X, Start, Data, Par, Stop

-----------------------------------------------------------------------------
(* Type correctness, for every prescale.                                   *)

LEMMA TickType ==
    ASSUME UartRxTypeOK, NEW line \in Bit, Tick(line)
    PROVE  UartRxTypeOK'
PROOF
<1> USE DEF UartRxTypeOK, Tick
<1>1. setting' = setting
  OBVIOUS
<1>2. rstate' \in RxStates
  BY DEF FsmTick, RxStates, AfterStart, AfterCheck
<1>3. edge_count' \in 0..63 /\ bit_count' \in 0..15
  BY DEF CounterTick
<1>4. Samples' \in [0..2 -> Bit] /\ sampled_bit' \in Bit
  <2>1. Majority(Samples) \in Bit
    BY DEF Majority, Bit
  <2>2. 0 \in Bit
    BY DEF Bit
  <2> QED
    BY <2>1, <2>2 DEF SamplerTick
<1>5. P_DATA' \in Byte
  BY DEF DeserializerTick, Byte
<1>6. strt_glitch' \in Bit /\ par_err' \in Bit /\ stp_err' \in Bit
  <2>1. ParityOf(P_DATA, setting.parity_type) \in Bit
    BY ParityIsBit
  <2>2. (ParityOf(P_DATA, setting.parity_type) + sampled_bit) % 2 \in Bit /\ 1 - sampled_bit \in Bit
    BY <2>1 DEF Bit
  <2> QED
    BY <2>2 DEF ChecksTick
<1> QED
  BY <1>1, <1>2, <1>3, <1>4, <1>5, <1>6

LEMMA LineIsBit ==
    ASSUME TypeOK
    PROVE  /\ level \in Bit /\ RX_IN \in Bit
           /\ wave # <<>> => level = wave[1].level
PROOF
<1>1. CASE wave = <<>>
  BY <1>1 DEF level, RX_IN, Bit
<1>2. CASE wave # <<>>
  <2>1. Head(wave) = wave[1] /\ wave[1] \in Piece
    BY <1>2, TailOfWave DEF TypeOK
  <2>2. level = wave[1].level
    BY <1>2, <2>1 DEF level
  <2>3. wave[1].level \in Bit
    BY <2>1, PieceFields
  <2> QED
    BY <1>2, <2>2, <2>3 DEF RX_IN, Bit
<1> QED
  BY <1>1, <1>2

\* A cycle of the sender: what becomes of the wave.
LEMMA NextBitShape ==
    ASSUME TypeOK, NextBit
    PROVE  /\ wave # <<>> /\ Len(wave) > 1 /\ wave[1].cycles = 1 /\ ~Ending
           /\ Len(wave') = Len(wave) - 1
           /\ \A i \in 1..Len(wave) - 1 : wave'[i] = wave[i + 1]
           /\ wave' \in Seq(Piece)
           /\ flip' = FALSE /\ due' = StillDue
PROOF
<1>1. wave \in Seq(Piece)
  BY DEF TypeOK
<1>2. wave # <<>>
  BY EmptySeq DEF NextBit, Ending
<1>3. Head(wave).cycles = 1 /\ ~(Len(wave) <= 1) /\ wave' = Tail(wave) /\ flip' = FALSE /\ due' = StillDue
  BY <1>2 DEF NextBit, Ending
<1> QED
  BY <1>1, <1>2, <1>3, TailOfWave DEF NextBit

LEMMA SameBitShape ==
    ASSUME TypeOK, SameBit
    PROVE  /\ wave # <<>> /\ wave[1].cycles > 1
           /\ flip' \in BOOLEAN /\ (flip' => wave[1].noise /\ wave[1].cycles > 2)
           /\ wave' \in Seq(Piece) /\ wave' # <<>>
           /\ Len(wave') = Len(wave)
           /\ wave'[1].level = wave[1].level
           /\ wave'[1].cycles = wave[1].cycles - 1
           /\ wave'[1].noise = (wave[1].noise /\ ~flip')
           /\ \A i \in 2..Len(wave) : wave'[i] = wave[i]
           /\ due' = StillDue
PROOF
<1>1. wave \in Seq(Piece) /\ wave # <<>>
  BY DEF TypeOK, SameBit
<1>2. Head(wave) = wave[1] /\ wave[1] \in Piece
  BY <1>1, TailOfWave
<1> DEFINE now == wave[1]
           next == [now EXCEPT !.cycles = @ - 1, !.noise = @ /\ ~flip']
<1>3. /\ now.cycles > 1 /\ flip' \in BOOLEAN /\ (flip' => now.noise /\ now.cycles > 2)
      /\ wave' = <<next>> \o Tail(wave) /\ due' = StillDue
  BY <1>2 DEF SameBit
<1>4. /\ next \in Piece /\ next.level = now.level /\ next.cycles = now.cycles - 1
      /\ next.noise = (now.noise /\ ~flip')
  <2>1. now \in [level : Bit, cycles : Nat \ {0}, noise : BOOLEAN]
    BY <1>2 DEF Piece
  <2>2. now.cycles - 1 \in Nat \ {0} /\ (now.noise /\ ~flip') \in BOOLEAN
    BY <1>3, <2>1
  <2> HIDE DEF now
  <2> QED
    BY <2>1, <2>2, Zenon DEF Piece
<1> HIDE DEF next
<1>5. /\ wave' \in Seq(Piece) /\ wave' # <<>> /\ Len(wave') = Len(wave) /\ wave'[1] = next
      /\ \A i \in 2..Len(wave) : wave'[i] = wave[i]
  BY <1>1, <1>3, <1>4, NewFirst
<1> QED
  BY <1>1, <1>3, <1>4, <1>5

LEMMA ClockType ==
    ASSUME TypeOK, setting \in Settings, Clock
    PROVE  TypeOK'
PROOF
<1>1. UartRxTypeOK'
  BY LineIsBit, TickType DEF TypeOK, Clock
<1>2. StillDue \in Bytes \cup {NoByte}
  BY DEF StillDue, TypeOK
<1>3. CASE NextBit
  BY <1>1, <1>2, <1>3, NextBitShape DEF TypeOK
<1>4. CASE SameBit
  BY <1>1, <1>2, <1>4, SameBitShape DEF TypeOK
<1>5. CASE Begin
  <2>1. flip' = FALSE
    BY <1>5 DEF Begin
  <2>2. CASE wave' = <<>> /\ due' = StillDue
    BY <1>1, <1>2, <2>1, <2>2, EmptySeq DEF TypeOK
  <2>3. ASSUME NEW byte \in Bytes, NEW bad_parity \in Bit, NEW bad_stop \in Bit,
               wave' = Frame(byte, bad_parity, bad_stop),
               due' = IF bad_parity + bad_stop = 0 THEN byte ELSE NoByte
        PROVE  TypeOK'
    <3>1. byte \in Byte
      BY BenchAssumption
    <3>2. wave' \in Seq(Piece)
      BY <2>3, <3>1, FrameShape
    <3> QED
      BY <1>1, <2>1, <2>3, <3>2 DEF TypeOK
  <2>4. ASSUME NEW cyc \in 1..(setting.prescale \div 2 - 1), wave' = Glitch(cyc), due' = StillDue
        PROVE  TypeOK'
    <3>1. Steady(0, cyc) \in Piece /\ Rest \in Piece
      BY NewPieces DEF Bit
    <3>2. wave' \in Seq(Piece)
      BY <2>4, <3>1 DEF Glitch
    <3> QED
      BY <1>1, <1>2, <2>1, <2>4, <3>2 DEF TypeOK
  <2> QED
    BY <1>5, <2>2, <2>3, <2>4 DEF Begin
<1> QED
  BY <1>3, <1>4, <1>5 DEF Clock

LEMMA ResetType ==
    ASSUME TypeOK, BenchReset
    PROVE  TypeOK'
PROOF
<1>1. UartRxTypeOK'
  BY DEF BenchReset, Reset, TypeOK, UartRxTypeOK, RxStates, Bit, Byte
<1> QED
  BY <1>1, EmptySeq DEF BenchReset, TypeOK

LEMMA InitType == BenchInit => TypeOK /\ setting \in Settings
PROOF
<1> SUFFICES ASSUME BenchInit PROVE TypeOK /\ setting \in Settings
  OBVIOUS
<1>1. setting \in Settings /\ setting \in [prescale : 0..63, parity_enable : BOOLEAN, parity_type : Bit]
  <2>1. setting \in Settings
    BY DEF BenchInit
  <2>2. Prescales \subseteq 0..63
    BY BenchAssumption
  <2> QED
    BY <2>1, <2>2 DEF Settings
<1>2. UartRxTypeOK
  BY <1>1 DEF BenchInit, Quiescent, UartRxTypeOK, RxStates, Bit, Byte
<1> QED
  BY <1>1, <1>2, EmptySeq DEF BenchInit, TypeOK

\* The variables keep their types, for every prescale of at least one cycle.
THEOREM ReceiverTypes == Spec => []TypeOK
PROOF
<1> DEFINE Typed == TypeOK /\ setting \in Settings
<1>1. Typed /\ [Next]_vars => Typed'
  <2> SUFFICES ASSUME Typed, [Next]_vars PROVE Typed'
    OBVIOUS
  <2>1. CASE Clock
    BY <2>1, ClockType DEF Clock, Tick
  <2>2. CASE BenchReset
    BY <2>2, ResetType DEF BenchReset, Reset
  <2>3. CASE UNCHANGED vars
    BY <2>3 DEF vars, uart_rx, bench, TypeOK, UartRxTypeOK
  <2> QED
    BY <2>1, <2>2, <2>3 DEF Next
<1> QED
  BY <1>1, InitType, PTL DEF Spec

-----------------------------------------------------------------------------
(* The receiver during a bit of a frame.                                   *)

\* What depends on the setting only.
LEMMA SettingKept ==
    ASSUME setting' = setting
    PROVE  /\ Prescale' = Prescale /\ Half' = Half /\ bits' = bits /\ Rest' = Rest
           /\ \A lev : FrameBit(lev)' = FrameBit(lev)
           /\ \A byte, bad_parity, bad_stop :
                 Frame(byte, bad_parity, bad_stop)' = Frame(byte, bad_parity, bad_stop)
           /\ \A byte, bad_parity, bad_stop, n :
                 Level(byte, bad_parity, bad_stop, n)' = Level(byte, bad_parity, bad_stop, n)
PROOF
<1>1. Prescale' = Prescale /\ bits' = bits
  BY DEF Prescale, bits
<1>2. Half' = Half
  BY <1>1 DEF Half
<1>3. Rest' = Rest /\ \A lev : FrameBit(lev)' = FrameBit(lev)
  BY DEF Rest, Steady, FrameBit
<1>4. ASSUME NEW byte, NEW bad_parity, NEW bad_stop
      PROVE  Frame(byte, bad_parity, bad_stop)' = Frame(byte, bad_parity, bad_stop)
  BY <1>3 DEF Frame, FrameBit
<1>5. ASSUME NEW byte, NEW bad_parity, NEW bad_stop, NEW n
      PROVE  Level(byte, bad_parity, bad_stop, n)' = Level(byte, bad_parity, bad_stop, n)
  BY <1>1 DEF Level
<1> QED
  BY <1>1, <1>2, <1>3, <1>4, <1>5

\* The line during a bit, and where the receiver is.
LEMMA BitFacts ==
    ASSUME EnoughTime, TypeOK, setting \in Settings,
           NEW byte \in Bytes, NEW bad_parity \in Bit, NEW bad_stop \in Bit, NEW n \in 0..bits,
           InBit(byte, bad_parity, bad_stop, n)
    PROVE  LET lev == Level(byte, bad_parity, bad_stop, n) IN
           /\ byte \in Byte /\ lev \in Bit /\ n \in 0..10
           /\ wave # <<>> /\ wave \in Seq(Piece) /\ wave[1] \in Piece
           /\ level = lev /\ RX_IN = IF flip THEN 1 - lev ELSE lev
           /\ edge_count \in 0..(Prescale - 1) /\ wave[1].cycles = Prescale - edge_count
           /\ bit_count = n
           /\ dat_samp_en(RX_IN)
           /\ edge_count < Prescale - 1 => edge_bit_en(RX_IN)
PROOF
<1>1. byte \in Byte
  BY BenchAssumption
<1>2. n \in 0..10 /\ bits \in {9, 10}
  BY BitsOfFrame
<1>3. Level(byte, bad_parity, bad_stop, n) \in Bit
  BY <1>1, <1>2, LevelIsBit
<1>4. /\ OnLine(byte, bad_parity, bad_stop, n) /\ InStep(n)
  BY DEF InBit
<1>5. Len(wave) >= 1 /\ wave \in Seq(Piece)
  BY <1>2, <1>4 DEF OnLine, TypeOK, Bit
<1>6. wave # <<>> /\ wave[1] \in Piece
  BY <1>5, EmptySeq, TailOfWave
<1>7. level = Level(byte, bad_parity, bad_stop, n)
  BY <1>4, <1>6, LineIsBit DEF OnLine
<1>8. edge_count \in 0..(Prescale - 1) /\ bit_count = n /\ wave[1].cycles = Prescale - edge_count
  <2>1. Prescale \in 7..63 /\ edge_count \in 0..63
    BY Numbers DEF TypeOK, UartRxTypeOK
  <2>2. bit_count = n /\ edge_count < Prescale
    BY <1>4 DEF InStep
  <2>3. wave[1].cycles = Prescale - edge_count
    BY <1>4 DEF OnLine
  <2>4. edge_count \in 0..(Prescale - 1)
    BY <2>1, <2>2
  <2> QED
    BY <2>2, <2>3, <2>4
<1>9. n = 0 /\ edge_count = 0 => RX_IN = 0
  BY <1>4, <1>7 DEF OnLine, RX_IN, Level
<1>10. rstate \in {"start", "data", "parity", "stop"} \/ (rstate = "IDLE" /\ RX_IN = 0)
          \/ (rstate = "err_chk" /\ edge_count = Prescale - 1)
  BY <1>4, <1>9 DEF InStep
<1>11. dat_samp_en(RX_IN) /\ (edge_count < Prescale - 1 => edge_bit_en(RX_IN))
  BY <1>8, <1>10, Numbers DEF dat_samp_en, edge_bit_en, starting
<1> QED
  BY <1>1, <1>2, <1>3, <1>5, <1>6, <1>7, <1>8, <1>11 DEF RX_IN

\* The next cycle of a bit: the samples taken, and the decision they lead to.
LEMMA SamplingStep ==
    ASSUME EnoughTime, TypeOK, setting \in Settings, setting' = setting,
           NEW lev \in Bit, Sampling(lev), RX_IN = IF flip THEN 1 - lev ELSE lev,
           dat_samp_en(RX_IN), SamplerTick(RX_IN),
           edge_count' = edge_count + 1, SameBit
    PROVE  Sampling(lev)'
PROOF
<1>1. /\ Half \in 2..30 /\ Half' = Half
      /\ half_edges_n1 = Half - 1 /\ half_edges = Half /\ half_edges_p1 = Half + 1
  BY Numbers, SettingKept
<1>2. edge_count \in 0..63 /\ Samples \in [0..2 -> Bit] /\ flip \in BOOLEAN
  BY DEF TypeOK, UartRxTypeOK
<1>3. /\ Samples' = [s \in 0..2 |-> IF s \in Slots THEN RX_IN ELSE Samples[s]]
      /\ sampled_bit' = Majority(Samples)
  BY DEF SamplerTick
<1>4. \A s \in 0..2 : s \in Slots <=> edge_count = Half - 1 + s
  BY <1>1, <1>2 DEF Slots
<1>5. /\ wave # <<>> /\ wave'[1].noise = (wave[1].noise /\ ~flip')
      /\ flip' \in BOOLEAN /\ (flip' => wave[1].noise)
  BY SameBitShape
<1>6. lev \in {0, 1} /\ (RX_IN # lev <=> flip)
  BY <1>2 DEF Bit
<1>7. ASSUME NEW s \in 0..2
      PROVE  Wrong(s, lev)' <=> Wrong(s, lev) \/ (edge_count = Half - 1 + s /\ flip)
  <2>1. Wrong(s, lev)' <=> edge_count + 1 > Half - 1 + s /\ Samples'[s] # lev
    BY <1>1 DEF Wrong
  <2>2. Wrong(s, lev) <=> edge_count > Half - 1 + s /\ Samples[s] # lev
    BY DEF Wrong
  <2>3. Samples'[s] = IF edge_count = Half - 1 + s THEN RX_IN ELSE Samples[s]
    BY <1>3, <1>4
  <2> QED
    BY <1>1, <1>2, <1>6, <2>1, <2>2, <2>3
<1>8. /\ \A s, t \in 0..2 : Wrong(s, lev) /\ Wrong(t, lev) => s = t
      /\ \A s \in 0..2 : Wrong(s, lev) => ~flip /\ ~wave[1].noise
      /\ flip => ~wave[1].noise
      /\ edge_count > Half + 2 => sampled_bit = lev
  BY DEF Sampling
<1>9. ASSUME NEW s \in 0..2, NEW t \in 0..2, Wrong(s, lev)', Wrong(t, lev)'
      PROVE  s = t
  <2>1. CASE flip
    BY <1>1, <1>2, <1>7, <1>8, <1>9, <2>1
  <2>2. CASE ~flip
    BY <1>7, <1>8, <1>9, <2>2
  <2> QED
    BY <2>1, <2>2
<1>10. ASSUME NEW s \in 0..2, Wrong(s, lev)'
       PROVE  ~flip' /\ ~wave'[1].noise
  BY <1>5, <1>7, <1>8, <1>10
<1>11. flip' => ~wave'[1].noise
  BY <1>5
<1>12. ASSUME edge_count + 1 > Half + 2 PROVE sampled_bit' = lev
  <2>1. \A s \in 0..2 : Samples[s] # lev => Wrong(s, lev)
    BY <1>1, <1>2, <1>12 DEF Wrong
  <2>2. \A s, t \in 0..2 : Samples[s] # lev /\ Samples[t] # lev => s = t
    BY <1>8, <2>1
  <2>3. Majority(Samples) = lev
    BY <1>2, <2>2, MajorityRight
  <2> QED
    BY <1>3, <2>3
<1> QED
  BY <1>1, <1>9, <1>10, <1>11, <1>12 DEF Sampling

\* No sample of a bit has been taken in its first cycle.
LEMMA SamplingStarts ==
    ASSUME EnoughTime, setting \in Settings, setting' = setting,
           NEW lev, edge_count' = 0, flip' = FALSE
    PROVE  Sampling(lev)'
PROOF
<1>1. Half \in 2..30 /\ Half' = Half
  BY Numbers, SettingKept
<1>2. ASSUME NEW s \in 0..2 PROVE ~Wrong(s, lev)'
  <2>1. ~(edge_count' > Half' - 1 + s)
    BY <1>1
  <2> QED
    BY <2>1 DEF Wrong
<1>3. ~(edge_count' > Half' + 2)
  BY <1>1
<1> QED
  BY <1>2, <1>3 DEF Sampling

\* One more cycle of the same bit.
LEMMA SameBitInFrame ==
    ASSUME EnoughTime, TypeOK, setting \in Settings, Tick(RX_IN), SameBit,
           NEW byte \in Bytes, NEW bad_parity \in Bit, NEW bad_stop \in Bit, NEW n \in 0..bits,
           InBit(byte, bad_parity, bad_stop, n)
    PROVE  InBit(byte, bad_parity, bad_stop, n)'
PROOF
<1> DEFINE lev == Level(byte, bad_parity, bad_stop, n)
<1>1. /\ lev \in Bit /\ n \in 0..10 /\ RX_IN = (IF flip THEN 1 - lev ELSE lev)
      /\ edge_count \in 0..(Prescale - 1) /\ wave[1].cycles = Prescale - edge_count /\ bit_count = n
      /\ dat_samp_en(RX_IN) /\ (edge_count < Prescale - 1 => edge_bit_en(RX_IN))
  BY BitFacts
<1>2. /\ Prescale \in 7..63 /\ Half \in 2..30 /\ Half + 4 < Prescale
      /\ check_edge = Prescale - 1 /\ error_check_edge = Prescale - 2
  BY Numbers
<1>3. /\ OnLine(byte, bad_parity, bad_stop, n) /\ InStep(n) /\ Sampling(lev)
      /\ Received(byte, bad_parity, bad_stop, n)
      /\ bad_parity = 1 => setting.parity_enable
      /\ due = IF bad_parity + bad_stop = 0 THEN byte ELSE NoByte
  BY DEF InBit
<1>4. /\ wave[1].cycles > 1 /\ Len(wave') = Len(wave)
      /\ wave'[1].level = wave[1].level /\ wave'[1].cycles = wave[1].cycles - 1
      /\ \A i \in 2..Len(wave) : wave'[i] = wave[i]
      /\ flip' => wave[1].cycles > 2
      /\ due' = StillDue
  BY SameBitShape
<1>5. /\ setting' = setting /\ Prescale' = Prescale /\ Half' = Half /\ bits' = bits
      /\ Frame(byte, bad_parity, bad_stop)' = Frame(byte, bad_parity, bad_stop)
      /\ lev' = lev
  BY SettingKept DEF Tick
<1>6. edge_count < Prescale - 1 /\ edge_count' = edge_count + 1 /\ bit_count' = n
  BY <1>1, <1>2, <1>4 DEF Tick, CounterTick, EdgeDone
<1>7. OnLine(byte, bad_parity, bad_stop, n)'
  <2> DEFINE cyc == wave[1].cycles
             next == wave'[1].cycles
  <2>a. cyc = Prescale - edge_count /\ next = cyc - 1 /\ (flip' => cyc > 2)
    BY <1>1, <1>4
  <2>b. edge_count \in Int /\ Prescale \in Int /\ edge_count' = edge_count + 1
    BY <1>1, <1>2, <1>6
  <2> HIDE DEF cyc, next
  <2>1. edge_count' = 0 \/ edge_count' = Prescale - 1 => ~flip'
    BY <1>1, <2>a, <2>b
  <2>2. wave'[1].cycles = Prescale - edge_count'
    <3>1. next = Prescale - edge_count'
      BY <2>a, <2>b
    <3> QED
      BY <3>1 DEF next
  <2> HIDE DEF lev
  <2> QED
    BY <1>3, <1>4, <1>5, <2>1, <2>2 DEF OnLine, lev
<1>8. n = 0 /\ edge_count = 0 => RX_IN = 0
  BY <1>1, <1>3 DEF OnLine, Level
<1>9. InStep(n)'
  <2>1. bits \in {9, 10}
    BY BitsOfFrame
  <2>2. CASE n = 0
    BY <1>1, <1>2, <1>3, <1>5, <1>6, <1>8, <2>1, <2>2 DEF InStep, Tick, FsmTick
  <2>3. CASE n \in 1..8
    BY <1>1, <1>2, <1>3, <1>5, <1>6, <2>1, <2>3 DEF InStep, Tick, FsmTick
  <2>4. CASE n = 9 /\ bits = 10
    BY <1>1, <1>2, <1>3, <1>5, <1>6, <2>1, <2>4 DEF InStep, Tick, FsmTick
  <2>5. CASE n = bits
    BY <1>1, <1>2, <1>3, <1>5, <1>6, <2>1, <2>5 DEF InStep, Tick, FsmTick, StopEdge
  <2> QED
    BY <2>1, <2>2, <2>3, <2>4, <2>5
<1>10. Sampling(lev)'
  <2> HIDE DEF lev
  <2>1. SamplerTick(RX_IN)
    BY DEF Tick
  <2>2. ASSUME NEW v \in Bit, v = lev PROVE Sampling(v)'
    BY <1>1, <1>3, <1>5, <1>6, <2>1, <2>2, SamplingStep
  <2>3. PICK v \in Bit : v = lev
    BY <1>1
  <2>4. Sampling(v)'
    BY <2>2, <2>3
  <2> QED
    BY <1>5, <2>3, <2>4 DEF Sampling, Wrong
<1>11. Received(byte, bad_parity, bad_stop, n)'
  <2>1. edge_count > Half + 2 => sampled_bit = lev
    BY <1>3 DEF Sampling
  <2>2. n = 0 /\ edge_count' > Half + 3 => strt_glitch' = 0
    BY <1>1, <1>2, <1>3, <1>6, <2>1 DEF InStep, Tick, ChecksTick, strt_chk_en, Level
  <2>3. P_DATA' = P_DATA
    BY <1>1, <1>2, <1>6 DEF Tick, DeserializerTick
  <2>4. n = bits => par_err' = bad_parity
    BY <1>3, BitsOfFrame DEF InStep, Tick, ChecksTick, Received
  <2>5. n = bits /\ edge_count' = Prescale - 1 => stp_err' = bad_stop
    <3> SUFFICES ASSUME n = bits, edge_count' = Prescale - 1 PROVE stp_err' = bad_stop
      OBVIOUS
    <3>1. n \in {9, 10} /\ rstate = "stop"
      BY <1>3, <1>6, BitsOfFrame DEF InStep
    <3>2. sampled_bit = 1 - bad_stop
      BY <1>1, <1>2, <1>6, <2>1, <3>1 DEF Level
    <3> QED
      BY <3>1, <3>2 DEF Tick, ChecksTick, Bit
  <2> QED
    BY <1>3, <1>5, <2>2, <2>3, <2>4, <2>5 DEF Received, Shifted
<1>12. due' = due
  <2>1. rstate # "err_chk"
    BY <1>1, <1>2, <1>3, <1>6 DEF InStep
  <2> QED
    BY <1>4, <2>1 DEF StillDue, data_valid
<1> QED
  BY <1>3, <1>5, <1>7, <1>9, <1>10, <1>11, <1>12 DEF InBit

\* From one bit to the next.
LEMMA NextBitInFrame ==
    ASSUME EnoughTime, TypeOK, setting \in Settings, Tick(RX_IN), NextBit,
           ~setting.parity_enable => par_err = 0,
           NEW byte \in Bytes, NEW bad_parity \in Bit, NEW bad_stop \in Bit, NEW n \in 0..bits,
           InBit(byte, bad_parity, bad_stop, n), n < bits
    PROVE  InBit(byte, bad_parity, bad_stop, n + 1)'
PROOF
<1> DEFINE lev == Level(byte, bad_parity, bad_stop, n)
<1>1. /\ byte \in Byte /\ lev \in Bit /\ n \in 0..9 /\ n + 1 \in 0..bits /\ bits \in {9, 10}
      /\ edge_count \in 0..(Prescale - 1) /\ wave[1].cycles = Prescale - edge_count /\ bit_count = n
  BY BitFacts, BitsOfFrame
<1>2. /\ Prescale \in 7..63 /\ Half \in 2..30 /\ Half + 4 < Prescale
      /\ check_edge = Prescale - 1
  BY Numbers
<1>3. /\ OnLine(byte, bad_parity, bad_stop, n) /\ InStep(n) /\ Sampling(lev)
      /\ Received(byte, bad_parity, bad_stop, n)
      /\ bad_parity = 1 => setting.parity_enable
      /\ due = IF bad_parity + bad_stop = 0 THEN byte ELSE NoByte
  BY DEF InBit
<1>4. /\ wave[1].cycles = 1 /\ Len(wave') = Len(wave) - 1
      /\ \A i \in 1..Len(wave) - 1 : wave'[i] = wave[i + 1]
      /\ flip' = FALSE /\ due' = StillDue
  BY NextBitShape
<1>5. /\ setting' = setting /\ Prescale' = Prescale /\ Half' = Half /\ bits' = bits
      /\ Frame(byte, bad_parity, bad_stop)' = Frame(byte, bad_parity, bad_stop)
      /\ Level(byte, bad_parity, bad_stop, n + 1)' = Level(byte, bad_parity, bad_stop, n + 1)
  BY SettingKept DEF Tick
<1>6. edge_count = Prescale - 1 /\ rstate \in {"start", "data", "parity"}
  <2>1. edge_count = Prescale - 1
    <3>1. wave[1].cycles = Prescale - edge_count
      BY <1>1, Zenon
    <3>2. wave[1].cycles = 1
      BY <1>4, Zenon
    <3>3. Prescale - edge_count = 1
      BY <3>1, <3>2, Zenon
    <3>4. edge_count \in Int /\ Prescale \in Int
      <4>1. edge_count \in 0..(Prescale - 1)
        BY <1>1, Zenon
      <4>2. Prescale \in 7..63
        BY <1>2, Zenon
      <4> QED
        BY <4>1, <4>2
    <3> QED
      BY <3>3, <3>4
  <2>2. edge_count # 0
    BY <1>2, <2>1
  <2>3. rstate = IF n = 0 THEN "start" ELSE IF n <= 8 THEN "data" ELSE "parity"
    BY <1>3, <2>2 DEF InStep
  <2> QED
    BY <2>1, <2>3
<1>7. edge_count' = 0 /\ bit_count' = n + 1
  BY <1>1, <1>2, <1>6 DEF Tick, CounterTick, EdgeDone, edge_bit_en
<1>8. sampled_bit = lev
  BY <1>2, <1>3, <1>6 DEF Sampling
<1>9. OnLine(byte, bad_parity, bad_stop, n + 1)'
  <2>1. /\ Len(wave) = bits + 1 + bad_stop - n
        /\ \A i \in 2..Len(wave) : wave[i] = Frame(byte, bad_parity, bad_stop)[n + i]
    BY <1>3 DEF OnLine
  <2>2. Len(wave) - 1 = bits + 1 + bad_stop - (n + 1) /\ Len(wave) - 1 >= 1
    BY <1>1, <2>1 DEF Bit
  <2>3. wave'[1] = FrameBit(Level(byte, bad_parity, bad_stop, n + 1))
    <3>1. wave'[1] = wave[2] /\ wave[2] = Frame(byte, bad_parity, bad_stop)[n + 2]
      BY <1>1, <1>4, <2>1, <2>2
    <3>2. n + 2 \in 1..bits + 1 /\ (n + 2) - 1 = n + 1
      BY <1>1
    <3>3. \A i \in 1..bits + 1 : Frame(byte, bad_parity, bad_stop)[i] = FrameBit(Level(byte, bad_parity, bad_stop, i - 1))
      BY <1>1, FrameShape
    <3> QED
      BY <3>1, <3>2, <3>3
  <2>4. wave'[1].level = Level(byte, bad_parity, bad_stop, n + 1) /\ wave'[1].cycles = Prescale
    BY <1>1, <2>3, LevelIsBit, NewPieces
  <2>5. \A i \in 2..Len(wave') : wave'[i] = Frame(byte, bad_parity, bad_stop)[(n + 1) + i]
    <3> SUFFICES ASSUME NEW i \in 2..Len(wave') PROVE wave'[i] = Frame(byte, bad_parity, bad_stop)[(n + 1) + i]
      OBVIOUS
    <3>1. i \in 1..Len(wave) - 1 /\ i + 1 \in 2..Len(wave) /\ n + (i + 1) = (n + 1) + i
      <4>1. Len(wave) \in Nat /\ Len(wave') = Len(wave) - 1
        BY <1>4, LenProperties DEF TypeOK
      <4> QED
        BY <1>1, <4>1
    <3> QED
      BY <1>4, <2>1, <3>1
  <2>6. /\ bits' = bits /\ Prescale' = Prescale
        /\ Frame(byte, bad_parity, bad_stop)' = Frame(byte, bad_parity, bad_stop)
        /\ Level(byte, bad_parity, bad_stop, n + 1)' = Level(byte, bad_parity, bad_stop, n + 1)
    BY <1>5
  <2>7. Len(wave') = bits + 1 + bad_stop - (n + 1)
    BY <1>4, <2>2
  <2>8. Prescale \in Int /\ Prescale = Prescale - 0 /\ edge_count' = 0
    BY <1>2, <1>7
  <2>9. wave'[1].cycles = Prescale - edge_count'
    BY <2>4, <2>8
  <2>10. ~flip'
    BY <1>4
  <2> QED
    BY <2>4, <2>5, <2>6, <2>7, <2>9, <2>10 DEF OnLine
<1>10. InStep(n + 1)'
  <2>1. CASE n = 0
    <3>1. strt_glitch = 0
      BY <1>2, <1>3, <1>6, <2>1 DEF Received
    <3> QED
      BY <1>1, <1>2, <1>3, <1>5, <1>6, <1>7, <2>1, <3>1 DEF InStep, Tick, FsmTick, AfterStart
  <2>2. CASE n \in 1..7
    BY <1>1, <1>2, <1>3, <1>5, <1>6, <1>7, <2>2 DEF InStep, Tick, FsmTick
  <2>3. CASE n = 8
    BY <1>1, <1>2, <1>3, <1>5, <1>6, <1>7, <2>3, BitsOfFrame DEF InStep, Tick, FsmTick
  <2>4. CASE n = 9
    BY <1>1, <1>2, <1>3, <1>5, <1>6, <1>7, <2>4 DEF InStep, Tick, FsmTick
  <2> QED
    BY <1>1, <2>1, <2>2, <2>3, <2>4
<1>11. Sampling(Level(byte, bad_parity, bad_stop, n + 1))'
  <2>1. ASSUME NEW v PROVE Sampling(v)'
    BY <1>4, <1>5, <1>7, SamplingStarts
  <2> QED
    BY <1>4, <1>7, <2>1 DEF Sampling, Wrong
<1>12. Received(byte, bad_parity, bad_stop, n + 1)'
  <2>1. \A b \in 1..Shifted(n + 1) : P_DATA'[8 - Shifted(n + 1) + b] = byte[b]
    <3>1. \A b \in 1..Shifted(n) : P_DATA[8 - Shifted(n) + b] = byte[b]
      BY <1>3 DEF Received
    <3>2. CASE n = 0
      BY <3>2 DEF Shifted
    <3>3. CASE n \in 1..8
      <4>1. rstate = "data" /\ sampled_bit = byte[n]
        BY <1>3, <1>8, <3>3 DEF InStep, Level
      <4>2. P_DATA' = [b \in 1..8 |-> IF b = 8 THEN sampled_bit ELSE P_DATA[b + 1]]
        BY <1>2, <1>6, <4>1 DEF Tick, DeserializerTick
      <4>3. Shifted(n) = n - 1 /\ Shifted(n + 1) = n
        BY <3>3 DEF Shifted
      <4>4. ASSUME NEW b \in 1..n PROVE P_DATA'[8 - n + b] = byte[b]
        <5>1. CASE b = n
          BY <3>3, <4>1, <4>2, <5>1
        <5>2. CASE b < n
          <6>1. b \in 1..n - 1 /\ 8 - n + b \in 1..7 /\ 8 - (n - 1) + b = (8 - n + b) + 1
            BY <3>3, <5>2
          <6>2. P_DATA'[8 - n + b] = P_DATA[(8 - n + b) + 1]
            BY <4>2, <6>1
          <6> QED
            BY <3>1, <4>3, <6>1, <6>2
        <5> QED
          BY <3>3, <5>1, <5>2
      <4> QED
        BY <4>3, <4>4
    <3>4. CASE n = 9
      <4>1. rstate = "parity" /\ Shifted(n) = 8 /\ Shifted(n + 1) = 8
        BY <1>1, <1>3, <3>4 DEF InStep, Shifted
      <4>2. P_DATA' = P_DATA
        BY <4>1 DEF Tick, DeserializerTick
      <4> QED
        BY <3>1, <4>1, <4>2
    <3> QED
      BY <1>1, <3>2, <3>3, <3>4
  <2>2. n + 1 = bits => par_err' = bad_parity
    <3>1. CASE n = 8 /\ bits = 9
      <4>1. bad_parity = 0 /\ par_err = 0 /\ rstate = "data"
        BY <1>3, <3>1, BitsOfFrame DEF Bit, InStep
      <4> QED
        BY <4>1 DEF Tick, ChecksTick
    <3>2. CASE n = 9
      <4>1. rstate = "parity" /\ lev = (ParityOf(byte, setting.parity_type) + bad_parity) % 2
        BY <1>1, <1>3, <3>2 DEF InStep, Level
      <4>2. \A b \in 1..8 : P_DATA[b] = byte[b]
        BY <1>3, <3>2 DEF Received, Shifted
      <4>3. ParityOf(P_DATA, setting.parity_type) = ParityOf(byte, setting.parity_type)
        BY <4>2 DEF ParityOf
      <4>4. par_err' = (ParityOf(byte, setting.parity_type) + ((ParityOf(byte, setting.parity_type) + bad_parity) % 2)) % 2
        BY <1>8, <4>1, <4>3 DEF Tick, ChecksTick
      <4>5. ParityOf(byte, setting.parity_type) \in Bit
        BY <1>1, ParityIsBit, SettingFields
      <4> QED
        BY <4>4, <4>5, ParityDifference
    <3> QED
      BY <1>1, <3>1, <3>2
  <2> QED
    BY <1>1, <1>2, <1>5, <1>7, <2>1, <2>2 DEF Received, Shifted
<1>13. due' = due
  BY <1>4, <1>6 DEF StillDue, data_valid
<1> QED
  BY <1>3, <1>5, <1>9, <1>10, <1>11, <1>12, <1>13 DEF InBit

\* The receiver's state in the last cycle of a frame's last bit.
LEMMA LastCycle ==
    ASSUME EnoughTime, TypeOK, setting \in Settings,
           NEW byte \in Bytes, NEW bad_parity \in Bit, NEW bad_stop \in Bit,
           InBit(byte, bad_parity, bad_stop, bits), wave[1].cycles = 1
    PROVE  /\ rstate = "err_chk" /\ RX_IN = 1 - bad_stop
           /\ par_err = bad_parity /\ stp_err = bad_stop
           /\ \A b \in 1..8 : P_DATA[b] = byte[b]
PROOF
<1>1. bits \in {9, 10} /\ Prescale \in 7..63
  BY BitsOfFrame, Numbers
<1>2. /\ RX_IN = (IF flip THEN 1 - Level(byte, bad_parity, bad_stop, bits)
                  ELSE Level(byte, bad_parity, bad_stop, bits))
      /\ edge_count \in 0..(Prescale - 1) /\ wave[1].cycles = Prescale - edge_count
  BY <1>1, BitFacts
<1>3. edge_count = Prescale - 1
  BY <1>1, <1>2
<1>4. /\ OnLine(byte, bad_parity, bad_stop, bits) /\ InStep(bits)
      /\ Received(byte, bad_parity, bad_stop, bits)
  BY DEF InBit
<1>5. ~flip /\ Level(byte, bad_parity, bad_stop, bits) = 1 - bad_stop
  BY <1>1, <1>3, <1>4 DEF OnLine, Level
<1>6. rstate = "err_chk"
  BY <1>1, <1>3, <1>4 DEF InStep
<1>7. Shifted(bits) = 8
  BY <1>1 DEF Shifted
<1>8. \A b \in 1..8 : P_DATA[b] = byte[b]
  BY <1>4, <1>7 DEF Received
<1> QED
  BY <1>2, <1>3, <1>4, <1>5, <1>6, <1>8 DEF Received

\* After a frame without a stop bit the line rests, and the receiver has taken
\* the stop bit for a start.
LEMMA BadStopEnds ==
    ASSUME EnoughTime, TypeOK, setting \in Settings, Tick(RX_IN), NextBit,
           NEW byte \in Bytes, NEW bad_parity \in Bit, NEW bad_stop \in Bit,
           InBit(byte, bad_parity, bad_stop, bits)
    PROVE  InRest'
PROOF
<1>1. bits \in {9, 10} /\ byte \in Byte /\ bad_stop \in {0, 1} /\ bad_parity \in {0, 1}
  BY BitsOfFrame, BenchAssumption DEF Bit
<1>2. /\ wave[1].cycles = 1 /\ Len(wave) > 1 /\ Len(wave') = Len(wave) - 1
      /\ \A i \in 1..Len(wave) - 1 : wave'[i] = wave[i + 1]
      /\ flip' = FALSE /\ due' = StillDue
  BY NextBitShape
<1>3. /\ Len(wave) = bits + 1 + bad_stop - bits
      /\ \A i \in 2..Len(wave) : wave[i] = Frame(byte, bad_parity, bad_stop)[bits + i]
      /\ due = IF bad_parity + bad_stop = 0 THEN byte ELSE NoByte
  BY DEF InBit, OnLine
<1>4. bad_stop = 1 /\ Len(wave) = 2
  BY <1>1, <1>2, <1>3
<1>5. wave'[1] = Rest /\ Len(wave') = 1
  <2>1. wave'[1] = Frame(byte, bad_parity, bad_stop)[bits + 2]
    BY <1>2, <1>3, <1>4
  <2> QED
    BY <1>1, <1>2, <1>4, <2>1, FrameShape
<1>6. rstate = "err_chk" /\ RX_IN = 0 /\ stp_err = 1
  BY <1>1, <1>2, <1>4, LastCycle
<1>7. rstate' = "start" /\ edge_count' = 0 /\ bit_count' = 0 /\ setting' = setting
  BY <1>6 DEF Tick, FsmTick, AfterCheck, CounterTick, edge_bit_en, starting
<1>8. due' = NoByte
  BY <1>1, <1>2, <1>3, <1>4, <1>6 DEF StillDue, data_valid
<1>9. FalseStart'
  <2>1. /\ Prescale \in 7..63 /\ Half \in 2..30 /\ Recovery(Prescale) \in Nat
        /\ Prescale' = Prescale /\ Half' = Half
    BY <1>7, Numbers, SettingKept
  <2>2. wave'[1].cycles = Recovery(Prescale)
    BY <1>5, NewPieces
  <2>3. Recovery(Prescale)' = Recovery(Prescale)
    BY <2>1
  <2>4. edge_count' + wave'[1].cycles >= Recovery(Prescale)
    BY <1>7, <2>1, <2>2
  <2>5. /\ edge_count' < Prescale' /\ ~(edge_count' > Half') /\ ~(edge_count' > Half' + 1)
        /\ ~(edge_count' > Half' + 2) /\ ~(edge_count' > Half' + 3)
    BY <1>7, <2>1
  <2> QED
    BY <1>7, <2>3, <2>4, <2>5 DEF FalseStart
<1>10. wave'[1].level = 1 /\ ~wave'[1].noise
  BY <1>5, NewPieces
<1> QED
  BY <1>2, <1>5, <1>8, <1>9, <1>10 DEF InRest

-----------------------------------------------------------------------------
(* The receiver between frames.                                            *)

\* One cycle of a machine that has been started, or is at rest.
LEMMA GlitchStep ==
    ASSUME EnoughTime, TypeOK, setting \in Settings, Tick(RX_IN), InGlitch
    PROVE  /\ wave # <<>> /\ wave[1] \in Piece
           /\ rstate' = "start" /\ edge_count' = edge_count + 1 /\ bit_count' = 0
           /\ edge_count \in 0..63
           /\ StillDue = NoByte
PROOF
<1>1. wave # <<>> /\ wave[1] \in Piece /\ level = 0
  <2>1. wave \in Seq(Piece) /\ Len(wave) = 2 /\ wave[1].level = 0
    BY DEF InGlitch, TypeOK
  <2>2. wave # <<>>
    BY <2>1, EmptySeq
  <2> QED
    BY <2>1, <2>2, TailOfWave, LineIsBit
<1>2. RX_IN = 0
  BY <1>1 DEF RX_IN, InGlitch
<1>3. Half \in 2..30 /\ Prescale \in 7..63 /\ Half + 4 < Prescale /\ check_edge = Prescale - 1
  BY Numbers
<1>4. /\ edge_count \in 0..63 /\ edge_count < Half /\ bit_count = 0
      /\ rstate = IF edge_count = 0 THEN "IDLE" ELSE "start"
  <2>1. wave[1].cycles \in Nat \ {0} /\ edge_count \in 0..63
    BY <1>1, PieceFields DEF TypeOK, UartRxTypeOK
  <2> QED
    BY <1>3, <2>1 DEF InGlitch
<1>5. edge_count # check_edge /\ (edge_count + 1) % 64 = edge_count + 1
  BY <1>3, <1>4
<1>6. rstate' = "start"
  BY <1>2, <1>4, <1>5 DEF Tick, FsmTick
<1>7. edge_count' = edge_count + 1 /\ bit_count' = 0
  BY <1>2, <1>4, <1>5 DEF Tick, CounterTick, EdgeDone, edge_bit_en, starting
<1>8. StillDue = NoByte
  BY <1>4 DEF StillDue, InGlitch, data_valid
<1> QED
  BY <1>1, <1>4, <1>6, <1>7, <1>8

LEMMA GlitchGoesOn ==
    ASSUME EnoughTime, TypeOK, setting \in Settings, Tick(RX_IN), InGlitch, SameBit
    PROVE  InGlitch'
PROOF
<1>1. /\ rstate' = "start" /\ edge_count' = edge_count + 1 /\ bit_count' = 0
      /\ edge_count \in 0..63 /\ StillDue = NoByte /\ wave[1] \in Piece
  BY GlitchStep
<1>2. /\ wave[1].level = 0 /\ ~wave[1].noise /\ Len(wave) = 2 /\ wave[2] = Rest
      /\ edge_count + wave[1].cycles <= Half
  BY DEF InGlitch
<1>3. /\ Len(wave') = 2 /\ wave'[2] = Rest /\ wave'[1].level = 0 /\ ~wave'[1].noise
      /\ wave'[1].cycles = wave[1].cycles - 1 /\ ~flip' /\ due' = NoByte
  BY <1>1, <1>2, SameBitShape
<1>4. Half' = Half /\ Rest' = Rest
  BY SettingKept DEF Tick
<1>5. edge_count' + wave'[1].cycles <= Half'
  <2>1. wave[1].cycles \in Nat
    BY <1>1, PieceFields
  <2> QED
    BY <1>1, <1>2, <1>3, <1>4, <2>1
<1>6. edge_count' # 0
  BY <1>1
<1> QED
  BY <1>1, <1>3, <1>4, <1>5, <1>6 DEF InGlitch

LEMMA GlitchEnds ==
    ASSUME EnoughTime, TypeOK, setting \in Settings, Tick(RX_IN), InGlitch, NextBit
    PROVE  InRest'
PROOF
<1>1. /\ rstate' = "start" /\ edge_count' = edge_count + 1 /\ bit_count' = 0
      /\ edge_count \in 0..63 /\ StillDue = NoByte
  BY GlitchStep
<1>2. /\ Len(wave) = 2 /\ wave[2] = Rest /\ edge_count + wave[1].cycles <= Half
  BY DEF InGlitch
<1>3. /\ Len(wave') = 1 /\ wave'[1] = Rest /\ ~flip' /\ due' = NoByte /\ wave[1].cycles = 1
  BY <1>1, <1>2, NextBitShape
<1>4. /\ Half' = Half /\ Prescale' = Prescale /\ Recovery(Prescale)' = Recovery(Prescale)
  BY SettingKept DEF Tick
<1>5. /\ wave'[1].cycles = Recovery(Prescale) /\ wave'[1].level = 1 /\ ~wave'[1].noise
  BY <1>3, NewPieces
<1>6. Half \in 2..30 /\ Prescale \in 7..63 /\ Half + 4 < Prescale /\ Recovery(Prescale) \in Nat
  BY Numbers
<1>7. edge_count' <= Half /\ edge_count' \in Nat
  BY <1>1, <1>2, <1>3, <1>6
<1>8. FalseStart'
  BY <1>1, <1>4, <1>5, <1>6, <1>7 DEF FalseStart
<1> QED
  BY <1>3, <1>5, <1>8 DEF InRest

\* A rest: the false start, if there is one, goes on or is left.
LEMMA RestStep ==
    ASSUME EnoughTime, TypeOK, setting \in Settings, Tick(RX_IN), InRest
    PROVE  /\ wave # <<>> /\ wave[1].cycles \in Nat \ {0} /\ StillDue = NoByte
           /\ \/ /\ rstate' = "start" /\ bit_count' = 0
                 /\ rstate = "start" /\ edge_count < Prescale - 1
                 /\ edge_count' = edge_count + 1 /\ edge_count \in 0..63
                 /\ edge_count + wave[1].cycles >= Recovery(Prescale)
                 /\ edge_count' > Half => Samples'[1] = 1
                 /\ edge_count' > Half + 1 => Samples'[2] = 1
                 /\ edge_count' > Half + 2 => sampled_bit' = 1
                 /\ edge_count' > Half + 3 => strt_glitch' = 1
              \/ /\ rstate' = "IDLE" /\ edge_count' = 0 /\ bit_count' \in {0, 1}
                 /\ wave[1].cycles = 1 => bit_count' = 0
PROOF
<1>1. wave # <<>> /\ wave[1] \in Piece /\ level = 1
  <2>1. wave \in Seq(Piece) /\ Len(wave) = 1 /\ wave[1].level = 1
    BY DEF InRest, TypeOK
  <2>2. wave # <<>>
    BY <2>1
  <2> QED
    BY <2>1, <2>2, TailOfWave, LineIsBit
<1>2. RX_IN = 1 /\ wave[1].cycles \in Nat \ {0}
  BY <1>1, PieceFields DEF RX_IN, InRest
<1>3. /\ Half \in 2..30 /\ Prescale \in 7..63 /\ Half + 4 < Prescale /\ check_edge = Prescale - 1
      /\ half_edges_n1 = Half - 1 /\ half_edges = Half /\ half_edges_p1 = Half + 1
      /\ Recovery(Prescale) \in Nat /\ Recovery(Prescale) > Prescale
  BY Numbers
<1>4. StillDue = NoByte
  BY DEF StillDue, InRest, FalseStart, data_valid
<1>5. CASE rstate = "IDLE"
  <2>1. rstate' = "IDLE" /\ edge_count' = 0 /\ bit_count' = 0
    BY <1>2, <1>5 DEF Tick, FsmTick, CounterTick, edge_bit_en, starting
  <2> QED
    BY <1>1, <1>2, <1>4, <2>1
<1>6. CASE rstate # "IDLE"
  <2>1. FalseStart
    BY <1>6 DEF InRest
  <2>2. edge_count \in 0..63 /\ edge_count < Prescale /\ Samples \in [0..2 -> Bit]
    BY <2>1 DEF FalseStart, TypeOK, UartRxTypeOK
  <2>3. rstate = "start" /\ bit_count = 0
    BY <2>1 DEF FalseStart
  <2>4. CASE edge_count = Prescale - 1
    <3>1. strt_glitch = 1
      BY <1>3, <2>1, <2>4 DEF FalseStart
    <3>2. rstate' = "IDLE"
      BY <1>3, <2>3, <2>4, <3>1 DEF Tick, FsmTick, AfterStart
    <3>3. edge_count' = 0 /\ bit_count' = 1
      BY <1>3, <2>3, <2>4 DEF Tick, CounterTick, EdgeDone, edge_bit_en
    <3>4. wave[1].cycles # 1
      BY <1>2, <1>3, <2>1, <2>4 DEF FalseStart
    <3> QED
      BY <1>1, <1>2, <1>4, <3>2, <3>3, <3>4
  <2>5. CASE edge_count # Prescale - 1
    <3>1. edge_count < Prescale - 1 /\ (edge_count + 1) % 64 = edge_count + 1
      BY <1>3, <2>2, <2>5
    <3>2. rstate' = "start"
      BY <1>3, <2>3, <2>5 DEF Tick, FsmTick
    <3>3. edge_count' = edge_count + 1 /\ bit_count' = 0
      BY <1>3, <2>3, <2>5, <3>1 DEF Tick, CounterTick, EdgeDone, edge_bit_en
    <3>4. /\ Samples' = [s \in 0..2 |-> IF s \in Slots THEN RX_IN ELSE Samples[s]]
          /\ sampled_bit' = Majority(Samples) /\ strt_glitch' = sampled_bit
      BY <2>3 DEF Tick, SamplerTick, ChecksTick, dat_samp_en, strt_chk_en
    <3>5. edge_count' > Half => Samples'[1] = 1
      BY <1>2, <1>3, <2>1, <2>2, <3>3, <3>4 DEF FalseStart, Slots
    <3>6. edge_count' > Half + 1 => Samples'[2] = 1
      BY <1>2, <1>3, <2>1, <2>2, <3>3, <3>4 DEF FalseStart, Slots
    <3>7. edge_count' > Half + 2 => sampled_bit' = 1
      <4> SUFFICES ASSUME edge_count' > Half + 2 PROVE Majority(Samples) = 1
        BY <3>4
      <4>1. Samples[1] = 1 /\ Samples[2] = 1 /\ Samples[0] \in {0, 1}
        BY <1>3, <2>1, <2>2, <3>3 DEF FalseStart, Bit
      <4> QED
        BY <4>1 DEF Majority
    <3>8. edge_count' > Half + 3 => strt_glitch' = 1
      BY <1>3, <2>1, <2>2, <3>3, <3>4 DEF FalseStart
    <3> QED
      BY <1>1, <1>2, <1>4, <2>1, <2>2, <2>3, <3>1, <3>2, <3>3, <3>5, <3>6, <3>7, <3>8 DEF FalseStart
  <2> QED
    BY <2>4, <2>5
<1> QED
  BY <1>5, <1>6

LEMMA RestGoesOn ==
    ASSUME EnoughTime, TypeOK, setting \in Settings, Tick(RX_IN), InRest, SameBit
    PROVE  InRest'
PROOF
<1>1. /\ Len(wave) = 1 /\ wave[1].level = 1 /\ ~wave[1].noise
  BY DEF InRest
<1>2. /\ Len(wave') = 1 /\ wave'[1].level = 1 /\ ~wave'[1].noise
      /\ wave'[1].cycles = wave[1].cycles - 1 /\ ~flip' /\ due' = StillDue
  BY <1>1, SameBitShape
<1>3. Half' = Half /\ Prescale' = Prescale /\ Recovery(Prescale)' = Recovery(Prescale)
  BY SettingKept DEF Tick
<1>4. wave[1].cycles \in Nat \ {0} /\ StillDue = NoByte
  BY RestStep
<1>5. Half \in 2..30 /\ Prescale \in 7..63 /\ Recovery(Prescale) \in Nat
  BY Numbers
<1>6. FalseStart' \/ (rstate' = "IDLE" /\ edge_count' = 0 /\ bit_count' \in {0, 1})
  <2> SUFFICES ASSUME rstate' # "IDLE" PROVE FalseStart'
    BY RestStep
  <2>1. /\ rstate' = "start" /\ bit_count' = 0
        /\ edge_count < Prescale - 1
        /\ edge_count' = edge_count + 1 /\ edge_count \in 0..63
        /\ edge_count + wave[1].cycles >= Recovery(Prescale)
        /\ edge_count' > Half => Samples'[1] = 1
        /\ edge_count' > Half + 1 => Samples'[2] = 1
        /\ edge_count' > Half + 2 => sampled_bit' = 1
        /\ edge_count' > Half + 3 => strt_glitch' = 1
    BY RestStep
  <2>2. edge_count' < Prescale' /\ edge_count' + wave'[1].cycles >= Recovery(Prescale)
    BY <1>2, <1>3, <1>4, <1>5, <2>1
  <2> QED
    BY <1>3, <2>1, <2>2 DEF FalseStart
<1> QED
  BY <1>2, <1>4, <1>6 DEF InRest

-----------------------------------------------------------------------------
(* The invariant.                                                          *)

\* An idle receiver at the end of the wave: what the sender begins next.
LEMMA BeginMaps ==
    ASSUME EnoughTime, TypeOK, setting \in Settings, setting' = setting, Begin,
           rstate' = "IDLE", edge_count' = 0, bit_count' = 0, StillDue = NoByte
    PROVE  Resting' \/ InGlitch' \/ InFrame'
PROOF
<1>1. /\ Prescale \in 7..63 /\ Half \in 2..30 /\ bits \in {9, 10}
      /\ Prescale' = Prescale /\ Half' = Half /\ bits' = bits /\ Rest' = Rest
  BY Numbers, SettingKept, BitsOfFrame
<1>2. flip' = FALSE
  BY DEF Begin
<1>3. CASE wave' = <<>> /\ due' = StillDue
  BY <1>2, <1>3 DEF Resting
<1>4. ASSUME NEW byte \in Bytes, NEW bad_parity \in Bit, NEW bad_stop \in Bit,
             bad_parity = 1 => setting.parity_enable,
             wave' = Frame(byte, bad_parity, bad_stop),
             due' = IF bad_parity + bad_stop = 0 THEN byte ELSE NoByte
      PROVE  InFrame'
  <2>1. byte \in Byte
    BY BenchAssumption
  <2>2. /\ Frame(byte, bad_parity, bad_stop)' = Frame(byte, bad_parity, bad_stop)
        /\ Level(byte, bad_parity, bad_stop, 0)' = 0
        /\ Level(byte, bad_parity, bad_stop, 0) = 0
    BY SettingKept DEF Level
  <2>3. /\ Len(wave') = bits + 1 + bad_stop
        /\ wave'[1] = FrameBit(0)
    <3>1. 1 \in 1..bits + 1 /\ 1 - 1 = 0
      BY <1>1
    <3> QED
      BY <1>4, <2>1, <2>2, <3>1, FrameShape
  <2>4. wave'[1].level = 0 /\ wave'[1].cycles = Prescale
    BY <2>3, NewPieces DEF Bit
  <2>5. OnLine(byte, bad_parity, bad_stop, 0)'
    <3>1. Len(wave') = bits + 1 + bad_stop - 0
      BY <1>1, <2>3 DEF Bit
    <3>2. wave'[1].cycles = Prescale' - edge_count'
      BY <1>1, <2>4
    <3>3. \A i \in 2..Len(wave') : wave'[i] = Frame(byte, bad_parity, bad_stop)[0 + i]
      BY <1>4
    <3> QED
      BY <1>1, <1>2, <2>2, <2>4, <3>1, <3>2, <3>3 DEF OnLine
  <2>6. InStep(0)'
    BY <1>1 DEF InStep
  <2>7. Sampling(Level(byte, bad_parity, bad_stop, 0))'
    <3>1. Sampling(0)'
      BY <1>2, SamplingStarts
    <3> QED
      BY <2>2, <3>1 DEF Sampling, Wrong
  <2>8. Received(byte, bad_parity, bad_stop, 0)'
    <3>1. ~(edge_count' > Half' + 3) /\ bits' # 0
      BY <1>1
    <3>2. Shifted(0) = -1
      BY DEF Shifted
    <3> QED
      BY <3>1, <3>2 DEF Received, Shifted
  <2>9. InBit(byte, bad_parity, bad_stop, 0)'
    BY <1>4, <2>5, <2>6, <2>7, <2>8 DEF InBit
  <2>10. 0 \in 0..bits'
    BY <1>1
  <2> QED
    BY <2>9, <2>10 DEF InFrame
<1>5. ASSUME NEW cyc \in 1..(setting.prescale \div 2 - 1), wave' = Glitch(cyc), due' = StillDue
      PROVE  InGlitch'
  <2>1. Steady(0, cyc).level = 0 /\ Steady(0, cyc).cycles = cyc /\ ~Steady(0, cyc).noise
    BY DEF Steady
  <2>2. Len(wave') = 2 /\ wave'[1] = Steady(0, cyc) /\ wave'[2] = Rest
    BY <1>5 DEF Glitch
  <2>3. cyc \in 1..Half
    BY DEF Half, Prescale
  <2>4. edge_count' + wave'[1].cycles <= Half'
    BY <1>1, <2>1, <2>2, <2>3
  <2> QED
    BY <1>1, <1>2, <1>5, <2>1, <2>2, <2>4 DEF InGlitch
<1> QED
  BY <1>3, <1>4, <1>5 DEF Begin

LEMMA RestingStep ==
    ASSUME Tick(RX_IN), Resting
    PROVE  rstate' = "IDLE" /\ edge_count' = 0 /\ bit_count' = 0 /\ StillDue = NoByte /\ Ending
PROOF
<1>1. RX_IN = 1
  BY DEF RX_IN, level, Resting
<1>2. rstate' = "IDLE" /\ edge_count' = 0 /\ bit_count' = 0
  BY <1>1 DEF Resting, Tick, FsmTick, CounterTick, edge_bit_en, starting
<1>3. Len(wave) = 0
  BY DEF Resting
<1> QED
  BY <1>2, <1>3 DEF Resting, StillDue, Ending, data_valid

\* A good frame ends with the byte delivered, another one without.
LEMMA FrameEnds ==
    ASSUME EnoughTime, TypeOK, setting \in Settings, Tick(RX_IN), Ending,
           NEW byte \in Bytes, NEW bad_parity \in Bit, NEW bad_stop \in Bit, NEW n \in 0..bits,
           InBit(byte, bad_parity, bad_stop, n)
    PROVE  /\ n = bits /\ bad_stop = 0 /\ wave[1].cycles = 1
           /\ rstate' = "IDLE" /\ edge_count' = 0 /\ bit_count' = 0 /\ StillDue = NoByte
PROOF
<1>1. bits \in {9, 10} /\ bad_stop \in {0, 1} /\ bad_parity \in {0, 1}
  BY BitsOfFrame DEF Bit
<1>2. /\ Len(wave) = bits + 1 + bad_stop - n
      /\ due = IF bad_parity + bad_stop = 0 THEN byte ELSE NoByte
  BY DEF InBit, OnLine
<1>3. Len(wave) <= 1 /\ wave # <<>> /\ wave[1].cycles = 1
  <2>1. wave # <<>> /\ wave \in Seq(Piece)
    BY BitFacts
  <2>2. Head(wave) = wave[1]
    BY <2>1, TailOfWave
  <2> QED
    BY <2>1, <2>2 DEF Ending
<1>4. n = bits /\ bad_stop = 0
  BY <1>1, <1>2, <1>3
<1>5. rstate = "err_chk" /\ RX_IN = 1 /\ par_err = bad_parity /\ stp_err = 0
  BY <1>1, <1>3, <1>4, LastCycle
<1>6. rstate' = "IDLE" /\ edge_count' = 0 /\ bit_count' = 0
  BY <1>5 DEF Tick, FsmTick, AfterCheck, CounterTick, edge_bit_en, starting
<1>7. StillDue = NoByte
  BY <1>1, <1>2, <1>4, <1>5 DEF StillDue, data_valid
<1> QED
  BY <1>3, <1>4, <1>6, <1>7

\* Without parity there is no parity bit.
LEMMA ParityUnused ==
    ASSUME LineInv, Tick(RX_IN), ~setting.parity_enable
    PROVE  par_err' = 0
PROOF
<1>1. par_err = 0 /\ bits = 9
  BY DEF LineInv, bits
<1>2. rstate # "parity"
  <2>1. CASE Resting \/ InGlitch \/ InRest
    BY <2>1 DEF Resting, InGlitch, InRest, FalseStart
  <2>2. CASE InFrame
    <3>1. PICK n \in 0..bits : InStep(n)
      BY <2>2 DEF InFrame, InBit
    <3> QED
      BY <1>1, <3>1 DEF InStep
  <2> QED
    BY <2>1, <2>2 DEF LineInv
<1> QED
  BY <1>1, <1>2 DEF Tick, ChecksTick

LEMMA ClockInv ==
    ASSUME EnoughTime, RxInv, Clock
    PROVE  LineInv'
PROOF
<1>1. TypeOK /\ LineInv /\ setting \in Settings /\ Tick(RX_IN) /\ setting' = setting
  BY DEF RxInv, LineInv, Clock, Tick
<1>2. ~setting.parity_enable => par_err = 0
  BY <1>1 DEF LineInv
<1>3. ~setting'.parity_enable => par_err' = 0
  BY <1>1, ParityUnused
<1>4. Begin => Ending
  BY DEF Begin
<1>5. SUFFICES Resting' \/ InGlitch' \/ InRest' \/ InFrame'
  BY <1>1, <1>3 DEF LineInv
<1>6. CASE Resting
  <2>1. Begin
    BY <1>1, <1>6, RestingStep DEF Clock, NextBit, SameBit, Resting
  <2> QED
    BY <1>1, <1>6, <2>1, RestingStep, BeginMaps
<1>7. CASE InGlitch
  <2>1. Len(wave) = 2
    BY <1>7 DEF InGlitch
  <2>2. ~Ending
    BY <2>1 DEF Ending
  <2> QED
    BY <1>1, <1>4, <1>7, <2>2, GlitchGoesOn, GlitchEnds DEF Clock
<1>8. CASE InRest
  <2>1. CASE SameBit
    BY <1>1, <1>8, <2>1, RestGoesOn
  <2>2. ~NextBit
    <3>1. Len(wave) = 1
      BY <1>8 DEF InRest
    <3> QED
      BY <1>1, <3>1, NextBitShape
  <2>3. CASE Begin
    <3>1. Head(wave) = wave[1] /\ wave # <<>>
      BY <1>1, <1>8, RestStep, TailOfWave DEF TypeOK
    <3>2. wave[1].cycles = 1
      BY <1>4, <2>3, <3>1 DEF Ending
    <3>3. rstate' = "IDLE" /\ edge_count' = 0 /\ bit_count' = 0 /\ StillDue = NoByte
      <4>1. Prescale \in 7..63 /\ Recovery(Prescale) \in Nat /\ Recovery(Prescale) > Prescale
        BY <1>1, Numbers
      <4>2. ~(edge_count \in 0..63 /\ edge_count < Prescale - 1 /\ edge_count + wave[1].cycles >= Recovery(Prescale))
        BY <3>2, <4>1
      <4> QED
        BY <1>1, <1>8, <3>2, <4>2, RestStep
    <3> QED
      BY <1>1, <2>3, <3>3, BeginMaps
  <2> QED
    BY <2>1, <2>2, <2>3 DEF Clock
<1>9. CASE InFrame
  <2>1. PICK byte \in Bytes, bad_parity \in Bit, bad_stop \in Bit, n \in 0..bits :
          InBit(byte, bad_parity, bad_stop, n)
    BY <1>9 DEF InFrame
  <2>2. bits' = bits /\ bits \in {9, 10}
    BY <1>1, SettingKept, BitsOfFrame
  <2>3. CASE SameBit
    <3>1. InBit(byte, bad_parity, bad_stop, n)'
      BY <1>1, <2>1, <2>3, SameBitInFrame
    <3> QED
      BY <2>2, <3>1 DEF InFrame
  <2>4. CASE NextBit /\ n < bits
    <3>1. InBit(byte, bad_parity, bad_stop, n + 1)'
      BY <1>1, <1>2, <2>1, <2>4, NextBitInFrame
    <3>2. n + 1 \in 0..bits'
      BY <2>2, <2>4
    <3> QED
      BY <3>1, <3>2 DEF InFrame
  <2>5. CASE NextBit /\ n = bits
    BY <1>1, <2>1, <2>5, BadStopEnds
  <2>6. CASE Begin
    <3>1. rstate' = "IDLE" /\ edge_count' = 0 /\ bit_count' = 0 /\ StillDue = NoByte
      BY <1>1, <1>4, <2>1, <2>6, FrameEnds
    <3> QED
      BY <1>1, <2>6, <3>1, BeginMaps
  <2>7. n < bits \/ n = bits
    BY <2>2
  <2> QED
    BY <2>3, <2>4, <2>5, <2>6, <2>7 DEF Clock
<1> QED
  BY <1>1, <1>6, <1>7, <1>8, <1>9 DEF LineInv

LEMMA ResetInv ==
    ASSUME RxInv, BenchReset
    PROVE  LineInv'
PROOF
<1>1. Resting'
  BY DEF BenchReset, Reset, Resting
<1>2. setting' \in Settings /\ par_err' = 0
  BY DEF RxInv, LineInv, BenchReset, Reset
<1> QED
  BY <1>1, <1>2 DEF LineInv

LEMMA StutterInv ==
    ASSUME RxInv, UNCHANGED vars
    PROVE  LineInv'
PROOF
<1>1. setting' = setting
  BY DEF vars, uart_rx
<1>2. Resting => Resting'
  BY DEF vars, uart_rx, bench, Resting
<1>3. InGlitch => InGlitch'
  BY <1>1, SettingKept DEF vars, uart_rx, bench, InGlitch
<1>4. InRest => InRest'
  BY <1>1, SettingKept DEF vars, uart_rx, bench, InRest, FalseStart
<1>5. InFrame => InFrame'
  <2> SUFFICES ASSUME NEW byte \in Bytes, NEW bad_parity \in Bit, NEW bad_stop \in Bit, NEW n \in 0..bits,
                      InBit(byte, bad_parity, bad_stop, n)
               PROVE  InFrame'
    BY DEF InFrame
  <2>1. InBit(byte, bad_parity, bad_stop, n)'
    BY <1>1, SettingKept DEF vars, uart_rx, bench, InBit, OnLine, InStep, Sampling, Wrong, Received, Shifted
  <2> QED
    BY <1>1, <2>1, SettingKept DEF InFrame
<1> QED
  BY <1>1, <1>2, <1>3, <1>4, <1>5 DEF RxInv, LineInv, vars, uart_rx

LEMMA RxInvariance ==
    ASSUME EnoughTime
    PROVE  Spec => []RxInv
PROOF
<1>1. BenchInit => RxInv
  <2>1. BenchInit => LineInv
    BY InitType DEF BenchInit, Quiescent, LineInv, Resting
  <2> QED
    BY <2>1, InitType DEF RxInv
<1>2. RxInv /\ [Next]_vars => RxInv'
  <2> SUFFICES ASSUME RxInv, [Next]_vars PROVE RxInv'
    OBVIOUS
  <2>1. TypeOK /\ setting \in Settings
    BY DEF RxInv, LineInv
  <2>2. CASE Clock
    BY <2>1, <2>2, ClockInv, ClockType DEF RxInv
  <2>3. CASE BenchReset
    BY <2>1, <2>3, ResetInv, ResetType DEF RxInv
  <2>4. CASE UNCHANGED vars
    <3>1. TypeOK'
      BY <2>1, <2>4 DEF vars, uart_rx, bench, TypeOK, UartRxTypeOK
    <3> QED
      BY <2>4, <3>1, StutterInv DEF RxInv
  <2> QED
    BY <2>2, <2>3, <2>4 DEF Next
<1> QED
  BY <1>1, <1>2, PTL DEF Spec

\* Whatever the receiver delivers, with whatever prescale, in glitches, noise
\* and broken frames, is the byte of a good frame, and each is delivered once.
THEOREM DeliversSentBytes ==
    ASSUME EnoughTime
    PROVE  Spec => []OnlySentBytes
PROOF
<1>1. RxInv => OnlySentBytes
  <2> SUFFICES ASSUME RxInv, data_valid PROVE P_DATA = due
    BY DEF OnlySentBytes
  <2>1. TypeOK /\ setting \in Settings
    BY DEF RxInv, LineInv
  <2>2. rstate = "err_chk" /\ par_err = 0 /\ stp_err = 0
    BY DEF data_valid
  <2>3. InFrame
    BY <2>2 DEF RxInv, LineInv, Resting, InGlitch, InRest, FalseStart
  <2>4. PICK byte \in Bytes, bad_parity \in Bit, bad_stop \in Bit, n \in 0..bits :
          InBit(byte, bad_parity, bad_stop, n)
    BY <2>3 DEF InFrame
  <2>5. n = bits /\ edge_count = Prescale - 1
    BY <2>2, <2>4, BitsOfFrame DEF InBit, InStep
  <2>6. wave[1].cycles = 1
    <3>1. wave[1].cycles = Prescale - edge_count
      BY <2>1, <2>4, BitFacts
    <3>2. Prescale \in 7..63
      BY <2>1, Numbers
    <3> QED
      BY <2>5, <3>1, <3>2
  <2>7. bad_parity = 0 /\ bad_stop = 0 /\ \A b \in 1..8 : P_DATA[b] = byte[b]
    BY <2>1, <2>2, <2>4, <2>5, <2>6, LastCycle
  <2>8. due = byte
    BY <2>4, <2>7 DEF InBit
  <2>9. P_DATA \in [1..8 -> Bit] /\ byte \in [1..8 -> Bit]
    BY <2>1, BenchAssumption DEF TypeOK, UartRxTypeOK, Byte
  <2> QED
    BY <2>7, <2>8, <2>9
<1> QED
  BY <1>1, RxInvariance, PTL

\* No byte of a good frame is lost: it has been delivered when the frame ends.
THEOREM DeliversInTime ==
    ASSUME EnoughTime
    PROVE  Spec => []DeliveredInTime
PROOF
<1>1. RxInv => DeliveredInTime
  <2> SUFFICES ASSUME RxInv, Ending, due # NoByte PROVE data_valid
    BY DEF DeliveredInTime
  <2>1. TypeOK /\ setting \in Settings
    BY DEF RxInv, LineInv
  <2>2. InFrame
    BY DEF RxInv, LineInv, Resting, InGlitch, InRest
  <2>3. PICK byte \in Bytes, bad_parity \in Bit, bad_stop \in Bit, n \in 0..bits :
          InBit(byte, bad_parity, bad_stop, n)
    BY <2>2 DEF InFrame
  <2>4. bits \in {9, 10} /\ bad_parity \in {0, 1} /\ bad_stop \in {0, 1}
    BY BitsOfFrame DEF Bit
  <2>5. bad_parity = 0 /\ bad_stop = 0
    BY <2>3, <2>4 DEF InBit
  <2>6. wave # <<>> /\ Head(wave) = wave[1]
    BY <2>1, <2>3, BitFacts, TailOfWave
  <2>7. Len(wave) <= 1 /\ wave[1].cycles = 1
    BY <2>6 DEF Ending
  <2>8. Len(wave) = bits + 1 + bad_stop - n
    BY <2>3 DEF InBit, OnLine
  <2>9. n = bits
    BY <2>4, <2>5, <2>7, <2>8
  <2> QED
    BY <2>1, <2>3, <2>5, <2>7, <2>9, LastCycle DEF data_valid
<1> QED
  BY <1>1, RxInvariance, PTL
=============================================================================
