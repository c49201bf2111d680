------------------------- MODULE UartTxBench_proofs -------------------------
(***************************************************************************)
(* The UART's transmitter implements SerialLine, for all bytes, strobes of *)
(* one and of two cycles and stores in any cycle: theorems of              *)
(* UartTxBench!Spec.                                                       *)
(***************************************************************************)
EXTENDS UartTxBench, SequenceTheorems, TLAPS

-----------------------------------------------------------------------------
(* Bytes and the shift register.                                           *)

Octet == [1..8 -> Bit]

LEMMA TableIsSeq ==
    ASSUME NEW S, NEW n \in Nat, NEW d \in [1..n -> S]
    PROVE  d \in Seq(S) /\ Len(d) = n
  OBVIOUS

LEMMA OctetIsSeq ==
    ASSUME NEW d \in Octet
    PROVE  d \in Seq(Bit) /\ Len(d) = 8
  BY TableIsSeq DEF Octet

LEMMA ByteIsOctet ==
    ASSUME NEW b \in Bytes \cup {ZeroByte}
    PROVE  b \in Octet
  BY BenchAssumption DEF Octet, ZeroByte, Bit

\* A shift fills in a 0.
LEMMA Shift ==
    ASSUME NEW d \in Octet
    PROVE  /\ Append(Tail(d), 0) \in Octet
           /\ \A n \in 1..7 : Append(Tail(d), 0)[n] = d[n + 1]
           /\ Append(Tail(d), 0)[8] = 0
PROOF
<1>1. d \in Seq(Bit) /\ Len(d) = 8 /\ d # <<>>
  BY OctetIsSeq
<1>2. /\ Tail(d) \in Seq(Bit) /\ Len(Tail(d)) = Len(d) - 1
      /\ \A n \in 1..Len(Tail(d)) : Tail(d)[n] = d[n + 1]
  BY <1>1, HeadTailProperties
<1>3. 0 \in Bit
  BY DEF Bit
<1> DEFINE e == Append(Tail(d), 0)
<1>4. /\ e \in Seq(Bit) /\ Len(e) = Len(Tail(d)) + 1
      /\ \A n \in 1..Len(Tail(d)) : e[n] = Tail(d)[n]
      /\ e[Len(Tail(d)) + 1] = 0
  BY <1>2, <1>3, AppendProperties
<1>5. e \in [1..Len(e) -> Bit]
  BY <1>4, LenProperties
<1>6. Len(Tail(d)) = 7 /\ Len(e) = 8
  BY <1>1, <1>2, <1>4
<1>7. \A n \in 1..7 : e[n] = d[n + 1]
  BY <1>2, <1>4, <1>6
<1>8. e[8] = 0
  BY <1>4, <1>6
<1> HIDE DEF e
<1>9. e \in Octet
  BY <1>5, <1>6 DEF Octet
<1> QED
  BY <1>7, <1>8, <1>9 DEF e

LEMMA ParityBit ==
    ASSUME NEW b \in Octet, NEW odd \in BOOLEAN
    PROVE  ParityOf(b, odd) \in Bit
PROOF
<1>1. \A n \in 1..8 : b[n] \in Int
  BY DEF Octet, Bit
<1> QED
  BY <1>1 DEF ParityOf, Bit

-----------------------------------------------------------------------------
(* Type correctness.                                                       *)

LEMMA InitType == BenchInit => TypeOK
PROOF
<1> SUFFICES ASSUME BenchInit PROVE TypeOK
  OBVIOUS
<1>1. ZeroByte \in [1..8 -> Bit] /\ 0 \in Bit
  BY DEF ZeroByte, Bit
<1>2. UartTxTypeOK
  <2>1. {parity_enable, parity_type, busy} \subseteq BOOLEAN
    BY DEF BenchInit, Init
  <2>2. data_v \in [1..8 -> Bit] /\ {parity, TX_OUT} \subseteq Bit
    BY <1>1 DEF BenchInit, Init
  <2> QED
    BY <2>1, <2>2 DEF BenchInit, Init, UartTxTypeOK
<1> QED
  BY <1>2 DEF BenchInit, TypeOK

LEMMA ResetType == ASSUME TypeOK, BenchReset PROVE TypeOK'
PROOF
<1>1. ZeroByte \in [1..8 -> Bit] /\ 0 \in Bit
  BY DEF ZeroByte, Bit
<1>2. UartTxTypeOK'
  <2>1. {parity_enable', parity_type', busy'} \subseteq BOOLEAN
    BY DEF BenchReset, Reset
  <2>2. data_v' \in [1..8 -> Bit] /\ {parity', TX_OUT'} \subseteq Bit
    BY <1>1 DEF BenchReset, Reset
  <2> QED
    BY <2>1, <2>2 DEF BenchReset, Reset, UartTxTypeOK
<1> QED
  BY <1>2 DEF BenchReset, TypeOK

\* What is written has the type of its register.
LEMMA WrittenType ==
    ASSUME TypeOK
    PROVE  /\ valid_tx(wr) => wr.data \in Bytes
           /\ wr # NoWrite /\ wr.reg = "CTRL" => wr.enable \in BOOLEAN /\ wr.odd \in BOOLEAN
PROOF
<1>1. wr # NoWrite => wr \in Writes
  BY DEF TypeOK
<1> QED
  BY <1>1 DEF Writes, valid_tx

LEMMA DriveType ==
    ASSUME TypeOK, Drive
    PROVE  wr' \in Writes \cup {NoWrite} /\ left' \in 0..1
PROOF
<1>1. wr \in Writes \cup {NoWrite} /\ left \in 0..1
  BY DEF TypeOK
<1>2. \A length \in StrobeLengths : length - 1 \in 0..1
  BY BenchAssumption
<1> QED
  BY <1>1, <1>2 DEF Drive, bench

LEMMA ClockType == ASSUME TypeOK, Clock PROVE TypeOK'
PROOF
<1> USE DEF Clock, Tick
<1>1. tx_reg' \in Bytes \cup {ZeroByte} /\ parity_enable' \in BOOLEAN /\ parity_type' \in BOOLEAN
  <2>1. tx_reg \in Bytes \cup {ZeroByte} /\ parity_enable \in BOOLEAN /\ parity_type \in BOOLEAN
    BY DEF TypeOK, UartTxTypeOK
  <2> QED
    BY <2>1, WrittenType DEF RegisterTick
<1>2. tstate' \in {"IDLE", "start", "data", "parity", "stop"} /\ busy' \in BOOLEAN
  <2>1. tstate \in {"IDLE", "start", "data", "parity", "stop"}
    BY DEF TypeOK, UartTxTypeOK
  <2> QED
    BY <2>1 DEF FsmTick
<1>3. data_v' \in [1..8 -> Bit] /\ ser_count' \in 0..7
  <2>1. data_v \in Octet /\ tx_reg \in Octet /\ ser_count \in 0..7
    BY ByteIsOctet DEF TypeOK, UartTxTypeOK, Octet
  <2>2. Append(Tail(data_v), 0) \in Octet
    BY <2>1, Shift
  <2>3. (ser_count + 1) % 8 \in 0..7
    BY <2>1
  <2> QED
    BY <2>1, <2>2, <2>3 DEF SerializerTick, Octet
<1>4. par_data' \in Bytes \cup {ZeroByte} /\ parity' \in Bit
  <2>1. par_data \in Bytes \cup {ZeroByte} /\ tx_reg \in Bytes \cup {ZeroByte} /\ parity \in Bit
    BY DEF TypeOK, UartTxTypeOK
  <2>2. ParityOf(par_data, parity_type) \in Bit
    BY <2>1, ByteIsOctet, ParityBit DEF TypeOK, UartTxTypeOK
  <2> QED
    BY <2>1, <2>2 DEF ParityTick
<1>5. TX_OUT' \in Bit
  <2>1. data_v[1] \in Bit /\ parity \in Bit /\ 0 \in Bit /\ 1 \in Bit
    BY DEF TypeOK, UartTxTypeOK, Bit
  <2>2. tstate \in {"IDLE", "start", "data", "parity", "stop"}
    BY DEF TypeOK, UartTxTypeOK
  <2> QED
    BY <2>1, <2>2 DEF MuxTick
<1> QED
  BY <1>1, <1>2, <1>3, <1>4, <1>5, DriveType DEF TypeOK, UartTxTypeOK

LEMMA StutterType == ASSUME TypeOK, UNCHANGED vars PROVE TypeOK'
  BY DEF TypeOK, UartTxTypeOK, vars, uart_tx, bench

\* No register of the transmitter leaves its width, whatever is stored and
\* whenever: the counter wraps, the shift register keeps eight bits.
THEOREM TransmitterTypes == Spec => []TypeOK
PROOF
<1>1. TypeOK /\ [Next]_vars => TypeOK'
  BY ClockType, ResetType, StutterType DEF Next
<1> QED
  BY <1>1, InitType, PTL DEF Spec

-----------------------------------------------------------------------------
(* Sequences of bits, taken from the front.                                *)

LEMMA FirstBit ==
    ASSUME NEW e \in Bit, NEW r \in Seq(Bit)
    PROVE  /\ <<e>> \o r \in Seq(Bit) /\ <<e>> \o r # <<>>
           /\ Head(<<e>> \o r) = e /\ Tail(<<e>> \o r) = r
PROOF
<1> DEFINE s == <<e>> \o r
<1>1. <<e>> \in Seq(Bit) /\ Len(<<e>>) = 1 /\ <<e>>[1] = e
  OBVIOUS
<1>2. /\ s \in Seq(Bit) /\ Len(s) = Len(<<e>>) + Len(r)
      /\ \A n \in 1..Len(<<e>>) + Len(r) : s[n] = IF n <= Len(<<e>>) THEN <<e>>[n] ELSE r[n - Len(<<e>>)]
  BY <1>1, ConcatProperties
<1>3. Len(s) = Len(r) + 1 /\ Len(r) \in Nat
  BY <1>1, <1>2, LenProperties
<1>4. s[1] = e /\ \A n \in 1..Len(r) : s[n + 1] = r[n]
  BY <1>1, <1>2, <1>3
<1> HIDE DEF s
<1>5. s # <<>>
  BY <1>3
<1>6. Head(s) = s[1]
  BY <1>2, <1>5
<1>7. /\ Tail(s) \in Seq(Bit) /\ Len(Tail(s)) = Len(s) - 1
      /\ \A n \in 1..Len(Tail(s)) : Tail(s)[n] = s[n + 1]
  BY <1>2, <1>5, HeadTailProperties
<1>8. Tail(s) = r
  <2>1. Len(Tail(s)) = Len(r) /\ \A n \in 1..Len(Tail(s)) : Tail(s)[n] = r[n]
    BY <1>3, <1>4, <1>7
  <2> QED
    BY <1>7, <2>1, SeqEqual
<1> QED
  BY <1>2, <1>4, <1>5, <1>6, <1>8 DEF s

\* The serializer's bits: a shift and a count drop the first one.
LEMMA SerializerBits ==
    ASSUME NEW d \in Octet, NEW c \in 0..7
    PROVE  SubSeq(d, 1, 8 - c) =
             <<d[1]>> \o (IF c = 7 THEN <<>> ELSE SubSeq(Append(Tail(d), 0), 1, 8 - (c + 1)))
PROOF
<1>1. d \in Seq(Bit) /\ Len(d) = 8
  BY OctetIsSeq
<1>2. SubSeq(d, 1, 8 - c) = <<d[1]>> \o SubSeq(d, 2, 8 - c)
  <2>1. 1 \in 1..Len(d) /\ 8 - c \in 1..Len(d)
    BY <1>1
  <2> QED
    BY <1>1, <2>1, SubSeqRecursiveFirst
<1>3. CASE c = 7
  <2>1. SubSeq(d, 2, 8 - c) = <<>>
    BY <1>3, SubSeqEmpty
  <2> QED
    BY <1>2, <1>3, <2>1
<1>4. CASE c \in 0..6
  <2> DEFINE e == Append(Tail(d), 0)
             x == SubSeq(d, 2, 8 - c)
             y == SubSeq(e, 1, 7 - c)
  <2>1. e \in Octet /\ \A n \in 1..7 : e[n] = d[n + 1]
    BY Shift
  <2> HIDE DEF e
  <2>2. \A n \in 1..8 : d[n] \in Bit /\ e[n] \in Bit
    BY <2>1 DEF Octet
  <2>3. 8 - c \in 2..8 /\ 7 - c \in 1..7
    BY <1>4
  <2>4. /\ x \in Seq(Bit) /\ Len(x) = (IF 2 <= 8 - c THEN (8 - c) - 2 + 1 ELSE 0)
        /\ \A n \in 1..((8 - c) - 2 + 1) : x[n] = d[2 + n - 1]
    <3>1. \A n \in 2..(8 - c) : d[n] \in Bit
      BY <2>2, <2>3
    <3> QED
      BY <2>3, <3>1, SubSeqProperties
  <2>5. /\ y \in Seq(Bit) /\ Len(y) = (IF 1 <= 7 - c THEN (7 - c) - 1 + 1 ELSE 0)
        /\ \A n \in 1..((7 - c) - 1 + 1) : y[n] = e[1 + n - 1]
    <3>1. \A n \in 1..(7 - c) : e[n] \in Bit
      BY <2>2, <2>3
    <3> QED
      BY <2>3, <3>1, SubSeqProperties
  <2> HIDE DEF x, y
  <2>6. Len(x) = 7 - c /\ Len(y) = 7 - c
    BY <2>3, <2>4, <2>5
  <2>7. \A n \in 1..(7 - c) : x[n] = y[n]
    BY <2>1, <2>3, <2>4, <2>5
  <2>8. x = y
    BY <2>4, <2>5, <2>6, <2>7, SeqEqual
  <2>9. 8 - (c + 1) = 7 - c /\ c # 7
    BY <1>4
  <2> QED
    BY <1>2, <2>8, <2>9 DEF e, x, y
<1>5. c = 7 \/ c \in 0..6
  OBVIOUS
<1> QED
  BY <1>3, <1>4, <1>5, Zenon

LEMMA FirstOfOctet ==
    ASSUME NEW d \in Octet
    PROVE  SubSeq(d, 1, 1) = <<d[1]>>
PROOF
<1>1. d \in Seq(Bit) /\ 1 \in 1..Len(d)
  <2>1. d \in Seq(Bit) /\ Len(d) = 8
    BY OctetIsSeq
  <2> QED
    BY <2>1
<1>2. SubSeq(d, 1, 1) = <<d[1]>> \o SubSeq(d, 2, 1)
  BY <1>1, SubSeqRecursiveFirst
<1>3. SubSeq(d, 2, 1) = <<>>
  BY SubSeqEmpty
<1>4. <<d[1]>> \o <<>> = <<d[1]>>
  OBVIOUS
<1> QED
  BY <1>2, <1>3, <1>4

\* One bit and seven zeros make an octet.
LEMMA LateOctet ==
    ASSUME NEW d \in Octet, \A n \in 2..8 : d[n] = 0
    PROVE  SubSeq(d, 1, 1) \o Serial!SevenZeros = d
PROOF
<1> DEFINE z == Serial!SevenZeros
           s == <<d[1]>> \o z
<1>1. SubSeq(d, 1, 1) = <<d[1]>>
  BY FirstOfOctet
<1>2. z \in [1..7 -> Bit] /\ \A n \in 1..7 : z[n] = 0
  BY DEF Serial!SevenZeros, Bit
<1> HIDE DEF z
<1>3. z \in Seq(Bit) /\ Len(z) = 7
  <2>1. 7 \in Nat /\ z \in [1..7 -> Bit]
    BY <1>2
  <2> QED
    BY <2>1, TableIsSeq
<1>4. d \in Seq(Bit) /\ Len(d) = 8 /\ d[1] \in Bit
  BY OctetIsSeq DEF Octet
<1>5. <<d[1]>> \in Seq(Bit) /\ Len(<<d[1]>>) = 1 /\ <<d[1]>>[1] = d[1]
  BY <1>4
<1>6. /\ s \in Seq(Bit) /\ Len(s) = Len(<<d[1]>>) + Len(z)
      /\ \A n \in 1..Len(<<d[1]>>) + Len(z) :
            s[n] = IF n <= Len(<<d[1]>>) THEN <<d[1]>>[n] ELSE z[n - Len(<<d[1]>>)]
  BY <1>3, <1>5, ConcatProperties
<1>7. Len(s) = 8 /\ s[1] = d[1] /\ \A n \in 2..8 : s[n] = 0
  BY <1>2, <1>3, <1>5, <1>6
<1> HIDE DEF s
<1>8. s = d
  <2>1. \A n \in 1..8 : s[n] = d[n]
    BY <1>7
  <2> QED
    BY <1>4, <1>6, <1>7, <2>1, SeqEqual
<1> QED
  BY <1>1, <1>8 DEF s, z

-----------------------------------------------------------------------------
(* The transmitter.                                                        *)

\* busy follows the state by one cycle; the counter counts in the data state
\* only, and the places of the shift register it has passed hold zeros.
FrameInv ==
    /\ tstate = "start" => ~busy
    /\ tstate \in {"data", "parity", "stop"} => busy
    /\ tstate # "data" => ser_count = 0
    /\ tstate = "data" => \A n \in 1..8 : n > 8 - ser_count => data_v[n] = 0
    /\ tstate \in {"parity", "stop"} \/ (tstate = "IDLE" /\ busy) =>
          \A n \in 2..8 : data_v[n] = 0

BenchInv == TypeOK /\ FrameInv

LEMMA InitFrame == BenchInit => FrameInv
  BY DEF BenchInit, Init, FrameInv

LEMMA ClockFrame ==
    ASSUME BenchInv, Clock
    PROVE  FrameInv'
PROOF
<1>1. /\ tstate \in {"IDLE", "start", "data", "parity", "stop"}
      /\ ser_count \in 0..7 /\ data_v \in Octet /\ FrameInv
  BY DEF BenchInv, TypeOK, UartTxTypeOK, Octet
<1>2. /\ tstate' = "start" => tstate = "IDLE"
      /\ tstate' = "data" => tstate \in {"start", "data"}
      /\ tstate' = "parity" => tstate = "data" /\ ser_done
      /\ tstate' = "stop" => tstate = "parity" \/ (tstate = "data" /\ ser_done)
      /\ tstate' = "IDLE" => tstate \in {"IDLE", "stop"}
      /\ tstate = "data" /\ ~ser_done => tstate' = "data"
      /\ busy' <=> tstate # "IDLE"
  BY <1>1 DEF Clock, Tick, FsmTick
<1>3. tstate' # "data" => ser_count' = 0
  BY <1>1, <1>2 DEF Clock, Tick, SerializerTick, Ser_enable
<1>4. ASSUME tstate' = "data", NEW n \in 1..8, n > 8 - ser_count' PROVE data_v'[n] = 0
  <2>1. CASE tstate = "start"
    <3>1. ser_count' = 0
      BY <2>1 DEF Clock, Tick, SerializerTick, Ser_enable
    <3> QED
      BY <1>4, <3>1
  <2>2. CASE tstate = "data" /\ ~ser_done
    <3>1. busy
      BY <1>1, <2>2 DEF FrameInv
    <3>2. data_v' = Append(Tail(data_v), 0) /\ ser_count' = (ser_count + 1) % 8
      BY <2>2, <3>1 DEF Clock, Tick, SerializerTick, Ser_enable
    <3>3. ser_count \in 0..6 /\ ser_count' = ser_count + 1
      BY <1>1, <2>2, <3>2 DEF ser_done
    <3>4. CASE n = 8
      BY <1>1, <3>2, <3>4, Shift
    <3>5. CASE n \in 1..7
      <4>1. data_v'[n] = data_v[n + 1]
        BY <1>1, <3>2, <3>5, Shift
      <4>2. n + 1 \in 1..8 /\ n + 1 > 8 - ser_count
        BY <1>4, <3>3, <3>5
      <4>3. data_v[n + 1] = 0
        BY <1>1, <2>2, <4>2 DEF FrameInv
      <4> QED
        BY <4>1, <4>3
    <3> QED
      BY <3>4, <3>5
  <2>3. CASE tstate = "data" /\ ser_done
    <3>1. tstate' # "data"
      BY <2>3 DEF Clock, Tick, FsmTick
    <3> QED
      BY <1>4, <3>1
  <2> QED
    BY <1>2, <1>4, <2>1, <2>2, <2>3
<1>5. ASSUME tstate' \in {"parity", "stop"} \/ (tstate' = "IDLE" /\ busy'), NEW n \in 2..8
      PROVE  data_v'[n] = 0
  <2>1. tstate \in {"parity", "stop"} \/ (tstate = "data" /\ ser_done)
    BY <1>2, <1>5
  <2>2. busy /\ data_v' = data_v
    BY <1>1, <2>1 DEF FrameInv, Clock, Tick, SerializerTick, Ser_enable
  <2>3. CASE tstate \in {"parity", "stop"}
    BY <1>1, <2>2, <2>3 DEF FrameInv
  <2>4. CASE tstate = "data" /\ ser_done
    <3>1. n \in 1..8 /\ n > 8 - ser_count
      BY <2>4 DEF ser_done
    <3> QED
      BY <1>1, <2>2, <2>4, <3>1 DEF FrameInv
  <2> QED
    BY <2>1, <2>3, <2>4
<1>6. tstate' = "start" => ~busy'
  BY <1>2
<1>7. tstate' \in {"data", "parity", "stop"} => busy'
  BY <1>2
<1> QED
  BY <1>3, <1>4, <1>5, <1>6, <1>7 DEF FrameInv

LEMMA ResetFrame == ASSUME BenchReset PROVE FrameInv'
  BY DEF BenchReset, Reset, FrameInv

LEMMA StutterFrame == ASSUME BenchInv, UNCHANGED vars PROVE FrameInv'
  BY DEF BenchInv, FrameInv, vars, uart_tx

LEMMA BenchInvariance == Spec => []BenchInv
PROOF
<1>1. BenchInv /\ [Next]_vars => BenchInv'
  BY ClockType, ResetType, StutterType, ClockFrame, ResetFrame, StutterFrame DEF BenchInv, Next
<1> QED
  BY <1>1, InitType, InitFrame, PTL DEF Spec, BenchInv

-----------------------------------------------------------------------------
(* A clock edge is a step of the line.                                     *)

LEMMA SameParity ==
    ASSUME NEW b
    PROVE  ParityOf(b, parity_type) = Serial!ParityBit(b)
  BY DEF ParityOf, Serial!ParityBit, Serial!Ones

LEMMA Stores == ASSUME Clock PROVE Serial!Store
  BY DEF Clock, Tick, RegisterTick, valid_tx, Serial!Store, Serial!Writes

LEMMA Valid == valid_tx(wr) <=> Serial!Writes("TX")
  BY DEF valid_tx, Serial!Writes

LEMMA IdleMaps ==
    ASSUME BenchInv, Clock, tstate = "IDLE"
    PROVE  Serial!Send
PROOF
<1>1. /\ data_v \in Octet /\ TX_OUT' = 1 /\ ~Ser_enable
      /\ tstate' = IF valid_tx(wr) THEN "start" ELSE "IDLE"
      /\ ~busy'
  BY DEF BenchInv, TypeOK, UartTxTypeOK, Octet, Clock, Tick, MuxTick, FsmTick, Ser_enable
<1>2. /\ data_v' = IF valid_tx(wr) /\ ~busy THEN tx_reg ELSE data_v
      /\ par_data' = IF valid_tx(wr) /\ ~busy THEN tx_reg ELSE par_data
  BY <1>1 DEF Clock, Tick, SerializerTick, ParityTick
<1>3. CASE ~valid_tx(wr)
  <2>1. part \in {"rest", "end"} /\ part' = "rest" /\ bits' = bits
    BY <1>1, <1>2, <1>3 DEF part, bits
  <2> QED
    BY <1>1, <1>2, <1>3, <2>1, Valid DEF Serial!Send, Serial!Rest
<1>4. CASE valid_tx(wr) /\ ~busy
  <2>1. part = "rest" /\ part' = "start" /\ bits' = tx_reg
    BY <1>1, <1>2, <1>4 DEF part, bits
  <2> QED
    BY <1>1, <1>2, <1>4, <2>1, Valid DEF Serial!Send, Serial!Begin
<1>5. CASE valid_tx(wr) /\ busy
  <2>1. part = "end" /\ part' = "start" /\ bits' = data_v /\ bits = SubSeq(data_v, 1, 1)
    BY <1>1, <1>2, <1>5 DEF part, bits
  <2>2. \A n \in 2..8 : data_v[n] = 0
    BY <1>5 DEF BenchInv, FrameInv
  <2>3. bits' = bits \o Serial!SevenZeros
    BY <1>1, <2>1, <2>2, LateOctet
  <2> QED
    BY <1>1, <1>2, <1>5, <2>1, <2>3, Valid DEF Serial!Send, Serial!BeginLate
<1> QED
  BY <1>3, <1>4, <1>5

LEMMA StartMaps ==
    ASSUME BenchInv, Clock, tstate = "start"
    PROVE  Serial!Send
PROOF
<1>1. data_v \in Octet /\ tx_reg \in Octet /\ ~busy
  BY ByteIsOctet DEF BenchInv, FrameInv, TypeOK, UartTxTypeOK, Octet
<1>2. /\ tstate' = "data" /\ TX_OUT' = 0 /\ ser_count' = 0
      /\ data_v' = IF valid_tx(wr) THEN tx_reg ELSE data_v
      /\ par_data' = IF valid_tx(wr) THEN tx_reg ELSE par_data
  BY <1>1 DEF Clock, Tick, FsmTick, MuxTick, SerializerTick, ParityTick, Ser_enable
<1>3. bits = data_v /\ bits' = data_v'
  <2>1. \A d \in Octet : SubSeq(d, 1, 8 - 0) = d
    BY OctetIsSeq, SubSeqFull
  <2>2. bits' = SubSeq(data_v', 1, 8 - 0) /\ data_v' \in Octet
    BY <1>1, <1>2 DEF bits
  <2> QED
    BY <2>1, <2>2 DEF bits
<1>4. part = "start" /\ part' = "data"
  BY <1>2 DEF part
<1> QED
  BY <1>2, <1>3, <1>4, Valid DEF Serial!Send, Serial!StartBit

LEMMA DataMaps ==
    ASSUME BenchInv, Clock, tstate = "data"
    PROVE  Serial!Send
PROOF
<1>1. data_v \in Octet /\ data_v[1] \in Bit /\ ser_count \in 0..7 /\ busy
  BY DEF BenchInv, FrameInv, TypeOK, UartTxTypeOK, Octet
<1>2. part = "data" /\ bits = SubSeq(data_v, 1, 8 - ser_count)
  BY DEF part, bits
<1>3. TX_OUT' = data_v[1] /\ par_data' = par_data
  BY <1>1 DEF Clock, Tick, MuxTick, ParityTick
<1>4. CASE ser_count = 7
  <2>1. bits = <<data_v[1]>>
    BY <1>1, <1>2, <1>4, FirstOfOctet
  <2>2. /\ tstate' = (IF parity_enable THEN "parity" ELSE "stop") /\ data_v' = data_v
        /\ parity' = (IF parity_enable THEN ParityOf(par_data, parity_type) ELSE parity)
    BY <1>1, <1>4 DEF Clock, Tick, FsmTick, ser_done, ParityTick, SerializerTick, Ser_enable
  <2>3. bits' = bits
    BY <1>2, <1>4, <2>2 DEF bits
  <2>4. Len(bits) = 1 /\ Head(bits) = data_v[1]
    BY <2>1
  <2>5. part' = tstate'
    BY <2>2 DEF part
  <2>6. CASE parity_enable
    BY <1>2, <1>3, <2>2, <2>3, <2>4, <2>5, <2>6, SameParity DEF Serial!Send, Serial!LastBit
  <2>7. CASE ~parity_enable
    BY <1>2, <1>3, <2>2, <2>3, <2>4, <2>5, <2>7 DEF Serial!Send, Serial!LastBit
  <2> QED
    BY <2>6, <2>7
<1>5. CASE ser_count \in 0..6
  <2> DEFINE e == Append(Tail(data_v), 0)
             r == SubSeq(e, 1, 8 - (ser_count + 1))
  <2>1. bits = <<data_v[1]>> \o r
    <3>1. ser_count # 7
      BY <1>5
    <3>2. SubSeq(data_v, 1, 8 - ser_count) = <<data_v[1]>> \o r
      BY <1>1, <3>1, SerializerBits
    <3> QED
      BY <1>2, <3>2
  <2>2. tstate' = "data" /\ ser_count' = ser_count + 1 /\ data_v' = e
    <3>1. ~ser_done /\ (ser_count + 1) % 8 = ser_count + 1
      BY <1>5 DEF ser_done
    <3> QED
      BY <1>1, <3>1 DEF Clock, Tick, FsmTick, SerializerTick, Ser_enable
  <2>3. bits' = r
    BY <2>2 DEF bits
  <2>4. r \in Seq(Bit) /\ Len(r) = 7 - ser_count
    <3>1. e \in Octet
      BY <1>1, Shift
    <3> HIDE DEF e
    <3>2. 8 - (ser_count + 1) \in 1..7 /\ 8 - (ser_count + 1) = 7 - ser_count
      BY <1>5
    <3>3. \A n \in 1..(8 - (ser_count + 1)) : e[n] \in Bit
      BY <3>1, <3>2 DEF Octet
    <3>4. /\ SubSeq(e, 1, 8 - (ser_count + 1)) \in Seq(Bit)
          /\ Len(SubSeq(e, 1, 8 - (ser_count + 1))) = 8 - (ser_count + 1)
      BY <3>2, <3>3, SubSeqProperties
    <3> QED
      BY <3>2, <3>4
  <2> HIDE DEF r
  <2>5. Head(bits) = data_v[1] /\ Tail(bits) = r
    BY <1>1, <2>1, <2>4, FirstBit
  <2>6. Len(bits) > 1
    <3>1. <<data_v[1]>> \in Seq(Bit) /\ Len(<<data_v[1]>>) = 1
      BY <1>1
    <3>2. Len(bits) = Len(<<data_v[1]>>) + Len(r)
      BY <2>1, <2>4, <3>1, ConcatProperties
    <3> QED
      BY <1>5, <2>4, <3>1, <3>2
  <2>7. part' = "data"
    BY <2>2 DEF part
  <2> QED
    BY <1>2, <1>3, <2>2, <2>3, <2>5, <2>6, <2>7 DEF Serial!Send, Serial!DataBit
<1> QED
  BY <1>1, <1>4, <1>5

LEMMA EndMaps ==
    ASSUME BenchInv, Clock, tstate \in {"parity", "stop"}
    PROVE  Serial!Send
PROOF
<1>1. /\ busy /\ ~Ser_enable /\ data_v' = data_v /\ par_data' = par_data
      /\ tstate' = (IF tstate = "parity" THEN "stop" ELSE "IDLE") /\ busy'
      /\ TX_OUT' = IF tstate = "parity" THEN parity ELSE 1
  BY DEF BenchInv, FrameInv, Clock, Tick, SerializerTick, ParityTick, FsmTick, MuxTick, Ser_enable
<1>2. part = tstate /\ part' = (IF tstate = "parity" THEN "stop" ELSE "end") /\ bits' = bits
  BY <1>1 DEF part, bits
<1>3. CASE tstate = "parity"
  BY <1>1, <1>2, <1>3 DEF Serial!Send, Serial!SendParity
<1>4. CASE tstate = "stop"
  BY <1>1, <1>2, <1>4 DEF Serial!Send, Serial!StopBit
<1> QED
  BY <1>3, <1>4

LEMMA ZeroBits == SubSeq(ZeroByte, 1, 1) = <<0>>
PROOF
<1>1. ZeroByte \in Octet /\ ZeroByte[1] = 0
  BY DEF ZeroByte, Octet, Bit
<1> QED
  BY <1>1, FirstOfOctet

LEMMA InitMaps == ASSUME BenchInit PROVE Serial!Init
PROOF
<1>1. part = "rest" /\ bits = <<0>>
  BY ZeroBits DEF BenchInit, Init, part, bits
<1> QED
  BY <1>1 DEF BenchInit, Init, Serial!Init, Serial!Cleared, Serial!Zero, ZeroByte

LEMMA ResetMaps == ASSUME BenchReset PROVE Serial!Next
PROOF
<1>1. part' = "rest" /\ bits' = <<0>>
  BY ZeroBits DEF BenchReset, Reset, part, bits
<1> QED
  BY <1>1 DEF BenchReset, Reset, Serial!Next, Serial!Cleared, Serial!Zero, ZeroByte

LEMMA StutterMaps == ASSUME UNCHANGED vars PROVE UNCHANGED Serial!serial
PROOF
<1>1. part' = part /\ bits' = bits
  BY DEF vars, uart_tx, part, bits
<1> QED
  BY <1>1 DEF vars, uart_tx, bench, Serial!serial

\* The transmitter implements the line for every byte, whatever the program
\* stores, for one cycle or for two, and whenever it does: start bit, eight
\* bits, parity as CTRL says, stop bit.
THEOREM TransmitterImplementsLine == Spec => SendsFrames
PROOF
<1>1. BenchInv /\ [Next]_vars => [Serial!Next]_(Serial!serial)
  <2> SUFFICES ASSUME BenchInv, [Next]_vars PROVE [Serial!Next]_(Serial!serial)
    OBVIOUS
  <2>1. CASE Clock
    <3>1. tstate \in {"IDLE", "start", "data", "parity", "stop"}
      BY DEF BenchInv, TypeOK, UartTxTypeOK
    <3>2. Serial!Send
      BY <2>1, <3>1, IdleMaps, StartMaps, DataMaps, EndMaps
    <3> QED
      BY <2>1, <3>2, Stores DEF Serial!Next
  <2> QED
    BY <2>1, ResetMaps, StutterMaps DEF Next
<1> QED
  BY <1>1, InitMaps, BenchInvariance, PTL DEF Spec, SendsFrames, Serial!SafeSpec
=============================================================================
