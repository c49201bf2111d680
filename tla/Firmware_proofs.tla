--------------------------- MODULE Firmware_proofs ---------------------------
(***************************************************************************)
(* Safety of sw/src/main.c, for all bytes sent, however many, and all      *)
(* faults of the MAC: theorems of Firmware!Spec.  Types hold on every      *)
(* device, the rest on those that cooperate; on the others main waits.     *)
(***************************************************************************)
EXTENDS Firmware, IntController_proofs, SequenceTheorems, TLAPS

-----------------------------------------------------------------------------
(* Type correctness.                                                       *)

\* The labels of main before the wait for the matrices ends, and before the
\* start bit is written.
BeforeMatrices == {"ctrl", "mstatus", "mie", "receive"}
BeforeStart == BeforeMatrices \cup {"madd", "store", "config", "clear", "start"}
Printing == {"poll", "put", "end"}

\* The bounds of the loops that the types depend on.
LoopInv ==
    /\ pc \in BeforeMatrices => i = 0 /\ j = 0 /\ k = 0 /\ sum = 0
    /\ pc \in {"madd", "store"} => i \in 0..1 /\ j \in 0..1
    /\ pc = "madd" => k \in 0..1
    /\ pc \in BeforeStart => mac = "idle"
    /\ mac = "idle" => element = 0
    /\ mac = "run" => element < 4
    /\ pc \notin Printing => str = 0
    /\ pc = "put" => str < 11
    /\ device.mapped /\ pc \notin BeforeMatrices \cup {"madd", "store", "config"} =>
         base["A"] = 64 /\ base["B"] = 80 /\ base["C"] = 112

\* A MAC that has not finished has not raised its line.
MacLineInv == 17 \in irq_q => mac \in {"done", "answered"}

TypeInv == TypeOK /\ LoopInv /\ MacLineInv

\* The characters of a verdict.
Characters == {"T", "e", "s", "t", "SP", "P", "a", "F", "i", "l", "CR", "LF"}

LEMMA Verdict ==
    ASSUME NEW v
    PROVE  Text(v) \in Seq(Characters) /\ Len(Text(v)) = 11
PROOF
<1> DEFINE Test == <<"T", "e", "s", "t", "SP">>
           Says == IF v = 1 THEN <<"P", "a", "s", "s">> ELSE <<"F", "a", "i", "l">>
           Newline == <<"CR", "LF">>
<1>1. Test \in Seq(Characters) /\ Len(Test) = 5
  BY DEF Characters
<1>2. Says \in Seq(Characters) /\ Len(Says) = 4
  <2>1. /\ <<"P", "a", "s", "s">> \in Seq(Characters) /\ Len(<<"P", "a", "s", "s">>) = 4
        /\ <<"F", "a", "i", "l">> \in Seq(Characters) /\ Len(<<"F", "a", "i", "l">>) = 4
    BY DEF Characters
  <2> QED
    BY <2>1, Zenon
<1>3. Newline \in Seq(Characters) /\ Len(Newline) = 2
  BY DEF Characters
<1>4. Text(v) = Test \o Says \o Newline
  BY DEF Text
<1> HIDE DEF Test, Says, Newline
<1>5. Test \o Says \in Seq(Characters) /\ Len(Test \o Says) = Len(Test) + Len(Says)
  BY <1>1, <1>2, ConcatProperties
<1>6. /\ Test \o Says \o Newline \in Seq(Characters)
      /\ Len(Test \o Says \o Newline) = Len(Test \o Says) + Len(Newline)
  BY <1>3, <1>5, ConcatProperties
<1> QED
  BY <1>1, <1>2, <1>3, <1>4, <1>5, <1>6

\* A byte that is sent is a byte.
LEMMA InputBytes ==
    ASSUME TypeOK
    PROVE  /\ input \in Seq(Bytes) /\ Len(input) \in Nat /\ Len(input) >= 8
           /\ \A n \in 1..Len(input) : input[n] \in Bytes
PROOF
<1>1. input \in Inputs
  BY DEF TypeOK
<1>2. input \in Seq(Bytes) /\ Len(input) >= 8
  BY <1>1, FirmwareAssumption DEF total_expected, MATRIX_M, MATRIX_K, MATRIX_N
<1> QED
  BY <1>2

LEMMA MacLine ==
    ASSUME Sample(irq), mac' = mac \/ mac # "done" \/ mac' = "answered"
    PROVE  MacLineInv'
  BY DEF Sample, irq, MacLineInv

\* The part of the types and bounds that steps of main are about.
MainTypeOK ==
    /\ pc \in MainAt
    /\ i \in 0..4 /\ j \in 0..2 /\ k \in 0..2 /\ sum \in Nat /\ pass \in {0, 1} /\ str \in 0..11
    /\ g_mac_done_flag \in {0, 1} /\ ram \in [0..15 -> Nat]
    /\ uart_ctrl \in SUBSET (0..31) /\ tx_busy \in BOOLEAN
    /\ mac \in {"idle", "run", "done", "answered"} /\ element \in 0..4
    /\ base \in [{"A", "B", "C"} -> Nat]

LEMMA InitType == Init => TypeInv
PROOF
<1> SUFFICES ASSUME Init PROVE TypeInv
  OBVIOUS
<1>1. IntTypeOK /\ irq_id \in IRQ_MASK
  BY DEF Init, IntInit, IntTypeOK, Status, IRQ_MASK
<1>2. input \in Seq(Bytes) /\ 0 \in 0..Len(input)
  BY FirmwareAssumption DEF Init
<1>3. /\ ram \in [0..15 -> Nat] /\ rx_val \in Bytes /\ rx_reg \in Bytes /\ input \in Inputs
      /\ base \in [{"A", "B", "C"} -> Nat] /\ device \in Devices
  BY DEF Init, Bytes
<1>4. TypeOK
  <2>1. arrived \in 0..Len(input)
    BY <1>2 DEF Init
  <2>2. MainTypeOK
    <3>1. /\ pc = "ctrl" /\ i = 0 /\ j = 0 /\ k = 0 /\ sum = 0 /\ pass = 1 /\ str = 0
          /\ g_mac_done_flag = 0 /\ uart_ctrl = {} /\ tx_busy = FALSE /\ mac = "idle" /\ element = 0
      BY DEF Init
    <3>2. pc \in MainAt /\ mac \in {"idle", "run", "done", "answered"}
      BY <3>1 DEF MainAt
    <3>3. uart_ctrl \in SUBSET (0..31) /\ tx_busy \in BOOLEAN
      BY <3>1
    <3> QED
      BY <1>3, <3>1, <3>2, <3>3 DEF MainTypeOK
  <2> QED
    BY <1>1, <1>3, <2>1, <2>2 DEF Init, TypeOK, MainTypeOK
<1>5. LoopInv
  BY DEF Init, LoopInv, BeforeMatrices, BeforeStart, Printing
<1>6. MacLineInv
  BY DEF Init, IntInit, MacLineInv
<1> QED
  BY <1>4, <1>5, <1>6 DEF TypeInv

\* A step of the core: the registers keep their types.
LEMMA SampleType ==
    ASSUME NEW lines, Sample(lines), mie' \in SUBSET IRQ_MASK, mstatus' \in Status
    PROVE  IntTypeOK'
  BY DEF Sample, IntTypeOK

LEMMA MainRegisters ==
    ASSUME TypeInv, MainStep
    PROVE  mie' \in SUBSET IRQ_MASK /\ mstatus' \in Status
PROOF
<1> USE DEF TypeInv, TypeOK, IntTypeOK, csrs
<1>1. CASE EnableInterrupts
  BY <1>1 DEF EnableInterrupts, WriteMstatus, WriteMie, Status
<1>2. CASE UNCHANGED csrs
  BY <1>2
<1> QED
  BY <1>1, <1>2 DEF MainStep, Receive, Multiply, Configure, StartMac, AwaitDone, Compare, PrintVerdict

LEMMA MainTypes ==
    ASSUME MainTypeOK, LoopInv, MainStep
    PROVE  MainTypeOK'
PROOF
<1> USE DEF MainTypeOK, MainAt, Goto, uart_rx, uart_tx, mac_vars
<1>1. CASE EnableInterrupts
  BY <1>1 DEF EnableInterrupts
<1>2. CASE Receive
  BY <1>2 DEF Receive
<1>3. CASE Multiply
  <2> USE DEF MATRIX_M, MATRIX_K, MATRIX_N, RAM_BASE_A, RAM_BASE_B, RAM_BASE_C_SW
  <2>1. CASE pc = "madd"
    <3>1. i \in 0..1 /\ j \in 0..1 /\ k \in 0..1
      BY <2>1 DEF LoopInv
    <3>2. /\ ram[RAM_BASE_A + i * MATRIX_K + k] \in Nat
          /\ ram[RAM_BASE_B + k * MATRIX_N + j] \in Nat
      BY <3>1
    <3>3. \A x, y \in Nat : x * y \in Nat
      OBVIOUS
    <3>4. sum' \in Nat
      BY <1>3, <2>1, <3>2, <3>3 DEF Multiply
    <3> QED
      BY <1>3, <2>1, <3>1, <3>4 DEF Multiply, MoreTerms
  <2>2. CASE pc = "store"
    <3>1. i \in 0..1 /\ j \in 0..1
      BY <2>2 DEF LoopInv
    <3> QED
      BY <1>3, <2>2, <3>1 DEF Multiply
  <2> QED
    BY <1>3, <2>1, <2>2 DEF Multiply
<1>4. CASE Configure
  <2>1. [m \in {"A", "B", "C"} |-> Offset(m)] \in [{"A", "B", "C"} -> Nat]
    BY DEF Offset
  <2> QED
    BY <1>4, <2>1 DEF Configure
<1>5. CASE StartMac
  BY <1>5 DEF StartMac
<1>6. CASE AwaitDone
  BY <1>6 DEF AwaitDone
<1>7. CASE Compare
  BY <1>7 DEF Compare, Cells, MATRIX_M, MATRIX_N
<1>8. CASE PrintVerdict
  <2>1. pc = "put" => str + 1 \in 0..11
    BY DEF LoopInv
  <2> QED
    BY <1>8, <2>1 DEF PrintVerdict
<1> QED
  BY <1>1, <1>2, <1>3, <1>4, <1>5, <1>6, <1>7, <1>8 DEF MainStep

LEMMA MainLoops ==
    ASSUME MainTypeOK, LoopInv, MainStep
    PROVE  LoopInv'
PROOF
<1> USE DEF MainTypeOK, LoopInv, BeforeMatrices, BeforeStart, Printing, Goto, uart_rx, mac_vars
<1>1. CASE EnableInterrupts
  BY <1>1 DEF EnableInterrupts
<1>2. CASE Receive
  BY <1>2 DEF Receive
<1>3. CASE Multiply
  BY <1>3 DEF Multiply, MoreTerms, MATRIX_M, MATRIX_K, MATRIX_N
<1>4. CASE Configure
  BY <1>4 DEF Configure, Offset
<1>5. CASE StartMac
  BY <1>5 DEF StartMac
<1>6. CASE AwaitDone
  BY <1>6 DEF AwaitDone
<1>7. CASE Compare
  BY <1>7 DEF Compare
<1>8. CASE PrintVerdict
  <2>1. str = 11 \/ str < 11
    OBVIOUS
  <2>2. Len(Text(pass)) = 11
    BY Verdict
  <2> QED
    BY <1>8, <2>1, <2>2 DEF PrintVerdict
<1> QED
  BY <1>1, <1>2, <1>3, <1>4, <1>5, <1>6, <1>7, <1>8 DEF MainStep

LEMMA MainType ==
    ASSUME TypeInv, MainStep, UNCHANGED routine, Sample(irq)
    PROVE  TypeInv'
PROOF
<1>1. MainTypeOK
  BY DEF TypeInv, TypeOK, MainTypeOK
<1>2. MainTypeOK' /\ LoopInv'
  BY <1>1, MainTypes, MainLoops DEF TypeInv
<1>3. IntTypeOK'
  BY MainRegisters, SampleType
<1>4. UNCHANGED <<rx_reg, rx_unread, rx_int, input, arrived, device>>
  BY DEF MainStep, EnableInterrupts, Receive, Multiply, Configure, StartMac, AwaitDone, Compare,
         PrintVerdict, uart_rx
<1>5. TypeOK'
  BY <1>2, <1>3, <1>4 DEF TypeInv, TypeOK, MainTypeOK, routine
<1>6. mac' = mac \/ mac # "done"
  BY DEF MainStep, EnableInterrupts, Receive, Multiply, Configure, StartMac, AwaitDone, Compare,
         PrintVerdict, mac_vars, TypeInv, LoopInv, BeforeStart, BeforeMatrices
<1> QED
  BY <1>2, <1>5, <1>6, MacLine DEF TypeInv

LEMMA TakeIrqType ==
    ASSUME TypeInv, TakeIrq, Sample(irq)
    PROVE  TypeInv'
PROOF
<1>1. irq_id_ctrl \in IRQ_MASK
  BY RequestedLine DEF TakeIrq, TypeInv, TypeOK
<1>2. IntTypeOK'
  BY SampleType DEF TakeIrq, Enter, TypeInv, TypeOK, IntTypeOK, Status
<1>3. TypeOK'
  BY <1>1, <1>2 DEF TakeIrq, TypeInv, TypeOK, main, uart_rx, uart_tx
<1>4. mac' = mac \/ (mac \in {"done", "answered"} /\ mac' = "answered")
  BY RequestedLine DEF TakeIrq, TypeInv, TypeOK, MacLineInv, irq_local_qual
<1>5. LoopInv'
  BY <1>4 DEF TakeIrq, TypeInv, LoopInv, main, uart_rx, BeforeMatrices, BeforeStart, Printing
<1>6. MacLineInv'
  BY <1>4, MacLine
<1> QED
  BY <1>3, <1>5, <1>6 DEF TypeInv

LEMMA IsrType ==
    ASSUME TypeInv, IsrStep, Sample(irq)
    PROVE  TypeInv'
PROOF
<1>1. IntTypeOK'
  <2>1. mie \in SUBSET IRQ_MASK /\ mstatus \in Status
    BY DEF TypeInv, TypeOK, IntTypeOK
  <2>2. CASE Mret
    BY <2>1, <2>2, SampleType DEF Mret, Status
  <2>3. CASE mie' = mie /\ mstatus' = mstatus
    BY <2>1, <2>3, SampleType
  <2> QED
    BY <2>2, <2>3 DEF IsrStep
<1>2. ram' \in [0..15 -> Nat]
  <2>1. rx_val \in Nat /\ ram \in [0..15 -> Nat]
    BY DEF TypeInv, TypeOK, Bytes
  <2> QED
    BY <2>1 DEF IsrStep
<1>3. g_uart_rx_count' \in Nat /\ g_mac_done_flag' \in {0, 1}
  <2>1. /\ g_uart_rx_count' \in {g_uart_rx_count, g_uart_rx_count + 1}
        /\ g_mac_done_flag' \in {g_mac_done_flag, 1}
    BY DEF IsrStep
  <2>2. g_uart_rx_count \in Nat /\ g_mac_done_flag \in {0, 1}
    BY DEF TypeInv, TypeOK
  <2> QED
    BY <2>1, <2>2
<1>4. /\ isr' \in {"none", "entry", "store", "count", "mret"} /\ rx_val' \in Bytes
      /\ rx_unread' \in BOOLEAN /\ rx_int' \in BOOLEAN
  BY DEF IsrStep, TypeInv, TypeOK
<1>5. TypeOK'
  BY <1>1, <1>2, <1>3, <1>4 DEF IsrStep, TypeInv, TypeOK, main, uart_tx, mac_vars
<1>6. LoopInv'
  BY DEF IsrStep, TypeInv, LoopInv, main, mac_vars, BeforeMatrices, BeforeStart, Printing
<1>7. MacLineInv'
  BY MacLine DEF IsrStep, mac_vars
<1> QED
  BY <1>5, <1>6, <1>7 DEF TypeInv

LEMMA ByteArrivesType ==
    ASSUME TypeInv, ByteArrives
    PROVE  TypeInv'
PROOF
<1>1. arrived \in 0..Len(input) /\ TypeOK
  BY DEF TypeInv, TypeOK
<1>2. arrived + 1 \in 1..Len(input)
  BY <1>1, InputBytes DEF ByteArrives
<1>3. rx_reg' \in Bytes /\ arrived' \in 0..Len(input)
  BY <1>1, <1>2, InputBytes DEF ByteArrives
<1>4. TypeOK'
  BY <1>3 DEF ByteArrives, TypeInv, TypeOK, main, routine, uart_tx, mac_vars, int, IntTypeOK
<1>5. LoopInv' /\ MacLineInv'
  BY DEF ByteArrives, TypeInv, LoopInv, MacLineInv, main, mac_vars, int,
         BeforeMatrices, BeforeStart, Printing
<1> QED
  BY <1>4, <1>5 DEF TypeInv

LEMMA ReadType ==
    ASSUME TypeOK, NEW m \in {"A", "B", "C"}, NEW n \in 0..3
    PROVE  Word(m, n) \in Int /\ Read(m, n) \in Nat
PROOF
<1>1. base[m] \in Nat /\ ram \in [0..15 -> Nat]
  BY DEF TypeOK
<1>2. Word(m, n) \in Int
  <2>1. \A x \in Nat : x - 16 + n \in Int /\ (x \div 4) - 16 + n \in Int
    OBVIOUS
  <2> QED
    BY <1>1, <2>1 DEF Word
<1>3. Read(m, n) \in Nat
  BY <1>1 DEF Read
<1> QED
  BY <1>2, <1>3

LEMMA ProductType ==
    ASSUME TypeOK, NEW e \in 0..3
    PROVE  Product(e) \in Nat
PROOF
<1>1. \A x, y, z, w \in Nat : x * y + z * w \in Nat
  OBVIOUS
<1>2. \A row, col \in 0..1 : /\ Read("A", row * 2) \in Nat /\ Read("B", col) \in Nat
                            /\ Read("A", row * 2 + 1) \in Nat /\ Read("B", 2 + col) \in Nat
  <2> SUFFICES ASSUME NEW row \in 0..1, NEW col \in 0..1
      PROVE  /\ Read("A", row * 2) \in Nat /\ Read("B", col) \in Nat
             /\ Read("A", row * 2 + 1) \in Nat /\ Read("B", 2 + col) \in Nat
    OBVIOUS
  <2>1. row * 2 \in 0..3 /\ col \in 0..3 /\ row * 2 + 1 \in 0..3 /\ 2 + col \in 0..3
    OBVIOUS
  <2> QED
    BY <2>1, ReadType
<1>3. e \div 2 \in 0..1 /\ e % 2 \in 0..1
  <2>1. e = 0 \/ e = 1 \/ e = 2 \/ e = 3
    OBVIOUS
  <2> QED
    BY <2>1
<1> QED
  BY <1>1, <1>2, <1>3 DEF Product, MATRIX_N

LEMMA MacWritesType ==
    ASSUME TypeInv, MacWrites
    PROVE  TypeInv'
PROOF
<1>1. element \in 0..3 /\ ram \in [0..15 -> Nat]
  BY DEF MacWrites, TypeInv, TypeOK, LoopInv
<1>2. Product(element) \in Nat
  BY <1>1, ProductType DEF TypeInv
<1>3. ram' \in [0..15 -> Nat]
  <2>1. PICK fault \in (IF element = 3 THEN Faults ELSE {0}) :
          ram' = IF Word("C", element) \in 0..15
                 THEN [ram EXCEPT ![Word("C", element)] = Product(element) + fault] ELSE ram
    BY DEF MacWrites
  <2>2. fault \in Nat
    BY <2>1, FirmwareAssumption
  <2>3. Product(element) + fault \in Nat
    BY <1>2, <2>2
  <2> QED
    BY <1>1, <2>1, <2>3
<1>4. TypeOK'
  <2>1. element' \in 0..4 /\ mac' \in {"idle", "run", "done", "answered"}
    BY <1>1 DEF MacWrites
  <2> QED
    BY <1>3, <2>1 DEF MacWrites, TypeInv, TypeOK, main, routine, uart_rx, uart_tx, int, IntTypeOK
<1>5. LoopInv' /\ MacLineInv'
  BY <1>1 DEF MacWrites, TypeInv, LoopInv, MacLineInv, main, uart_rx, int,
              BeforeMatrices, BeforeStart, Printing
<1> QED
  BY <1>4, <1>5 DEF TypeInv

LEMMA CharacterOutType ==
    ASSUME TypeInv, CharacterOut
    PROVE  TypeInv'
PROOF
<1>1. TypeOK'
  BY DEF CharacterOut, TypeInv, TypeOK, main, routine, uart_rx, mac_vars, int, IntTypeOK
<1>2. LoopInv' /\ MacLineInv'
  BY DEF CharacterOut, TypeInv, LoopInv, MacLineInv, main, uart_rx, mac_vars, int,
         BeforeMatrices, BeforeStart, Printing
<1> QED
  BY <1>1, <1>2 DEF TypeInv

LEMMA StutterType ==
    ASSUME TypeInv, UNCHANGED vars
    PROVE  TypeInv'
PROOF
<1> USE DEF vars, main, routine, uart_rx, uart_tx, mac_vars, int
<1>1. TypeOK'
  BY DEF TypeInv, TypeOK, IntTypeOK
<1>2. LoopInv' /\ MacLineInv'
  BY DEF TypeInv, LoopInv, MacLineInv, BeforeMatrices, BeforeStart, Printing
<1> QED
  BY <1>1, <1>2 DEF TypeInv

LEMMA TypeInvariance == Spec => []TypeInv
PROOF
<1>1. TypeInv /\ [Next]_vars => TypeInv'
  <2> SUFFICES ASSUME TypeInv, [Next]_vars PROVE TypeInv'
    OBVIOUS
  <2>1. CASE Cpu
    BY <2>1, MainType, TakeIrqType, IsrType DEF Cpu
  <2> QED
    BY <2>1, ByteArrivesType, MacWritesType, CharacterOutType, StutterType DEF Next
<1> QED
  BY <1>1, InitType, PTL DEF Spec

\* On either device no step of the program, of its interrupt routine or of the
\* hardware takes a variable out of its type: no loop runs past its matrix, and
\* the MAC writes no fifth element.
THEOREM FirmwareTypes == Spec => []TypeOK
  BY TypeInvariance, PTL DEF TypeInv

-----------------------------------------------------------------------------
(* What is received.                                                       *)

\* The interrupt routine is not interrupted; it reads the UART when a byte is
\* there, and answers for the MAC when the MAC has finished.
LineInv ==
    /\ isr # "none" => ~mstatus.MIE
    /\ 16 \in irq_q => rx_int \/ isr = "store"
    /\ isr = "entry" /\ irq_id = 16 => rx_int
    /\ isr = "entry" /\ irq_id = 17 => mac = "answered"
    /\ g_mac_done_flag = 1 => mac = "answered"

InUart == IF rx_unread THEN 1 ELSE 0
InRoutine == IF isr \in {"store", "count"} THEN 1 ELSE 0

\* The consequent of StoredInOrder.
Stored == \A n \in 0..7 : n < g_uart_rx_count => ram[n] = input[n + 1]

\* A byte that arrived is in the UART, in the routine, or counted.
ReceiveInv ==
    /\ arrived = g_uart_rx_count + InUart + InRoutine
    /\ rx_unread => rx_reg = input[arrived]
    /\ rx_int => rx_unread
    /\ isr \in {"store", "count"} => rx_val = input[g_uart_rx_count + 1]
    /\ isr = "count" /\ g_uart_rx_count < 8 => ram[g_uart_rx_count] = rx_val
    /\ Stored

InOrderInv == LineInv /\ ReceiveInv

LEMMA MatrixBytes ==
    /\ total_expected = 8
    /\ \A n \in 0..7 : Cell(n) = n
    /\ RAM_BASE_C_SW = 8 /\ RAM_BASE_C_HW = 12 /\ RAM_BASE_A = 0 /\ RAM_BASE_B = 4
    /\ MATRIX_M = 2 /\ MATRIX_K = 2 /\ MATRIX_N = 2
  BY DEF total_expected, Cell, RAM_BASE_A, RAM_BASE_B, RAM_BASE_C_SW, RAM_BASE_C_HW,
         MATRIX_M, MATRIX_K, MATRIX_N

\* A step of main, or of the MAC, leaves A and B alone.
LEMMA MainKeepsInput ==
    ASSUME TypeInv, MainStep
    PROVE  \A n \in 0..7 : ram'[n] = ram[n]
PROOF
<1>1. CASE Multiply /\ pc = "store"
  <2>1. i \in 0..1 /\ j \in 0..1 /\ ram \in [0..15 -> Nat]
    BY <1>1 DEF TypeInv, LoopInv, TypeOK
  <2>2. ram' = [ram EXCEPT ![8 + i * 2 + j] = sum]
    BY <1>1 DEF Multiply, RAM_BASE_C_SW, MATRIX_N
  <2>3. 8 + i * 2 + j \in 8..11
    BY <2>1
  <2> QED
    BY <2>1, <2>2, <2>3
<1>2. CASE ram' = ram
  BY <1>2
<1> QED
  BY <1>1, <1>2 DEF MainStep, EnableInterrupts, Receive, Multiply, Configure, StartMac, AwaitDone,
                    Compare, PrintVerdict

\* While the MAC runs: where its matrices are, if its base registers count bytes;
\* the words of no matrix, if they count words.
LEMMA MacWords ==
    ASSUME Cooperates, TypeInv, mac = "run", NEW n \in 0..3
    PROVE  /\ device.byte_bases => Word("A", n) = n /\ Word("B", n) = 4 + n /\ Word("C", n) = 12 + n
           /\ ~device.byte_bases => Word("C", n) \notin 0..15
PROOF
<1>1. base["A"] = 64 /\ base["B"] = 80 /\ base["C"] = 112
  BY DEF Cooperates, TypeInv, LoopInv, BeforeStart, BeforeMatrices
<1>2. 64 \div 4 = 16 /\ 80 \div 4 = 20 /\ 112 \div 4 = 28
  OBVIOUS
<1> QED
  BY <1>1, <1>2 DEF Word

LEMMA MacKeepsRest ==
    ASSUME Cooperates, TypeInv, MacWrites
    PROVE  \A n \in 0..11 : ram'[n] = ram[n]
PROOF
<1>1. element \in 0..3 /\ ram \in [0..15 -> Nat] /\ mac = "run"
  BY DEF TypeInv, TypeOK, LoopInv, MacWrites
<1>2. PICK fault : ram' = IF Word("C", element) \in 0..15
                          THEN [ram EXCEPT ![Word("C", element)] = Product(element) + fault] ELSE ram
  BY DEF MacWrites
<1>3. Word("C", element) = 12 + element \/ Word("C", element) \notin 0..15
  BY <1>1, MacWords
<1> QED
  BY <1>1, <1>2, <1>3

\* A step of the routine leaves both products alone, one of main leaves C_HW.
LEMMA RoutineKeepsProducts ==
    ASSUME TypeInv, IsrStep
    PROVE  \A n \in 8..15 : ram'[n] = ram[n]
PROOF
<1>1. \/ UNCHANGED ram
      \/ g_uart_rx_count < 8 /\ ram' = [ram EXCEPT ![Cell(g_uart_rx_count)] = rx_val]
  BY MatrixBytes DEF IsrStep
<1>2. g_uart_rx_count \in Nat /\ ram \in [0..15 -> Nat]
  BY DEF TypeInv, TypeOK
<1>3. g_uart_rx_count < 8 => Cell(g_uart_rx_count) \in 0..7
  BY <1>2, MatrixBytes
<1> QED
  BY <1>1, <1>2, <1>3

LEMMA MainKeepsHardware ==
    ASSUME TypeInv, MainStep
    PROVE  \A n \in 12..15 : ram'[n] = ram[n]
PROOF
<1>1. CASE Multiply /\ pc = "store"
  <2>1. i \in 0..1 /\ j \in 0..1 /\ ram \in [0..15 -> Nat]
    BY <1>1 DEF TypeInv, LoopInv, TypeOK
  <2>2. ram' = [ram EXCEPT ![8 + i * 2 + j] = sum]
    BY <1>1 DEF Multiply, RAM_BASE_C_SW, MATRIX_N
  <2>3. 8 + i * 2 + j \in 8..11
    BY <2>1
  <2> QED
    BY <2>1, <2>2, <2>3
<1>2. CASE ram' = ram
  BY <1>2
<1> QED
  BY <1>1, <1>2 DEF MainStep, EnableInterrupts, Receive, Multiply, Configure, StartMac, AwaitDone,
                    Compare, PrintVerdict

LEMMA InitInOrder == Init => InOrderInv
PROOF
<1> SUFFICES ASSUME Init PROVE InOrderInv
  OBVIOUS
<1>1. LineInv
  BY DEF Init, IntInit, LineInv
<1>2. /\ arrived = 0 /\ g_uart_rx_count = 0 /\ rx_unread = FALSE /\ rx_int = FALSE /\ isr = "none"
  BY DEF Init
<1>3. ReceiveInv
  BY <1>2 DEF ReceiveInv, InUart, InRoutine, Stored
<1> QED
  BY <1>1, <1>3 DEF InOrderInv

\* Steps that leave the received bytes where they are.
LEMMA ReceiveKept ==
    ASSUME ReceiveInv, TypeOK, UNCHANGED <<arrived, g_uart_rx_count, rx_unread, rx_reg, rx_int, input, rx_val>>,
           isr' = isr \/ {isr, isr'} \cap {"store", "count"} = {},
           \A n \in 0..7 : ram'[n] = ram[n]
    PROVE  ReceiveInv'
PROOF
<1>1. Stored'
  BY MatrixBytes DEF ReceiveInv, Stored
<1>2. isr' = "count" /\ g_uart_rx_count' < 8 => ram'[g_uart_rx_count'] = rx_val'
  <2>1. isr' = "count" => isr = "count"
    OBVIOUS
  <2>2. isr = "count" /\ g_uart_rx_count < 8 => ram[g_uart_rx_count] = rx_val
    BY DEF ReceiveInv
  <2>3. g_uart_rx_count \in Nat
    BY DEF TypeOK
  <2> QED
    BY <2>1, <2>2, <2>3
<1>3. InUart' = InUart /\ InRoutine' = InRoutine
  BY DEF InUart, InRoutine
<1> QED
  BY <1>1, <1>2, <1>3 DEF ReceiveInv

LEMMA MainInOrder ==
    ASSUME TypeInv, InOrderInv, MainStep, isr = "none", UNCHANGED routine, Sample(irq)
    PROVE  InOrderInv'
PROOF
<1>1. UNCHANGED <<arrived, rx_unread, rx_reg, rx_int, input>>
  BY DEF MainStep, EnableInterrupts, Receive, Multiply, Configure, StartMac, AwaitDone, Compare,
         PrintVerdict, uart_rx
<1>2. ReceiveInv'
  BY <1>1, ReceiveKept, MainKeepsInput DEF TypeInv, InOrderInv, routine
<1>3. 16 \in irq_q' => rx_int'
  BY <1>1 DEF Sample, irq
<1>4. g_mac_done_flag' = 1 => mac' = "answered"
  <2>1. CASE StartMac
    BY <2>1 DEF StartMac, InOrderInv, LineInv, TypeInv, LoopInv, BeforeStart
  <2>2. CASE UNCHANGED <<g_mac_done_flag, mac>>
    BY <2>2 DEF InOrderInv, LineInv
  <2> QED
    BY <2>1, <2>2 DEF MainStep, EnableInterrupts, Receive, Multiply, Configure, AwaitDone, Compare,
                      PrintVerdict, mac_vars
<1> QED
  BY <1>2, <1>3, <1>4 DEF InOrderInv, LineInv, routine

LEMMA TakeIrqInOrder ==
    ASSUME Cooperates, TypeInv, InOrderInv, TakeIrq, Sample(irq)
    PROVE  InOrderInv'
PROOF
<1>1. isr = "none" /\ irq_id_ctrl \in irq_q
  BY RequestedLine DEF TakeIrq, irq_req_ctrl, irq_local_qual, InOrderInv, LineInv, TypeInv, TypeOK
<1>2. ReceiveInv'
  BY <1>1, ReceiveKept DEF TakeIrq, InOrderInv, TypeInv, uart_rx
<1>3. irq_id' = irq_id_ctrl /\ isr' = "entry" /\ rx_int' = rx_int
  BY DEF TakeIrq, uart_rx
<1>4. mstatus'.MIE = FALSE
  BY DEF TakeIrq, Enter
<1>5. 16 \in irq_q' => rx_int'
  BY <1>3 DEF Sample, irq
<1>6. irq_id' = 16 => rx_int'
  BY <1>1, <1>3 DEF InOrderInv, LineInv
<1>7. irq_id' = 17 => mac' = "answered"
  BY <1>1, <1>3 DEF TakeIrq, Cooperates
<1>8. g_mac_done_flag' = 1 => mac' = "answered"
  BY DEF TakeIrq, InOrderInv, LineInv
<1> QED
  BY <1>2, <1>3, <1>4, <1>5, <1>6, <1>7, <1>8 DEF InOrderInv, LineInv

LEMMA IsrInOrder ==
    ASSUME Cooperates, TypeInv, InOrderInv, IsrStep, Sample(irq)
    PROVE  InOrderInv'
PROOF
<1>1. UNCHANGED <<irq_id, rx_reg, input, arrived, mac>> /\ isr \in {"entry", "store", "count", "mret"}
  BY DEF IsrStep, mac_vars
<1>2. g_uart_rx_count \in Nat /\ ram \in [0..15 -> Nat]
  BY DEF TypeInv, TypeOK
<1>3. 16 \in irq_q' => rx_int
  BY DEF Sample, irq
<1>4. CASE isr = "entry" /\ irq_id = 16
  <2>1. /\ rx_val' = rx_reg /\ rx_unread' = FALSE /\ rx_int' = FALSE /\ isr' = "store"
        /\ UNCHANGED <<mstatus, g_uart_rx_count, g_mac_done_flag, ram>>
    BY <1>4 DEF IsrStep, Cooperates
  <2>2. rx_unread /\ arrived = g_uart_rx_count + 1 /\ rx_reg = input[arrived]
    BY <1>2, <1>4 DEF InOrderInv, LineInv, ReceiveInv, InUart, InRoutine
  <2>3. Stored'
    BY <1>1, <2>1 DEF InOrderInv, ReceiveInv, Stored
  <2>4. ReceiveInv'
    BY <1>1, <1>2, <2>1, <2>2, <2>3 DEF ReceiveInv, InUart, InRoutine
  <2>5. LineInv'
    BY <1>1, <1>4, <2>1 DEF InOrderInv, LineInv
  <2> QED
    BY <2>4, <2>5 DEF InOrderInv
<1>5. CASE isr = "entry" /\ irq_id # 16
  <2>1. /\ g_mac_done_flag' = (IF irq_id = 17 THEN 1 ELSE g_mac_done_flag) /\ isr' = "mret"
        /\ UNCHANGED <<mstatus, rx_val, rx_unread, rx_int, g_uart_rx_count, ram>>
    BY <1>5 DEF IsrStep
  <2>2. ReceiveInv'
    BY <1>1, <1>5, <2>1, ReceiveKept DEF InOrderInv, TypeInv
  <2>3. LineInv'
    BY <1>1, <1>3, <1>5, <2>1 DEF InOrderInv, LineInv
  <2> QED
    BY <2>2, <2>3 DEF InOrderInv
<1>6. CASE isr = "store"
  <2>1. /\ ram' = (IF g_uart_rx_count < 8 THEN [ram EXCEPT ![Cell(g_uart_rx_count)] = rx_val] ELSE ram)
        /\ isr' = "count"
        /\ UNCHANGED <<mstatus, rx_val, rx_unread, rx_int, g_uart_rx_count, g_mac_done_flag>>
    BY <1>6, MatrixBytes DEF IsrStep
  <2>2. g_uart_rx_count < 8 => ram' = [ram EXCEPT ![g_uart_rx_count] = rx_val]
    <3>1. g_uart_rx_count < 8 => Cell(g_uart_rx_count) = g_uart_rx_count
      BY <1>2, MatrixBytes
    <3> QED
      BY <2>1, <3>1
  <2>3. Stored'
    BY <1>1, <1>2, <2>1, <2>2, MatrixBytes DEF InOrderInv, ReceiveInv, Stored
  <2>4. g_uart_rx_count < 8 => ram'[g_uart_rx_count] = rx_val
    BY <1>2, <2>2
  <2>5. ReceiveInv'
    BY <1>1, <1>6, <2>1, <2>3, <2>4 DEF InOrderInv, ReceiveInv, InUart, InRoutine
  <2>6. LineInv'
    BY <1>1, <1>3, <1>6, <2>1 DEF InOrderInv, LineInv
  <2> QED
    BY <2>5, <2>6 DEF InOrderInv
<1>7. CASE isr = "count"
  <2>1. /\ g_uart_rx_count' = g_uart_rx_count + 1 /\ isr' = "mret"
        /\ UNCHANGED <<mstatus, rx_val, rx_unread, rx_int, g_mac_done_flag, ram>>
    BY <1>7 DEF IsrStep
  <2>2. Stored'
    BY <1>1, <1>2, <1>7, <2>1, MatrixBytes DEF InOrderInv, ReceiveInv, Stored
  <2>3. ReceiveInv'
    BY <1>1, <1>2, <1>7, <2>1, <2>2 DEF InOrderInv, ReceiveInv, InUart, InRoutine
  <2>4. LineInv'
    BY <1>1, <1>3, <1>7, <2>1 DEF InOrderInv, LineInv
  <2> QED
    BY <2>3, <2>4 DEF InOrderInv
<1>8. CASE isr = "mret"
  <2>1. isr' = "none" /\ UNCHANGED <<rx_val, rx_unread, rx_int, g_uart_rx_count, g_mac_done_flag, ram>>
    BY <1>8 DEF IsrStep
  <2>2. ReceiveInv'
    BY <1>1, <1>8, <2>1, ReceiveKept DEF InOrderInv, TypeInv
  <2>3. LineInv'
    BY <1>1, <1>3, <2>1 DEF InOrderInv, LineInv
  <2> QED
    BY <2>2, <2>3 DEF InOrderInv
<1> QED
  BY <1>1, <1>4, <1>5, <1>6, <1>7, <1>8

LEMMA DeviceInOrder ==
    ASSUME Cooperates, TypeInv, InOrderInv, ByteArrives \/ MacWrites \/ CharacterOut
    PROVE  InOrderInv'
PROOF
<1>1. CASE ByteArrives
  <2>1. /\ ~rx_unread /\ rx_reg' = input[arrived + 1] /\ arrived' = arrived + 1 /\ rx_unread' = TRUE
        /\ UNCHANGED <<isr, irq_id, rx_val, g_uart_rx_count, g_mac_done_flag, ram, input, mac, irq_q, mstatus>>
        /\ rx_int => rx_int'
    BY <1>1 DEF ByteArrives, Cooperates, routine, mac_vars, int
  <2>2. Stored'
    BY <2>1 DEF InOrderInv, ReceiveInv, Stored
  <2>3. g_uart_rx_count \in Nat
    BY DEF TypeInv, TypeOK
  <2>4. arrived' = g_uart_rx_count' + InUart' + InRoutine'
    BY <2>1, <2>3 DEF InOrderInv, ReceiveInv, InUart, InRoutine
  <2>5. ReceiveInv'
    BY <2>1, <2>2, <2>4 DEF InOrderInv, ReceiveInv
  <2>6. LineInv'
    BY <2>1 DEF InOrderInv, LineInv
  <2> QED
    BY <2>5, <2>6 DEF InOrderInv
<1>2. CASE MacWrites
  <2>1. ReceiveInv'
    <3>1. \A n \in 0..7 : ram'[n] = ram[n]
      BY <1>2, MacKeepsRest
    <3> QED
      BY <1>2, <3>1, ReceiveKept DEF MacWrites, InOrderInv, TypeInv, routine, uart_rx
  <2>2. LineInv'
    BY <1>2 DEF MacWrites, InOrderInv, LineInv, routine, uart_rx, int
  <2> QED
    BY <2>1, <2>2 DEF InOrderInv
<1>3. CASE CharacterOut
  <2>1. ReceiveInv'
    BY <1>3, ReceiveKept DEF CharacterOut, InOrderInv, TypeInv, routine, uart_rx
  <2>2. LineInv'
    BY <1>3 DEF CharacterOut, InOrderInv, LineInv, routine, uart_rx, mac_vars, int
  <2> QED
    BY <2>1, <2>2 DEF InOrderInv
<1> QED
  BY <1>1, <1>2, <1>3

LEMMA StutterInOrder ==
    ASSUME TypeInv, InOrderInv, UNCHANGED vars
    PROVE  InOrderInv'
PROOF
<1> USE DEF vars, routine, uart_rx, mac_vars, int, InOrderInv
<1>1. ReceiveInv'
  BY ReceiveKept DEF TypeInv
<1>2. LineInv'
  BY DEF LineInv
<1> QED
  BY <1>1, <1>2

\* The device is chosen at the start.
LEMMA DeviceFixed ==
    ASSUME [Next]_vars
    PROVE  device' = device
PROOF
<1>1. CASE MainStep
  BY <1>1 DEF MainStep, EnableInterrupts, Receive, Multiply, Configure, StartMac, AwaitDone, Compare,
              PrintVerdict, uart_rx
<1>2. CASE TakeIrq \/ IsrStep
  BY <1>2 DEF TakeIrq, IsrStep, uart_rx
<1>3. CASE ByteArrives \/ MacWrites \/ CharacterOut
  BY <1>3 DEF ByteArrives, MacWrites, CharacterOut, uart_rx
<1>4. CASE UNCHANGED vars
  BY <1>4 DEF vars, uart_rx
<1> QED
  BY <1>1, <1>2, <1>3, <1>4 DEF Next, Cpu

LEMMA CooperatesFixed ==
    ASSUME [Next]_vars
    PROVE  Cooperates' = Cooperates
  BY DeviceFixed DEF Cooperates

LEMMA InOrderInvariance == Spec => [](Cooperates => InOrderInv)
PROOF
<1>1. TypeInv /\ (Cooperates => InOrderInv) /\ [Next]_vars => (Cooperates => InOrderInv)'
  <2> SUFFICES ASSUME TypeInv, Cooperates, InOrderInv, [Next]_vars PROVE InOrderInv'
    BY CooperatesFixed
  <2>1. CASE Cpu
    BY <2>1, MainInOrder, TakeIrqInOrder, IsrInOrder DEF Cpu
  <2> QED
    BY <2>1, DeviceInOrder, StutterInOrder DEF Next
<1> QED
  BY <1>1, InitInOrder, TypeInvariance, PTL DEF Spec

\* On a device that cooperates: whatever bytes are sent, and at whatever
\* step of main a byte comes, the routine stores each of the first eight once,
\* in the cell of its place, and main, the MAC and later bytes leave it there.
THEOREM MatricesReceived == Spec => []StoredInOrder
PROOF
<1>1. (Cooperates => InOrderInv) => StoredInOrder
  BY MatrixBytes DEF InOrderInv, ReceiveInv, Stored, StoredInOrder
<1> QED
  BY <1>1, InOrderInvariance, PTL

-----------------------------------------------------------------------------
(* The verdict.                                                            *)

\* What main has multiplied so far.
MultiplyInv ==
    /\ pc \notin BeforeMatrices => g_uart_rx_count >= 8
    /\ pc = "madd" /\ k = 0 => sum = 0
    /\ pc = "madd" /\ k = 1 => sum = input[i * 2 + 1] * input[j + 5]
    /\ pc = "store" => sum = Expectation(i * 2 + j)
    /\ pc \in {"madd", "store"} =>
         \A e \in 0..3 : e < i * 2 + j => ram[RAM_BASE_C_SW + e] = Expectation(e)
    /\ pc \notin BeforeMatrices \cup {"madd", "store"} =>
         \A e \in 0..3 : ram[RAM_BASE_C_SW + e] = Expectation(e)

\* What main has compared so far; the MAC has written its last element.
CompareInv ==
    /\ pc \in {"compare"} \cup Printing => mac = "answered"
    /\ pc = "compare" =>
         pass = 1 /\ \A e \in 0..3 : e < i => ram[RAM_BASE_C_HW + e] = Expectation(e)
    /\ pc \in Printing =>
         (pass = 1 <=> \A e \in 0..3 : ram[RAM_BASE_C_HW + e] = Expectation(e))

VerdictInv == MultiplyInv /\ CompareInv

\* When all bytes have come, A and B are what was sent.
LEMMA MatricesComplete ==
    ASSUME TypeInv, InOrderInv, MultiplyInv, pc \notin BeforeMatrices
    PROVE  \A n \in 0..7 : ram[n] = input[n + 1]
PROOF
<1>1. g_uart_rx_count \in Nat /\ g_uart_rx_count >= 8
  BY DEF MultiplyInv, TypeInv, TypeOK
<1>2. \A n \in 0..7 : n < g_uart_rx_count => ram[n] = input[n + 1]
  BY MatrixBytes DEF InOrderInv, ReceiveInv, Stored
<1> QED
  BY <1>1, <1>2

\* The element in row r and column c of the product.
LEMMA Element ==
    ASSUME NEW r \in 0..1, NEW c \in 0..1
    PROVE  /\ r * 2 + c \in 0..3
           /\ Expectation(r * 2 + c) = input[r * 2 + 1] * input[c + 5] + input[r * 2 + 2] * input[c + 7]
PROOF
<1>1. (r = 0 \/ r = 1) /\ (c = 0 \/ c = 1)
  OBVIOUS
<1>2. (r * 2 + c) \div 2 = r /\ (r * 2 + c) % 2 = c
  BY <1>1
<1> QED
  BY <1>2 DEF Expectation

\* The MAC computes the element it says, if its base registers count bytes.
LEMMA MacProduct ==
    ASSUME Cooperates, TypeInv, InOrderInv, MultiplyInv, mac = "run", device.byte_bases, NEW e \in 0..3
    PROVE  Product(e) = Expectation(e)
PROOF
<1>1. PICK r \in 0..1, c \in 0..1 : e = r * 2 + c /\ e \div 2 = r /\ e % 2 = c
  <2>1. e = 0 \/ e = 1 \/ e = 2 \/ e = 3
    OBVIOUS
  <2> QED
    BY <2>1
<1>2. pc \notin BeforeMatrices
  BY DEF TypeInv, LoopInv, BeforeStart
<1>3. \A n \in 0..7 : ram[n] = input[n + 1]
  BY <1>2, MatricesComplete
<1>4. \A n \in 0..3 : Read("A", n) = input[n + 1] /\ Read("B", n) = input[n + 5]
  <2> SUFFICES ASSUME NEW n \in 0..3
      PROVE  Read("A", n) = input[n + 1] /\ Read("B", n) = input[n + 5]
    OBVIOUS
  <2>1. Word("A", n) = n /\ Word("B", n) = 4 + n
    BY MacWords
  <2>2. n \in 0..7 /\ n \in 0..15 /\ 4 + n \in 0..7 /\ 4 + n \in 0..15 /\ 4 + n + 1 = n + 5
    OBVIOUS
  <2>3. ram[n] = input[n + 1] /\ ram[4 + n] = input[n + 5]
    BY <1>3, <2>2
  <2> QED
    BY <2>1, <2>2, <2>3 DEF Read
<1>5. Product(e) = Read("A", r * 2) * Read("B", c) + Read("A", r * 2 + 1) * Read("B", 2 + c)
  BY <1>1 DEF Product, MATRIX_N
<1>6. /\ Read("A", r * 2) = input[r * 2 + 1] /\ Read("A", r * 2 + 1) = input[r * 2 + 2]
      /\ Read("B", c) = input[c + 5] /\ Read("B", 2 + c) = input[c + 7]
  <2>1. /\ r * 2 \in 0..3 /\ r * 2 + 1 \in 0..3 /\ c \in 0..3 /\ 2 + c \in 0..3
        /\ r * 2 + 1 + 1 = r * 2 + 2 /\ 2 + c + 5 = c + 7
    OBVIOUS
  <2> QED
    BY <1>4, <2>1
<1> QED
  BY <1>1, <1>5, <1>6, Element

LEMMA InitVerdict == Init => VerdictInv
  BY DEF Init, VerdictInv, MultiplyInv, CompareInv, BeforeMatrices, Printing

\* Steps of others that leave both products alone.
LEMMA VerdictKept ==
    ASSUME TypeOK, VerdictInv, UNCHANGED <<main, input>>,
           g_uart_rx_count' \in {g_uart_rx_count, g_uart_rx_count + 1},
           mac' = mac \/ mac' = "answered",
           \A n \in 8..15 : ram'[n] = ram[n]
    PROVE  VerdictInv'
PROOF
<1>1. \A e \in 0..3 : /\ ram'[RAM_BASE_C_SW + e] = ram[RAM_BASE_C_SW + e]
                     /\ ram'[RAM_BASE_C_HW + e] = ram[RAM_BASE_C_HW + e]
                     /\ Expectation(e)' = Expectation(e)
  BY DEF RAM_BASE_C_SW, RAM_BASE_C_HW, Expectation
<1>2. UNCHANGED <<pc, i, j, k, sum, pass>>
  BY DEF main
<1>3. Expectation(i * 2 + j)' = Expectation(i * 2 + j)
  BY <1>2 DEF Expectation
<1>4. g_uart_rx_count >= 8 => g_uart_rx_count' >= 8
  BY DEF TypeOK
<1>5. MultiplyInv'
  BY <1>1, <1>2, <1>3, <1>4 DEF VerdictInv, MultiplyInv
<1>6. CompareInv'
  BY <1>1, <1>2 DEF VerdictInv, CompareInv
<1> QED
  BY <1>5, <1>6 DEF VerdictInv

LEMMA MultiplyVerdict ==
    ASSUME TypeInv, InOrderInv, VerdictInv, Multiply, UNCHANGED <<input, g_uart_rx_count>>
    PROVE  VerdictInv'
PROOF
<1>1. \A n \in 0..7 : ram[n] = input[n + 1]
  BY MatricesComplete DEF Multiply, BeforeMatrices, VerdictInv
<1>2. i \in 0..1 /\ j \in 0..1 /\ ram \in [0..15 -> Nat] /\ sum \in Nat
  BY DEF TypeInv, TypeOK, LoopInv, Multiply
<1>3. g_uart_rx_count' >= 8
  BY DEF Multiply, VerdictInv, MultiplyInv, BeforeMatrices
<1>4. CompareInv'
  BY DEF Multiply, CompareInv, Printing
<1>5. UNCHANGED input /\ UNCHANGED ram => \A e \in 0..3 : Expectation(e)' = Expectation(e)
  BY DEF Expectation
<1>6. CASE pc = "madd"
  <2>1. (i = 0 \/ i = 1) /\ (j = 0 \/ j = 1) /\ (k = 0 \/ k = 1)
    BY <1>2, <1>6 DEF TypeInv, LoopInv
  <2>2. /\ sum' = sum + ram[RAM_BASE_A + i * MATRIX_K + k] * ram[RAM_BASE_B + k * MATRIX_N + j]
        /\ k' = k + 1 /\ pc' = (IF MoreTerms(k + 1) THEN "madd" ELSE "store")
        /\ UNCHANGED <<i, j, ram>>
    BY <1>6 DEF Multiply
  <2>3. /\ ram[RAM_BASE_A + i * MATRIX_K + k] = input[i * 2 + k + 1]
        /\ ram[RAM_BASE_B + k * MATRIX_N + j] = input[k * 2 + j + 5]
        /\ ram[RAM_BASE_A + i * MATRIX_K + k] \in Nat /\ ram[RAM_BASE_B + k * MATRIX_N + j] \in Nat
    <3>1. i * 2 + k \in 0..7 /\ 4 + k * 2 + j \in 0..7
      BY <2>1
    <3> QED
      BY <1>1, <1>2, <2>1, <3>1 DEF RAM_BASE_A, RAM_BASE_B, MATRIX_K, MATRIX_N
  <2>4. pc' = (IF k = 0 THEN "madd" ELSE "store")
    BY <2>1, <2>2 DEF MoreTerms, MATRIX_K
  <2>5. \A e \in 0..3 : e < i * 2 + j => ram[RAM_BASE_C_SW + e] = Expectation(e)
    BY <1>6 DEF VerdictInv, MultiplyInv
  <2>6. \A e \in 0..3 : e < i' * 2 + j' => ram'[RAM_BASE_C_SW + e] = Expectation(e)'
    BY <1>5, <2>2, <2>5
  <2>7. CASE k = 0
    <3>1. sum = 0 /\ sum' = input[i * 2 + 1] * input[j + 5]
      <4>1. sum = 0
        BY <1>6, <2>7 DEF VerdictInv, MultiplyInv
      <4>2. \A x, y \in Nat : 0 + x * y = x * y
        OBVIOUS
      <4>3. i * 2 + k + 1 = i * 2 + 1 /\ k * 2 + j + 5 = j + 5
        BY <1>2, <2>7
      <4> QED
        BY <2>2, <2>3, <4>1, <4>2, <4>3
    <3>2. pc' = "madd" /\ k' = 1 /\ i' = i /\ j' = j
      BY <2>2, <2>4, <2>7
    <3>3. sum' = input'[i' * 2 + 1] * input'[j' + 5]
      BY <3>1, <3>2
    <3> QED
      BY <1>3, <1>4, <2>6, <3>2, <3>3 DEF VerdictInv, MultiplyInv, BeforeMatrices
  <2>8. CASE k = 1
    <3>1. sum' = Expectation(i * 2 + j)
      <4>1. sum = input[i * 2 + 1] * input[j + 5]
        BY <1>6, <2>8 DEF VerdictInv, MultiplyInv
      <4>2. i * 2 + k + 1 = i * 2 + 2 /\ k * 2 + j + 5 = j + 7
        BY <1>2, <2>8
      <4> QED
        BY <1>2, <2>2, <2>3, <4>1, <4>2, Element
    <3>2. pc' = "store" /\ i' = i /\ j' = j
      BY <2>2, <2>4, <2>8
    <3>3. Expectation(i * 2 + j)' = Expectation(i * 2 + j)
      BY <3>2 DEF Expectation
    <3> QED
      BY <1>3, <1>4, <2>6, <3>1, <3>2, <3>3 DEF VerdictInv, MultiplyInv, BeforeMatrices
  <2> QED
    BY <2>1, <2>7, <2>8
<1>7. CASE pc = "store"
  <2>1. (i = 0 \/ i = 1) /\ (j = 0 \/ j = 1)
    BY <1>2
  <2>2. ram' = [ram EXCEPT ![8 + i * 2 + j] = Expectation(i * 2 + j)]
    BY <1>7 DEF Multiply, VerdictInv, MultiplyInv, RAM_BASE_C_SW, MATRIX_N
  <2>3. \A e \in 0..3 : e <= i * 2 + j => ram'[8 + e] = Expectation(e)
    <3>1. \A e \in 0..3 : e < i * 2 + j => ram[8 + e] = Expectation(e)
      BY <1>7 DEF VerdictInv, MultiplyInv, RAM_BASE_C_SW
    <3>2. ASSUME NEW e \in 0..3, e <= i * 2 + j PROVE ram'[8 + e] = Expectation(e)
      <4>1. CASE e = i * 2 + j
        <5>1. 8 + i * 2 + j = 8 + e /\ 8 + e \in 0..15
          BY <1>2, <4>1
        <5> QED
          BY <1>2, <2>2, <4>1, <5>1
      <4>2. CASE e # i * 2 + j
        <5>1. 8 + i * 2 + j # 8 + e /\ 8 + e \in 0..15 /\ e < i * 2 + j
          BY <1>2, <3>2, <4>2
        <5> QED
          BY <1>2, <2>2, <3>1, <5>1
      <4> QED
        BY <4>1, <4>2
    <3> QED
      BY <3>2
  <2>4. \A e \in 0..3 : Expectation(e)' = Expectation(e)
    BY DEF Expectation
  <2>5. /\ k' = 0 /\ sum' = 0
        /\ \/ pc' = "madd" /\ i' * 2 + j' = i * 2 + j + 1
           \/ pc' = "config" /\ i * 2 + j = 3
    BY <1>7, <2>1 DEF Multiply, MATRIX_M, MATRIX_N
  <2>6. CASE pc' = "madd" /\ i' * 2 + j' = i * 2 + j + 1
    <3>1. \A e \in 0..3 : e < i' * 2 + j' => ram'[8 + e] = Expectation(e)'
      BY <2>1, <2>3, <2>4, <2>6
    <3> QED
      BY <1>3, <1>4, <2>5, <2>6, <3>1 DEF VerdictInv, MultiplyInv, BeforeMatrices, RAM_BASE_C_SW
  <2>7. CASE pc' = "config" /\ i * 2 + j = 3
    <3>1. \A e \in 0..3 : ram'[8 + e] = Expectation(e)'
      BY <2>3, <2>4, <2>7
    <3> QED
      BY <1>3, <1>4, <2>7, <3>1 DEF VerdictInv, MultiplyInv, BeforeMatrices, RAM_BASE_C_SW
  <2> QED
    BY <2>5, <2>6, <2>7
<1> QED
  BY <1>6, <1>7 DEF Multiply

LEMMA CompareVerdict ==
    ASSUME TypeInv, VerdictInv, Compare, UNCHANGED <<input, g_uart_rx_count>>
    PROVE  VerdictInv'
PROOF
<1>1. pc = "compare" /\ mac = "answered" /\ pass = 1 /\ UNCHANGED <<ram, mac>>
  BY DEF Compare, VerdictInv, CompareInv, mac_vars
<1>2. \A e \in 0..3 : Expectation(e)' = Expectation(e)
  BY DEF Expectation
<1>3. \A e \in 0..3 : ram[RAM_BASE_C_SW + e] = Expectation(e)
  BY <1>1 DEF VerdictInv, MultiplyInv, BeforeMatrices
<1>4. \A e \in 0..3 : e < i => ram[RAM_BASE_C_HW + e] = Expectation(e)
  BY <1>1 DEF VerdictInv, CompareInv
<1>5. pc' \in {"compare", "poll"}
  BY <1>1 DEF Compare, Goto
<1>6. MultiplyInv'
  BY <1>1, <1>2, <1>3, <1>5 DEF VerdictInv, MultiplyInv, BeforeMatrices
<1>7. Cells = 4 /\ i \in 0..4
  BY DEF Cells, MATRIX_M, MATRIX_N, TypeInv, TypeOK
<1>8. CASE i = Cells /\ Goto("poll")
  <2>1. pc' = "poll" /\ pass' = 1
    BY <1>1, <1>8 DEF Goto
  <2>2. \A e \in 0..3 : ram'[RAM_BASE_C_HW + e] = Expectation(e)'
    BY <1>1, <1>2, <1>4, <1>7, <1>8
  <2> QED
    BY <1>1, <1>6, <2>1, <2>2 DEF VerdictInv, CompareInv
<1>9. CASE /\ i < Cells /\ ram[RAM_BASE_C_SW + i] = ram[RAM_BASE_C_HW + i]
           /\ i' = i + 1 /\ UNCHANGED <<pc, j, k, sum, pass, str>>
  <2>1. \A e \in 0..3 : e < i' => ram'[RAM_BASE_C_HW + e] = Expectation(e)'
    BY <1>1, <1>2, <1>3, <1>4, <1>7, <1>9
  <2> QED
    BY <1>1, <1>6, <1>9, <2>1 DEF VerdictInv, CompareInv, Printing
<1>10. CASE /\ i < Cells /\ ram[RAM_BASE_C_SW + i] # ram[RAM_BASE_C_HW + i]
            /\ pass' = 0 /\ pc' = "poll" /\ UNCHANGED <<i, j, k, sum, str>>
  <2>1. ram'[RAM_BASE_C_HW + i] # Expectation(i)' /\ i \in 0..3
    BY <1>1, <1>2, <1>3, <1>7, <1>10
  <2> QED
    BY <1>1, <1>6, <1>10, <2>1 DEF VerdictInv, CompareInv
<1> QED
  BY <1>8, <1>9, <1>10 DEF Compare

LEMMA OtherMainVerdict ==
    ASSUME TypeInv, InOrderInv, VerdictInv, UNCHANGED <<input, g_uart_rx_count>>,
           EnableInterrupts \/ Receive \/ Configure \/ StartMac \/ AwaitDone \/ PrintVerdict
    PROVE  VerdictInv'
PROOF
<1> USE DEF VerdictInv, BeforeMatrices, Printing
<1>1. \A e \in 0..3 : Expectation(e)' = Expectation(e)
  BY DEF Expectation
<1>2. CASE EnableInterrupts
  BY <1>2 DEF EnableInterrupts, MultiplyInv, CompareInv, Goto
<1>3. CASE Receive
  <2>1. UNCHANGED ram /\ pc' \in {"receive", "madd"}
    BY <1>3 DEF Receive, Goto
  <2>2. pc' = "madd" => g_uart_rx_count' >= 8 /\ i' = 0 /\ j' = 0 /\ k' = 0 /\ sum' = 0
    <3>1. g_uart_rx_count \in Nat /\ i = 0 /\ j = 0 /\ k = 0 /\ sum = 0
      BY <1>3 DEF Receive, TypeInv, TypeOK, LoopInv
    <3> QED
      BY <1>3, <3>1, MatrixBytes DEF Receive, Goto
  <2> QED
    BY <2>1, <2>2 DEF MultiplyInv, CompareInv
<1>4. CASE Configure \/ StartMac
  <2>1. pc \in {"config", "clear", "start"} /\ pc' \in {"clear", "start", "done"} /\ UNCHANGED ram
    BY <1>4 DEF Configure, StartMac, Goto
  <2> QED
    BY <1>1, <2>1 DEF MultiplyInv, CompareInv
<1>5. CASE AwaitDone
  <2>1. /\ pc = "done" /\ UNCHANGED <<ram, mac>>
        /\ pc' = "done" \/ (pc' = "compare" /\ pass' = 1 /\ i' = 0 /\ g_mac_done_flag # 0)
    BY <1>5 DEF AwaitDone, Goto, mac_vars
  <2>2. g_mac_done_flag # 0 => mac = "answered"
    BY DEF InOrderInv, LineInv, TypeInv, TypeOK
  <2> QED
    BY <1>1, <2>1, <2>2 DEF MultiplyInv, CompareInv
<1>6. CASE PrintVerdict
  <2>1. pc \in Printing /\ pc' \in Printing /\ UNCHANGED <<ram, mac, pass>>
    BY <1>6 DEF PrintVerdict, Goto, mac_vars
  <2> QED
    BY <1>1, <2>1 DEF MultiplyInv, CompareInv
<1> QED
  BY <1>2, <1>3, <1>4, <1>5, <1>6

LEMMA CpuVerdict ==
    ASSUME Cooperates, TypeInv, InOrderInv, VerdictInv, Cpu
    PROVE  VerdictInv'
PROOF
<1>1. CASE TakeIrq
  BY <1>1, VerdictKept DEF TakeIrq, uart_rx, TypeInv
<1>2. CASE MainStep /\ UNCHANGED routine
  <2>1. UNCHANGED <<input, g_uart_rx_count>>
    BY <1>2 DEF MainStep, EnableInterrupts, Receive, Multiply, Configure, StartMac, AwaitDone, Compare,
                PrintVerdict, uart_rx, routine
  <2> QED
    BY <1>2, <2>1, MultiplyVerdict, CompareVerdict, OtherMainVerdict DEF MainStep
<1>3. CASE IsrStep
  <2>1. UNCHANGED <<main, input, mac>> /\ g_uart_rx_count' \in {g_uart_rx_count, g_uart_rx_count + 1}
    BY <1>3 DEF IsrStep, mac_vars
  <2>2. \A n \in 8..15 : ram'[n] = ram[n]
    BY <1>3, RoutineKeepsProducts
  <2> QED
    BY <2>1, <2>2, VerdictKept DEF TypeInv
<1> QED
  BY <1>1, <1>2, <1>3 DEF Cpu

LEMMA DeviceVerdict ==
    ASSUME Cooperates, TypeInv, VerdictInv, ByteArrives \/ MacWrites \/ CharacterOut
    PROVE  VerdictInv'
PROOF
<1>1. CASE ByteArrives
  BY <1>1, VerdictKept DEF ByteArrives, TypeInv, routine, mac_vars
<1>2. CASE MacWrites
  <2>1. UNCHANGED <<main, input, g_uart_rx_count>> /\ mac = "run"
    BY <1>2 DEF MacWrites, routine, uart_rx
  <2>2. pc \notin {"compare"} \cup Printing
    BY <2>1 DEF VerdictInv, CompareInv
  <2>3. CompareInv'
    BY <2>1, <2>2 DEF CompareInv, main, Printing
  <2>4. \A e \in 0..3 : /\ ram'[RAM_BASE_C_SW + e] = ram[RAM_BASE_C_SW + e]
                       /\ Expectation(e)' = Expectation(e)
    BY <1>2, <2>1, MacKeepsRest DEF RAM_BASE_C_SW, Expectation
  <2>5. Expectation(i * 2 + j)' = Expectation(i * 2 + j)
    BY <2>1 DEF Expectation, main
  <2>6. MultiplyInv'
    BY <2>1, <2>4, <2>5 DEF VerdictInv, MultiplyInv, main
  <2> QED
    BY <2>3, <2>6 DEF VerdictInv
<1>3. CASE CharacterOut
  BY <1>3, VerdictKept DEF CharacterOut, TypeInv, routine, uart_rx, mac_vars
<1> QED
  BY <1>1, <1>2, <1>3

LEMMA VerdictInvariance == Spec => [](Cooperates => VerdictInv)
PROOF
<1>1. /\ TypeInv /\ (Cooperates => InOrderInv) /\ (Cooperates => VerdictInv) /\ [Next]_vars
      => (Cooperates => VerdictInv)'
  <2> SUFFICES ASSUME Cooperates, TypeInv, InOrderInv, VerdictInv, [Next]_vars PROVE VerdictInv'
    BY CooperatesFixed
  <2>1. CASE UNCHANGED vars
    BY <2>1, VerdictKept DEF vars, TypeInv, routine, uart_rx, mac_vars
  <2> QED
    BY <2>1, CpuVerdict, DeviceVerdict DEF Next
<1> QED
  BY <1>1, InitVerdict, TypeInvariance, InOrderInvariance, PTL DEF Spec

\* What the MAC has written: the elements so far, all of them when it is done.
\* With base registers that count words it has written nothing of the program's.
HardwareInv ==
    /\ element < 4 => \A e \in 0..3 : e < element => ram[12 + e] = Computed(e, 0)
    /\ mac \in {"done", "answered"} => \E fault \in Faults : \A e \in 0..3 : ram[12 + e] = Computed(e, fault)
    /\ ~device.byte_bases => \A e \in 0..3 : ram[12 + e] = 0

LEMMA InitHardware == Init => HardwareInv
PROOF
<1> SUFFICES ASSUME Init PROVE HardwareInv
  OBVIOUS
<1>1. element = 0 /\ mac = "idle" /\ \A n \in 0..15 : ram[n] = 0
  BY DEF Init
<1>2. \A e \in 0..3 : 12 + e \in 0..15
  OBVIOUS
<1> QED
  BY <1>1, <1>2 DEF HardwareInv

\* Steps of others that leave C_HW alone.
LEMMA HardwareKept ==
    ASSUME HardwareInv, UNCHANGED <<element, input, device>>, \A n \in 12..15 : ram'[n] = ram[n],
           mac' \in {"done", "answered"} => mac \in {"done", "answered"}
    PROVE  HardwareInv'
PROOF
<1>1. \A e, fault : Computed(e, fault)' = Computed(e, fault)
  BY DEF Computed, Expectation
<1>2. \A e \in 0..3 : ram'[12 + e] = ram[12 + e]
  OBVIOUS
<1> QED
  BY <1>1, <1>2 DEF HardwareInv

LEMMA MacWritesHardware ==
    ASSUME Cooperates, TypeInv, InOrderInv, MultiplyInv, HardwareInv, MacWrites
    PROVE  HardwareInv'
PROOF
<1>1. element \in 0..3 /\ ram \in [0..15 -> Nat] /\ mac = "run" /\ pc \notin BeforeStart
  BY DEF TypeInv, TypeOK, LoopInv, MacWrites
<1>2. PICK fault \in (IF element = 3 THEN Faults ELSE {0}) :
        ram' = IF Word("C", element) \in 0..15
               THEN [ram EXCEPT ![Word("C", element)] = Product(element) + fault] ELSE ram
  BY DEF MacWrites
<1>3. /\ element' = element + 1 /\ mac' = (IF element = 3 THEN "done" ELSE "run")
      /\ UNCHANGED <<input, device>>
  BY DEF MacWrites, uart_rx
<1>4. \A e, f : Computed(e, f)' = Computed(e, f)
  BY <1>3 DEF Computed, Expectation
<1>5. \A e \in 0..3 : e < element => ram[12 + e] = Computed(e, 0)
  BY <1>1 DEF HardwareInv
<1>6. \A f : \A e \in 0..2 : Computed(e, f) = Computed(e, 0)
  BY DEF Computed
<1>7. CASE device.byte_bases
  <2>1. ram' = [ram EXCEPT ![12 + element] = Expectation(element) + fault]
    <3>1. Word("C", element) = 12 + element /\ Word("C", element) \in 0..15
      BY <1>1, <1>7, MacWords
    <3>2. Product(element) = Expectation(element)
      BY <1>1, <1>7, MacProduct DEF BeforeStart
    <3> QED
      BY <1>2, <3>1, <3>2
  <2>2. ram'[12 + element] = Computed(element, fault)
    <3>1. ram'[12 + element] = Expectation(element) + fault
      BY <1>1, <2>1
    <3>2. Expectation(element) \in Nat /\ (element # 3 => fault = 0)
      BY <1>1, <1>2, <1>7, MacProduct, ProductType DEF BeforeStart, TypeInv
    <3> QED
      BY <1>7, <3>1, <3>2 DEF Computed
  <2>3. \A e \in 0..3 : e < element => ram'[12 + e] = Computed(e, 0)
    BY <1>1, <1>5, <2>1
  <2>4. CASE element = 3
    <3>1. \A e \in 0..3 : ram'[12 + e] = Computed(e, fault)
      BY <1>6, <2>2, <2>3, <2>4
    <3>2. fault \in Faults /\ element' = 4
      BY <1>2, <1>3, <2>4
    <3> QED
      BY <1>3, <1>4, <1>7, <3>1, <3>2 DEF HardwareInv
  <2>5. CASE element # 3
    <3>1. fault = 0 /\ mac' = "run" /\ element' = element + 1
      BY <1>2, <1>3, <2>5
    <3>2. \A e \in 0..3 : e < element' => ram'[12 + e] = Computed(e, 0)
      BY <1>1, <2>2, <2>3, <3>1
    <3> QED
      BY <1>3, <1>4, <1>7, <3>1, <3>2 DEF HardwareInv
  <2> QED
    BY <2>4, <2>5
<1>8. CASE ~device.byte_bases
  <2>1. ram' = ram
    BY <1>1, <1>2, <1>8, MacWords
  <2>2. \A e \in 0..3 : ram'[12 + e] = 0
    BY <1>8, <2>1 DEF HardwareInv
  <2>3. \A e, f : Computed(e, f)' = 0
    BY <1>3, <1>8 DEF Computed
  <2>4. \E f \in Faults : TRUE
    BY FirmwareAssumption
  <2> QED
    BY <1>3, <2>2, <2>3, <2>4 DEF HardwareInv
<1> QED
  BY <1>7, <1>8

LEMMA HardwareInvariance == Spec => [](Cooperates => HardwareInv)
PROOF
<1>1. /\ TypeInv /\ (Cooperates => InOrderInv) /\ (Cooperates => VerdictInv)
      /\ (Cooperates => HardwareInv) /\ [Next]_vars
      => (Cooperates => HardwareInv)'
  <2> SUFFICES ASSUME Cooperates, TypeInv, InOrderInv, VerdictInv, HardwareInv, [Next]_vars
      PROVE  HardwareInv'
    BY CooperatesFixed
  <2>1. CASE MainStep
    <3>1. UNCHANGED <<element, input, device>> /\ mac' \in {mac, "run"}
      BY <2>1 DEF MainStep, EnableInterrupts, Receive, Multiply, Configure, StartMac, AwaitDone, Compare,
                  PrintVerdict, uart_rx, mac_vars
    <3>2. \A n \in 12..15 : ram'[n] = ram[n]
      BY <2>1, MainKeepsHardware
    <3> QED
      BY <3>1, <3>2, HardwareKept
  <2>2. CASE TakeIrq
    <3>1. mac' = mac \/ mac \in {"done", "answered"}
      BY <2>2, RequestedLine DEF TakeIrq, TypeInv, TypeOK, MacLineInv, irq_local_qual
    <3> QED
      BY <2>2, <3>1, HardwareKept DEF TakeIrq, uart_rx
  <2>3. CASE IsrStep
    <3>1. UNCHANGED <<element, input, device, mac>>
      BY <2>3 DEF IsrStep, mac_vars
    <3>2. \A n \in 12..15 : ram'[n] = ram[n]
      BY <2>3, RoutineKeepsProducts
    <3> QED
      BY <3>1, <3>2, HardwareKept
  <2>4. CASE ByteArrives \/ CharacterOut \/ UNCHANGED vars
    BY <2>4, HardwareKept DEF ByteArrives, CharacterOut, vars, uart_rx, mac_vars
  <2> QED
    BY <2>1, <2>2, <2>3, <2>4, MacWritesHardware DEF Next, Cpu, VerdictInv
<1> QED
  BY <1>1, InitHardware, TypeInvariance, InOrderInvariance, VerdictInvariance, PTL DEF Spec

\* On a device that cooperates: whatever is sent, whenever the bytes come and
\* whatever the MAC adds to its last element, main compares what the MAC computed
\* of the two matrices that were sent, and says "Pass" exactly if that is their
\* product.  With base registers that count words the MAC computes nothing of it.
THEOREM VerdictCorrect == Spec => []VerdictRight
PROOF
<1>1. (Cooperates => VerdictInv) /\ (Cooperates => HardwareInv) => VerdictRight
  <2> SUFFICES ASSUME VerdictInv, HardwareInv, Cooperates, pc \in Printing PROVE VerdictRight
    BY DEF VerdictRight, Printing
  <2>1. PICK fault \in Faults : \A e \in 0..3 : ram[12 + e] = Computed(e, fault)
    BY DEF VerdictInv, CompareInv, HardwareInv
  <2>2. pass = 1 <=> \A e \in 0..3 : ram[12 + e] = Expectation(e)
    BY MatrixBytes DEF VerdictInv, CompareInv
  <2>3. pass = 1 <=> \A e \in 0..3 : Computed(e, fault) = Expectation(e)
    BY <2>1, <2>2
  <2> QED
    BY <2>1, <2>3, MatrixBytes DEF VerdictRight
<1> QED
  BY <1>1, VerdictInvariance, HardwareInvariance, PTL

-----------------------------------------------------------------------------
(* What is printed.                                                        *)

\* The character in the transmitter is the last one printed; main writes the
\* next one only when it is out.
PrintInv ==
    /\ sent = SubSeq(Text(pass), 1, IF tx_busy THEN str - 1 ELSE str)
    /\ tx_busy => str \in 1..11 /\ tx_reg = Text(pass)[str]
    /\ pc = "put" => ~tx_busy

\* One more character of the text.
LEMMA NextCharacter ==
    ASSUME NEW v, NEW n \in 1..11
    PROVE  /\ Append(SubSeq(Text(v), 1, n - 1), Text(v)[n]) = SubSeq(Text(v), 1, n)
           /\ SubSeq(Text(v), 1, n - 1) \o <<Text(v)[n]>> = SubSeq(Text(v), 1, n)
           /\ SubSeq(Text(v), 1, n) \o <<>> = SubSeq(Text(v), 1, n)
PROOF
<1>1. Text(v) \in Seq(Characters) /\ Len(Text(v)) = 11
  BY Verdict
<1>2. SubSeq(Text(v), 1, n) = SubSeq(Text(v), 1, n - 1) \o <<Text(v)[n]>>
  <2>1. 1 \in 1..Len(Text(v)) /\ n \in 1..Len(Text(v))
    BY <1>1
  <2> QED
    BY <1>1, <2>1, SubSeqRecursiveSecond
<1>3. /\ SubSeq(Text(v), 1, n - 1) \in Seq(Characters) /\ SubSeq(Text(v), 1, n) \in Seq(Characters)
      /\ Text(v)[n] \in Characters
  <2> DEFINE T == Text(v)
  <2>1. \A x \in 1..11 : T[x] \in Characters
    <3>1. T \in Seq(Characters) /\ Len(T) = 11
      BY <1>1
    <3> HIDE DEF T
    <3>2. \A x \in 1..Len(T) : T[x] \in Characters
      BY <3>1, ElementOfSeq
    <3> QED
      BY <3>1, <3>2
  <2>2. /\ \A x \in 1..(n - 1) : T[x] \in Characters
        /\ \A x \in 1..n : T[x] \in Characters
    BY <2>1
  <2> QED
    BY <2>1, <2>2, SubSeqProperties
<1>4. Append(SubSeq(Text(v), 1, n - 1), Text(v)[n]) = SubSeq(Text(v), 1, n - 1) \o <<Text(v)[n]>>
  BY <1>3, AppendIsConcat
<1>5. SubSeq(Text(v), 1, n) \o <<>> = SubSeq(Text(v), 1, n)
  BY <1>3, ConcatEmptySeq
<1> QED
  BY <1>2, <1>4, <1>5

LEMMA InitPrint == Init => PrintInv
PROOF
<1> SUFFICES ASSUME Init PROVE PrintInv
  OBVIOUS
<1>1. SubSeq(Text(pass), 1, 0) = <<>>
  BY SubSeqEmpty
<1> QED
  BY <1>1 DEF Init, PrintInv

\* The verdict may change while nothing is printed.
LEMMA PrintUnchanged ==
    ASSUME PrintInv, UNCHANGED <<str, tx_reg, tx_busy, sent>>, pc' = "put" => ~tx_busy,
           pass' = pass \/ str = 0
    PROVE  PrintInv'
PROOF
<1>1. CASE pass' = pass
  BY <1>1 DEF PrintInv
<1>2. CASE str = 0
  <2>1. ~tx_busy
    BY <1>2 DEF PrintInv
  <2>2. SubSeq(Text(pass), 1, 0) = <<>> /\ SubSeq(Text(pass'), 1, 0) = <<>>
    BY SubSeqEmpty
  <2> QED
    BY <1>2, <2>1, <2>2 DEF PrintInv
<1> QED
  BY <1>1, <1>2

LEMMA PrintVerdictPrint ==
    ASSUME Cooperates, TypeInv, PrintInv, PrintVerdict
    PROVE  PrintInv'
PROOF
<1>1. CASE pc = "put"
  <2>1. /\ tx_reg' = Text(pass)[str + 1] /\ tx_busy' = TRUE /\ str' = str + 1 /\ pc' = "poll"
        /\ UNCHANGED <<pass, sent>>
    BY <1>1 DEF PrintVerdict
  <2>2. str \in 0..10 /\ ~tx_busy
    BY <1>1 DEF TypeInv, TypeOK, LoopInv, PrintInv
  <2>3. str' \in 1..11 /\ str' - 1 = str
    BY <2>1, <2>2
  <2> QED
    BY <2>1, <2>2, <2>3 DEF PrintInv
<1>2. CASE pc # "put"
  <2>1. UNCHANGED <<str, tx_reg, tx_busy, sent, pass>> /\ (pc' = "put" => ~status_bit_1)
    BY <1>2 DEF PrintVerdict, Goto
  <2>2. status_bit_1 = tx_busy
    BY DEF status_bit_1, Cooperates
  <2> QED
    BY <2>1, <2>2, PrintUnchanged
<1> QED
  BY <1>1, <1>2

LEMMA OtherPrint ==
    ASSUME TypeInv, PrintInv,
           UNCHANGED uart_tx /\ (UNCHANGED main \/ (MainStep /\ ~PrintVerdict))
    PROVE  PrintInv'
PROOF
<1>1. CASE UNCHANGED main
  BY <1>1, PrintUnchanged DEF main, uart_tx, PrintInv
<1>2. CASE MainStep /\ ~PrintVerdict
  <2>1. str = 0 /\ pc' # "put" /\ str' = str
    <3>1. str' = str /\ pc' # "put"
      BY <1>2 DEF MainStep, EnableInterrupts, Receive, Multiply, Configure, StartMac, AwaitDone, Compare,
                  Goto
    <3>2. pc \notin Printing
      BY <1>2 DEF MainStep, EnableInterrupts, Receive, Multiply, Configure, StartMac, AwaitDone, Compare,
                  Printing
    <3> QED
      BY <3>1, <3>2 DEF TypeInv, LoopInv
  <2> QED
    BY <2>1, PrintUnchanged DEF uart_tx
<1> QED
  BY <1>1, <1>2

LEMMA CharacterOutPrint ==
    ASSUME TypeInv, PrintInv, CharacterOut
    PROVE  PrintInv'
PROOF
<1>1. tx_busy /\ tx_busy' = FALSE /\ sent' = Append(sent, tx_reg) /\ UNCHANGED <<str, pass, pc>>
  BY DEF CharacterOut, main
<1>2. str \in 1..11 /\ sent = SubSeq(Text(pass), 1, str - 1) /\ tx_reg = Text(pass)[str]
  BY <1>1 DEF PrintInv
<1>3. sent' = SubSeq(Text(pass), 1, str)
  BY <1>1, <1>2, NextCharacter
<1> QED
  BY <1>1, <1>3 DEF PrintInv

LEMMA PrintInvariance == Spec => [](Cooperates => PrintInv)
PROOF
<1>1. TypeInv /\ (Cooperates => PrintInv) /\ [Next]_vars => (Cooperates => PrintInv)'
  <2> SUFFICES ASSUME Cooperates, TypeInv, PrintInv, [Next]_vars PROVE PrintInv'
    BY CooperatesFixed
  <2>1. CASE Cpu
    <3>1. CASE PrintVerdict
      BY <3>1, PrintVerdictPrint
    <3>2. CASE TakeIrq \/ IsrStep
      BY <3>2, OtherPrint DEF TakeIrq, IsrStep
    <3>3. CASE MainStep /\ ~PrintVerdict
      <4>1. UNCHANGED uart_tx
        BY <3>3 DEF MainStep, EnableInterrupts, Receive, Multiply, Configure, StartMac, AwaitDone, Compare
      <4> QED
        BY <3>3, <4>1, OtherPrint
    <3> QED
      BY <2>1, <3>1, <3>2, <3>3 DEF Cpu
  <2>2. CASE ByteArrives \/ MacWrites
    BY <2>2, OtherPrint DEF ByteArrives, MacWrites
  <2>3. CASE UNCHANGED vars
    BY <2>3, OtherPrint DEF vars
  <2> QED
    BY <2>1, <2>2, <2>3, CharacterOutPrint DEF Next
<1> QED
  BY <1>1, InitPrint, TypeInvariance, PTL DEF Spec

\* On a device that cooperates: what has left the transmitter, with the
\* character that is in it, is the beginning of the verdict that main prints;
\* no character is written over another, lost or sent twice.
THEOREM PrintedInOrder == Spec => []NothingOverrun
PROOF
<1>1. TypeInv /\ (Cooperates => PrintInv) => NothingOverrun
  <2> SUFFICES ASSUME TypeInv, PrintInv PROVE NothingOverrun
    BY DEF NothingOverrun
  <2>1. CASE tx_busy
    BY <2>1, NextCharacter DEF PrintInv, NothingOverrun
  <2>2. CASE ~tx_busy /\ str = 0
    <3>1. SubSeq(Text(pass), 1, 0) = <<>>
      BY SubSeqEmpty
    <3> QED
      BY <2>2, <3>1 DEF PrintInv, NothingOverrun
  <2>3. CASE ~tx_busy /\ str # 0
    <3>1. str \in 1..11
      BY <2>3 DEF TypeInv, TypeOK
    <3> QED
      BY <2>3, <3>1, NextCharacter DEF PrintInv, NothingOverrun
  <2> QED
    BY <2>1, <2>2, <2>3
<1> QED
  BY <1>1, TypeInvariance, PrintInvariance, PTL

-----------------------------------------------------------------------------
(* A device that does not receive.                                         *)

\* No line comes up, so nothing happens but main's wait and bytes that are lost.
Deaf == ~device.mapped \/ device.rx_enable_bit # 0

DeafInv ==
    /\ irq_q = {} /\ isr = "none" /\ ~rx_int /\ mac = "idle" /\ g_uart_rx_count = 0
    /\ uart_ctrl \subseteq (IF device.mapped THEN {0} ELSE {})
    /\ pc \in BeforeMatrices /\ ~tx_busy /\ sent = <<>>

LEMMA InitDeaf == Init => DeafInv
  BY DEF Init, IntInit, DeafInv, BeforeMatrices

\* Nobody is interrupted.
LEMMA NoRequest ==
    ASSUME irq_q = {}
    PROVE  ~irq_req_ctrl
  BY DEF irq_req_ctrl, irq_local_qual

LEMMA DeafStep ==
    ASSUME Deaf, DeafInv, [Next]_vars
    PROVE  DeafInv'
PROOF
<1>1. CASE Cpu
  <2>1. MainStep /\ UNCHANGED routine /\ Sample(irq)
    BY <1>1, NoRequest DEF Cpu, TakeIrq, IsrStep, DeafInv
  <2>2. irq_q' = {}
    BY <2>1 DEF Sample, irq, DeafInv
  <2>3. CASE EnableInterrupts
    BY <2>1, <2>2, <2>3 DEF EnableInterrupts, Goto, routine, uart_tx, mac_vars, DeafInv, BeforeMatrices
  <2>4. CASE Receive
    BY <2>1, <2>2, <2>4, MatrixBytes
       DEF Receive, Goto, routine, uart_rx, uart_tx, mac_vars, DeafInv, BeforeMatrices
  <2> QED
    BY <2>1, <2>3, <2>4 DEF MainStep, Multiply, Configure, StartMac, AwaitDone, Compare, PrintVerdict,
                            DeafInv, BeforeMatrices
<1>2. CASE ByteArrives
  <2>1. ~rx_enabled
    BY DEF rx_enabled, Deaf, DeafInv
  <2> QED
    BY <1>2, <2>1 DEF ByteArrives, main, routine, uart_tx, mac_vars, int, DeafInv
<1>3. CASE MacWrites \/ CharacterOut
  BY <1>3 DEF MacWrites, CharacterOut, DeafInv
<1>4. CASE UNCHANGED vars
  BY <1>4 DEF vars, main, routine, uart_rx, uart_tx, mac_vars, int, DeafInv
<1> QED
  BY <1>1, <1>2, <1>3, <1>4 DEF Next

\* On a device that main's addresses do not reach, or whose CTRL has another bit for
\* the receive interrupt: whatever is sent, and however much, main never leaves
\* its first wait and prints nothing.
THEOREM DeafForEver == Spec => []StaysWaiting
PROOF
<1>1. (Deaf => DeafInv) /\ [Next]_vars => (Deaf => DeafInv)'
  <2> SUFFICES ASSUME Deaf, DeafInv, [Next]_vars PROVE DeafInv'
    BY DeviceFixed DEF Deaf
  <2> QED
    BY DeafStep
<1>2. (Deaf => DeafInv) => StaysWaiting
  BY DEF Deaf, DeafInv, StaysWaiting, BeforeMatrices
<1> QED
  BY <1>1, <1>2, InitDeaf, PTL DEF Spec
=============================================================================
