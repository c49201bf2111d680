------------------------ MODULE InterruptTest_proofs ------------------------
(***************************************************************************)
(* Safety of the interrupt test for every set of test words and random     *)
(* words, every size of matrix and every bound on stalls: theorems of      *)
(* InterruptTest!Spec.                                                     *)
(***************************************************************************)
EXTENDS InterruptTest, IntController_proofs, TLAPS

-----------------------------------------------------------------------------
(* Type correctness.                                                       *)

\* While a line is waited for, n is a position of IRQ_ID_PRIORITY.
WaitBound ==
    pc \in {"wait", "check"} \/ (pc \in {"csrr", "modify", "csrw"} /\ after = "wait")
    => n \in 1..IRQ_NUM

\* What a step of the processor leaves in the registers and the program.
CpuTypeOK ==
    /\ mie \in SUBSET IRQ_MASK /\ mstatus \in Status
    /\ stall_reg_10 \in Modes /\ stall_reg_14 \in SUBSET (0..31)
    /\ ProgramTypeOK

LEMMA InitType == Init => TypeOK
PROOF
<1> SUFFICES ASSUME Init PROVE TypeOK
  OBVIOUS
<1>1. IntTypeOK
  BY DEF Init, IntInit, IntTypeOK, Status
<1>2. GeneratorTypeOK
  BY DEF Init, GeneratorInit, GeneratorTypeOK, Modes
<1>3. ProgramTypeOK
  <2>1. 1 \in Dim
    BY TestAssumption DEF Dim
  <2>2. res \in Matrix /\ at \in [i : Dim, j : Dim, k : Dim]
    BY <2>1 DEF Init, Matrix
  <2>3. mmstatus \in Status
    BY DEF Init, Status
  <2>4. vector \in IRQ_MASK
    BY DEF Init, IRQ_MASK
  <2> QED
    BY <2>2, <2>3, <2>4 DEF Init, ProgramTypeOK, MainAt, HandlerAt, IRQ_NUM
<1> QED
  BY <1>1, <1>2, <1>3, TestAssumption DEF Init, TypeOK

\* The labels a step of main goes to, and the ones it calls a subroutine with.
LEMMA MainLabels ==
    /\ {"t1_mode", "csrr", "modify", "csrw", "test2", "raise", "loop", "wait"} \subseteq MainAt
    /\ {"check", "test3", "final", "test5", "t5_mode", "t5_served", "zero"} \subseteq MainAt
    /\ {"mult", "report", "exit"} \subseteq MainAt
  BY DEF MainAt

\* Words masked with the lines the core has.
LEMMA MaskedWords ==
    /\ \A w : w \cap IRQ_MASK \in SUBSET IRQ_MASK /\ w \cap STD_IRQ_MASK \in SUBSET STD_IRQ_MASK
    /\ STD_IRQ_MASK = IRQ_MASK /\ IRQ_MASK \subseteq 0..31
    /\ 0..31 \in SUBSET (0..31)
  BY DEF IRQ_MASK, STD_IRQ_MASK

\* Modes a program writes.
LEMMA ProgramModes == {"SD", "STD", "RND", "none"} \subseteq Modes
  BY DEF Modes

LEMMA SubroutineType ==
    ASSUME TypeOK, UNCHANGED handler, ReadMstatus \/ ModifyBit \/ StoreMstatus
    PROVE  CpuTypeOK'
PROOF
<1> USE DEF TypeOK, IntTypeOK, GeneratorTypeOK, ProgramTypeOK, CpuTypeOK, Goto, handler,
            stall_regs, test_words, irq_words, mode_words, mult
<1>1. CASE ReadMstatus
  BY <1>1 DEF ReadMstatus, MainAt
<1>2. CASE ModifyBit
  <2>1. mmstatus' \in Status
    BY <1>2 DEF ModifyBit, Status
  <2> QED
    BY <1>2, <2>1 DEF ModifyBit, MainAt
<1>3. CASE StoreMstatus
  BY <1>3 DEF StoreMstatus, WriteMstatus, MainAt
<1> QED
  BY <1>1, <1>2, <1>3

LEMMA TestType ==
    ASSUME TypeOK, UNCHANGED handler, Test1 \/ Test2 \/ Test3 \/ Test5
    PROVE  CpuTypeOK'
PROOF
<1> USE DEF TypeOK, IntTypeOK, GeneratorTypeOK, ProgramTypeOK, CpuTypeOK, Goto, Call, handler,
            stall_regs, test_words, irq_words, mode_words, mult, WriteMie
<1> USE MainLabels
<1>1. CASE Test1
  <2>1. CASE pc = "test1"
    BY <1>1, <2>1, MaskedWords DEF Test1
  <2>2. CASE pc = "t1_mode"
    BY <1>1, <2>2, ProgramModes DEF Test1
  <2> QED
    BY <1>1, <2>1, <2>2 DEF Test1
<1>2. CASE Test2
  BY <1>2, MaskedWords DEF Test2, IRQ_NUM
<1>3. CASE Test3
  BY <1>3, TestAssumption, MaskedWords DEF Test3, IRQ_NUM
<1>4. CASE Test5
  <2>1. CASE pc = "test5"
    BY <1>4, <2>1, MaskedWords DEF Test5
  <2>2. CASE pc = "t5_mode"
    BY <1>4, <2>2, ProgramModes DEF Test5
  <2>3. CASE pc = "t5_served"
    <3>1. /\ irq_served' = 0 /\ pc' = "csrr" /\ bitop' = "enable" /\ after' = "zero"
          /\ UNCHANGED <<test, n, result, mie, mstatus, stall_regs, test_words, irq_words,
                         irq_mode, mmstatus, mult>>
      BY <1>4, <2>3 DEF Test5
    <3> QED
      BY <3>1
  <2> QED
    BY <1>4, <2>1, <2>2, <2>3 DEF Test5
<1> QED
  BY <1>1, <1>2, <1>3, <1>4

LEMMA LoopType ==
    ASSUME TypeOK, WaitBound, UNCHANGED handler,
           RaiseLines \/ Loop \/ Wait \/ Check \/ Final \/ Report
    PROVE  CpuTypeOK'
PROOF
<1> USE MainLabels
    DEF TypeOK, IntTypeOK, GeneratorTypeOK, ProgramTypeOK, CpuTypeOK, Goto, Call, Return, handler,
        stall_regs, test_words, irq_words, mode_words, mult
<1>1. CASE RaiseLines
  BY <1>1 DEF RaiseLines
<1>2. CASE Loop
  <2>1. CASE pc' = "csrr"
    BY <1>2, <2>1 DEF Loop
  <2>2. CASE pc' = "loop"
    <3>1. n' \in 1..IRQ_NUM + 1 /\ UNCHANGED <<pc, after, bitop, test, result>>
      BY <1>2, <2>2 DEF Loop, IRQ_NUM
    <3> QED
      BY <1>2, <2>2, <3>1 DEF Loop
  <2>3. CASE pc' \in {"test3", "final"}
    BY <1>2, <2>3 DEF Loop
  <2> QED
    BY <1>2, <2>1, <2>2, <2>3 DEF Loop
<1>3. CASE Wait
  BY <1>3 DEF Wait
<1>4. CASE Check
  <2>1. n \in 1..IRQ_NUM
    BY <1>4 DEF Check, WaitBound
  <2> QED
    BY <1>4, <2>1 DEF Check, IRQ_NUM
<1>5. CASE Final
  BY <1>5 DEF Final
<1>6. CASE Report
  BY <1>6 DEF Report
<1> QED
  BY <1>1, <1>2, <1>3, <1>4, <1>5, <1>6

LEMMA MatMultType ==
    ASSUME TypeOK, UNCHANGED handler, MatMult
    PROVE  CpuTypeOK'
PROOF
<1> DEFINE i == at.i
           j == at.j
           k == at.k
<1>1. i \in Dim /\ j \in Dim /\ k \in Dim /\ at = [i |-> i, j |-> j, k |-> k]
  BY DEF TypeOK, ProgramTypeOK
<1>2. res' \in Matrix
  <2>1. /\ res[i][j] \in Nat /\ mat1[i][k] \in Nat /\ mat2[k][j] \in Nat
    BY <1>1, TestAssumption DEF TypeOK, ProgramTypeOK, Matrix
  <2>2. \E v \in Nat : res' = [res EXCEPT ![i][j] = v]
    <3>1. CASE pc = "zero"
      BY <3>1 DEF MatMult
    <3>2. CASE pc = "mult"
      <4>1. res[i][j] + mat1[i][k] * mat2[k][j] \in Nat
        BY <2>1
      <4> QED
        BY <3>2, <4>1 DEF MatMult
    <3> QED
      BY <3>1, <3>2 DEF MatMult
  <2> QED
    BY <1>1, <2>2 DEF TypeOK, ProgramTypeOK, Matrix
<1>3. at' \in [i : Dim, j : Dim, k : Dim]
  <2>1. 1 \in Dim /\ \A d \in Dim : d < MAT_DIM => d + 1 \in Dim
    BY TestAssumption DEF Dim
  <2>2. \/ \E d \in Dim : at' = [at EXCEPT !.k = d] \/ at' = [at EXCEPT !.j = d]
        \/ \E d \in Dim : at' = [at EXCEPT !.i = d, !.j = 1]
        \/ at' = at
    BY <1>1, <2>1, TestAssumption DEF MatMult
  <2>3. ASSUME NEW d \in Dim
        PROVE  /\ [at EXCEPT !.k = d] \in [i : Dim, j : Dim, k : Dim]
               /\ [at EXCEPT !.j = d] \in [i : Dim, j : Dim, k : Dim]
               /\ [at EXCEPT !.i = d, !.j = 1] \in [i : Dim, j : Dim, k : Dim]
    BY <2>1, <2>3 DEF TypeOK, ProgramTypeOK
  <2> QED
    BY <2>2, <2>3 DEF TypeOK, ProgramTypeOK
<1>4. /\ pc' \in MainAt /\ after' \in MainAt /\ bitop' \in {"enable", "disable"}
      /\ UNCHANGED <<test, n, result, mie, mstatus, stall_regs, test_words, irq_words,
                     mode_words, mmstatus>>
  BY MainLabels DEF MatMult, Goto, Call, TypeOK, ProgramTypeOK
<1> QED
  BY <1>2, <1>3, <1>4 DEF TypeOK, IntTypeOK, GeneratorTypeOK, ProgramTypeOK, CpuTypeOK, handler,
     stall_regs, test_words, irq_words, mode_words

LEMMA MainType ==
    ASSUME TypeOK, WaitBound, UNCHANGED handler, MainStep
    PROVE  CpuTypeOK'
  BY SubroutineType, TestType, LoopType, MatMultType DEF MainStep

LEMMA HandlerType ==
    ASSUME TypeOK, HandlerStep
    PROVE  CpuTypeOK'
PROOF
<1> USE DEF TypeOK, IntTypeOK, GeneratorTypeOK, ProgramTypeOK, CpuTypeOK, HandlerGoto, main,
            stall_regs, test_words, irq_words, mode_words, mult
<1>1. CASE ServeLine
  <2>1. isr' \in HandlerAt /\ vector' = vector
    BY <1>1 DEF ServeLine, AfterWrite, HandlerAt
  <2>2. irq_id' \in {0} \cup IRQ_MASK
    BY <1>1 DEF ServeLine
  <2>3. /\ irq_pending32_std' \in SUBSET (0..31) /\ stall_reg_14' \in SUBSET (0..31)
        /\ stall_reg_10' = stall_reg_10
    BY <1>1, MaskedWords DEF ServeLine, Served, LinesLeft
  <2> QED
    BY <1>1, <2>1, <2>2, <2>3 DEF ServeLine
<1>2. CASE DropRandom
  <2>1. isr' \in HandlerAt /\ vector' = vector
    BY <1>2 DEF DropRandom, HandlerAt
  <2>2. irq_mode' \in {"none", "STD", "RND"} /\ irq_served' \in Nat /\ stall_reg_10' \in Modes
    BY <1>2, ProgramModes DEF DropRandom, IRQ_MODE_STD
  <2> QED
    BY <1>2, <2>1, <2>2 DEF DropRandom
<1>3. CASE KeepDisabled
  <2>1. isr' \in HandlerAt /\ vector' = vector
    BY <1>3 DEF KeepDisabled, HandlerAt
  <2>2. mmstatus' \in Status /\ mstatus' \in Status
    BY <1>3 DEF KeepDisabled, ClearSaved, Status
  <2> QED
    BY <1>3, <2>1, <2>2 DEF KeepDisabled
<1>4. CASE LeaveHandler
  BY <1>4 DEF LeaveHandler, Mret, HandlerAt, Status
<1> QED
  BY <1>1, <1>2, <1>3, <1>4 DEF HandlerStep

LEMMA TakeIrqType ==
    ASSUME TypeOK, TakeIrq
    PROVE  CpuTypeOK'
PROOF
<1>1. vector' \in IRQ_MASK
  BY RequestedLine DEF TakeIrq, TypeOK
<1>2. mstatus' \in Status /\ mie' = mie
  BY DEF TakeIrq, Enter, TypeOK, IntTypeOK, Status
<1> QED
  BY <1>1, <1>2 DEF TakeIrq, TypeOK, IntTypeOK, GeneratorTypeOK, ProgramTypeOK, CpuTypeOK,
     HandlerAt, main, stall_regs, test_words, irq_words, mode_words, mult

LEMMA GeneratorType ==
    ASSUME GeneratorTypeOK, GeneratorTick,
           stall_reg_10' \in Modes, stall_reg_14' \in SUBSET (0..31)
    PROVE  GeneratorTypeOK' /\ irq_lines_q' \in SUBSET Lines
PROOF
<1> USE DEF GeneratorTypeOK, GeneratorTick
<1>1. irq_sd_lines' \in SUBSET Lines /\ sampling' \in BOOLEAN
  BY DEF SoftwareDefined
<1>2. /\ irq_rnd_lines' \in RandomWords \cup {{}} /\ rand_word' \in RandomWords \cup {{}}
      /\ rnd' \in {"mode", "wait", "up"}
  BY DEF Draw, WaitOrRaise, TakeDown
<1>3. irq_lines_q' \in SUBSET Lines
  <2>1. RandomWords \cup {{}} \subseteq SUBSET Lines
    BY GeneratorAssumption DEF Lines
  <2> QED
    BY <1>1, <1>2, <2>1 DEF irq_lines_n
<1> QED
  BY <1>1, <1>2, <1>3

-----------------------------------------------------------------------------
(* Who may be interrupted where.                                           *)

Calling(labels) == pc \in {"csrr", "modify", "csrw"} /\ after \in labels

\* Interrupts are enabled by the calls that lead to wait and zero.
CallInv ==
    /\ pc \in {"csrr", "modify", "csrw"}
         => after \in {"test2", "raise", "wait", "test5", "zero", "report"}
    /\ pc \in {"csrr", "modify", "csrw"} => (bitop = "enable" <=> after \in {"wait", "zero"})
    /\ pc = "csrw" => (mmstatus.MIE <=> bitop = "enable")
    /\ Calling({"wait"}) => prev_irq_pending32_std = irq_pending32_std

\* Where main is in test 5, and where it is not yet interrupted there.
TestInv ==
    /\ pc # "exit" => (test = 5 <=> \/ pc \in {"test5", "t5_mode", "t5_served", "zero", "mult", "report"}
                                   \/ Calling({"test5", "zero", "report"}))
    /\ pc = "exit" => result # "none"
    /\ pc \in {"test5", "t5_mode", "t5_served"} \/ Calling({"test5", "zero"})
         => isr = "none" /\ ~mstatus.MIE

\* What the handlers of tests 2 and 3 hold, and the mode those of test 5 see.
ModeInv ==
    /\ isr \in {"and", "csrw"} => ~mmstatus.MIE
    /\ isr = "csrw" => ~mmstatus.MPIE
    /\ test = 5 => CASE isr \in {"std_w", "rnd"} -> irq_mode = "STD"
                     [] pc = "test5" \/ Calling({"test5"}) -> TRUE
                     [] OTHER -> irq_mode = "RND"

ControlInv == WaitBound /\ CallInv /\ TestInv /\ ModeInv /\ HandlerInv

LEMMA InitControl == Init => ControlInv
  BY DEF Init, IntInit, ControlInv, WaitBound, CallInv, TestInv, ModeInv, HandlerInv, Calling

LEMMA ControlSubroutine ==
    ASSUME TypeOK, ControlInv, isr = "none", result = "none", UNCHANGED handler,
           ReadMstatus \/ ModifyBit \/ StoreMstatus
    PROVE  ControlInv'
PROOF
<1> USE DEF ControlInv, WaitBound, CallInv, TestInv, ModeInv, HandlerInv, Calling, Goto, handler,
            irq_words, test_words, mode_words
<1>1. CASE ReadMstatus
  BY <1>1 DEF ReadMstatus
<1>2. CASE ModifyBit
  <2>1. mmstatus'.MIE <=> bitop' = "enable"
    BY <1>2 DEF ModifyBit, TypeOK, ProgramTypeOK, Status
  <2> QED
    BY <1>2, <2>1 DEF ModifyBit
<1>3. CASE StoreMstatus
  BY <1>3 DEF StoreMstatus, WriteMstatus
<1> QED
  BY <1>1, <1>2, <1>3

LEMMA ControlTests ==
    ASSUME TypeOK, ControlInv, isr = "none", result = "none", UNCHANGED handler,
           Test1 \/ Test2 \/ Test3 \/ RaiseLines \/ Loop \/ Wait \/ Check \/ Final
    PROVE  ControlInv'
PROOF
<1> USE DEF ControlInv, WaitBound, CallInv, TestInv, ModeInv, HandlerInv, Calling, Goto, Call,
            handler, irq_words, test_words, mode_words, WriteMie
<1>1. CASE Test1
  BY <1>1 DEF Test1
<1>2. CASE Test2
  BY <1>2 DEF Test2
<1>3. CASE Test3
  BY <1>3 DEF Test3
<1>4. CASE RaiseLines
  BY <1>4 DEF RaiseLines
<1>5. CASE Loop
  BY <1>5 DEF Loop, TypeOK, ProgramTypeOK
<1>6. CASE Wait
  BY <1>6 DEF Wait
<1>7. CASE Check
  BY <1>7 DEF Check, Return
<1>8. CASE Final
  BY <1>8 DEF Final, Return
<1> QED
  BY <1>1, <1>2, <1>3, <1>4, <1>5, <1>6, <1>7, <1>8

LEMMA ControlTest5 ==
    ASSUME TypeOK, ControlInv, isr = "none", result = "none", UNCHANGED handler,
           Test5 \/ MatMult \/ Report
    PROVE  ControlInv'
PROOF
<1> USE DEF ControlInv, WaitBound, CallInv, TestInv, ModeInv, HandlerInv, Calling, Goto, Call,
            handler, irq_words, test_words, mode_words, WriteMie
<1>1. CASE Test5
  BY <1>1 DEF Test5
<1>2. CASE MatMult
  <2>1. /\ \/ pc' \in {"zero", "mult"} /\ UNCHANGED <<after, bitop>>
           \/ pc' = "csrr" /\ bitop' = "disable" /\ after' = "report"
        /\ pc \in {"zero", "mult"}
        /\ UNCHANGED <<test, n, result, mstatus, mmstatus, irq_mode>>
    BY <1>2 DEF MatMult
  <2> QED
    BY <2>1
<1>3. CASE Report
  BY <1>3 DEF Report, Return
<1> QED
  BY <1>1, <1>2, <1>3

LEMMA ControlHandler ==
    ASSUME TypeOK, ControlInv, result = "none", HandlerStep
    PROVE  ControlInv'
PROOF
<1> USE DEF ControlInv, WaitBound, CallInv, TestInv, ModeInv, HandlerInv, Calling, HandlerGoto,
            main, irq_words, test_words, mode_words
<1>1. CASE ServeLine
  BY <1>1 DEF ServeLine, AfterWrite
<1>2. CASE DropRandom
  BY <1>2 DEF DropRandom, IRQ_MODE_STD
<1>3. CASE KeepDisabled
  BY <1>3 DEF KeepDisabled, ClearSaved, TypeOK, ProgramTypeOK, IntTypeOK, Status
<1>4. CASE LeaveHandler
  BY <1>4 DEF LeaveHandler, Mret
<1> QED
  BY <1>1, <1>2, <1>3, <1>4 DEF HandlerStep

LEMMA ControlTakeIrq ==
    ASSUME TypeOK, ControlInv, result = "none", TakeIrq
    PROVE  ControlInv'
  BY DEF TakeIrq, Enter, irq_req_ctrl, ControlInv, WaitBound, CallInv, TestInv, ModeInv,
     HandlerInv, Calling, main, irq_words, test_words, mode_words

-----------------------------------------------------------------------------
(* Both together are inductive: a line is taken only where ControlInv says, *)
(* and the types need WaitBound.                                           *)

IInv == TypeOK /\ ControlInv

\* A step of the processor, or an edge without one.
LEMMA CpuInv ==
    ASSUME IInv, result = "none", CpuStep
    PROVE  CpuTypeOK' /\ ControlInv'
PROOF
<1> USE DEF IInv
<1>1. CASE TakeIrq
  BY <1>1, TakeIrqType, ControlTakeIrq
<1>2. CASE isr = "none" /\ MainStep /\ UNCHANGED handler
  BY <1>2, MainType, ControlSubroutine, ControlTests, ControlTest5 DEF MainStep, ControlInv
<1>3. CASE HandlerStep
  BY <1>3, HandlerType, ControlHandler
<1> QED
  BY <1>1, <1>2, <1>3 DEF CpuStep

LEMMA StallInv ==
    ASSUME IInv, UNCHANGED <<mie, mstatus, stall_regs, program>>
    PROVE  CpuTypeOK' /\ ControlInv'
PROOF
<1> USE DEF program, main, handler, test_words, irq_words, mode_words, mult, stall_regs
<1>1. CpuTypeOK'
  BY DEF IInv, TypeOK, IntTypeOK, GeneratorTypeOK, ProgramTypeOK, CpuTypeOK
<1>2. ControlInv'
  BY DEF IInv, ControlInv, WaitBound, CallInv, TestInv, ModeInv, HandlerInv, Calling
<1> QED
  BY <1>1, <1>2

LEMMA ClockInv == ASSUME IInv, Clock PROVE IInv'
PROOF
<1>1. CpuTypeOK' /\ ControlInv'
  BY CpuInv, StallInv DEF Clock
<1>2. GeneratorTypeOK'
  BY <1>1, GeneratorType DEF Clock, IInv, TypeOK, CpuTypeOK
<1>3. irq_q' \in SUBSET IRQ_MASK
  BY DEF Clock, Sample
<1>4. stall' \in 0..MaxStall /\ raised' \in Nat
  BY TestAssumption DEF Clock, IInv, TypeOK
<1> QED
  BY <1>1, <1>2, <1>3, <1>4 DEF IInv, TypeOK, IntTypeOK, CpuTypeOK

LEMMA StutterInv == ASSUME IInv, UNCHANGED vars PROVE IInv'
PROOF
<1>1. CpuTypeOK' /\ ControlInv'
  BY StallInv DEF vars, int, generator
<1> QED
  BY <1>1 DEF IInv, TypeOK, IntTypeOK, GeneratorTypeOK, CpuTypeOK, vars, int, generator,
     stall_regs, processes

LEMMA Invariance == Spec => []IInv
PROOF
<1>1. Init => IInv
  BY InitType, InitControl DEF IInv
<1>2. IInv /\ [Next]_vars => IInv'
  BY ClockInv, StutterInv DEF Next, Stop
<1> QED
  BY <1>1, <1>2, PTL DEF Spec

\* Every variable keeps its type: in particular the core asks only for lines
\* it has, and n stays in the table.
THEOREM TypeCorrect == Spec => []TypeOK
PROOF
<1>1. IInv => TypeOK
  BY DEF IInv
<1> QED
  BY <1>1, Invariance, PTL

\* For all words: a handler is never interrupted, tests 2 and 3 are interrupted
\* only where they wait, and leave their handlers with interrupts off.
THEOREM HandlersKeepOut == Spec => []HandlerInv
PROOF
<1>1. IInv => HandlerInv
  BY DEF IInv, ControlInv
<1> QED
  BY <1>1, Invariance, PTL

\* For all words: at most one handler for each time interrupts are enabled.
THEOREM OneHandler == Spec => []OneHandlerPerEnable
PROOF
<1>1. IInv => OneHandlerPerEnable
  BY DEF IInv, ControlInv, HandlerInv, TestInv, Calling, OneHandlerPerEnable
<1> QED
  BY <1>1, Invariance, PTL

\* For all words: main and the handlers never use mmstatus at the same time.
THEOREM MmstatusExclusive == Spec => []MmstatusNotShared
PROOF
<1>1. IInv => MmstatusNotShared
  BY DEF IInv, ControlInv, HandlerInv, MmstatusNotShared
<1> QED
  BY <1>1, Invariance, PTL
=============================================================================
