--------------------- MODULE InterruptTestPasses_proofs ---------------------
(***************************************************************************)
(* The interrupt test passes, for all words and matrices: no interrupt of  *)
(* tests 2 and 3 comes too early, late or out of order, no stale one is    *)
(* taken, every random word of test 5 is counted, and the product is right *)
(* in spite of the interrupts.                                             *)
(***************************************************************************)
EXTENDS InterruptTest_proofs

-----------------------------------------------------------------------------
(* The way of the lines of tests 1 to 3 from the register to the core.     *)

driven == stall_reg_14 \cap Lines

\* A word on its way up: each register has it, or none of its lines yet.
Rising(lines) ==
    /\ irq_q \in {{}, lines} /\ irq_lines_q \in {{}, lines} /\ irq_sd_lines \in {{}, lines}
    /\ irq_q # {} => irq_lines_q = lines
    /\ irq_lines_q # {} => irq_sd_lines = lines
    /\ irq_sd_lines # {} => sampling

\* Software-defined mode is selected before test 2 and until test 5.
SelectInv ==
    test # 5 =>
        /\ test \in 1..3
        /\ {stall_reg_10, irq_mode_q} \subseteq {"none", "SD"}
        /\ test = 1 => stall_reg_14 = {}
        /\ test = 1 /\ pc \in {"csrr", "modify", "csrw", "test2"} => stall_reg_10 = "SD"
        /\ test = 1 /\ pc \in {"modify", "csrw", "test2"} => irq_mode_q = "SD"
        /\ test # 1 => stall_reg_10 = "SD" /\ irq_mode_q = "SD"

\* After the write that drops a line, the handler's last steps are the edges
\* the change takes to the core.
LinesInv ==
    test # 5 =>
        /\ isr = "none" => Rising(driven)
        /\ isr \in {"id", "clear", "write"} =>
             /\ sampling /\ stall_reg_14 # {}
             /\ irq_sd_lines = driven /\ irq_lines_q = driven /\ irq_q = driven
        /\ isr = "csrr" => sampling \/ (stall_reg_14 = {} /\ irq_sd_lines = {})
        /\ isr \in {"and", "csrw", "mret"} =>
             irq_sd_lines = driven /\ (sampling \/ stall_reg_14 = {})
        /\ isr \in {"csrw", "mret"} => irq_lines_q = driven
        /\ isr = "mret" => irq_q = driven

-----------------------------------------------------------------------------
(* The lines tests 2 and 3 have served when they are at position n.        *)

ToServe == IF test = 2 THEN IRQ_MASK ELSE irq_to_test32_std
FirstPending == IF test = 2 THEN 0..31 ELSE first_irq_pending32_std
Done(m) == {IRQ_ID_PRIORITY[i] : i \in 1..(m - 1)}
Remaining(m) == FirstPending \ (ToServe \cap Done(m))

\* The line that is waited for, before and after its handler has cleared it.
WaitInv ==
    /\ IRQ_ID_PRIORITY[n] \in ToServe /\ prev_irq_pending32_std = Remaining(n)
    /\ isr \in {"id", "clear"} => vector = IRQ_ID_PRIORITY[n] /\ irq_pending32_std = Remaining(n)
    /\ isr = "clear" => irq_id = vector
    /\ isr \notin {"none", "id", "clear"} =>
         irq_id = IRQ_ID_PRIORITY[n] /\ irq_pending32_std = Remaining(n + 1)
    /\ isr = "none" => \/ irq_pending32_std = Remaining(n)
                       \/ irq_id = IRQ_ID_PRIORITY[n] /\ irq_pending32_std = Remaining(n + 1)
    /\ isr # "write" => stall_reg_14 = irq_pending32_std

ServeInv ==
    /\ pc \in {"test1", "t1_mode", "test2"} \/ Calling({"test2"}) => test = 1
    /\ test = 1 \/ test = 2 => irq_to_test32_std = {}
    /\ test = 2 => mie = IRQ_MASK
    /\ test = 3 => /\ mie = ie_mask32_std
                   /\ irq_to_test32_std = first_irq_pending32_std \cap mie
    /\ pc = "raise" \/ Calling({"raise"}) =>
         driven = {} /\ irq_pending32_std = FirstPending /\ n = 1 /\ test \in {2, 3}
    /\ pc = "loop" \/ Calling({"wait"}) =>
         stall_reg_14 = irq_pending32_std /\ irq_pending32_std = Remaining(n) /\ test \in {2, 3}
    /\ Calling({"wait"}) => IRQ_ID_PRIORITY[n] \in ToServe
    /\ pc = "wait" => WaitInv /\ test \in {2, 3}
    /\ pc = "check" => /\ irq_id = IRQ_ID_PRIORITY[n] /\ test \in {2, 3}
                       /\ stall_reg_14 = irq_pending32_std /\ irq_pending32_std = Remaining(n + 1)
    /\ pc = "test3" => driven = {} /\ test = 2
    /\ pc = "final" => n = IRQ_NUM + 1 /\ irq_pending32_std = Remaining(n) /\ test = 3

-----------------------------------------------------------------------------
(* The random lines of test 5.                                             *)

RandomRising ==
    /\ irq_q \in {{}, irq_rnd_lines} /\ irq_lines_q \in {{}, irq_rnd_lines}
    /\ irq_q # {} => irq_lines_q = irq_rnd_lines

ProcessInv ==
    /\ rnd # "mode" => rand_word \in RandomWords
    /\ irq_rnd_lines = (IF rnd = "up" THEN rand_word ELSE {})

Before5 == test # 5 \/ pc \in {"test5", "t5_mode"} \/ Calling({"test5"})

\* Before test 5 the process of random lines is off; the steps that lead into the
\* multiplication are the edges its mode takes to the core.
SetupInv ==
    /\ Before5 =>
         /\ rnd = "mode" /\ {stall_reg_10, irq_mode_q} \subseteq {"none", "SD"}
    /\ pc = "t5_served" => stall_reg_10 = "RND" /\ irq_mode_q # "STD"
    /\ Calling({"zero"}) =>
         /\ stall_reg_10 = "RND" /\ irq_mode_q = "RND"
         /\ pc # "csrr" => irq_lines_q \in {{}, irq_rnd_lines}
         /\ pc = "csrw" => RandomRising

Multiplying == pc \in {"zero", "mult", "report"} \/ Calling({"report"})

\* The word stays up until a handler has written STANDARD, which the change of
\* the lines to 0 follows before interrupts are back on.
RandomInv ==
    Multiplying =>
        /\ isr \in {"none", "id", "mip", "clear", "write", "count", "std", "std_w"} =>
             stall_reg_10 = "RND" /\ irq_mode_q = "RND" /\ RandomRising
        /\ isr \in {"id", "mip", "clear", "write", "count", "std", "std_w"} => rnd = "up"
        /\ isr = "rnd" => /\ stall_reg_10 = "STD"
                          /\ \/ irq_mode_q = "RND" /\ rnd = "up"
                             \/ irq_mode_q = "STD" /\ rnd = "mode"
        /\ isr = "rnd_w" => stall_reg_10 = "STD" /\ irq_mode_q = "STD" /\ rnd = "mode"
        /\ isr = "mret" => /\ stall_reg_10 = "RND"
                           /\ \/ irq_mode_q = "STD" /\ rnd = "mode" /\ irq_lines_q = {}
                              \/ irq_mode_q = "RND" /\ RandomRising

\* At the end interrupts are off.
LastInv == test = 5 /\ pc \in {"report", "exit"} => isr = "none" /\ ~mstatus.MIE

CountInv ==
    /\ test # 5 \/ pc \in {"test5", "t5_mode", "t5_served"} \/ Calling({"test5", "zero"})
         => irq_served = 0
    /\ pc # "exit" =>
         raised = irq_served + (IF rnd = "up" /\ isr \notin {"std", "std_w", "rnd"} THEN 1 ELSE 0)

-----------------------------------------------------------------------------
(* The product of test 5.                                                  *)

Computed(i, j) == res[i][j] = PartialSum[i][j][MAT_DIM]

ProductInv ==
    /\ test # 5 \/ pc \in {"test5", "t5_mode", "t5_served"} \/ Calling({"test5", "zero"})
         => at.i = 1 /\ at.j = 1
    /\ pc \in {"zero", "mult"} =>
         \A i, j \in Dim : i < at.i \/ (i = at.i /\ j < at.j) => Computed(i, j)
    /\ pc = "mult" => res[at.i][at.j] = PartialSum[at.i][at.j][at.k - 1]
    /\ pc = "report" \/ Calling({"report"}) => \A i, j \in Dim : Computed(i, j)

ResultInv == result \in {"none", "SUCCESS"}

TestsInv ==
    /\ SelectInv /\ LinesInv /\ ServeInv
    /\ ProcessInv /\ SetupInv /\ RandomInv /\ LastInv
    /\ CountInv /\ ProductInv /\ ResultInv

-----------------------------------------------------------------------------
(* One edge of the generator and of the registers of the lines.            *)

LEMMA Pipeline ==
    ASSUME GeneratorTypeOK, GeneratorTick, Sample(irq_lines_q)
    PROVE  /\ irq_mode_q' = stall_reg_10
           /\ irq_q' = irq_lines_q
           /\ sampling => irq_sd_lines' = driven /\ (sampling' <=> stall_reg_14 # {})
           /\ ~sampling => irq_sd_lines' = irq_sd_lines
           /\ irq_mode_q = "SD" => irq_lines_q' \in {irq_sd_lines, irq_sd_lines'}
           /\ irq_mode_q = "RND" =>
                irq_lines_q' = irq_rnd_lines \/ (irq_lines_q' = irq_rnd_lines' /\ irq_rnd_lines' # {})
           /\ irq_mode_q \notin {"SD", "RND"} => irq_lines_q' = {}
PROOF
<1>1. irq_q' = irq_lines_q
  <2>1. Lines = IRQ_MASK
    BY DEF Lines, IRQ_MASK
  <2> QED
    BY <2>1 DEF GeneratorTypeOK, Sample
<1>2. irq_lines_q' \in irq_lines_n /\ irq_mode_q' = stall_reg_10 /\ SoftwareDefined
  BY DEF GeneratorTick
<1>3. /\ sampling => irq_sd_lines' = driven /\ (sampling' <=> stall_reg_14 # {})
      /\ ~sampling => irq_sd_lines' = irq_sd_lines
  BY <1>2 DEF SoftwareDefined, driven
<1>4. /\ irq_mode_q = "SD" => irq_lines_q' \in {irq_sd_lines, irq_sd_lines'}
      /\ irq_mode_q \notin {"SD", "RND"} => irq_lines_q' = {}
  BY <1>2 DEF irq_lines_n
<1>5. ASSUME irq_mode_q = "RND"
      PROVE irq_lines_q' = irq_rnd_lines \/ (irq_lines_q' = irq_rnd_lines' /\ irq_rnd_lines' # {})
  BY <1>2, <1>5 DEF irq_lines_n
<1> QED
  BY <1>1, <1>2, <1>3, <1>4, <1>5

\* The registers follow a word on its way up.
LEMMA RisingTick ==
    ASSUME GeneratorTypeOK, GeneratorTick, Sample(irq_lines_q), Rising(driven),
           irq_mode_q = "SD" \/ (irq_mode_q = "none" /\ stall_reg_14 = {})
    PROVE  /\ stall_reg_14' = stall_reg_14 => Rising(driven)'
           /\ driven = {} => Rising(driven)'
PROOF
<1>1. \/ irq_sd_lines' = driven /\ (irq_sd_lines' # {} => sampling')
      \/ irq_sd_lines' = {} /\ irq_sd_lines = {} /\ irq_lines_q = {}
  BY Pipeline DEF Rising, driven, GeneratorTypeOK
<1>2. irq_lines_q' \in {{}, driven} /\ (irq_lines_q' # {} => irq_sd_lines' = driven)
  <2>1. CASE irq_mode_q = "SD"
    BY <1>1, <2>1, Pipeline DEF Rising
  <2>2. CASE irq_mode_q = "none"
    BY <2>2, Pipeline
  <2> QED
    BY <2>1, <2>2
<1>3. irq_q' # {} => irq_lines_q' = driven
  BY <1>1, <1>2, Pipeline DEF Rising, driven, GeneratorTypeOK
<1>4. irq_q' \in {{}, driven} /\ irq_sd_lines' \in {{}, driven}
  BY <1>1, Pipeline DEF Rising
<1>5. CASE stall_reg_14' = stall_reg_14
  BY <1>1, <1>2, <1>3, <1>4, <1>5 DEF Rising, driven
<1>6. CASE driven = {}
  BY <1>1, <1>2, <1>3, <1>4, <1>6 DEF Rising
<1> QED
  BY <1>5, <1>6

-----------------------------------------------------------------------------
(* One edge of the whole system.                                           *)

AllInv == IInv /\ TestsInv

\* What happens at an edge before main has returned.
LEMMA Edge ==
    ASSUME AllInv, Clock
    PROVE  /\ GeneratorTypeOK /\ GeneratorTick /\ Sample(irq_lines_q)
           /\ result = "none" /\ pc # "exit"
           /\ IInv'
           /\ \/ irq_req_ctrl /\ TakeIrq
              \/ isr = "none" /\ MainStep /\ UNCHANGED handler
              \/ HandlerStep
              \/ UNCHANGED <<mie, mstatus, stall_regs, program>>
PROOF
<1>1. IInv'
  BY ClockInv DEF AllInv
<1>2. result = "none" /\ pc # "exit"
  BY DEF Clock, AllInv, IInv, ControlInv, TestInv
<1>3. GeneratorTypeOK /\ GeneratorTick /\ Sample(irq_lines_q)
  BY DEF Clock, AllInv, IInv, TypeOK
<1>4. CpuStep \/ UNCHANGED <<mie, mstatus, stall_regs, program>>
  BY DEF Clock
<1>5. CpuStep => \/ irq_req_ctrl /\ TakeIrq
                 \/ isr = "none" /\ MainStep /\ UNCHANGED handler
                 \/ HandlerStep
  BY DEF CpuStep, TakeIrq
<1> QED
  BY <1>1, <1>2, <1>3, <1>4, <1>5

\* The mode of the generator.
LEMMA SelectNext == ASSUME AllInv, Clock PROVE SelectInv'
PROOF
<1> USE Edge, Pipeline
    DEF SelectInv, program, main, handler, stall_regs
<1>1. SelectInv /\ ServeInv /\ HandlerInv /\ CallInv /\ TestInv
  BY DEF AllInv, TestsInv, IInv, ControlInv
<1>2. CASE UNCHANGED <<main, stall_regs>>
  BY <1>1, <1>2
<1>3. CASE isr = "none" /\ MainStep
  <2> USE <1>1, <1>3 DEF Goto, Call, Return
  <2>1. CASE ReadMstatus \/ ModifyBit \/ StoreMstatus
    BY <2>1 DEF ReadMstatus, ModifyBit, StoreMstatus
  <2>2. CASE Test1
    <3>1. stall_reg_14' = stall_reg_14 /\ stall_reg_10' \in {stall_reg_10, "SD"} /\ test' = test
      BY <2>2 DEF Test1
    <3>2. pc' = "csrr" => stall_reg_10' = "SD"
      BY <2>2 DEF Test1
    <3>3. pc' \in {"t1_mode", "csrr"}
      BY <2>2 DEF Test1
    <3> QED
      BY <3>1, <3>2, <3>3
  <2>3. CASE Test2 \/ Test3
    <3>1. test # 5 /\ pc' = "csrr" /\ test' \in {2, 3} /\ UNCHANGED stall_regs
      BY <2>3 DEF Test2, Test3, TestInv, Calling
    <3>2. test = 1 => pc = "test2"
      BY <2>3 DEF Test2, Test3, ServeInv
    <3> QED
      BY <3>1, <3>2
  <2>4. CASE RaiseLines
    BY <2>4 DEF RaiseLines, ServeInv
  <2>5. CASE Loop \/ Wait \/ Check \/ Final
    BY <2>5 DEF Loop, Wait, Check, Final, ServeInv
  <2>6. CASE Test5 \/ MatMult \/ Report
    BY <2>6 DEF Test5, MatMult, Report, TestInv
  <2> QED
    BY <2>1, <2>2, <2>3, <2>4, <2>5, <2>6 DEF MainStep
<1>4. CASE HandlerStep
  <2>1. UNCHANGED main
    BY <1>4 DEF HandlerStep, ServeLine, DropRandom, KeepDisabled, LeaveHandler
  <2>2. test # 5 => stall_reg_10' = stall_reg_10
    BY <1>1, <1>4 DEF HandlerStep, ServeLine, DropRandom, KeepDisabled, LeaveHandler, HandlerInv
  <2>3. test # 5 => test \in {2, 3}
    BY <1>1, <1>4 DEF HandlerStep, ServeLine, DropRandom, KeepDisabled, LeaveHandler, HandlerInv,
       ServeInv
  <2> QED
    BY <1>1, <2>1, <2>2, <2>3
<1> QED
  BY <1>2, <1>3, <1>4 DEF TakeIrq

\* Test 5 is the last one.
LEMMA LastTest == ASSUME AllInv, Clock, test' # 5 PROVE test # 5
PROOF
<1>1. TestInv /\ (\/ TakeIrq \/ MainStep \/ HandlerStep \/ UNCHANGED test)
  BY Edge DEF AllInv, IInv, ControlInv, program, main
<1>2. CASE UNCHANGED test
  BY <1>2
<1>3. CASE MainStep
  BY <1>1, <1>3 DEF MainStep, TestInv, Calling, Goto, Call, Return, ReadMstatus, ModifyBit,
     StoreMstatus, Test1, Test2, Test3, RaiseLines, Loop, Wait, Check, Final, Test5, MatMult, Report
<1>4. CASE TakeIrq \/ HandlerStep
  BY <1>4 DEF TakeIrq, HandlerStep, ServeLine, DropRandom, KeepDisabled, LeaveHandler, main
<1> QED
  BY <1>1, <1>2, <1>3, <1>4

\* The register behind the lines is written by main once, before a word is up,
\* and by the handlers.
LEMMA LinesWritten ==
    ASSUME AllInv, Clock, test' # 5
    PROVE  /\ stall_reg_14' # stall_reg_14 =>
                \/ isr = "none" /\ isr' = "none" /\ driven = {}
                \/ isr = "write" /\ isr' = "csrr"
           /\ isr' = isr \/ <<isr, isr'>> \in
                {<<"none", "id">>, <<"id", "clear">>, <<"clear", "write">>, <<"write", "csrr">>,
                 <<"csrr", "and">>, <<"and", "csrw">>, <<"csrw", "mret">>, <<"mret", "none">>}
           /\ isr = "none" /\ isr' = "id" => irq_q # {}
PROOF
<1>1. test # 5 /\ HandlerInv /\ HandlerInv' /\ ServeInv
  BY LastTest, Edge DEF AllInv, TestsInv, IInv, ControlInv
<1>2. CASE irq_req_ctrl /\ TakeIrq
  <2>1. isr = "none"
    BY <1>1, <1>2 DEF HandlerInv, irq_req_ctrl
  <2> QED
    BY <1>2, <2>1 DEF TakeIrq, irq_req_ctrl, irq_local_qual, stall_regs
<1>3. CASE isr = "none" /\ MainStep /\ UNCHANGED handler
  <2>1. CASE RaiseLines
    BY <1>1, <1>3, <2>1 DEF RaiseLines, ServeInv, handler
  <2>2. CASE ~RaiseLines
    <3>1. stall_reg_14' = stall_reg_14
      BY <1>3, <2>2 DEF MainStep, ReadMstatus, ModifyBit, StoreMstatus, Test1, Test2, Test3, Loop,
         Wait, Check, Final, Test5, MatMult, Report, stall_regs
    <3> QED
      BY <1>3, <3>1 DEF handler
  <2> QED
    BY <2>1, <2>2
<1>4. CASE HandlerStep
  <2>1. CASE ServeLine
    BY <1>1, <2>1 DEF ServeLine, HandlerGoto, AfterWrite, HandlerInv, stall_regs
  <2>2. CASE DropRandom
    BY <1>1, <2>2 DEF DropRandom, HandlerInv
  <2>3. CASE KeepDisabled \/ LeaveHandler
    BY <2>3 DEF KeepDisabled, LeaveHandler, HandlerGoto, stall_regs
  <2> QED
    BY <1>4, <2>1, <2>2, <2>3 DEF HandlerStep
<1>5. CASE UNCHANGED <<stall_regs, program>>
  BY <1>5 DEF program, handler, stall_regs
<1> QED
  BY <1>2, <1>3, <1>4, <1>5, Edge

LEMMA LinesNext == ASSUME AllInv, Clock PROVE LinesInv'
PROOF
<1> SUFFICES ASSUME test' # 5 PROVE LinesInv'
  BY DEF LinesInv
<1>1. test # 5 /\ LinesInv /\ SelectInv /\ GeneratorTypeOK
  BY LastTest DEF AllInv, TestsInv, IInv, TypeOK
<1>2. irq_mode_q = "SD" \/ (irq_mode_q = "none" /\ stall_reg_14 = {})
  BY <1>1 DEF SelectInv
<1>3. GeneratorTick /\ Sample(irq_lines_q)
  BY Edge
<1>4. ASSUME irq_sd_lines = driven, irq_lines_q = driven, irq_q = driven
      PROVE  irq_q' = driven /\ irq_sd_lines' = driven /\ irq_lines_q' = driven
  <2>1. irq_q' = driven /\ irq_sd_lines' = driven
    BY <1>1, <1>3, <1>4, Pipeline DEF GeneratorTypeOK
  <2> QED
    BY <1>1, <1>2, <1>3, <1>4, <2>1, Pipeline DEF driven
<1>5. CASE isr = "none"
  <2>1. Rising(driven)
    BY <1>1, <1>5 DEF LinesInv
  <2>2. CASE isr' = "none"
    BY <1>1, <1>2, <1>3, <2>1, <2>2, RisingTick, LinesWritten DEF LinesInv
  <2>3. CASE isr' = "id"
    <3>1. stall_reg_14' = stall_reg_14 /\ irq_q # {}
      BY <1>5, <2>3, LinesWritten
    <3>2. sampling /\ irq_sd_lines = driven /\ irq_lines_q = driven /\ irq_q = driven /\ driven # {}
      BY <2>1, <3>1 DEF Rising
    <3> QED
      BY <1>1, <1>2, <1>3, <1>4, <2>3, <3>1, <3>2, Pipeline DEF LinesInv, driven
  <2> QED
    BY <1>5, <2>2, <2>3, LinesWritten
<1>6. CASE isr \in {"id", "clear", "write"}
  <2>1. /\ sampling /\ stall_reg_14 # {} /\ irq_sd_lines = driven /\ irq_lines_q = driven
        /\ irq_q = driven /\ irq_mode_q = "SD"
    BY <1>1, <1>2, <1>6 DEF LinesInv
  <2>2. sampling' /\ irq_sd_lines' = driven /\ irq_lines_q' = driven /\ irq_q' = driven
    BY <1>1, <1>3, <2>1, Pipeline DEF GeneratorTypeOK
  <2>3. CASE isr' \in {"id", "clear", "write"}
    BY <1>6, <2>1, <2>2, <2>3, LinesWritten DEF LinesInv, driven
  <2>4. CASE isr' = "csrr"
    BY <2>2, <2>4 DEF LinesInv
  <2> QED
    BY <1>6, <2>3, <2>4, LinesWritten
<1>7. CASE isr \in {"csrr", "and", "csrw", "mret"}
  <2>1. stall_reg_14' = stall_reg_14
    BY <1>7, LinesWritten
  <2>2. sampling \/ (stall_reg_14 = {} /\ irq_sd_lines = driven)
    BY <1>1, <1>7 DEF LinesInv, driven
  <2>3. irq_sd_lines' = driven /\ (sampling' \/ stall_reg_14' = {})
    BY <1>1, <1>3, <2>1, <2>2, Pipeline DEF GeneratorTypeOK
  <2>4. isr \in {"and", "csrw", "mret"} => irq_lines_q' = driven
    BY <1>1, <1>2, <1>3, <2>3, Pipeline DEF LinesInv, driven
  <2>5. isr \in {"csrw", "mret"} => irq_q' = driven
    BY <1>1, <1>3, Pipeline DEF LinesInv
  <2>6. driven' = driven /\ (driven' # {} => stall_reg_14' # {})
    BY <2>1 DEF driven
  <2> QED
    BY <1>7, <2>2, <2>3, <2>4, <2>5, <2>6, LinesWritten, <1>1, <1>3, Pipeline DEF LinesInv, Rising
<1> QED
  BY <1>1, <1>5, <1>6, <1>7, Edge DEF AllInv, IInv, TypeOK, ProgramTypeOK, HandlerAt, ControlInv,
     HandlerInv

-----------------------------------------------------------------------------
(* The table of priorities against the encoder.                            *)

LEMMA PriorityTable ==
    \A i \in 1..IRQ_NUM :
        IRQ_ID_PRIORITY[i] = IF i <= 16 THEN 32 - i
                             ELSE IF i = 17 THEN 11 ELSE IF i = 18 THEN 3 ELSE 7
PROOF
<1>1. ASSUME NEW i \in 1..8 PROVE IRQ_ID_PRIORITY[i] = 32 - i
  BY <1>1 DEF IRQ_ID_PRIORITY
<1>2. ASSUME NEW i \in 9..16 PROVE IRQ_ID_PRIORITY[i] = 32 - i
  BY <1>2 DEF IRQ_ID_PRIORITY
<1>3. IRQ_ID_PRIORITY[17] = 11 /\ IRQ_ID_PRIORITY[18] = 3 /\ IRQ_ID_PRIORITY[19] = 7
  BY DEF IRQ_ID_PRIORITY
<1> QED
  BY <1>1, <1>2, <1>3 DEF IRQ_NUM

\* The table has every line once, and never one before a line that precedes it.
LEMMA PriorityOrder ==
    /\ \A i \in 1..IRQ_NUM : IRQ_ID_PRIORITY[i] \in IRQ_MASK
    /\ \A l \in IRQ_MASK : \E i \in 1..IRQ_NUM : IRQ_ID_PRIORITY[i] = l
    /\ \A i, j \in 1..IRQ_NUM :
         i < j => /\ ~Before(IRQ_ID_PRIORITY[j], IRQ_ID_PRIORITY[i])
                  /\ IRQ_ID_PRIORITY[j] # IRQ_ID_PRIORITY[i]
PROOF
<1>1. \A i \in 1..IRQ_NUM : IRQ_ID_PRIORITY[i] \in IRQ_MASK
  BY PriorityTable DEF IRQ_NUM, IRQ_MASK
<1>2. ASSUME NEW l \in IRQ_MASK PROVE \E i \in 1..IRQ_NUM : IRQ_ID_PRIORITY[i] = l
  <2>1. CASE l \in 16..31
    BY <2>1, PriorityTable DEF IRQ_NUM
  <2>2. CASE l \in {3, 7, 11}
    BY <2>2, PriorityTable DEF IRQ_NUM
  <2> QED
    BY <2>1, <2>2 DEF IRQ_MASK
<1>3. ASSUME NEW i \in 1..IRQ_NUM, NEW j \in 1..IRQ_NUM, i < j
      PROVE  /\ ~Before(IRQ_ID_PRIORITY[j], IRQ_ID_PRIORITY[i])
             /\ IRQ_ID_PRIORITY[j] # IRQ_ID_PRIORITY[i]
  BY <1>3, PriorityTable DEF IRQ_NUM, Before
<1> QED
  BY <1>1, <1>2, <1>3

LEMMA DoneSets ==
    /\ Done(1) = {} /\ Done(IRQ_NUM + 1) = IRQ_MASK
    /\ \A m \in 1..IRQ_NUM : /\ Done(m + 1) = Done(m) \cup {IRQ_ID_PRIORITY[m]}
                             /\ IRQ_ID_PRIORITY[m] \notin Done(m)
                             /\ \A l \in IRQ_MASK \ Done(m + 1) : ~Before(l, IRQ_ID_PRIORITY[m])
PROOF
<1>1. Done(1) = {} /\ Done(IRQ_NUM + 1) = IRQ_MASK
  BY PriorityOrder DEF Done, IRQ_NUM
<1>2. ASSUME NEW m \in 1..IRQ_NUM
      PROVE  /\ Done(m + 1) = Done(m) \cup {IRQ_ID_PRIORITY[m]}
             /\ IRQ_ID_PRIORITY[m] \notin Done(m)
  <2>1. 1..(m + 1 - 1) = 1..(m - 1) \cup {m}
    BY DEF IRQ_NUM
  <2>2. \A i \in 1..(m - 1) : IRQ_ID_PRIORITY[i] # IRQ_ID_PRIORITY[m]
    BY PriorityOrder DEF IRQ_NUM
  <2> QED
    BY <2>1, <2>2 DEF Done
<1>3. ASSUME NEW m \in 1..IRQ_NUM, NEW l \in IRQ_MASK \ Done(m + 1)
      PROVE  ~Before(l, IRQ_ID_PRIORITY[m])
  <2>1. PICK i \in 1..IRQ_NUM : IRQ_ID_PRIORITY[i] = l
    BY PriorityOrder
  <2>2. i \notin 1..(m + 1 - 1)
    BY <2>1, <1>3 DEF Done
  <2> QED
    BY <2>1, <2>2, PriorityOrder DEF IRQ_NUM
<1> QED
  BY <1>1, <1>2, <1>3

-----------------------------------------------------------------------------
(* Tests 2 and 3 serve the lines in the order of the table.                *)

\* What the core takes while main waits is the line main waits for.
LEMMA TakesTheLine ==
    ASSUME AllInv, irq_req_ctrl, test # 5
    PROVE  /\ irq_id_ctrl = IRQ_ID_PRIORITY[n] /\ pc = "wait" /\ isr = "none"
           /\ irq_pending32_std = Remaining(n) /\ stall_reg_14 = irq_pending32_std
           /\ irq_q = driven
PROOF
<1>1. /\ pc = "wait" /\ isr = "none" /\ prev_irq_pending32_std = irq_pending32_std
      /\ n \in 1..IRQ_NUM
  BY DEF AllInv, IInv, ControlInv, HandlerInv, WaitBound, irq_req_ctrl
<1>2. /\ irq_pending32_std = Remaining(n) /\ stall_reg_14 = irq_pending32_std
      /\ IRQ_ID_PRIORITY[n] \in ToServe /\ test \in {2, 3}
      /\ test = 2 => mie = IRQ_MASK
      /\ test = 3 => irq_to_test32_std = first_irq_pending32_std \cap mie
  BY <1>1 DEF AllInv, TestsInv, ServeInv, WaitInv
<1>3. irq_q = driven
  BY <1>1 DEF AllInv, TestsInv, LinesInv, Rising, irq_req_ctrl, irq_local_qual
<1>4. mie \subseteq IRQ_MASK /\ IRQ_MASK = Lines /\ IRQ_MASK \subseteq 0..31
  BY DEF AllInv, IInv, TypeOK, IntTypeOK, IRQ_MASK, Lines
<1>5. irq_local_qual = ToServe \ Done(n)
  <2>1. CASE test = 2
    BY <1>2, <1>3, <1>4, <2>1 DEF irq_local_qual, driven, Remaining, FirstPending, ToServe
  <2>2. CASE test = 3
    BY <1>2, <1>3, <1>4, <2>2 DEF irq_local_qual, driven, Remaining, FirstPending, ToServe
  <2> QED
    BY <1>2, <2>1, <2>2
<1>6. IRQ_ID_PRIORITY[n] \in irq_local_qual
  BY <1>1, <1>2, <1>5, DoneSets
<1>7. /\ irq_id_ctrl \in irq_local_qual \cap IRQ_MASK
      /\ \A j \in irq_local_qual \ {irq_id_ctrl} : Before(irq_id_ctrl, j)
  BY RequestedLine DEF AllInv, IInv, TypeOK
<1>8. irq_id_ctrl = IRQ_ID_PRIORITY[n]
  <2> SUFFICES ASSUME irq_id_ctrl # IRQ_ID_PRIORITY[n] PROVE FALSE
    OBVIOUS
  <2>1. irq_id_ctrl \in IRQ_MASK \ Done(n + 1)
    BY <1>1, <1>5, <1>7, DoneSets
  <2> QED
    BY <1>1, <1>6, <1>7, <2>1, DoneSets
<1> QED
  BY <1>1, <1>2, <1>3, <1>8

\* Clearing the line that was served leaves what is to come.
LEMMA ClearsTheLine ==
    ASSUME n \in 1..IRQ_NUM, IRQ_ID_PRIORITY[n] \in ToServe
    PROVE  /\ Remaining(n) \ {IRQ_ID_PRIORITY[n]} = Remaining(n + 1)
           /\ IRQ_ID_PRIORITY[n] \notin Remaining(n + 1)
  BY DoneSets DEF Remaining

\* Passing over a line that is not to be served changes nothing.
LEMMA PassesOver ==
    ASSUME n \in 1..IRQ_NUM, IRQ_ID_PRIORITY[n] \notin ToServe
    PROVE  Remaining(n + 1) = Remaining(n)
  BY DoneSets DEF Remaining

LEMMA ServeSubroutine ==
    ASSUME AllInv, test # 5, isr = "none", UNCHANGED handler,
           ReadMstatus \/ ModifyBit \/ StoreMstatus
    PROVE  ServeInv'
PROOF
<1>1. ServeInv /\ CallInv /\ TestInv
  BY DEF AllInv, TestsInv, IInv, ControlInv
<1>2. UNCHANGED <<isr, vector, after, test, n, mie, stall_reg_14, test_words, irq_words>>
  BY DEF ReadMstatus, ModifyBit, StoreMstatus, Goto, WriteMstatus, handler, stall_regs
<1>3. UNCHANGED <<ToServe, FirstPending, driven, Remaining(n), Remaining(n + 1)>>
  BY <1>2 DEF ToServe, FirstPending, Remaining, Done, driven, test_words
<1>4. CASE pc \in {"csrr", "modify"}
  <2>1. pc' \in {"modify", "csrw"}
    BY <1>4 DEF ReadMstatus, ModifyBit, StoreMstatus, Goto
  <2> QED
    BY <1>1, <1>2, <1>3, <1>4, <2>1 DEF ServeInv, Calling, test_words, irq_words
<1>5. CASE pc = "csrw"
  <2>1. pc' = after
    BY <1>5 DEF ReadMstatus, ModifyBit, StoreMstatus, Goto
  <2>2. after \in {"test2", "raise", "wait"}
    BY <1>1, <1>5 DEF CallInv, TestInv, Calling
  <2>3. CASE after = "wait"
    <3>1. WaitInv'
      BY <1>1, <1>2, <1>3, <1>5, <2>3 DEF ServeInv, CallInv, WaitInv, Calling, test_words, irq_words
    <3> QED
      BY <1>1, <1>2, <2>1, <2>3, <3>1, <1>5 DEF ServeInv, Calling, test_words, irq_words
  <2>4. CASE after \in {"test2", "raise"}
    BY <1>1, <1>2, <1>3, <1>5, <2>1, <2>4 DEF ServeInv, Calling, test_words, irq_words
  <2> QED
    BY <2>2, <2>3, <2>4
<1> QED
  BY <1>4, <1>5 DEF ReadMstatus, ModifyBit, StoreMstatus

LEMMA ServeRaise ==
    ASSUME AllInv, test # 5, isr = "none", UNCHANGED handler,
           Test1 \/ Test2 \/ Test3 \/ RaiseLines
    PROVE  ServeInv'
PROOF
<1>1. ServeInv /\ SelectInv
  BY DEF AllInv, TestsInv
<1>2. STD_IRQ_MASK = IRQ_MASK /\ IRQ_MASK \subseteq 0..31
  BY MaskedWords
<1>3. CASE Test1
  <2>1. test = 1 /\ irq_to_test32_std = {}
    BY <1>1, <1>3 DEF Test1, ServeInv
  <2>2. /\ test' = test /\ irq_to_test32_std' = irq_to_test32_std
        /\ pc' = "t1_mode" \/ (pc' = "csrr" /\ after' = "test2")
    BY <1>3 DEF Test1, Goto, Call, test_words
  <2> QED
    BY <2>1, <2>2 DEF ServeInv, Calling
<1>4. CASE Test2
  <2>1. /\ test = 1 /\ stall_reg_14 = {} /\ stall_reg_14' = stall_reg_14
        /\ pc' = "csrr" /\ after' = "raise" /\ test' = 2 /\ n' = 1
        /\ irq_to_test32_std' = irq_to_test32_std /\ irq_pending32_std' = 0..31
        /\ mie' = IRQ_MASK
    BY <1>1, <1>2, <1>4 DEF Test2, ServeInv, SelectInv, Call, stall_regs, WriteMie
  <2> QED
    BY <1>1, <2>1 DEF ServeInv, Calling, driven, FirstPending
<1>5. CASE Test3
  <2>1. test = 2 /\ irq_to_test32_std = {} /\ driven = {}
    BY <1>1, <1>5 DEF Test3, ServeInv
  <2>2. /\ mie' = ie_mask32_std' /\ irq_pending32_std' = first_irq_pending32_std'
        /\ irq_to_test32_std' = first_irq_pending32_std' \cap mie'
    BY <1>2, <1>5, <2>1 DEF Test3, WriteMie
  <2>3. /\ stall_reg_14' = stall_reg_14 /\ pc' = "csrr" /\ after' = "raise" /\ test' = 3 /\ n' = 1
    BY <1>5 DEF Test3, Call, stall_regs
  <2> QED
    BY <2>1, <2>2, <2>3 DEF ServeInv, Calling, driven, FirstPending
<1>6. CASE RaiseLines
  <2>1. n = 1 /\ irq_pending32_std = FirstPending /\ test \in {2, 3}
    BY <1>1, <1>6 DEF RaiseLines, ServeInv
  <2>2. /\ stall_reg_14' = irq_pending32_std /\ pc' = "loop"
        /\ UNCHANGED <<test, n, mie, irq_to_test32_std, first_irq_pending32_std, ie_mask32_std,
                       irq_pending32_std>>
    BY <1>6 DEF RaiseLines, Goto, test_words, irq_words
  <2>3. Remaining(n)' = irq_pending32_std
    BY <2>1, <2>2, DoneSets DEF Remaining, FirstPending
  <2> QED
    BY <1>1, <2>1, <2>2, <2>3 DEF ServeInv, Calling
<1> QED
  BY <1>3, <1>4, <1>5, <1>6

LEMMA ServeLoop ==
    ASSUME AllInv, test # 5, isr = "none", UNCHANGED handler, Loop \/ Wait \/ Check \/ Final
    PROVE  ServeInv' /\ result' \notin {"ERR_CODE_TEST_2", "ERR_CODE_TEST_3"}
PROOF
<1>1. ServeInv /\ TypeOK /\ WaitBound /\ result \in {"none", "SUCCESS"}
  BY DEF AllInv, TestsInv, IInv, ControlInv, ResultInv
<1>2. CASE Loop
  <2>1. /\ pc = "loop" /\ test \in {2, 3} /\ n \in 1..IRQ_NUM + 1
        /\ stall_reg_14 = irq_pending32_std /\ irq_pending32_std = Remaining(n)
    BY <1>1, <1>2 DEF Loop, ServeInv, TypeOK, ProgramTypeOK
  <2>2. UNCHANGED <<mie, stall_reg_14, irq_to_test32_std, first_irq_pending32_std, ie_mask32_std,
                    irq_words, test, result>>
    BY <1>2 DEF Loop, Goto, Call, stall_regs
  <2>3. CASE n <= IRQ_NUM /\ pc' = "csrr"
    <3>1. after' = "wait" /\ n' = n
      BY <1>2, <2>3 DEF Loop, Call, Goto
    <3>2. IRQ_ID_PRIORITY[n] \in ToServe
      <4>1. n \in 1..IRQ_NUM
        BY <2>1, <2>3 DEF IRQ_NUM
      <4>2. test = 2 \/ IRQ_ID_PRIORITY[n] \in irq_to_test32_std
        BY <1>2, <2>1, <2>3 DEF Loop, Goto, IRQ_NUM
      <4> QED
        BY <4>1, <4>2, PriorityOrder DEF ToServe
    <3>3. UNCHANGED <<Remaining(n), ToServe>>
      BY <2>2, <3>1 DEF Remaining, ToServe, FirstPending, Done
    <3> QED
      BY <1>1, <2>1, <2>2, <2>3, <3>1, <3>2, <3>3 DEF ServeInv, Calling, irq_words
  <2>4. CASE n <= IRQ_NUM /\ pc' = "loop"
    <3>1. n' = n + 1 /\ test = 3 /\ IRQ_ID_PRIORITY[n] \notin ToServe
      BY <1>2, <2>1, <2>4 DEF Loop, Call, Goto, ToServe
    <3>2. Remaining(n)' = Remaining(n + 1)
      BY <2>2, <3>1 DEF Remaining, ToServe, FirstPending, Done
    <3>3. n \in 1..IRQ_NUM
      BY <2>1, <2>4 DEF IRQ_NUM
    <3> QED
      BY <1>1, <2>1, <2>2, <2>4, <3>1, <3>2, <3>3, PassesOver DEF ServeInv, Calling, irq_words
  <2>5. CASE n = IRQ_NUM + 1
    <3>1. n' = n /\ pc' = (IF test = 2 THEN "test3" ELSE "final")
      BY <1>2, <2>5 DEF Loop, Goto, IRQ_NUM
    <3>2. Remaining(n)' = Remaining(n)
      BY <2>2, <3>1 DEF Remaining, ToServe, FirstPending, Done
    <3>3. test = 2 => driven = {}
      <4>1. test = 2 => stall_reg_14 = (0..31) \ IRQ_MASK
        BY <2>1, <2>5, DoneSets DEF Remaining, ToServe, FirstPending
      <4> QED
        BY <4>1 DEF driven, Lines, IRQ_MASK
    <3>4. driven' = driven
      BY <2>2 DEF driven
    <3> QED
      BY <1>1, <2>1, <2>2, <2>5, <3>1, <3>2, <3>3, <3>4 DEF ServeInv, Calling, irq_words
  <2> QED
    BY <1>2, <2>1, <2>3, <2>4, <2>5 DEF Loop, Call, Goto, IRQ_NUM
<1>3. CASE Wait
  <2>1. UNCHANGED <<mie, stall_reg_14, test_words, irq_words, test, n, result, isr, vector>>
    BY <1>3 DEF Wait, Goto, handler, stall_regs
  <2>2. UNCHANGED <<Remaining(n), Remaining(n + 1), ToServe>>
    BY <2>1 DEF Remaining, ToServe, FirstPending, Done, test_words
  <2>3. WaitInv /\ test \in {2, 3}
    BY <1>1, <1>3 DEF Wait, ServeInv
  <2>4. CASE pc' = "wait"
    BY <1>1, <2>1, <2>2, <2>3, <2>4 DEF ServeInv, WaitInv, Calling, test_words, irq_words
  <2>5. CASE pc' = "check"
    <3>1. prev_irq_pending32_std # irq_pending32_std
      BY <1>3, <2>5 DEF Wait, Goto
    <3>2. irq_id = IRQ_ID_PRIORITY[n] /\ irq_pending32_std = Remaining(n + 1)
      BY <2>3, <3>1 DEF WaitInv
    <3> QED
      BY <1>1, <2>1, <2>2, <2>3, <2>5, <3>2 DEF ServeInv, WaitInv, Calling, test_words, irq_words
  <2> QED
    BY <1>1, <1>3, <2>1, <2>4, <2>5 DEF Wait, Goto
<1>4. CASE Check
  <2>1. IRQ_ID_PRIORITY[n] = irq_id /\ test \in {2, 3} /\ n \in 1..IRQ_NUM
    BY <1>1, <1>4 DEF Check, ServeInv, WaitBound
  <2>2. /\ pc' = "loop" /\ n' = n + 1
        /\ UNCHANGED <<mie, stall_reg_14, test_words, irq_words, test, result>>
    BY <1>4, <2>1 DEF Check, stall_regs
  <2>3. Remaining(n)' = Remaining(n + 1)
    BY <2>2 DEF Remaining, ToServe, FirstPending, Done, test_words
  <2> QED
    BY <1>1, <1>4, <2>1, <2>2, <2>3 DEF Check, ServeInv, Calling, test_words, irq_words
<1>5. CASE Final
  <2>1. n = IRQ_NUM + 1 /\ irq_pending32_std = Remaining(n) /\ test = 3
    BY <1>1, <1>5 DEF Final, ServeInv
  <2>2. irq_pending32_std = first_irq_pending32_std \ ie_mask32_std
    <3>1. Remaining(n) = first_irq_pending32_std \ irq_to_test32_std
      <4>1. irq_to_test32_std \subseteq Done(n)
        BY <1>1, <2>1, DoneSets, MaskedWords DEF TypeOK, ProgramTypeOK
      <4> QED
        BY <2>1, <4>1 DEF Remaining, ToServe, FirstPending
    <3> QED
      BY <1>1, <2>1, <3>1 DEF ServeInv
  <2>3. /\ pc' = "csrr" /\ after' = "test5" /\ test' = 5 /\ result' = result
    BY <1>5, <2>2 DEF Final, Call
  <2> QED
    BY <1>1, <2>3 DEF ServeInv, Calling
<1> QED
  BY <1>2, <1>3, <1>4, <1>5

\* A handler of tests 2 and 3: it serves the line main waits for.
LEMMA ServeHandler ==
    ASSUME AllInv, test # 5, (irq_req_ctrl /\ TakeIrq) \/ HandlerStep
    PROVE  ServeInv'
PROOF
<1>1. ServeInv /\ WaitBound /\ HandlerInv /\ TypeOK
  BY DEF AllInv, TestsInv, IInv, ControlInv
<1>2. UNCHANGED <<main, mie, test_words>>
  BY DEF TakeIrq, Enter, HandlerStep, ServeLine, DropRandom, KeepDisabled, LeaveHandler, Mret
<1>3. pc = "wait"
  BY <1>1, TakesTheLine
  DEF HandlerStep, ServeLine, DropRandom, KeepDisabled, LeaveHandler, HandlerInv
<1>4. WaitInv /\ test \in {2, 3} /\ n \in 1..IRQ_NUM
  BY <1>1, <1>3 DEF ServeInv, WaitBound
<1>5. UNCHANGED <<Remaining(n), Remaining(n + 1), ToServe>>
  BY <1>2 DEF Remaining, ToServe, FirstPending, Done, main, test_words
<1> SUFFICES WaitInv'
  BY <1>1, <1>2, <1>3 DEF ServeInv, Calling, main, test_words
<1>6. CASE irq_req_ctrl /\ TakeIrq
  <2>1. /\ vector' = IRQ_ID_PRIORITY[n] /\ isr' = "id" /\ irq_pending32_std = Remaining(n)
        /\ stall_reg_14 = irq_pending32_std
    BY <1>6, TakesTheLine DEF TakeIrq
  <2>2. UNCHANGED <<stall_reg_14, irq_pending32_std, n, prev_irq_pending32_std>>
    BY <1>6 DEF TakeIrq, stall_regs, main, irq_words, test_words
  <2> QED
    BY <1>4, <1>5, <2>1, <2>2 DEF WaitInv
<1>7. CASE ServeLine
  <2>1. irq_mode # "RND" /\ vector' = vector /\ n' = n
        /\ prev_irq_pending32_std' = prev_irq_pending32_std
    BY <1>1, <1>2, <1>4, <1>7 DEF ServeLine, HandlerInv, HandlerGoto, main, test_words
  <2>2. CASE isr = "id"
    <3>1. /\ irq_id' = vector /\ isr' = "clear"
          /\ UNCHANGED <<stall_reg_14, irq_pending32_std>>
      BY <1>7, <2>1, <2>2 DEF ServeLine, HandlerGoto, stall_regs
    <3> QED
      BY <1>4, <1>5, <2>1, <2>2, <3>1 DEF WaitInv
  <2>3. CASE isr = "clear"
    <3>1. /\ irq_pending32_std' = irq_pending32_std \ {irq_id} /\ isr' = "write"
          /\ irq_id' = irq_id
      BY <1>7, <2>1, <2>3 DEF ServeLine, HandlerGoto, Served
    <3>2. irq_pending32_std' = Remaining(n + 1) /\ irq_id = IRQ_ID_PRIORITY[n]
      BY <1>4, <2>3, <3>1, ClearsTheLine DEF WaitInv
    <3> QED
      BY <1>4, <1>5, <2>1, <2>3, <3>1, <3>2 DEF WaitInv
  <2>4. CASE isr = "write"
    <3>1. /\ stall_reg_14' = irq_pending32_std /\ isr' = "csrr"
          /\ UNCHANGED <<irq_id, irq_pending32_std>>
      BY <1>7, <2>1, <2>4 DEF ServeLine, HandlerGoto, LinesLeft, AfterWrite, irq_words
    <3> QED
      BY <1>4, <1>5, <2>1, <2>4, <3>1 DEF WaitInv
  <2>5. isr # "mip"
    BY <1>1, <1>4 DEF HandlerInv
  <2> QED
    BY <1>7, <2>2, <2>3, <2>4, <2>5 DEF ServeLine
<1>8. CASE KeepDisabled \/ LeaveHandler
  <2>1. /\ isr \in {"csrr", "and", "csrw", "mret"}
        /\ isr' \in {"and", "csrw", "mret", "none"} /\ vector' = vector
        /\ UNCHANGED <<stall_reg_14, irq_id, irq_pending32_std, n, prev_irq_pending32_std>>
    BY <1>8 DEF KeepDisabled, LeaveHandler, HandlerGoto, stall_regs, irq_words, main, test_words
  <2> QED
    BY <1>4, <1>5, <2>1 DEF WaitInv
<1>9. CASE DropRandom
  BY <1>1, <1>4, <1>9 DEF DropRandom, HandlerInv
<1> QED
  BY <1>6, <1>7, <1>8, <1>9 DEF HandlerStep

LEMMA ServeNext ==
    ASSUME AllInv, Clock
    PROVE  ServeInv' /\ result' \notin {"ERR_CODE_TEST_2", "ERR_CODE_TEST_3"}
PROOF
<1>1. ServeInv /\ TestInv /\ TestInv' /\ result = "none"
  BY Edge DEF AllInv, TestsInv, IInv, ControlInv
<1>2. CASE test' = 5
  <2>1. ServeInv'
    BY <1>1, <1>2 DEF ServeInv, TestInv, Calling
  <2>2. result' \notin {"ERR_CODE_TEST_2", "ERR_CODE_TEST_3"}
    <3>1. CASE Loop \/ Wait \/ Check \/ Final
      BY <1>1, <3>1, ServeLoop, Edge, LastTest
      DEF Loop, Wait, Check, Final, TestInv, Calling, HandlerStep, TakeIrq, ServeLine, DropRandom,
          KeepDisabled, LeaveHandler, main, program
    <3>2. CASE ~(Loop \/ Wait \/ Check \/ Final)
      BY <1>1, <3>2, Edge
      DEF MainStep, ReadMstatus, ModifyBit, StoreMstatus, Test1, Test2, Test3, RaiseLines, Test5,
          MatMult, Report, Return, Goto, Call, HandlerStep, TakeIrq, ServeLine, DropRandom,
          KeepDisabled, LeaveHandler, main, program
    <3> QED
      BY <3>1, <3>2
  <2> QED
    BY <2>1, <2>2
<1>3. CASE test' # 5
  <2>1. test # 5
    BY <1>3, LastTest
  <2>2. CASE isr = "none" /\ MainStep /\ UNCHANGED handler
    <3>1. CASE Test5 \/ MatMult \/ Report
      BY <1>1, <2>1, <3>1 DEF Test5, MatMult, Report, TestInv, Calling
    <3>2. CASE Loop \/ Wait \/ Check \/ Final
      BY <2>1, <2>2, <3>2, ServeLoop
    <3>3. CASE ReadMstatus \/ ModifyBit \/ StoreMstatus \/ Test1 \/ Test2 \/ Test3 \/ RaiseLines
      <4>1. result' = result
        BY <3>3 DEF ReadMstatus, ModifyBit, StoreMstatus, Test1, Test2, Test3, RaiseLines, Goto, Call
      <4> QED
        BY <1>1, <2>1, <2>2, <3>3, <4>1, ServeSubroutine, ServeRaise
    <3> QED
      BY <2>2, <3>1, <3>2, <3>3 DEF MainStep
  <2>3. CASE (irq_req_ctrl /\ TakeIrq) \/ HandlerStep
    <3>1. result' = result
      BY <2>3 DEF TakeIrq, HandlerStep, ServeLine, DropRandom, KeepDisabled, LeaveHandler, main
    <3> QED
      BY <1>1, <2>1, <2>3, <3>1, ServeHandler
  <2>4. CASE UNCHANGED <<mie, mstatus, stall_regs, program>>
    BY <1>1, <2>4 DEF program, main, handler, test_words, irq_words, stall_regs, ServeInv, WaitInv,
       Calling, Remaining, ToServe, FirstPending, Done, driven
  <2> QED
    BY <2>2, <2>3, <2>4, Edge
<1> QED
  BY <1>2, <1>3

-----------------------------------------------------------------------------
(* Test 5.                                                                 *)

LEMMA ProcessNext == ASSUME ProcessInv, GeneratorTick PROVE ProcessInv'
  BY DEF ProcessInv, GeneratorTick, Draw, WaitOrRaise, TakeDown

\* A word that is up has lines, and stays up until STANDARD is written.
LEMMA RandomTick ==
    ASSUME ProcessInv, GeneratorTypeOK, GeneratorTick, Sample(irq_lines_q)
    PROVE  /\ rnd = "up" <=> irq_rnd_lines # {}
           /\ "STD" \notin {irq_mode_q, stall_reg_10} /\ rnd = "up" =>
                rnd' = "up" /\ irq_rnd_lines' = irq_rnd_lines
           /\ "STD" \in {irq_mode_q, stall_reg_10} /\ rnd = "up" => rnd' = "mode"
           /\ irq_mode_q # "RND" /\ rnd = "mode" => rnd' = "mode"
           /\ rnd = "mode" => rnd' # "up"
           /\ irq_rnd_lines = {} => irq_rnd_lines' = {} \/ rnd' = "up"
           /\ irq_mode_q = "RND" /\ stall_reg_10 # "STD" => irq_lines_q' \in {{}, irq_rnd_lines'}
PROOF
<1>1. rnd = "up" <=> irq_rnd_lines # {}
  BY GeneratorAssumption DEF ProcessInv
<1>2. "STD" \notin {irq_mode_q, stall_reg_10} /\ rnd = "up" =>
        rnd' = "up" /\ irq_rnd_lines' = irq_rnd_lines
  BY DEF GeneratorTick, Draw, WaitOrRaise, TakeDown
<1>3. /\ "STD" \in {irq_mode_q, stall_reg_10} /\ rnd = "up" => rnd' = "mode"
      /\ irq_mode_q # "RND" /\ rnd = "mode" => rnd' = "mode"
      /\ rnd = "mode" => rnd' # "up"
  BY DEF GeneratorTick, Draw, WaitOrRaise, TakeDown
<1>4. irq_rnd_lines = {} => irq_rnd_lines' = {} \/ rnd' = "up"
  BY ProcessNext DEF ProcessInv
<1>5. ASSUME irq_mode_q = "RND", stall_reg_10 # "STD"
      PROVE  irq_lines_q' \in {{}, irq_rnd_lines'}
  <2>1. CASE rnd = "up"
    BY <1>2, <1>5, <2>1, Pipeline
  <2>2. CASE rnd # "up"
    BY <1>1, <1>5, <2>2, Pipeline
  <2> QED
    BY <2>1, <2>2
<1> QED
  BY <1>1, <1>2, <1>3, <1>4, <1>5

LEMMA RandomRisingTick ==
    ASSUME ProcessInv, GeneratorTypeOK, GeneratorTick, Sample(irq_lines_q),
           irq_mode_q = "RND", stall_reg_10 # "STD", irq_lines_q \in {{}, irq_rnd_lines}
    PROVE  RandomRising'
PROOF
<1>1. irq_q' = irq_lines_q
  BY Pipeline
<1>2. CASE irq_rnd_lines = {}
  BY <1>1, <1>2, RandomTick DEF RandomRising
<1>3. CASE irq_rnd_lines # {}
  <2>1. irq_rnd_lines' = irq_rnd_lines /\ irq_lines_q' = irq_rnd_lines
    BY <1>3, RandomTick, Pipeline
  <2> QED
    BY <1>1, <2>1 DEF RandomRising
<1> QED
  BY <1>2, <1>3

\* A step of main, by where it starts and ends in test 5.
LEMMA Test5Step ==
    ASSUME AllInv, Clock, isr = "none", MainStep, UNCHANGED handler
    PROVE  /\ Before5' => Before5 /\ stall_reg_10' \in {stall_reg_10, "SD"}
           /\ pc' = "t5_served" => Before5 /\ stall_reg_10' = "RND"
           /\ Calling({"zero"})' => \/ pc = "t5_served" /\ pc' = "csrr" /\ stall_reg_10' = stall_reg_10
                                   \/ /\ Calling({"zero"}) /\ stall_reg_10' = stall_reg_10
                                      /\ <<pc, pc'>> \in {<<"csrr", "modify">>, <<"modify", "csrw">>}
           /\ Multiplying' => /\ stall_reg_10' = stall_reg_10
                              /\ Multiplying \/ (Calling({"zero"}) /\ pc = "csrw")
PROOF
<1>1. TestInv /\ ModeInv /\ CallInv /\ TestInv'
  BY Edge DEF AllInv, IInv, ControlInv
<1>2. CASE ReadMstatus \/ ModifyBit
  BY <1>1, <1>2 DEF ReadMstatus, ModifyBit, Goto, Calling, Before5, Multiplying, TestInv, stall_regs
<1>3. CASE StoreMstatus
  BY <1>1, <1>3 DEF StoreMstatus, Goto, Calling, Before5, Multiplying, TestInv, CallInv, stall_regs
<1>4. CASE Test1 \/ Test2 \/ Test3 \/ RaiseLines
  <2>1. /\ test # 5 /\ stall_reg_10' \in {stall_reg_10, "SD"}
        /\ pc' \in {"t1_mode", "csrr", "loop"} /\ (pc' = "csrr" => after' \in {"test2", "raise"})
    BY <1>1, <1>4
    DEF Test1, Test2, Test3, RaiseLines, Goto, Call, TestInv, Calling, stall_regs
  <2> QED
    BY <2>1 DEF Before5, Multiplying, Calling
<1>5. CASE Loop \/ Wait \/ Check \/ Final
  <2>1. /\ test # 5 /\ stall_reg_10' = stall_reg_10
        /\ pc' \in {"csrr", "loop", "test3", "final", "wait", "check", "exit"}
        /\ pc' = "csrr" => after' \in {"wait", "test5"}
    BY <1>1, <1>5 DEF Loop, Wait, Check, Final, Goto, Call, Return, TestInv, Calling, stall_regs
  <2> QED
    BY <2>1 DEF Before5, Multiplying, Calling
<1>6. CASE Test5
  <2>1. CASE pc = "test5"
    BY <1>6, <2>1 DEF Test5, Goto, Before5, Multiplying, Calling, stall_regs
  <2>2. CASE pc = "t5_mode"
    <3>1. irq_mode = "RND"
      BY <1>1, <2>2 DEF ModeInv, TestInv, Calling
    <3>2. stall_reg_10' = "RND" /\ pc' = "t5_served" /\ test = 5 /\ test' = test
      BY <1>1, <1>6, <2>2, <3>1 DEF Test5, Goto, TestInv
    <3> QED
      BY <2>2, <3>2 DEF Before5, Multiplying, Calling
  <2>3. CASE pc = "t5_served"
    <3>1. /\ stall_reg_10' = stall_reg_10 /\ pc' = "csrr" /\ after' = "zero"
          /\ test = 5 /\ test' = test
      BY <1>1, <1>6, <2>3 DEF Test5, Call, TestInv, stall_regs
    <3> QED
      BY <2>3, <3>1 DEF Before5, Multiplying, Calling
  <2> QED
    BY <1>6, <2>1, <2>2, <2>3 DEF Test5
<1>7. CASE MatMult \/ Report
  <2>1. /\ test = 5 /\ test' = test /\ stall_reg_10' = stall_reg_10 /\ Multiplying
        /\ pc' \in {"zero", "mult", "csrr", "exit"} /\ (pc' = "csrr" => after' = "report")
    BY <1>1, <1>7 DEF MatMult, Report, Goto, Call, Return, TestInv, Multiplying, stall_regs
  <2> QED
    BY <2>1 DEF Before5, Multiplying, Calling
<1> QED
  BY <1>2, <1>3, <1>4, <1>5, <1>6, <1>7 DEF MainStep

\* Main and the handler where there is no step of main.
LEMMA OtherStep ==
    ASSUME AllInv, Clock, ~(isr = "none" /\ MainStep /\ UNCHANGED handler)
    PROVE  /\ UNCHANGED <<main, mult>>
           /\ \/ isr' = isr /\ stall_reg_10' = stall_reg_10 /\ irq_served' = irq_served
              \/ isr # "none" /\ HandlerStep
              \/ isr = "none" /\ TakeIrq /\ irq_req_ctrl
PROOF
<1>1. CASE irq_req_ctrl /\ TakeIrq
  <2>1. isr = "none"
    BY <1>1 DEF AllInv, IInv, ControlInv, HandlerInv, irq_req_ctrl
  <2> QED
    BY <1>1, <2>1 DEF TakeIrq
<1>2. CASE HandlerStep
  BY <1>2 DEF HandlerStep, ServeLine, DropRandom, KeepDisabled, LeaveHandler
<1>3. CASE UNCHANGED <<mie, mstatus, stall_regs, program>>
  BY <1>3 DEF program, stall_regs, handler, main, mult, mode_words
<1> QED
  BY <1>1, <1>2, <1>3, Edge

LEMMA SetupNext == ASSUME AllInv, Clock PROVE SetupInv'
PROOF
<1>1. SetupInv /\ ProcessInv /\ SelectInv' /\ TestInv
  BY SelectNext DEF AllInv, TestsInv, IInv, ControlInv
<1>2. GeneratorTypeOK /\ GeneratorTick /\ Sample(irq_lines_q) /\ irq_mode_q' = stall_reg_10
  BY Edge, Pipeline
<1>3. /\ Before5 => rnd' = "mode" /\ irq_mode_q' \in {"none", "SD"}
      /\ pc = "t5_served" => irq_mode_q' = "RND"
  BY <1>1, <1>2, RandomTick DEF SetupInv
<1>4. ASSUME Calling({"zero"})
      PROVE  /\ irq_mode_q' = "RND" /\ irq_lines_q' \in {{}, irq_rnd_lines'}
             /\ pc # "csrr" => RandomRising'
  BY <1>1, <1>2, <1>4, RandomTick, RandomRisingTick DEF SetupInv
<1>5. CASE isr = "none" /\ MainStep /\ UNCHANGED handler
  <2>1. Before5' => rnd' = "mode" /\ {stall_reg_10', irq_mode_q'} \subseteq {"none", "SD"}
    BY <1>1, <1>3, <1>5, Test5Step DEF SetupInv
  <2>2. pc' = "t5_served" => stall_reg_10' = "RND" /\ irq_mode_q' # "STD"
    BY <1>3, <1>5, Test5Step
  <2>3. ASSUME Calling({"zero"})'
        PROVE  /\ stall_reg_10' = "RND" /\ irq_mode_q' = "RND"
               /\ pc' # "csrr" => irq_lines_q' \in {{}, irq_rnd_lines'}
               /\ pc' = "csrw" => RandomRising'
    <3>1. CASE pc = "t5_served" /\ pc' = "csrr" /\ stall_reg_10' = stall_reg_10
      BY <1>1, <1>3, <3>1 DEF SetupInv
    <3>2. CASE /\ Calling({"zero"}) /\ stall_reg_10' = stall_reg_10
               /\ <<pc, pc'>> \in {<<"csrr", "modify">>, <<"modify", "csrw">>}
      BY <1>1, <1>4, <3>2 DEF SetupInv
    <3> QED
      BY <1>5, <2>3, <3>1, <3>2, Test5Step
  <2> QED
    BY <2>1, <2>2, <2>3 DEF SetupInv
<1>6. CASE ~(isr = "none" /\ MainStep /\ UNCHANGED handler)
  <2>1. UNCHANGED <<pc, after, test>>
    BY <1>6, OtherStep DEF main
  <2>2. CASE test # 5
    <3>1. Before5 /\ {stall_reg_10', irq_mode_q'} \subseteq {"none", "SD"}
      BY <1>1, <2>1, <2>2 DEF SelectInv, Before5
    <3>2. pc # "t5_served" /\ ~Calling({"zero"})
      BY <1>1, <2>2 DEF TestInv, Calling
    <3> QED
      BY <1>3, <2>1, <3>1, <3>2 DEF SetupInv, Calling
  <2>3. CASE test = 5
    <3>1. ASSUME Before5 \/ pc = "t5_served" \/ Calling({"zero"})
          PROVE  stall_reg_10' = stall_reg_10
      <4>1. isr = "none" /\ ~mstatus.MIE
        BY <1>1, <2>3, <3>1 DEF TestInv, Before5, Calling
      <4> QED
        BY <1>6, <4>1, OtherStep DEF irq_req_ctrl
    <3>2. Before5' = Before5 /\ Calling({"zero"})' = Calling({"zero"})
      BY <2>1 DEF Before5, Calling
    <3> QED
      BY <1>1, <1>3, <1>4, <2>1, <3>1, <3>2 DEF SetupInv
  <2> QED
    BY <2>2, <2>3
<1> QED
  BY <1>5, <1>6

\* A handler of test 5.
LEMMA RandomHandler ==
    ASSUME AllInv, Multiplying, isr # "none", HandlerStep
    PROVE  /\ <<isr, isr'>> \in
                 {<<"id", "mip">>, <<"mip", "clear">>, <<"clear", "write">>, <<"write", "count">>,
                  <<"count", "std">>, <<"std", "std_w">>, <<"std_w", "rnd">>, <<"rnd", "rnd_w">>,
                  <<"rnd_w", "mret">>, <<"mret", "none">>}
           /\ isr = "std_w" => stall_reg_10' = "STD"
           /\ isr = "rnd_w" => stall_reg_10' = "RND"
           /\ isr \notin {"std_w", "rnd_w"} => stall_reg_10' = stall_reg_10
           /\ irq_served' = irq_served + (IF isr = "count" THEN 1 ELSE 0)
PROOF
<1>1. test = 5 /\ HandlerInv /\ ModeInv /\ irq_served \in Nat
  BY DEF AllInv, IInv, ControlInv, TestInv, TypeOK, ProgramTypeOK, Multiplying, Calling
<1>2. /\ isr \in {"std_w", "rnd"} => irq_mode = "STD"
      /\ isr \notin {"std_w", "rnd"} => irq_mode = "RND"
  BY <1>1 DEF ModeInv, Multiplying, Calling
<1>3. isr \notin {"csrr", "and", "csrw"}
  BY <1>1 DEF HandlerInv
<1>4. CASE ServeLine
  BY <1>1, <1>2, <1>4 DEF ServeLine, HandlerGoto, AfterWrite, stall_regs, mode_words
<1>5. CASE DropRandom
  BY <1>1, <1>2, <1>5 DEF DropRandom, HandlerGoto, mode_words
<1>6. CASE LeaveHandler
  BY <1>1, <1>6 DEF LeaveHandler, HandlerGoto, stall_regs, mode_words
<1> QED
  BY <1>3, <1>4, <1>5, <1>6 DEF HandlerStep, KeepDisabled

LEMMA RandomNext == ASSUME AllInv, Clock PROVE RandomInv'
PROOF
<1>1. SetupInv /\ RandomInv /\ ProcessInv /\ TypeOK
  BY DEF AllInv, TestsInv, IInv
<1>2. GeneratorTypeOK /\ GeneratorTick /\ Sample(irq_lines_q) /\ irq_mode_q' = stall_reg_10
  BY Edge, Pipeline
\* While the mode is RND the word goes on its way.
<1>3. ASSUME irq_mode_q = "RND", stall_reg_10 = "RND", RandomRising
      PROVE  /\ irq_mode_q' = "RND" /\ RandomRising'
             /\ rnd = "up" => rnd' = "up"
  BY <1>1, <1>2, <1>3, RandomTick, RandomRisingTick DEF RandomRising
<1> SUFFICES ASSUME Multiplying' PROVE RandomInv'
  BY DEF RandomInv
<1>4. CASE isr = "none" /\ MainStep /\ UNCHANGED handler
  <2>1. stall_reg_10' = stall_reg_10 /\ (Multiplying \/ (Calling({"zero"}) /\ pc = "csrw"))
    BY <1>4, Test5Step
  <2>2. irq_mode_q = "RND" /\ stall_reg_10 = "RND" /\ RandomRising
    BY <1>1, <1>4, <2>1 DEF RandomInv, SetupInv
  <2> QED
    BY <1>3, <1>4, <2>1, <2>2 DEF RandomInv, handler
<1>5. CASE ~(isr = "none" /\ MainStep /\ UNCHANGED handler)
  <2>1. Multiplying
    BY <1>5, OtherStep DEF Multiplying, Calling, main
  <2>2. isr \in {"none", "id", "mip", "clear", "write", "count", "std", "std_w", "rnd", "rnd_w", "mret"}
    BY <2>1 DEF AllInv, IInv, TypeOK, ProgramTypeOK, HandlerAt, ControlInv, HandlerInv, TestInv,
       Multiplying, Calling
  <2>3. \/ isr' = isr /\ stall_reg_10' = stall_reg_10
        \/ /\ <<isr, isr'>> \in
                 {<<"id", "mip">>, <<"mip", "clear">>, <<"clear", "write">>, <<"write", "count">>,
                  <<"count", "std">>, <<"std", "std_w">>, <<"std_w", "rnd">>, <<"rnd", "rnd_w">>,
                  <<"rnd_w", "mret">>, <<"mret", "none">>}
           /\ isr = "std_w" => stall_reg_10' = "STD"
           /\ isr = "rnd_w" => stall_reg_10' = "RND"
           /\ isr \notin {"std_w", "rnd_w"} => stall_reg_10' = stall_reg_10
        \/ isr = "none" /\ isr' = "id" /\ stall_reg_10' = stall_reg_10 /\ irq_q # {}
    BY <1>5, <2>1, OtherStep, RandomHandler DEF TakeIrq, stall_regs, irq_req_ctrl, irq_local_qual
  <2>4. CASE isr \in {"none", "id", "mip", "clear", "write", "count", "std", "std_w"}
    <3>1. irq_mode_q = "RND" /\ stall_reg_10 = "RND" /\ RandomRising
      BY <1>1, <2>1, <2>4 DEF RandomInv
    <3>2. irq_mode_q' = "RND" /\ RandomRising' /\ (rnd = "up" => rnd' = "up")
      BY <1>3, <3>1
    <3>3. isr # "none" => rnd = "up"
      BY <1>1, <2>1, <2>4 DEF RandomInv
    <3>4. irq_q # {} => rnd = "up"
      BY <1>1, <3>1 DEF RandomRising, ProcessInv
    <3> QED
      BY <2>3, <2>4, <3>1, <3>2, <3>3, <3>4 DEF RandomInv
  <2>5. CASE isr = "rnd"
    <3>1. stall_reg_10 = "STD" /\ (rnd = "up" \/ (rnd = "mode" /\ irq_mode_q = "STD"))
      BY <1>1, <2>1, <2>5 DEF RandomInv
    <3>2. rnd' = "mode" /\ irq_mode_q' = "STD"
      BY <1>1, <1>2, <3>1, RandomTick
    <3> QED
      BY <2>3, <2>5, <3>1, <3>2 DEF RandomInv
  <2>6. CASE isr = "rnd_w"
    <3>1. stall_reg_10 = "STD" /\ irq_mode_q = "STD" /\ rnd = "mode"
      BY <1>1, <2>1, <2>6 DEF RandomInv
    <3>2. rnd' = "mode" /\ irq_mode_q' = "STD" /\ irq_lines_q' = {}
      BY <1>1, <1>2, <3>1, RandomTick, Pipeline
    <3> QED
      BY <2>3, <2>6, <3>1, <3>2 DEF RandomInv
  <2>7. CASE isr = "mret"
    <3>1. stall_reg_10 = "RND" /\ stall_reg_10' = "RND" /\ isr' \in {"mret", "none"}
      BY <1>1, <2>1, <2>3, <2>7 DEF RandomInv
    <3>2. irq_mode_q' = "RND" /\ RandomRising'
      <4>1. CASE irq_mode_q = "STD" /\ rnd = "mode" /\ irq_lines_q = {}
        BY <1>2, <3>1, <4>1, Pipeline DEF RandomRising
      <4>2. CASE irq_mode_q = "RND" /\ RandomRising
        BY <1>3, <3>1, <4>2
      <4> QED
        BY <1>1, <2>1, <2>7, <4>1, <4>2 DEF RandomInv
    <3> QED
      BY <3>1, <3>2 DEF RandomInv
  <2> QED
    BY <2>2, <2>4, <2>5, <2>6, <2>7
<1> QED
  BY <1>4, <1>5

LEMMA LastNext == ASSUME AllInv, Clock PROVE LastInv'
PROOF
<1>1. LastInv /\ CallInv /\ TestInv /\ TestInv' /\ pc # "exit"
  BY Edge DEF AllInv, TestsInv, IInv, ControlInv
<1> SUFFICES ASSUME test' = 5, pc' \in {"report", "exit"} PROVE isr' = "none" /\ ~mstatus'.MIE
  BY DEF LastInv
<1>2. CASE isr = "none" /\ MainStep /\ UNCHANGED handler
  <2>1. CASE StoreMstatus
    <3>1. after = "report"
      BY <1>1, <2>1 DEF StoreMstatus, Goto, CallInv
    <3>2. ~mmstatus.MIE
      BY <1>1, <2>1, <3>1 DEF StoreMstatus, CallInv
    <3> QED
      BY <1>2, <2>1, <3>2 DEF StoreMstatus, WriteMstatus, handler
  <2>2. CASE Report
    BY <1>1, <1>2, <2>2 DEF Report, LastInv, TestInv, handler
  <2>3. CASE ~(StoreMstatus \/ Report)
    BY <1>1, <1>2, <2>3
    DEF MainStep, ReadMstatus, ModifyBit, Test1, Test2, Test3, RaiseLines, Loop, Wait, Check, Final,
        Test5, MatMult, Goto, Call, Return, TestInv, Calling
  <2> QED
    BY <2>1, <2>2, <2>3
<1>3. CASE ~(isr = "none" /\ MainStep /\ UNCHANGED handler)
  <2>1. isr = "none" /\ ~mstatus.MIE
    BY <1>1, <1>3, OtherStep DEF LastInv, main
  <2>2. UNCHANGED <<mie, mstatus, stall_regs, program>>
    BY <1>3, <2>1, Edge
    DEF irq_req_ctrl, HandlerStep, ServeLine, DropRandom, KeepDisabled, LeaveHandler
  <2> QED
    BY <2>1, <2>2 DEF program, handler
<1> QED
  BY <1>2, <1>3

\* Before the multiplication.
BeforeMult == test # 5 \/ pc \in {"test5", "t5_mode", "t5_served"} \/ Calling({"test5", "zero"})

LEMMA MultStep ==
    ASSUME AllInv, Clock, isr = "none", MainStep, UNCHANGED handler
    PROVE  /\ BeforeMult' => BeforeMult
           /\ MatMult \/ UNCHANGED mult
           /\ pc # "t5_served" => irq_served' = irq_served \/ pc' = "exit"
           /\ pc = "t5_served" => irq_served' = 0
PROOF
<1>1. TestInv /\ TestInv' /\ CallInv /\ pc # "exit"
  BY Edge DEF AllInv, IInv, ControlInv
<1>2. MatMult \/ UNCHANGED mult
  BY DEF MainStep, ReadMstatus, ModifyBit, StoreMstatus, Test1, Test2, Test3, RaiseLines, Loop, Wait,
     Check, Final, Test5, Report
<1>3. /\ pc # "t5_served" => irq_served' = irq_served \/ pc' = "exit"
      /\ pc = "t5_served" => irq_served' = 0
  BY DEF MainStep, ReadMstatus, ModifyBit, StoreMstatus, Test1, Test2, Test3, RaiseLines, Loop, Wait,
     Check, Final, Test5, MatMult, Report, Return, mode_words
<1>4. BeforeMult' => BeforeMult
  <2> SUFFICES ASSUME test = 5, ~BeforeMult, BeforeMult' PROVE FALSE
    BY DEF BeforeMult
  <2>1. pc \in {"zero", "mult", "report"} \/ Calling({"report"})
    BY <1>1 DEF TestInv, BeforeMult, Calling
  <2>2. ReadMstatus \/ ModifyBit \/ StoreMstatus \/ MatMult \/ Report
    BY <2>1 DEF Calling, MainStep, Test1, Test2, Test3, RaiseLines, Loop, Wait, Check, Final, Test5
  <2>3. CASE ReadMstatus \/ ModifyBit \/ StoreMstatus
    BY <2>1, <2>3 DEF ReadMstatus, ModifyBit, StoreMstatus, Goto, Calling, BeforeMult
  <2>4. CASE MatMult \/ Report
    BY <2>4 DEF MatMult, Report, Goto, Call, Return, Calling, BeforeMult
  <2> QED
    BY <2>2, <2>3, <2>4
<1> QED
  BY <1>2, <1>3, <1>4

\* A word that is up stays up until a handler drops it, and one that is counted
\* is dropped before the next one is raised.
LEMMA WordNext ==
    ASSUME AllInv, Clock
    PROVE  /\ rnd = "up" /\ isr # "rnd" => rnd' = "up"
           /\ isr \in {"count", "std", "std_w"} => rnd = "up"
           /\ isr \in {"rnd", "rnd_w"} => rnd' = "mode" /\ rnd # "wait"
           /\ isr = "rnd_w" => rnd = "mode"
PROOF
<1>1. /\ SelectInv /\ SetupInv /\ RandomInv /\ LastInv /\ ProcessInv
      /\ TestInv /\ HandlerInv /\ pc # "exit" /\ TypeOK
  BY Edge DEF AllInv, TestsInv, IInv, ControlInv
<1>2. GeneratorTypeOK /\ GeneratorTick /\ Sample(irq_lines_q)
  BY Edge
<1>3. CASE Before5
  <2>1. rnd = "mode"
    BY <1>1, <1>3 DEF SetupInv
  <2>2. isr \notin {"count", "std", "std_w", "rnd", "rnd_w"}
    BY <1>1, <1>3 DEF Before5, TestInv, HandlerInv, Calling
  <2> QED
    BY <2>1, <2>2
<1>4. CASE pc = "t5_served" \/ Calling({"zero"})
  <2>1. "STD" \notin {irq_mode_q, stall_reg_10} /\ isr = "none"
    BY <1>1, <1>4 DEF SetupInv, TestInv, Calling
  <2> QED
    BY <1>1, <1>2, <2>1, RandomTick
<1>5. CASE Multiplying
  <2>1. CASE isr = "rnd"
    BY <1>1, <1>2, <1>5, <2>1, RandomTick DEF RandomInv
  <2>2. CASE isr = "rnd_w"
    BY <1>1, <1>2, <1>5, <2>2, RandomTick DEF RandomInv
  <2>3. CASE isr = "mret"
    BY <1>1, <1>2, <1>5, <2>3, RandomTick DEF RandomInv
  <2>4. CASE isr \notin {"rnd", "rnd_w", "mret"}
    <3>1. isr \in {"none", "id", "mip", "clear", "write", "count", "std", "std_w"}
      BY <1>1, <1>5, <2>4 DEF TypeOK, ProgramTypeOK, HandlerAt, HandlerInv, TestInv, Multiplying,
         Calling
    <3> QED
      BY <1>1, <1>2, <1>5, <3>1, RandomTick DEF RandomInv
  <2> QED
    BY <2>1, <2>2, <2>3, <2>4
<1> QED
  BY <1>1, <1>3, <1>4, <1>5 DEF TestInv, Before5, Multiplying, Calling

LEMMA CountNext == ASSUME AllInv, Clock PROVE CountInv'
PROOF
<1> DEFINE Waiting == IF rnd = "up" /\ isr \notin {"std", "std_w", "rnd"} THEN 1 ELSE 0
<1>1. /\ raised = irq_served + Waiting /\ (BeforeMult => irq_served = 0)
      /\ irq_served \in Nat /\ raised \in Nat /\ pc # "exit" /\ TestInv
  BY Edge DEF AllInv, TestsInv, CountInv, BeforeMult, IInv, TypeOK, ProgramTypeOK, ControlInv
<1>2. raised' = raised + (IF rnd' = "up" /\ rnd # "up" THEN 1 ELSE 0)
  BY <1>1 DEF Clock
<1>3. CASE isr = "none" /\ MainStep /\ UNCHANGED handler
  <2>1. BeforeMult' => irq_served' = 0
    <3> SUFFICES ASSUME BeforeMult' PROVE irq_served' = 0
      OBVIOUS
    <3>1. CASE pc' = "exit"
      BY <1>1, <1>3, <3>1
      DEF MainStep, ReadMstatus, ModifyBit, StoreMstatus, CallInv, Test1, Test2, Test3, RaiseLines,
          Loop, Wait, Check, Final, Test5, MatMult, Report, Return, Goto, Call, TestInv, Calling,
          BeforeMult, mode_words, AllInv, IInv, ControlInv
    <3> QED
      BY <1>1, <1>3, <3>1, MultStep
  <2>2. pc' # "exit" => irq_served' = irq_served
    <3>1. pc = "t5_served" => irq_served = 0
      BY <1>1 DEF BeforeMult
    <3> QED
      BY <1>3, <3>1, MultStep
  <2>3. pc' # "exit" => raised' = irq_served' + Waiting'
    <3>1. Waiting = (IF rnd = "up" THEN 1 ELSE 0) /\ Waiting' = (IF rnd' = "up" THEN 1 ELSE 0)
      BY <1>3 DEF handler
    <3> QED
      BY <1>1, <1>2, <1>3, <2>2, <3>1, WordNext
  <2> QED
    BY <2>1, <2>3 DEF CountInv, BeforeMult, Calling
<1>4. CASE ~(isr = "none" /\ MainStep /\ UNCHANGED handler)
  <2>1. UNCHANGED main /\ BeforeMult' = BeforeMult /\ TypeOK
    BY <1>4, OtherStep DEF main, BeforeMult, Calling, AllInv, IInv
  <2>2. CASE BeforeMult
    <3>1. irq_served' = irq_served
      BY <1>1, <1>4, <2>2, OtherStep
      DEF BeforeMult, TestInv, HandlerStep, ServeLine, DropRandom, KeepDisabled, LeaveHandler,
          TakeIrq, mode_words, AllInv, IInv, ControlInv, HandlerInv, Calling
    <3>2. isr \notin {"std", "std_w", "rnd"} /\ isr' \notin {"std", "std_w", "rnd"}
      BY <2>1, <2>2, Edge DEF main, BeforeMult, TestInv, AllInv, IInv, ControlInv, HandlerInv, Calling
    <3> QED
      BY <1>1, <1>2, <2>1, <2>2, <3>1, <3>2, WordNext DEF CountInv, BeforeMult, Calling
  <2>3. CASE ~BeforeMult
    <3>1. Multiplying
      BY <1>1, <2>3 DEF TestInv, BeforeMult, Multiplying, Calling
    <3>2. \/ isr' = isr /\ irq_served' = irq_served
          \/ isr = "none" /\ isr' = "id" /\ irq_served' = irq_served
          \/ /\ <<isr, isr'>> \in
                   {<<"id", "mip">>, <<"mip", "clear">>, <<"clear", "write">>, <<"write", "count">>,
                    <<"count", "std">>, <<"std", "std_w">>, <<"std_w", "rnd">>, <<"rnd", "rnd_w">>,
                    <<"rnd_w", "mret">>, <<"mret", "none">>}
             /\ irq_served' = irq_served + (IF isr = "count" THEN 1 ELSE 0)
      BY <1>4, <3>1, OtherStep, RandomHandler DEF TakeIrq, mode_words
    <3>3. raised' = irq_served' + Waiting'
      <4>1. CASE isr = "count" /\ isr' = "std"
        BY <1>1, <1>2, <3>2, <4>1, WordNext
      <4>2. CASE isr \in {"std", "std_w"} /\ isr' \in {"std", "std_w", "rnd"}
        BY <1>1, <1>2, <3>2, <4>2, WordNext
      <4>3. CASE isr \in {"rnd", "rnd_w"} /\ isr' \in {"rnd", "rnd_w", "mret"}
        BY <1>1, <1>2, <3>2, <4>3, WordNext
      <4>4. CASE /\ isr \notin {"std", "std_w", "rnd", "rnd_w"}
                 /\ isr' \notin {"std", "std_w", "rnd"} /\ irq_served' = irq_served
        BY <1>1, <1>2, <4>4, WordNext
      <4> QED
        BY <1>1, <3>2, <4>1, <4>2, <4>3, <4>4
    <3> QED
      BY <2>1, <2>3, <3>3 DEF CountInv, BeforeMult, Calling
  <2> QED
    BY <2>2, <2>3
<1> QED
  BY <1>3, <1>4

-----------------------------------------------------------------------------
(* The product.                                                            *)

\* One step of mat_mult takes the sum, or the loops, one place further.
LEMMA MatMultStep ==
    ASSUME AllInv, MatMult
    PROVE  ProductInv'
PROOF
<1>0. PICK i \in Dim, j \in Dim, k \in Dim : at = [i |-> i, j |-> j, k |-> k]
  BY DEF AllInv, IInv, TypeOK, ProgramTypeOK
<1>1. /\ ProductInv /\ res \in Matrix
      /\ i \in Dim /\ j \in Dim /\ k \in Dim /\ at.i = i /\ at.j = j /\ at.k = k
      /\ test = 5 /\ pc \in {"zero", "mult"}
  BY <1>0 DEF AllInv, TestsInv, IInv, ControlInv, TestInv, TypeOK, ProgramTypeOK, MatMult
<1>2. /\ \A x \in Dim : x \in Nat /\ 1 <= x /\ x <= MAT_DIM
      /\ MAT_DIM \in Nat \ {0}
  BY TestAssumption DEF Dim
<1>3. /\ PartialSum[i][j][0] = 0
      /\ PartialSum[i][j][k] = PartialSum[i][j][k - 1] + mat1[i][k] * mat2[k][j]
  BY <1>1, TestAssumption
\* Only the entry [i][j] changes.
<1>4. ASSUME NEW v, res' = [res EXCEPT ![i][j] = v]
      PROVE  /\ res'[i][j] = v
             /\ \A x, y \in Dim : ~(x = i /\ y = j) => res'[x][y] = res[x][y]
  BY <1>1, <1>4 DEF Matrix
<1>5. \A x, y \in Dim : x < i \/ (x = i /\ y < j) => Computed(x, y)
  BY <1>1 DEF ProductInv
<1>6. CASE pc = "zero"
  <2>1. /\ res' = [res EXCEPT ![i][j] = 0] /\ pc' = "mult" /\ test' = test /\ after' = after
        /\ at'.i = i /\ at'.j = j /\ at'.k = 1
    <3>1. at' = [at EXCEPT !.k = 1] /\ res' = [res EXCEPT ![i][j] = 0] /\ Goto("mult")
      BY <1>1, <1>6 DEF MatMult
    <3> QED
      BY <1>0, <1>1, <3>1 DEF Goto
  <2>2. res'[i][j] = PartialSum[i][j][at'.k - 1]
    <3>1. res'[i][j] = 0
      BY <1>4, <2>1
    <3>2. at'.k - 1 = 0
      BY <2>1
    <3> QED
      BY <1>3, <3>1, <3>2
  <2>3. ASSUME NEW x \in Dim, NEW y \in Dim, x < i \/ (x = i /\ y < j)
        PROVE  Computed(x, y)'
    BY <1>1, <1>2, <1>4, <1>5, <2>1, <2>3 DEF Computed
  <2> QED
    BY <1>1, <2>1, <2>2, <2>3 DEF ProductInv, Calling
<1>7. CASE pc = "mult"
  <2>1. /\ res' = [res EXCEPT ![i][j] = res[i][j] + mat1[i][k] * mat2[k][j]] /\ test' = test
        /\ res[i][j] = PartialSum[i][j][k - 1]
    BY <1>1, <1>7 DEF MatMult, ProductInv, Goto, Call
  <2>2. res'[i][j] = PartialSum[i][j][k]
    BY <1>3, <1>4, <2>1
  <2>3. ASSUME NEW x \in Dim, NEW y \in Dim, x < i \/ (x = i /\ y < j)
        PROVE  Computed(x, y)'
    BY <1>1, <1>2, <1>4, <1>5, <2>1, <2>3 DEF Computed
  <2>4. k = MAT_DIM => Computed(i, j)'
    BY <2>2 DEF Computed
  <2>5. CASE k < MAT_DIM
    <3>1. at'.i = i /\ at'.j = j /\ at'.k = k + 1 /\ pc' = "mult" /\ after' = after
      <4>1. at' = [at EXCEPT !.k = k + 1] /\ Goto("mult")
        BY <1>1, <1>2, <1>7, <2>5 DEF MatMult
      <4> QED
        BY <1>0, <4>1 DEF Goto
    <3>2. at'.k - 1 = k
      BY <1>1, <1>2, <3>1
    <3> QED
      BY <1>1, <2>1, <2>2, <2>3, <3>1, <3>2 DEF ProductInv, Calling
  <2>6. CASE k = MAT_DIM /\ j < MAT_DIM
    <3>1. at'.i = i /\ at'.j = j + 1 /\ pc' = "zero" /\ after' = after
      <4>1. at' = [at EXCEPT !.j = j + 1] /\ Goto("zero")
        BY <1>1, <1>2, <1>7, <2>6 DEF MatMult
      <4> QED
        BY <1>0, <4>1 DEF Goto
    <3>2. ASSUME NEW x \in Dim, NEW y \in Dim, x < i \/ (x = i /\ y < j + 1)
          PROVE  Computed(x, y)'
      BY <1>1, <1>2, <2>3, <2>4, <2>6, <3>2
    <3> QED
      BY <1>1, <2>1, <3>1, <3>2 DEF ProductInv, Calling
  <2>7. CASE k = MAT_DIM /\ j = MAT_DIM /\ i < MAT_DIM
    <3>1. at'.i = i + 1 /\ at'.j = 1 /\ pc' = "zero" /\ after' = after
      <4>1. at' = [at EXCEPT !.i = i + 1, !.j = 1] /\ Goto("zero")
        BY <1>1, <1>2, <1>7, <2>7 DEF MatMult
      <4> QED
        BY <1>0, <4>1 DEF Goto
    <3>2. ASSUME NEW x \in Dim, NEW y \in Dim, x < i + 1 \/ (x = i + 1 /\ y < 1)
          PROVE  Computed(x, y)'
      BY <1>1, <1>2, <2>3, <2>4, <2>7, <3>2
    <3> QED
      BY <1>1, <2>1, <3>1, <3>2 DEF ProductInv, Calling
  <2>8. CASE k = MAT_DIM /\ j = MAT_DIM /\ i = MAT_DIM
    <3>1. pc' = "csrr" /\ after' = "report"
      BY <1>1, <1>2, <1>7, <2>8 DEF MatMult, Call
    <3>2. ASSUME NEW x \in Dim, NEW y \in Dim PROVE Computed(x, y)'
      BY <1>1, <1>2, <2>3, <2>4, <2>8, <3>2
    <3> QED
      BY <1>1, <2>1, <3>1, <3>2 DEF ProductInv, Calling
  <2> QED
    BY <1>1, <1>2, <2>5, <2>6, <2>7, <2>8
<1> QED
  BY <1>1, <1>6, <1>7

LEMMA ProductNext == ASSUME AllInv, Clock PROVE ProductInv'
PROOF
<1>1. ProductInv /\ TestInv /\ CallInv /\ pc # "exit"
  BY Edge DEF AllInv, TestsInv, IInv, ControlInv
<1>2. CASE isr = "none" /\ MainStep /\ UNCHANGED handler
  <2>1. CASE MatMult
    BY <2>1, MatMultStep
  <2>2. CASE ~MatMult
    <3>1. UNCHANGED mult /\ (BeforeMult' => BeforeMult)
      BY <1>2, <2>2, MultStep
    <3>2. pc' \in {"zero", "mult"} => pc' = "zero" /\ BeforeMult
      BY <1>1, <1>2, <2>2
      DEF MainStep, ReadMstatus, ModifyBit, StoreMstatus, Test1, Test2, Test3, RaiseLines, Loop, Wait,
          Check, Final, Test5, Report, Goto, Call, Return, CallInv, Calling, BeforeMult
    <3>3. pc' = "report" \/ Calling({"report"})' => Calling({"report"})
      BY <1>1, <1>2, <2>2
      DEF MainStep, ReadMstatus, ModifyBit, StoreMstatus, Test1, Test2, Test3, RaiseLines, Loop, Wait,
          Check, Final, Test5, Report, Goto, Call, Return, CallInv, Calling
    <3>4. \A x, y \in Dim : Computed(x, y)' = Computed(x, y)
      BY <3>1 DEF Computed, mult
    <3>5. BeforeMult => at.i = 1 /\ at.j = 1
      BY <1>1 DEF ProductInv, BeforeMult
    <3>6. \A x \in Dim : ~(x < 1)
      BY DEF Dim
    <3>7. at' = at
      BY <3>1 DEF mult
    <3>8. ProductInv'
      <4>1. BeforeMult' => at'.i = 1 /\ at'.j = 1
        BY <3>1, <3>5, <3>7
      <4>2. pc' \in {"zero", "mult"} =>
              \A x, y \in Dim : x < at'.i \/ (x = at'.i /\ y < at'.j) => Computed(x, y)'
        BY <3>2, <3>5, <3>6, <3>7
      <4>3. pc' = "report" \/ Calling({"report"})' => \A x, y \in Dim : Computed(x, y)'
        BY <1>1, <3>3, <3>4 DEF ProductInv
      <4> QED
        BY <3>2, <4>1, <4>2, <4>3 DEF ProductInv, BeforeMult
    <3> QED
      BY <3>8
  <2> QED
    BY <2>1, <2>2
<1>3. CASE ~(isr = "none" /\ MainStep /\ UNCHANGED handler)
  <2>1. UNCHANGED <<main, mult>>
    BY <1>3, OtherStep
  <2> QED
    BY <1>1, <2>1 DEF main, mult, ProductInv, Calling, Computed
<1> QED
  BY <1>2, <1>3

LEMMA ResultNext == ASSUME AllInv, Clock PROVE ResultInv'
PROOF
<1>1. /\ ProductInv /\ result = "none" /\ res \in Matrix
      /\ result' \in {"none", "SUCCESS", "ERR_CODE_TEST_2", "ERR_CODE_TEST_3", "ERR_CODE_TEST_5"}
  BY Edge DEF AllInv, TestsInv, IInv, TypeOK, ProgramTypeOK
<1>2. result' = "ERR_CODE_TEST_5" => pc = "report" /\ res # res_expected
  BY <1>1, Edge
  DEF MainStep, ReadMstatus, ModifyBit, StoreMstatus, Test1, Test2, Test3, RaiseLines, Loop, Wait,
      Check, Final, Test5, MatMult, Report, Goto, Call, Return, TakeIrq, HandlerStep, ServeLine,
      DropRandom, KeepDisabled, LeaveHandler, program, main
<1>3. pc = "report" => res = res_expected
  <2> SUFFICES ASSUME pc = "report" PROVE res = res_expected
    OBVIOUS
  <2>1. \A i, j \in Dim : res[i][j] = PartialSum[i][j][MAT_DIM]
    BY <1>1 DEF ProductInv, Computed
  <2>2. res \in [Dim -> [Dim -> Nat]]
    BY <1>1 DEF Matrix
  <2>3. ASSUME NEW i \in Dim PROVE res[i] = [j \in Dim |-> PartialSum[i][j][MAT_DIM]]
    BY <2>1, <2>2, <2>3
  <2> QED
    BY <2>2, <2>3 DEF res_expected
<1> QED
  BY <1>1, <1>2, <1>3, ServeNext DEF ResultInv

-----------------------------------------------------------------------------
(* The theorems.                                                           *)

LEMMA InitTests == Init => TestsInv
PROOF
<1> SUFFICES ASSUME Init PROVE TestsInv
  OBVIOUS
<1> USE DEF Init, IntInit, GeneratorInit
<1>1. SelectInv /\ ProcessInv /\ SetupInv /\ RandomInv /\ LastInv /\ CountInv /\ ResultInv
  BY DEF SelectInv, ProcessInv, SetupInv, Before5, RandomInv, Multiplying, LastInv, CountInv,
     ResultInv, Calling
<1>2. LinesInv
  BY DEF LinesInv, Rising, driven
<1>3. ServeInv
  BY DEF ServeInv, Calling
<1>4. ProductInv
  BY DEF ProductInv, Calling
<1> QED
  BY <1>1, <1>2, <1>3, <1>4 DEF TestsInv

LEMMA StutterTests == ASSUME TestsInv, UNCHANGED vars PROVE TestsInv'
PROOF
<1> USE DEF TestsInv, vars, int, generator, stall_regs, processes, program, main, handler,
            test_words, irq_words, mode_words, mult, Calling
<1>1. SelectInv' /\ ProcessInv' /\ LastInv' /\ CountInv' /\ ResultInv'
  BY DEF SelectInv, ProcessInv, LastInv, CountInv, ResultInv
<1>2. LinesInv'
  BY DEF LinesInv, Rising, driven
<1>3. ServeInv'
  BY DEF ServeInv, WaitInv, Remaining, ToServe, FirstPending, Done, driven
<1>4. SetupInv' /\ RandomInv'
  BY DEF SetupInv, Before5, RandomInv, Multiplying, RandomRising
<1>5. ProductInv'
  BY DEF ProductInv, Computed
<1> QED
  BY <1>1, <1>2, <1>3, <1>4, <1>5

LEMMA AllInvariance == Spec => []AllInv
PROOF
<1>1. Init => AllInv
  BY InitType, InitControl, InitTests DEF AllInv, IInv
<1>2. AllInv /\ [Next]_vars => AllInv'
  <2>1. ASSUME AllInv, Clock PROVE AllInv'
    BY <2>1, Edge, SelectNext, LinesNext, ServeNext, ProcessNext, SetupNext, RandomNext, LastNext,
       CountNext, ProductNext, ResultNext DEF AllInv, TestsInv
  <2>2. ASSUME AllInv, UNCHANGED vars PROVE AllInv'
    BY <2>2, StutterInv, StutterTests DEF AllInv
  <2> QED
    BY <2>1, <2>2 DEF Next, Stop
<1> QED
  BY <1>1, <1>2, PTL DEF Spec

\* For all words and matrices of any size, and however the edges of the program
\* and of the lines interleave, main never returns an error code: interrupts come
\* in the order of IRQ_ID_PRIORITY, none is lost or served twice, and the product
\* is right in spite of the handlers.
THEOREM NoTestFails == Spec => []TestsPass
PROOF
<1>1. AllInv => TestsPass
  BY DEF AllInv, TestsInv, ResultInv, TestsPass
<1> QED
  BY <1>1, AllInvariance, PTL

\* The delay of the lines never makes the core take an interrupt whose line the
\* program has cleared already.
THEOREM NoStaleInterrupt == Spec => []NoStaleRequest
PROOF
<1>1. ASSUME AllInv PROVE NoStaleRequest
  <2> SUFFICES ASSUME irq_req_ctrl
               PROVE  irq_id_ctrl \in IF irq_mode = "RND" THEN irq_rnd_lines ELSE irq_pending32_std
    BY DEF NoStaleRequest
  <2>1. irq_id_ctrl \in irq_q
    BY <1>1, RequestedLine DEF AllInv, IInv, TypeOK, irq_local_qual
  <2>2. CASE test # 5
    <3>1. irq_mode # "RND"
      BY <1>1, <2>2 DEF AllInv, IInv, ControlInv, HandlerInv
    <3>2. irq_q = driven /\ stall_reg_14 = irq_pending32_std
      BY <1>1, <2>2, TakesTheLine
    <3> QED
      BY <2>1, <3>1, <3>2 DEF driven
  <2>3. CASE test = 5
    <3>1. /\ isr = "none" /\ TestInv /\ ModeInv /\ RandomInv /\ LastInv /\ mstatus.MIE
      BY <1>1 DEF AllInv, TestsInv, IInv, ControlInv, HandlerInv, irq_req_ctrl
    <3>2. Multiplying /\ irq_mode = "RND"
      BY <2>3, <3>1 DEF TestInv, ModeInv, LastInv, Multiplying, Calling
    <3>3. irq_q \in {{}, irq_rnd_lines}
      BY <3>1, <3>2 DEF RandomInv, RandomRising
    <3> QED
      BY <2>1, <3>2, <3>3
  <2> QED
    BY <2>2, <2>3
<1> QED
  BY <1>1, AllInvariance, PTL

\* Every random word is served by exactly one handler.
THEOREM EachWordServedOnce == Spec => []ServedOnce
PROOF
<1>1. ASSUME AllInv PROVE ServedOnce
  <2>1. irq_served \in Nat /\ raised \in Nat /\ CountInv
    BY <1>1 DEF AllInv, TestsInv, IInv, TypeOK, ProgramTypeOK
  <2> QED
    BY <2>1 DEF CountInv, ServedOnce
<1> QED
  BY <1>1, AllInvariance, PTL
=============================================================================
