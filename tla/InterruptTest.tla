---------------------------- MODULE InterruptTest ----------------------------
(***************************************************************************)
(* The interrupt test of the core, interrupt.c, on the core's interrupt    *)
(* controller and the generator of the bench.  A step is a clock edge; the *)
(* program does one access of shared state, or nothing, at an edge.  What  *)
(* the compiler puts between two accesses is left out: the program here is *)
(* at least as fast as the real one, which is the hard case, since a line  *)
(* takes edges to fall.                                                    *)
(***************************************************************************)
EXTENDS IntController, IrqGenerator

CONSTANTS
    TestWords,          \* the words random_num may build in test 3
    MAT_DIM, mat1, mat2,
    PartialSum,         \* of the product of mat1 and mat2, behind the table res_expected
    MaxStall            \* bound: edges between two steps of the program

VARIABLES
    pc, after, bitop,   \* main; the call of mstatus_enable or _disable
    test, n,            \* the test, and the loop over IRQ_ID_PRIORITY
    isr, vector,        \* the handler and the line it was entered for
    irq_id, irq_pending32_std, prev_irq_pending32_std, irq_to_test32_std,
    first_irq_pending32_std, ie_mask32_std, mmstatus, irq_mode, irq_served,
    res, at,            \* mat_mult: the result, [i, j, k]
    result,             \* what main returned
    stall, raised       \* idle edges; words raised by Random (for a property)

main == <<pc, after, bitop, test, n, result>>
handler == <<isr, vector>>
test_words == <<prev_irq_pending32_std, irq_to_test32_std, first_irq_pending32_std, ie_mask32_std>>
irq_words == <<irq_id, irq_pending32_std>>
mode_words == <<irq_mode, irq_served>>
mult == <<res, at>>
program == <<main, handler, test_words, irq_words, mode_words, mmstatus, mult>>
vars == <<int, generator, program, stall, raised>>

Dim == 1..MAT_DIM
Matrix == [Dim -> [Dim -> Nat]]

ASSUME TestAssumption ==
    /\ TestWords # {} /\ TestWords \subseteq SUBSET (0..31)
    /\ MAT_DIM \in Nat \ {0}
    /\ mat1 \in Matrix /\ mat2 \in Matrix
    /\ \A i, j \in Dim :
         /\ PartialSum[i][j] \in [0..MAT_DIM -> Nat]
         /\ PartialSum[i][j][0] = 0
         /\ \A k \in Dim : PartialSum[i][j][k] = PartialSum[i][j][k - 1] + mat1[i][k] * mat2[k][j]
    /\ MaxStall \in Nat

IRQ_NUM == 19
STD_IRQ_MASK == {3, 7, 11} \cup 16..31

IRQ_ID_PRIORITY ==
    <<31, 30, 29, 28, 27, 26, 25, 24, 23, 22, 21, 20, 19, 18, 17, 16, 11, 3, 7>>

\* The table the result is compared with: the product of mat1 and mat2.
res_expected == [i \in Dim |-> [j \in Dim |-> PartialSum[i][j][MAT_DIM]]]

MainAt == {"test1", "t1_mode", "csrr", "modify", "csrw", "test2", "raise", "loop", "wait", "check",
           "test3", "final", "test5", "t5_mode", "t5_served", "zero", "mult", "report", "exit"}
HandlerAt == {"none", "id", "mip", "clear", "write", "count", "std", "std_w", "rnd", "rnd_w",
              "csrr", "and", "csrw", "mret"}

ProgramTypeOK ==
    /\ pc \in MainAt /\ after \in MainAt /\ bitop \in {"enable", "disable"}
    /\ test \in 1..5 /\ n \in 1..IRQ_NUM + 1
    /\ isr \in HandlerAt /\ vector \in IRQ_MASK
    /\ irq_id \in {0} \cup IRQ_MASK
    /\ irq_pending32_std \in SUBSET (0..31) /\ prev_irq_pending32_std \in SUBSET (0..31)
    /\ irq_to_test32_std \in SUBSET STD_IRQ_MASK /\ first_irq_pending32_std \in SUBSET STD_IRQ_MASK
    /\ ie_mask32_std \in SUBSET (0..31)
    /\ mmstatus \in Status /\ irq_mode \in {"none", "STD", "RND"} /\ irq_served \in Nat
    /\ res \in Matrix /\ at \in [i : Dim, j : Dim, k : Dim]
    /\ result \in {"none", "SUCCESS", "ERR_CODE_TEST_2", "ERR_CODE_TEST_3", "ERR_CODE_TEST_5"}

TypeOK ==
    /\ IntTypeOK /\ GeneratorTypeOK /\ ProgramTypeOK
    /\ stall \in 0..MaxStall /\ raised \in Nat

Init ==
    /\ IntInit /\ GeneratorInit
    /\ pc = "test1" /\ after = "test1" /\ bitop = "disable" /\ test = 1 /\ n = 1
    /\ isr = "none" /\ vector = 3
    /\ irq_id = 0 /\ irq_pending32_std = {} /\ prev_irq_pending32_std = {}
    /\ irq_to_test32_std = {} /\ first_irq_pending32_std = {} /\ ie_mask32_std = {}
    /\ mmstatus = [MIE |-> FALSE, MPIE |-> FALSE] /\ irq_mode = "none" /\ irq_served = 0
    /\ res = [i \in Dim |-> [j \in Dim |-> 0]] /\ at = [i |-> 1, j |-> 1, k |-> 1]
    /\ result = "none" /\ stall = 0 /\ raised = 0

-----------------------------------------------------------------------------
(* Subroutines: mstatus_enable and mstatus_disable.                        *)

Goto(label) == pc' = label /\ UNCHANGED <<after, bitop, test, n, result>>

Call(op, label) == pc' = "csrr" /\ bitop' = op /\ after' = label

ReadMstatus ==
    /\ pc = "csrr" /\ mmstatus' = mstatus
    /\ Goto("modify")
    /\ UNCHANGED <<mie, mstatus, stall_regs, test_words, irq_words, mode_words, mult>>

ModifyBit ==
    /\ pc = "modify" /\ mmstatus' = [mmstatus EXCEPT !.MIE = (bitop = "enable")]
    /\ Goto("csrw")
    /\ UNCHANGED <<mie, mstatus, stall_regs, test_words, irq_words, mode_words, mult>>

StoreMstatus ==
    /\ pc = "csrw" /\ WriteMstatus(mmstatus)
    /\ Goto(after)
    /\ UNCHANGED <<stall_regs, test_words, irq_words, mode_words, mmstatus, mult>>

-----------------------------------------------------------------------------
(* Tests 1 to 3: lines defined by software.                                *)

\* Enables every line and selects the software-defined mode.
Test1 ==
    \/ /\ pc = "test1" /\ ie_mask32_std' = 0..31 /\ WriteMie(0..31)
       /\ Goto("t1_mode")
       /\ UNCHANGED <<stall_regs, prev_irq_pending32_std, irq_to_test32_std,
                      first_irq_pending32_std, irq_words, mode_words, mmstatus, mult>>
    \/ /\ pc = "t1_mode" /\ stall_reg_10' = "SD"
       /\ Call("disable", "test2") /\ UNCHANGED <<test, n, result>>
       /\ UNCHANGED <<mie, mstatus, stall_reg_14, test_words, irq_words, mode_words, mmstatus, mult>>

\* All lines at once.
Test2 ==
    /\ pc = "test2"
    /\ ie_mask32_std' = 0..31 /\ WriteMie(0..31)
    /\ irq_pending32_std' = 0..31
    /\ Call("disable", "raise") /\ test' = 2 /\ n' = 1 /\ UNCHANGED result
    /\ UNCHANGED <<stall_regs, prev_irq_pending32_std, irq_to_test32_std,
                   first_irq_pending32_std, irq_id, mode_words, mmstatus, mult>>

\* Random lines, some of them enabled.
Test3 ==
    /\ pc = "test3" /\ irq_id' = 0
    /\ \E ie, irqs \in TestWords :
         /\ ie_mask32_std' = ie \cap STD_IRQ_MASK /\ WriteMie(ie \cap STD_IRQ_MASK)
         /\ irq_pending32_std' = irqs \cap STD_IRQ_MASK
         /\ first_irq_pending32_std' = irqs \cap STD_IRQ_MASK
         /\ irq_to_test32_std' = irq_to_test32_std \cup (irqs \cap ie \cap STD_IRQ_MASK)
    /\ Call("disable", "raise") /\ test' = 3 /\ n' = 1 /\ UNCHANGED result
    /\ UNCHANGED <<stall_regs, prev_irq_pending32_std, mode_words, mmstatus, mult>>

RaiseLines ==
    /\ pc = "raise" /\ stall_reg_14' = irq_pending32_std
    /\ Goto("loop")
    /\ UNCHANGED <<mie, mstatus, stall_reg_10, test_words, irq_words, mode_words, mmstatus, mult>>

\* Lets one interrupt in for each line that is to be served, in the order of
\* the table.
Loop ==
    /\ pc = "loop"
    /\ \/ /\ n <= IRQ_NUM /\ (test = 2 \/ IRQ_ID_PRIORITY[n] \in irq_to_test32_std)
          /\ prev_irq_pending32_std' = irq_pending32_std
          /\ Call("enable", "wait") /\ UNCHANGED <<test, n, result>>
       \/ /\ n <= IRQ_NUM /\ test = 3 /\ IRQ_ID_PRIORITY[n] \notin irq_to_test32_std
          /\ n' = n + 1 /\ UNCHANGED <<pc, after, bitop, test, result, prev_irq_pending32_std>>
       \/ /\ n > IRQ_NUM
          /\ Goto(IF test = 2 THEN "test3" ELSE "final") /\ UNCHANGED prev_irq_pending32_std
    /\ UNCHANGED <<mie, mstatus, stall_regs, irq_to_test32_std, first_irq_pending32_std,
                   ie_mask32_std, irq_words, mode_words, mmstatus, mult>>

Wait ==
    /\ pc = "wait"
    /\ Goto(IF prev_irq_pending32_std = irq_pending32_std THEN "wait" ELSE "check")
    /\ UNCHANGED <<mie, mstatus, stall_regs, test_words, irq_words, mode_words, mmstatus, mult>>

Return(code) == pc' = "exit" /\ result' = code

Check ==
    /\ pc = "check"
    /\ IF IRQ_ID_PRIORITY[n] = irq_id
       THEN pc' = "loop" /\ n' = n + 1 /\ UNCHANGED <<after, bitop, test, result>>
       ELSE /\ Return(IF test = 2 THEN "ERR_CODE_TEST_2" ELSE "ERR_CODE_TEST_3")
            /\ UNCHANGED <<after, bitop, test, n>>
    /\ UNCHANGED <<mie, mstatus, stall_regs, test_words, irq_words, mode_words, mmstatus, mult>>

\* Every line that was not enabled is still pending, and no other one.
Final ==
    /\ pc = "final"
    /\ IF irq_pending32_std = first_irq_pending32_std \ ie_mask32_std
       THEN Call("disable", "test5") /\ test' = 5 /\ UNCHANGED <<n, result>>
       ELSE Return("ERR_CODE_TEST_3") /\ UNCHANGED <<after, bitop, test, n>>
    /\ UNCHANGED <<mie, mstatus, stall_regs, test_words, irq_words, mode_words, mmstatus, mult>>

-----------------------------------------------------------------------------
(* Test 5: random lines during a matrix multiplication.                    *)

Test5 ==
    \/ /\ pc = "test5" /\ ie_mask32_std' = 0..31 /\ WriteMie(0..31)
       /\ irq_mode' = "RND" /\ Goto("t5_mode")
       /\ UNCHANGED <<stall_regs, prev_irq_pending32_std, irq_to_test32_std,
                      first_irq_pending32_std, irq_words, irq_served, mmstatus, mult>>
    \/ /\ pc = "t5_mode" /\ stall_reg_10' = irq_mode
       /\ Goto("t5_served")
       /\ UNCHANGED <<mie, mstatus, stall_reg_14, test_words, irq_words, mode_words, mmstatus, mult>>
    \/ /\ pc = "t5_served" /\ irq_served' = 0
       /\ Call("enable", "zero") /\ UNCHANGED <<test, n, result>>
       /\ UNCHANGED <<mie, mstatus, stall_regs, test_words, irq_words, irq_mode, mmstatus, mult>>

MatMult ==
    /\ \/ /\ pc = "zero"
          /\ res' = [res EXCEPT ![at.i][at.j] = 0] /\ at' = [at EXCEPT !.k = 1] /\ Goto("mult")
       \/ /\ pc = "mult"
          /\ res' = [res EXCEPT ![at.i][at.j] = @ + mat1[at.i][at.k] * mat2[at.k][at.j]]
          /\ \/ at.k < MAT_DIM /\ at' = [at EXCEPT !.k = @ + 1] /\ Goto("mult")
             \/ at.k = MAT_DIM /\ at.j < MAT_DIM /\ at' = [at EXCEPT !.j = @ + 1] /\ Goto("zero")
             \/ /\ at.k = MAT_DIM /\ at.j = MAT_DIM /\ at.i < MAT_DIM
                /\ at' = [at EXCEPT !.i = @ + 1, !.j = 1] /\ Goto("zero")
             \/ /\ at.k = MAT_DIM /\ at.j = MAT_DIM /\ at.i = MAT_DIM
                /\ UNCHANGED <<at, test, n, result>> /\ Call("disable", "report")
    /\ UNCHANGED <<mie, mstatus, stall_regs, test_words, irq_words, mode_words, mmstatus>>

Report ==
    /\ pc = "report" /\ irq_served' = 0
    /\ Return(IF res = res_expected THEN "SUCCESS" ELSE "ERR_CODE_TEST_5")
    /\ UNCHANGED <<mie, mstatus, stall_regs, after, bitop, test, n, test_words, irq_words,
                   irq_mode, mmstatus, mult>>

MainStep ==
    \/ ReadMstatus \/ ModifyBit \/ StoreMstatus
    \/ Test1 \/ Test2 \/ Test3 \/ RaiseLines \/ Loop \/ Wait \/ Check \/ Final
    \/ Test5 \/ MatMult \/ Report

-----------------------------------------------------------------------------
(* The handlers: FAST_IRQ_GENERIC for the line of the vector.  They save   *)
(* what they use, so that main's registers are not in the model.           *)

\* Enters the handler of the line the core asks for, between two steps of main.
TakeIrq ==
    /\ irq_req_ctrl
    /\ Enter /\ isr' = "id" /\ vector' = irq_id_ctrl
    /\ UNCHANGED <<stall_regs, main, test_words, irq_words, mode_words, mmstatus, mult>>

HandlerGoto(label) == isr' = label /\ UNCHANGED vector

\* Seeded bug: the bit is not cleared.
Served_Kept(word) == word

Served(word) == word \ {irq_id}

\* Seeded bug: the lines are written before the bit is cleared.
LinesLeft_Early == irq_pending32_std \cup {irq_id}

LinesLeft == irq_pending32_std

\* Seeded bug: the second test of irq_mode is left out.
AfterWrite_Std == "csrr"

AfterWrite == IF irq_mode = "RND" THEN "count" ELSE "csrr"

\* irq_id, the pending word and the write of the lines.
ServeLine ==
    /\ \/ /\ isr = "id" /\ irq_id' = vector
          /\ HandlerGoto(IF irq_mode = "RND" THEN "mip" ELSE "clear")
          /\ UNCHANGED <<irq_pending32_std, stall_regs>>
       \/ /\ isr = "mip" /\ irq_pending32_std' = irq_q
          /\ HandlerGoto("clear") /\ UNCHANGED <<irq_id, stall_regs>>
       \/ /\ isr = "clear" /\ irq_pending32_std' = Served(irq_pending32_std)
          /\ HandlerGoto("write") /\ UNCHANGED <<irq_id, stall_regs>>
       \/ /\ isr = "write" /\ stall_reg_14' = LinesLeft
          /\ HandlerGoto(AfterWrite)
          /\ UNCHANGED <<irq_words, stall_reg_10>>
    /\ UNCHANGED <<mie, mstatus, main, test_words, mode_words, mmstatus, mult>>

\* Seeded bug: the mode is written, but never another one.
IRQ_MODE_STD_Rnd == "RND"

IRQ_MODE_STD == "STD"

\* Random lines: the generator drops them in mode STANDARD.
DropRandom ==
    /\ \/ isr = "count" /\ irq_served' = irq_served + 1 /\ HandlerGoto("std")
          /\ UNCHANGED <<irq_mode, stall_reg_10>>
       \/ isr = "std" /\ irq_mode' = IRQ_MODE_STD /\ HandlerGoto("std_w")
          /\ UNCHANGED <<irq_served, stall_reg_10>>
       \/ isr = "std_w" /\ stall_reg_10' = irq_mode /\ HandlerGoto("rnd") /\ UNCHANGED mode_words
       \/ isr = "rnd" /\ irq_mode' = "RND" /\ HandlerGoto("rnd_w")
          /\ UNCHANGED <<irq_served, stall_reg_10>>
       \/ isr = "rnd_w" /\ stall_reg_10' = irq_mode /\ HandlerGoto("mret") /\ UNCHANGED mode_words
    /\ UNCHANGED <<mie, mstatus, stall_reg_14, main, test_words, irq_words, mmstatus, mult>>

\* Seeded bug: bit 3, which is 0 in a handler anyway.
ClearSaved_WrongBit(status) == [status EXCEPT !.MIE = FALSE]

\* Bit 7.
ClearSaved(status) == [status EXCEPT !.MPIE = FALSE]

\* Lines of software: clears the saved enable, so that mret leaves interrupts off.
KeepDisabled ==
    /\ \/ isr = "csrr" /\ mmstatus' = mstatus /\ HandlerGoto("and") /\ UNCHANGED mstatus
       \/ isr = "and" /\ mmstatus' = ClearSaved(mmstatus) /\ HandlerGoto("csrw")
          /\ UNCHANGED mstatus
       \/ isr = "csrw" /\ mstatus' = mmstatus /\ HandlerGoto("mret") /\ UNCHANGED mmstatus
    /\ UNCHANGED <<mie, stall_regs, main, test_words, irq_words, mode_words, mult>>

LeaveHandler ==
    /\ isr = "mret" /\ Mret /\ HandlerGoto("none")
    /\ UNCHANGED <<stall_regs, main, test_words, irq_words, mode_words, mmstatus, mult>>

HandlerStep == ServeLine \/ DropRandom \/ KeepDisabled \/ LeaveHandler

-----------------------------------------------------------------------------

\* A pending interrupt is taken before main's or a handler's next step.
CpuStep ==
    \/ TakeIrq
    \/ ~irq_req_ctrl /\ isr = "none" /\ MainStep /\ UNCHANGED handler
    \/ ~irq_req_ctrl /\ HandlerStep

Clock ==
    /\ result = "none"
    /\ Sample(irq_lines_q)
    /\ \/ CpuStep /\ stall' = 0
       \/ stall < MaxStall /\ stall' = stall + 1
          /\ UNCHANGED <<mie, mstatus, stall_regs, program>>
    /\ GeneratorTick
    /\ raised' = IF rnd' = "up" /\ rnd # "up" THEN raised + 1 ELSE raised

\* $finish
Stop == result # "none" /\ UNCHANGED vars

Next == Clock \/ Stop

\* The clock goes on until the program returns.
Spec == Init /\ [][Next]_vars /\ WF_vars(Clock)

-----------------------------------------------------------------------------

\* No test fails: with the controller's priorities, the delay of the lines and
\* the masks, every interrupt comes in the order of IRQ_ID_PRIORITY and the
\* pending word and the product come out right.
TestsPass == result \in {"none", "SUCCESS"}

\* Whatever interrupt the core would take now is one its generator still drives:
\* no handler is entered a second time for a line it has already cleared.
NoStaleRequest ==
    irq_req_ctrl => irq_id_ctrl \in
        IF irq_mode = "RND" THEN irq_rnd_lines ELSE irq_pending32_std

\* Tests 2 and 3 count on one handler for each time they enable interrupts:
\* from the change of the pending word on, until main has seen it, nothing can
\* be taken once the handler has returned.
OneHandlerPerEnable ==
    /\ pc \in {"wait", "check"} /\ prev_irq_pending32_std # irq_pending32_std
    /\ isr = "none"
    => ~mstatus.MIE

\* mmstatus is one global for main and the handlers: no handler writes it
\* between main's csrr and csrw of mstatus.
MmstatusNotShared ==
    isr \in {"csrr", "and", "csrw"} => pc \notin {"modify", "csrw"}

\* Test 5 prints irq_served: each random word is served once, and one that is up
\* is the only one not counted yet.
ServedOnce ==
    irq_mode = "RND" /\ isr = "none" /\ pc # "exit"
    => irq_served = raised - (IF rnd = "up" THEN 1 ELSE 0)

\* Where main is when it may be interrupted, and what a handler may rely on.
\* Outside test 5 interrupts are enabled only while main waits for one, which
\* finds the pending word as main sampled it; a handler is never interrupted
\* itself, and in tests 2 and 3 it returns with interrupts off.
HandlerInv ==
    /\ isr # "none" => ~mstatus.MIE
    /\ test # 5 /\ mstatus.MIE => pc = "wait" /\ prev_irq_pending32_std = irq_pending32_std
    /\ test # 5 /\ isr # "none" => pc = "wait"
    /\ test # 5 /\ isr = "mret" => ~mstatus.MPIE
    /\ test # 5 => irq_mode # "RND"
    /\ isr \in {"mip", "count", "std", "std_w", "rnd", "rnd_w"} <=>
         test = 5 /\ isr \notin {"none", "id", "clear", "write", "mret"}

\* main returns: no wait for an interrupt is for ever.
Ends == <>(result # "none")
=============================================================================
