---------------------------- MODULE IrqGenerator -----------------------------
(***************************************************************************)
(* The interrupt generator of the core's test bench                        *)
(* (cv32e40p_random_interrupt_generator.sv) with the two registers of      *)
(* mm_ram.sv a program drives it by.  Words of lines are sets of bits.     *)
(* A program writes at a clock edge; three edges later the change is at    *)
(* the lines of the core.                                                  *)
(***************************************************************************)
EXTENDS Integers

CONSTANT RandomWords    \* the words the random process may draw

VARIABLES
    stall_reg_10, stall_reg_14,     \* rnd_stall_regs: the mode, the lines
    irq_mode_q,
    irq_lines_q,                    \* what the core sees
    irq_sd_lines,                   \* the process of software-defined lines
    sampling,                       \* that process is in its inner loop
    irq_rnd_lines, rand_word, rnd   \* the process of random lines, and where it is

stall_regs == <<stall_reg_10, stall_reg_14>>
processes == <<irq_mode_q, irq_lines_q, irq_sd_lines, sampling, irq_rnd_lines, rand_word, rnd>>
generator == <<stall_regs, processes>>

\* The value 0 after reset is no mode; STANDARD keeps all lines low.
Modes == {"none", "STD", "RND", "SD"}

\* Lines 26 to 31 only (IRQ_MIN_ID, IRQ_MAX_ID), never none of them.
ASSUME GeneratorAssumption ==
    RandomWords # {} /\ RandomWords \subseteq (SUBSET (26..31)) \ {{}}

Lines == {3, 7, 11} \cup 16..31

GeneratorTypeOK ==
    /\ stall_reg_10 \in Modes /\ stall_reg_14 \in SUBSET (0..31)
    /\ irq_mode_q \in Modes
    /\ irq_lines_q \in SUBSET Lines /\ irq_sd_lines \in SUBSET Lines
    /\ sampling \in BOOLEAN
    /\ irq_rnd_lines \in RandomWords \cup {{}} /\ rand_word \in RandomWords \cup {{}}
    /\ rnd \in {"mode", "wait", "up"}

GeneratorInit ==
    /\ stall_reg_10 = "none" /\ stall_reg_14 = {}
    /\ irq_mode_q = "none"
    /\ irq_lines_q = {} /\ irq_sd_lines = {} /\ sampling = FALSE
    /\ irq_rnd_lines = {} /\ rand_word = {} /\ rnd = "mode"

\* Waits for a word other than 0, then copies the word at every edge, the 0
\* that ends the loop included.
SoftwareDefined ==
    IF sampling
    THEN irq_sd_lines' = stall_reg_14 \cap Lines /\ sampling' = (stall_reg_14 # {})
    ELSE /\ sampling' = (irq_mode_q = "SD" /\ stall_reg_14 # {})
         /\ UNCHANGED irq_sd_lines

\* Draws a word, raises it after some cycles, and keeps it up until the mode is
\* STANDARD: wait(irq_mode_q == STANDARD) ends as soon as the register changes.
\* Any number of cycles, not only irq_min_cycles to irq_max_cycles.
Draw ==
    /\ rnd = "mode" /\ UNCHANGED irq_rnd_lines
    /\ IF irq_mode_q = "RND"
       THEN rand_word' \in RandomWords /\ rnd' = "wait"
       ELSE UNCHANGED <<rand_word, rnd>>

WaitOrRaise ==
    /\ rnd = "wait" /\ UNCHANGED rand_word
    /\ \/ irq_rnd_lines' = rand_word /\ rnd' = "up"
       \/ UNCHANGED <<irq_rnd_lines, rnd>>

TakeDown ==
    /\ rnd = "up" /\ UNCHANGED rand_word
    /\ IF "STD" \in {irq_mode_q, stall_reg_10}
       THEN irq_rnd_lines' = {} /\ rnd' = "mode"
       ELSE UNCHANGED <<irq_rnd_lines, rnd>>

\* The two processes assign their lines, by blocking assignments, at the edge
\* at which irq_lines_q samples them: it may take the old word or the new one.
\* Random lines are taken down between edges.
irq_lines_n ==
    CASE irq_mode_q = "SD"  -> {irq_sd_lines, irq_sd_lines'}
      [] irq_mode_q = "RND" -> {irq_rnd_lines} \cup ({irq_rnd_lines'} \ {{}})
      [] OTHER              -> {{}}

GeneratorTick ==
    /\ SoftwareDefined
    /\ Draw \/ WaitOrRaise \/ TakeDown
    /\ irq_mode_q' = stall_reg_10
    /\ irq_lines_q' \in irq_lines_n
=============================================================================
