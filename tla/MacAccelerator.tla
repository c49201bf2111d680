--------------------------- MODULE MacAccelerator ---------------------------
(***************************************************************************)
(* mac_accelerator (rtl/submodules/mac_accelerator): configuration         *)
(* registers, controller, operand registers, multiplier, accumulator, the  *)
(* pipeline registers between them, and port A of the shared RAM, driven   *)
(* by a program that configures it the way sw/generate_hex.py does.        *)
(***************************************************************************)
EXTENDS Integers

CONSTANTS
    SignBit,            \* 2^(w-1) for words of w bits (2^31 in the SoC)
    MemWords,           \* 2^ADDRESS_WIDTH
    Images,             \* contents the RAM may have at power-up
    BaseA, BaseB, BaseC,
    Dims,               \* the dimensions a program may ask for
    Race,               \* see address
    ClearInterrupt      \* values of clear_interrupt: {FALSE} in the SoC

VARIABLES
    cfg,                            \* cfg_register
    cstate, padding_counter,        \* controller
    k_index_a, k_index_b, m_index, n_index,
    wr_en_a, wr_en_b, wr_en_c,
    a_read_data,                    \* the read register of port A
    data_a, data_b,                 \* regfile
    pipe,                           \* regfile_reg
    acc,                            \* accumulator
    mem,
    program, step                   \* the program, and its next write

datapath == <<a_read_data, data_a, data_b, pipe, acc>>
ctl  == <<cstate, padding_counter, k_index_a, k_index_b, m_index, n_index,
          wr_en_a, wr_en_b, wr_en_c>>
vars == <<cfg, ctl, datapath, mem, program, step>>

Controller == INSTANCE MacController

WordRange == 2 * SignBit
Word == 0 .. WordRange - 1
Address == 0 .. MemWords - 1

\* The value of a word as a signed number.
Signed(w) == IF w < SignBit THEN w ELSE w - WordRange
Fits(x) == -SignBit <= x /\ x < SignBit

ASSUME MacAssumption ==
    /\ SignBit \in Nat \ {0} /\ MemWords \in Nat \ {0}
    /\ Images \subseteq [Address -> Word]
    /\ {BaseA, BaseB, BaseC} \subseteq Address
    /\ Dims \subseteq [m : 0..15, k : 0..15, n : 0..15]
    /\ Race \subseteq BOOLEAN /\ ClearInterrupt \subseteq BOOLEAN

MacTypeOK ==
    /\ cfg \in [a : {0, BaseA}, b : {0, BaseB}, c : {0, BaseC},
                m : 0..15, k : 0..15, n : 0..15, start : BOOLEAN, status : BOOLEAN]
    /\ Controller!ControllerTypeOK
    /\ {a_read_data, data_a, data_b} \subseteq Word
    /\ pipe \in [wr_c : BOOLEAN, c_address : Address,
                 clear_temp : BOOLEAN, clear_temp2 : BOOLEAN, clear : BOOLEAN]
    /\ acc \in [result : Word, overflow : BOOLEAN, c_address : Address, wr_c : BOOLEAN]
    /\ mem \in [Address -> Word]
    /\ program \in Dims /\ step \in 0..5

CfgReset == [a |-> 0, b |-> 0, c |-> 0, m |-> 0, k |-> 0, n |-> 0,
             start |-> FALSE, status |-> FALSE]
PipeReset == [wr_c |-> FALSE, c_address |-> 0,
              clear_temp |-> FALSE, clear_temp2 |-> FALSE, clear |-> FALSE]
AccReset == [result |-> 0, overflow |-> FALSE, c_address |-> 0, wr_c |-> FALSE]

Init ==
    /\ cfg = CfgReset
    /\ Controller!Init
    /\ data_a = 0 /\ data_b = 0
    /\ pipe = PipeReset
    /\ acc = AccReset
    /\ mem \in Images
    /\ a_read_data = mem[0]     \* the clock runs during reset
    /\ program \in Dims /\ step = 0

-----------------------------------------------------------------------------
(* The program: BASE_A, BASE_B, BASE_C, M_K_N, then CTRL.start.            *)

Write(s) ==
    CASE s = 0 -> [cfg EXCEPT !.a = BaseA]
      [] s = 1 -> [cfg EXCEPT !.b = BaseB]
      [] s = 2 -> [cfg EXCEPT !.c = BaseC]
      [] s = 3 -> [cfg EXCEPT !.m = program.m, !.k = program.k, !.n = program.n]
      [] s = 4 -> [cfg EXCEPT !.start = TRUE]

\* The writes the bus may bring in this cycle: the next one of the program,
\* or the last one once more, for a store has a strobe of one or two cycles.
\* -1 is none.
Strobes == {-1} \cup (IF step < 5 THEN {step} ELSE {}) \cup (IF step > 0 THEN {step - 1} ELSE {})

-----------------------------------------------------------------------------
(* Wires.  The controller gets three bits of each dimension.               *)

m == cfg.m % 8
k == cfg.k % 8
n == cfg.n % 8

product == Signed(data_a) * Signed(data_b)

overflow_mul == ~Fits(product)
overflow_in == acc.overflow \/ overflow_mul

\* load_a advances k_index_a by a blocking assignment in a clocked block, so
\* a simulator may let port A sample the address from before or from after
\* it.  Race says which outcomes are considered: {FALSE} is the flip-flop a
\* synthesis tool builds.
address(race) ==
    LET ka == IF race /\ ~Controller!Last(k_index_a, k) THEN k_index_a + 1 ELSE k_index_a
    IN  Controller!a_b_address(ka, k, n, cfg.a, cfg.b) % MemWords

-----------------------------------------------------------------------------
(* One clock edge.                                                         *)

\* cfg_register: a write, or else the status bit; done clears the start bit
\* in any case.
CfgTick(w) ==
    LET written == IF w = -1 THEN [cfg EXCEPT !.status = Controller!busy] ELSE Write(w)
    IN  cfg' = IF Controller!done_interrupt THEN [written EXCEPT !.start = FALSE]
               ELSE written

RegfileTick ==
    /\ data_a' = IF wr_en_a THEN a_read_data ELSE data_a
    /\ data_b' = IF wr_en_b /\ ~wr_en_a THEN a_read_data ELSE data_b

PipeTick ==
    pipe' = [wr_c        |-> IF Controller!en THEN wr_en_c ELSE pipe.wr_c,
             c_address   |-> IF Controller!en
                             THEN Controller!c_address(n, cfg.c) % MemWords
                             ELSE pipe.c_address,
             clear_temp  |-> Controller!clear_in,
             clear_temp2 |-> pipe.clear_temp,
             clear       |-> pipe.clear_temp2]

\* temp, one bit wider than a word.
temp == acc.result + (product % WordRange)

\* Seeded bugs: the sum of an element starts from that of the one before; the
\* carry stays in the sum.
AccumulatorTick_NoClear ==
    acc' = IF Controller!en
           THEN [result |-> temp % WordRange, overflow |-> temp >= WordRange,
                 c_address |-> pipe.c_address, wr_c |-> pipe.wr_c]
           ELSE acc

AccumulatorTick_Carry ==
    acc' = IF pipe.clear
           THEN AccReset
           ELSE IF Controller!en
           THEN [result |-> temp, overflow |-> temp >= WordRange,
                 c_address |-> pipe.c_address, wr_c |-> pipe.wr_c]
           ELSE acc

AccumulatorTick ==
    acc' = IF pipe.clear
           THEN AccReset
           ELSE IF Controller!en
           THEN [result |-> temp % WordRange, overflow |-> temp >= WordRange,
                 c_address |-> pipe.c_address, wr_c |-> pipe.wr_c]
           ELSE acc

PortATick(race) ==
    /\ a_read_data' = mem[address(race)]
    /\ mem' = IF acc.wr_c THEN [mem EXCEPT ![acc.c_address] = acc.result] ELSE mem

Clock ==
    \E w \in Strobes, race \in Race, clear_interrupt \in ClearInterrupt :
        /\ CfgTick(w)
        /\ Controller!Tick(cfg.start, overflow_in, clear_interrupt, m, k, n)
        /\ RegfileTick
        /\ PipeTick
        /\ AccumulatorTick
        /\ PortATick(race)
        /\ step' = IF w = step THEN step + 1 ELSE step
        /\ UNCHANGED program

\* rst_n is low for at least one clock edge; the program starts again.
Reset ==
    /\ cfg' = CfgReset
    /\ Controller!Reset
    /\ data_a' = 0 /\ data_b' = 0
    /\ pipe' = PipeReset
    /\ acc' = AccReset
    /\ a_read_data' = mem[0]
    /\ step' = 0
    /\ UNCHANGED <<mem, program>>

Next == Clock \/ Reset

\* The clock never stops.
Spec == Init /\ [][Next]_vars /\ WF_vars(Clock)

-----------------------------------------------------------------------------
(* Correctness.                                                            *)

Rows == 0 .. m - 1
Cols == 0 .. n - 1
Cell(i, j) == BaseC + i * n + j

\* The products that element (i, j) of A * B sums up.
Term(i, j, t) == Signed(mem[BaseA + i * k + t]) * Signed(mem[BaseB + t * n + j])

Terms(i, j) == [t \in 0 .. k - 1 |-> Term(i, j, t)]

\* The sum of the first x terms; a dimension has three bits.
SumOf(f, x) ==
    LET s(t) == IF t < x THEN f[t] ELSE 0
    IN  s(0) + s(1) + s(2) + s(3) + s(4) + s(5) + s(6)

\* Element (i, j), wrapped to a word: MxK * KxN, controller.v:7.
Element(i, j) == SumOf(Terms(i, j), k) % WordRange

\* When the program reads the start bit as 0 again the product is complete,
\* although port A is still writing when done_interrupt rises.
ProductComplete ==
    cstate = "done" /\ ~cfg.start =>
        \A i \in Rows, j \in Cols : mem[Cell(i, j)] = Element(i, j)

\* Port A never writes anything but an element of the product to its cell,
\* neither while the sums are built nor while the pipeline is drained, nor
\* when an overflow or a reset cuts the run short.
WritesElements ==
    [][mem' # mem =>
         \E i \in Rows, j \in Cols :
            mem' = [mem EXCEPT ![Cell(i, j)] = Element(i, j)]]_vars

\* Element (i, j) as the matrices have it, of any size.
TrueSum(i, j) == SumOf(Terms(i, j), k)

\* The README's accumulator is a signed one: when a run has ended with done,
\* every element of the product is the signed value of the word in its cell.
SumsFitSigned ==
    cstate = "done" => \A i \in Rows, j \in Cols : Fits(TrueSum(i, j))

\* What an end with done does promise of every element but the last: each
\* product of two operands fits a signed word, and the sum is not below the
\* least signed word and not above the greatest unsigned one.  A sum that is
\* negative is in its cell as a signed word, another one as an unsigned word
\* and maybe not as a signed one.  The padding state does not look at the last.
SumsInWord ==
    cstate = "done" =>
        \A i \in Rows, j \in Cols : <<i, j>> # <<m - 1, n - 1>> =>
            /\ \A t \in 0 .. k - 1 : Fits(Term(i, j, t))
            /\ -SignBit <= TrueSum(i, j) /\ TrueSum(i, j) < WordRange

\* Two bits count the edges of the drain up to the depth: done is reported for
\* a depth of 1 to 3 only, and never for one cut to 0.
DoneDepth == cstate = "done" => k \in 1 .. 3

\* A run of such a depth ends: the start bit goes away, or overflow_interrupt
\* is raised.  After an overflow the start bit stays, see section 6 of README.md.
RunEnds == cfg.start /\ k \in 1 .. 3 ~> ~cfg.start \/ cstate = "overflow"
=============================================================================
