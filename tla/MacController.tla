---------------------------- MODULE MacController ----------------------------
(***************************************************************************)
(* controller (rtl/submodules/mac_accelerator/controller.v): the state     *)
(* machine that walks over the pairs A[i,t], B[t,j] of every element of    *)
(* the product of an M x K by a K x N matrix.  The index registers are     *)
(* four bits wide, the dimensions three, the padding counter two.          *)
(***************************************************************************)
EXTENDS Integers

VARIABLES
    cstate,                         \* current_state
    padding_counter,
    k_index_a, k_index_b, m_index, n_index,
    wr_en_a, wr_en_b, wr_en_c

controller == <<cstate, padding_counter, k_index_a, k_index_b, m_index,
                n_index, wr_en_a, wr_en_b, wr_en_c>>

Index == 0..15

ControllerTypeOK ==
    /\ cstate \in {"idle", "load_a", "load_b", "clear", "padding", "done", "overflow"}
    /\ padding_counter \in 0..3
    /\ {k_index_a, k_index_b, m_index, n_index} \subseteq Index
    /\ {wr_en_a, wr_en_b, wr_en_c} \subseteq BOOLEAN

Init ==
    /\ cstate = "idle"
    /\ padding_counter = 0
    /\ k_index_a = 0 /\ k_index_b = 0 /\ m_index = 0 /\ n_index = 0
    /\ wr_en_a = FALSE /\ wr_en_b = FALSE /\ wr_en_c = FALSE

\* Add one to an index; the last of a dimension wraps to 0.  No index is the
\* last of a dimension that is 0.
Last(i, dim) == i = dim - 1
Step(i, dim) == IF Last(i, dim) THEN 0 ELSE (i + 1) % 16

-----------------------------------------------------------------------------
(* Outputs.                                                                *)

en == IF cstate = "padding" THEN padding_counter % 2 = 1 ELSE cstate = "load_b"

clear_in == cstate = "clear"
busy == cstate # "idle"
done_interrupt == cstate = "done"

c_address(n, base_c) == m_index * n + n_index + base_c

\* Seeded bug: B is walked along its rows.
a_b_address_RowOfB(ka, k, n, base_a, base_b) ==
    IF cstate = "load_a" THEN m_index * k + ka + base_a
    ELSE IF cstate = "load_b" THEN n_index * k + k_index_b + base_b ELSE 0

\* ka is k_index_a, or its next value: see Race in MacAccelerator.
a_b_address(ka, k, n, base_a, base_b) ==
    IF cstate = "load_a" THEN m_index * k + ka + base_a
    ELSE IF cstate = "load_b" THEN k_index_b * k + n_index + base_b ELSE 0

-----------------------------------------------------------------------------
(* One clock edge, by state.                                               *)

Cleared ==
    /\ padding_counter' = 0
    /\ k_index_a' = 0 /\ k_index_b' = 0 /\ m_index' = 0 /\ n_index' = 0
    /\ wr_en_a' = FALSE /\ wr_en_b' = FALSE /\ wr_en_c' = FALSE

Idle(start) ==
    /\ cstate = "idle"
    /\ cstate' = IF start THEN "load_a" ELSE "idle"
    /\ Cleared

Stopped(start, clear_interrupt) ==
    /\ cstate \in {"done", "overflow"}
    /\ cstate' = IF ~start /\ clear_interrupt THEN "idle" ELSE cstate
    /\ Cleared

LoadA(overflow_in, k) ==
    /\ cstate = "load_a"
    /\ cstate' = IF overflow_in THEN "overflow" ELSE "load_b"
    /\ wr_en_a' = TRUE /\ wr_en_b' = FALSE
    /\ wr_en_c' = Last(k_index_a, k)
    /\ k_index_a' = Step(k_index_a, k)
    /\ UNCHANGED <<padding_counter, k_index_b, m_index, n_index>>

\* Seeded bug: overflow is looked at in load_a only.
LoadB_NoOverflow(overflow_in, m, k, n) ==
    /\ cstate = "load_b"
    /\ cstate' = IF Last(k_index_b, k) THEN "clear" ELSE "load_a"
    /\ wr_en_a' = FALSE /\ wr_en_b' = TRUE /\ wr_en_c' = FALSE
    /\ k_index_b' = Step(k_index_b, k)
    /\ n_index' = IF Last(k_index_b, k) THEN Step(n_index, n) ELSE n_index
    /\ m_index' = IF Last(k_index_b, k) /\ Last(n_index, n)
                  THEN Step(m_index, m) ELSE m_index
    /\ UNCHANGED <<padding_counter, k_index_a>>

LoadB(overflow_in, m, k, n) ==
    /\ cstate = "load_b"
    /\ cstate' = IF overflow_in THEN "overflow"
                 ELSE IF Last(k_index_b, k) THEN "clear" ELSE "load_a"
    /\ wr_en_a' = FALSE /\ wr_en_b' = TRUE /\ wr_en_c' = FALSE
    /\ k_index_b' = Step(k_index_b, k)
    /\ n_index' = IF Last(k_index_b, k) THEN Step(n_index, n) ELSE n_index
    /\ m_index' = IF Last(k_index_b, k) /\ Last(n_index, n)
                  THEN Step(m_index, m) ELSE m_index
    /\ UNCHANGED <<padding_counter, k_index_a>>

Clear ==
    /\ cstate = "clear"
    /\ cstate' = IF n_index = 0 /\ m_index = 0 /\ k_index_b = 0
                 THEN "padding" ELSE "load_a"
    /\ wr_en_b' = FALSE
    /\ UNCHANGED <<padding_counter, k_index_a, k_index_b, m_index, n_index,
                   wr_en_a, wr_en_c>>

\* Seeded bugs: the pipeline is not drained; the drain is one cycle too long;
\* the depth is cut to the width of the counter.
Padding_Short(k) ==
    /\ cstate = "padding"
    /\ cstate' = "done"
    /\ padding_counter' = (padding_counter + 1) % 4
    /\ UNCHANGED <<k_index_a, k_index_b, m_index, n_index, wr_en_a, wr_en_b, wr_en_c>>
Padding_Long(k) ==
    /\ cstate = "padding"
    /\ cstate' = IF padding_counter = k + 1 THEN "done" ELSE "padding"
    /\ padding_counter' = (padding_counter + 1) % 4
    /\ UNCHANGED <<k_index_a, k_index_b, m_index, n_index, wr_en_a, wr_en_b, wr_en_c>>
Padding_TwoBits(k) ==
    /\ cstate = "padding"
    /\ cstate' = IF padding_counter = k % 4 THEN "done" ELSE "padding"
    /\ padding_counter' = (padding_counter + 1) % 4
    /\ UNCHANGED <<k_index_a, k_index_b, m_index, n_index, wr_en_a, wr_en_b, wr_en_c>>

Padding(k) ==
    /\ cstate = "padding"
    /\ cstate' = IF padding_counter = k THEN "done" ELSE "padding"
    /\ padding_counter' = (padding_counter + 1) % 4
    /\ UNCHANGED <<k_index_a, k_index_b, m_index, n_index, wr_en_a, wr_en_b, wr_en_c>>

Tick(start, overflow_in, clear_interrupt, m, k, n) ==
    \/ Idle(start)
    \/ Stopped(start, clear_interrupt)
    \/ LoadA(overflow_in, k)
    \/ LoadB(overflow_in, m, k, n)
    \/ Clear
    \/ Padding(k)

\* rst_n is low for at least one clock edge: the output block has no reset
\* branch, the edge in idle clears it.
Reset == cstate' = "idle" /\ Cleared
=============================================================================
