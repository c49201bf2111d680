-------------------------- MODULE MCMacAccelerator --------------------------
(* Constants of MacAccelerator for TLC. *)
EXTENDS MacAccelerator, FiniteSetsExt

MC(mm, kk, nn) == [m |-> mm, k |-> kk, n |-> nn]

\* The shapes the addressing of B gets right: k = n, or k = 1.  The last is
\* deeper than the drain can count.
MCShapes == {MC(2, 2, 2), MC(2, 1, 2), MC(1, 3, 3), MC(3, 1, 1),
             MC(1, 1, 2), MC(1, 1, 1), MC(1, 4, 4)}

MCRectangular == {MC(1, 2, 1)}
MCSigned == {MC(1, 2, 2)}

OperandCells == 0 .. 19

\* Ones, but for the cells of s, 0 outside the operands.
Ones(s, v) ==
    [a \in Address |-> IF a \in s THEN v ELSE IF a \in OperandCells THEN 1 ELSE 0]

\* All ones but for at most two cells, in all the operands of a depth up to 3:
\* enough to tell every pair of cells from every other.  7 is -1 in three bits:
\* 7 + 1 carries, 3 * 3 does not fit, 3 + 3 fits an unsigned word only.  Then
\* all of A odd: 3 + 3 + 3 fits no word.
MCImages == {Ones(s, v) : s \in UNION {kSubset(i, 0 .. 12) : i \in 0 .. 2} \cup {0 .. 3},
                          v \in {0, 3, 7}}

\* A = [3 3], B = [1 1; 1 1]: both elements are 6, -2 in a signed word.
MCThrees == {Ones({0, 1}, 3)}
=============================================================================
