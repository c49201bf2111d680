--------------------------- MODULE MCInterruptTest ---------------------------
EXTENDS InterruptTest

MCRandomWords == {{26}, {27, 31}}
\* All lines; none implemented; the order of 3, 7 and 11; a mixture.
MCTestWords == {0..31, {0, 12}, {3, 7, 11, 16}, {7, 20, 31}}
MCMat1 == <<<<1, 2>>, <<3, 4>>>>
MCMat2 == <<<<5, 6>>, <<7, 8>>>>

\* Rows of mat1 by columns of mat2, term by term.
MCPartialSum ==
    [i \in 1..2 |-> [j \in 1..2 |->
        LET Sum[k \in 0..2] == IF k = 0 THEN 0 ELSE Sum[k - 1] + MCMat1[i][k] * MCMat2[k][j]
        IN  Sum]]
=============================================================================
