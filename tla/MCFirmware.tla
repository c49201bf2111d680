----------------------------- MODULE MCFirmware ------------------------------
EXTENDS Firmware

\* Eight different bytes and one more; all the same, and no more; two more, and
\* a product that is zero.
MCInputs == {<<1, 2, 3, 4, 5, 6, 7, 8, 9>>, <<1, 1, 1, 1, 1, 1, 1, 1>>,
             <<2, 0, 0, 3, 0, 0, 0, 0, 255, 7>>}

\* What the program counts on, what rtl/ has, and one difference at a time.
MCDevices ==
    {Expected, Soc, [Expected EXCEPT !.mapped = FALSE], [Expected EXCEPT !.rx_enable_bit = 8],
     [Expected EXCEPT !.byte_bases = FALSE]}
=============================================================================
