---------------------------- MODULE MCUartRxBench ----------------------------
EXTENDS UartRxBench

\* 0x65, 0x00 and 0xBF, bit 0 first: both parities, first and last bit of both values.
MCBytes == {<<1, 0, 1, 0, 0, 1, 1, 0>>, <<0, 0, 0, 0, 0, 0, 0, 0>>, <<1, 1, 1, 1, 1, 1, 0, 1>>}

MCRecovery(p) == p + 1
=============================================================================
