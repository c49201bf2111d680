---------------------------- MODULE MCUartTxBench ----------------------------
EXTENDS UartTxBench

\* "T" and "F": 0x54 and 0x46, bit 0 first.
MCBytes == {<<0, 0, 1, 0, 1, 0, 1, 0>>, <<0, 1, 1, 0, 0, 0, 1, 0>>,
            <<1, 0, 0, 0, 0, 0, 0, 1>>}
=============================================================================
