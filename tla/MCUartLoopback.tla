--------------------------- MODULE MCUartLoopback ---------------------------
(* Constants of UartLoopback for TLC. *)
EXTENDS UartLoopback

\* 0xA5, the byte of the bench, and 0x54, bit 0 first.
MCBytes == {<<1, 0, 1, 0, 0, 1, 0, 1>>, <<0, 0, 1, 0, 1, 0, 1, 0>>}
=============================================================================
