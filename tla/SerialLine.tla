----------------------------- MODULE SerialLine -----------------------------
(***************************************************************************)
(* What the transmitter of the UART does with the stores of a program that *)
(* may come in any cycle, for one cycle or for two: it sends well-formed   *)
(* frames, one bit per clock, start bit, eight bits, parity bit if CTRL    *)
(* asks for one when the last of them goes, stop bit; the line is high     *)
(* between frames.                                                         *)
(*                                                                         *)
(* A store to TX begins a frame if none is being sent.  The frame carries  *)
(* the byte stored when the store lasts into the start bit, and otherwise  *)
(* what was in TX before the store; directly after a stop bit it carries   *)
(* the last bit of the frame before, seven zeros and the parity of the     *)
(* byte before.  A store during a frame only goes to the register.         *)
(***************************************************************************)
EXTENDS Integers, Sequences

CONSTANTS NoWrite

VARIABLES
    wr,                             \* the register write of this cycle
    TX,                             \* the byte last stored
    parity_enable, parity_type,
    part,                           \* what is being sent; "end" is the cycle
                                    \* directly after a stop bit
    bits,                           \* bits still to be sent; the last one stays
    checked,                        \* the byte whose parity is sent
    sum,                            \* its parity, once that is decided
    line

serial == <<wr, TX, parity_enable, parity_type, part, bits, checked, sum, line>>

Zero == [i \in 1..8 |-> 0]
SevenZeros == [i \in 1..7 |-> 0]

Ones(byte) == byte[1] + byte[2] + byte[3] + byte[4] + byte[5] + byte[6] + byte[7] + byte[8]
ParityBit(byte) == (Ones(byte) + (IF parity_type THEN 1 ELSE 0)) % 2

Cleared == TX = Zero /\ ~parity_enable /\ ~parity_type
           /\ part = "rest" /\ bits = <<0>> /\ checked = Zero /\ sum = 0 /\ line = 0

Init == wr = NoWrite /\ Cleared

Writes(reg) == wr # NoWrite /\ wr.reg = reg

\* The registers take what is stored, in every cycle.
Store ==
    /\ TX' = IF Writes("TX") THEN wr.data ELSE TX
    /\ IF Writes("CTRL") THEN parity_enable' = wr.enable /\ parity_type' = wr.odd
       ELSE UNCHANGED <<parity_enable, parity_type>>

Rest ==
    /\ part \in {"rest", "end"} /\ ~Writes("TX")
    /\ part' = "rest" /\ line' = 1
    /\ UNCHANGED <<bits, checked, sum>>

Begin ==
    /\ part = "rest" /\ Writes("TX")
    /\ part' = "start" /\ bits' = TX /\ checked' = TX /\ line' = 1
    /\ UNCHANGED sum

BeginLate ==
    /\ part = "end" /\ Writes("TX")
    /\ part' = "start" /\ bits' = bits \o SevenZeros /\ line' = 1
    /\ UNCHANGED <<checked, sum>>

StartBit ==
    /\ part = "start"
    /\ part' = "data" /\ line' = 0
    /\ IF Writes("TX") THEN bits' = TX /\ checked' = TX ELSE UNCHANGED <<bits, checked>>
    /\ UNCHANGED sum

DataBit ==
    /\ part = "data" /\ Len(bits) > 1
    /\ line' = Head(bits) /\ bits' = Tail(bits)
    /\ UNCHANGED <<part, checked, sum>>

LastBit ==
    /\ part = "data" /\ Len(bits) = 1
    /\ line' = Head(bits)
    /\ IF parity_enable THEN part' = "parity" /\ sum' = ParityBit(checked)
       ELSE part' = "stop" /\ UNCHANGED sum
    /\ UNCHANGED <<bits, checked>>

SendParity ==
    /\ part = "parity"
    /\ part' = "stop" /\ line' = sum /\ sum' = 0
    /\ UNCHANGED <<bits, checked>>

StopBit ==
    /\ part = "stop"
    /\ part' = "end" /\ line' = 1
    /\ UNCHANGED <<bits, checked, sum>>

Send == Rest \/ Begin \/ BeginLate \/ StartBit \/ DataBit \/ LastBit \/ SendParity \/ StopBit

Next == (Store /\ Send) \/ Cleared'

SafeSpec == Init /\ [][Next]_serial
=============================================================================
