------------------------------ MODULE Firmware -------------------------------
(***************************************************************************)
(* The program sw/src/main.c: its interrupt routine fills the matrices A   *)
(* and B byte by byte; main multiplies, lets the MAC multiply, compares    *)
(* and prints.  A step of the program is one access of shared state.       *)
(*                                                                         *)
(* The peripherals are a contract, device, chosen at the start: do the     *)
(* addresses of the program reach them, which bit of CTRL enables the      *)
(* receive interrupt, which bit of STATUS is the busy flag, is a line held *)
(* after it is answered, do bytes come at the pace of the program, and do  *)
(* the base registers of the MAC count bytes (else they count words).      *)
(* Expected is what the program counts on; Soc is what rtl/ has.           *)
(***************************************************************************)
EXTENDS IntController, Sequences

CONSTANTS
    Inputs,     \* the byte sequences a sender may send
    Faults,     \* what may be added to the last element the MAC computes
    Devices     \* the contracts to choose from

Contracts == [mapped : BOOLEAN, rx_enable_bit : 0..31, busy_bit : {0, 1},
              held : BOOLEAN, paced : BOOLEAN, byte_bases : BOOLEAN]

Expected == [mapped |-> TRUE, rx_enable_bit |-> 0, busy_bit |-> 1,
             held |-> FALSE, paced |-> TRUE, byte_bases |-> TRUE]
Soc == [mapped |-> FALSE, rx_enable_bit |-> 8, busy_bit |-> 0,
        held |-> TRUE, paced |-> FALSE, byte_bases |-> FALSE]

VARIABLES
    pc, i, j, k, sum, pass,                     \* main
    str,                                        \* characters printed so far
    isr, irq_id, rx_val,                        \* isr_handler
    g_mac_done_flag, g_uart_rx_count,
    ram,                                        \* A, B, C_SW and C_HW, by word
    uart_ctrl, rx_reg, rx_unread, rx_int,       \* the UART: receive
    tx_reg, tx_busy, sent,                      \*           transmit
    mac, element, base,                         \* the MAC, elements it has written
    input, arrived,                             \* the sender
    device

main == <<pc, i, j, k, sum, pass, str>>
routine == <<isr, irq_id, rx_val, g_uart_rx_count>>
uart_rx == <<uart_ctrl, rx_reg, rx_unread, rx_int, input, arrived, device>>
uart_tx == <<tx_reg, tx_busy, sent>>
mac_vars == <<mac, element, base>>
csrs == <<mie, mstatus>>
vars == <<main, routine, g_mac_done_flag, ram, uart_rx, uart_tx, mac_vars, int>>

MATRIX_M == 2
MATRIX_K == 2
MATRIX_N == 2
total_expected == MATRIX_M * MATRIX_K + MATRIX_K * MATRIX_N

\* Word numbers from byte 0x40 on.
RAM_BASE_A == 0
RAM_BASE_B == 4
RAM_BASE_C_SW == 8
RAM_BASE_C_HW == 12

\* "Test Pass\r\n" or "Test Fail\r\n", by character.
Text(verdict) ==
    <<"T", "e", "s", "t", "SP">>
        \o (IF verdict = 1 THEN <<"P", "a", "s", "s">> ELSE <<"F", "a", "i", "l">>)
        \o <<"CR", "LF">>

Bytes == 0..255

ASSUME FirmwareAssumption ==
    /\ Inputs # {} /\ \A s \in Inputs : s \in Seq(Bytes) /\ Len(s) >= total_expected
    /\ Faults \subseteq Nat /\ Faults # {}
    /\ Devices \subseteq Contracts

MainAt == {"ctrl", "mstatus", "mie", "receive", "madd", "store", "config", "clear", "start",
           "done", "compare", "poll", "put", "end"}

TypeOK ==
    /\ IntTypeOK
    /\ pc \in MainAt
    /\ i \in 0..4 /\ j \in 0..2 /\ k \in 0..2 /\ sum \in Nat /\ pass \in {0, 1} /\ str \in 0..11
    /\ isr \in {"none", "entry", "store", "count", "mret"} /\ irq_id \in IRQ_MASK /\ rx_val \in Bytes
    /\ g_mac_done_flag \in {0, 1} /\ g_uart_rx_count \in Nat
    /\ ram \in [0..15 -> Nat]
    /\ uart_ctrl \in SUBSET (0..31)
    /\ rx_reg \in Bytes /\ rx_unread \in BOOLEAN /\ rx_int \in BOOLEAN
    /\ tx_busy \in BOOLEAN
    /\ mac \in {"idle", "run", "done", "answered"} /\ element \in 0..4
    /\ base \in [{"A", "B", "C"} -> Nat]
    /\ input \in Inputs /\ arrived \in 0..Len(input)
    /\ device \in Devices

Init ==
    /\ IntInit
    /\ pc = "ctrl" /\ i = 0 /\ j = 0 /\ k = 0 /\ sum = 0 /\ pass = 1 /\ str = 0
    /\ isr = "none" /\ irq_id = 16 /\ rx_val = 0
    /\ g_mac_done_flag = 0 /\ g_uart_rx_count = 0
    /\ ram = [a \in 0..15 |-> 0]
    /\ uart_ctrl = {} /\ rx_reg = 0 /\ rx_unread = FALSE /\ rx_int = FALSE
    /\ tx_reg = "NUL" /\ tx_busy = FALSE /\ sent = <<>>
    /\ mac = "idle" /\ element = 0 /\ base = [m \in {"A", "B", "C"} |-> 0]
    /\ input \in Inputs /\ arrived = 0
    /\ device \in Devices

\* irq_i of the core; the overflow line, 18, is never up: the operands are small.
irq == (IF rx_int THEN {16} ELSE {}) \cup (IF mac = "done" THEN {17} ELSE {})

-----------------------------------------------------------------------------
(* main                                                                    *)

Goto(label) == pc' = label /\ UNCHANGED <<i, j, k, sum, pass, str>>

\* 1. CTRL = 0x01; MIE; lines 16 to 18.
EnableInterrupts ==
    /\ \/ /\ pc = "ctrl" /\ Goto("mstatus")
          /\ uart_ctrl' = IF device.mapped THEN {0} ELSE uart_ctrl
          /\ UNCHANGED csrs
       \/ /\ pc = "mstatus" /\ Goto("mie")
          /\ WriteMstatus([mstatus EXCEPT !.MIE = TRUE]) /\ UNCHANGED uart_ctrl
       \/ /\ pc = "mie" /\ Goto("receive")
          /\ WriteMie(mie \cup {16, 17, 18}) /\ UNCHANGED uart_ctrl
    /\ UNCHANGED <<rx_reg, rx_unread, rx_int, input, arrived, device, g_mac_done_flag, ram, uart_tx, mac_vars>>

\* 2. The wait for the matrices.
Receive ==
    /\ pc = "receive"
    /\ Goto(IF g_uart_rx_count < total_expected THEN "receive" ELSE "madd")
    /\ UNCHANGED <<g_mac_done_flag, ram, uart_rx, uart_tx, mac_vars, csrs>>

\* Seeded bug: one term too many.
MoreTerms_TooMany(n) == n <= MATRIX_K

MoreTerms(n) == n < MATRIX_K

\* 3. C_SW = A * B: one read of both operands, or one store.
Multiply ==
    /\ \/ /\ pc = "madd"
          /\ sum' = sum + ram[RAM_BASE_A + i * MATRIX_K + k] * ram[RAM_BASE_B + k * MATRIX_N + j]
          /\ k' = k + 1 /\ pc' = IF MoreTerms(k + 1) THEN "madd" ELSE "store"
          /\ UNCHANGED <<i, j, ram>>
       \/ /\ pc = "store"
          /\ ram' = [ram EXCEPT ![RAM_BASE_C_SW + i * MATRIX_N + j] = sum]
          /\ sum' = 0 /\ k' = 0
          /\ \/ j + 1 < MATRIX_N /\ j' = j + 1 /\ UNCHANGED i /\ pc' = "madd"
             \/ j + 1 = MATRIX_N /\ i + 1 < MATRIX_M /\ j' = 0 /\ i' = i + 1 /\ pc' = "madd"
             \/ j + 1 = MATRIX_N /\ i + 1 = MATRIX_M /\ j' = 0 /\ i' = 0 /\ pc' = "config"
    /\ UNCHANGED <<pass, str, g_mac_done_flag, uart_rx, uart_tx, mac_vars, csrs>>

\* Seeded bug: the registers of A and B are mixed up.
Offset_Swapped(m) == CASE m = "A" -> 80 [] m = "B" -> 64 [] m = "C" -> 112

\* The byte addresses of A, B and C_HW.
Offset(m) == CASE m = "A" -> 64 [] m = "B" -> 80 [] m = "C" -> 112

\* 4. Bases and dimensions; nobody reads them before the start bit.
Configure ==
    /\ pc = "config" /\ Goto("clear")
    /\ base' = IF device.mapped THEN [m \in {"A", "B", "C"} |-> Offset(m)] ELSE base
    /\ UNCHANGED <<g_mac_done_flag, ram, uart_rx, uart_tx, mac, element, csrs>>

\* Seeded bug: the flag is cleared after the start bit is written.
StartMac_ClearLate ==
    /\ \/ pc = "clear" /\ mac' = "run" /\ Goto("start") /\ UNCHANGED g_mac_done_flag
       \/ pc = "start" /\ g_mac_done_flag' = 0 /\ Goto("done") /\ UNCHANGED mac
    /\ UNCHANGED <<ram, uart_rx, uart_tx, element, base, csrs>>

StartMac ==
    /\ \/ pc = "clear" /\ g_mac_done_flag' = 0 /\ Goto("start") /\ UNCHANGED mac
       \/ /\ pc = "start" /\ mac' = IF device.mapped THEN "run" ELSE mac
          /\ Goto("done") /\ UNCHANGED g_mac_done_flag
    /\ UNCHANGED <<ram, uart_rx, uart_tx, element, base, csrs>>

\* 5. The wait for the MAC.
AwaitDone ==
    /\ pc = "done"
    /\ IF g_mac_done_flag = 0
       THEN Goto("done")
       ELSE pc' = "compare" /\ pass' = 1 /\ i' = 0 /\ UNCHANGED <<j, k, sum, str>>
    /\ UNCHANGED <<g_mac_done_flag, ram, uart_rx, uart_tx, mac_vars, csrs>>

\* Seeded bug: the last element is not compared.
Cells_Short == MATRIX_M * MATRIX_N - 1

Cells == MATRIX_M * MATRIX_N

\* 6. Stops at the first difference.
Compare ==
    /\ pc = "compare"
    /\ \/ i = Cells /\ Goto("poll")
       \/ /\ i < Cells /\ ram[RAM_BASE_C_SW + i] = ram[RAM_BASE_C_HW + i]
          /\ i' = i + 1 /\ UNCHANGED <<pc, j, k, sum, pass, str>>
       \/ /\ i < Cells /\ ram[RAM_BASE_C_SW + i] # ram[RAM_BASE_C_HW + i]
          /\ pass' = 0 /\ pc' = "poll" /\ UNCHANGED <<i, j, k, sum, str>>
    /\ UNCHANGED <<g_mac_done_flag, ram, uart_rx, uart_tx, mac_vars, csrs>>

\* STATUS & 0x02, with the receive flag as the other of bits 0 and 1.
\* Seeded bug: the other bit is polled.
status_bit_1_Other == IF device.busy_bit = 1 THEN rx_unread ELSE tx_busy

status_bit_1 == IF device.busy_bit = 1 THEN tx_busy ELSE rx_unread

\* 7. uart_print_str, uart_send_char; then the loop at the end.
PrintVerdict ==
    /\ \/ /\ pc = "poll"
          /\ Goto(IF str = Len(Text(pass)) THEN "end"
                  ELSE IF status_bit_1 THEN "poll" ELSE "put")
          /\ UNCHANGED <<tx_reg, tx_busy>>
       \/ /\ pc = "put"
          /\ tx_reg' = Text(pass)[str + 1] /\ tx_busy' = TRUE
          /\ str' = str + 1 /\ pc' = "poll" /\ UNCHANGED <<i, j, k, sum, pass>>
       \/ pc = "end" /\ Goto("end") /\ UNCHANGED <<tx_reg, tx_busy>>
    /\ UNCHANGED <<sent, g_mac_done_flag, ram, uart_rx, mac_vars, csrs>>

MainStep ==
    \/ EnableInterrupts \/ Receive \/ Multiply \/ Configure
    \/ StartMac \/ AwaitDone \/ Compare \/ PrintVerdict

-----------------------------------------------------------------------------
(* isr_handler                                                             *)

\* The core enters the routine; a MAC line that is not held falls.
TakeIrq ==
    /\ irq_req_ctrl /\ Enter
    /\ isr' = "entry" /\ irq_id' = irq_id_ctrl
    /\ mac' = IF irq_id_ctrl = 17 /\ ~device.held THEN "answered" ELSE mac
    /\ UNCHANGED <<main, rx_val, g_uart_rx_count, g_mac_done_flag, ram, uart_rx, uart_tx, element, base>>

\* Seeded bug: the index into B is not counted from the first byte of B.
Cell_FromStart(n) == IF n < MATRIX_M * MATRIX_K THEN RAM_BASE_A + n ELSE RAM_BASE_B + n

\* Where byte number n goes.
Cell(n) ==
    IF n < MATRIX_M * MATRIX_K THEN RAM_BASE_A + n
                               ELSE RAM_BASE_B + (n - MATRIX_M * MATRIX_K)

\* Line 16: read DATA, store the byte, count it.  Line 17: the flag.  Others: nothing.
IsrStep ==
    /\ \/ /\ isr = "entry" /\ irq_id = 16
          /\ rx_val' = rx_reg /\ rx_unread' = FALSE
          /\ rx_int' = (rx_int /\ device.held)
          /\ isr' = "store" /\ UNCHANGED <<mstatus, g_uart_rx_count, g_mac_done_flag, ram>>
       \/ /\ isr = "entry" /\ irq_id # 16
          /\ g_mac_done_flag' = IF irq_id = 17 THEN 1 ELSE g_mac_done_flag
          /\ isr' = "mret" /\ UNCHANGED <<mstatus, rx_val, rx_unread, rx_int, g_uart_rx_count, ram>>
       \/ /\ isr = "store"
          /\ ram' = IF g_uart_rx_count < total_expected
                    THEN [ram EXCEPT ![Cell(g_uart_rx_count)] = rx_val] ELSE ram
          /\ isr' = "count"
          /\ UNCHANGED <<mstatus, rx_val, rx_unread, rx_int, g_uart_rx_count, g_mac_done_flag>>
       \/ /\ isr = "count" /\ g_uart_rx_count' = g_uart_rx_count + 1
          /\ isr' = "mret" /\ UNCHANGED <<mstatus, rx_val, rx_unread, rx_int, g_mac_done_flag, ram>>
       \/ /\ isr = "mret" /\ Mret /\ isr' = "none"
          /\ UNCHANGED <<rx_val, rx_unread, rx_int, g_uart_rx_count, g_mac_done_flag, ram>>
    /\ UNCHANGED <<main, irq_id, uart_ctrl, rx_reg, input, arrived, device, uart_tx, mac_vars, mie>>

\* An instruction of the program, or the entry of the routine before it.
Cpu ==
    /\ Sample(irq)
    /\ \/ TakeIrq
       \/ ~irq_req_ctrl /\ isr = "none" /\ MainStep /\ UNCHANGED routine
       \/ ~irq_req_ctrl /\ IsrStep

-----------------------------------------------------------------------------
(* The peripherals.                                                        *)

\* Seeded bug: whatever is written to CTRL enables the interrupt.
rx_enabled_AnyBit == uart_ctrl # {}

rx_enabled == device.rx_enable_bit \in uart_ctrl

\* A byte comes in.
ByteArrives ==
    /\ arrived < Len(input)
    /\ device.paced => rx_enabled /\ ~rx_unread
    /\ rx_reg' = input[arrived + 1] /\ arrived' = arrived + 1
    /\ rx_unread' = TRUE /\ rx_int' = (rx_int \/ rx_enabled)
    /\ UNCHANGED <<main, routine, g_mac_done_flag, ram, uart_ctrl, input, device, uart_tx, mac_vars, int>>

\* Element n of a matrix is in this word; outside 0..15 are no variables of main's.
Word(m, n) == (IF device.byte_bases THEN base[m] \div 4 ELSE base[m]) - 16 + n

Read(m, n) == IF Word(m, n) \in 0..15 THEN ram[Word(m, n)] ELSE 0

Product(e) ==
    LET row == e \div MATRIX_N
        col == e % MATRIX_N
    IN  Read("A", row * 2) * Read("B", col) + Read("A", row * 2 + 1) * Read("B", 2 + col)

\* The MAC writes one element of A * B, perhaps a wrong one at the end.
MacWrites ==
    /\ mac = "run"
    /\ \E fault \in (IF element = 3 THEN Faults ELSE {0}) :
         ram' = IF Word("C", element) \in 0..15
                THEN [ram EXCEPT ![Word("C", element)] = Product(element) + fault] ELSE ram
    /\ element' = element + 1
    /\ mac' = IF element = 3 THEN "done" ELSE "run"
    /\ UNCHANGED <<main, routine, g_mac_done_flag, uart_rx, uart_tx, base, int>>

CharacterOut ==
    /\ tx_busy /\ tx_busy' = FALSE
    /\ sent' = Append(sent, tx_reg)
    /\ UNCHANGED <<main, routine, g_mac_done_flag, ram, uart_rx, tx_reg, mac_vars, int>>

Next == Cpu \/ ByteArrives \/ MacWrites \/ CharacterOut

\* The core executes, the sender sends all its bytes, MAC and UART finish.
Spec ==
    /\ Init /\ [][Next]_vars
    /\ WF_vars(Cpu) /\ WF_vars(ByteArrives) /\ WF_vars(MacWrites) /\ WF_vars(CharacterOut)

-----------------------------------------------------------------------------

\* The device does what the program counts on; its base registers may not.
Cooperates ==
    /\ device.mapped /\ device.rx_enable_bit = 0 /\ device.busy_bit = 1
    /\ ~device.held /\ device.paced

\* Every byte counted is in its cell, as it was sent: the matrices are complete
\* when main leaves its wait, and bytes that come later do not change them.
StoredInOrder ==
    Cooperates => \A n \in 0..total_expected - 1 : n < g_uart_rx_count => ram[n] = input[n + 1]

Expectation(e) ==
    input[(e \div 2) * 2 + 1] * input[(e % 2) + 5] + input[(e \div 2) * 2 + 2] * input[(e % 2) + 7]

\* What the MAC leaves in C_HW: the product of the bytes that were sent, but for the
\* fault; or nothing, if its base registers count words (main.c:124-127).
Computed(e, fault) ==
    IF device.byte_bases THEN Expectation(e) + (IF e = 3 THEN fault ELSE 0) ELSE 0

\* The verdict printed is right: main compares what the MAC has computed from the
\* bytes that were sent, and says "Pass" exactly if all of it is their product.
\* So it says "Pass" if the MAC works, and "Fail" whatever the MAC does, unless the
\* product is zero, if the base registers count words.
VerdictRight ==
    Cooperates /\ pc \in {"poll", "put", "end"} =>
        \E fault \in Faults :
            /\ \A e \in 0..3 : ram[RAM_BASE_C_HW + e] = Computed(e, fault)
            /\ pass = 1 <=> \A e \in 0..3 : Computed(e, fault) = Expectation(e)

\* No character is overwritten in the transmitter, none is sent twice.
NothingOverrun ==
    Cooperates => sent \o (IF tx_busy THEN <<tx_reg>> ELSE <<>>) = SubSeq(Text(pass), 1, str)

\* If the addresses do not reach the UART, or bit 0 of CTRL does not enable the
\* receive interrupt (rtl/ has neither), main never leaves its first wait: nothing
\* is received, multiplied or printed, whatever is sent.
StaysWaiting ==
    ~device.mapped \/ device.rx_enable_bit # 0 =>
        pc \in {"ctrl", "mstatus", "mie", "receive"} /\ sent = <<>>

\* main.c:1-12: the program prints its result.
Reports == Cooperates => <>(sent \in {Text(0), Text(1)})
=============================================================================
