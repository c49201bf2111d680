---------------------------- MODULE IntController ----------------------------
(***************************************************************************)
(* cv32e40p_int_controller.sv with the bits of mstatus and the register    *)
(* mie that it works on (cv32e40p_cs_registers.sv, machine mode only).  A  *)
(* 32-bit word of lines is the set of the numbers of the bits that are 1.  *)
(***************************************************************************)
EXTENDS Integers

VARIABLES
    irq_q,      \* the interrupt lines, registered; mip reads them
    mie,        \* the lines enabled one by one
    mstatus     \* [MIE, MPIE]: the global enable and its saved value

int == <<irq_q, mie, mstatus>>

\* The lines the core implements: software, timer, external, fast 0 to 15.
IRQ_MASK == {3, 7, 11} \cup 16..31

Status == [MIE : BOOLEAN, MPIE : BOOLEAN]

IntTypeOK ==
    /\ irq_q \in SUBSET IRQ_MASK
    /\ mie \in SUBSET IRQ_MASK
    /\ mstatus \in Status

IntInit == irq_q = {} /\ mie = {} /\ mstatus = [MIE |-> FALSE, MPIE |-> FALSE]

irq_local_qual == irq_q \cap mie

irq_req_ctrl == irq_local_qual # {} /\ mstatus.MIE

\* Seeded bug: the three standard lines in the order of their numbers.
Before_ByNumber(i, j) == i > j

\* The encoder: the highest number first, but software (3) before timer (7).
Before(i, j) == IF {i, j} = {3, 7} THEN i = 3 ELSE i > j

irq_id_ctrl ==
    CHOOSE i \in irq_local_qual : \A j \in irq_local_qual \ {i} : Before(i, j)

-----------------------------------------------------------------------------

Sample(irq) == irq_q' = irq \cap IRQ_MASK

\* Seeded bug: interrupts stay enabled in the handler.
Enter_Enabled == mstatus' = [MIE |-> mstatus.MIE, MPIE |-> mstatus.MIE] /\ UNCHANGED mie

\* Entering a handler saves the global enable and clears it; mret restores it.
Enter == mstatus' = [MIE |-> FALSE, MPIE |-> mstatus.MIE] /\ UNCHANGED mie

Mret == mstatus' = [MIE |-> mstatus.MPIE, MPIE |-> TRUE] /\ UNCHANGED mie

\* Seeded bug: the bits of lines that do not exist are kept.
WriteMie_Unmasked(word) == mie' = word /\ UNCHANGED mstatus

WriteMie(word) == mie' = word \cap IRQ_MASK /\ UNCHANGED mstatus

WriteMstatus(status) == mstatus' = status /\ UNCHANGED mie
=============================================================================
