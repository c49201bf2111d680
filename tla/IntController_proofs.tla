----------------------- MODULE IntController_proofs ------------------------
(***************************************************************************)
(* Lemmas about the encoder of the interrupt controller, for the programs  *)
(* that are proved on top of it.                                           *)
(***************************************************************************)
EXTENDS IntController, WellFoundedInduction, TLAPS

\* Among lines the core implements there is always a first one.
LEMMA FirstLine ==
    ASSUME NEW S \in SUBSET IRQ_MASK, S # {}
    PROVE  \E i \in S : \A j \in S \ {i} : Before(i, j)
PROOF
<1> DEFINE Below == {31 - i : i \in S}
<1>1. S \subseteq 0..31
  BY DEF IRQ_MASK
<1>2. PICK m \in Below : \A k \in Below : ~(<<k, m>> \in OpToRel(<, Nat))
  <2>1. Below \subseteq Nat
    BY <1>1
  <2>2. Below # {}
    OBVIOUS
  <2> QED
    BY <2>1, <2>2, NatLessThanWellFounded, WFMin
<1>3. PICK top \in S : m = 31 - top
  BY <1>2
<1>4. ASSUME NEW j \in S \ {top} PROVE top > j
  <2>1. 31 - j \in Below /\ 31 - j \in Nat /\ m \in Nat /\ j \in Int /\ top \in Int
    BY <1>1, <1>3, <1>4
  <2>2. ~(31 - j < m)
    BY <1>2, <2>1 DEF OpToRel
  <2> QED
    BY <1>3, <1>4, <2>1, <2>2
<1>5. CASE top = 7 /\ 3 \in S
  BY <1>4, <1>5 DEF Before, IRQ_MASK
<1>6. CASE ~(top = 7 /\ 3 \in S)
  BY <1>4, <1>6 DEF Before, IRQ_MASK
<1> QED
  BY <1>5, <1>6

\* The core asks for a line that is up and enabled.
LEMMA RequestedLine ==
    ASSUME IntTypeOK, irq_req_ctrl
    PROVE  /\ irq_id_ctrl \in irq_local_qual
           /\ irq_id_ctrl \in IRQ_MASK
           /\ \A j \in irq_local_qual \ {irq_id_ctrl} : Before(irq_id_ctrl, j)
PROOF
<1>1. irq_local_qual \in SUBSET IRQ_MASK /\ irq_local_qual # {}
  BY DEF IntTypeOK, irq_local_qual, irq_req_ctrl
<1>2. \E i \in irq_local_qual : \A j \in irq_local_qual \ {i} : Before(i, j)
  BY <1>1, FirstLine
<1> QED
  BY <1>1, <1>2 DEF irq_id_ctrl
=============================================================================
