------------------------------ MODULE ApbMaster ------------------------------
(***************************************************************************)
(* APB_Master (rtl/submodules/apb_bus/APB_Master.v): the requester of the  *)
(* APB bus.  Inputs of a cycle are the core interface, ireq (NoXfer when   *)
(* i_req is low, otherwise the request [addr, write, wdata]), and PREADY.  *)
(* SocBus drives it from the arbiter; Spec below drives it freely, as the  *)
(* bench of the bus does, holding a request until it is granted.           *)
(***************************************************************************)
EXTENDS Integers

CONSTANTS
    Addr,       \* word addresses, i_addr
    Data,       \* data words
    Zero,       \* the word 0, a member of Data
    NoXfer      \* i_req is low

VARIABLES
    mstate,                           \* current_state
    addr_reg, wdata_reg, write_reg    \* the inputs latched on a request

master == <<mstate, addr_reg, wdata_reg, write_reg>>

Xfer == [addr : Addr, write : BOOLEAN, wdata : Data]

MasterTypeOK ==
    /\ mstate \in {"IDLE", "SETUP", "ACCESS"}
    /\ addr_reg \in Addr
    /\ wdata_reg \in Data
    /\ write_reg \in BOOLEAN

Init ==
    /\ mstate = "IDLE"
    /\ addr_reg = 0
    /\ wdata_reg = Zero
    /\ write_reg = FALSE

-----------------------------------------------------------------------------
(* Outputs.  PADDR, PWDATA and PWRITE are the registers in every state.    *)

PENABLE == mstate = "ACCESS"

o_ready(PREADY) == mstate = "ACCESS" /\ PREADY

o_rdata(PREADY, PRDATA) ==
    IF mstate = "ACCESS" /\ PREADY /\ ~write_reg THEN PRDATA ELSE Zero

o_gnt(PREADY) == mstate = "IDLE" \/ (mstate = "ACCESS" /\ PREADY)

-----------------------------------------------------------------------------
(* One clock edge.  The request registers load whenever i_req is high,     *)
(* whatever the state is.                                                  *)

\* Seeded bug: the direction is set by a write and never cleared by a read.
Latch_StickyWrite(ireq) ==
    IF ireq # NoXfer
    THEN /\ addr_reg' = ireq.addr
         /\ wdata_reg' = ireq.wdata
         /\ write_reg' = (write_reg \/ ireq.write)
    ELSE UNCHANGED <<addr_reg, wdata_reg, write_reg>>

Latch(ireq) ==
    IF ireq # NoXfer
    THEN /\ addr_reg' = ireq.addr
         /\ wdata_reg' = ireq.wdata
         /\ write_reg' = ireq.write
    ELSE UNCHANGED <<addr_reg, wdata_reg, write_reg>>

Start(ireq) ==
    /\ mstate = "IDLE"
    /\ mstate' = IF ireq # NoXfer THEN "SETUP" ELSE "IDLE"

Setup ==
    /\ mstate = "SETUP"
    /\ mstate' = "ACCESS"

Access(PREADY) ==
    /\ mstate = "ACCESS"
    /\ mstate' = IF PREADY THEN "IDLE" ELSE "ACCESS"

Tick(ireq, PREADY) ==
    /\ Latch(ireq)
    /\ Start(ireq) \/ Setup \/ Access(PREADY)

\* rst_n low.
Reset ==
    /\ mstate' = "IDLE"
    /\ addr_reg' = 0
    /\ wdata_reg' = Zero
    /\ write_reg' = FALSE
=============================================================================
