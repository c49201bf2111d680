------------------------------- MODULE SocBus -------------------------------
(***************************************************************************)
(* The bus fabric of rtl/top/RISC-V_based_Soc.v: CPU channels, arbiter,    *)
(* APB master, address decoder, three APB slaves and port B of the shared  *)
(* RAM, one step per clock edge.                                           *)
(*                                                                         *)
(* Open inputs are the requests of the CPU (ObiCpu), what the MAC writes   *)
(* through port A, what the MAC and UART registers show when read, and     *)
(* the reset pin.                                                          *)
(***************************************************************************)
EXTENDS Integers, CompDecoder

CONSTANTS
    ByteAddr,       \* byte addresses the CPU uses
    Data, Zero,     \* data words, and the word 0
    ByteEnables, AllBytes,
    MacAddr,        \* word addresses port A writes to
    MacData,        \* what it writes there
    Image,          \* memory.hex, the contents of the RAM at power-up
    MaxBurst,
    NoReq, NoWrite

VARIABLES
    in_flight, rvalid, rdata,                   \* cpu_arbiter
    mstate, addr_reg, wdata_reg, write_reg,     \* APB_Master
    slave,                                      \* slave[s]: APB_slave of s
    latch,                                      \* the latches of Comp_Decoder
    mem, b_read_data,                           \* synch_dual_port_memory
    req, burst                                  \* the CPU channels

arbiter == <<in_flight, rvalid, rdata>>
master  == <<mstate, addr_reg, wdata_reg, write_reg>>
ram     == <<mem, b_read_data>>
cpu     == <<req, burst>>
vars    == <<arbiter, master, slave, latch, ram, cpu>>

Arbiter == INSTANCE CpuArbiter
Cpu     == INSTANCE ObiCpu
Slave   == INSTANCE ApbSlave
Ram     == INSTANCE DualPortMemory

\* The word addresses PADDR takes: its reset value, and those of requests.
Addr == {0} \cup {Arbiter!WordAddr(a) : a \in ByteAddr}

Master == INSTANCE ApbMaster WITH NoXfer <- NoReq

MacWrite == [addr : MacAddr, data : MacData]

ASSUME SocBusAssumption ==
    /\ ByteAddr \subseteq Nat
    /\ Zero \in Data
    /\ AllBytes \in ByteEnables
    /\ MacAddr \subseteq Addr
    /\ MacData \subseteq Data
    /\ Image \in [Addr -> Data]
    /\ MaxBurst \in Nat \ {0}
    /\ NoReq \notin Cpu!Loads \cup Cpu!Stores \cup Master!Xfer
    /\ NoWrite \notin MacWrite

\* While PADDR selects a slave the latches are transparent; this value
\* stands for that.
Transparent == [ready |-> FALSE, data |-> Zero]

TypeOK ==
    /\ Arbiter!ArbiterTypeOK
    /\ Master!MasterTypeOK
    /\ slave \in [Slaves -> Slave!SlaveState]
    /\ latch \in [ready : BOOLEAN, data : Data]
    /\ mem \in [Addr -> Data]
    /\ b_read_data \in Data
    /\ Cpu!CpuTypeOK

Init ==
    /\ Arbiter!Init
    /\ Master!Init
    /\ slave = [s \in Slaves |-> "IDLE"]
    /\ latch = Transparent
    /\ mem = Image
    /\ b_read_data \in Data         \* the read register has no reset
    /\ Cpu!Init

-----------------------------------------------------------------------------
(* The wires between the blocks, in the current cycle.                     *)

sel == Select(addr_reg)

PREADY == IF sel = "NONE" THEN latch.ready ELSE Slave!PREADY(slave[sel])

\* preg: what the register read of the selected peripheral shows.
PRDATA(preg) ==
    IF sel = "NONE" THEN latch.data
    ELSE Slave!PRDATA(slave[sel], write_reg,
                      IF sel = "MEM" THEN b_read_data ELSE preg, Zero)

o_gnt   == Master!o_gnt(PREADY)
o_ready == Master!o_ready(PREADY)

ireq == IF Arbiter!i_req(req) THEN Arbiter!Request(req) ELSE NoReq

granted == [b \in Arbiter!Bus |-> Arbiter!Granted(req, o_gnt, b)]

Strobe(s) == Slave!WriteStrobe(write_reg, PSEL(addr_reg, s), Master!PENABLE)

b_write == IF Strobe("MEM") THEN [addr |-> addr_reg, data |-> wdata_reg]
           ELSE NoWrite

-----------------------------------------------------------------------------
(* One clock edge.                                                         *)

SlavesTick ==
    slave' = [s \in Slaves |->
                Slave!NextState(slave[s], PSEL(addr_reg, s), Master!PENABLE)]

\* The latches close when PADDR leaves the mapped range.  PADDR and the state
\* of the slave that was selected change at the same edge, so the latches
\* keep that slave's outputs from before or from after the edge.
LatchTick ==
    IF Mapped(addr_reg') THEN latch' = Transparent
    ELSE IF Mapped(addr_reg)
    THEN \E st \in {slave[sel], slave'[sel]}, d \in Data :
            latch' = [ready |-> Slave!PREADY(st),
                      data  |-> Slave!PRDATA(st, FALSE, d, Zero)]
    ELSE UNCHANGED latch

Clock ==
    /\ \E preg \in Data :
         Arbiter!Tick(req, o_gnt, o_ready, Master!o_rdata(PREADY, PRDATA(preg)))
    /\ Master!Tick(ireq, PREADY)
    /\ SlavesTick
    /\ LatchTick
    /\ \E a_write \in MacWrite \cup {NoWrite} : Ram!Tick(a_write, b_write, addr_reg)
    /\ Cpu!Tick(granted, rvalid["INSTR"])

\* rst_n goes low and high again.  The RAM keeps its contents; its read
\* register follows PADDR = 0 if the clock runs meanwhile.
Reset ==
    /\ Arbiter!Reset
    /\ Master!Reset
    /\ slave' = [s \in Slaves |-> "IDLE"]
    /\ latch' = Transparent
    /\ UNCHANGED mem
    /\ b_read_data' \in {b_read_data, mem[0]}
    /\ Cpu!Reset

Next == Clock \/ Reset

\* The clock never stops.
Spec == Init /\ [][Next]_vars /\ WF_vars(Clock)

-----------------------------------------------------------------------------
(* Safety.                                                                 *)

\* The arbiter and the master agree on whether a transfer is under way.  The
\* master latches its inputs in every state and o_gnt is high in the last
\* cycle of ACCESS, where a request would be dropped: that no request reaches
\* it there is what the arbiter's in_flight has to guarantee.
Tracking == in_flight = "NONE" <=> mstate = "IDLE"

\* The slave a transfer addresses has left IDLE when the ACCESS phase begins.
SlaveReady ==
    mstate = "ACCESS" /\ Mapped(addr_reg) => slave[sel] \in {"WAIT", "ACCESS"}

\* The transfer of a fetch is a read.
FetchReads == in_flight = "INSTR" => ~write_reg

\* The inductive invariant behind the properties below.
BusInv == Tracking /\ SlaveReady /\ FetchReads

\* A fetch never writes: while the transfer on the bus is the instruction
\* bus's, no slave sees a write strobe, whatever was stored before.
FetchNeverWrites ==
    \A s \in Slaves : Strobe(s) => in_flight = "DATA" /\ s = sel

\* The decoder selects a slave while the master is idle too, so that slave's
\* state machine has been running on its own when a transfer starts.  It
\* still never meets the ACCESS phase in IDLE: a transfer to a mapped address
\* has at most one wait state.
AtMostOneWaitState ==
    [][Mapped(addr_reg) /\ mstate = "ACCESS" /\ mstate' = "ACCESS" => PREADY']_vars

\* APB: address, direction and write data stay put from SETUP to the end of
\* ACCESS, although the master reloads its registers whenever i_req is high.
StableTransfer ==
    [][mstate # "IDLE" /\ mstate' # "IDLE" =>
         UNCHANGED <<addr_reg, wdata_reg, write_reg>>]_vars

-----------------------------------------------------------------------------
(* Liveness, for programs that stay in the mapped address range.           *)

\* Every accepted transaction ends.
TransfersEnd == \A b \in {"DATA", "INSTR"} : in_flight = b ~> in_flight = "NONE"

\* The fixed priority of data does not starve the instruction bus: a raised
\* fetch is taken, as long as the core cannot run ahead of its instructions
\* for ever.
FetchServed ==
    req["INSTR"] # NoReq ~> (in_flight = "INSTR" \/ req["INSTR"] = NoReq)
-----------------------------------------------------------------------------
(* What the documentation says of the bus and the code does not do.        *)

\* README.md:96: byte addresses 0x0800 - 0x0BFF are the UART's, so an access
\* there ends.
UartWindowAnswers ==
    \A b \in {"DATA", "INSTR"} :
        in_flight = b /\ addr_reg \in 512..767 ~> in_flight = "NONE"
=============================================================================
