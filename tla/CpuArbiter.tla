----------------------------- MODULE CpuArbiter -----------------------------
(***************************************************************************)
(* cpu_arbiter (rtl/submodules/cpu_arbiter/cpu_ram_arbiter.v): the bridge  *)
(* from the two OBI buses of the CPU to the one core interface of the APB  *)
(* master.  The module holds the registers of the arbiter, its             *)
(* combinational outputs as operators of its inputs, and one Tick per      *)
(* clock edge; SocBus connects it to the rest of the fabric.               *)
(*                                                                         *)
(* The inputs are                                                          *)
(*   req      what the CPU drives on each bus in this cycle: NoReq, or an  *)
(*            OBI request [addr, we, be, wdata];                           *)
(*   o_gnt, o_ready, o_rdata   what the APB master answers.                *)
(***************************************************************************)
EXTENDS Integers

CONSTANTS
    NoReq,      \* req is low
    Data,       \* the values of a 32-bit data word
    Zero        \* the word 32'b0

VARIABLES
    in_flight,  \* which bus has a pending transaction, "NONE" when none has
    rvalid,     \* rvalid[b]: the response pulse of bus b
    rdata       \* rdata[b]: the response register of bus b

arbiter == <<in_flight, rvalid, rdata>>

Bus == {"DATA", "INSTR"}

ArbiterTypeOK ==
    /\ in_flight \in Bus \cup {"NONE"}
    /\ rvalid \in [Bus -> BOOLEAN]
    /\ rdata \in [Bus -> Data]

Init ==
    /\ in_flight = "NONE"
    /\ rvalid = [b \in Bus |-> FALSE]
    /\ rdata = [b \in Bus |-> Zero]

-----------------------------------------------------------------------------
(* Combinational part: which bus is forwarded, and what the master sees.   *)

\* data_addr_i[11:2]: the APB address of a CPU byte address.  Bits above 11
\* are dropped, so addresses 4 KB apart name the same word.
WordAddr(a) == (a \div 4) % 1024

\* Data has priority over instructions.
Forwarded(req) ==
    IF req["DATA"] # NoReq THEN "DATA"
    ELSE IF req["INSTR"] # NoReq THEN "INSTR" ELSE "NONE"

\* Seeded bugs: the stall while a transaction is in flight is forgotten; the
\* instruction branch of the multiplexer is.
i_req_NoStall(req) == Forwarded(req) # "NONE"
i_req_DataOnly(req) == in_flight = "NONE" /\ req["DATA"] # NoReq

i_req(req) == in_flight = "NONE" /\ Forwarded(req) # "NONE"

\* Seeded bug: the low ten bits of the address instead of bits 11 to 2.
Request_LowBits(req) ==
    LET r == req[Forwarded(req)]
    IN  [addr |-> r.addr % 1024, write |-> r.we, wdata |-> r.wdata]

\* i_addr, i_write and i_wdata while i_req is high; data_be_i is not used.
Request(req) ==
    LET r == req[Forwarded(req)]
    IN  [addr |-> WordAddr(r.addr), write |-> r.we, wdata |-> r.wdata]

Granted(req, o_gnt, b) == i_req(req) /\ o_gnt /\ b = Forwarded(req)

-----------------------------------------------------------------------------
(* One clock edge.                                                         *)

\* A granted request becomes the transaction in flight.
Accept(req, o_gnt) ==
    /\ i_req(req) /\ o_gnt
    /\ in_flight' = Forwarded(req)
    /\ rvalid' = [b \in Bus |-> FALSE]
    /\ UNCHANGED rdata

\* The APB transfer ended: pulse rvalid on the bus it was for.
Deliver(o_ready, o_rdata) ==
    /\ in_flight # "NONE" /\ o_ready
    /\ in_flight' = "NONE"
    /\ rvalid' = [b \in Bus |-> b = in_flight]
    /\ rdata' = [rdata EXCEPT ![in_flight] = o_rdata]

\* Nothing to accept or to deliver: only the rvalid pulses end.
Hold(req, o_gnt, o_ready) ==
    /\ ~(i_req(req) /\ o_gnt)
    /\ ~(in_flight # "NONE" /\ o_ready)
    /\ rvalid' = [b \in Bus |-> FALSE]
    /\ UNCHANGED <<in_flight, rdata>>

Tick(req, o_gnt, o_ready, o_rdata) ==
    \/ Accept(req, o_gnt)
    \/ Deliver(o_ready, o_rdata)
    \/ Hold(req, o_gnt, o_ready)

\* rst_ni low.
Reset ==
    /\ in_flight' = "NONE"
    /\ rvalid' = [b \in Bus |-> FALSE]
    /\ rdata' = [b \in Bus |-> Zero]
=============================================================================
