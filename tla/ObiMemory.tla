----------------------------- MODULE ObiMemory -----------------------------
(***************************************************************************)
(* What the bus fabric promises to the CPU and to the MAC accelerator: one *)
(* memory behind two OBI channels.                                         *)
(*                                                                         *)
(*   - One transaction is pending at a time; it was requested, and no data *)
(*     request is passed over for a fetch.                                 *)
(*   - It is answered at most once, on the bus that asked, with a value    *)
(*     the cell held while the transaction was pending.                    *)
(*   - A store to the RAM is visible when it is answered and may be        *)
(*     visible earlier; whatever port A writes to its cell in between is   *)
(*     lost.  Nothing else but port A writes the RAM.                      *)
(*   - Reset forgets the pending transaction and keeps the RAM.            *)
(*                                                                         *)
(* There is no APB here: no phases, no slaves, no decoder.  SocBus is      *)
(* shown to implement SafeSpec.                                            *)
(***************************************************************************)
EXTENDS Integers

CONSTANTS Addr, Data, Zero, MacAddr, MacData, Image, NoReq, NoWrite, NoPending

VARIABLES
    req,            \* the request lines of the CPU
    pending,        \* NoPending, or [bus, addr, write, wdata]
    taken,          \* the cell was read since the transaction was accepted
    value,          \* what it held at the last edge
    mem, rvalid, rdata

obi == <<req, pending, taken, value, mem, rvalid, rdata>>

Bus == {"DATA", "INSTR"}

RAM_WORDS == 256
Ram(a) == a < RAM_WORDS

Word(byte) == (byte \div 4) % 1024

Init ==
    /\ req = [b \in Bus |-> NoReq]
    /\ pending = NoPending
    /\ taken = FALSE
    /\ value = Zero
    /\ mem = Image
    /\ rvalid = [b \in Bus |-> FALSE]
    /\ rdata = [b \in Bus |-> Zero]

\* A request that is not accepted stays on the lines of its bus.
KeepRequests(accepted) ==
    \A b \in Bus : req[b] # NoReq /\ b \notin accepted => req'[b] = req[b]

Write(m, w) == IF w = NoWrite THEN m ELSE [m EXCEPT ![w.addr] = w.data]

\* The RAM after an edge at which port A may write anything and the CPU w.
Memory(w) ==
    \E a \in [addr : MacAddr, data : MacData] \cup {NoWrite} :
        mem' \in {Write(Write(mem, a), w), Write(Write(mem, w), a)}

Quiet == rvalid' = [b \in Bus |-> FALSE] /\ UNCHANGED rdata

\* The write of the pending transaction, if it is a store to the RAM.
PendingWrite ==
    IF pending.write /\ Ram(pending.addr)
    THEN [addr |-> pending.addr, data |-> pending.wdata] ELSE NoWrite

Idle ==
    /\ pending = NoPending
    /\ UNCHANGED <<pending, taken, value>>
    /\ Quiet /\ Memory(NoWrite) /\ KeepRequests({})

Accept(b) ==
    /\ pending = NoPending
    /\ req[b] # NoReq
    /\ b = "INSTR" => req["DATA"] = NoReq
    /\ pending' = [bus |-> b, addr |-> Word(req[b].addr),
                   write |-> req[b].we, wdata |-> req[b].wdata]
    /\ UNCHANGED <<taken, value>>
    /\ Quiet /\ Memory(NoWrite) /\ KeepRequests({b})

\* The transaction is under way; a store may already take effect.
Work ==
    /\ pending # NoPending
    /\ taken' = TRUE
    /\ value' = mem[pending.addr]
    /\ UNCHANGED pending
    /\ Quiet
    /\ Memory(NoWrite) \/ Memory(PendingWrite)
    /\ KeepRequests({})

Answer ==
    IF pending.write THEN {Zero}
    ELSE IF Ram(pending.addr) THEN {value}
    ELSE Data

\* The answer.  A store takes effect at the latest now.
Respond ==
    /\ pending # NoPending /\ taken
    /\ pending' = NoPending
    /\ taken' = FALSE
    /\ value' = Zero
    /\ rvalid' = [b \in Bus |-> b = pending.bus]
    /\ \E v \in Answer : rdata' = [rdata EXCEPT ![pending.bus] = v]
    /\ Memory(PendingWrite) /\ KeepRequests({})

Reset ==
    /\ req' = [b \in Bus |-> NoReq]
    /\ pending' = NoPending
    /\ taken' = FALSE
    /\ value' = Zero
    /\ rvalid' = [b \in Bus |-> FALSE]
    /\ rdata' = [b \in Bus |-> Zero]
    /\ UNCHANGED mem

Next == Idle \/ (\E b \in Bus : Accept(b)) \/ Work \/ Respond \/ Reset

SafeSpec == Init /\ [][Next]_obi
=============================================================================
