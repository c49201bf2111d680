--------------------------- MODULE SocBus_proofs ---------------------------
(***************************************************************************)
(* Safety of the bus fabric for every set of addresses, every data type    *)
(* and every program, and that it implements ObiMemory: theorems of        *)
(* SocBus!Spec.                                                            *)
(***************************************************************************)
EXTENDS SocBusImplements, TLAPS

USE DEF Arbiter!Bus, Slave!SlaveState, Slaves

-----------------------------------------------------------------------------
(* Facts about the wires.                                                  *)

\* The fields of an OBI request.
LEMMA RequestFields ==
    ASSUME NEW r \in Cpu!Loads \cup Cpu!Stores
    PROVE  /\ r.addr \in ByteAddr /\ r.we \in BOOLEAN /\ r.wdata \in Data
           /\ r \in Cpu!Loads => ~r.we
           /\ r # NoReq
PROOF
<1>1. r # NoReq
  BY SocBusAssumption
<1>2. CASE r \in Cpu!Loads
  <2>1. PICK a \in ByteAddr : r = Cpu!Load(a)
    BY <1>2 DEF Cpu!Loads
  <2>2. r = [addr |-> a, we |-> FALSE, be |-> AllBytes, wdata |-> Zero]
    BY <2>1 DEF Cpu!Load
  <2> QED
    BY <1>1, <2>2, SocBusAssumption
<1>3. CASE r \notin Cpu!Loads
  BY <1>1, <1>3 DEF Cpu!Stores
<1> QED
  BY <1>2, <1>3

\* The address the arbiter puts on the bus is one PADDR may have, and the
\* request it forwards is well formed; a forwarded fetch is a read.
LEMMA ForwardedRequest ==
    ASSUME TypeOK, Arbiter!i_req(req)
    PROVE  /\ Arbiter!Request(req) \in Master!Xfer
           /\ Arbiter!Request(req) # NoReq
           /\ Arbiter!Forwarded(req) \in Arbiter!Bus
           /\ Arbiter!Forwarded(req) = "INSTR" => ~Arbiter!Request(req).write
PROOF
<1> DEFINE r == req[Arbiter!Forwarded(req)]
<1>1. /\ Arbiter!Forwarded(req) \in {"DATA", "INSTR"}
      /\ r \in Cpu!Loads \cup Cpu!Stores
      /\ Arbiter!Forwarded(req) = "INSTR" => r \in Cpu!Loads
  BY DEF TypeOK, Cpu!CpuTypeOK, Arbiter!i_req, Arbiter!Forwarded
<1>2. /\ r.addr \in ByteAddr /\ r.we \in BOOLEAN /\ r.wdata \in Data
      /\ r \in Cpu!Loads => ~r.we
  BY <1>1, RequestFields
<1>3. Arbiter!Request(req) =
        [addr |-> Arbiter!WordAddr(r.addr), write |-> r.we, wdata |-> r.wdata]
  BY DEF Arbiter!Request
<1>4. Arbiter!WordAddr(r.addr) \in Addr
  BY <1>2 DEF Addr
<1>5. Arbiter!Request(req) \in Master!Xfer
  BY <1>2, <1>3, <1>4 DEF Master!Xfer
<1> QED
  BY <1>1, <1>2, <1>3, <1>5, SocBusAssumption

LEMMA AddrNat == \A a \in Addr : a \in Nat
  BY SocBusAssumption DEF Addr, Arbiter!WordAddr

LEMMA SelectValues == \A a : Select(a) \in {"MEM", "MULT", "UART", "NONE"}
  BY DEF Select

\* What the master hands back to the arbiter is a data word.
LEMMA ReadDataIsData ==
    ASSUME TypeOK, NEW preg \in Data
    PROVE  Master!o_rdata(PREADY, PRDATA(preg)) \in Data
  BY SocBusAssumption
  DEF TypeOK, Master!o_rdata, PRDATA, Slave!PRDATA

-----------------------------------------------------------------------------
(* Type correctness.  Each block keeps its types at a clock edge.          *)

\* The reset values.
LEMMA ResetValues ==
    /\ 0 \in Addr /\ Zero \in Data /\ 0 \in 0..MaxBurst
    /\ Transparent \in [ready : BOOLEAN, data : Data]
    /\ Image \in [Addr -> Data]
  BY SocBusAssumption DEF Addr, Transparent

LEMMA InitType == Init => TypeOK
PROOF
<1> SUFFICES ASSUME Init PROVE TypeOK
  OBVIOUS
<1>1. Arbiter!ArbiterTypeOK
  BY ResetValues DEF Init, Arbiter!Init, Arbiter!ArbiterTypeOK
<1>2. Master!MasterTypeOK
  BY ResetValues DEF Init, Master!Init, Master!MasterTypeOK
<1>3. Cpu!CpuTypeOK
  BY ResetValues DEF Init, Cpu!Init, Cpu!CpuTypeOK
<1>4. /\ slave \in [Slaves -> Slave!SlaveState]
      /\ latch \in [ready : BOOLEAN, data : Data]
      /\ mem \in [Addr -> Data]
      /\ b_read_data \in Data
  BY ResetValues DEF Init
<1> QED
  BY <1>1, <1>2, <1>3, <1>4 DEF TypeOK

LEMMA ArbiterType ==
    ASSUME TypeOK, Clock PROVE Arbiter!ArbiterTypeOK'
PROOF
<1>1. PICK preg \in Data :
        Arbiter!Tick(req, o_gnt, o_ready, Master!o_rdata(PREADY, PRDATA(preg)))
  BY DEF Clock
<1>2. CASE Arbiter!Accept(req, o_gnt)
  <2>1. Arbiter!Forwarded(req) \in Arbiter!Bus
    BY <1>2, ForwardedRequest DEF Arbiter!Accept
  <2> QED
    BY <1>2, <2>1 DEF Arbiter!Accept, TypeOK, Arbiter!ArbiterTypeOK
<1>3. CASE Arbiter!Deliver(o_ready, Master!o_rdata(PREADY, PRDATA(preg)))
  BY <1>3, ReadDataIsData DEF Arbiter!Deliver, TypeOK, Arbiter!ArbiterTypeOK
<1>4. CASE Arbiter!Hold(req, o_gnt, o_ready)
  BY <1>4 DEF Arbiter!Hold, TypeOK, Arbiter!ArbiterTypeOK
<1> QED
  BY <1>1, <1>2, <1>3, <1>4 DEF Arbiter!Tick

\* What the master latches when a request is forwarded.
LEMMA IreqXfer ==
    ASSUME TypeOK, ireq # NoReq
    PROVE  /\ ireq \in Master!Xfer
           /\ Arbiter!i_req(req)
           /\ ireq = Arbiter!Request(req)
  BY ForwardedRequest DEF ireq

LEMMA MasterType ==
    ASSUME TypeOK, Clock PROVE Master!MasterTypeOK'
PROOF
<1>1. Master!Tick(ireq, PREADY)
  BY DEF Clock
<1>2. mstate' \in {"IDLE", "SETUP", "ACCESS"}
  BY <1>1 DEF Master!Tick, Master!Start, Master!Setup, Master!Access
<1>3. addr_reg' \in Addr /\ wdata_reg' \in Data /\ write_reg' \in BOOLEAN
  <2>1. CASE ireq # NoReq
    BY <1>1, <2>1, IreqXfer DEF Master!Tick, Master!Latch, Master!Xfer
  <2>2. CASE ireq = NoReq
    BY <1>1, <2>2 DEF Master!Tick, Master!Latch, TypeOK, Master!MasterTypeOK
  <2> QED
    BY <2>1, <2>2
<1> QED
  BY <1>2, <1>3 DEF Master!MasterTypeOK

LEMMA SlaveType ==
    ASSUME TypeOK, Clock PROVE (slave \in [Slaves -> Slave!SlaveState])'
  BY DEF Clock, SlavesTick, Slave!NextState

LEMMA LatchType ==
    ASSUME TypeOK, Clock PROVE (latch \in [ready : BOOLEAN, data : Data])'
PROOF
<1>1. LatchTick
  BY DEF Clock
<1>2. CASE Mapped(addr_reg')
  <2>1. latch' = Transparent
    BY <1>1, <1>2 DEF LatchTick
  <2> QED
    BY <2>1, ResetValues
<1>3. CASE ~Mapped(addr_reg') /\ Mapped(addr_reg)
  <2>1. PICK st \in {slave[sel], slave'[sel]}, d \in Data :
          latch' = [ready |-> Slave!PREADY(st),
                    data  |-> Slave!PRDATA(st, FALSE, d, Zero)]
    BY <1>1, <1>3 DEF LatchTick
  <2>2. Slave!PREADY(st) \in BOOLEAN /\ Slave!PRDATA(st, FALSE, d, Zero) \in Data
    BY ResetValues DEF Slave!PREADY, Slave!PRDATA
  <2> QED
    BY <2>1, <2>2
<1>4. CASE ~Mapped(addr_reg') /\ ~Mapped(addr_reg)
  BY <1>1, <1>4 DEF LatchTick, TypeOK
<1> QED
  BY <1>2, <1>3, <1>4

\* A write to the RAM keeps its type.
LEMMA WriteType ==
    ASSUME NEW m \in [Addr -> Data],
           NEW w \in [addr : Addr, data : Data] \cup {NoWrite}
    PROVE  Ram!Write(m, w) \in [Addr -> Data]
  BY DEF Ram!Write

LEMMA RamType ==
    ASSUME TypeOK, Clock
    PROVE  (mem \in [Addr -> Data] /\ b_read_data \in Data)'
PROOF
<1>1. PICK a_write \in MacWrite \cup {NoWrite} :
        Ram!Tick(a_write, b_write, addr_reg)
  BY DEF Clock
<1>2. b_write \in [addr : Addr, data : Data] \cup {NoWrite}
  BY DEF b_write, TypeOK, Master!MasterTypeOK
<1>3. a_write \in [addr : Addr, data : Data] \cup {NoWrite}
  BY SocBusAssumption DEF MacWrite
<1>4. mem \in [Addr -> Data] /\ addr_reg \in Addr
  BY DEF TypeOK, Master!MasterTypeOK
<1>5. /\ Ram!Write(mem, a_write) \in [Addr -> Data]
      /\ Ram!Write(mem, b_write) \in [Addr -> Data]
  BY <1>2, <1>3, <1>4, WriteType
<1>6. /\ Ram!Write(Ram!Write(mem, a_write), b_write) \in [Addr -> Data]
      /\ Ram!Write(Ram!Write(mem, b_write), a_write) \in [Addr -> Data]
  BY <1>2, <1>3, <1>5, WriteType
<1> QED
  BY <1>1, <1>4, <1>6 DEF Ram!Tick

LEMMA CpuType ==
    ASSUME TypeOK, Clock PROVE Cpu!CpuTypeOK'
PROOF
<1> USE DEF Cpu!RaisesData
<1>1. PICK d \in Cpu!NextLines("DATA", granted), i \in Cpu!NextLines("INSTR", granted) :
        LET spent == IF rvalid["INSTR"] THEN 0 ELSE burst IN
        /\ Cpu!RaisesData(granted, d) => spent < MaxBurst
        /\ req' = [DATA |-> d, INSTR |-> i]
        /\ burst' = IF Cpu!RaisesData(granted, d) THEN spent + 1 ELSE spent
  BY DEF Clock, Cpu!Tick
<1>2. /\ d \in Cpu!Loads \cup Cpu!Stores \cup {NoReq}
      /\ i \in Cpu!Loads \cup {NoReq}
  BY DEF Cpu!NextLines, Cpu!Requests, TypeOK, Cpu!CpuTypeOK
<1>3. burst' \in 0..MaxBurst
  BY <1>1, SocBusAssumption DEF TypeOK, Cpu!CpuTypeOK
<1> QED
  BY <1>1, <1>2, <1>3 DEF Cpu!CpuTypeOK

LEMMA ResetType == ASSUME TypeOK, Reset PROVE TypeOK'
PROOF
<1>1. Arbiter!ArbiterTypeOK'
  BY ResetValues DEF Reset, Arbiter!Reset, Arbiter!ArbiterTypeOK
<1>2. Master!MasterTypeOK'
  BY ResetValues DEF Reset, Master!Reset, Master!MasterTypeOK
<1>3. Cpu!CpuTypeOK'
  BY ResetValues DEF Reset, Cpu!Reset, Cpu!CpuTypeOK
<1>4. (slave \in [Slaves -> Slave!SlaveState])'
  BY DEF Reset
<1>5. (latch \in [ready : BOOLEAN, data : Data])'
  BY ResetValues DEF Reset
<1>6. (mem \in [Addr -> Data] /\ b_read_data \in Data)'
  BY ResetValues DEF Reset, TypeOK
<1> QED
  BY <1>1, <1>2, <1>3, <1>4, <1>5, <1>6 DEF TypeOK

LEMMA TypeStep == TypeOK /\ [Next]_vars => TypeOK'
PROOF
<1> SUFFICES ASSUME TypeOK, [Next]_vars PROVE TypeOK'
  OBVIOUS
<1>1. CASE Clock
  BY <1>1, ArbiterType, MasterType, SlaveType, LatchType, RamType, CpuType DEF TypeOK
<1>2. CASE Reset
  BY <1>2, ResetType
<1>3. CASE UNCHANGED vars
  BY <1>3 DEF vars, arbiter, master, ram, cpu, TypeOK, Arbiter!ArbiterTypeOK,
              Master!MasterTypeOK, Cpu!CpuTypeOK
<1> QED
  BY <1>1, <1>2, <1>3 DEF Next

\* Every register, wire and RAM cell of the fabric keeps its type, whatever
\* the CPU requests, the MAC writes and the reset pin does.
THEOREM TypeCorrect == Spec => []TypeOK
PROOF
<1>1. Init => TypeOK
  BY InitType
<1>2. TypeOK /\ [Next]_vars => TypeOK'
  BY TypeStep
<1> QED
  BY <1>1, <1>2, PTL DEF Spec
-----------------------------------------------------------------------------
(* The arbiter, the master and the selected slave stay in step.            *)

\* While a transfer is under way the arbiter forwards nothing, so the master
\* keeps the registers of the transfer.
LEMMA BusyKeepsRegisters ==
    ASSUME TypeOK, BusInv, Clock, mstate # "IDLE"
    PROVE  UNCHANGED <<addr_reg, wdata_reg, write_reg>>
PROOF
<1>1. in_flight # "NONE"
  BY DEF BusInv, Tracking
<1>2. ireq = NoReq
  BY <1>1 DEF ireq, Arbiter!i_req
<1> QED
  BY <1>2 DEF Clock, Master!Tick, Master!Latch

\* An idle master with a request from the arbiter: both take it.  An idle
\* master without one: both stay idle.
LEMMA IdleStep ==
    ASSUME TypeOK, BusInv, Clock, mstate = "IDLE"
    PROVE  \/ /\ ireq # NoReq /\ mstate' = "SETUP"
              /\ in_flight' = Arbiter!Forwarded(req)
              /\ in_flight' \in {"DATA", "INSTR"}
              /\ write_reg' = Arbiter!Request(req).write
           \/ /\ ireq = NoReq /\ mstate' = "IDLE" /\ in_flight' = "NONE"
PROOF
<1>1. in_flight = "NONE" /\ o_gnt
  BY DEF BusInv, Tracking, o_gnt, Master!o_gnt
<1>2. Master!Tick(ireq, PREADY)
  BY DEF Clock
<1>3. PICK preg \in Data :
        Arbiter!Tick(req, o_gnt, o_ready, Master!o_rdata(PREADY, PRDATA(preg)))
  BY DEF Clock
<1>4. CASE Arbiter!i_req(req)
  <2>1. ireq = Arbiter!Request(req) /\ ireq # NoReq
    BY <1>4, ForwardedRequest DEF ireq
  <2>2. mstate' = "SETUP" /\ write_reg' = Arbiter!Request(req).write
    BY <1>2, <2>1 DEF Master!Tick, Master!Start, Master!Setup, Master!Access, Master!Latch
  <2>3. in_flight' = Arbiter!Forwarded(req)
    BY <1>1, <1>3, <1>4
    DEF Arbiter!Tick, Arbiter!Accept, Arbiter!Deliver, Arbiter!Hold
  <2>4. Arbiter!Forwarded(req) \in {"DATA", "INSTR"}
    BY <1>4, ForwardedRequest
  <2> QED
    BY <2>1, <2>2, <2>3, <2>4
<1>5. CASE ~Arbiter!i_req(req)
  <2>1. ireq = NoReq
    BY <1>5 DEF ireq
  <2>2. mstate' = "IDLE"
    BY <1>2, <2>1 DEF Master!Tick, Master!Start, Master!Setup, Master!Access
  <2>3. in_flight' = "NONE"
    BY <1>1, <1>3, <1>5
    DEF Arbiter!Tick, Arbiter!Accept, Arbiter!Deliver, Arbiter!Hold
  <2> QED
    BY <2>1, <2>2, <2>3
<1> QED
  BY <1>4, <1>5

\* A master under way: the arbiter frees the bus exactly when it finishes.
LEMMA BusyStep ==
    ASSUME TypeOK, BusInv, Clock, mstate # "IDLE"
    PROVE  \/ /\ mstate = "SETUP" /\ mstate' = "ACCESS" /\ in_flight' = in_flight
           \/ /\ mstate = "ACCESS" /\ ~PREADY
              /\ mstate' = "ACCESS" /\ in_flight' = in_flight
           \/ /\ mstate = "ACCESS" /\ PREADY
              /\ mstate' = "IDLE" /\ in_flight' = "NONE"
PROOF
<1>1. in_flight # "NONE"
  BY DEF BusInv, Tracking
<1>2. Master!Tick(ireq, PREADY)
  BY DEF Clock
<1>3. PICK preg \in Data :
        Arbiter!Tick(req, o_gnt, o_ready, Master!o_rdata(PREADY, PRDATA(preg)))
  BY DEF Clock
<1>4. CASE mstate = "SETUP"
  <2>1. ~o_ready
    BY <1>4 DEF o_ready, Master!o_ready
  <2>2. in_flight' = in_flight
    BY <1>1, <1>3, <2>1
    DEF Arbiter!Tick, Arbiter!Accept, Arbiter!Deliver, Arbiter!Hold, Arbiter!i_req
  <2> QED
    BY <1>2, <1>4, <2>2 DEF Master!Tick, Master!Start, Master!Setup, Master!Access
<1>5. CASE mstate = "ACCESS" /\ ~PREADY
  <2>1. ~o_ready
    BY <1>5 DEF o_ready, Master!o_ready
  <2>2. in_flight' = in_flight
    BY <1>1, <1>3, <2>1
    DEF Arbiter!Tick, Arbiter!Accept, Arbiter!Deliver, Arbiter!Hold, Arbiter!i_req
  <2> QED
    BY <1>2, <1>5, <2>2 DEF Master!Tick, Master!Start, Master!Setup, Master!Access
<1>6. CASE mstate = "ACCESS" /\ PREADY
  <2>1. o_ready
    BY <1>6 DEF o_ready, Master!o_ready
  <2>2. in_flight' = "NONE"
    BY <1>1, <1>3, <2>1
    DEF Arbiter!Tick, Arbiter!Accept, Arbiter!Deliver, Arbiter!Hold, Arbiter!i_req
  <2> QED
    BY <1>2, <1>6, <2>2 DEF Master!Tick, Master!Start, Master!Setup, Master!Access
<1> QED
  BY <1>4, <1>5, <1>6 DEF TypeOK, Master!MasterTypeOK

LEMMA TrackingStep ==
    ASSUME TypeOK, BusInv, Clock PROVE Tracking'
PROOF
<1>1. CASE mstate = "IDLE"
  BY <1>1, IdleStep DEF Tracking
<1>2. CASE mstate # "IDLE"
  BY <1>2, BusyStep DEF BusInv, Tracking
<1> QED
  BY <1>1, <1>2

LEMMA SlaveReadyStep ==
    ASSUME TypeOK, BusInv, Clock PROVE SlaveReady'
PROOF
<1> SUFFICES ASSUME mstate' = "ACCESS", Mapped(addr_reg')
             PROVE  slave'[Select(addr_reg')] \in {"WAIT", "ACCESS"}
  BY DEF SlaveReady, sel
<1>1. mstate # "IDLE"
  BY IdleStep
<1>2. addr_reg' = addr_reg
  BY <1>1, BusyKeepsRegisters
<1>3. sel \in Slaves
  BY <1>2, SelectValues DEF Mapped, sel
<1>4. slave'[sel] = Slave!NextState(slave[sel], PSEL(addr_reg, sel), Master!PENABLE)
  BY <1>3 DEF Clock, SlavesTick
<1>5. PSEL(addr_reg, sel)
  BY DEF PSEL, sel
<1>6. CASE mstate = "SETUP"
  BY <1>2, <1>4, <1>5, <1>6 DEF Slave!NextState, Master!PENABLE, sel
<1>7. CASE mstate = "ACCESS"
  <2>1. slave[sel] \in {"WAIT", "ACCESS"}
    BY <1>2, <1>7 DEF BusInv, SlaveReady
  <2>2. ~PREADY
    BY <1>7, BusyStep
  <2>3. slave[sel] = "WAIT"
    BY <1>3, <2>1, <2>2 DEF PREADY, Slave!PREADY
  <2> QED
    BY <1>2, <1>4, <2>3 DEF Slave!NextState, sel
<1> QED
  BY <1>1, <1>6, <1>7 DEF TypeOK, Master!MasterTypeOK

LEMMA FetchReadsStep ==
    ASSUME TypeOK, BusInv, Clock PROVE FetchReads'
PROOF
<1>1. CASE mstate = "IDLE"
  <2>1. CASE ireq # NoReq
    BY <1>1, <2>1, IdleStep, IreqXfer, ForwardedRequest DEF FetchReads
  <2>2. CASE ireq = NoReq
    BY <1>1, <2>2, IdleStep DEF FetchReads
  <2> QED
    BY <2>1, <2>2
<1>2. CASE mstate # "IDLE"
  BY <1>2, BusyStep, BusyKeepsRegisters DEF BusInv, FetchReads
<1> QED
  BY <1>1, <1>2

LEMMA BusInvStep == TypeOK /\ BusInv /\ [Next]_vars => BusInv'
PROOF
<1> SUFFICES ASSUME TypeOK, BusInv, [Next]_vars PROVE BusInv'
  OBVIOUS
<1>1. CASE Clock
  BY <1>1, TrackingStep, SlaveReadyStep, FetchReadsStep DEF BusInv
<1>2. CASE Reset
  BY <1>2 DEF Reset, Arbiter!Reset, Master!Reset, BusInv, Tracking, SlaveReady, FetchReads
<1>3. CASE UNCHANGED vars
  BY <1>3 DEF vars, arbiter, master, BusInv, Tracking, SlaveReady, FetchReads, sel
<1> QED
  BY <1>1, <1>2, <1>3 DEF Next

LEMMA BusInvInit == Init => BusInv
  BY DEF Init, Arbiter!Init, Master!Init, BusInv, Tracking, SlaveReady, FetchReads

\* For every program: the arbiter's in_flight and the master's state agree,
\* the addressed slave is ready for the ACCESS phase, and fetches are reads.
THEOREM BusInvariant == Spec => []BusInv
PROOF
<1>1. Init => BusInv
  BY BusInvInit
<1>2. TypeOK /\ BusInv /\ [Next]_vars => BusInv'
  BY BusInvStep
<1> QED
  BY <1>1, <1>2, TypeCorrect, PTL DEF Spec

\* No slave is written while a fetch is on the bus, and only the slave the
\* address selects is.
THEOREM FetchesDoNotWrite == Spec => []FetchNeverWrites
PROOF
<1>1. TypeOK /\ BusInv => FetchNeverWrites
  BY DEF TypeOK, Arbiter!ArbiterTypeOK, BusInv, Tracking, FetchReads,
         FetchNeverWrites, Strobe, Slave!WriteStrobe, PSEL, sel, Master!PENABLE
<1> QED
  BY <1>1, BusInvariant, TypeCorrect, PTL

\* A transfer to a mapped address has at most one wait state: the latency of
\* every load, store and fetch in the mapped range is bounded.
THEOREM WaitStates == Spec => AtMostOneWaitState
PROOF
<1>1. ASSUME TypeOK, BusInv, [Next]_vars, Mapped(addr_reg),
             mstate = "ACCESS", mstate' = "ACCESS", ~(UNCHANGED vars)
      PROVE  PREADY'
  <2>1. Clock
    BY <1>1 DEF Next, Reset, Master!Reset
  <2>2. ~PREADY /\ addr_reg' = addr_reg
    BY <1>1, <2>1, BusyStep, BusyKeepsRegisters
  <2>3. sel \in Slaves /\ sel # "NONE" /\ sel' = sel
    BY <1>1, <2>2, SelectValues DEF Mapped, sel
  <2>4. slave[sel] = "WAIT"
    BY <1>1, <2>2, <2>3 DEF BusInv, SlaveReady, PREADY, Slave!PREADY
  <2>5. slave'[sel] = "ACCESS"
    BY <2>1, <2>3, <2>4 DEF Clock, SlavesTick, Slave!NextState
  <2> QED
    BY <2>3, <2>5 DEF PREADY, Slave!PREADY
<1>2. TypeOK /\ BusInv /\ [Next]_vars =>
        [Mapped(addr_reg) /\ mstate = "ACCESS" /\ mstate' = "ACCESS" => PREADY']_vars
  BY <1>1
<1> QED
  BY <1>2, BusInvariant, TypeCorrect, PTL DEF Spec, AtMostOneWaitState

\* The APB stability rule: nothing on the address, direction and write data
\* wires changes during a transfer.
THEOREM TransfersStable == Spec => StableTransfer
PROOF
<1>1. TypeOK /\ BusInv /\ [Next]_vars =>
        [mstate # "IDLE" /\ mstate' # "IDLE" =>
           UNCHANGED <<addr_reg, wdata_reg, write_reg>>]_vars
  BY BusyKeepsRegisters DEF Next, Reset, Master!Reset
<1> QED
  BY <1>1, BusInvariant, TypeCorrect, PTL DEF Spec, StableTransfer
-----------------------------------------------------------------------------
(***************************************************************************)
(* SocBus implements ObiMemory, for every value of the constants.  Each    *)
(* clock edge is one step of ObiMemory, chosen by the state of the master: *)
(* IDLE maps to Idle or Accept, SETUP and a wait state to Work, the last   *)
(* cycle of ACCESS to Respond.                                             *)
(***************************************************************************)

USE DEF Obi!Bus

\* The two modules describe the RAM's write in the same way.
LEMMA SameWrite == \A m, w : Obi!Write(m, w) = Ram!Write(m, w)
  BY DEF Obi!Write, Ram!Write

\* At every clock edge the RAM takes the write of port A and that of port B.
LEMMA RamEdge ==
    ASSUME TypeOK, Clock
    PROVE  Obi!Memory(b_write) /\ b_read_data' = mem[addr_reg]
PROOF
<1>1. PICK a_write \in MacWrite \cup {NoWrite} :
        Ram!Tick(a_write, b_write, addr_reg)
  BY DEF Clock
<1>2. a_write \in [addr : MacAddr, data : MacData] \cup {NoWrite}
  BY DEF MacWrite
<1>3. mem' \in {Obi!Write(Obi!Write(mem, a_write), b_write),
                Obi!Write(Obi!Write(mem, b_write), a_write)}
  BY <1>1, SameWrite DEF Ram!Tick
<1> QED
  BY <1>1, <1>2, <1>3 DEF Obi!Memory, Ram!Tick

\* Port B writes exactly in the ACCESS phase of a store to the RAM.
LEMMA PortBWrite ==
    ASSUME TypeOK, BusInv
    PROVE  /\ mstate # "ACCESS" => b_write = NoWrite
           /\ mstate = "ACCESS" => b_write = Obi!PendingWrite
PROOF
<1>1. addr_reg \in Nat
  BY AddrNat DEF TypeOK, Master!MasterTypeOK
<1>2. Select(addr_reg) = "MEM" <=> Obi!Ram(addr_reg)
  BY <1>1 DEF Select, MEM_BASE_ADDR, MULT_BASE_ADDR, UART_BASE_ADDR, MAX_ADDR,
              Obi!Ram, Obi!RAM_WORDS
<1>3. CASE mstate # "ACCESS"
  BY <1>3 DEF b_write, Strobe, Slave!WriteStrobe, Master!PENABLE
<1>4. CASE mstate = "ACCESS"
  <2>1. pending = [bus |-> in_flight, addr |-> addr_reg, write |-> write_reg,
                   wdata |-> wdata_reg]
    BY <1>4 DEF pending, BusInv, Tracking
  <2>2. Strobe("MEM") <=> (write_reg /\ Obi!Ram(addr_reg))
    BY <1>2, <1>4 DEF Strobe, Slave!WriteStrobe, Master!PENABLE, PSEL
  <2> QED
    BY <1>4, <2>1, <2>2 DEF b_write, Obi!PendingWrite
<1> QED
  BY <1>3, <1>4

\* A request that is not granted in this cycle is still there in the next.
LEMMA RequestsStay ==
    ASSUME TypeOK, Clock, NEW accepted \in SUBSET Obi!Bus,
           \A b \in Obi!Bus : granted[b] => b \in accepted
    PROVE  Obi!KeepRequests(accepted)
PROOF
<1>1. PICK d \in Cpu!NextLines("DATA", granted), i \in Cpu!NextLines("INSTR", granted) :
        req' = [DATA |-> d, INSTR |-> i]
  BY DEF Clock, Cpu!Tick
<1>2. req["DATA"] # NoReq /\ "DATA" \notin accepted => d = req["DATA"]
  BY DEF Cpu!NextLines
<1>3. req["INSTR"] # NoReq /\ "INSTR" \notin accepted => i = req["INSTR"]
  BY DEF Cpu!NextLines
<1> QED
  BY <1>1, <1>2, <1>3 DEF Obi!KeepRequests

LEMMA GrantedBus ==
    \A b \in Obi!Bus : granted[b] <=> (Arbiter!i_req(req) /\ o_gnt /\ b = Arbiter!Forwarded(req))
  BY DEF granted, Arbiter!Granted

\* Without a finished transfer no response pulse is raised.
LEMMA NoResponse ==
    ASSUME TypeOK, BusInv, Clock, ~o_ready
    PROVE  Obi!Quiet
PROOF
<1>1. PICK preg \in Data :
        Arbiter!Tick(req, o_gnt, o_ready, Master!o_rdata(PREADY, PRDATA(preg)))
  BY DEF Clock
<1> QED
  BY <1>1 DEF Arbiter!Tick, Arbiter!Accept, Arbiter!Deliver, Arbiter!Hold, Obi!Quiet

-----------------------------------------------------------------------------
(* The clock edge of each state of the master.                             *)

LEMMA IdleMaps ==
    ASSUME TypeOK, BusInv, Clock, mstate = "IDLE", ireq = NoReq
    PROVE  Obi!Idle
PROOF
<1>1. mstate' = "IDLE" /\ in_flight' = "NONE" /\ in_flight = "NONE"
  BY IdleStep DEF BusInv, Tracking
<1>2. pending = NoPending /\ UNCHANGED <<pending, taken, value>>
  BY <1>1 DEF pending, taken, value
<1>3. Obi!Quiet
  BY NoResponse DEF o_ready, Master!o_ready
<1>4. Obi!Memory(NoWrite)
  BY RamEdge, PortBWrite
<1>5. ~Arbiter!i_req(req)
  BY ForwardedRequest DEF ireq
<1>6. Obi!KeepRequests({})
  BY <1>5, RequestsStay, GrantedBus
<1> QED
  BY <1>2, <1>3, <1>4, <1>6 DEF Obi!Idle

\* What the master latches is the request of the bus the arbiter forwards.
LEMMA AcceptMaps ==
    ASSUME TypeOK, BusInv, Clock, mstate = "IDLE", ireq # NoReq
    PROVE  \E b \in Obi!Bus : Obi!Accept(b)
PROOF
<1> DEFINE b == Arbiter!Forwarded(req)
<1>1. /\ mstate' = "SETUP" /\ in_flight' = b /\ b \in {"DATA", "INSTR"}
      /\ in_flight = "NONE"
  BY IdleStep DEF BusInv, Tracking
<1>2. Arbiter!i_req(req) /\ ireq = Arbiter!Request(req)
  BY IreqXfer
<1>3. /\ addr_reg' = Arbiter!Request(req).addr
      /\ write_reg' = Arbiter!Request(req).write
      /\ wdata_reg' = Arbiter!Request(req).wdata
  BY <1>2 DEF Clock, Master!Tick, Master!Latch
<1>4. Arbiter!Request(req) =
        [addr |-> Obi!Word(req[b].addr), write |-> req[b].we, wdata |-> req[b].wdata]
  BY DEF Arbiter!Request, Arbiter!WordAddr, Obi!Word
<1>5. pending' = [bus |-> b, addr |-> Obi!Word(req[b].addr),
                  write |-> req[b].we, wdata |-> req[b].wdata]
  BY <1>1, <1>3, <1>4 DEF pending
<1>6. pending = NoPending /\ UNCHANGED <<taken, value>>
  BY <1>1 DEF pending, taken, value
<1>7. req[b] # NoReq /\ (b = "INSTR" => req["DATA"] = NoReq)
  BY <1>1 DEF Arbiter!Forwarded
<1>8. Obi!Quiet
  BY NoResponse DEF o_ready, Master!o_ready
<1>9. Obi!Memory(NoWrite)
  BY RamEdge, PortBWrite
<1>10. Obi!KeepRequests({b})
  BY <1>1, RequestsStay, GrantedBus
<1>11. Obi!Accept(b)
  BY <1>5, <1>6, <1>7, <1>8, <1>9, <1>10 DEF Obi!Accept
<1> QED
  BY <1>1, <1>11

\* The transaction pending while the master is busy.
LEMMA BusyPending ==
    ASSUME TypeOK, BusInv, mstate # "IDLE"
    PROVE  /\ pending # NoPending
           /\ pending = [bus |-> in_flight, addr |-> addr_reg,
                         write |-> write_reg, wdata |-> wdata_reg]
           /\ in_flight \in {"DATA", "INSTR"}
PROOF
<1>1. in_flight # "NONE" /\ in_flight \in {"DATA", "INSTR"}
  BY DEF BusInv, Tracking, TypeOK, Arbiter!ArbiterTypeOK
<1>2. pending = [bus |-> in_flight, addr |-> addr_reg, write |-> write_reg,
                 wdata |-> wdata_reg]
  BY <1>1 DEF pending
<1> DEFINE x == [addr |-> addr_reg, write |-> write_reg, wdata |-> wdata_reg]
<1>3. x \in Master!Xfer
  BY DEF TypeOK, Master!MasterTypeOK, Master!Xfer
<1>4. pending = [bus |-> in_flight, addr |-> x.addr, write |-> x.write,
                 wdata |-> x.wdata]
  BY <1>2
<1> HIDE DEF x
<1>5. pending # NoPending
  BY <1>1, <1>3, <1>4, NoPendingAssumption
<1> QED
  BY <1>1, <1>2, <1>5

\* While the master is busy the arbiter grants nothing.
LEMMA BusyRequestsStay ==
    ASSUME TypeOK, BusInv, Clock, mstate # "IDLE"
    PROVE  Obi!KeepRequests({})
PROOF
<1>1. ~Arbiter!i_req(req)
  BY BusyPending DEF Arbiter!i_req
<1> QED
  BY <1>1, RequestsStay, GrantedBus

LEMMA WorkMaps ==
    ASSUME TypeOK, BusInv, Clock, mstate # "IDLE", ~o_ready
    PROVE  Obi!Work
PROOF
<1>1. mstate' = "ACCESS" /\ in_flight' = in_flight
  BY BusyStep DEF o_ready, Master!o_ready
<1>2. UNCHANGED <<addr_reg, wdata_reg, write_reg>>
  BY BusyKeepsRegisters
<1>3. UNCHANGED pending
  BY <1>1, <1>2 DEF pending
<1>4. pending # NoPending /\ pending.addr = addr_reg
  BY BusyPending
<1>5. taken' = TRUE /\ value' = mem[pending.addr]
  BY <1>1, <1>4, RamEdge DEF taken, value
<1>6. Obi!Memory(NoWrite) \/ Obi!Memory(Obi!PendingWrite)
  BY RamEdge, PortBWrite
<1> QED
  BY <1>3, <1>4, <1>5, <1>6, NoResponse, BusyRequestsStay DEF Obi!Work

\* The word the master hands back is an answer ObiMemory allows.
LEMMA AnswerMaps ==
    ASSUME TypeOK, BusInv, o_ready, NEW preg \in Data
    PROVE  Master!o_rdata(PREADY, PRDATA(preg)) \in Obi!Answer
PROOF
<1>1. mstate = "ACCESS" /\ PREADY
  BY DEF o_ready, Master!o_ready
<1>2. pending.write = write_reg /\ pending.addr = addr_reg
  BY <1>1, BusyPending
<1>3. addr_reg \in Nat
  BY AddrNat DEF TypeOK, Master!MasterTypeOK
<1>4. CASE write_reg
  BY <1>1, <1>2, <1>4 DEF Master!o_rdata, Obi!Answer
<1>5. CASE ~write_reg /\ Obi!Ram(addr_reg)
  <2>1. sel = "MEM"
    BY <1>3, <1>5 DEF sel, Select, MEM_BASE_ADDR, MULT_BASE_ADDR, Obi!Ram, Obi!RAM_WORDS
  <2>2. PRDATA(preg) = b_read_data
    BY <1>1, <1>5, <2>1 DEF PRDATA, PREADY, Slave!PREADY, Slave!PRDATA
  <2> QED
    BY <1>1, <1>2, <1>5, <2>2 DEF Master!o_rdata, Obi!Answer, value, taken
<1>6. CASE ~write_reg /\ ~Obi!Ram(addr_reg)
  BY <1>2, <1>6, ReadDataIsData DEF Obi!Answer
<1> QED
  BY <1>4, <1>5, <1>6

LEMMA RespondMaps ==
    ASSUME TypeOK, BusInv, Clock, mstate # "IDLE", o_ready
    PROVE  Obi!Respond
PROOF
<1>1. mstate = "ACCESS" /\ mstate' = "IDLE" /\ in_flight' = "NONE"
  BY BusyStep DEF o_ready, Master!o_ready
<1>2. pending # NoPending /\ pending.bus = in_flight /\ in_flight \in {"DATA", "INSTR"}
  BY BusyPending
<1>3. taken /\ pending' = NoPending /\ taken' = FALSE /\ value' = Zero
  BY <1>1 DEF pending, taken, value
<1>4. PICK preg \in Data :
        Arbiter!Tick(req, o_gnt, o_ready, Master!o_rdata(PREADY, PRDATA(preg)))
  BY DEF Clock
<1>5. Arbiter!Deliver(o_ready, Master!o_rdata(PREADY, PRDATA(preg)))
  BY <1>2, <1>4 DEF Arbiter!Tick, Arbiter!Accept, Arbiter!Hold, Arbiter!i_req
<1>6. rvalid' = [b \in Obi!Bus |-> b = pending.bus]
  BY <1>2, <1>5 DEF Arbiter!Deliver
<1>7. \E v \in Obi!Answer : rdata' = [rdata EXCEPT ![pending.bus] = v]
  BY <1>2, <1>5, AnswerMaps DEF Arbiter!Deliver
<1>8. Obi!Memory(Obi!PendingWrite)
  BY <1>1, RamEdge, PortBWrite
<1> QED
  BY <1>2, <1>3, <1>6, <1>7, <1>8, BusyRequestsStay DEF Obi!Respond

LEMMA ResetMaps == ASSUME Reset PROVE Obi!Reset
  BY DEF Reset, Arbiter!Reset, Master!Reset, Cpu!Reset, Obi!Reset, pending, taken, value

-----------------------------------------------------------------------------

LEMMA StepMaps == TypeOK /\ BusInv /\ [Next]_vars => [Obi!Next]_(Obi!obi)
PROOF
<1> SUFFICES ASSUME TypeOK, BusInv, [Next]_vars PROVE [Obi!Next]_(Obi!obi)
  OBVIOUS
<1>1. CASE Clock
  <2>1. CASE mstate = "IDLE"
    BY <1>1, <2>1, IdleMaps, AcceptMaps DEF Obi!Next
  <2>2. CASE mstate # "IDLE"
    BY <1>1, <2>2, WorkMaps, RespondMaps DEF Obi!Next
  <2> QED
    BY <2>1, <2>2
<1>2. CASE Reset
  BY <1>2, ResetMaps DEF Obi!Next
<1>3. CASE UNCHANGED vars
  BY <1>3 DEF vars, arbiter, master, ram, cpu, Obi!obi, pending, taken, value
<1> QED
  BY <1>1, <1>2, <1>3 DEF Next

LEMMA InitMaps == Init => Obi!Init
  BY DEF Init, Arbiter!Init, Master!Init, Cpu!Init, Obi!Init, pending, taken, value

\* What the CPU and the MAC accelerator can observe of the bus fabric is a
\* behaviour of the one-request-at-a-time memory.
THEOREM SocBusImplementsObiMemory == Spec => Implements
PROOF
<1>1. Init => Obi!Init
  BY InitMaps
<1>2. TypeOK /\ BusInv /\ [Next]_vars => [Obi!Next]_(Obi!obi)
  BY StepMaps
<1> QED
  BY <1>1, <1>2, TypeCorrect, BusInvariant, PTL DEF Spec, Implements, Obi!SafeSpec
=============================================================================
