------------------------------- MODULE ObiCpu -------------------------------
(***************************************************************************)
(* The two OBI request channels of the CV32E40P as the bus sees them       *)
(* (rtl/cv32e40p-cv32e40p_v1.8.3): the load-store unit drives "DATA", the  *)
(* prefetch buffer drives "INSTR".  A request stays up, unchanged, until   *)
(* it is granted; in the cycle after, the channel is free for any other    *)
(* request or for none.  What the core asks for is left open, except that  *)
(* it needs instructions to go on: at most MaxBurst data requests are      *)
(* raised between two instruction answers.                                 *)
(***************************************************************************)
EXTENDS Integers

CONSTANTS
    ByteAddr,       \* the byte addresses the program uses
    Data, Zero,
    ByteEnables,    \* the values of data_be_o
    AllBytes,       \* 4'b1111
    NoReq,
    MaxBurst        \* data requests between two instruction answers

VARIABLES
    req,            \* req[b]: the request lines of bus b
    burst           \* data requests raised since the last instruction answer

cpu == <<req, burst>>

Load(a) == [addr |-> a, we |-> FALSE, be |-> AllBytes, wdata |-> Zero]

Loads  == {Load(a) : a \in ByteAddr}
Stores == [addr : ByteAddr, we : {TRUE}, be : ByteEnables, wdata : Data]

\* The prefetch buffer only reads.
Requests == [DATA |-> Loads \cup Stores, INSTR |-> Loads]

CpuTypeOK ==
    /\ req \in [{"DATA", "INSTR"} -> Loads \cup Stores \cup {NoReq}]
    /\ req["INSTR"] \in Loads \cup {NoReq}
    /\ burst \in 0..MaxBurst

Init ==
    /\ req = [b \in {"DATA", "INSTR"} |-> NoReq]
    /\ burst = 0

\* What bus b may drive in the next cycle.
NextLines(b, granted) ==
    IF req[b] # NoReq /\ ~granted[b] THEN {req[b]}
    ELSE Requests[b] \cup {NoReq}

RaisesData(granted, d) == d # NoReq /\ (req["DATA"] = NoReq \/ granted["DATA"])

Tick(granted, instr_rvalid) ==
    \E d \in NextLines("DATA", granted), i \in NextLines("INSTR", granted) :
        LET spent == IF instr_rvalid THEN 0 ELSE burst IN
        /\ RaisesData(granted, d) => spent < MaxBurst
        /\ req' = [DATA |-> d, INSTR |-> i]
        /\ burst' = IF RaisesData(granted, d) THEN spent + 1 ELSE spent

\* rst_ni low: the core raises no request.
Reset ==
    /\ req' = [b \in {"DATA", "INSTR"} |-> NoReq]
    /\ burst' = 0
=============================================================================
