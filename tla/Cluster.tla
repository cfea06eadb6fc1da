------------------------------ MODULE Cluster -------------------------------
(***************************************************************************)
(* A cluster of FPGAs (Mpe) and CPUs (CpuLib) that run one program over a  *)
(* network.  Fpga = {} or Cpu = {} gives the homogeneous clusters.         *)
(*                                                                         *)
(* The timers of both kinds run in real time, which is not modelled.  What *)
(* the protocol achieves depends on how long the timeouts are compared     *)
(* with everything else; Patience says which timeouts are possible:        *)
(*   "none"     a timeout at any time;                                     *)
(*   "message"  not between two packets of one message, unless the rest of *)
(*              the message is lost;                                       *)
(*   "full"     only when the whole cluster waits and nothing is in flight *)
(***************************************************************************)
EXTENDS Mpe, CpuLib

CONSTANT Patience

ASSUME ClusterAssumption ==
  /\ Fpga \cup Cpu = Rank /\ Fpga \cap Cpu = {}
  /\ Patience \in {"none", "message", "full"}

vars == <<mpe, fifo, deq, wrap, cpu, net, losses, got>>

Init == NetworkInit /\ ApplicationInit /\ MpeInit /\ CpuInit

TypeOK == NetworkTypeOK /\ ApplicationTypeOK /\ MpeTypeOK /\ CpuTypeOK

(* Programs that both kinds of ranks understand: the headers of a CPU name *)
(* the INT calls only, so FLOAT calls are between ranks of one kind.       *)
NamesAgree ==
  \A s \in Rank : \A m \in DOMAIN Program[s] :
    LET op == Program[s][m]
    IN  op.call \in {"MPI_SEND_FLOAT", "MPI_RECV_FLOAT"} => (s \in Fpga <=> op.peer \in Fpga)

(* Programs whose ranks and lengths, in words, fit the 32 bits that a      *)
(* header has for them.                                                    *)
Fits(count) == count * UnitWords \in UINT32

HeadersFit ==
  /\ Rank \subseteq UINT32
  /\ \A s \in Rank : \A m \in DOMAIN Program[s] : Fits(Program[s][m].count)

-----------------------------------------------------------------------------
(* When a timeout is possible. *)

(* The rank whose message rank n is in the middle of receiving. *)
Sources(n) ==
  IF n \in Fpga THEN (IF mpe[n].more THEN Rank \cap {mpe[n].dataSrc} ELSE {})
  ELSE IF cpu[n].buffer # << >> THEN {Peer(n)} ELSE {}

SendingData(s) ==
  IF s \in Fpga THEN fifo[s].tx # << >> \/ mpe[s].fsm = "SEND_DATA_RD"
  ELSE At(s, "SEND_DATA")

MoreOnItsWay(n) ==
  \E s \in Sources(n) : net[<<s, n>>] # << >> \/ SendingData(s)

Quiet ==
  /\ \A c \in Rank \X Rank : net[c] = << >>
  /\ \A n \in Fpga : Blocked(n)
  /\ \A n \in Cpu : CpuBlocked(n)

Patient(n) ==
  CASE Patience = "none"    -> TRUE
    [] Patience = "message" -> ~MoreOnItsWay(n)
    [] Patience = "full"    -> Quiet

-----------------------------------------------------------------------------
FpgaRank(n) ==
  /\ FpgaStep(n) \/ (Patient(n) /\ EngineTimeout(n))
  /\ UNCHANGED cpu

CpuRank(n) ==
  /\ CpuStep(n) \/ (Patient(n) /\ CpuTimeout(n))
  /\ UNCHANGED mpeVars

Loss == Lose /\ UNCHANGED <<mpeVars, cpu, got>>

(* Not a step of the code: the program has returned from its last call. *)
Terminated == AllDone /\ UNCHANGED vars

Next ==
  \/ \E n \in Fpga : FpgaRank(n)
  \/ \E n \in Cpu : CpuRank(n)
  \/ Loss
  \/ Terminated

(* The processes of an FPGA run in every clock cycle, a CPU rank is one    *)
(* runnable process, and a timer that may expire does so in the end.       *)
Fairness ==
  /\ \A n \in Fpga :
       /\ WF_vars(UNCHANGED cpu /\ (Engine(n) \/ (Patient(n) /\ EngineTimeout(n))))
       /\ WF_vars(UNCHANGED cpu /\ DeqSend(n))
       /\ WF_vars(UNCHANGED cpu /\ DeqRecv(n))
       /\ WF_vars(UNCHANGED cpu /\ Wrapper(n))
  /\ \A n \in Cpu : WF_vars(CpuRank(n))

Spec     == Init /\ [][Next]_vars
FairSpec == Spec /\ Fairness

-----------------------------------------------------------------------------
(* The cluster implements the rendezvous of Rendezvous.tla.  The data of a *)
(* receive is taken when the receiver turns to acknowledging it.           *)

TakenByFpga(n) ==
  IF /\ wrap[n].state \in {"RECV_READ_DATA", "RECV_FINISH"}
     /\ \/ mpe[n].fsm = "SEND_ACK"
        \/ \E i \in 1 .. Len(fifo[n].feedback) : fifo[n].feedback[i] = "OK"
  THEN wrap[n].data \o [i \in 1 .. Len(fifo[n].appData) |-> fifo[n].appData[i].unit]
  ELSE << >>

TakenByCpu(n) == IF At(n, "SEND_ACK") THEN cpu[n].buffer ELSE << >>

Abstract == INSTANCE Rendezvous
              WITH taken <- [r \in Rank |-> IF r \in Fpga THEN TakenByFpga(r)
                                            ELSE TakenByCpu(r)]

(* REFINEMENT: every step of the engines, FIFOs, wrappers and libraries is *)
(* a step of the abstract rendezvous or leaves it unchanged; in particular *)
(* a send returns only after the paired receive has all its data.          *)
IsRendezvous == Abstract!AbsSpec

=============================================================================
