------------------------------- MODULE Launch -------------------------------
(***************************************************************************)
(* The start of a whole cluster: processes on hosts (Startup) and          *)
(* applications on FPGAs (Role).  They meet at the sockets: the network    *)
(* stack of an FPGA listens before its application is told its rank.       *)
(***************************************************************************)
EXTENDS Startup

VARIABLES fmc, role, mmio

INSTANCE Role WITH Slot <- Rank, ClusterSize <- Size

launchVars == <<vars, fmc, role, mmio>>

LaunchInit == Init /\ RoleInit

(* Not a step of the code: every program is over, or was never called. *)
Terminated ==
  /\ \A r \in Rank : IF r \in Cpu THEN at[r] \in {"finished", "refused"}
                     ELSE role[r].done /\ ~role[r].inApp
  /\ UNCHANGED launchVars

LaunchNext ==
  \/ CpuRankStep /\ UNCHANGED <<fmc, role, mmio>>
  \/ \E r \in Rank \ Cpu : RoleStep(r) /\ UNCHANGED vars
  \/ Terminated

LaunchSpec == LaunchInit /\ [][LaunchNext]_launchVars

=============================================================================
