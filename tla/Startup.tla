------------------------------- MODULE Startup -------------------------------
(***************************************************************************)
(* How the ranks find each other.  The launcher (or the user) starts every *)
(* CPU rank with the addresses of the other ranks, in their order, and     *)
(* MPI_Init of ZRLMPI.cpp computes from that list, alone, the port it      *)
(* listens on and the socket of every other rank.  Ranks that share a host *)
(* get successive ports.  FPGAs know MpiPort only.                         *)
(*                                                                         *)
(* A host has one name.  The text of the port is used after the string it  *)
(* belongs to is gone (service_name in MPI_Init); it is taken to be intact.*)
(***************************************************************************)
EXTENDS Integers, Sequences, FiniteSets

CONSTANTS Size,      \* cluster_size
          Host,      \* network addresses
          MaxSize,   \* MPI_CLUSTER_SIZE_MAX
          MpiPort,   \* MPI_PORT of the CPUs and ZRLMPI_DEFAULT_PORT of the FPGAs
          Text,      \* what a user may type
          Extras,    \* what may follow the addresses: arguments of the user program
          ProgramName,  \* argv[0]
          NoSocket

Rank == 0 .. Size - 1

ASSUME StartupAssumption ==
  /\ Size \in Nat \ {0, 1} /\ MaxSize \in Nat
  /\ Extras \subseteq Seq(Text)
  /\ MpiPort \in Nat
  /\ NoSocket \notin Host \X Nat

VARIABLES cluster,  \* where the ranks run, and which are FPGAs
          extra,    \* the arguments for the user program
          at,       \* at[r]: how far rank r is
          i,        \* the round of the loop over all ranks,
          offset,   \* and its offset in the argument list
          ownPort,  \* own_port
          addrs,    \* rank_ip_addrs
          socks,    \* rank_socks, as far as they are known
          bound,    \* the socket a rank listens on
          app       \* argv_mpi_app, once the user program is called

vars == <<cluster, extra, at, i, offset, ownPort, addrs, socks, bound, app>>

(* FPGAs have a network address of their own. *)
Cluster == {c \in [Rank -> [addr : Host, fpga : BOOLEAN]] :
              \A r, s \in Rank : r # s /\ c[r].fpga => c[r].addr # c[s].addr}

Addr(r) == cluster[r].addr
Cpu == {r \in Rank : ~cluster[r].fpga}

(* The addresses of all ranks but r, and what follows them.  argv has five *)
(* arguments before: the program, the protocol, the own address, the size  *)
(* of the cluster and the own rank.                                        *)
Arguments(r) ==
  [k \in 1 .. Size - 1 + Len(extra) |->
     IF k <= r THEN Addr(k - 1) ELSE IF k < Size THEN Addr(k) ELSE extra[k - Size + 1]]
Argc(r) == 5 + Len(Arguments(r))

(* array_count *)
Occurrences(a, list) == Cardinality({k \in DOMAIN list : list[k] = a})

Larger(a, b) == IF a > b THEN a ELSE b

-----------------------------------------------------------------------------
Init ==
  /\ cluster \in Cluster
  /\ extra \in Extras
  /\ at = [r \in Rank |-> IF cluster[r].fpga THEN "running" ELSE "starting"]
  /\ i = [r \in Rank |-> 0]
  /\ offset = [r \in Rank |-> 0]
  /\ ownPort = [r \in Rank |-> MpiPort]
  /\ addrs = [r \in Rank |-> << >>]
  /\ socks = [r \in Rank |-> [s \in Rank |-> NoSocket]]
  /\ bound = [r \in Rank |-> IF cluster[r].fpga THEN <<cluster[r].addr, MpiPort>>
                             ELSE NoSocket]
  /\ app = [r \in Rank |-> << >>]

(* The user types the protocol; the own rank is not compared with the size *)
(* of the cluster, and is taken to be right.  printUsage exits.            *)
Usable(r, protocol) ==
  Argc(r) >= 6 /\ Size >= 2 /\ Size <= MaxSize /\ r >= 0 /\ protocol = "udp"

CheckArguments(r) ==
  /\ at[r] = "starting"
  /\ \E protocol \in {"udp", "tcp", "another"} :
       at' = [at EXCEPT ![r] = IF Usable(r, protocol) THEN "resolving" ELSE "refused"]
  /\ UNCHANGED <<cluster, extra, i, offset, ownPort, addrs, socks, bound, app>>

(* What resolvehelper finds: every address is one of IPv4, as a number. *)
Resolved(a, port) == <<a, port>>

(* The loop leaves early when the list is too short. *)
Goes(r) == i[r] < Size /\ (i[r] = r \/ i[r] + offset[r] < Len(Arguments(r)))

(* A mutant of OwnRound: the rank does not put itself into its list. *)
OwnRoundUnlisted(r) ==
  /\ at[r] = "resolving" /\ Goes(r) /\ i[r] = r
  /\ offset' = [offset EXCEPT ![r] = -1]
  /\ ownPort' = [ownPort EXCEPT ![r] = MpiPort + Occurrences(Addr(r), addrs[r])]
  /\ i' = [i EXCEPT ![r] = @ + 1]
  /\ UNCHANGED <<cluster, extra, at, addrs, socks, bound, app>>

(* A mutant of OwnRound: the rank counts itself. *)
OwnRoundCounted(r) ==
  /\ at[r] = "resolving" /\ Goes(r) /\ i[r] = r
  /\ offset' = [offset EXCEPT ![r] = -1]
  /\ addrs' = [addrs EXCEPT ![r] = Append(@, Addr(r))]
  /\ ownPort' = [ownPort EXCEPT ![r] = MpiPort + Occurrences(Addr(r), Append(addrs[r], Addr(r)))]
  /\ i' = [i EXCEPT ![r] = @ + 1]
  /\ UNCHANGED <<cluster, extra, at, socks, bound, app>>

(* A mutant of OwnRound: own_port stays the default port. *)
OwnRoundDefault(r) ==
  /\ at[r] = "resolving" /\ Goes(r) /\ i[r] = r
  /\ offset' = [offset EXCEPT ![r] = -1]
  /\ addrs' = [addrs EXCEPT ![r] = Append(@, Addr(r))]
  /\ i' = [i EXCEPT ![r] = @ + 1]
  /\ UNCHANGED <<cluster, extra, at, ownPort, socks, bound, app>>

OwnRound(r) ==
  /\ at[r] = "resolving" /\ Goes(r) /\ i[r] = r
  /\ offset' = [offset EXCEPT ![r] = -1]
  /\ ownPort' = [ownPort EXCEPT ![r] = MpiPort + Occurrences(Addr(r), addrs[r])]
  /\ addrs' = [addrs EXCEPT ![r] = Append(@, Addr(r))]
  /\ i' = [i EXCEPT ![r] = @ + 1]
  /\ UNCHANGED <<cluster, extra, at, socks, bound, app>>

PeerRound(r) ==
  /\ at[r] = "resolving" /\ Goes(r) /\ i[r] # r
  /\ LET a == Arguments(r)[i[r] + offset[r] + 1]
     IN  /\ socks' = [socks EXCEPT ![r][i[r]] =
                        Resolved(a, MpiPort + Occurrences(a, addrs[r]))]
         /\ addrs' = [addrs EXCEPT ![r] = Append(@, a)]
  /\ i' = [i EXCEPT ![r] = @ + 1]
  /\ UNCHANGED <<cluster, extra, at, offset, ownPort, bound, app>>

(* The bind fails if another process of the host has the port. *)
Bind(r) ==
  /\ at[r] = "resolving" /\ ~Goes(r)
  /\ LET socket == <<Addr(r), ownPort[r]>>
         taken  == \E s \in Rank : bound[s] = socket
     IN  /\ at' = [at EXCEPT ![r] = IF taken THEN "exited" ELSE "running"]
         /\ bound' = IF taken THEN bound ELSE [bound EXCEPT ![r] = socket]
  /\ UNCHANGED <<cluster, extra, i, offset, ownPort, addrs, socks, app>>

(* A mutant of AppArguments: the own rank is counted twice. *)
AppArgumentsShifted(r) ==
  [a \in 1 .. Larger(Argc(r) - Size - 4, 0) + 1 |->
     IF a = 1 THEN ProgramName ELSE Arguments(r)[Size - 1]]

(* argc_mpi_app and argv_mpi_app of main.  The index does not depend on a: *)
(* every argument after the first is argv[cluster_size + 4].               *)
AppArguments(r) ==
  [a \in 1 .. Larger(Argc(r) - Size - 4 + 1, 1) |->
     IF a = 1 THEN ProgramName ELSE Arguments(r)[Size]]

CallApp(r) ==
  /\ at[r] = "running" /\ app[r] = << >>
  /\ app' = [app EXCEPT ![r] = AppArguments(r)]
  /\ UNCHANGED <<cluster, extra, at, i, offset, ownPort, addrs, socks, bound>>

(* MPI_Finalize closes the socket. *)
Finalize(r) ==
  /\ at[r] = "running" /\ app[r] # << >>
  /\ at' = [at EXCEPT ![r] = "finished"]
  /\ bound' = [bound EXCEPT ![r] = NoSocket]
  /\ UNCHANGED <<cluster, extra, i, offset, ownPort, addrs, socks, app>>

CpuRankStep ==
  \E r \in Cpu : \/ CheckArguments(r) \/ OwnRound(r) \/ PeerRound(r) \/ Bind(r)
                \/ CallApp(r) \/ Finalize(r)

Spec == Init /\ [][CpuRankStep]_vars

-----------------------------------------------------------------------------
TypeOK ==
  /\ cluster \in Cluster
  /\ extra \in Extras
  /\ at \in [Rank -> {"starting", "refused", "resolving", "running", "exited", "finished"}]
  /\ i \in [Rank -> 0 .. Size]
  /\ offset \in [Rank -> {-1, 0}]
  /\ ownPort \in [Rank -> Nat]
  /\ addrs \in [Rank -> Seq(Host)]
  /\ socks \in [Rank -> [Rank -> (Host \X Nat) \cup {NoSocket}]]
  /\ bound \in [Rank -> (Host \X Nat) \cup {NoSocket}]
  /\ app \in [Rank -> Seq(Host \cup Text \cup {ProgramName})]

(* SAFETY: a CPU rank that runs knows all others, and each of them listens *)
(* where it is looked for, if it listens already.  The two sockets are     *)
(* computed by two processes, in two branches of the loop.                 *)
Reaches ==
  \A r \in Cpu : at[r] = "running" =>
    \A s \in Rank \ {r} :
      /\ socks[r][s] # NoSocket
      /\ bound[s] # NoSocket => socks[r][s] = bound[s]

(* SAFETY: a user program with at most one argument is called with its name*)
(* and that argument, whatever the place of the rank among the addresses.  *)
(* Of several arguments it gets the first one several times.               *)
GivenArguments ==
  \A r \in Cpu : app[r] # << >> =>
    /\ Len(app[r]) = Len(extra) + 1
    /\ Len(extra) <= 1 => app[r] = <<ProgramName>> \o extra

(* SAFETY: no bind fails, in whatever order the ranks of a host start.     *)
NobodyExits == \A r \in Rank : at[r] # "exited"

(* SAFETY: an FPGA sends to MpiPort of the address of a rank, and reaches  *)
(* it if no rank before it is on the same host.                            *)
First(r) == \A s \in 0 .. r - 1 : Addr(s) # Addr(r)
FpgasReach ==
  \A r \in Rank : First(r) /\ bound[r] # NoSocket => bound[r] = <<Addr(r), MpiPort>>

=============================================================================
