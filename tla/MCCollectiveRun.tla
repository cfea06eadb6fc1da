-------------------------- MODULE MCCollectiveRun --------------------------
(* Cases for model checking CollectiveRun. *)
EXTENDS CollectiveRun

Cluster(cpu, fpga) == [cpu |-> cpu, fpga |-> fpga]
Upto(a, b) == [i \in 1 .. b - a + 1 |-> a + i - 1]
Reverse(s) == [i \in 1 .. Len(s) |-> s[Len(s) + 1 - i]]

Call(kind, cluster, comOpt, root, inPlace) ==
  [kind |-> kind, cpu |-> cluster.cpu, fpga |-> cluster.fpga,
   comOpt |-> comOpt, root |-> root, inPlace |-> inPlace]

(* Loops: a cluster without optimisation, and one with too few FPGAs. *)
LoopClusters == {<<Cluster(<<0, 1>>, <<2, 3>>), 0>>, <<Cluster(<<2, 0>>, <<1>>), 3>>,
                 <<Cluster(<<3>>, <<0, 1, 2>>), 0>>}

LoopCases ==
  UNION {LET ranks == Range(x[1].cpu) \cup Range(x[1].fpga)
         IN  {Call(k, x[1], x[2], r, FALSE) : k \in Kinds \ {"reduce"}, r \in ranks}
             \cup {Call("reduce", x[1], x[2], 0, FALSE)}
             \cup {Call(k, x[1], x[2], 0, TRUE) : k \in {"scatter", "gather"}}
         : x \in LoopClusters}

(* Trees: one CPU, rank 0, is the root; one to three groups, the last one  *)
(* full, or with a single FPGA.  Only scatter and gather depend on the     *)
(* order of the FPGAs.                                                     *)
TreeCases ==
  UNION {{Call(k, Cluster(<<0>>, Upto(1, n)), 1, 0, FALSE) : k \in Kinds}
         \cup {Call(k, Cluster(<<0>>, Upto(1, n)), 1, 0, TRUE) : k \in {"scatter", "gather"}}
         \cup {Call(k, Cluster(<<0>>, Reverse(Upto(1, n))), 1, 0, FALSE) : k \in {"bcast", "reduce"}}
         \cup {Call(k, Cluster(<<n>>, Upto(0, n - 1)), 3, n, FALSE) : k \in {"bcast", "reduce"}}
         : n \in {2, 4, 5, 8, 9}}

GoodCases == LoopCases \cup TreeCases

(* A tree in a cluster with a second CPU. *)
SecondCpu == {Call("bcast", Cluster(<<0, 1>>, Upto(2, 6)), 1, 0, FALSE)}

(* A reduction to a rank that is not the first. *)
LaterRoot == {Call("reduce", Cluster(<<0, 1>>, <<2, 3>>), 0, 2, FALSE)}

=============================================================================
