---------------------------- MODULE Collectives ----------------------------
(***************************************************************************)
(* The collective operations of ZRLMPI.  There are none at run time: the   *)
(* transpiler replaces every MPI_Scatter, MPI_Gather, MPI_Bcast and        *)
(* MPI_Reduce by blocking sends and receives (template_generator.py),      *)
(* either in a loop of the root over all ranks, or, for clusters of two    *)
(* FPGAs or more, in a tree: the FPGAs form groups of GroupSize, and the   *)
(* first one of each group, the replicator, talks to the root for them.    *)
(*                                                                         *)
(* Code(c, r) is the code emitted for rank r in case c, and this module    *)
(* executes it.  A blocking send and its receive are one step of both      *)
(* ranks: that is what IsRendezvous of Cluster says of the protocol below. *)
(*                                                                         *)
(* Memory is counted in chunks, the data one rank contributes or gets; all *)
(* emitted offsets and lengths are multiples of it.  The value of a chunk  *)
(* is the bag of contributions summed up in it: Only(i) is the data of (or *)
(* for) rank i, and Stale what a buffer holds before it is written.        *)
(***************************************************************************)
EXTENDS Integers, Sequences, FiniteSets, Functions

CONSTANTS Rank,       \* all ranks of all cases
          GroupSize,  \* group_size: ranks of a group, the replicator included
          Cases       \* what the transpiler is run on

Kinds == {"scatter", "gather", "bcast", "reduce"}

(* One call and one cluster.json: the ranks in the order of its two lists, *)
(* com_opt, the root, and whether both buffers are the same array.         *)
Case == [kind : Kinds, cpu : Seq(Rank), fpga : Seq(Rank), comOpt : Nat,
         root : Rank, inPlace : BOOLEAN]

ASSUME CollectivesAssumption ==
  /\ Rank \subseteq Nat
  /\ GroupSize \in Nat \ {0, 1}
  /\ Cases \subseteq Case
  /\ \A c \in Cases :
       /\ IsInjective(c.cpu) /\ IsInjective(c.fpga)
       /\ Range(c.cpu) \cap Range(c.fpga) = {}
       /\ Range(c.cpu) \cup Range(c.fpga) = 0 .. Len(c.cpu) + Len(c.fpga) - 1
       /\ c.root \in Range(c.cpu) \cup Range(c.fpga)

Size(c)  == Len(c.cpu) + Len(c.fpga)
Ranks(c) == 0 .. Size(c) - 1

-----------------------------------------------------------------------------
(* Values. *)

Stale == -1
Atom  == Rank \cup {Stale}
Value == [Atom -> Nat]

Only(a)   == [x \in Atom |-> IF x = a THEN 1 ELSE 0]
Plus(v, w) == [x \in Atom |-> v[x] + w[x]]
Total(c)  == [x \in Atom |-> IF x \in Ranks(c) THEN 1 ELSE 0]

-----------------------------------------------------------------------------
(* The emitted statements.  "add" is an MPI_Recv into the accumulation     *)
(* buffer and the MPI_SUM of it into `buf`; "skip" is the `continue` of a  *)
(* loop, or a copy left out because source and destination are one array.  *)

Skip == [op |-> "skip"]
Send(buf, off, cnt, peer) ==
  [op |-> "send", buf |-> buf, off |-> off, cnt |-> cnt, peer |-> peer]
Recv(buf, off, cnt, peer) ==
  [op |-> "recv", buf |-> buf, off |-> off, cnt |-> cnt, peer |-> peer]
Add(buf, peer) ==
  [op |-> "add", buf |-> buf, off |-> 0, cnt |-> 1, peer |-> peer]
Copy(buf, off, from, fromOff) ==
  [op |-> "copy", buf |-> buf, off |-> off, cnt |-> 1,
   from |-> from, fromOff |-> fromOff]
CopyOwn(c, buf, off, from, fromOff) ==
  IF c.inPlace THEN Skip ELSE Copy(buf, off, from, fromOff)

(* The array behind the second buffer argument of a call. *)
Result(c) == IF c.inPlace THEN "send" ELSE "recv"

-----------------------------------------------------------------------------
(* The loops. *)

(* The statement of the root in round i of its loop over all ranks. *)
ScatterRound(c, i) ==
  IF i = c.root THEN CopyOwn(c, "recv", 0, "send", i) ELSE Send("send", i, 1, i)

GatherRound(c, i) ==
  IF i = c.root THEN CopyOwn(c, "recv", i, "send", 0)
  ELSE Recv(Result(c), i, 1, i)

BcastRound(c, i) == IF i = c.root THEN Skip ELSE Send("buf", 0, 1, i)

ReduceRound(c, i) ==
  IF i = c.root THEN Copy("recv", 0, "send", 0) ELSE Add("recv", i)

RootLoop(c) ==
  [k \in 1 .. Size(c) |->
     CASE c.kind = "scatter" -> ScatterRound(c, k - 1)
       [] c.kind = "gather"  -> GatherRound(c, k - 1)
       [] c.kind = "bcast"   -> BcastRound(c, k - 1)
       [] c.kind = "reduce"  -> ReduceRound(c, k - 1)]

OtherThanRoot(c) ==
  CASE c.kind = "scatter" -> <<Recv(Result(c), 0, 1, c.root)>>
    [] c.kind = "gather"  -> <<Send("send", 0, 1, c.root)>>
    [] c.kind = "bcast"   -> <<Recv("buf", 0, 1, c.root)>>
    [] c.kind = "reduce"  -> <<Send("send", 0, 1, c.root)>>

-----------------------------------------------------------------------------
(* The tree.  Only FPGAs are in it, in the order of the list. *)

GroupCnt(c) == (Len(c.fpga) + GroupSize - 1) \div GroupSize
Groups(c)   == 1 .. GroupCnt(c)
First(g)    == (g - 1) * GroupSize + 1
Replicator(c, g) == c.fpga[First(g)]
Members(c, g) == SubSeq(c.fpga, First(g) + 1,
                        IF g = GroupCnt(c) THEN Len(c.fpga) ELSE First(g + 1) - 1)
Extent(c, g) == Len(Members(c, g)) + 1

(* The tests of rank r against the replicators and members are one chain   *)
(* of else-branches, and the last branch is taken without a test.          *)
IsOf(c, g, r) == r = Replicator(c, g) \/ r \in Range(Members(c, g))
Branch(c, r) ==
  CHOOSE g \in Groups(c) :
    /\ IsOf(c, g, r) \/ g = GroupCnt(c)
    /\ \A h \in 1 .. g - 1 : ~IsOf(c, h, r)

ToMembers(c, g, Statement(_, _)) ==
  [k \in 1 .. Len(Members(c, g)) |-> Statement(k, Members(c, g)[k])]

ToReplicators(c, Statement(_)) == [g \in Groups(c) |-> Statement(g)]

(* The root's own chunk is taken to be the first one, and the chunks of a  *)
(* group to follow each other; send_cnt of group g is First(g).            *)
(* ScatterFromStart is a mutant of ScatterTreeRoot: send_cnt starts at 0.  *)
ScatterFromStart(c) ==
  <<CopyOwn(c, "recv", 0, "send", 0)>>
  \o ToReplicators(c, LAMBDA g : Send("send", First(g) - 1, Extent(c, g), Replicator(c, g)))

ScatterTreeRoot(c) ==
  <<CopyOwn(c, "recv", 0, "send", 0)>>
  \o ToReplicators(c, LAMBDA g : Send("send", First(g), Extent(c, g), Replicator(c, g)))

(* A mutant of ScatterReplicator: its own chunk is not counted. *)
ScatterForMembers(c, g) ==
  <<Recv("all", 0, Len(Members(c, g)), c.root), Copy(Result(c), 0, "all", 0)>>
  \o ToMembers(c, g, LAMBDA k, m : Send("all", k, 1, m))

ScatterReplicator(c, g) ==
  <<Recv("all", 0, Extent(c, g), c.root), Copy(Result(c), 0, "all", 0)>>
  \o ToMembers(c, g, LAMBDA k, m : Send("all", k, 1, m))

ScatterMember(c, g) == <<Recv(Result(c), 0, 1, Replicator(c, g))>>

GatherTreeRoot(c) ==
  <<CopyOwn(c, "recv", 0, "send", 0)>>
  \o ToReplicators(c, LAMBDA g : Recv(Result(c), First(g), Extent(c, g), Replicator(c, g)))

(* A mutant of GatherReplicator: counting starts after the first member. *)
GatherShifted(c, g) ==
  ToMembers(c, g, LAMBDA k, m : Recv("all", k + 1, 1, m))
  \o <<Copy("all", 0, "send", 0), Send("all", 0, Extent(c, g), c.root)>>

GatherReplicator(c, g) ==
  ToMembers(c, g, LAMBDA k, m : Recv("all", k, 1, m))
  \o <<Copy("all", 0, "send", 0), Send("all", 0, Extent(c, g), c.root)>>

GatherMember(c, g) == <<Send("send", 0, 1, Replicator(c, g))>>

BcastTreeRoot(c) == ToReplicators(c, LAMBDA g : Send("buf", 0, 1, Replicator(c, g)))

BcastReplicator(c, g) ==
  <<Recv("buf", 0, 1, c.root)>> \o ToMembers(c, g, LAMBDA k, m : Send("buf", 0, 1, m))

BcastMember(c, g) == <<Recv("buf", 0, 1, Replicator(c, g))>>

ReduceTreeRoot(c) ==
  <<Copy("recv", 0, "send", 0)>>
  \o ToReplicators(c, LAMBDA g : Add("recv", Replicator(c, g)))

ReduceReplicator(c, g) ==
  <<Copy("acc", 0, "send", 0)>>
  \o ToMembers(c, g, LAMBDA k, m : Add("acc", m))
  \o <<Send("acc", 0, 1, c.root)>>

ReduceMember(c, g) == <<Send("send", 0, 1, Replicator(c, g))>>

TreeRoot(c) ==
  CASE c.kind = "scatter" -> ScatterTreeRoot(c)
    [] c.kind = "gather"  -> GatherTreeRoot(c)
    [] c.kind = "bcast"   -> BcastTreeRoot(c)
    [] c.kind = "reduce"  -> ReduceTreeRoot(c)

TreeReplicator(c, g) ==
  CASE c.kind = "scatter" -> ScatterReplicator(c, g)
    [] c.kind = "gather"  -> GatherReplicator(c, g)
    [] c.kind = "bcast"   -> BcastReplicator(c, g)
    [] c.kind = "reduce"  -> ReduceReplicator(c, g)

TreeMember(c, g) ==
  CASE c.kind = "scatter" -> ScatterMember(c, g)
    [] c.kind = "gather"  -> GatherMember(c, g)
    [] c.kind = "bcast"   -> BcastMember(c, g)
    [] c.kind = "reduce"  -> ReduceMember(c, g)

-----------------------------------------------------------------------------
(* All FPGAs run one kernel.  A test of the rank that has one outcome on   *)
(* all of them is replaced by that outcome in their version of the code.   *)

(* A mutant of FoldedForFpgas: the test of one FPGA decides for all. *)
FoldedAlways(c) == TRUE

FoldedForFpgas(c) == \A r, s \in Range(c.fpga) : (r = c.root) = (s = c.root)

TakesRootBranch(c, r) ==
  IF r \in Range(c.fpga) /\ FoldedForFpgas(c)
  THEN \E s \in Range(c.fpga) : s = c.root
  ELSE r = c.root

(* com_opt = 0 turns the trees off, and so does a cluster of one FPGA. *)
UsesTree(c) == c.comOpt # 0 /\ Len(c.fpga) >= 2

TreeCode(c, r) ==
  IF TakesRootBranch(c, r) THEN TreeRoot(c)
  ELSE LET g == Branch(c, r)
       IN  IF r = Replicator(c, g) THEN TreeReplicator(c, g) ELSE TreeMember(c, g)

LoopCode(c, r) == IF TakesRootBranch(c, r) THEN RootLoop(c) ELSE OtherThanRoot(c)

Code(c, r) == IF UsesTree(c) THEN TreeCode(c, r) ELSE LoopCode(c, r)

=============================================================================
