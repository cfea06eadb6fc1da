--------------------------- MODULE CollectiveRun ---------------------------
(***************************************************************************)
(* All ranks of a cluster execute the code emitted for one collective      *)
(* call.  The case is chosen in the initial state and stays.               *)
(***************************************************************************)
EXTENDS Collectives

VARIABLES case,  \* the case
          pc,    \* pc[r]: the statement rank r is about to execute
          mem    \* mem[r][buf][i]: the i-th chunk of a buffer of rank r

vars == <<case, pc, mem>>

(* Chunks of the buffers.  The user's arrays hold the data of all ranks    *)
(* where the call needs it (and where they are one array); "all" and "acc" *)
(* are the buffers the transpiler declares.                                *)
Length(c, r, buf) ==
  CASE buf = "send" -> IF (c.kind = "scatter" \/ c.inPlace) /\ r = c.root THEN Size(c) ELSE 1
    [] buf = "recv" -> IF c.kind = "gather" /\ r = c.root THEN Size(c) ELSE 1
    [] buf = "all"  -> GroupSize
    [] OTHER        -> 1

Buffers == {"send", "recv", "buf", "all", "acc"}

(* The data before the call: what the program has put into its arrays. *)
Given(c, r, buf, i) ==
  CASE buf = "send" /\ c.kind = "scatter" /\ r = c.root -> Only(i)
    [] buf = "send" /\ c.kind # "scatter" /\ i = 0      -> Only(r)
    [] buf = "buf"  /\ r = c.root                       -> Only(r)
    [] OTHER                                            -> Only(Stale)

Init ==
  /\ case \in Cases
  /\ pc = [r \in Ranks(case) |-> 1]
  /\ mem = [r \in Ranks(case) |-> [b \in Buffers |->
              [i \in 0 .. Length(case, r, b) - 1 |-> Given(case, r, b, i)]]]

Done(r) == pc[r] > Len(Code(case, r))
Stmt(r) == Code(case, r)[pc[r]]
At(r, op) == ~Done(r) /\ Stmt(r).op = op

(* A statement writes cnt chunks from off on; values[k] is the new value   *)
(* of the k-th of them.                                                    *)
Write(r, s, values(_)) ==
  mem' = [mem EXCEPT ![r][s.buf] =
            [i \in DOMAIN @ |-> IF i \in s.off .. s.off + s.cnt - 1
                                THEN values(i - s.off) ELSE @[i]]]

SkipRound(r) ==
  /\ At(r, "skip")
  /\ pc' = [pc EXCEPT ![r] = @ + 1]
  /\ UNCHANGED <<case, mem>>

(* my_memcpy *)
CopyChunk(r) ==
  /\ At(r, "copy")
  /\ LET s == Stmt(r) IN Write(r, s, LAMBDA k : mem[r][s.from][s.fromOff + k])
  /\ pc' = [pc EXCEPT ![r] = @ + 1]
  /\ UNCHANGED case

(* Rank s sends what rank d waits for. *)
Meet(s, d) ==
  /\ At(s, "send") /\ (At(d, "recv") \/ At(d, "add"))
  /\ Stmt(s).peer = d /\ Stmt(d).peer = s

Transfer(s, d) ==
  /\ Meet(s, d)
  /\ LET from == Stmt(s)
         to   == Stmt(d)
         data(k) == mem[s][from.buf][from.off + k]
     IN  Write(d, to, LAMBDA k : IF to.op = "recv" THEN data(k)
                                 ELSE Plus(mem[d][to.buf][k], data(k)))
  /\ pc' = [pc EXCEPT ![s] = @ + 1, ![d] = @ + 1]
  /\ UNCHANGED case

AllDone == \A r \in Ranks(case) : Done(r)

(* Not a step of the code: the call has returned on every rank. *)
Terminated == AllDone /\ UNCHANGED vars

Next ==
  \/ \E r \in Ranks(case) : SkipRound(r) \/ CopyChunk(r)
  \/ \E s \in Ranks(case) : At(s, "send") /\ Transfer(s, Stmt(s).peer)
  \/ Terminated

Spec == Init /\ [][Next]_vars

(* Every rank is a running program, and the call of a rank whose peer has  *)
(* called too returns (Finishes of Cluster).                               *)
FairSpec == Spec /\ WF_vars(Next)

-----------------------------------------------------------------------------
TypeOK ==
  /\ case \in Cases
  /\ pc \in [Ranks(case) -> Nat \ {0}]
  /\ DOMAIN mem = Ranks(case)
  /\ \A r \in Ranks(case) :
       /\ DOMAIN mem[r] = Buffers
       /\ \A b \in Buffers : mem[r][b] \in [0 .. Length(case, r, b) - 1 -> Value]

(* What MPI says a call leaves at a rank it has returned at. *)
Expected(c, r) ==
  CASE c.kind = "scatter" -> mem[r][Result(c)][0] = Only(r)
    [] c.kind = "gather"  -> r = c.root => \A i \in Ranks(c) : mem[r][Result(c)][i] = Only(i)
    [] c.kind = "bcast"   -> mem[r]["buf"][0] = Only(c.root)
    [] c.kind = "reduce"  -> r = c.root => mem[r]["recv"][0] = Total(c)

(* SAFETY: as soon as the call returns at a rank, its buffer holds what    *)
(* MPI promises: the right chunk in the right place, every contribution    *)
(* exactly once.  This is about the offsets, counts and the order of       *)
(* statements that template_generator.py emits.                            *)
RightResult == \A r \in Ranks(case) : Done(r) => Expected(case, r)

(* SAFETY: a send and the receive it meets agree on the length, and no     *)
(* statement leaves its buffer, in particular not the interim buffer of a  *)
(* replicator, which has room for one group.  The engine does not check    *)
(* either: the user program of Application.tla has to be WellPaired.       *)
SameLength ==
  \A s \in Ranks(case) : At(s, "send") =>
    LET d == Stmt(s).peer IN Meet(s, d) => Stmt(s).cnt = Stmt(d).cnt

WithinBuffers ==
  \A r \in Ranks(case) : ~Done(r) /\ Stmt(r).op # "skip" =>
    Stmt(r).off + Stmt(r).cnt <= Length(case, r, Stmt(r).buf)

(* LIVENESS: the call returns at every rank.  Sends and receives are       *)
(* blocking, so two ranks that emit them in different orders, or a rank    *)
(* that runs code meant for another one, stop the cluster.                 *)
Finishes == <>AllDone

=============================================================================
