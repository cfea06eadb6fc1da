----------------------------- MODULE Rendezvous -----------------------------
(***************************************************************************)
(* What MPI_Send and MPI_Recv promise the program: a rendezvous.           *)
(*                                                                         *)
(* A receive takes the data of the paired send while the sender is blocked *)
(* in that very call; after that both calls may return, in either order.   *)
(* No packets, caches or timeouts: the two implementations (Mpe, CpuLib)   *)
(* and their mixture (Cluster) are shown to implement this module.         *)
(***************************************************************************)
EXTENDS Application

VARIABLE taken    \* taken[r]: the data the current receive of r has taken

absVars == <<got, taken>>

AbsInit ==
  /\ ApplicationInit
  /\ taken = [r \in Rank |-> << >>]

Take(d) ==
  /\ Running(d) /\ CurrentOp(d).call \in RecvCalls
  /\ taken[d] = << >>
  /\ LET s == CurrentOp(d).peer
     IN  Running(s) /\ Position(s) = MatchingSend(d, Position(d))
  /\ taken' = [taken EXCEPT ![d] = Expected(d, Position(d))]
  /\ UNCHANGED got

ReturnFromRecv(d) ==
  /\ taken[d] # << >>
  /\ Return(d, taken[d])
  /\ taken' = [taken EXCEPT ![d] = << >>]

ReturnFromSend(s) ==
  /\ Running(s) /\ CurrentOp(s).call \in SendCalls
  /\ LET d == CurrentOp(s).peer
         k == MatchingRecv(s, Position(s))
     IN  \/ Position(d) > k
         \/ Position(d) = k /\ taken[d] # << >>
  /\ Return(s, << >>)
  /\ UNCHANGED taken

AbsNext == \E r \in Rank : Take(r) \/ ReturnFromRecv(r) \/ ReturnFromSend(r)

AbsSpec == AbsInit /\ [][AbsNext]_absVars

=============================================================================
