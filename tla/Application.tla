---------------------------- MODULE Application ----------------------------
(***************************************************************************)
(* The parallel program the cluster runs: Program[r] is the sequence of    *)
(* blocking MPI_Send and MPI_Recv calls of rank r.  `got` records what the *)
(* completed calls returned to the program; every property about the       *)
(* outcome of communication is stated over it.                             *)
(***************************************************************************)
EXTENDS Network

CONSTANT Program

Op == [call : Calls, peer : Rank, count : Nat \ {0}]

ASSUME ProgramAssumption ==
  /\ Program \in [Rank -> Seq(Op)]
  /\ \A r \in Rank : \A k \in DOMAIN Program[r] : Program[r][k].peer # r

VARIABLE got    \* got[r][k]: what the k-th call of rank r returned

ApplicationInit == got = [r \in Rank |-> << >>]

ApplicationTypeOK == got \in [Rank -> Seq(Seq(Unit))]

(* The call rank r is executing, or about to execute. *)
Position(r) == Len(got[r]) + 1
Running(r)  == Position(r) <= Len(Program[r])
CurrentOp(r) == Program[r][Position(r)]

(* The blocking call of rank r returns with this data. *)
Return(r, data) == got' = [got EXCEPT ![r] = Append(@, data)]

AllDone == \A r \in Rank : ~Running(r)

-----------------------------------------------------------------------------
(* Which call of the program pairs with which. *)

CallsOf(r, calls, peer) ==
  {k \in DOMAIN Program[r] : Program[r][k].call \in calls /\ Program[r][k].peer = peer}

Sends(s, d) == CallsOf(s, SendCalls, d)
Recvs(d, s) == CallsOf(d, RecvCalls, s)

(* The send of rank s whose data the k-th call of rank d has to receive. *)
Ordinal(S, k) == Cardinality({i \in S : i <= k})

MatchingSend(d, k) ==
  LET s == Program[d][k].peer
  IN  CHOOSE m \in Sends(s, d) : Ordinal(Sends(s, d), m) = Ordinal(Recvs(d, s), k)

MatchingRecv(s, m) ==
  LET d == Program[s][m].peer
  IN  CHOOSE k \in Recvs(d, s) : Ordinal(Recvs(d, s), k) = Ordinal(Sends(s, d), m)

(* The units of the m-th call of rank s. *)
Payload(s, m) == [p \in 1 .. Program[s][m].count |-> <<s, m, p>>]

(* What a call has to return: a send nothing, a receive the payload of the *)
(* send it is paired with.                                                 *)
Expected(d, k) ==
  IF Program[d][k].call \in SendCalls
  THEN << >>
  ELSE Payload(Program[d][k].peer, MatchingSend(d, k))

(* The programs under study pair every send with a receive of the same     *)
(* length and data type.                                                   *)
WellPaired ==
  \A s, d \in Rank :
    /\ Cardinality(Sends(s, d)) = Cardinality(Recvs(d, s))
    /\ \A m \in Sends(s, d) :
         LET r == Program[d][MatchingRecv(s, m)]
         IN  r.count = Program[s][m].count /\ r.call = PeerCall[Program[s][m].call]

-----------------------------------------------------------------------------
(* SAFETY: whatever call has returned, it returned the data of the send it *)
(* is paired with, complete and in order.  This is what MPI_Send and       *)
(* MPI_Recv are for; timeouts make both sides repeat packets, and a        *)
(* repeated packet must never be taken for the next message.               *)
RightData ==
  \A r \in Rank : \A k \in 1 .. Len(got[r]) : got[r][k] = Expected(r, k)

(* LIVENESS: every call of every rank returns. *)
Finishes == <>AllDone

=============================================================================
