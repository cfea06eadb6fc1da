----------------------------- MODULE MCCluster -----------------------------
(* Programs and bounds for model checking Cluster. *)
EXTENDS Cluster, TLC

SendTo(d, c)   == [call |-> "MPI_SEND_INT", peer |-> d, count |-> c]
RecvFrom(s, c) == [call |-> "MPI_RECV_INT", peer |-> s, count |-> c]

FloatsTo(d, c)   == [call |-> "MPI_SEND_FLOAT", peer |-> d, count |-> c]
FloatsFrom(s, c) == [call |-> "MPI_RECV_FLOAT", peer |-> s, count |-> c]

(* Two messages one way, the second one in two packets, and an answer in   *)
(* two packets.                                                            *)
PingPong ==
  (0 :> <<SendTo(1, 1), SendTo(1, 2), RecvFrom(1, 2)>>) @@
  (1 :> <<RecvFrom(0, 1), RecvFrom(0, 2), SendTo(0, 2)>>)

(* Two messages, the same way, nothing else. *)
Twice ==
  (0 :> <<SendTo(1, 1), SendTo(1, 1)>>) @@
  (1 :> <<RecvFrom(0, 1), RecvFrom(0, 1)>>)

(* Rank 0 exchanges messages with two others, in an order that leaves      *)
(* headers of rank 1 in its cache while it receives from rank 2.           *)
Crossing ==
  (0 :> <<SendTo(1, 1), RecvFrom(2, 1), RecvFrom(2, 2), RecvFrom(1, 1)>>) @@
  (1 :> <<RecvFrom(0, 1), SendTo(0, 1)>>) @@
  (2 :> <<SendTo(0, 1), SendTo(0, 2)>>)

(* A ring of two FPGAs, 0 and 3, and two CPUs, with a link of every kind:   *)
(* 0 -> 3 -> 2 -> 1 -> 0.  Everyone but rank 3 sends first, so all requests *)
(* but the first one arrive while the receiver is busy with another rank.   *)
(* Links between equal ranks have a message of each data type.              *)
Ring ==
  (0 :> <<SendTo(3, 2), FloatsTo(3, 1), RecvFrom(1, 1)>>) @@
  (1 :> <<SendTo(0, 1), FloatsFrom(2, 1), RecvFrom(2, 1)>>) @@
  (2 :> <<FloatsTo(1, 1), SendTo(1, 1), RecvFrom(3, 1)>>) @@
  (3 :> <<RecvFrom(0, 2), FloatsFrom(0, 1), SendTo(2, 1)>>)

(* Every one of these programs is what the theorems take for granted: its  *)
(* calls are paired, both ranks of a message understand each other, and    *)
(* its headers have room for what they say.                                *)
ASSUME ProgramAllowed == WellPaired /\ NamesAgree /\ HeadersFit

=============================================================================
