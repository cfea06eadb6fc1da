------------------------------ MODULE Network ------------------------------
(***************************************************************************)
(* The UDP network between the ranks, modelled from how the code uses it   *)
(* (sendto and recvfrom in LIB/SW, the Tcp data and meta streams of the    *)
(* FPGA engine).  It is external code.                                     *)
(*                                                                         *)
(* There is one channel per ordered pair of ranks; packets of different    *)
(* channels overtake each other freely.  Window = 1 keeps the packets of   *)
(* one channel in order; with Window = w a packet may overtake w - 1       *)
(* others.  At most MaxLoss packets are lost in a behaviour, and only      *)
(* packets of the types in Losable.                                        *)
(***************************************************************************)
EXTENDS Packets, FiniteSets

CONSTANTS Window, MaxLoss, Losable

ASSUME NetworkAssumption ==
  /\ Window \in Nat \ {0}
  /\ MaxLoss \in Nat
  /\ Losable \subseteq HeaderTypes \cup {"CONT"}

VARIABLES net,    \* net[<<s, d>>]: the packets in flight from s to d
          losses  \* how many packets were lost so far

netVars == <<net, losses>>

NetworkInit ==
  /\ net = [c \in Rank \X Rank |-> << >>]
  /\ losses = 0

NetworkTypeOK ==
  /\ net \in [Rank \X Rank -> Seq(Packet)]
  /\ losses \in 0 .. MaxLoss

DropAt(s, i) == SubSeq(s, 1, i - 1) \o SubSeq(s, i + 1, Len(s))

(* The positions of channel c a receiver may be handed next. *)
Arriving(c) == {i \in 1 .. Len(net[c]) : i <= Window}

(* sendto, or the write of a packet to soTcp_data and soTcp_meta *)
Transmit(src, dst, p) == net' = [net EXCEPT ![<<src, dst>>] = Append(@, p)]

(* recvfrom, or the read of a packet and its meta word *)
Consume(src, dst, i) == net' = [net EXCEPT ![<<src, dst>>] = DropAt(@, i)]

(* A datagram that never arrives. *)
Lose == \E c \in Rank \X Rank :
          \E i \in Arriving(c) :
            /\ losses < MaxLoss
            /\ net[c][i].type \in Losable
            /\ net' = [net EXCEPT ![c] = DropAt(@, i)]
            /\ losses' = losses + 1

-----------------------------------------------------------------------------
(* SAFETY: every header in flight, written by an engine or by the library, *)
(* is recognised by whoever reads it, and says to him what was meant.      *)
HeadersAreRead ==
  \A c \in Rank \X Rank : \A i \in DOMAIN net[c] :
    HasHeader(net[c][i]) => IsRead(FieldsOf(net[c][i]))

=============================================================================
