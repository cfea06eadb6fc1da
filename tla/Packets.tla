------------------------------ MODULE Packets ------------------------------
(***************************************************************************)
(* The vocabulary of LIB/COMMON/zrlmpi_common: MPI calls, packet types,    *)
(* and what the two receivers (the FPGA engine and the CPU library) can    *)
(* tell about an arriving packet.                                          *)
(*                                                                         *)
(* A message of `size` units travels as one DATA packet, which holds the   *)
(* 32 byte header and the first unit, and size - 1 continuation packets    *)
(* without a header ("CONT").  A unit stands for the payload of one        *)
(* packet; <<s, k, p>> is the p-th unit of the k-th operation of rank s.   *)
(***************************************************************************)
EXTENDS HeaderBytes, Sequences

CONSTANTS Rank,    \* the ranks of the cluster
          MaxInc   \* ZRLMPI_PROTOCOL_MAX_INC: timeouts of one call (3 in the code)

ASSUME RankAssumption == Rank \subseteq Nat /\ MaxInc \in Nat

SendCalls == {"MPI_SEND_INT", "MPI_SEND_FLOAT"}
RecvCalls == {"MPI_RECV_INT", "MPI_RECV_FLOAT"}
Calls     == SendCalls \cup RecvCalls

(* The call the peer of a transfer puts into its headers. *)
PeerCall == [MPI_SEND_INT   |-> "MPI_RECV_INT",
             MPI_RECV_INT   |-> "MPI_SEND_INT",
             MPI_SEND_FLOAT |-> "MPI_RECV_FLOAT",
             MPI_RECV_FLOAT |-> "MPI_SEND_FLOAT"]

(* What the defines say of calls and types. *)
CallCode == [MPI_SEND_INT |-> 0, MPI_RECV_INT |-> 1, MPI_SEND_FLOAT |-> 2,
             MPI_RECV_FLOAT |-> 3]
TypeCode == [SEND_REQUEST |-> 1, CLEAR_TO_SEND |-> 2, DATA |-> 3, ACK |-> 4]

HeaderTypes == {"SEND_REQUEST", "CLEAR_TO_SEND", "DATA", "ACK"}

Unit   == Nat \X Nat \X Nat
NoUnit == <<0, 0, 0>>       \* a packet that ends with its header
Junk   == <<0, 0, 1>>       \* a header that was taken for payload
Poison == << >>             \* the one line written when a receive fails, no unit

Packet == [type : HeaderTypes \cup {"CONT"}, src : Rank, dst : Rank,
           call : Calls, size : Nat, unit : Unit]

(* SEND_REQUEST, CLEAR_TO_SEND and ACK: a header and nothing else. *)
Control(type, src, dst, call) ==
  [type |-> type, src |-> src, dst |-> dst, call |-> call,
   size |-> 0, unit |-> NoUnit]

(* The first and the following packets of a message. *)
DataPacket(src, dst, call, size, unit) ==
  [type |-> "DATA", src |-> src, dst |-> dst, call |-> call,
   size |-> size, unit |-> unit]

ContPacket(src, dst, call, unit) ==
  [type |-> "CONT", src |-> src, dst |-> dst, call |-> call,
   size |-> 0, unit |-> unit]

(* The header of a packet.  Its size counts words, UnitWords in a packet.  *)
UnitWords == 346
FieldsOf(p) == [dst |-> p.dst, src |-> p.src, size |-> p.size * UnitWords,
                call |-> CallCode[p.call], type |-> TypeCode[p.type]]

(* bytesToHeader finds the magic bytes only in a packet that has a header. *)
HasHeader(p) == p.type # "CONT"

(* One line of a header cache; a receiver keeps one line per remote rank. *)
Header   == [type : HeaderTypes, src : Rank, call : Calls]
NoHeader == [type |-> "NONE"]
CacheLine == Header \cup {NoHeader}

HeaderOf(p) == [type |-> p.type, src |-> p.src, call |-> p.call]

(* What a receiver waits for, and when a header (or a cache line) is it. *)
(* MatchesAnyType is a mutant: the type of the packet is not compared.     *)
MatchesAnyType(h, type, call, src) == h.call = call /\ h.src = src

Matches(h, type, call, src) ==
  /\ h.type = type
  /\ h.call = call
  /\ h.src = src

CachedMatch(line, type, call, src) ==
  line # NoHeader /\ Matches(line, type, call, src)

=============================================================================
