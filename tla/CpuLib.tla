------------------------------- MODULE CpuLib -------------------------------
(***************************************************************************)
(* The library of a CPU rank (LIB/SW/ZRLMPI.cpp): MPI_Send and MPI_Recv    *)
(* over one UDP socket, single threaded.                                   *)
(*                                                                         *)
(* The state is the position in send_internal or recv_internal, the local  *)
(* variables of the call, and the header cache, which is global and stays  *)
(* from call to call.  An action is one sendto or one recvfrom with what   *)
(* follows it; looking up the cache, which receiveHeader does before its   *)
(* first recvfrom, is part of the action that enters receiveHeader.        *)
(* Whatever the data type, the library puts the INT calls into headers.    *)
(***************************************************************************)
EXTENDS Application

CONSTANT Cpu    \* the ranks that are CPUs

ASSUME CpuAssumption == Cpu \subseteq Rank

VARIABLE cpu

(* Where a CPU rank is: between two calls, about to sendto a packet of     *)
(* some type, or in receiveHeader.                                         *)
Places == {"READY", "SEND_REQUEST", "WAIT_CLEAR", "SEND_DATA", "WAIT_ACK",
           "WAIT_REQUEST", "SEND_CLEAR", "WAIT_DATA", "SEND_ACK"}

Library ==
  [pc : Places,
   inc : 0 .. MaxInc,             \* timeout_inc
   sent : Nat,                    \* total_packets
   buffer : Seq(Unit),            \* buffer; its length is recv_packets_cnt
   cache : [Rank -> CacheLine],   \* header_recv_cache; NoHeader: skip_cache_entry
   cacheNum : Nat]                \* cache_num

CpuTypeOK == cpu \in [Cpu -> Library]

(* MPI_Init marks every cache entry as to be skipped. *)
CpuInit ==
  cpu = [n \in Cpu |->
    [pc |-> "READY", inc |-> 0, sent |-> 0, buffer |-> << >>,
     cache |-> [r \in Rank |-> NoHeader], cacheNum |-> 0]]

At(n, place) == cpu[n].pc = place
Peer(n)      == CurrentOp(n).peer

-----------------------------------------------------------------------------
(* receiveHeader *)

(* The lookup before the first recvfrom: only while cache_num is not 0. *)
Cached(n, type, call) ==
  cpu[n].cacheNum # 0 /\ CachedMatch(cpu[n].cache[Peer(n)], type, call, Peer(n))

(* Enter receiveHeader for a control packet: a hit in the cache is deleted *)
(* and the call goes on at `found`, otherwise it waits at `wait`.          *)
Lookup(n, l, type, call, found, wait) ==
  cpu' = [cpu EXCEPT ![n] =
    IF Cached(n, type, call)
    THEN [l EXCEPT !.pc = found, !.cache = [@ EXCEPT ![Peer(n)] = NoHeader],
                   !.cacheNum = @ - 1]
    ELSE [l EXCEPT !.pc = wait]]

(* A mutant of PutIntoCache: cache_num is not incremented. *)
PutUncounted(l, p) == [l EXCEPT !.cache = [@ EXCEPT ![p.src] = HeaderOf(p)]]

(* Any other header overwrites the entry of its sender; it counts twice if *)
(* there was one already.                                                  *)
PutIntoCache(l, p) ==
  [l EXCEPT !.cache = [@ EXCEPT ![p.src] = HeaderOf(p)], !.cacheNum = @ + 1]

(* One recvfrom while waiting for a control packet.  A DATA packet is cut  *)
(* to its header; a packet without a header is dropped.                    *)
WaitControl(n, s, i, type, call, wait, found) ==
  /\ At(n, wait)
  /\ Consume(s, n, i)
  /\ LET p == net[<<s, n>>][i]
         wanted == /\ HasHeader(p) /\ s = Peer(n)
                   /\ Matches(HeaderOf(p), type, call, Peer(n))
     IN  cpu' = [cpu EXCEPT ![n] =
           IF wanted THEN [@ EXCEPT !.pc = found]
           ELSE IF HasHeader(p) THEN PutIntoCache(@, p)
           ELSE @]
  /\ UNCHANGED <<losses, got>>

(* Enter receiveHeader for DATA, which is never looked up in the cache: the *)
(* counting of packets starts anew.                                        *)
EnterForData(l) == [l EXCEPT !.pc = "WAIT_DATA", !.buffer = << >>]

(* receiveHeader returns when a packet it wanted was the last one. *)
Complete(n, received) == received >= CurrentOp(n).count

-----------------------------------------------------------------------------
(* MPI_Send *)

SendCall(n) ==
  /\ At(n, "READY")
  /\ Running(n) /\ CurrentOp(n).call \in SendCalls
  /\ cpu' = [cpu EXCEPT ![n].pc = "SEND_REQUEST", ![n].inc = 0]
  /\ UNCHANGED <<netVars, got>>

CpuSendRequest(n) ==
  /\ At(n, "SEND_REQUEST")
  /\ Transmit(n, Peer(n), Control("SEND_REQUEST", n, Peer(n), "MPI_SEND_INT"))
  /\ Lookup(n, [cpu[n] EXCEPT !.sent = 0], "CLEAR_TO_SEND", "MPI_RECV_INT",
            "SEND_DATA", "WAIT_CLEAR")
  /\ UNCHANGED <<losses, got>>

WaitClear(n, s, i) ==
  WaitControl(n, s, i, "CLEAR_TO_SEND", "MPI_RECV_INT", "WAIT_CLEAR", "SEND_DATA")

(* One packet of the message; after the last one receiveHeader looks for   *)
(* the ACK, and if that is in the cache the call returns.                  *)
CpuSendData(n) ==
  /\ At(n, "SEND_DATA")
  /\ LET op   == CurrentOp(n)
         k    == cpu[n].sent + 1
         unit == <<n, Position(n), k>>
         p    == IF k = 1 THEN DataPacket(n, op.peer, "MPI_SEND_INT", op.count, unit)
                 ELSE ContPacket(n, op.peer, "MPI_SEND_INT", unit)
     IN  /\ Transmit(n, op.peer, p)
         /\ IF k < op.count
            THEN cpu' = [cpu EXCEPT ![n].sent = k] /\ UNCHANGED got
            ELSE /\ Lookup(n, [cpu[n] EXCEPT !.sent = 0], "ACK", "MPI_RECV_INT",
                           "READY", "WAIT_ACK")
                 /\ IF Cached(n, "ACK", "MPI_RECV_INT") THEN Return(n, << >>)
                    ELSE UNCHANGED got
  /\ UNCHANGED losses

WaitAck(n, s, i) ==
  /\ At(n, "WAIT_ACK")
  /\ Consume(s, n, i)
  /\ LET p == net[<<s, n>>][i]
     IN  IF /\ HasHeader(p) /\ s = Peer(n)
            /\ Matches(HeaderOf(p), "ACK", "MPI_RECV_INT", Peer(n))
         THEN cpu' = [cpu EXCEPT ![n].pc = "READY"] /\ Return(n, << >>)
         ELSE /\ cpu' = [cpu EXCEPT ![n] = IF HasHeader(p) THEN PutIntoCache(@, p) ELSE @]
              /\ UNCHANGED got
  /\ UNCHANGED losses

-----------------------------------------------------------------------------
(* MPI_Recv *)

RecvCall(n) ==
  /\ At(n, "READY")
  /\ Running(n) /\ CurrentOp(n).call \in RecvCalls
  /\ Lookup(n, [cpu[n] EXCEPT !.inc = 0], "SEND_REQUEST", "MPI_SEND_INT",
            "SEND_CLEAR", "WAIT_REQUEST")
  /\ UNCHANGED <<netVars, got>>

WaitRequest(n, s, i) ==
  WaitControl(n, s, i, "SEND_REQUEST", "MPI_SEND_INT", "WAIT_REQUEST", "SEND_CLEAR")

CpuSendClear(n) ==
  /\ At(n, "SEND_CLEAR")
  /\ Transmit(n, Peer(n), Control("CLEAR_TO_SEND", n, Peer(n), "MPI_RECV_INT"))
  /\ cpu' = [cpu EXCEPT ![n] = EnterForData(@)]
  /\ UNCHANGED <<losses, got>>

(* The first packet must be the wanted DATA packet.  After it, a packet    *)
(* without a header continues the message whoever sent it, and any header  *)
(* goes into the cache.                                                    *)
WaitData(n, s, i) ==
  /\ At(n, "WAIT_DATA")
  /\ Consume(s, n, i)
  /\ LET p      == net[<<s, n>>][i]
         b      == cpu[n].buffer
         first  == /\ b = << >> /\ HasHeader(p) /\ s = Peer(n)
                   /\ Matches(HeaderOf(p), "DATA", "MPI_SEND_INT", Peer(n))
         more   == b # << >> /\ ~HasHeader(p)
         done   == Complete(n, Len(b) + 1)
     IN  cpu' = [cpu EXCEPT ![n] =
           IF first \/ more
           THEN [@ EXCEPT !.buffer = Append(b, p.unit),
                          !.pc = IF done THEN "SEND_ACK" ELSE "WAIT_DATA"]
           ELSE IF HasHeader(p) THEN PutIntoCache(@, p)
           ELSE @]
  /\ UNCHANGED <<losses, got>>

(* memcpy to the caller, sendto of the ACK, return *)
CpuSendAck(n) ==
  /\ At(n, "SEND_ACK")
  /\ Transmit(n, Peer(n), Control("ACK", n, Peer(n), "MPI_RECV_INT"))
  /\ cpu' = [cpu EXCEPT ![n].pc = "READY", ![n].buffer = << >>]
  /\ Return(n, cpu[n].buffer)
  /\ UNCHANGED losses

-----------------------------------------------------------------------------
(* A mutant of AfterTimeout: the CLEAR_TO_SEND is not repeated. *)
WaitOnForData == [WAIT_CLEAR |-> "SEND_REQUEST", WAIT_ACK |-> "SEND_DATA",
                  WAIT_DATA |-> "WAIT_DATA"]

(* SO_RCVTIMEO expires in receiveHeader; not while waiting for the request *)
(* and not once timeout_inc has reached its limit.  What was received of   *)
(* the message is given up.                                                *)
AfterTimeout == [WAIT_CLEAR |-> "SEND_REQUEST", WAIT_ACK |-> "SEND_DATA",
                 WAIT_DATA |-> "SEND_CLEAR"]

CpuTimeout(n) ==
  /\ cpu[n].pc \in DOMAIN AfterTimeout
  /\ cpu[n].inc < MaxInc
  /\ cpu' = [cpu EXCEPT ![n].pc = AfterTimeout[@], ![n].inc = @ + 1, ![n].buffer = << >>]
  /\ UNCHANGED <<netVars, got>>

CpuStep(n) ==
  \/ SendCall(n) \/ CpuSendRequest(n) \/ CpuSendData(n)
  \/ RecvCall(n) \/ CpuSendClear(n) \/ CpuSendAck(n)
  \/ \E s \in Rank : \E i \in Arriving(<<s, n>>) :
       \/ WaitClear(n, s, i) \/ WaitAck(n, s, i)
       \/ WaitRequest(n, s, i) \/ WaitData(n, s, i)

CpuBlocked(n) ==
  \/ cpu[n].pc \in {"WAIT_CLEAR", "WAIT_ACK", "WAIT_REQUEST", "WAIT_DATA"}
  \/ At(n, "READY") /\ ~Running(n)

-----------------------------------------------------------------------------
(* SAFETY: a header in the cache is always found: cache_num = 0, which     *)
(* receiveHeader takes for "the cache is empty", says so only when it is.  *)
(* cache_num is not the number of entries: overwriting an entry counts.    *)
FilledLines(n) == {r \in Rank : cpu[n].cache[r] # NoHeader}

CacheNumCovers == \A n \in Cpu : cpu[n].cacheNum = 0 => FilledLines(n) = {}

=============================================================================
