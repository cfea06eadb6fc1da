--------------------------- MODULE Cluster_proofs ---------------------------
(***************************************************************************)
(* The theorems about the cluster: for every set of FPGA and CPU ranks,    *)
(* every program, every window of reordering, every number and kind of     *)
(* losses, and timeouts at any time.                                       *)
(*                                                                         *)
(* The inductive invariant is the conjunction of the invariants of the two *)
(* kinds of ranks.  They share the network and the results, of which each  *)
(* needs the types only, so each is kept by the steps of the other.        *)
(*                                                                         *)
(* First what the steps of a CPU rank preserve: its types, and that        *)
(* cache_num never falls below the number of entries in the header cache.  *)
(***************************************************************************)
EXTENDS Cluster, Mpe_proofs, FiniteSetTheorems

(* The entries of a cache, counted. *)
Filled(l)  == {r \in Rank : l.cache[r] # NoHeader}
Counted(l) == IsFiniteSet(Filled(l)) /\ Cardinality(Filled(l)) <= l.cacheNum
Sound(l)   == l \in Library /\ Counted(l)

(* A step that leaves the cache alone. *)
LEMMA SameCache ==
  ASSUME NEW l, Sound(l), NEW k \in Library, k.cache = l.cache, k.cacheNum = l.cacheNum
  PROVE  Sound(k)
BY DEF Sound, Counted, Filled

(* Overwriting an entry adds at most one, and counts one. *)
LEMMA PutSound ==
  ASSUME NEW l, Sound(l), NEW p \in Packet, HasHeader(p)
  PROVE  Sound(PutIntoCache(l, p)) /\ PutIntoCache(l, p).pc = l.pc
<1> DEFINE cache == [l.cache EXCEPT ![p.src] = HeaderOf(p)]
           num == l.cacheNum + 1
           k == [l EXCEPT !.cache = cache, !.cacheNum = num]
<1>1. l \in Library /\ IsFiniteSet(Filled(l)) /\ Cardinality(Filled(l)) <= l.cacheNum
  BY DEF Sound, Counted
<1>2. HeaderOf(p) \in CacheLine /\ HeaderOf(p) # NoHeader /\ p.src \in Rank
  BY HeaderOfType
<1>3. l.cache \in [Rank -> CacheLine] /\ l.cacheNum \in Nat
  BY <1>1 DEF Library
<1>4. cache \in [Rank -> CacheLine] /\ num \in Nat
  BY <1>2, <1>3
<1>5. {r \in Rank : cache[r] # NoHeader} = Filled(l) \cup {p.src}
  BY <1>2, <1>3 DEF Filled
<1>6. PutIntoCache(l, p) = k
  BY DEF PutIntoCache
<1> HIDE DEF cache, num
<1>7. k \in Library /\ k.cache = cache /\ k.cacheNum = num /\ k.pc = l.pc
  BY <1>1, <1>4 DEF Library
<1> HIDE DEF k
<1>8. Filled(k) = Filled(l) \cup {p.src}
  BY <1>5, <1>7 DEF Filled
<1>9. /\ IsFiniteSet(Filled(l) \cup {p.src})
      /\ \/ Cardinality(Filled(l) \cup {p.src}) = Cardinality(Filled(l))
         \/ Cardinality(Filled(l) \cup {p.src}) = Cardinality(Filled(l)) + 1
  BY <1>1, FS_AddElement
<1>10. Cardinality(Filled(l)) \in Nat
  BY <1>1, FS_CardinalityType
<1>11. Cardinality(Filled(k)) <= num
  BY <1>1, <1>3, <1>8, <1>9, <1>10 DEF num
<1> QED BY <1>6, <1>7, <1>8, <1>9, <1>11 DEF Sound, Counted

(* A hit removes one entry, and one from the count. *)
LEMMA HitSound ==
  ASSUME NEW l, Sound(l), NEW r \in Rank, l.cache[r] # NoHeader, NEW place \in Places
  PROVE  Sound([l EXCEPT !.pc = place, !.cache = [@ EXCEPT ![r] = NoHeader],
                         !.cacheNum = @ - 1])
<1> DEFINE cache == [l.cache EXCEPT ![r] = NoHeader]
           num == l.cacheNum - 1
           k == [l EXCEPT !.pc = place, !.cache = cache, !.cacheNum = num]
<1>1. l \in Library /\ IsFiniteSet(Filled(l)) /\ Cardinality(Filled(l)) <= l.cacheNum
  BY DEF Sound, Counted
<1>2. l.cache \in [Rank -> CacheLine] /\ l.cacheNum \in Nat
  BY <1>1 DEF Library
<1>3. r \in Filled(l)
  BY DEF Filled
<1>4. /\ IsFiniteSet(Filled(l) \ {r})
      /\ Cardinality(Filled(l) \ {r}) = Cardinality(Filled(l)) - 1
  BY <1>1, <1>3, FS_RemoveElement
<1>5. Cardinality(Filled(l)) \in Nat /\ Cardinality(Filled(l) \ {r}) \in Nat
  BY <1>1, <1>4, FS_CardinalityType
<1>6. cache \in [Rank -> CacheLine] /\ num \in Nat
  BY <1>1, <1>2, <1>4, <1>5 DEF CacheLine
<1>7. {q \in Rank : cache[q] # NoHeader} = Filled(l) \ {r}
  BY <1>2 DEF Filled
<1>8. Cardinality(Filled(l) \ {r}) <= num
  BY <1>1, <1>2, <1>4, <1>5
<1> HIDE DEF cache, num
<1>9. k \in Library /\ k.cache = cache /\ k.cacheNum = num
  BY <1>1, <1>6 DEF Library
<1>10. k = [l EXCEPT !.pc = place, !.cache = [@ EXCEPT ![r] = NoHeader], !.cacheNum = @ - 1]
  BY DEF cache, num
<1> HIDE DEF k
<1>11. Filled(k) = Filled(l) \ {r}
  BY <1>7, <1>9 DEF Filled
<1>12. Sound(k)
  BY <1>4, <1>8, <1>9, <1>11 DEF Sound, Counted
<1> QED BY <1>10, <1>12

-----------------------------------------------------------------------------
(* The invariant of the CPU ranks. *)

(* While a rank has not returned from a call, the program is not over. *)
CpuBusy == \A n \in Cpu : cpu[n].pc # "READY" => Running(n)

CpuInv ==
  /\ NetworkTypeOK /\ ApplicationTypeOK /\ CpuTypeOK
  /\ \A n \in Cpu : Counted(cpu[n])
  /\ CpuBusy

LEMMA LibraryOf ==
  ASSUME CpuInv, NEW n \in Cpu
  PROVE  n \in Rank /\ n \in Nat /\ cpu[n] \in Library /\ Sound(cpu[n])
BY CpuAssumption, RankAssumption DEF CpuInv, CpuTypeOK, Sound

LEMMA OpOf ==
  ASSUME CpuInv, NEW n \in Cpu, Running(n)
  PROVE  /\ CurrentOp(n) \in Op /\ Peer(n) \in Rank
         /\ Position(n) \in Nat /\ Position(n) \in DOMAIN Program[n]
<1>1. CurrentOp(n) \in Op /\ Position(n) \in Nat \ {0}
  BY LibraryOf, CurrentOpType DEF CpuInv
<1> QED BY <1>1, LibraryOf, ProgramAssumption DEF Peer, Op, Running

(* A step of rank n: its new state l is sound, and it is in a call only if *)
(* the program is not over.                                                *)
MovesTo(n, l) ==
  /\ Sound(l)
  /\ cpu' = [cpu EXCEPT ![n] = l]
  /\ l.pc # "READY" => Running(n)'

Moves(n) == \E l : MovesTo(n, l)

LEMMA LookupMoves ==
  ASSUME CpuInv, NEW n \in Cpu, Running(n), NEW l, Sound(l),
         l.cache = cpu[n].cache, l.cacheNum = cpu[n].cacheNum,
         NEW type, NEW call, NEW found \in Places, NEW wait \in Places,
         Lookup(n, l, type, call, found, wait)
  PROVE  \E k : /\ Sound(k) /\ cpu' = [cpu EXCEPT ![n] = k]
                /\ k.pc = IF Cached(n, type, call) THEN found ELSE wait
<1>1. l \in Library /\ Peer(n) \in Rank
  BY OpOf DEF Sound
<1>2. CASE Cached(n, type, call)
  <2> DEFINE k == [l EXCEPT !.pc = found, !.cache = [@ EXCEPT ![Peer(n)] = NoHeader],
                            !.cacheNum = @ - 1]
  <2>1. l.cache[Peer(n)] # NoHeader
    BY <1>2 DEF Cached, CachedMatch
  <2>2. Sound(k)
    BY <1>1, <2>1, HitSound
  <2>3. cpu' = [cpu EXCEPT ![n] = k] /\ k.pc = found
    BY <1>1, <1>2 DEF Lookup, Library
  <2> HIDE DEF k
  <2> QED BY <1>2, <2>2, <2>3
<1>3. CASE ~Cached(n, type, call)
  <2> DEFINE k == [l EXCEPT !.pc = wait]
  <2>1. k \in Library /\ k.cache = l.cache /\ k.cacheNum = l.cacheNum /\ k.pc = wait
    BY <1>1 DEF Library
  <2>2. cpu' = [cpu EXCEPT ![n] = k]
    BY <1>3 DEF Lookup
  <2> HIDE DEF k
  <2> QED BY <1>3, <2>1, <2>2, SameCache
<1> QED BY <1>2, <1>3

(* A step that leaves the cache alone and stays in the call. *)
LEMMA StaysMoves ==
  ASSUME CpuInv, NEW n \in Cpu, Running(n), NEW k \in Library,
         k.cache = cpu[n].cache, k.cacheNum = cpu[n].cacheNum,
         cpu' = [cpu EXCEPT ![n] = k], UNCHANGED got
  PROVE  Moves(n)
<1>1. Sound(k)
  BY LibraryOf, SameCache
<1>2. Running(n)'
  BY DEF Running, Position
<1> QED BY <1>1, <1>2 DEF Moves, MovesTo

-----------------------------------------------------------------------------
(* One lemma per action. *)

LEMMA SendCallMoves ==
  ASSUME CpuInv, NEW n \in Cpu, SendCall(n)
  PROVE  Moves(n)
<1> DEFINE place == "SEND_REQUEST"
           k == [cpu[n] EXCEPT !.pc = place, !.inc = 0]
<1>1. cpu' = [cpu EXCEPT ![n] = k] /\ Running(n) /\ UNCHANGED got
  BY DEF SendCall
<1>2. k \in Library /\ k.cache = cpu[n].cache /\ k.cacheNum = cpu[n].cacheNum
  <2>1. cpu[n] \in Library /\ place \in Places /\ 0 \in 0 .. MaxInc
    BY LibraryOf, RankAssumption DEF Places
  <2> HIDE DEF place
  <2> QED BY <2>1 DEF Library
<1> HIDE DEF k
<1> QED BY <1>1, <1>2, StaysMoves

LEMMA CpuSendRequestMoves ==
  ASSUME CpuInv, NEW n \in Cpu, CpuSendRequest(n)
  PROVE  Moves(n) /\ NetworkTypeOK'
<1> DEFINE l == [cpu[n] EXCEPT !.sent = 0]
           p == Control("SEND_REQUEST", n, Peer(n), "MPI_SEND_INT")
<1>1. Running(n) /\ UNCHANGED got
  BY DEF CpuSendRequest, CpuInv, CpuBusy, At
<1>2. n \in Rank /\ Peer(n) \in Rank /\ cpu[n] \in Library /\ Sound(cpu[n])
  BY <1>1, LibraryOf, OpOf
<1>3. p \in Packet
  BY <1>2, ControlType DEF HeaderTypes, Calls, SendCalls
<1>4. NetworkTypeOK'
  BY <1>2, <1>3, TransmitType DEF CpuSendRequest, CpuInv
<1>5. l \in Library /\ l.cache = cpu[n].cache /\ l.cacheNum = cpu[n].cacheNum
  BY <1>2 DEF Library
<1>6. Lookup(n, l, "CLEAR_TO_SEND", "MPI_RECV_INT", "SEND_DATA", "WAIT_CLEAR")
  BY DEF CpuSendRequest
<1> HIDE DEF l
<1>7. Sound(l)
  BY <1>2, <1>5, SameCache
<1>8. PICK k : Sound(k) /\ cpu' = [cpu EXCEPT ![n] = k]
  BY <1>1, <1>5, <1>6, <1>7, LookupMoves DEF Places
<1>9. Running(n)'
  BY <1>1 DEF Running, Position
<1> QED BY <1>4, <1>8, <1>9 DEF Moves, MovesTo

LEMMA RecvCallMoves ==
  ASSUME CpuInv, NEW n \in Cpu, RecvCall(n)
  PROVE  Moves(n)
<1> DEFINE l == [cpu[n] EXCEPT !.inc = 0]
<1>1. Running(n) /\ UNCHANGED got
  BY DEF RecvCall
<1>2. cpu[n] \in Library /\ Sound(cpu[n])
  BY LibraryOf
<1>3. l \in Library /\ l.cache = cpu[n].cache /\ l.cacheNum = cpu[n].cacheNum
  BY <1>2, RankAssumption DEF Library
<1>4. Lookup(n, l, "SEND_REQUEST", "MPI_SEND_INT", "SEND_CLEAR", "WAIT_REQUEST")
  BY DEF RecvCall
<1> HIDE DEF l
<1>5. Sound(l)
  BY <1>2, <1>3, SameCache
<1>6. PICK k : Sound(k) /\ cpu' = [cpu EXCEPT ![n] = k]
  BY <1>1, <1>3, <1>4, <1>5, LookupMoves DEF Places
<1>7. Running(n)'
  BY <1>1 DEF Running, Position
<1> QED BY <1>6, <1>7 DEF Moves, MovesTo

LEMMA CpuSendClearMoves ==
  ASSUME CpuInv, NEW n \in Cpu, CpuSendClear(n)
  PROVE  Moves(n) /\ NetworkTypeOK'
<1> DEFINE place == "WAIT_DATA"
           empty == << >>
           k == [cpu[n] EXCEPT !.pc = place, !.buffer = empty]
           p == Control("CLEAR_TO_SEND", n, Peer(n), "MPI_RECV_INT")
<1>1. Running(n) /\ UNCHANGED got
  BY DEF CpuSendClear, EnterForData, CpuInv, CpuBusy, At
<1>2. n \in Rank /\ Peer(n) \in Rank /\ cpu[n] \in Library
  BY <1>1, LibraryOf, OpOf
<1>3. p \in Packet
  BY <1>2, ControlType DEF HeaderTypes, Calls, RecvCalls
<1>4. NetworkTypeOK'
  BY <1>2, <1>3, TransmitType DEF CpuSendClear, EnterForData, CpuInv
<1>5. k \in Library /\ k.cache = cpu[n].cache /\ k.cacheNum = cpu[n].cacheNum
  <2>1. place \in Places /\ empty \in Seq(Unit)
    BY DEF Places
  <2> HIDE DEF place, empty
  <2> QED BY <1>2, <2>1 DEF Library
<1>6. cpu' = [cpu EXCEPT ![n] = k]
  BY DEF CpuSendClear, EnterForData
<1> HIDE DEF k
<1> QED BY <1>1, <1>4, <1>5, <1>6, StaysMoves

LEMMA CpuTimeoutMoves ==
  ASSUME CpuInv, NEW n \in Cpu, CpuTimeout(n)
  PROVE  Moves(n)
<1> DEFINE next == AfterTimeout[cpu[n].pc]
           empty == << >>
           k == [cpu[n] EXCEPT !.pc = next, !.inc = @ + 1, !.buffer = empty]
<1>1. Running(n) /\ UNCHANGED got
  BY DEF CpuTimeout, CpuInv, CpuBusy, AfterTimeout
<1>2. cpu[n] \in Library /\ next \in Places
  BY LibraryOf DEF CpuTimeout, AfterTimeout, Places
<1>3. cpu[n].inc + 1 \in 0 .. MaxInc
  BY <1>2, RankAssumption DEF Library, CpuTimeout
<1>4. cpu' = [cpu EXCEPT ![n] = k]
  BY DEF CpuTimeout
<1>5. k \in Library /\ k.cache = cpu[n].cache /\ k.cacheNum = cpu[n].cacheNum
  <2>1. empty \in Seq(Unit)
    OBVIOUS
  <2> HIDE DEF next, empty
  <2> QED BY <1>2, <1>3, <2>1 DEF Library
<1> HIDE DEF k
<1> QED BY <1>1, <1>4, <1>5, StaysMoves

(* The packet is kept in the cache, or dropped: the rank goes on waiting.  *)
LEMMA UnwantedMoves ==
  ASSUME CpuInv, NEW n \in Cpu, Running(n), NEW s \in Rank, NEW i \in Arriving(<<s, n>>),
         Consume(s, n, i), UNCHANGED got,
         cpu' = [cpu EXCEPT ![n] =
           IF HasHeader(net[<<s, n>>][i]) THEN PutIntoCache(@, net[<<s, n>>][i]) ELSE @]
  PROVE  Moves(n)
<1> DEFINE p == net[<<s, n>>][i]
<1>1. n \in Rank /\ Sound(cpu[n])
  BY LibraryOf
<1>2. p \in Packet
  BY <1>1, ConsumeType DEF CpuInv
<1>3. Running(n)'
  BY DEF Running, Position
<1>4. CASE HasHeader(p)
  <2>1. cpu' = [cpu EXCEPT ![n] = PutIntoCache(cpu[n], p)]
    BY <1>4
  <2>2. Sound(PutIntoCache(cpu[n], p))
    BY <1>1, <1>2, <1>4, PutSound
  <2> QED BY <1>3, <2>1, <2>2 DEF Moves, MovesTo
<1>5. CASE ~HasHeader(p)
  <2>1. cpu' = [cpu EXCEPT ![n] = cpu[n]]
    BY <1>5
  <2> QED BY <1>1, <1>3, <2>1 DEF Moves, MovesTo
<1> QED BY <1>4, <1>5

(* The packet is the one waited for. *)
LEMMA FoundMoves ==
  ASSUME CpuInv, NEW n \in Cpu, Running(n), NEW place \in Places, UNCHANGED got,
         cpu' = [cpu EXCEPT ![n].pc = place]
  PROVE  Moves(n)
<1> DEFINE k == [cpu[n] EXCEPT !.pc = place]
<1>1. k \in Library /\ k.cache = cpu[n].cache /\ k.cacheNum = cpu[n].cacheNum
  BY LibraryOf DEF Library
<1>2. cpu' = [cpu EXCEPT ![n] = k]
  OBVIOUS
<1> HIDE DEF k
<1> QED BY <1>1, <1>2, StaysMoves

LEMMA WaitControlMoves ==
  ASSUME CpuInv, NEW n \in Cpu, NEW s \in Rank, NEW i \in Arriving(<<s, n>>),
         NEW type, NEW call, NEW wait \in Places \ {"READY"}, NEW found \in Places,
         WaitControl(n, s, i, type, call, wait, found)
  PROVE  Moves(n)
<1>1. Running(n) /\ UNCHANGED got /\ Consume(s, n, i)
  BY DEF WaitControl, CpuInv, CpuBusy, At
<1>2. \/ cpu' = [cpu EXCEPT ![n].pc = found]
      \/ cpu' = [cpu EXCEPT ![n] =
           IF HasHeader(net[<<s, n>>][i]) THEN PutIntoCache(@, net[<<s, n>>][i]) ELSE @]
  BY DEF WaitControl
<1> QED BY <1>1, <1>2, FoundMoves, UnwantedMoves

LEMMA WaitAckMoves ==
  ASSUME CpuInv, NEW n \in Cpu, NEW s \in Rank, NEW i \in Arriving(<<s, n>>),
         WaitAck(n, s, i)
  PROVE  Moves(n) /\ ApplicationTypeOK'
<1>1. Running(n) /\ Consume(s, n, i) /\ n \in Rank
  BY LibraryOf DEF WaitAck, CpuInv, CpuBusy, At
<1>2. CASE cpu' = [cpu EXCEPT ![n].pc = "READY"] /\ Return(n, << >>)
  <2> DEFINE place == "READY"
             k == [cpu[n] EXCEPT !.pc = place]
  <2>1. k \in Library /\ k.cache = cpu[n].cache /\ k.cacheNum = cpu[n].cacheNum
        /\ k.pc = "READY"
    <3>1. place \in Places
      BY DEF Places
    <3> HIDE DEF place
    <3>2. k \in Library /\ k.cache = cpu[n].cache /\ k.cacheNum = cpu[n].cacheNum /\ k.pc = place
      BY <3>1, LibraryOf DEF Library
    <3> QED BY <3>2 DEF place
  <2>2. cpu' = [cpu EXCEPT ![n] = k]
    BY <1>2
  <2> HIDE DEF k
  <2>3. Moves(n)
    BY <2>1, <2>2, LibraryOf, SameCache DEF Moves, MovesTo
  <2>4. << >> \in Seq(Unit)
    OBVIOUS
  <2> QED BY <1>1, <1>2, <2>3, <2>4, ReturnType DEF CpuInv
<1>3. CASE /\ UNCHANGED got
           /\ cpu' = [cpu EXCEPT ![n] =
                IF HasHeader(net[<<s, n>>][i]) THEN PutIntoCache(@, net[<<s, n>>][i]) ELSE @]
  BY <1>1, <1>3, UnwantedMoves DEF CpuInv, ApplicationTypeOK
<1> QED BY <1>2, <1>3 DEF WaitAck

LEMMA WaitDataMoves ==
  ASSUME CpuInv, NEW n \in Cpu, NEW s \in Rank, NEW i \in Arriving(<<s, n>>),
         WaitData(n, s, i)
  PROVE  Moves(n)
<1> DEFINE p == net[<<s, n>>][i]
           buffer == Append(cpu[n].buffer, p.unit)
           done == Len(cpu[n].buffer) + 1 >= CurrentOp(n).count
           place == IF done THEN "SEND_ACK" ELSE "WAIT_DATA"
           k == [cpu[n] EXCEPT !.buffer = buffer, !.pc = place]
<1>1. Running(n) /\ UNCHANGED got /\ Consume(s, n, i) /\ n \in Rank
  BY LibraryOf DEF WaitData, Complete, CpuInv, CpuBusy, At
<1>2. p \in Packet
  BY <1>1, ConsumeType DEF CpuInv
<1>3. \/ cpu' = [cpu EXCEPT ![n] = k]
      \/ cpu' = [cpu EXCEPT ![n] = IF HasHeader(p) THEN PutIntoCache(@, p) ELSE @]
  BY DEF WaitData, Complete
<1>4. CASE cpu' = [cpu EXCEPT ![n] = k]
  <2>1. place \in Places
    BY DEF Places
  <2>2. buffer \in Seq(Unit)
    <3>1. cpu[n].buffer \in Seq(Unit) /\ p.unit \in Unit
      BY <1>2, LibraryOf DEF Library, Packet
    <3> QED BY <3>1
  <2> HIDE DEF buffer, place
  <2>3. k \in Library /\ k.cache = cpu[n].cache /\ k.cacheNum = cpu[n].cacheNum
    BY <2>1, <2>2, LibraryOf DEF Library
  <2> HIDE DEF k
  <2> QED BY <1>1, <1>4, <2>3, StaysMoves
<1>5. CASE cpu' = [cpu EXCEPT ![n] = IF HasHeader(p) THEN PutIntoCache(@, p) ELSE @]
  BY <1>1, <1>5, UnwantedMoves
<1> QED BY <1>3, <1>4, <1>5

LEMMA CpuSendAckMoves ==
  ASSUME CpuInv, NEW n \in Cpu, CpuSendAck(n)
  PROVE  Moves(n) /\ NetworkTypeOK' /\ ApplicationTypeOK'
<1> DEFINE place == "READY"
           empty == << >>
           k == [cpu[n] EXCEPT !.pc = place, !.buffer = empty]
           p == Control("ACK", n, Peer(n), "MPI_RECV_INT")
<1>1. Running(n)
  BY DEF CpuSendAck, CpuInv, CpuBusy, At
<1>2. n \in Rank /\ Peer(n) \in Rank /\ cpu[n] \in Library /\ Sound(cpu[n])
  BY <1>1, LibraryOf, OpOf
<1>3. p \in Packet
  BY <1>2, ControlType DEF HeaderTypes, Calls, RecvCalls
<1>4. NetworkTypeOK'
  BY <1>2, <1>3, TransmitType DEF CpuSendAck, CpuInv
<1>5. cpu[n].buffer \in Seq(Unit)
  BY <1>2 DEF Library
<1>6. ApplicationTypeOK'
  BY <1>2, <1>5, ReturnType DEF CpuSendAck, CpuInv
<1>7. k \in Library /\ k.cache = cpu[n].cache /\ k.cacheNum = cpu[n].cacheNum /\ k.pc = place
  <2>1. place \in Places /\ empty \in Seq(Unit)
    BY DEF Places
  <2> HIDE DEF place, empty
  <2> QED BY <1>2, <2>1 DEF Library
<1>8. cpu' = [cpu EXCEPT ![n] = k]
  BY DEF CpuSendAck
<1> HIDE DEF k
<1> QED BY <1>2, <1>4, <1>6, <1>7, <1>8, SameCache DEF Moves, MovesTo

LEMMA CpuSendDataMoves ==
  ASSUME CpuInv, NEW n \in Cpu, CpuSendData(n)
  PROVE  Moves(n) /\ NetworkTypeOK' /\ ApplicationTypeOK'
<1> DEFINE op == CurrentOp(n)
           k == cpu[n].sent + 1
           unit == <<n, Position(n), k>>
           p == IF k = 1 THEN DataPacket(n, op.peer, "MPI_SEND_INT", op.count, unit)
                ELSE ContPacket(n, op.peer, "MPI_SEND_INT", unit)
           l == [cpu[n] EXCEPT !.sent = 0]
           more == [cpu[n] EXCEPT !.sent = k]
           hit == Cached(n, "ACK", "MPI_RECV_INT")
<1>1. Running(n)
  BY DEF CpuSendData, CpuInv, CpuBusy, At
<1>2. n \in Rank /\ n \in Nat /\ cpu[n] \in Library /\ Sound(cpu[n]) /\ op \in Op
      /\ Position(n) \in Nat /\ k \in Nat
  BY <1>1, LibraryOf, OpOf DEF Library
<1>3. p \in Packet /\ op.peer \in Rank
  <2>1. unit \in Unit /\ op.peer \in Rank /\ op.count \in Nat
    BY <1>2 DEF Unit, Op
  <2>2. "MPI_SEND_INT" \in Calls
    BY DEF Calls, SendCalls
  <2> QED BY <1>2, <2>1, <2>2, MessageType
<1>4. NetworkTypeOK'
  BY <1>2, <1>3, TransmitType DEF CpuSendData, CpuInv
<1>5. CASE cpu' = [cpu EXCEPT ![n] = more] /\ UNCHANGED got
  <2>1. more \in Library /\ more.cache = cpu[n].cache /\ more.cacheNum = cpu[n].cacheNum
    BY <1>2 DEF Library
  <2> HIDE DEF more
  <2>2. Moves(n)
    BY <1>1, <1>5, <2>1, StaysMoves
  <2> QED BY <1>4, <1>5, <2>2 DEF CpuInv, ApplicationTypeOK
<1>6. CASE /\ Lookup(n, l, "ACK", "MPI_RECV_INT", "READY", "WAIT_ACK")
           /\ hit => Return(n, << >>)
           /\ ~hit => UNCHANGED got
  <2>1. l \in Library /\ l.cache = cpu[n].cache /\ l.cacheNum = cpu[n].cacheNum
    BY <1>2 DEF Library
  <2> HIDE DEF l
  <2>2. Sound(l)
    BY <1>2, <2>1, SameCache
  <2>3. "READY" \in Places /\ "WAIT_ACK" \in Places
    BY DEF Places
  <2>4. PICK m : /\ Sound(m) /\ cpu' = [cpu EXCEPT ![n] = m]
                 /\ m.pc = IF hit THEN "READY" ELSE "WAIT_ACK"
    BY <1>1, <1>6, <2>1, <2>2, <2>3, LookupMoves
  <2>5. << >> \in Seq(Unit)
    OBVIOUS
  <2>6. CASE hit
    BY <1>2, <1>4, <1>6, <2>4, <2>5, <2>6, ReturnType DEF CpuInv, Moves, MovesTo
  <2>7. CASE ~hit
    <3>1. UNCHANGED got
      BY <1>6, <2>7
    <3>2. Running(n)'
      BY <1>1, <3>1 DEF Running, Position
    <3> QED BY <1>4, <2>4, <3>1, <3>2 DEF CpuInv, ApplicationTypeOK, Moves, MovesTo
  <2> QED BY <2>6, <2>7
<1>7. \/ cpu' = [cpu EXCEPT ![n] = more] /\ UNCHANGED got
      \/ /\ Lookup(n, l, "ACK", "MPI_RECV_INT", "READY", "WAIT_ACK")
         /\ hit => Return(n, << >>)
         /\ ~hit => UNCHANGED got
  BY DEF CpuSendData
<1> QED BY <1>5, <1>6, <1>7

-----------------------------------------------------------------------------
(* All steps together. *)

LEMMA InitCpuInv == NetworkInit /\ ApplicationInit /\ CpuInit => CpuInv
<1> SUFFICES ASSUME NetworkInit, ApplicationInit, CpuInit PROVE CpuInv
  OBVIOUS
<1>1. NetworkTypeOK /\ ApplicationTypeOK
  BY NetworkInitType, ApplicationInitType
<1>2. ASSUME NEW n \in Cpu
      PROVE  cpu[n] \in Library /\ Counted(cpu[n]) /\ cpu[n].pc = "READY"
  <2> DEFINE none == [r \in Rank |-> NoHeader]
  <2>1. cpu[n] = [pc |-> "READY", inc |-> 0, sent |-> 0, buffer |-> << >>,
                  cache |-> none, cacheNum |-> 0]
    BY DEF CpuInit
  <2>2. none \in [Rank -> CacheLine] /\ \A r \in Rank : none[r] = NoHeader
    BY DEF CacheLine
  <2> HIDE DEF none
  <2>3. cpu[n] \in Library
    BY <2>1, <2>2, RankAssumption DEF Library, Places
  <2>4. cpu[n].pc = "READY" /\ cpu[n].cacheNum = 0 /\ cpu[n].cache = none
    BY <2>1
  <2>5. Filled(cpu[n]) = {}
    BY <2>2, <2>4 DEF Filled
  <2>6. Counted(cpu[n])
    BY <2>4, <2>5, FS_EmptySet DEF Counted
  <2> QED BY <2>3, <2>4, <2>6
<1>3. CpuTypeOK
  BY <1>2 DEF CpuTypeOK, CpuInit
<1> QED BY <1>1, <1>2, <1>3 DEF CpuInv, CpuBusy

LEMMA CpuStepMoves ==
  ASSUME CpuInv, NEW n \in Cpu, CpuStep(n) \/ CpuTimeout(n)
  PROVE  Moves(n) /\ NetworkTypeOK' /\ ApplicationTypeOK'
<1>1. ASSUME UNCHANGED netVars PROVE NetworkTypeOK'
  BY <1>1 DEF netVars, CpuInv, NetworkTypeOK
<1>2. ASSUME UNCHANGED got PROVE ApplicationTypeOK'
  BY <1>2 DEF CpuInv, ApplicationTypeOK
<1>3. ASSUME NEW s \in Rank, NEW i \in Arriving(<<s, n>>), Consume(s, n, i), UNCHANGED losses
      PROVE  NetworkTypeOK'
  BY <1>3, LibraryOf, ConsumeType DEF CpuInv, NetworkTypeOK
<1>4. CASE SendCall(n)
  BY <1>1, <1>2, <1>4, SendCallMoves DEF SendCall
<1>5. CASE CpuSendRequest(n)
  BY <1>2, <1>5, CpuSendRequestMoves DEF CpuSendRequest
<1>6. CASE CpuSendData(n)
  BY <1>6, CpuSendDataMoves
<1>7. CASE RecvCall(n)
  BY <1>1, <1>2, <1>7, RecvCallMoves DEF RecvCall
<1>8. CASE CpuSendClear(n)
  BY <1>2, <1>8, CpuSendClearMoves DEF CpuSendClear
<1>9. CASE CpuSendAck(n)
  BY <1>9, CpuSendAckMoves
<1>10. CASE CpuTimeout(n)
  BY <1>1, <1>2, <1>10, CpuTimeoutMoves DEF CpuTimeout
<1>11. ASSUME NEW s \in Rank, NEW i \in Arriving(<<s, n>>), WaitClear(n, s, i)
       PROVE  Moves(n) /\ NetworkTypeOK' /\ ApplicationTypeOK'
  <2>1. Moves(n)
    BY <1>11, WaitControlMoves DEF WaitClear, Places
  <2> QED BY <1>2, <1>3, <1>11, <2>1 DEF WaitClear, WaitControl
<1>12. ASSUME NEW s \in Rank, NEW i \in Arriving(<<s, n>>), WaitRequest(n, s, i)
       PROVE  Moves(n) /\ NetworkTypeOK' /\ ApplicationTypeOK'
  <2>1. Moves(n)
    BY <1>12, WaitControlMoves DEF WaitRequest, Places
  <2> QED BY <1>2, <1>3, <1>12, <2>1 DEF WaitRequest, WaitControl
<1>13. ASSUME NEW s \in Rank, NEW i \in Arriving(<<s, n>>), WaitAck(n, s, i)
       PROVE  Moves(n) /\ NetworkTypeOK' /\ ApplicationTypeOK'
  BY <1>3, <1>13, WaitAckMoves DEF WaitAck
<1>14. ASSUME NEW s \in Rank, NEW i \in Arriving(<<s, n>>), WaitData(n, s, i)
       PROVE  Moves(n) /\ NetworkTypeOK' /\ ApplicationTypeOK'
  BY <1>2, <1>3, <1>14, WaitDataMoves DEF WaitData
<1> QED BY <1>4, <1>5, <1>6, <1>7, <1>8, <1>9, <1>10, <1>11, <1>12, <1>13, <1>14 DEF CpuStep

(* The results of the other ranks stay as they are. *)
LEMMA CpuReturns ==
  ASSUME ApplicationTypeOK, NEW n \in Cpu, CpuStep(n) \/ CpuTimeout(n), NEW m \in Rank, m # n
  PROVE  got'[m] = got[m]
<1>1. got' = got \/ \E data : Return(n, data)
  BY DEF CpuStep, SendCall, CpuSendRequest, CpuSendData, RecvCall, CpuSendClear, CpuSendAck,
         CpuTimeout, WaitClear, WaitRequest, WaitControl, WaitAck, WaitData
<1> QED BY <1>1 DEF Return, ApplicationTypeOK

LEMMA StepCpuInv ==
  ASSUME CpuInv, NEW n \in Cpu, CpuStep(n) \/ CpuTimeout(n)
  PROVE  CpuInv'
<1>1. Moves(n) /\ NetworkTypeOK' /\ ApplicationTypeOK'
  BY CpuStepMoves
<1>2. PICK l : MovesTo(n, l)
  BY <1>1 DEF Moves
<1>3. l \in Library /\ Counted(l) /\ cpu' = [cpu EXCEPT ![n] = l]
  BY <1>2 DEF MovesTo, Sound
<1>4. cpu' \in [Cpu -> Library] /\ cpu'[n] = l
  BY <1>3 DEF CpuInv, CpuTypeOK
<1>5. ASSUME NEW m \in Cpu, m # n PROVE cpu'[m] = cpu[m] /\ got'[m] = got[m]
  BY <1>3, <1>5, CpuReturns, CpuAssumption DEF CpuInv, CpuTypeOK
<1>6. ASSUME NEW m \in Cpu
      PROVE  Counted(cpu'[m]) /\ (cpu'[m].pc # "READY" => Running(m)')
  <2>1. CASE m = n
    BY <1>2, <1>3, <1>4, <2>1 DEF MovesTo
  <2>2. CASE m # n
    <3>1. cpu'[m] = cpu[m] /\ got'[m] = got[m]
      BY <1>5, <2>2
    <3> QED BY <3>1 DEF CpuInv, CpuBusy, Running, Position
  <2> QED BY <2>1, <2>2
<1>7. \A m \in Cpu : Counted(cpu[m])'
  BY <1>6 DEF Counted, Filled
<1> QED BY <1>1, <1>4, <1>6, <1>7 DEF CpuInv, CpuTypeOK, CpuBusy

(* What a rank that is no CPU, a loss or the end of the program keeps. *)
LEMMA OtherCpuInv ==
  ASSUME CpuInv, UNCHANGED cpu, NetworkTypeOK', ApplicationTypeOK',
         \A n \in Cpu : got'[n] = got[n]
  PROVE  CpuInv'
<1>1. \A n \in Cpu : Counted(cpu[n])'
  BY DEF CpuInv, Counted, Filled
<1>2. \A n \in Cpu : cpu'[n].pc # "READY" => Running(n)'
  BY DEF CpuInv, CpuBusy, Running, Position
<1> QED BY <1>1, <1>2 DEF CpuInv, CpuTypeOK, CpuBusy

LEMMA CountedCovers == CpuInv => CacheNumCovers
<1> SUFFICES ASSUME CpuInv, NEW n \in Cpu, cpu[n].cacheNum = 0 PROVE FilledLines(n) = {}
  BY DEF CacheNumCovers
<1>1. FilledLines(n) = Filled(cpu[n])
  BY DEF FilledLines, Filled
<1>2. IsFiniteSet(Filled(cpu[n])) /\ Cardinality(Filled(cpu[n])) <= 0
  BY DEF CpuInv, Counted
<1>3. Cardinality(Filled(cpu[n])) = 0
  BY <1>2, FS_CardinalityType
<1> QED BY <1>1, <1>2, <1>3, FS_EmptySet

-----------------------------------------------------------------------------
(* Both kinds of ranks together.                                           *)

IInv == FpgaInv /\ CpuInv

LEMMA InitIInv == Init => IInv
BY InitFpgaInv, InitCpuInv DEF Init, IInv

LEMMA FpgaRankIInv ==
  ASSUME IInv, NEW n \in Fpga, FpgaRank(n)
  PROVE  IInv'
<1>1. FpgaMove(n) /\ UNCHANGED cpu
  BY DEF FpgaRank, FpgaMove
<1>2. FpgaInv'
  BY <1>1, StepFpgaInv DEF IInv
<1>3. NetworkTypeOK' /\ ApplicationTypeOK'
  BY <1>2 DEF FpgaInv, FpgaTypeOK
<1>4. ASSUME NEW m \in Cpu PROVE got'[m] = got[m]
  BY <1>1, FpgaReturns, CpuAssumption, ClusterAssumption DEF IInv, FpgaInv, FpgaTypeOK
<1>5. CpuInv'
  BY <1>1, <1>3, <1>4, OtherCpuInv DEF IInv
<1> QED BY <1>2, <1>5 DEF IInv

LEMMA CpuRankIInv ==
  ASSUME IInv, NEW n \in Cpu, CpuRank(n)
  PROVE  IInv'
<1>1. (CpuStep(n) \/ CpuTimeout(n)) /\ UNCHANGED mpeVars
  BY DEF CpuRank
<1>2. CpuInv'
  BY <1>1, StepCpuInv DEF IInv
<1>3. NetworkTypeOK' /\ ApplicationTypeOK'
  BY <1>2 DEF CpuInv
<1>4. ASSUME NEW m \in Fpga PROVE got'[m] = got[m]
  BY <1>1, CpuReturns, MpeAssumption, ClusterAssumption DEF IInv, CpuInv
<1>5. FpgaInv'
  BY <1>1, <1>3, <1>4, OtherFpgaInv DEF IInv
<1> QED BY <1>2, <1>5 DEF IInv

LEMMA QuietIInv ==
  ASSUME IInv, Loss \/ UNCHANGED vars
  PROVE  IInv'
<1>1. UNCHANGED <<mpeVars, cpu, got>>
  BY DEF Loss, vars, mpeVars
<1>2. NetworkTypeOK'
  <2>1. NetworkTypeOK
    BY DEF IInv, CpuInv
  <2>2. CASE Loss
    BY <2>1, <2>2, LoseType DEF Loss
  <2>3. CASE UNCHANGED vars
    BY <2>1, <2>3 DEF vars, NetworkTypeOK
  <2> QED BY <2>2, <2>3
<1>3. ApplicationTypeOK' /\ \A n \in Rank : got'[n] = got[n]
  BY <1>1 DEF IInv, CpuInv, ApplicationTypeOK
<1>4. FpgaInv' /\ CpuInv'
  BY <1>1, <1>2, <1>3, OtherFpgaInv, OtherCpuInv, CpuAssumption, MpeAssumption DEF IInv
<1> QED BY <1>4 DEF IInv

LEMMA NextIInv == IInv /\ [Next]_vars => IInv'
BY FpgaRankIInv, CpuRankIInv, QuietIInv DEF Next, Terminated

LEMMA Inductive == Spec => []IInv
BY InitIInv, NextIInv, PTL DEF Spec

-----------------------------------------------------------------------------
(* Every register, FIFO, packet, cache and result has its type: no counter *)
(* of the engine or the library passes its limit or falls below zero.      *)
THEOREM TypeCorrect == Spec => []TypeOK
<1>1. IInv => TypeOK
  BY DEF IInv, FpgaInv, FpgaTypeOK, CpuInv, TypeOK
<1> QED BY <1>1, Inductive, PTL

(* No engine ends a send call on a cached ACK, which would leave its       *)
(* wrapper without feedback (WAIT4ACK_CACHE_2 writes none).                *)
THEOREM NoCachedAck == Spec => []AckNeverCached
<1>1. IInv => AckNeverCached
  BY DEF IInv, FpgaInv
<1> QED BY <1>1, Inductive, PTL

(* pMpeGlobal and pDeqSend alternate strictly on every FPGA: at most one   *)
(* message is in sFifoDataTX, and at most one done flag is unread.         *)
THEOREM Alternation == Spec => []TxAlternates
<1>1. IInv => TxAlternates
  BY DEF IInv, FpgaInv
<1> QED BY <1>1, Inductive, PTL

(* No CPU rank takes a filled header cache for an empty one: cache_num is  *)
(* at least the number of entries, though overwriting an entry counts too. *)
THEOREM CacheNumIsSafe == Spec => []CacheNumCovers
<1>1. IInv => CacheNumCovers
  BY CountedCovers DEF IInv
<1> QED BY <1>1, Inductive, PTL

-----------------------------------------------------------------------------
(* A receive of some engine gives up in the middle of a message.           *)
GivesUp == \E n \in Fpga : GivesUpAt(n)

LEMMA NextHandsOver == IInv /\ HandsOver /\ [Next]_vars /\ [~GivesUp]_vars => HandsOver'
<1> SUFFICES ASSUME IInv, HandsOver, [Next]_vars, [~GivesUp]_vars PROVE HandsOver'
  OBVIOUS
<1>1. CASE UNCHANGED vars
  BY <1>1, OtherHandsOver DEF vars, mpeVars
<1>2. CASE Loss \/ Terminated
  BY <1>2, OtherHandsOver DEF Loss, Terminated, vars, mpeVars
<1>3. ASSUME NEW n \in Cpu, CpuRank(n) PROVE HandsOver'
  <2>1. (CpuStep(n) \/ CpuTimeout(n)) /\ UNCHANGED mpeVars
    BY <1>3 DEF CpuRank
  <2>2. ASSUME NEW m \in Fpga PROVE got'[m] = got[m]
    BY <2>1, CpuReturns, MpeAssumption, ClusterAssumption DEF IInv, CpuInv
  <2> QED BY <2>1, <2>2, OtherHandsOver
<1>4. ASSUME NEW n \in Fpga, FpgaRank(n), ~GivesUp PROVE HandsOver'
  <2>1. FpgaMove(n) /\ ~GivesUpAt(n)
    BY <1>4 DEF FpgaRank, FpgaMove, GivesUp
  <2> QED BY <2>1, StepHandsOver DEF IInv
<1> QED BY <1>1, <1>2, <1>3, <1>4 DEF Next

(* Between two calls nothing of a finished call is left in any FIFO of an  *)
(* engine, whatever is lost and whenever timeouts happen, as long as no    *)
(* engine gives up a message that it has begun to receive: pMpeGlobal then *)
(* forgets the message, and pDeqRecv and the wrapper, which are in the     *)
(* middle of it, are not told.                                             *)
THEOREM CallsLeaveNothing == Spec /\ [][~GivesUp]_vars => []NothingLeftOver
<1>1. Init => HandsOver
  BY InitHandsOver DEF Init
<1> QED BY <1>1, Inductive, NextHandsOver, HandsOverLeavesNothing, PTL DEF Spec

-----------------------------------------------------------------------------
(* The bytes of a header. *)

LEMMA IntegerIsRead ==
  ASSUME NEW n \in UINT32
  PROVE  LET b == integerToBigEndian(n)
         IN  /\ \A k \in 0 .. 3 : b[k] \in Byte
             /\ b[0] + 256 * b[1] + 65536 * b[2] + 16777216 * b[3] = n
<1> DEFINE b == integerToBigEndian(n)
<1>1. n \in Nat /\ n \div 16777216 < 256
  BY DEF UINT32
<1>2. /\ b[0] = n % 256 /\ b[1] = (n \div 256) % 256
      /\ b[2] = (n \div 65536) % 256 /\ b[3] = (n \div 16777216) % 256
  <2>1. b[0] = (n \div 1) % 256
    BY DEF integerToBigEndian, Weight
  <2>2. n \div 1 = n
    BY <1>1
  <2> QED BY <2>1, <2>2 DEF integerToBigEndian, Weight
<1>3. \A k \in 0 .. 3 : b[k] \in Byte
  <2>1. n % 256 \in Byte /\ (n \div 256) % 256 \in Byte
        /\ (n \div 65536) % 256 \in Byte /\ (n \div 16777216) % 256 \in Byte
    BY <1>1 DEF Byte
  <2>2. \A k \in 0 .. 3 : k = 0 \/ k = 1 \/ k = 2 \/ k = 3
    OBVIOUS
  <2> HIDE DEF b
  <2> QED BY <1>2, <2>1, <2>2
<1>4. b[0] + 256 * b[1] + 65536 * b[2] + 16777216 * b[3] = n
  <2> DEFINE q1 == n \div 256
             q2 == n \div 65536
             q3 == n \div 16777216
  <2>1. q1 \in Nat /\ q2 \in Nat /\ q3 \in Nat /\ q3 < 256
    BY <1>1
  <2>2. n = 256 * q1 + (n % 256)
    BY <1>1
  <2>3. q1 = 256 * q2 + (q1 % 256)
    BY <1>1
  <2>4. q2 = 256 * q3 + (q2 % 256)
    BY <1>1
  <2>5. q3 % 256 = q3
    BY <2>1
  <2>6. n % 256 \in Int /\ q1 % 256 \in Int /\ q2 % 256 \in Int
    BY <1>1, <2>1
  <2>7. b[0] = n % 256 /\ b[1] = q1 % 256 /\ b[2] = q2 % 256 /\ b[3] = q3
    BY <1>2, <2>5
  <2> HIDE DEF b, q1, q2, q3
  <2>8. 65536 * q2 = 65536 * (256 * q3 + (q2 % 256))
        /\ 256 * q1 = 256 * (256 * q2 + (q1 % 256))
    BY <2>3, <2>4
  <2> QED BY <1>1, <2>1, <2>2, <2>6, <2>7, <2>8
<1> QED BY <1>3, <1>4

(* Every header, with any integers of 32 bits and any call and type of one *)
(* byte, is recognised and read as it was written.                         *)
THEOREM EveryHeaderIsRead == \A h \in Fields : IsRead(h)
<1> SUFFICES ASSUME NEW h \in Fields PROVE IsRead(h)
  OBVIOUS
<1> DEFINE bytes == headerToBytes(h)
           d == integerToBigEndian(h.dst)
           s == integerToBigEndian(h.src)
           z == integerToBigEndian(h.size)
<1>1. h.dst \in UINT32 /\ h.src \in UINT32 /\ h.size \in UINT32
  BY DEF Fields
<1> HIDE DEF d, s, z
<1>2. /\ bytes[4] = d[0] /\ bytes[5] = d[1] /\ bytes[6] = d[2] /\ bytes[7] = d[3]
      /\ bytes[8] = s[0] /\ bytes[9] = s[1] /\ bytes[10] = s[2] /\ bytes[11] = s[3]
      /\ bytes[12] = z[0] /\ bytes[13] = z[1] /\ bytes[14] = z[2] /\ bytes[15] = z[3]
      /\ bytes[16] = h.call /\ bytes[17] = h.type
  BY DEF headerToBytes, d, s, z
<1>3. /\ \A b \in 28 .. 31 : bytes[b] = Magic
      /\ \A b \in 18 .. 27 : bytes[b] = 0
      /\ \A b \in 0 .. 3 : bytes[b] = Magic
  BY DEF headerToBytes
<1> HIDE DEF bytes
<1>4. HeaderError(bytes) = 0
  BY <1>3 DEF HeaderError
<1>5. bigEndianToInteger(bytes, 4) = h.dst
  BY <1>1, <1>2, IntegerIsRead DEF bigEndianToInteger, d
<1>6. bigEndianToInteger(bytes, 8) = h.src
  BY <1>1, <1>2, IntegerIsRead DEF bigEndianToInteger, s
<1>7. bigEndianToInteger(bytes, 12) = h.size
  BY <1>1, <1>2, IntegerIsRead DEF bigEndianToInteger, z
<1>8. bytesToHeader(bytes) = h
  BY <1>2, <1>5, <1>6, <1>7 DEF bytesToHeader, Fields
<1> QED BY <1>4, <1>8 DEF IsRead, bytes

-----------------------------------------------------------------------------
(* The headers of a cluster.                                               *)

(* What has a header carries a rank and a length of 32 bits: a packet, and *)
(* the calls and packets that an engine holds.                             *)
Fitting == {p \in Packet : Fits(p.size)}

FittingFifos(m, f) ==
  /\ Fits(m.count)
  /\ f.mpiif \in Seq({x \in Info : Fits(x.count)})
  /\ f.tx \in Seq({x \in TxEntry : x.pkt \in Fitting})

NetFits   == \A c \in Rank \X Rank : net[c] \in Seq(Fitting)
FifosFit  == \A n \in Fpga : FittingFifos(mpe[n], fifo[n])
SizesFit  == NetFits /\ FifosFit

(* Packets without data.                                                   *)
LEMMA NoDataFits ==
  ASSUME NEW type \in HeaderTypes, NEW s \in Rank, NEW d \in Rank, NEW call \in Calls
  PROVE  Control(type, s, d, call) \in Fitting
<1>1. Control(type, s, d, call) \in Packet /\ Control(type, s, d, call).size = 0
  BY ControlType DEF Control
<1>2. Fits(0)
  BY DEF Fits, UINT32, UnitWords
<1> QED BY <1>1, <1>2 DEF Fitting

(* Packets with data.                                                      *)
LEMMA DataFits ==
  ASSUME NEW s \in Rank, NEW d \in Rank, NEW call \in Calls, NEW size \in Nat, Fits(size),
         NEW unit \in Unit
  PROVE  /\ DataPacket(s, d, call, size, unit) \in Fitting
         /\ ContPacket(s, d, call, unit) \in Fitting
<1>1. /\ DataPacket(s, d, call, size, unit) \in Packet
      /\ ContPacket(s, d, call, unit) \in Packet
  BY MessageType
<1>2. Fits(0)
  BY DEF Fits, UINT32, UnitWords
<1>3. DataPacket(s, d, call, size, unit).size = size /\ ContPacket(s, d, call, unit).size = 0
  BY DEF DataPacket, ContPacket
<1> QED BY <1>1, <1>2, <1>3 DEF Fitting

(* A packet leaves the network.                                            *)
LEMMA DropFits ==
  ASSUME NetFits, NetworkTypeOK, NEW c \in Rank \X Rank, NEW i \in Arriving(c),
         net' = [net EXCEPT ![c] = DropAt(@, i)]
  PROVE  NetFits'
<1>1. net[c] \in Seq(Fitting) /\ i \in 1 .. Len(net[c])
  BY DEF NetFits, Arriving
<1>2. DropAt(net[c], i) \in Seq(Fitting)
  BY <1>1 DEF DropAt
<1> QED BY <1>2 DEF NetFits, NetworkTypeOK

(* A packet is read.                                                       *)
LEMMA ConsumeFits ==
  ASSUME NetFits, NetworkTypeOK, NEW s \in Rank, NEW n \in Rank, NEW i \in Arriving(<<s, n>>),
         Consume(s, n, i)
  PROVE  NetFits'
BY DropFits DEF Consume

(* A packet is written.                                                    *)
LEMMA TransmitFits ==
  ASSUME NetFits, NetworkTypeOK, NEW s \in Rank, NEW d \in Rank, NEW p \in Fitting,
         Transmit(s, d, p)
  PROVE  NetFits'
<1>1. Append(net[<<s, d>>], p) \in Seq(Fitting)
  BY DEF NetFits
<1>2. net' = [net EXCEPT ![<<s, d>>] = Append(net[<<s, d>>], p)]
  BY DEF Transmit
<1> QED BY <1>1, <1>2 DEF NetFits, NetworkTypeOK

(* An engine takes over the length that the program gave.                  *)
LEMMA EngineFits ==
  ASSUME HeadersFit, IInv, SizesFit, NEW n \in Fpga, Engine(n) \/ EngineTimeout(n)
  PROVE  NetFits' /\ FittingFifos(mpe'[n], fifo'[n])
<1>0. /\ NetworkTypeOK /\ NetFits /\ n \in Rank /\ FittingFifos(mpe[n], fifo[n])
      /\ mpe \in [Fpga -> Registers] /\ fifo \in [Fpga -> Fifos]
      /\ mpe[n] \in Registers /\ fifo[n] \in Fifos
  BY MpeAssumption DEF IInv, FpgaInv, FpgaTypeOK, MpeTypeOK, SizesFit, FifosFit
<1>1. ASSUME NEW type \in HeaderTypes
      PROVE  fifo[n].tx \o ControlMessage(n, type) \in Seq({x \in TxEntry : x.pkt \in Fitting})
  <2>1. Control(type, n, mpe[n].rank, mpe[n].call) \in Fitting
    BY <1>0, <1>1, NoDataFits DEF Registers
  <2>2. ControlMessage(n, type) \in Seq({x \in TxEntry : x.pkt \in Fitting})
    <3>1. [pkt |-> Control(type, n, mpe[n].rank, mpe[n].call), tlast |-> TRUE]
            \in {x \in TxEntry : x.pkt \in Fitting}
      BY <2>1 DEF TxEntry, Fitting
    <3> QED BY <3>1 DEF ControlMessage
  <2> QED BY <1>0, <2>2 DEF FittingFifos
<1>2. CASE UNCHANGED netVars /\ mpe'[n].count = mpe[n].count
           /\ fifo'[n].mpiif = fifo[n].mpiif /\ fifo'[n].tx = fifo[n].tx
  BY <1>0, <1>2 DEF FittingFifos, NetFits, netVars
<1>3. CASE Idle(n)
  <2> DEFINE info == Head(fifo[n].mpiif)
  <2>1. info \in {x \in Info : Fits(x.count)}
        /\ Tail(fifo[n].mpiif) \in Seq({x \in Info : Fits(x.count)})
    BY <1>0, <1>3 DEF FittingFifos, Idle
  <2>2. mpe'[n].count = info.count /\ fifo'[n].mpiif = Tail(fifo[n].mpiif)
        /\ fifo'[n].tx = fifo[n].tx /\ UNCHANGED netVars
    BY <1>0, <1>3 DEF Idle, Registers, Fifos
  <2> HIDE DEF info
  <2> QED BY <1>0, <2>1, <2>2 DEF FittingFifos, NetFits, netVars
<1>4. CASE StartSend(n) \/ AssembleClear(n) \/ RecvDataDone(n)
  <2>1. /\ UNCHANGED netVars /\ mpe'[n].count = mpe[n].count
        /\ fifo'[n].mpiif = fifo[n].mpiif
        /\ \E type \in HeaderTypes : fifo'[n].tx = fifo[n].tx \o ControlMessage(n, type)
    <3>1. "SEND_REQUEST" \in HeaderTypes /\ "CLEAR_TO_SEND" \in HeaderTypes
          /\ "ACK" \in HeaderTypes
      BY DEF HeaderTypes
    <3>2. CASE StartSend(n)
      BY <1>0, <3>1, <3>2 DEF StartSend, Registers, Fifos
    <3>3. CASE AssembleClear(n)
      BY <1>0, <3>1, <3>3 DEF AssembleClear, Registers, Fifos
    <3>4. CASE RecvDataDone(n)
      BY <1>0, <3>1, <3>4 DEF RecvDataDone, Registers, Fifos
    <3> QED BY <1>4, <3>2, <3>3, <3>4
  <2> QED BY <1>0, <1>1, <2>1 DEF FittingFifos, NetFits, netVars
<1>5. CASE SendDataRd(n)
  <2> DEFINE e == mpe[n]
             unit == Head(fifo[n].mpiData)
             last == e.sent + 1 >= e.count
             pkt == IF e.sent = 0 THEN DataPacket(n, e.rank, e.call, e.count, unit)
                                  ELSE ContPacket(n, e.rank, e.call, unit)
             x == [pkt |-> pkt, tlast |-> last]
  <2>1. /\ UNCHANGED netVars /\ mpe'[n].count = mpe[n].count
        /\ fifo'[n].mpiif = fifo[n].mpiif /\ fifo'[n].tx = Append(fifo[n].tx, x)
    BY <1>0, <1>5 DEF SendDataRd, Registers, Fifos
  <2>2. /\ unit \in Unit /\ e.rank \in Rank /\ e.call \in Calls /\ e.count \in Nat
        /\ Fits(e.count)
    <3>1. fifo[n].mpiData # << >> /\ fifo[n].mpiData \in Seq(Unit)
      BY <1>0, <1>5 DEF SendDataRd, Fifos
    <3>2. e.rank \in Rank /\ e.call \in Calls /\ e.count \in Nat
      BY <1>0 DEF Registers
    <3> QED BY <1>0, <3>1, <3>2 DEF FittingFifos
  <2>3. pkt \in Fitting
    BY <1>0, <2>2, DataFits
  <2>4. last \in BOOLEAN
    OBVIOUS
  <2> HIDE DEF pkt, last, e, unit
  <2>5. x \in {y \in TxEntry : y.pkt \in Fitting}
    BY <2>3, <2>4 DEF TxEntry, Fitting
  <2> HIDE DEF x
  <2>6. Append(fifo[n].tx, x) \in Seq({y \in TxEntry : y.pkt \in Fitting})
    BY <1>0, <2>5 DEF FittingFifos
  <2> QED BY <1>0, <2>1, <2>6 DEF FittingFifos, NetFits, netVars
<1>6. ASSUME NEW s \in Rank, NEW i \in Arriving(<<s, n>>),
             \/ Wait4Clear(n, s, i) \/ Wait4Ack(n, s, i) \/ Wait4Req(n, s, i)
             \/ RecvDataStart(n, s, i) \/ RecvDataMore(n, s, i)
      PROVE  NetFits' /\ FittingFifos(mpe'[n], fifo'[n])
  <2>1. Consume(s, n, i)
    BY <1>6 DEF Wait4Clear, Wait4Ack, Wait4Req, RecvDataStart, RecvDataMore
  <2>2. NetFits'
    BY <1>0, <2>1, ConsumeFits
  <2>3. /\ mpe'[n].count = mpe[n].count
        /\ fifo'[n].mpiif = fifo[n].mpiif /\ fifo'[n].tx = fifo[n].tx
    <3>1. CASE Wait4Clear(n, s, i)
      BY <1>0, <3>1 DEF Wait4Clear, Registers
    <3>2. CASE Wait4Ack(n, s, i)
      <4> DEFINE p == net[<<s, n>>][i]
      <4>1. CASE /\ mpe' = [mpe EXCEPT ![n].fsm = "IDLE",
                                       ![n].cache = Deleted(@, mpe[n].rank)]
                 /\ fifo' = [fifo EXCEPT ![n].feedback = Append(@, "OK")]
        BY <1>0, <4>1 DEF Registers, Fifos
      <4>2. CASE mpe' = [mpe EXCEPT ![n].cache = CacheWith(n, p)] /\ UNCHANGED fifo
        BY <1>0, <4>2 DEF Registers
      <4> QED BY <3>2, <4>1, <4>2 DEF Wait4Ack
    <3>3. CASE Wait4Req(n, s, i)
      BY <1>0, <3>3 DEF Wait4Req, Registers
    <3>4. CASE RecvDataStart(n, s, i)
      <4> DEFINE p == net[<<s, n>>][i]
                 e == [mpe[n] EXCEPT !.exp = p.size, !.rcvd = 0, !.dataSrc = s]
      <4>1. CASE /\ fifo' = [fifo EXCEPT ![n].expLen = Append(@, p.size),
                                         ![n].rx = Append(@, p.unit)]
                 /\ Payload2App(n, e)
        <5>1. fifo'[n].mpiif = fifo[n].mpiif /\ fifo'[n].tx = fifo[n].tx
          BY <1>0, <4>1 DEF Fifos
        <5>2. e.count = mpe[n].count /\ "count" \in DOMAIN e
          BY <1>0 DEF Registers
        <5> HIDE DEF e
        <5>3. mpe'[n].count = e.count
          <6>1. PICK rcvd, fsm, timer, started, more :
                  mpe' = [mpe EXCEPT ![n] = [e EXCEPT !.rcvd = rcvd, !.fsm = fsm,
                            !.timer = timer, !.started = started, !.more = more]]
            BY <4>1, Zenon DEF Payload2App
          <6> DEFINE r == [e EXCEPT !.rcvd = rcvd, !.fsm = fsm, !.timer = timer,
                                    !.started = started, !.more = more]
          <6>2. r.count = e.count
            BY <5>2
          <6> HIDE DEF r
          <6>3. mpe' = [mpe EXCEPT ![n] = r]
            BY <6>1 DEF r
          <6> QED BY <1>0, <6>2, <6>3
        <5> QED BY <5>1, <5>2, <5>3
      <4>2. CASE mpe' = [mpe EXCEPT ![n].cache = CacheWith(n, p)] /\ UNCHANGED fifo
        BY <1>0, <4>2 DEF Registers
      <4> QED BY <3>4, <4>1, <4>2 DEF RecvDataStart
    <3>5. CASE RecvDataMore(n, s, i)
      BY <1>0, <3>5 DEF RecvDataMore, Payload2App, Registers, Fifos
    <3> QED BY <1>6, <3>1, <3>2, <3>3, <3>4, <3>5
  <2> QED BY <1>0, <2>2, <2>3 DEF FittingFifos
<1>7. CASE \/ Reset(n) \/ SendReq(n) \/ SendDataStart(n) \/ SendDataWrd(n) \/ StartRecv(n)
           \/ SendClear(n) \/ SendAck(n)
  <2> SUFFICES UNCHANGED netVars /\ mpe'[n].count = mpe[n].count
               /\ fifo'[n].mpiif = fifo[n].mpiif /\ fifo'[n].tx = fifo[n].tx
    BY <1>2
  <2>1. CASE Reset(n)
    BY <1>0, <2>1 DEF Reset, Registers
  <2>2. CASE SendReq(n)
    BY <1>0, <2>2 DEF SendReq, Registers
  <2>3. CASE SendDataStart(n)
    BY <1>0, <2>3 DEF SendDataStart, Registers
  <2>4. CASE SendDataWrd(n)
    BY <1>0, <2>4 DEF SendDataWrd, Registers, Fifos
  <2>5. CASE StartRecv(n)
    BY <1>0, <2>5 DEF StartRecv, Registers
  <2>6. CASE SendClear(n)
    BY <1>0, <2>6 DEF SendClear, Registers, Fifos
  <2>7. CASE SendAck(n)
    BY <1>0, <2>7 DEF SendAck, Registers, Fifos
  <2> QED BY <1>7, <2>1, <2>2, <2>3, <2>4, <2>5, <2>6, <2>7
<1>9. CASE EngineTimeout(n)
  <2> SUFFICES UNCHANGED netVars /\ mpe'[n].count = mpe[n].count
               /\ fifo'[n].mpiif = fifo[n].mpiif /\ fifo'[n].tx = fifo[n].tx
    BY <1>2
  <2>1. CASE Wait4ClearTimeout(n)
    BY <1>0, <2>1 DEF Wait4ClearTimeout, Registers
  <2>2. CASE Wait4AckTimeout(n)
    BY <1>0, <2>2 DEF Wait4AckTimeout, Registers, Fifos
  <2>3. CASE RecvDataTimeout(n) /\ mpe[n].started
    <3>1. UNCHANGED netVars /\ mpe'[n].count = mpe[n].count
      BY <1>0, <2>3 DEF RecvDataTimeout, Registers
    <3>2. fifo' = [fifo EXCEPT ![n].feedback = Append(@, "FAIL"), ![n].rx = Append(@, Poison)]
      BY <2>3 DEF RecvDataTimeout
    <3>3. fifo'[n].mpiif = fifo[n].mpiif /\ fifo'[n].tx = fifo[n].tx
      BY <1>0, <3>2 DEF Fifos
    <3> QED BY <3>1, <3>3
  <2>4. CASE RecvDataTimeout(n) /\ ~mpe[n].started
    BY <1>0, <2>4 DEF RecvDataTimeout, Registers
  <2> QED BY <1>9, <2>1, <2>2, <2>3, <2>4 DEF EngineTimeout
<1> QED BY <1>3, <1>4, <1>5, <1>6, <1>7, <1>9 DEF Engine

(* The other processes of an FPGA pass packets and calls on.               *)
LEMMA ProcessesFit ==
  ASSUME HeadersFit, IInv, SizesFit, NEW n \in Fpga, DeqSend(n) \/ DeqRecv(n) \/ Wrapper(n)
  PROVE  NetFits' /\ FittingFifos(mpe'[n], fifo'[n])
<1>0. /\ NetworkTypeOK /\ NetFits /\ n \in Rank /\ FittingFifos(mpe[n], fifo[n])
      /\ fifo \in [Fpga -> Fifos] /\ fifo[n] \in Fifos /\ ApplicationTypeOK
  BY MpeAssumption DEF IInv, FpgaInv, FpgaTypeOK, MpeTypeOK, SizesFit, FifosFit
<1>1. UNCHANGED mpe
  BY DEF DeqSend, DeqRecv, DeqRecvStart, DeqRecvWrite, DeqRecvPoison, Wrapper, WriteInfo,
         SendWriteData, SendFinish, RecvReadData, RecvFinish
<1>2. CASE DeqSend(n)
  <2> DEFINE t == Head(fifo[n].tx)
  <2>1. t \in {x \in TxEntry : x.pkt \in Fitting}
        /\ Tail(fifo[n].tx) \in Seq({x \in TxEntry : x.pkt \in Fitting})
    BY <1>0, <1>2 DEF FittingFifos, DeqSend
  <2>2. fifo'[n].tx = Tail(fifo[n].tx) /\ fifo'[n].mpiif = fifo[n].mpiif
        /\ Transmit(n, t.pkt.dst, t.pkt)
    BY <1>0, <1>2 DEF DeqSend, Fifos
  <2>3. t.pkt \in Fitting /\ t.pkt.dst \in Rank
    BY <2>1 DEF Fitting, Packet
  <2> HIDE DEF t
  <2>4. NetFits'
    BY <1>0, <2>2, <2>3, TransmitFits
  <2> QED BY <1>0, <1>1, <2>1, <2>2, <2>4 DEF FittingFifos
<1>3. CASE WriteInfo(n)
  <2> DEFINE op == CurrentOp(n)
             info == [call |-> op.call, count |-> op.count, rank |-> op.peer]
  <2>1. op \in Op /\ Fits(op.count)
    <3>1. Running(n)
      BY <1>3 DEF WriteInfo
    <3>2. Position(n) \in Nat \ {0} /\ op \in Op
      BY <1>0, <3>1, CurrentOpType
    <3>3. Position(n) \in DOMAIN Program[n]
      BY <1>0, <3>1, <3>2, ProgramAssumption DEF Running
    <3> QED BY <1>0, <3>2, <3>3 DEF HeadersFit, CurrentOp
  <2>2. fifo'[n].mpiif = Append(fifo[n].mpiif, info) /\ fifo'[n].tx = fifo[n].tx
        /\ UNCHANGED netVars
    BY <1>0, <1>3 DEF WriteInfo, Fifos
  <2> HIDE DEF op
  <2>3. info \in {x \in Info : Fits(x.count)}
    BY <2>1 DEF Op, Info
  <2> HIDE DEF info
  <2>4. Append(fifo[n].mpiif, info) \in Seq({x \in Info : Fits(x.count)})
    BY <1>0, <2>3 DEF FittingFifos
  <2> QED BY <1>0, <1>1, <2>2, <2>4 DEF FittingFifos, NetFits, netVars
<1>4. CASE \/ DeqRecv(n) \/ SendWriteData(n) \/ SendFinish(n) \/ RecvReadData(n)
           \/ RecvFinish(n)
  <2>1. fifo'[n].mpiif = fifo[n].mpiif /\ fifo'[n].tx = fifo[n].tx /\ UNCHANGED netVars
    <3>1. CASE DeqRecvStart(n)
      BY <1>0, <3>1 DEF DeqRecvStart, Fifos
    <3>2. CASE DeqRecvWrite(n)
      BY <1>0, <3>2 DEF DeqRecvWrite, Fifos
    <3>3. CASE SendWriteData(n)
      BY <1>0, <3>3 DEF SendWriteData, Fifos
    <3>4. CASE SendFinish(n)
      BY <1>0, <3>4 DEF SendFinish, Fifos
    <3>5. CASE RecvReadData(n)
      BY <1>0, <3>5 DEF RecvReadData, Fifos
    <3>6. CASE RecvFinish(n)
      BY <1>0, <3>6 DEF RecvFinish, Fifos
    <3>7. CASE DeqRecvPoison(n)
      BY <1>0, <3>7 DEF DeqRecvPoison, Fifos
    <3> QED BY <1>4, <3>1, <3>2, <3>3, <3>4, <3>5, <3>6, <3>7 DEF DeqRecv
  <2> QED BY <1>0, <1>1, <2>1 DEF FittingFifos, NetFits, netVars
<1> QED BY <1>2, <1>3, <1>4 DEF Wrapper

(* A CPU rank writes its headers itself.                                   *)
LEMMA CpuFits ==
  ASSUME HeadersFit, IInv, SizesFit, NEW n \in Cpu, CpuStep(n) \/ CpuTimeout(n)
  PROVE  NetFits'
<1>0. /\ NetworkTypeOK /\ NetFits /\ n \in Rank /\ cpu[n] \in Library
      /\ ApplicationTypeOK
  BY CpuAssumption, LibraryOf DEF IInv, CpuInv, SizesFit
<1>1. ASSUME NEW s \in Rank, NEW i \in Arriving(<<s, n>>), Consume(s, n, i)
      PROVE  NetFits'
  BY <1>0, <1>1, ConsumeFits
<1>2. CASE UNCHANGED netVars
  BY <1>0, <1>2 DEF NetFits, netVars
<1>3. cpu[n].pc # "READY" =>
        /\ CurrentOp(n) \in Op /\ Peer(n) \in Rank /\ Fits(CurrentOp(n).count)
        /\ Position(n) \in Nat
  <2>1. SUFFICES ASSUME Running(n)
                 PROVE  /\ CurrentOp(n) \in Op /\ Peer(n) \in Rank
                        /\ Fits(CurrentOp(n).count) /\ Position(n) \in Nat
    BY DEF IInv, CpuInv, CpuBusy
  <2>2. Position(n) \in Nat \ {0} /\ CurrentOp(n) \in Op
    BY <1>0, <2>1, CurrentOpType
  <2>3. Position(n) \in DOMAIN Program[n]
    BY <1>0, <2>1, <2>2, ProgramAssumption DEF Running
  <2> QED BY <1>0, <2>2, <2>3 DEF HeadersFit, CurrentOp, Peer, Op
<1>4. CASE CpuSendRequest(n) \/ CpuSendClear(n) \/ CpuSendAck(n)
  <2>1. cpu[n].pc # "READY"
    BY <1>4 DEF CpuSendRequest, CpuSendClear, CpuSendAck, At
  <2>2. \E type \in HeaderTypes, call \in Calls :
          Transmit(n, Peer(n), Control(type, n, Peer(n), call))
    BY <1>4 DEF CpuSendRequest, CpuSendClear, CpuSendAck, HeaderTypes, Calls, SendCalls,
                RecvCalls
  <2> QED BY <1>0, <1>3, <2>1, <2>2, NoDataFits, TransmitFits
<1>5. CASE CpuSendData(n)
  <2> DEFINE op == CurrentOp(n)
             unit == <<n, Position(n), cpu[n].sent + 1>>
             p == IF cpu[n].sent + 1 = 1
                  THEN DataPacket(n, op.peer, "MPI_SEND_INT", op.count, unit)
                  ELSE ContPacket(n, op.peer, "MPI_SEND_INT", unit)
  <2>1. Transmit(n, op.peer, p) /\ cpu[n].pc # "READY"
    BY <1>5 DEF CpuSendData, At
  <2>2. op.peer \in Rank /\ op.count \in Nat /\ Fits(op.count) /\ "MPI_SEND_INT" \in Calls
    BY <1>3, <2>1 DEF Op, Calls, SendCalls
  <2>3. unit \in Unit
    <3>1. cpu[n].sent + 1 \in Nat /\ Position(n) \in Nat
      BY <1>0, <1>3, <2>1 DEF Library
    <3> QED BY <1>0, <3>1, RankAssumption DEF Unit
  <2> HIDE DEF op, unit
  <2>4. p \in Fitting
    BY <1>0, <2>2, <2>3, DataFits
  <2> HIDE DEF p
  <2> QED BY <1>0, <2>1, <2>2, <2>4, TransmitFits
<1>6. CASE SendCall(n) \/ RecvCall(n) \/ CpuTimeout(n)
  BY <1>2, <1>6 DEF SendCall, RecvCall, CpuTimeout
<1>7. ASSUME NEW s \in Rank, NEW i \in Arriving(<<s, n>>),
             WaitClear(n, s, i) \/ WaitAck(n, s, i) \/ WaitRequest(n, s, i) \/ WaitData(n, s, i)
      PROVE  NetFits'
  BY <1>1, <1>7 DEF WaitClear, WaitAck, WaitRequest, WaitData, WaitControl
<1> QED BY <1>4, <1>5, <1>6, <1>7 DEF CpuStep

(* Every step of the cluster.                                              *)
LEMMA NextFits ==
  ASSUME HeadersFit
  PROVE  IInv /\ SizesFit /\ [Next]_vars => SizesFit'
<1> SUFFICES ASSUME IInv, SizesFit, [Next]_vars PROVE SizesFit'
  OBVIOUS
<1>1. CASE UNCHANGED vars
  BY <1>1 DEF SizesFit, NetFits, FifosFit, vars
<1>2. CASE Terminated
  BY <1>1, <1>2 DEF Terminated
<1>3. CASE Loss
  <2>1. NetFits'
    <3>1. PICK c \in Rank \X Rank : \E i \in Arriving(c) :
                 net' = [net EXCEPT ![c] = DropAt(@, i)]
      BY <1>3 DEF Loss, Lose
    <3> QED BY <3>1, DropFits DEF SizesFit, IInv, CpuInv
  <2> QED BY <1>3, <2>1 DEF Loss, mpeVars, SizesFit, FifosFit
<1>4. ASSUME NEW n \in Cpu, CpuRank(n) PROVE SizesFit'
  <2>1. (CpuStep(n) \/ CpuTimeout(n)) /\ UNCHANGED mpeVars
    BY <1>4 DEF CpuRank
  <2> QED BY <2>1, CpuFits DEF mpeVars, SizesFit, FifosFit
<1>5. ASSUME NEW n \in Fpga, FpgaRank(n) PROVE SizesFit'
  <2>1. FpgaMove(n)
    BY <1>5 DEF FpgaRank, FpgaMove
  <2>2. NetFits' /\ FittingFifos(mpe'[n], fifo'[n])
    BY <2>1, EngineFits, ProcessesFit DEF FpgaMove, FpgaStep
  <2>3. ASSUME NEW m \in Fpga, m # n PROVE mpe'[m] = mpe[m] /\ fifo'[m] = fifo[m]
    BY <2>1, <2>3, Frame DEF IInv, FpgaInv, FpgaTypeOK
  <2>4. ASSUME NEW m \in Fpga PROVE FittingFifos(mpe'[m], fifo'[m])
    <3>1. FittingFifos(mpe[m], fifo[m])
      BY DEF SizesFit, FifosFit
    <3> QED BY <2>2, <2>3, <3>1
  <2> QED BY <2>2, <2>4 DEF SizesFit, FifosFit
<1> QED BY <1>1, <1>2, <1>3, <1>4, <1>5 DEF Next

(* The initial states.                                                     *)
LEMMA InitFits == Init => SizesFit
<1> SUFFICES ASSUME Init PROVE SizesFit
  OBVIOUS
<1>1. Fits(0)
  BY DEF Fits, UINT32, UnitWords
<1>2. NetFits
  BY DEF Init, NetworkInit, NetFits
<1>3. ASSUME NEW n \in Fpga PROVE FittingFifos(mpe[n], fifo[n])
  <2>1. mpe[n].count = 0 /\ fifo[n].mpiif = << >> /\ fifo[n].tx = << >>
    BY DEF Init, MpeInit
  <2> QED BY <1>1, <2>1 DEF FittingFifos
<1> QED BY <1>2, <1>3 DEF SizesFit, FifosFit

(* A packet of the network with a header.                                  *)
LEMMA FittingIsRead ==
  ASSUME HeadersFit, NEW p \in Fitting, HasHeader(p)
  PROVE  IsRead(FieldsOf(p))
<1>1. /\ p.dst \in UINT32 /\ p.src \in UINT32 /\ p.size * UnitWords \in UINT32
      /\ p.call \in Calls /\ p.type \in HeaderTypes
  BY DEF Fitting, Packet, HeadersFit, HasHeader, Fits
<1>2. CallCode[p.call] \in Byte
  BY <1>1 DEF CallCode, Calls, SendCalls, RecvCalls, Byte
<1>3. TypeCode[p.type] \in Byte
  BY <1>1 DEF TypeCode, HeaderTypes, Byte
<1>4. FieldsOf(p) \in Fields
  BY <1>1, <1>2, <1>3 DEF FieldsOf, Fields
<1> QED BY <1>4, EveryHeaderIsRead

(* Every header under way, from whichever implementation and whatever is   *)
(* lost, repeated or reordered, is recognised by whoever reads it and read *)
(* as it was written, if the ranks and lengths fit into 32 bits.           *)
THEOREM HeadersUnderWayAreRead ==
  ASSUME HeadersFit
  PROVE  Spec => []HeadersAreRead
<1>1. IInv /\ SizesFit /\ [Next]_vars => SizesFit'
  BY NextFits
<1>2. SizesFit => HeadersAreRead
  <2> SUFFICES ASSUME SizesFit, NEW c \in Rank \X Rank, NEW i \in DOMAIN net[c],
                      HasHeader(net[c][i])
               PROVE  IsRead(FieldsOf(net[c][i]))
    BY DEF HeadersAreRead
  <2>1. net[c] \in Seq(Fitting)
    BY DEF SizesFit, NetFits
  <2>2. net[c][i] \in Fitting
    BY <2>1
  <2> QED BY <2>2, FittingIsRead
<1> QED BY <1>1, <1>2, InitFits, Inductive, PTL DEF Spec

=============================================================================
