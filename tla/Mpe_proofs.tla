----------------------------- MODULE Mpe_proofs -----------------------------
(***************************************************************************)
(* What the steps of an FPGA rank preserve: its types, and the invariant   *)
(* of the hand-shake between pMpeGlobal and pDeqSend.  Nothing is assumed  *)
(* of the other ranks, or of when timeouts happen.                         *)
(*                                                                         *)
(* First the lemmas about packets, the network and the program's calls,    *)
(* which the proofs about the CPU ranks use too.                           *)
(***************************************************************************)
EXTENDS Mpe, TLAPS

LEMMA ControlType ==
  ASSUME NEW type \in HeaderTypes, NEW s \in Rank, NEW d \in Rank, NEW call \in Calls
  PROVE  Control(type, s, d, call) \in Packet
BY RankAssumption DEF Control, Packet, NoUnit, Unit

LEMMA MessageType ==
  ASSUME NEW s \in Rank, NEW d \in Rank, NEW call \in Calls, NEW size \in Nat,
         NEW unit \in Unit
  PROVE  /\ DataPacket(s, d, call, size, unit) \in Packet
         /\ ContPacket(s, d, call, unit) \in Packet
BY DEF DataPacket, ContPacket, Packet, HeaderTypes

LEMMA HeaderOfType ==
  ASSUME NEW p \in Packet, HasHeader(p)
  PROVE  HeaderOf(p) \in CacheLine /\ HeaderOf(p) # NoHeader /\ p.src \in Rank
<1>1. HeaderOf(p) \in Header /\ p.src \in Rank
  BY DEF HeaderOf, Header, Packet, HasHeader
<1>2. HeaderOf(p).type \in HeaderTypes /\ NoHeader.type = "NONE"
  BY <1>1 DEF Header, NoHeader
<1> QED BY <1>1, <1>2 DEF CacheLine, HeaderTypes

LEMMA PeerCallType == \A c \in Calls : PeerCall[c] \in Calls
BY DEF Calls, SendCalls, RecvCalls, PeerCall

LEMMA CurrentOpType ==
  ASSUME ApplicationTypeOK, NEW r \in Rank, Running(r)
  PROVE  Position(r) \in Nat \ {0} /\ CurrentOp(r) \in Op
BY ProgramAssumption DEF ApplicationTypeOK, Running, CurrentOp, Position

LEMMA PayloadType ==
  ASSUME NEW s \in Rank, NEW m \in DOMAIN Program[s]
  PROVE  Payload(s, m) \in Seq(Unit)
<1>0. Program[s] \in Seq(Op) /\ m \in 1 .. Len(Program[s])
  BY ProgramAssumption
<1>1. Program[s][m].count \in Nat /\ m \in Nat /\ s \in Nat
  <2>1. Program[s][m] \in Op /\ m \in Nat
    BY <1>0
  <2> QED BY <2>1, RankAssumption DEF Op
<1>2. \A k \in 1 .. Program[s][m].count : <<s, m, k>> \in Unit
  BY <1>1 DEF Unit
<1> QED BY <1>1, <1>2 DEF Payload

-----------------------------------------------------------------------------
(* The network. *)

LEMMA ConsumeType ==
  ASSUME NetworkTypeOK, NEW s \in Rank, NEW n \in Rank, NEW i \in Arriving(<<s, n>>),
         Consume(s, n, i)
  PROVE  /\ net[<<s, n>>][i] \in Packet
         /\ net' \in [Rank \X Rank -> Seq(Packet)]
<1>1. net[<<s, n>>] \in Seq(Packet) /\ i \in 1 .. Len(net[<<s, n>>])
  BY DEF NetworkTypeOK, Arriving
<1>2. DropAt(net[<<s, n>>], i) \in Seq(Packet)
  BY <1>1 DEF DropAt
<1>3. net' = [net EXCEPT ![<<s, n>>] = DropAt(net[<<s, n>>], i)]
  BY DEF Consume
<1> QED BY <1>1, <1>2, <1>3 DEF NetworkTypeOK

LEMMA TransmitType ==
  ASSUME NetworkTypeOK, NEW s \in Rank, NEW d \in Rank, NEW p \in Packet,
         Transmit(s, d, p), UNCHANGED losses
  PROVE  NetworkTypeOK'
<1> DEFINE channel == Append(net[<<s, d>>], p)
<1>1. net' = [net EXCEPT ![<<s, d>>] = channel]
  BY DEF Transmit
<1>2. channel \in Seq(Packet)
  BY DEF NetworkTypeOK
<1> HIDE DEF channel
<1> QED BY <1>1, <1>2 DEF NetworkTypeOK

LEMMA LoseType ==
  ASSUME NetworkTypeOK, Lose
  PROVE  NetworkTypeOK'
<1>1. PICK c \in Rank \X Rank : \E i \in Arriving(c) :
             /\ losses < MaxLoss
             /\ net' = [net EXCEPT ![c] = DropAt(@, i)]
             /\ losses' = losses + 1
  BY DEF Lose
<1>2. PICK i \in Arriving(c) :
             /\ losses < MaxLoss
             /\ net' = [net EXCEPT ![c] = DropAt(@, i)]
             /\ losses' = losses + 1
  BY <1>1
<1>3. net[c] \in Seq(Packet) /\ i \in 1 .. Len(net[c])
  BY DEF NetworkTypeOK, Arriving
<1>4. DropAt(net[c], i) \in Seq(Packet)
  BY <1>3 DEF DropAt
<1>5. losses + 1 \in 0 .. MaxLoss
  BY <1>2, NetworkAssumption DEF NetworkTypeOK
<1> QED BY <1>2, <1>4, <1>5 DEF NetworkTypeOK

LEMMA NetworkInitType == NetworkInit => NetworkTypeOK
BY NetworkAssumption DEF NetworkInit, NetworkTypeOK

-----------------------------------------------------------------------------
(* The program. *)

LEMMA ReturnType ==
  ASSUME ApplicationTypeOK, NEW n \in Rank, NEW data \in Seq(Unit), Return(n, data)
  PROVE  /\ ApplicationTypeOK'
         /\ \A m \in Rank \ {n} : got'[m] = got[m]
<1>1. Append(got[n], data) \in Seq(Seq(Unit))
  BY DEF ApplicationTypeOK
<1> QED BY <1>1 DEF Return, ApplicationTypeOK

LEMMA ApplicationInitType == ApplicationInit => ApplicationTypeOK
BY DEF ApplicationInit, ApplicationTypeOK

-----------------------------------------------------------------------------
(* Types of an FPGA rank.                                                  *)

LEMMA CacheWithType ==
  ASSUME MpeTypeOK, NEW n \in Fpga, NEW p \in Packet
  PROVE  CacheWith(n, p) \in [Rank -> CacheLine]
BY DEF CacheWith, MpeTypeOK, Registers, CacheLine, Header, HeaderOf, Packet, HasHeader

LEMMA MpeInitType == MpeInit => MpeTypeOK
<1> SUFFICES ASSUME MpeInit PROVE MpeTypeOK
  OBVIOUS
<1>1. mpe \in [Fpga -> Registers]
  <2>1. EmptyCache \in [Rank -> CacheLine]
    BY DEF EmptyCache, CacheLine
  <2> QED BY <2>1, MpeAssumption, RankAssumption
          DEF MpeInit, Registers, States, HeaderTypes, Calls, SendCalls
<1>2. fifo \in [Fpga -> Fifos]
  BY DEF MpeInit, Fifos
<1>3. deq \in [Fpga -> DeqRegisters]
  BY DEF MpeInit, DeqRegisters
<1> QED BY <1>1, <1>2, <1>3 DEF MpeInit, MpeTypeOK, Wrappers

-----------------------------------------------------------------------------
(* How a step of rank n changes the typed state.                           *)

LEMMA Local ==
  ASSUME MpeTypeOK, NEW n \in Fpga
  PROVE  /\ n \in Rank /\ n \in Nat
         /\ mpe[n] \in Registers /\ fifo[n] \in Fifos
         /\ deq[n] \in DeqRegisters /\ wrap[n] \in Wrappers
BY MpeAssumption, RankAssumption DEF MpeTypeOK

LEMMA EngineUpdate ==
  ASSUME MpeTypeOK, NEW n \in Fpga, NEW r \in Registers, NEW f \in Fifos,
         mpe' = [mpe EXCEPT ![n] = r], fifo' = [fifo EXCEPT ![n] = f],
         UNCHANGED <<deq, wrap>>
  PROVE  MpeTypeOK'
BY DEF MpeTypeOK

LEMMA RegistersUpdate ==
  ASSUME MpeTypeOK, NEW n \in Fpga, NEW r \in Registers,
         mpe' = [mpe EXCEPT ![n] = r], UNCHANGED <<fifo, deq, wrap>>
  PROVE  MpeTypeOK'
BY DEF MpeTypeOK

LEMMA ControlMessageType ==
  ASSUME MpeTypeOK, NEW n \in Fpga, NEW type \in HeaderTypes
  PROVE  fifo[n].tx \o ControlMessage(n, type) \in Seq(TxEntry)
<1>1. mpe[n].rank \in Rank /\ mpe[n].call \in Calls /\ fifo[n].tx \in Seq(TxEntry)
  BY Local DEF Registers, Fifos
<1>2. Control(type, n, mpe[n].rank, mpe[n].call) \in Packet
  BY <1>1, Local, ControlType
<1>3. [pkt |-> Control(type, n, mpe[n].rank, mpe[n].call), tlast |-> TRUE] \in TxEntry
  BY <1>2 DEF TxEntry
<1> QED BY <1>1, <1>3 DEF ControlMessage

LEMMA ResetType ==
  ASSUME MpeTypeOK, NEW n \in Fpga, Reset(n)
  PROVE  MpeTypeOK'
<1> DEFINE r == [mpe[n] EXCEPT !.fsm = "IDLE", !.cache = EmptyCache]
<1>1. mpe[n] \in Registers /\ fifo[n] \in Fifos
  BY Local
<1>2. EmptyCache \in [Rank -> CacheLine]
  BY DEF EmptyCache, CacheLine
<1>3. mpe' = [mpe EXCEPT ![n] = r]
  BY DEF Reset
<1>4. r \in Registers
  BY <1>1, <1>2 DEF Registers, States
<1> HIDE DEF r
<1> QED BY <1>3, <1>4, RegistersUpdate DEF Reset

LEMMA IdleType ==
  ASSUME MpeTypeOK, NEW n \in Fpga, Idle(n)
  PROVE  MpeTypeOK'
<1> DEFINE info == Head(fifo[n].mpiif)
           next == IF info.call \in SendCalls THEN "START_SEND" ELSE "START_RECV"
           r == [mpe[n] EXCEPT !.fsm = next, !.call = info.call, !.count = info.count,
                               !.rank = info.rank, !.inc = 0]
           f == [fifo[n] EXCEPT !.mpiif = Tail(@)]
<1>1. mpe[n] \in Registers /\ fifo[n] \in Fifos
  BY Local
<1>2. info \in Info /\ Tail(fifo[n].mpiif) \in Seq(Info)
  <2>1. fifo[n].mpiif \in Seq(Info)
    BY <1>1 DEF Fifos
  <2>2. fifo[n].mpiif # << >>
    BY DEF Idle
  <2> QED BY <2>1, <2>2
<1>3. next \in States /\ 0 \in 0 .. MaxInc
  BY RankAssumption DEF States
<1>4. mpe' = [mpe EXCEPT ![n] = r] /\ fifo' = [fifo EXCEPT ![n] = f]
  BY DEF Idle
<1> HIDE DEF info, next
<1>5. r \in Registers
  BY <1>1, <1>2, <1>3 DEF Registers, Info
<1>6. f \in Fifos
  BY <1>1, <1>2, <1>3 DEF Fifos
<1> HIDE DEF r, f
<1>7. UNCHANGED <<deq, wrap>>
  BY DEF Idle
<1> QED BY <1>4, <1>5, <1>6, <1>7, EngineUpdate

LEMMA StartSendType ==
  ASSUME MpeTypeOK, NEW n \in Fpga, StartSend(n)
  PROVE  MpeTypeOK'
<1> DEFINE r == [mpe[n] EXCEPT !.fsm = "SEND_REQ"]
           f == [fifo[n] EXCEPT !.tx = @ \o ControlMessage(n, "SEND_REQUEST")]
<1>1. mpe[n] \in Registers /\ fifo[n] \in Fifos
  BY Local
<1>2. fifo[n].tx \o ControlMessage(n, "SEND_REQUEST") \in Seq(TxEntry)
  BY ControlMessageType DEF HeaderTypes
<1>3. mpe' = [mpe EXCEPT ![n] = r] /\ fifo' = [fifo EXCEPT ![n] = f]
  BY DEF StartSend
<1>4. r \in Registers
  BY <1>1, <1>2 DEF Registers, States
<1>5. f \in Fifos
  BY <1>1, <1>2 DEF Fifos
<1> HIDE DEF r, f
<1> QED BY <1>3, <1>4, <1>5, EngineUpdate DEF StartSend

LEMMA SendReqType ==
  ASSUME MpeTypeOK, NEW n \in Fpga, SendReq(n)
  PROVE  MpeTypeOK'
<1> DEFINE next == IF CacheHolds(n, "CLEAR_TO_SEND") THEN "SEND_DATA_START" ELSE "WAIT4CLEAR"
           r == [mpe[n] EXCEPT !.expType = "CLEAR_TO_SEND", !.expCall = PeerCall[mpe[n].call],
                               !.timer = "running", !.fsm = next]
           f == [fifo[n] EXCEPT !.sendDone = @ - 1]
<1>1. mpe[n] \in Registers /\ fifo[n] \in Fifos
  BY Local
<1>2. PeerCall[mpe[n].call] \in Calls
  BY <1>1, PeerCallType DEF Registers
<1>3. fifo[n].sendDone - 1 \in Nat
  BY <1>1 DEF SendReq, Fifos
<1>4. next \in States
  BY DEF States
<1>5. mpe' = [mpe EXCEPT ![n] = r] /\ fifo' = [fifo EXCEPT ![n] = f]
  BY DEF SendReq
<1> HIDE DEF next
<1>6. r \in Registers
  BY <1>1, <1>2, <1>3, <1>4 DEF Registers, HeaderTypes
<1>7. f \in Fifos
  BY <1>1, <1>2, <1>3, <1>4 DEF Fifos
<1> HIDE DEF r, f
<1> QED BY <1>5, <1>6, <1>7, EngineUpdate DEF SendReq

LEMMA Wait4ClearTimeoutType ==
  ASSUME MpeTypeOK, NEW n \in Fpga, Wait4ClearTimeout(n)
  PROVE  MpeTypeOK'
<1> DEFINE r == [mpe[n] EXCEPT !.fsm = "START_SEND", !.inc = @ + 1, !.timer = "expired"]
<1>1. mpe[n] \in Registers /\ fifo[n] \in Fifos
  BY Local
<1>2. mpe[n].inc + 1 \in 0 .. MaxInc
  BY <1>1, RankAssumption DEF Registers, Wait4ClearTimeout, TimerFires
<1>3. mpe' = [mpe EXCEPT ![n] = r]
  BY DEF Wait4ClearTimeout
<1>4. r \in Registers
  BY <1>1, <1>2 DEF Registers, States
<1> HIDE DEF r
<1> QED BY <1>3, <1>4, RegistersUpdate DEF Wait4ClearTimeout

LEMMA SendDataStartType ==
  ASSUME MpeTypeOK, NEW n \in Fpga, SendDataStart(n)
  PROVE  MpeTypeOK'
<1> DEFINE r == [mpe[n] EXCEPT !.fsm = "SEND_DATA_RD", !.sent = 0,
                               !.cache = Deleted(@, mpe[n].rank)]
<1>1. mpe[n] \in Registers /\ fifo[n] \in Fifos
  BY Local
<1>2. Deleted(mpe[n].cache, mpe[n].rank) \in [Rank -> CacheLine]
  BY <1>1 DEF Deleted, Registers, CacheLine
<1>3. mpe' = [mpe EXCEPT ![n] = r]
  BY DEF SendDataStart
<1>4. r \in Registers
  BY <1>1, <1>2 DEF Registers, States
<1> HIDE DEF r
<1> QED BY <1>3, <1>4, RegistersUpdate DEF SendDataStart

LEMMA EntryType ==
  ASSUME MpeTypeOK, NEW n \in Fpga, SendDataRd(n)
  PROVE  [pkt |-> IF mpe[n].sent = 0
                  THEN DataPacket(n, mpe[n].rank, mpe[n].call, mpe[n].count,
                                  Head(fifo[n].mpiData))
                  ELSE ContPacket(n, mpe[n].rank, mpe[n].call, Head(fifo[n].mpiData)),
          tlast |-> mpe[n].sent + 1 >= mpe[n].count] \in TxEntry
<1> DEFINE unit == Head(fifo[n].mpiData)
           pkt == IF mpe[n].sent = 0
                  THEN DataPacket(n, mpe[n].rank, mpe[n].call, mpe[n].count, unit)
                  ELSE ContPacket(n, mpe[n].rank, mpe[n].call, unit)
<1>1. mpe[n] \in Registers /\ fifo[n] \in Fifos
  BY Local
<1>2. unit \in Unit
  BY <1>1 DEF SendDataRd, Fifos
<1>3. /\ n \in Rank /\ mpe[n].rank \in Rank /\ mpe[n].call \in Calls
      /\ mpe[n].count \in Nat
  BY <1>1, Local DEF Registers
<1>4. pkt \in Packet
  BY <1>2, <1>3 DEF DataPacket, ContPacket, Packet, HeaderTypes
<1> QED BY <1>4 DEF TxEntry

LEMMA SendDataRdType ==
  ASSUME MpeTypeOK, NEW n \in Fpga, SendDataRd(n)
  PROVE  MpeTypeOK'
<1> DEFINE unit == Head(fifo[n].mpiData)
           last == mpe[n].sent + 1 >= mpe[n].count
           next == IF last THEN "SEND_DATA_WRD" ELSE mpe[n].fsm
           pkt == IF mpe[n].sent = 0
                  THEN DataPacket(n, mpe[n].rank, mpe[n].call, mpe[n].count, unit)
                  ELSE ContPacket(n, mpe[n].rank, mpe[n].call, unit)
           entry == [pkt |-> pkt, tlast |-> last]
           r == [mpe[n] EXCEPT !.sent = @ + 1, !.fsm = next]
           f == [fifo[n] EXCEPT !.mpiData = Tail(@), !.tx = Append(@, entry)]
<1>1. mpe[n] \in Registers /\ fifo[n] \in Fifos
  BY Local
<1>2. Tail(fifo[n].mpiData) \in Seq(Unit)
  BY <1>1 DEF SendDataRd, Fifos
<1>3. next \in States /\ mpe[n].sent + 1 \in Nat
  BY <1>1 DEF Registers, States
<1>4. entry \in TxEntry
  BY EntryType
<1>5. mpe' = [mpe EXCEPT ![n] = r] /\ fifo' = [fifo EXCEPT ![n] = f]
  BY DEF SendDataRd
<1> HIDE DEF entry, next
<1>6. Append(fifo[n].tx, entry) \in Seq(TxEntry)
  BY <1>1, <1>4 DEF Fifos
<1>7. r \in Registers
  BY <1>1, <1>3 DEF Registers
<1>8. f \in Fifos
  BY <1>1, <1>2, <1>6 DEF Fifos
<1> HIDE DEF r, f
<1> QED BY <1>5, <1>7, <1>8, EngineUpdate DEF SendDataRd

LEMMA SendDataWrdType ==
  ASSUME MpeTypeOK, NEW n \in Fpga, SendDataWrd(n)
  PROVE  MpeTypeOK'
<1> DEFINE hit == CacheHolds(n, "ACK")
           cache == IF hit THEN Deleted(mpe[n].cache, mpe[n].rank) ELSE mpe[n].cache
           next == IF hit THEN "IDLE" ELSE "WAIT4ACK"
           r == [mpe[n] EXCEPT !.expType = "ACK", !.expCall = PeerCall[mpe[n].call],
                               !.timer = "running", !.cache = cache, !.fsm = next]
           f == [fifo[n] EXCEPT !.sendDone = @ - 1]
<1>1. mpe[n] \in Registers /\ fifo[n] \in Fifos
  BY Local
<1>2. PeerCall[mpe[n].call] \in Calls
  BY <1>1, PeerCallType DEF Registers
<1>3. fifo[n].sendDone - 1 \in Nat
  BY <1>1 DEF SendDataWrd, Fifos
<1>4. next \in States
  BY DEF States
<1>5. cache \in [Rank -> CacheLine]
  BY <1>1 DEF Deleted, Registers, CacheLine
<1>6. mpe' = [mpe EXCEPT ![n] = r] /\ fifo' = [fifo EXCEPT ![n] = f]
  BY DEF SendDataWrd
<1> HIDE DEF hit, cache, next
<1>7. r \in Registers
  BY <1>1, <1>2, <1>3, <1>4, <1>5 DEF Registers, HeaderTypes
<1>8. f \in Fifos
  BY <1>1, <1>2, <1>3, <1>4, <1>5 DEF Fifos
<1> HIDE DEF r, f
<1> QED BY <1>6, <1>7, <1>8, EngineUpdate DEF SendDataWrd

LEMMA Wait4AckTimeoutType ==
  ASSUME MpeTypeOK, NEW n \in Fpga, Wait4AckTimeout(n)
  PROVE  MpeTypeOK'
<1> DEFINE r == [mpe[n] EXCEPT !.fsm = "SEND_DATA_START", !.inc = @ + 1, !.timer = "expired"]
           f == [fifo[n] EXCEPT !.feedback = Append(@, "FAIL")]
<1>1. mpe[n] \in Registers /\ fifo[n] \in Fifos
  BY Local
<1>2. mpe[n].inc + 1 \in 0 .. MaxInc
  BY <1>1, RankAssumption DEF Registers, Wait4AckTimeout, TimerFires
<1>3. Append(fifo[n].feedback, "FAIL") \in Seq({"OK", "FAIL"})
  BY <1>1 DEF Fifos
<1>4. mpe' = [mpe EXCEPT ![n] = r] /\ fifo' = [fifo EXCEPT ![n] = f]
  BY DEF Wait4AckTimeout
<1>5. r \in Registers
  BY <1>1, <1>2, <1>3 DEF Registers, States
<1>6. f \in Fifos
  BY <1>1, <1>2, <1>3 DEF Fifos
<1> HIDE DEF r, f
<1> QED BY <1>4, <1>5, <1>6, EngineUpdate DEF Wait4AckTimeout

LEMMA StartRecvType ==
  ASSUME MpeTypeOK, NEW n \in Fpga, StartRecv(n)
  PROVE  MpeTypeOK'
<1> DEFINE next == IF mpe[n].cache[mpe[n].rank] = NoHeader THEN "WAIT4REQ"
                   ELSE IF CacheHolds(n, "SEND_REQUEST") THEN "ASSEMBLE_CLEAR"
                   ELSE "WAIT4ACK"
           r == [mpe[n] EXCEPT !.expType = "SEND_REQUEST", !.expCall = PeerCall[mpe[n].call],
                               !.fsm = next]
<1>1. mpe[n] \in Registers /\ fifo[n] \in Fifos
  BY Local
<1>2. PeerCall[mpe[n].call] \in Calls
  BY <1>1, PeerCallType DEF Registers
<1>3. next \in States
  BY DEF States
<1>4. mpe' = [mpe EXCEPT ![n] = r]
  BY DEF StartRecv
<1> HIDE DEF next
<1>5. r \in Registers
  BY <1>1, <1>2, <1>3 DEF Registers, HeaderTypes
<1> HIDE DEF r
<1> QED BY <1>4, <1>5, RegistersUpdate DEF StartRecv

LEMMA AssembleClearType ==
  ASSUME MpeTypeOK, NEW n \in Fpga, AssembleClear(n)
  PROVE  MpeTypeOK'
<1> DEFINE r == [mpe[n] EXCEPT !.fsm = "SEND_CLEAR", !.cache = Deleted(@, mpe[n].rank),
                               !.expType = "DATA", !.expCall = PeerCall[mpe[n].call],
                               !.more = FALSE, !.dataSrc = NoRank]
           f == [fifo[n] EXCEPT !.tx = @ \o ControlMessage(n, "CLEAR_TO_SEND")]
<1>1. mpe[n] \in Registers /\ fifo[n] \in Fifos
  BY Local
<1>2. fifo[n].tx \o ControlMessage(n, "CLEAR_TO_SEND") \in Seq(TxEntry)
  BY ControlMessageType DEF HeaderTypes
<1>3. PeerCall[mpe[n].call] \in Calls
  BY <1>1, PeerCallType DEF Registers
<1>4. Deleted(mpe[n].cache, mpe[n].rank) \in [Rank -> CacheLine]
  BY <1>1 DEF Deleted, Registers, CacheLine
<1>5. mpe' = [mpe EXCEPT ![n] = r] /\ fifo' = [fifo EXCEPT ![n] = f]
  BY DEF AssembleClear
<1>6. r \in Registers
  BY <1>1, <1>2, <1>3, <1>4 DEF Registers, HeaderTypes, States
<1>7. f \in Fifos
  BY <1>1, <1>2, <1>3, <1>4 DEF Fifos
<1> HIDE DEF r, f
<1> QED BY <1>5, <1>6, <1>7, EngineUpdate DEF AssembleClear

LEMMA SendClearType ==
  ASSUME MpeTypeOK, NEW n \in Fpga, SendClear(n)
  PROVE  MpeTypeOK'
<1> DEFINE r == [mpe[n] EXCEPT !.fsm = "RECV_DATA_START", !.timer = "running", !.started = FALSE,
                               !.more = FALSE, !.dataSrc = NoRank]
           f == [fifo[n] EXCEPT !.sendDone = @ - 1]
<1>1. mpe[n] \in Registers /\ fifo[n] \in Fifos
  BY Local
<1>2. fifo[n].sendDone - 1 \in Nat
  BY <1>1 DEF SendClear, Fifos
<1>3. mpe' = [mpe EXCEPT ![n] = r] /\ fifo' = [fifo EXCEPT ![n] = f]
  BY DEF SendClear
<1>4. r \in Registers
  BY <1>1, <1>2 DEF Registers, States
<1>5. f \in Fifos
  BY <1>1, <1>2 DEF Fifos
<1> HIDE DEF r, f
<1> QED BY <1>3, <1>4, <1>5, EngineUpdate DEF SendClear

LEMMA RecvDataDoneType ==
  ASSUME MpeTypeOK, NEW n \in Fpga, RecvDataDone(n)
  PROVE  MpeTypeOK'
<1> DEFINE r == [mpe[n] EXCEPT !.fsm = "SEND_ACK"]
           f == [fifo[n] EXCEPT !.recvDone = @ - 1, !.tx = @ \o ControlMessage(n, "ACK")]
<1>1. mpe[n] \in Registers /\ fifo[n] \in Fifos
  BY Local
<1>2. fifo[n].tx \o ControlMessage(n, "ACK") \in Seq(TxEntry)
  BY ControlMessageType DEF HeaderTypes
<1>3. fifo[n].recvDone - 1 \in Nat
  BY <1>1 DEF RecvDataDone, Fifos
<1>4. mpe' = [mpe EXCEPT ![n] = r] /\ fifo' = [fifo EXCEPT ![n] = f]
  BY DEF RecvDataDone
<1>5. r \in Registers
  BY <1>1, <1>2, <1>3 DEF Registers, States
<1>6. f \in Fifos
  BY <1>1, <1>2, <1>3 DEF Fifos
<1> HIDE DEF r, f
<1> QED BY <1>4, <1>5, <1>6, EngineUpdate DEF RecvDataDone

LEMMA SendAckType ==
  ASSUME MpeTypeOK, NEW n \in Fpga, SendAck(n)
  PROVE  MpeTypeOK'
<1> DEFINE r == [mpe[n] EXCEPT !.fsm = "IDLE", !.cache = Deleted(@, mpe[n].rank)]
           f == [fifo[n] EXCEPT !.sendDone = @ - 1, !.feedback = Append(@, "OK")]
<1>1. mpe[n] \in Registers /\ fifo[n] \in Fifos
  BY Local
<1>2. Deleted(mpe[n].cache, mpe[n].rank) \in [Rank -> CacheLine]
  BY <1>1 DEF Deleted, Registers, CacheLine
<1>3. fifo[n].sendDone - 1 \in Nat
  BY <1>1 DEF SendAck, Fifos
<1>4. Append(fifo[n].feedback, "OK") \in Seq({"OK", "FAIL"})
  BY <1>1 DEF Fifos
<1>5. mpe' = [mpe EXCEPT ![n] = r] /\ fifo' = [fifo EXCEPT ![n] = f]
  BY DEF SendAck
<1>6. r \in Registers
  BY <1>1, <1>2, <1>3, <1>4 DEF Registers, States
<1>7. f \in Fifos
  BY <1>1, <1>2, <1>3, <1>4 DEF Fifos
<1> HIDE DEF r, f
<1> QED BY <1>5, <1>6, <1>7, EngineUpdate DEF SendAck

-----------------------------------------------------------------------------
(* The actions that read a packet. *)

LEMMA PacketType ==
  ASSUME NetworkTypeOK, MpeTypeOK, NEW n \in Fpga, NEW s \in Rank,
         NEW i \in Arriving(<<s, n>>), Consume(s, n, i)
  PROVE  /\ net[<<s, n>>][i] \in Packet
         /\ CacheWith(n, net[<<s, n>>][i]) \in [Rank -> CacheLine]
<1>1. net[<<s, n>>][i] \in Packet
  BY ConsumeType, Local
<1> QED BY <1>1, CacheWithType

LEMMA WaitType ==
  ASSUME NetworkTypeOK, MpeTypeOK, NEW n \in Fpga, NEW s \in Rank,
         NEW i \in Arriving(<<s, n>>), Consume(s, n, i),
         mpe' = [mpe EXCEPT ![n].cache = CacheWith(n, net[<<s, n>>][i])],
         UNCHANGED <<fifo, deq, wrap>>
  PROVE  MpeTypeOK'
<1> DEFINE cache == CacheWith(n, net[<<s, n>>][i])
           r == [mpe[n] EXCEPT !.cache = cache]
<1>1. mpe[n] \in Registers /\ cache \in [Rank -> CacheLine]
  BY Local, PacketType
<1>2. mpe' = [mpe EXCEPT ![n] = r]
  OBVIOUS
<1> HIDE DEF cache
<1>3. r \in Registers
  BY <1>1 DEF Registers
<1> HIDE DEF r
<1> QED BY <1>2, <1>3, RegistersUpdate

LEMMA NextStateType ==
  ASSUME MpeTypeOK, NEW n \in Fpga, NEW next \in States,
         mpe' = [mpe EXCEPT ![n].fsm = next], UNCHANGED <<fifo, deq, wrap>>
  PROVE  MpeTypeOK'
<1> DEFINE r == [mpe[n] EXCEPT !.fsm = next]
<1>1. mpe[n] \in Registers
  BY Local
<1>2. mpe' = [mpe EXCEPT ![n] = r]
  OBVIOUS
<1>3. r \in Registers
  BY <1>1 DEF Registers
<1> HIDE DEF r
<1> QED BY <1>2, <1>3, RegistersUpdate

LEMMA Wait4ClearType ==
  ASSUME NetworkTypeOK, MpeTypeOK, NEW n \in Fpga, NEW s \in Rank,
         NEW i \in Arriving(<<s, n>>), Wait4Clear(n, s, i)
  PROVE  MpeTypeOK'
<1>1. CASE mpe' = [mpe EXCEPT ![n].fsm = "SEND_DATA_START"]
  BY <1>1, NextStateType DEF Wait4Clear, States
<1>2. CASE mpe' = [mpe EXCEPT ![n].cache = CacheWith(n, net[<<s, n>>][i])]
  BY <1>2, WaitType DEF Wait4Clear
<1> QED BY <1>1, <1>2 DEF Wait4Clear

LEMMA Wait4ReqType ==
  ASSUME NetworkTypeOK, MpeTypeOK, NEW n \in Fpga, NEW s \in Rank,
         NEW i \in Arriving(<<s, n>>), Wait4Req(n, s, i)
  PROVE  MpeTypeOK'
<1>1. CASE mpe' = [mpe EXCEPT ![n].fsm = "ASSEMBLE_CLEAR"]
  BY <1>1, NextStateType DEF Wait4Req, States
<1>2. CASE mpe' = [mpe EXCEPT ![n].cache = CacheWith(n, net[<<s, n>>][i])]
  BY <1>2, WaitType DEF Wait4Req
<1> QED BY <1>1, <1>2 DEF Wait4Req

LEMMA Wait4AckType ==
  ASSUME NetworkTypeOK, MpeTypeOK, NEW n \in Fpga, NEW s \in Rank,
         NEW i \in Arriving(<<s, n>>), Wait4Ack(n, s, i)
  PROVE  MpeTypeOK'
<1> DEFINE r == [mpe[n] EXCEPT !.fsm = "IDLE", !.cache = Deleted(@, mpe[n].rank)]
           f == [fifo[n] EXCEPT !.feedback = Append(@, "OK")]
<1>1. CASE /\ mpe' = [mpe EXCEPT ![n].fsm = "IDLE", ![n].cache = Deleted(@, mpe[n].rank)]
           /\ fifo' = [fifo EXCEPT ![n].feedback = Append(@, "OK")]
  <2>1. mpe[n] \in Registers /\ fifo[n] \in Fifos
    BY Local
  <2>2. Deleted(mpe[n].cache, mpe[n].rank) \in [Rank -> CacheLine]
    BY <2>1 DEF Deleted, Registers, CacheLine
  <2>3. Append(fifo[n].feedback, "OK") \in Seq({"OK", "FAIL"})
    BY <2>1 DEF Fifos
  <2>4. r \in Registers
    BY <2>1, <2>2 DEF Registers, States
  <2>5. f \in Fifos
    BY <2>1, <2>3 DEF Fifos
  <2>6. mpe' = [mpe EXCEPT ![n] = r] /\ fifo' = [fifo EXCEPT ![n] = f]
    BY <1>1
  <2> HIDE DEF r, f
  <2> QED BY <2>4, <2>5, <2>6, EngineUpdate DEF Wait4Ack
<1>2. CASE mpe' = [mpe EXCEPT ![n].cache = CacheWith(n, net[<<s, n>>][i])] /\ UNCHANGED fifo
  BY <1>2, WaitType DEF Wait4Ack
<1> QED BY <1>1, <1>2 DEF Wait4Ack

LEMMA PayloadUpdate ==
  ASSUME MpeTypeOK, NEW n \in Fpga, NEW e \in Registers, NEW f \in Fifos,
         Payload2App(n, e), fifo' = [fifo EXCEPT ![n] = f], UNCHANGED <<deq, wrap>>
  PROVE  MpeTypeOK'
<1> DEFINE complete == e.rcvd + 1 >= e.exp
           next == IF complete THEN "RECV_DATA_WRD" ELSE "RECV_DATA_START"
           timer == IF complete THEN e.timer ELSE "running"
           started == e.started \/ ~complete
           more == e.more \/ ~complete
           r == [e EXCEPT !.rcvd = @ + 1, !.fsm = next, !.timer = timer,
                          !.started = started, !.more = more]
<1>1. next \in States /\ e.rcvd + 1 \in Nat /\ timer \in {"running", "expired"}
  BY DEF States, Registers
<1>2. started \in BOOLEAN /\ more \in BOOLEAN
  OBVIOUS
<1>3. mpe' = [mpe EXCEPT ![n] = r]
  BY DEF Payload2App
<1> HIDE DEF complete, next, timer, started, more
<1>4. r \in Registers
  BY <1>1, <1>2 DEF Registers
<1> HIDE DEF r
<1> QED BY <1>3, <1>4, EngineUpdate

LEMMA RecvDataStartType ==
  ASSUME NetworkTypeOK, MpeTypeOK, NEW n \in Fpga, NEW s \in Rank,
         NEW i \in Arriving(<<s, n>>), RecvDataStart(n, s, i)
  PROVE  MpeTypeOK'
<1> DEFINE p == net[<<s, n>>][i]
           e == [mpe[n] EXCEPT !.exp = p.size, !.rcvd = 0, !.dataSrc = s]
           f == [fifo[n] EXCEPT !.expLen = Append(@, p.size), !.rx = Append(@, p.unit)]
<1>1. CASE Payload2App(n, e) /\ fifo' = [fifo EXCEPT ![n].expLen = Append(@, p.size),
                                                     ![n].rx = Append(@, p.unit)]
  <2>1. mpe[n] \in Registers /\ fifo[n] \in Fifos
    BY Local
  <2>2. p.size \in Nat /\ p.unit \in Unit
    BY PacketType DEF RecvDataStart, Packet
  <2>3. fifo' = [fifo EXCEPT ![n] = f]
    BY <1>1
  <2> HIDE DEF p
  <2>4. e \in Registers
    BY <2>1, <2>2 DEF Registers
  <2>5. /\ Append(fifo[n].expLen, p.size) \in Seq(Nat)
        /\ Append(fifo[n].rx, p.unit) \in Seq(Unit \cup {Poison})
    BY <2>1, <2>2 DEF Fifos
  <2>6. f \in Fifos
    BY <2>1, <2>5 DEF Fifos
  <2> HIDE DEF e, f
  <2> QED BY <1>1, <2>3, <2>4, <2>6, PayloadUpdate DEF RecvDataStart
<1>2. CASE mpe' = [mpe EXCEPT ![n].cache = CacheWith(n, p)] /\ UNCHANGED fifo
  BY <1>2, WaitType DEF RecvDataStart
<1> QED BY <1>1, <1>2 DEF RecvDataStart

LEMMA RecvDataMoreType ==
  ASSUME NetworkTypeOK, MpeTypeOK, NEW n \in Fpga, NEW s \in Rank,
         NEW i \in Arriving(<<s, n>>), RecvDataMore(n, s, i)
  PROVE  MpeTypeOK'
<1> DEFINE p == net[<<s, n>>][i]
           unit == IF HasHeader(p) THEN Junk ELSE p.unit
           f == [fifo[n] EXCEPT !.rx = Append(@, unit)]
<1>1. mpe[n] \in Registers /\ fifo[n] \in Fifos
  BY Local
<1>2. unit \in Unit
  BY PacketType DEF RecvDataMore, Packet, Junk, Unit
<1>3. Append(fifo[n].rx, unit) \in Seq(Unit \cup {Poison})
  <2> HIDE DEF unit
  <2> QED BY <1>1, <1>2 DEF Fifos
<1>4. fifo' = [fifo EXCEPT ![n] = f] /\ Payload2App(n, mpe[n])
  BY DEF RecvDataMore
<1> HIDE DEF unit
<1>5. f \in Fifos
  BY <1>1, <1>3 DEF Fifos
<1> HIDE DEF f
<1> QED BY <1>1, <1>4, <1>5, PayloadUpdate DEF RecvDataMore

LEMMA RecvDataTimeoutType ==
  ASSUME MpeTypeOK, NEW n \in Fpga, RecvDataTimeout(n)
  PROVE  MpeTypeOK'
<1>1. mpe[n] \in Registers /\ fifo[n] \in Fifos
  BY Local
<1>2. mpe[n].inc + 1 \in 0 .. MaxInc
  BY <1>1, RankAssumption DEF Registers, RecvDataTimeout, TimerFires
<1>3. CASE mpe[n].started
  <2> DEFINE r == [mpe[n] EXCEPT !.inc = @ + 1, !.timer = "expired", !.started = FALSE,
                                 !.more = FALSE, !.dataSrc = NoRank]
             f == [fifo[n] EXCEPT !.feedback = Append(@, "FAIL"), !.rx = Append(@, Poison)]
  <2>1. Append(fifo[n].feedback, "FAIL") \in Seq({"OK", "FAIL"})
    BY <1>1 DEF Fifos
  <2>2. Append(fifo[n].rx, Poison) \in Seq(Unit \cup {Poison})
    BY <1>1 DEF Fifos
  <2>3. r \in Registers
    BY <1>1, <1>2 DEF Registers
  <2>4. f \in Fifos
    BY <1>1, <2>1, <2>2 DEF Fifos
  <2>5. mpe' = [mpe EXCEPT ![n] = r] /\ fifo' = [fifo EXCEPT ![n] = f]
    BY <1>3 DEF RecvDataTimeout
  <2> HIDE DEF r, f
  <2> QED BY <2>3, <2>4, <2>5, EngineUpdate DEF RecvDataTimeout
<1>4. CASE ~mpe[n].started
  <2> DEFINE r == [mpe[n] EXCEPT !.inc = @ + 1, !.timer = "expired", !.fsm = "ASSEMBLE_CLEAR"]
  <2>1. r \in Registers
    BY <1>1, <1>2 DEF Registers, States
  <2>2. mpe' = [mpe EXCEPT ![n] = r] /\ UNCHANGED <<fifo, deq, wrap>>
    BY <1>4 DEF RecvDataTimeout
  <2> HIDE DEF r
  <2> QED BY <2>1, <2>2, RegistersUpdate
<1> QED BY <1>3, <1>4

-----------------------------------------------------------------------------
(* pDeqSend, pDeqRecv and the wrapper. *)

LEMMA FifoUpdate ==
  ASSUME MpeTypeOK, NEW n \in Fpga, NEW f \in Fifos, NEW d \in DeqRegisters, NEW w \in Wrappers,
         fifo' = [fifo EXCEPT ![n] = f],
         deq' = [deq EXCEPT ![n] = d], wrap' = [wrap EXCEPT ![n] = w], UNCHANGED mpe
  PROVE  MpeTypeOK'
BY DEF MpeTypeOK

LEMMA DeqSendType ==
  ASSUME NetworkTypeOK, MpeTypeOK, NEW n \in Fpga, DeqSend(n)
  PROVE  MpeTypeOK' /\ NetworkTypeOK'
<1> DEFINE t == Head(fifo[n].tx)
           done == IF t.tlast THEN fifo[n].sendDone + 1 ELSE fifo[n].sendDone
           f == [fifo[n] EXCEPT !.tx = Tail(@), !.sendDone = done]
           channel == Append(net[<<n, t.pkt.dst>>], t.pkt)
<1>1. fifo[n] \in Fifos /\ n \in Rank
  BY Local
<1>2. t \in TxEntry /\ Tail(fifo[n].tx) \in Seq(TxEntry) /\ done \in Nat
  BY <1>1 DEF DeqSend, Fifos
<1>3. t.pkt \in Packet /\ t.pkt.dst \in Rank
  BY <1>2 DEF TxEntry, Packet
<1>4. /\ fifo' = [fifo EXCEPT ![n] = f]
      /\ net' = [net EXCEPT ![<<n, t.pkt.dst>>] = channel]
  BY DEF DeqSend, Transmit
<1> HIDE DEF t, done
<1>5. f \in Fifos
  BY <1>1, <1>2 DEF Fifos
<1>6. <<n, t.pkt.dst>> \in Rank \X Rank /\ channel \in Seq(Packet)
  BY <1>1, <1>3 DEF NetworkTypeOK
<1> HIDE DEF f, channel
<1>7. NetworkTypeOK'
  BY <1>4, <1>6 DEF NetworkTypeOK, DeqSend
<1>8. deq[n] \in DeqRegisters /\ wrap[n] \in Wrappers
  BY Local
<1>9. deq' = [deq EXCEPT ![n] = deq[n]] /\ wrap' = [wrap EXCEPT ![n] = wrap[n]]
      /\ mpe' = mpe
  BY DEF DeqSend, MpeTypeOK
<1> QED BY <1>4, <1>5, <1>7, <1>8, <1>9, FifoUpdate

LEMMA DeqRecvStartType ==
  ASSUME MpeTypeOK, NEW n \in Fpga, DeqRecvStart(n)
  PROVE  MpeTypeOK'
<1> DEFINE d == [state |-> "DEQ_WRITE", exp |-> Head(fifo[n].expLen), cnt |-> 0]
           f == [fifo[n] EXCEPT !.expLen = Tail(@)]
<1>1. fifo[n] \in Fifos /\ wrap[n] \in Wrappers
  BY Local
<1>2. Head(fifo[n].expLen) \in Nat /\ Tail(fifo[n].expLen) \in Seq(Nat)
  <2>1. fifo[n].expLen \in Seq(Nat)
    BY <1>1 DEF Fifos
  <2>2. fifo[n].expLen # << >>
    BY DEF DeqRecvStart
  <2> QED BY <2>1, <2>2
<1>3. d \in DeqRegisters
  BY <1>2 DEF DeqRegisters
<1>4. f \in Fifos
  BY <1>1, <1>2 DEF Fifos
<1>5. /\ fifo' = [fifo EXCEPT ![n] = f] /\ deq' = [deq EXCEPT ![n] = d]
      /\ wrap' = [wrap EXCEPT ![n] = wrap[n]] /\ mpe' = mpe
  BY DEF DeqRecvStart, MpeTypeOK
<1> HIDE DEF d, f
<1> QED BY <1>1, <1>3, <1>4, <1>5, FifoUpdate

LEMMA DeqRecvWriteType ==
  ASSUME MpeTypeOK, NEW n \in Fpga, DeqRecvWrite(n)
  PROVE  MpeTypeOK'
<1> DEFINE last == deq[n].cnt + 1 >= deq[n].exp
           next == IF last THEN "DEQ_IDLE" ELSE deq[n].state
           done == IF last THEN fifo[n].recvDone + 1 ELSE fifo[n].recvDone
           word == [unit |-> Head(fifo[n].rx), tlast |-> last]
           d == [deq[n] EXCEPT !.cnt = @ + 1, !.state = next]
           f == [fifo[n] EXCEPT !.rx = Tail(@), !.appData = Append(@, word), !.recvDone = done]
<1>1. fifo[n] \in Fifos /\ wrap[n] \in Wrappers /\ deq[n] \in DeqRegisters
  BY Local
<1>2. Head(fifo[n].rx) \in Unit /\ Tail(fifo[n].rx) \in Seq(Unit \cup {Poison}) /\ done \in Nat
  <2>1. fifo[n].rx \in Seq(Unit \cup {Poison}) /\ fifo[n].recvDone \in Nat
    BY <1>1 DEF Fifos
  <2>2. fifo[n].rx # << >> /\ Head(fifo[n].rx) # Poison
    BY DEF DeqRecvWrite
  <2>3. Head(fifo[n].rx) \in Unit /\ Tail(fifo[n].rx) \in Seq(Unit \cup {Poison})
    BY <2>1, <2>2
  <2> QED BY <2>1, <2>3
<1>3. word \in RxEntry
  BY <1>2 DEF RxEntry
<1>4. next \in {"DEQ_IDLE", "DEQ_WRITE"} /\ deq[n].cnt + 1 \in Nat
  BY <1>1 DEF DeqRegisters
<1>5. Append(fifo[n].appData, word) \in Seq(RxEntry)
  BY <1>1, <1>3 DEF Fifos
<1>6. /\ fifo' = [fifo EXCEPT ![n] = f] /\ deq' = [deq EXCEPT ![n] = d]
      /\ wrap' = [wrap EXCEPT ![n] = wrap[n]] /\ mpe' = mpe
  BY DEF DeqRecvWrite, MpeTypeOK
<1> HIDE DEF last, next, done, word
<1>7. d \in DeqRegisters
  BY <1>1, <1>4 DEF DeqRegisters
<1>8. f \in Fifos
  BY <1>1, <1>2, <1>5 DEF Fifos
<1> HIDE DEF d, f
<1> QED BY <1>1, <1>6, <1>7, <1>8, FifoUpdate

LEMMA DeqRecvPoisonType ==
  ASSUME MpeTypeOK, NEW n \in Fpga, DeqRecvPoison(n)
  PROVE  MpeTypeOK'
<1> DEFINE f == [fifo[n] EXCEPT !.rx = Tail(@)]
<1>1. fifo[n] \in Fifos /\ wrap[n] \in Wrappers /\ deq[n] \in DeqRegisters
  BY Local
<1>2. Tail(fifo[n].rx) \in Seq(Unit \cup {Poison})
  BY <1>1 DEF DeqRecvPoison, Fifos
<1>3. f \in Fifos
  BY <1>1, <1>2 DEF Fifos
<1>4. /\ fifo' = [fifo EXCEPT ![n] = f] /\ deq' = [deq EXCEPT ![n] = deq[n]]
      /\ wrap' = [wrap EXCEPT ![n] = wrap[n]] /\ mpe' = mpe
  BY DEF DeqRecvPoison, MpeTypeOK
<1> HIDE DEF f
<1> QED BY <1>1, <1>3, <1>4, FifoUpdate

LEMMA WriteInfoType ==
  ASSUME ApplicationTypeOK, MpeTypeOK, NEW n \in Fpga, WriteInfo(n)
  PROVE  MpeTypeOK'
<1> DEFINE op == CurrentOp(n)
           info == [call |-> op.call, count |-> op.count, rank |-> op.peer]
           next == IF op.call \in SendCalls THEN "SEND_WRITE_DATA" ELSE "RECV_READ_DATA"
           w == [state |-> next, data |-> << >>]
           f == [fifo[n] EXCEPT !.mpiif = Append(@, info)]
<1>1. fifo[n] \in Fifos /\ deq[n] \in DeqRegisters /\ n \in Rank
  BY Local
<1>2. op \in Op
  BY <1>1, CurrentOpType DEF WriteInfo
<1>3. /\ fifo' = [fifo EXCEPT ![n] = f] /\ deq' = [deq EXCEPT ![n] = deq[n]]
      /\ wrap' = [wrap EXCEPT ![n] = w] /\ mpe' = mpe
  BY DEF WriteInfo, MpeTypeOK
<1> HIDE DEF op
<1>4. info \in Info
  BY <1>2 DEF Op, Info
<1>5. w \in Wrappers
  BY DEF Wrappers
<1>6. Append(fifo[n].mpiif, info) \in Seq(Info)
  BY <1>1, <1>4 DEF Fifos
<1> HIDE DEF info
<1>7. f \in Fifos
  BY <1>1, <1>6 DEF Fifos
<1> HIDE DEF w, f
<1> QED BY <1>1, <1>3, <1>5, <1>7, FifoUpdate

(* While the wrapper has not returned from a call, the program is not over. *)
WrapperBusy == \A n \in Fpga : wrap[n].state # "READY" => Running(n)

LEMMA SendWriteDataType ==
  ASSUME ApplicationTypeOK, MpeTypeOK, WrapperBusy, NEW n \in Fpga, SendWriteData(n)
  PROVE  MpeTypeOK'
<1> DEFINE data == Payload(n, Position(n))
           w == [wrap[n] EXCEPT !.state = "SEND_FINISH"]
           f == [fifo[n] EXCEPT !.mpiData = @ \o data]
<1>1. fifo[n] \in Fifos /\ deq[n] \in DeqRegisters /\ wrap[n] \in Wrappers /\ n \in Rank
  BY Local
<1>2. data \in Seq(Unit)
  <2>1. Running(n)
    BY DEF WrapperBusy, SendWriteData
  <2>2. Position(n) \in DOMAIN Program[n]
    BY <1>1, <2>1, CurrentOpType, ProgramAssumption DEF Running
  <2> QED BY <1>1, <2>2, PayloadType
<1>3. /\ fifo' = [fifo EXCEPT ![n] = f] /\ deq' = [deq EXCEPT ![n] = deq[n]]
      /\ wrap' = [wrap EXCEPT ![n] = w] /\ mpe' = mpe
  BY DEF SendWriteData, MpeTypeOK
<1> HIDE DEF data
<1>4. fifo[n].mpiData \o data \in Seq(Unit)
  BY <1>1, <1>2 DEF Fifos
<1>5. f \in Fifos
  BY <1>1, <1>4 DEF Fifos
<1>6. w \in Wrappers
  BY <1>1 DEF Wrappers
<1> HIDE DEF w, f
<1> QED BY <1>1, <1>3, <1>5, <1>6, FifoUpdate

LEMMA FeedbackRead ==
  ASSUME MpeTypeOK, NEW n \in Fpga, fifo[n].feedback # << >>, NEW w \in Wrappers,
         fifo' = [fifo EXCEPT ![n].feedback = Tail(@)],
         wrap' = [wrap EXCEPT ![n] = w], UNCHANGED <<mpe, deq>>
  PROVE  MpeTypeOK'
<1> DEFINE f == [fifo[n] EXCEPT !.feedback = Tail(@)]
<1>1. fifo[n] \in Fifos /\ deq[n] \in DeqRegisters
  BY Local
<1>2. Tail(fifo[n].feedback) \in Seq({"OK", "FAIL"})
  BY <1>1 DEF Fifos
<1>3. f \in Fifos
  BY <1>1, <1>2 DEF Fifos
<1>4. fifo' = [fifo EXCEPT ![n] = f] /\ deq' = [deq EXCEPT ![n] = deq[n]]
  BY DEF MpeTypeOK
<1> HIDE DEF f
<1> QED BY <1>1, <1>3, <1>4, FifoUpdate

LEMMA SendFinishType ==
  ASSUME MpeTypeOK, NEW n \in Fpga, SendFinish(n)
  PROVE  MpeTypeOK'
<1> DEFINE ready == [wrap[n] EXCEPT !.state = "READY"]
           again == [wrap[n] EXCEPT !.state = "SEND_WRITE_DATA"]
<1>1. ready \in Wrappers /\ again \in Wrappers
  BY Local DEF Wrappers
<1>2. \/ wrap' = [wrap EXCEPT ![n] = ready]
      \/ wrap' = [wrap EXCEPT ![n] = again]
  BY DEF SendFinish
<1> HIDE DEF ready, again
<1> QED BY <1>1, <1>2, FeedbackRead DEF SendFinish

LEMMA RecvFinishType ==
  ASSUME MpeTypeOK, NEW n \in Fpga, RecvFinish(n)
  PROVE  MpeTypeOK'
<1> DEFINE ready == [wrap[n] EXCEPT !.state = "READY"]
           again == [state |-> "RECV_READ_DATA", data |-> << >>]
<1>1. ready \in Wrappers /\ again \in Wrappers
  BY Local DEF Wrappers
<1>2. \/ wrap' = [wrap EXCEPT ![n] = ready]
      \/ wrap' = [wrap EXCEPT ![n] = again]
  BY DEF RecvFinish
<1> HIDE DEF ready, again
<1> QED BY <1>1, <1>2, FeedbackRead DEF RecvFinish

LEMMA RecvReadDataType ==
  ASSUME MpeTypeOK, NEW n \in Fpga, RecvReadData(n)
  PROVE  MpeTypeOK'
<1> DEFINE word == Head(fifo[n].appData)
           next == IF word.tlast THEN "RECV_FINISH" ELSE wrap[n].state
           w == [wrap[n] EXCEPT !.data = Append(@, word.unit), !.state = next]
           f == [fifo[n] EXCEPT !.appData = Tail(@)]
<1>1. fifo[n] \in Fifos /\ deq[n] \in DeqRegisters /\ wrap[n] \in Wrappers
  BY Local
<1>2. word \in RxEntry /\ Tail(fifo[n].appData) \in Seq(RxEntry)
  BY <1>1 DEF RecvReadData, Fifos
<1>3. next \in {"READY", "SEND_WRITE_DATA", "SEND_FINISH", "RECV_READ_DATA", "RECV_FINISH"}
  BY <1>1 DEF Wrappers
<1>4. /\ fifo' = [fifo EXCEPT ![n] = f] /\ deq' = [deq EXCEPT ![n] = deq[n]]
      /\ wrap' = [wrap EXCEPT ![n] = w] /\ mpe' = mpe
  BY DEF RecvReadData, MpeTypeOK
<1> HIDE DEF word, next
<1>5. Append(wrap[n].data, word.unit) \in Seq(Unit)
  <2>1. word.unit \in Unit
    BY <1>2 DEF RxEntry
  <2> QED BY <1>1, <2>1 DEF Wrappers
<1>6. w \in Wrappers
  BY <1>1, <1>3, <1>5 DEF Wrappers
<1>7. f \in Fifos
  BY <1>1, <1>2 DEF Fifos
<1> HIDE DEF w, f
<1> QED BY <1>1, <1>4, <1>6, <1>7, FifoUpdate

-----------------------------------------------------------------------------
(* pMpeGlobal and pDeqSend alternate: what each kind of step does.         *)

(* Nothing is being sent, before and after. *)
LEMMA TxIdle ==
  ASSUME NEW n \in Fpga, TxAlternatesAt(n),
         mpe[n].fsm \notin SendingStates, mpe'[n].fsm \notin SendingStates,
         fifo'[n].tx = fifo[n].tx, fifo'[n].sendDone = fifo[n].sendDone
  PROVE  TxAlternatesAt(n)'
BY DEF TxAlternatesAt

(* pMpeGlobal and the FIFO to pDeqSend keep still. *)
LEMMA TxUnchanged ==
  ASSUME NEW n \in Fpga, TxAlternatesAt(n), mpe'[n].fsm = mpe[n].fsm,
         fifo'[n].tx = fifo[n].tx, fifo'[n].sendDone = fifo[n].sendDone
  PROVE  TxAlternatesAt(n)'
BY DEF TxAlternatesAt, InTransmission

(* A control message is written. *)
LEMMA TxControl ==
  ASSUME NEW n \in Fpga, TxAlternatesAt(n), mpe[n].fsm \notin SendingStates,
         mpe'[n].fsm \in SendingStates \ {"SEND_DATA_RD"}, NEW type,
         fifo'[n].tx = fifo[n].tx \o ControlMessage(n, type),
         fifo'[n].sendDone = fifo[n].sendDone
  PROVE  TxAlternatesAt(n)'
<1> DEFINE entry == [pkt |-> Control(type, n, mpe[n].rank, mpe[n].call), tlast |-> TRUE]
<1>1. fifo[n].tx = << >> /\ fifo[n].sendDone = 0
  BY DEF TxAlternatesAt
<1>2. fifo'[n].tx = <<entry>>
  BY <1>1 DEF ControlMessage
<1>3. entry.tlast
  OBVIOUS
<1> HIDE DEF entry
<1>4. /\ fifo'[n].tx # << >> /\ Len(fifo'[n].tx) = 1
      /\ fifo'[n].tx[1] = entry
  BY <1>2
<1>5. \A i \in 1 .. Len(fifo'[n].tx) : fifo'[n].tx[i].tlast /\ i = Len(fifo'[n].tx)
  BY <1>3, <1>4
<1>6. fifo'[n].sendDone = 0 /\ mpe'[n].fsm # "SEND_DATA_RD"
  BY <1>1
<1> QED BY <1>4, <1>5, <1>6 DEF TxAlternatesAt, InTransmission

(* The done flag of pDeqSend is read. *)
LEMMA TxDone ==
  ASSUME NEW n \in Fpga, TxAlternatesAt(n), fifo[n].sendDone > 0,
         mpe[n].fsm \in SendingStates, mpe'[n].fsm \notin SendingStates,
         fifo'[n].tx = fifo[n].tx, fifo'[n].sendDone = fifo[n].sendDone - 1
  PROVE  TxAlternatesAt(n)'
BY DEF TxAlternatesAt, InTransmission

(* The header of a DATA message is ready. *)
LEMMA TxData ==
  ASSUME NEW n \in Fpga, TxAlternatesAt(n),
         mpe[n].fsm \notin SendingStates, mpe'[n].fsm = "SEND_DATA_RD",
         fifo'[n].tx = fifo[n].tx, fifo'[n].sendDone = fifo[n].sendDone
  PROVE  TxAlternatesAt(n)'
BY DEF TxAlternatesAt, InTransmission, SendingStates

(* The next packet of a DATA message is written. *)
LEMMA TxPayload ==
  ASSUME NEW n \in Fpga, fifo[n].tx \in Seq(TxEntry), TxAlternatesAt(n),
         NEW e \in TxEntry,
         mpe[n].fsm = "SEND_DATA_RD",
         mpe'[n].fsm = (IF e.tlast THEN "SEND_DATA_WRD" ELSE "SEND_DATA_RD"),
         fifo'[n].tx = Append(fifo[n].tx, e), fifo'[n].sendDone = fifo[n].sendDone
  PROVE  TxAlternatesAt(n)'
<1> DEFINE tx == fifo[n].tx
<1>1. fifo[n].sendDone = 0 /\ \A i \in 1 .. Len(tx) : ~tx[i].tlast
  BY DEF TxAlternatesAt, InTransmission, SendingStates
<1>2. /\ Len(fifo'[n].tx) = Len(tx) + 1 /\ fifo'[n].tx # << >> /\ Len(tx) \in Nat
      /\ \A i \in 1 .. Len(tx) : fifo'[n].tx[i] = tx[i]
      /\ fifo'[n].tx[Len(tx) + 1] = e
  <2>1. \A t \in Seq(TxEntry) :
          /\ Len(Append(t, e)) = Len(t) + 1 /\ Append(t, e) # << >> /\ Len(t) \in Nat
          /\ \A i \in 1 .. Len(t) : Append(t, e)[i] = t[i]
          /\ Append(t, e)[Len(t) + 1] = e
    OBVIOUS
  <2> QED BY <2>1
<1>5. ASSUME NEW i \in 1 .. Len(fifo'[n].tx)
      PROVE  fifo'[n].tx[i].tlast <=> (i = Len(fifo'[n].tx) /\ mpe'[n].fsm # "SEND_DATA_RD")
  BY <1>1, <1>2
<1> QED BY <1>1, <1>2, <1>5 DEF TxAlternatesAt, InTransmission, SendingStates

(* pDeqSend sends one packet. *)
LEMMA TxSent ==
  ASSUME NEW n \in Fpga, fifo[n].tx \in Seq(TxEntry), TxAlternatesAt(n),
         fifo[n].tx # << >>, mpe'[n].fsm = mpe[n].fsm,
         fifo'[n].tx = Tail(fifo[n].tx),
         Head(fifo[n].tx).tlast => fifo'[n].sendDone = fifo[n].sendDone + 1,
         ~Head(fifo[n].tx).tlast => fifo'[n].sendDone = fifo[n].sendDone
  PROVE  TxAlternatesAt(n)'
<1> DEFINE tx == fifo[n].tx
<1>1. /\ mpe[n].fsm \in SendingStates
      /\ fifo[n].sendDone = 0
      /\ \A i \in 1 .. Len(tx) : tx[i].tlast <=> (i = Len(tx) /\ mpe[n].fsm # "SEND_DATA_RD")
  BY DEF TxAlternatesAt, InTransmission
<1>2. \A t \in Seq(TxEntry) : t # << >> =>
        /\ Len(Tail(t)) = Len(t) - 1 /\ Len(t) \in Nat \ {0}
        /\ Head(t) = t[1] /\ Tail(t) \in Seq(TxEntry)
        /\ \A i \in 1 .. Len(t) - 1 : Tail(t)[i] = t[i + 1]
  OBVIOUS
<1>3. /\ Len(Tail(tx)) = Len(tx) - 1 /\ Len(tx) \in Nat \ {0}
      /\ Head(tx) = tx[1] /\ Tail(tx) \in Seq(TxEntry)
      /\ \A i \in 1 .. Len(tx) - 1 : Tail(tx)[i] = tx[i + 1]
  BY <1>2
<1>4. Tail(tx) = << >> <=> Len(tx) = 1
  <2>1. \A t \in Seq(TxEntry) : t = << >> <=> Len(t) = 0
    OBVIOUS
  <2>2. Tail(tx) = << >> <=> Len(Tail(tx)) = 0
    BY <1>3, <2>1
  <2> QED BY <1>3, <2>2
<1>5. fifo'[n].sendDone = IF Tail(tx) = << >> /\ mpe[n].fsm # "SEND_DATA_RD" THEN 1 ELSE 0
  <2>1. Head(tx).tlast <=> (Len(tx) = 1 /\ mpe[n].fsm # "SEND_DATA_RD")
    <3>1. 1 \in 1 .. Len(tx)
      BY <1>3
    <3>2. tx[1].tlast <=> (1 = Len(tx) /\ mpe[n].fsm # "SEND_DATA_RD")
      BY <1>1, <3>1
    <3> QED BY <1>3, <3>2
  <2>2. CASE Head(tx).tlast
    BY <1>1, <1>4, <2>1, <2>2
  <2>3. CASE ~Head(tx).tlast
    BY <1>1, <1>4, <2>1, <2>3
  <2> QED BY <2>2, <2>3
<1>6. \A i \in 1 .. Len(Tail(tx)) :
        Tail(tx)[i].tlast <=> (i = Len(Tail(tx)) /\ mpe[n].fsm # "SEND_DATA_RD")
  BY <1>1, <1>3
<1> QED BY <1>1, <1>5, <1>6 DEF TxAlternatesAt, InTransmission

-----------------------------------------------------------------------------
(* Whatever rank n does, with its timers or without them. *)
FpgaMove(n) == FpgaStep(n) \/ EngineTimeout(n)

(* A step of rank n leaves the state of the other ranks alone. *)
LEMMA Frame ==
  ASSUME MpeTypeOK, ApplicationTypeOK, NEW n \in Fpga, NEW m \in Fpga, m # n, FpgaMove(n)
  PROVE  mpe'[m] = mpe[m] /\ fifo'[m] = fifo[m] /\ wrap'[m] = wrap[m] /\ got'[m] = got[m]
<1> USE DEF MpeTypeOK, ApplicationTypeOK
<1>1. CASE Reset(n)
  BY <1>1 DEF Reset
<1>2. CASE Idle(n)
  BY <1>2 DEF Idle
<1>3. CASE StartSend(n)
  BY <1>3 DEF StartSend
<1>4. CASE SendReq(n)
  BY <1>4 DEF SendReq
<1>5. CASE Wait4ClearTimeout(n)
  BY <1>5 DEF Wait4ClearTimeout
<1>6. CASE SendDataStart(n)
  BY <1>6 DEF SendDataStart
<1>7. CASE SendDataRd(n)
  BY <1>7 DEF SendDataRd
<1>8. CASE SendDataWrd(n)
  BY <1>8 DEF SendDataWrd
<1>9. CASE Wait4AckTimeout(n)
  BY <1>9 DEF Wait4AckTimeout
<1>10. CASE StartRecv(n)
  BY <1>10 DEF StartRecv
<1>11. CASE AssembleClear(n)
  BY <1>11 DEF AssembleClear
<1>12. CASE SendClear(n)
  BY <1>12 DEF SendClear
<1>13. CASE RecvDataTimeout(n)
  BY <1>13 DEF RecvDataTimeout
<1>14. CASE RecvDataDone(n)
  BY <1>14 DEF RecvDataDone
<1>15. CASE SendAck(n)
  BY <1>15 DEF SendAck
<1>16. CASE DeqSend(n)
  BY <1>16 DEF DeqSend
<1>17. CASE DeqRecvStart(n)
  BY <1>17 DEF DeqRecvStart
<1>18. CASE DeqRecvWrite(n)
  BY <1>18 DEF DeqRecvWrite
<1>19. CASE WriteInfo(n)
  BY <1>19 DEF WriteInfo
<1>20. CASE SendWriteData(n)
  BY <1>20 DEF SendWriteData
<1>21. CASE SendFinish(n)
  BY <1>21, MpeAssumption DEF SendFinish, Return
<1>22. CASE RecvReadData(n)
  BY <1>22 DEF RecvReadData
<1>23. CASE RecvFinish(n)
  BY <1>23, MpeAssumption DEF RecvFinish, Return
<1>24. CASE \E s \in Rank : \E i \in Arriving(<<s, n>>) : Wait4Clear(n, s, i)
  BY <1>24 DEF Wait4Clear
<1>25. CASE \E s \in Rank : \E i \in Arriving(<<s, n>>) : Wait4Ack(n, s, i)
  BY <1>25 DEF Wait4Ack
<1>26. CASE \E s \in Rank : \E i \in Arriving(<<s, n>>) : Wait4Req(n, s, i)
  BY <1>26 DEF Wait4Req
<1>27. CASE \E s \in Rank : \E i \in Arriving(<<s, n>>) : RecvDataStart(n, s, i)
  BY <1>27 DEF RecvDataStart, Payload2App
<1>28. CASE \E s \in Rank : \E i \in Arriving(<<s, n>>) : RecvDataMore(n, s, i)
  BY <1>28 DEF RecvDataMore, Payload2App
<1>29. CASE DeqRecvPoison(n)
  BY <1>29 DEF DeqRecvPoison
<1> QED BY <1>1, <1>2, <1>3, <1>4, <1>5, <1>6, <1>7, <1>8, <1>9, <1>10, <1>11, <1>12, <1>13, <1>14, <1>15, <1>16, <1>17, <1>18, <1>19, <1>20, <1>21, <1>22, <1>23, <1>24, <1>25, <1>26, <1>27, <1>28, <1>29
         DEF FpgaMove, FpgaStep, Engine, EngineTimeout, DeqRecv, Wrapper

-----------------------------------------------------------------------------
(* Every step of rank n keeps its own part of the invariants. *)
OwnPart(n) == TxAlternatesAt(n) /\ AckNeverCachedAt(n)

LEMMA EngineOwn ==
  ASSUME MpeTypeOK, NEW n \in Fpga, OwnPart(n), Engine(n) \/ EngineTimeout(n)
  PROVE  OwnPart(n)'
<1>1. TxAlternatesAt(n) /\ AckNeverCachedAt(n)
  BY DEF OwnPart
<1>2. mpe[n] \in Registers /\ fifo[n] \in Fifos
  BY Local
<1>3. fifo[n].tx \in Seq(TxEntry)
  BY <1>2 DEF Fifos
<1>4. CASE Reset(n)
  <2>1. /\ mpe[n].fsm = "MPE_RESET"
        /\ mpe'[n].fsm = "IDLE"
        /\ fifo'[n].tx = fifo[n].tx /\ fifo'[n].sendDone = fifo[n].sendDone
    BY <1>2, <1>4 DEF Reset, In, MpeTypeOK, Registers, Fifos
  <2> QED BY <1>1, <2>1, TxIdle DEF OwnPart, AckNeverCachedAt, SendingStates
<1>5. CASE Idle(n)
  <2>1. /\ mpe[n].fsm = "IDLE"
        /\ mpe'[n].fsm \in {"START_SEND", "START_RECV"}
        /\ fifo'[n].tx = fifo[n].tx /\ fifo'[n].sendDone = fifo[n].sendDone
    BY <1>2, <1>5 DEF Idle, In, MpeTypeOK, Registers, Fifos
  <2> QED BY <1>1, <2>1, TxIdle DEF OwnPart, AckNeverCachedAt, SendingStates
<1>6. CASE Wait4ClearTimeout(n)
  <2>1. /\ mpe[n].fsm = "WAIT4CLEAR"
        /\ mpe'[n].fsm = "START_SEND"
        /\ fifo'[n].tx = fifo[n].tx /\ fifo'[n].sendDone = fifo[n].sendDone
    BY <1>2, <1>6 DEF Wait4ClearTimeout, In, MpeTypeOK, Registers, Fifos
  <2> QED BY <1>1, <2>1, TxIdle DEF OwnPart, AckNeverCachedAt, SendingStates
<1>7. CASE Wait4AckTimeout(n)
  <2>1. /\ mpe[n].fsm = "WAIT4ACK"
        /\ mpe'[n].fsm = "SEND_DATA_START"
        /\ fifo'[n].tx = fifo[n].tx /\ fifo'[n].sendDone = fifo[n].sendDone
    BY <1>2, <1>7 DEF Wait4AckTimeout, In, MpeTypeOK, Registers, Fifos
  <2> QED BY <1>1, <2>1, TxIdle DEF OwnPart, AckNeverCachedAt, SendingStates
<1>8. CASE StartRecv(n)
  <2>1. /\ mpe[n].fsm = "START_RECV"
        /\ mpe'[n].fsm \in {"WAIT4REQ", "ASSEMBLE_CLEAR", "WAIT4ACK"}
        /\ fifo'[n].tx = fifo[n].tx /\ fifo'[n].sendDone = fifo[n].sendDone
    BY <1>2, <1>8 DEF StartRecv, In, MpeTypeOK, Registers, Fifos
  <2> QED BY <1>1, <2>1, TxIdle DEF OwnPart, AckNeverCachedAt, SendingStates
<1>9. CASE RecvDataTimeout(n)
  <2>1. /\ mpe[n].fsm = "RECV_DATA_START"
        /\ mpe'[n].fsm \in {"RECV_DATA_START", "ASSEMBLE_CLEAR"}
        /\ fifo'[n].tx = fifo[n].tx /\ fifo'[n].sendDone = fifo[n].sendDone
    <3>1. CASE mpe[n].started
      <4>1. mpe[n].fsm = "RECV_DATA_START" /\ mpe'[n].fsm = mpe[n].fsm
        BY <1>2, <1>9, <3>1 DEF RecvDataTimeout, In, MpeTypeOK, Registers
      <4>2. fifo'[n].tx = fifo[n].tx /\ fifo'[n].sendDone = fifo[n].sendDone
        BY <1>2, <1>9, <3>1 DEF RecvDataTimeout, MpeTypeOK, Fifos
      <4> QED BY <4>1, <4>2
    <3>2. CASE ~mpe[n].started
      BY <1>2, <1>9, <3>2 DEF RecvDataTimeout, In, MpeTypeOK, Registers
    <3> QED BY <3>1, <3>2
  <2> QED BY <1>1, <2>1, TxIdle DEF OwnPart, AckNeverCachedAt, SendingStates
<1>10. CASE \E s \in Rank : \E i \in Arriving(<<s, n>>) : Wait4Clear(n, s, i)
  <2>1. /\ mpe[n].fsm = "WAIT4CLEAR"
        /\ mpe'[n].fsm \in {"WAIT4CLEAR", "SEND_DATA_START"}
        /\ fifo'[n].tx = fifo[n].tx /\ fifo'[n].sendDone = fifo[n].sendDone
    BY <1>2, <1>10 DEF Wait4Clear, In, MpeTypeOK, Registers, Fifos
  <2> QED BY <1>1, <2>1, TxIdle DEF OwnPart, AckNeverCachedAt, SendingStates
<1>11. CASE \E s \in Rank : \E i \in Arriving(<<s, n>>) : Wait4Ack(n, s, i)
  <2>1. /\ mpe[n].fsm = "WAIT4ACK"
        /\ mpe'[n].fsm \in {"WAIT4ACK", "IDLE"}
        /\ fifo'[n].tx = fifo[n].tx /\ fifo'[n].sendDone = fifo[n].sendDone
    <3>0. PICK s \in Rank : \E i \in Arriving(<<s, n>>) : Wait4Ack(n, s, i)
      BY <1>11
    <3>1. PICK i \in Arriving(<<s, n>>) : Wait4Ack(n, s, i)
      BY <3>0
    <3> DEFINE p == net[<<s, n>>][i]
    <3>2. CASE Wanted(n, p)
      <4>1. /\ mpe' = [mpe EXCEPT ![n].fsm = "IDLE",
                                  ![n].cache = Deleted(@, mpe[n].rank)]
            /\ fifo' = [fifo EXCEPT ![n].feedback = Append(@, "OK")]
        BY <3>1, <3>2 DEF Wait4Ack
      <4>2. mpe[n].fsm = "WAIT4ACK" /\ mpe'[n].fsm = "IDLE"
        BY <1>2, <3>1, <4>1 DEF Wait4Ack, In, MpeTypeOK, Registers
      <4>3. fifo'[n].tx = fifo[n].tx /\ fifo'[n].sendDone = fifo[n].sendDone
        BY <1>2, <4>1 DEF MpeTypeOK, Fifos
      <4> QED BY <4>2, <4>3
    <3>3. CASE ~Wanted(n, p)
      <4>1. mpe' = [mpe EXCEPT ![n].cache = CacheWith(n, p)] /\ UNCHANGED fifo
        BY <3>1, <3>3 DEF Wait4Ack
      <4>2. mpe[n].fsm = "WAIT4ACK" /\ mpe'[n].fsm = "WAIT4ACK"
        BY <1>2, <3>1, <4>1 DEF Wait4Ack, In, MpeTypeOK, Registers
      <4> QED BY <4>1, <4>2
    <3> QED BY <3>2, <3>3
  <2> QED BY <1>1, <2>1, TxIdle DEF OwnPart, AckNeverCachedAt, SendingStates
<1>12. CASE \E s \in Rank : \E i \in Arriving(<<s, n>>) : Wait4Req(n, s, i)
  <2>1. /\ mpe[n].fsm = "WAIT4REQ"
        /\ mpe'[n].fsm \in {"WAIT4REQ", "ASSEMBLE_CLEAR"}
        /\ fifo'[n].tx = fifo[n].tx /\ fifo'[n].sendDone = fifo[n].sendDone
    BY <1>2, <1>12 DEF Wait4Req, In, MpeTypeOK, Registers, Fifos
  <2> QED BY <1>1, <2>1, TxIdle DEF OwnPart, AckNeverCachedAt, SendingStates
<1>13. CASE \E s \in Rank : \E i \in Arriving(<<s, n>>) : RecvDataStart(n, s, i)
  <2>1. /\ mpe[n].fsm = "RECV_DATA_START"
        /\ mpe'[n].fsm \in {"RECV_DATA_START", "RECV_DATA_WRD"}
        /\ fifo'[n].tx = fifo[n].tx /\ fifo'[n].sendDone = fifo[n].sendDone
    <3>0. PICK s \in Rank : \E i \in Arriving(<<s, n>>) : RecvDataStart(n, s, i)
      BY <1>13
    <3>1. PICK i \in Arriving(<<s, n>>) : RecvDataStart(n, s, i)
      BY <3>0
    <3> DEFINE p == net[<<s, n>>][i]
               e == [mpe[n] EXCEPT !.exp = p.size, !.rcvd = 0, !.dataSrc = s]
    <3>2. CASE mpe' = [mpe EXCEPT ![n].cache = CacheWith(n, p)] /\ UNCHANGED fifo
      BY <1>2, <3>1, <3>2 DEF RecvDataStart, In, MpeTypeOK, Registers
    <3>3. CASE Payload2App(n, e) /\ fifo' = [fifo EXCEPT ![n].expLen = Append(@, p.size),
                                                         ![n].rx = Append(@, p.unit)]
      <4>1. mpe[n].fsm = "RECV_DATA_START"
        BY <3>1 DEF RecvDataStart, In
      <4>2. fifo'[n].tx = fifo[n].tx /\ fifo'[n].sendDone = fifo[n].sendDone
        BY <1>2, <3>3 DEF MpeTypeOK, Fifos
      <4>3. mpe'[n].fsm \in {"RECV_DATA_START", "RECV_DATA_WRD"}
        BY <1>2, <3>3 DEF Payload2App, MpeTypeOK, Registers
      <4> QED BY <4>1, <4>2, <4>3
    <3> QED BY <3>1, <3>2, <3>3 DEF RecvDataStart
  <2> QED BY <1>1, <2>1, TxIdle DEF OwnPart, AckNeverCachedAt, SendingStates
<1>14. CASE \E s \in Rank : \E i \in Arriving(<<s, n>>) : RecvDataMore(n, s, i)
  <2>1. /\ mpe[n].fsm = "RECV_DATA_START"
        /\ mpe'[n].fsm \in {"RECV_DATA_START", "RECV_DATA_WRD"}
        /\ fifo'[n].tx = fifo[n].tx /\ fifo'[n].sendDone = fifo[n].sendDone
    BY <1>2, <1>14 DEF RecvDataMore, Payload2App, In, MpeTypeOK, Registers, Fifos
  <2> QED BY <1>1, <2>1, TxIdle DEF OwnPart, AckNeverCachedAt, SendingStates
<1>15. CASE StartSend(n)
  <2>1. /\ mpe[n].fsm = "START_SEND"
        /\ mpe'[n].fsm = "SEND_REQ"
        /\ fifo'[n].tx = fifo[n].tx \o ControlMessage(n, "SEND_REQUEST")
        /\ fifo'[n].sendDone = fifo[n].sendDone
    BY <1>2, <1>15 DEF StartSend, In, MpeTypeOK, Registers, Fifos
  <2> QED BY <1>1, <2>1, TxControl DEF OwnPart, AckNeverCachedAt, SendingStates
<1>16. CASE AssembleClear(n)
  <2>1. /\ mpe[n].fsm = "ASSEMBLE_CLEAR"
        /\ mpe'[n].fsm = "SEND_CLEAR"
        /\ fifo'[n].tx = fifo[n].tx \o ControlMessage(n, "CLEAR_TO_SEND")
        /\ fifo'[n].sendDone = fifo[n].sendDone
    BY <1>2, <1>16 DEF AssembleClear, In, MpeTypeOK, Registers, Fifos
  <2> QED BY <1>1, <2>1, TxControl DEF OwnPart, AckNeverCachedAt, SendingStates
<1>17. CASE RecvDataDone(n)
  <2>1. /\ mpe[n].fsm = "RECV_DATA_WRD"
        /\ mpe'[n].fsm = "SEND_ACK"
        /\ fifo'[n].tx = fifo[n].tx \o ControlMessage(n, "ACK")
        /\ fifo'[n].sendDone = fifo[n].sendDone
    BY <1>2, <1>17 DEF RecvDataDone, In, MpeTypeOK, Registers, Fifos
  <2> QED BY <1>1, <2>1, TxControl DEF OwnPart, AckNeverCachedAt, SendingStates
<1>18. CASE SendReq(n)
  <2>1. /\ mpe[n].fsm = "SEND_REQ" /\ fifo[n].sendDone > 0
        /\ mpe'[n].fsm \in {"SEND_DATA_START", "WAIT4CLEAR"}
        /\ fifo'[n].tx = fifo[n].tx /\ fifo'[n].sendDone = fifo[n].sendDone - 1
    BY <1>2, <1>18 DEF SendReq, In, MpeTypeOK, Registers, Fifos
  <2> QED BY <1>1, <2>1, TxDone DEF OwnPart, AckNeverCachedAt, SendingStates
<1>19. CASE SendDataWrd(n)
  <2>1. /\ mpe[n].fsm = "SEND_DATA_WRD" /\ fifo[n].sendDone > 0
        /\ mpe'[n].fsm \in {"IDLE", "WAIT4ACK"}
        /\ fifo'[n].tx = fifo[n].tx /\ fifo'[n].sendDone = fifo[n].sendDone - 1
    BY <1>2, <1>19 DEF SendDataWrd, In, MpeTypeOK, Registers, Fifos
  <2> QED BY <1>1, <2>1, TxDone DEF OwnPart, AckNeverCachedAt, SendingStates
<1>20. CASE SendClear(n)
  <2>1. /\ mpe[n].fsm = "SEND_CLEAR" /\ fifo[n].sendDone > 0
        /\ mpe'[n].fsm \in {"RECV_DATA_START"}
        /\ fifo'[n].tx = fifo[n].tx /\ fifo'[n].sendDone = fifo[n].sendDone - 1
    BY <1>2, <1>20 DEF SendClear, In, MpeTypeOK, Registers, Fifos
  <2> QED BY <1>1, <2>1, TxDone DEF OwnPart, AckNeverCachedAt, SendingStates
<1>21. CASE SendAck(n)
  <2>1. /\ mpe[n].fsm = "SEND_ACK" /\ fifo[n].sendDone > 0
        /\ mpe'[n].fsm \in {"IDLE"}
        /\ fifo'[n].tx = fifo[n].tx /\ fifo'[n].sendDone = fifo[n].sendDone - 1
    BY <1>2, <1>21 DEF SendAck, In, MpeTypeOK, Registers, Fifos
  <2> QED BY <1>1, <2>1, TxDone DEF OwnPart, AckNeverCachedAt, SendingStates
<1>22. CASE SendDataStart(n)
  <2>1. /\ mpe[n].fsm = "SEND_DATA_START" /\ mpe'[n].fsm = "SEND_DATA_RD"
        /\ fifo'[n].tx = fifo[n].tx /\ fifo'[n].sendDone = fifo[n].sendDone
    BY <1>2, <1>22 DEF SendDataStart, In, MpeTypeOK, Registers
  <2>2. mpe'[n].cache[mpe'[n].rank] = NoHeader
    BY <1>2, <1>22 DEF SendDataStart, Deleted, MpeTypeOK, Registers
  <2> QED BY <1>1, <2>1, <2>2, TxData DEF OwnPart, AckNeverCachedAt, SendingStates
<1>23. CASE SendDataRd(n)
  <2> DEFINE last == mpe[n].sent + 1 >= mpe[n].count
             unit == Head(fifo[n].mpiData)
             pkt == IF mpe[n].sent = 0
                    THEN DataPacket(n, mpe[n].rank, mpe[n].call, mpe[n].count, unit)
                    ELSE ContPacket(n, mpe[n].rank, mpe[n].call, unit)
             e == [pkt |-> pkt, tlast |-> last]
  <2>1. e \in TxEntry
    BY <1>23, EntryType
  <2>2. /\ mpe[n].fsm = "SEND_DATA_RD"
        /\ mpe'[n].fsm = IF last THEN "SEND_DATA_WRD" ELSE "SEND_DATA_RD"
        /\ fifo'[n].tx = Append(fifo[n].tx, e)
        /\ fifo'[n].sendDone = fifo[n].sendDone
        /\ mpe'[n].cache = mpe[n].cache /\ mpe'[n].rank = mpe[n].rank
    BY <1>2, <1>23 DEF SendDataRd, In, MpeTypeOK, Registers, Fifos
  <2>3. e.tlast = last
    OBVIOUS
  <2> HIDE DEF e, last
  <2>4. TxAlternatesAt(n)'
    BY <1>1, <1>3, <2>1, <2>2, <2>3, TxPayload
  <2> QED BY <1>1, <2>2, <2>4 DEF OwnPart, AckNeverCachedAt
<1> QED BY <1>4, <1>5, <1>6, <1>7, <1>8, <1>9, <1>10, <1>11, <1>12, <1>13, <1>14, <1>15, <1>16, <1>17, <1>18, <1>19, <1>20, <1>21, <1>22, <1>23 DEF Engine, EngineTimeout

LEMMA OtherOwn ==
  ASSUME NetworkTypeOK, MpeTypeOK, NEW n \in Fpga, OwnPart(n),
         DeqSend(n) \/ DeqRecv(n) \/ Wrapper(n)
  PROVE  OwnPart(n)'
<1>1. TxAlternatesAt(n) /\ AckNeverCachedAt(n)
  BY DEF OwnPart
<1>2. fifo[n] \in Fifos /\ mpe' = mpe
  BY Local DEF DeqSend, DeqRecv, DeqRecvStart, DeqRecvWrite, DeqRecvPoison, Wrapper,
               WriteInfo, SendWriteData, SendFinish, RecvReadData, RecvFinish
<1>3. AckNeverCachedAt(n)'
  BY <1>1, <1>2 DEF AckNeverCachedAt
<1>4. CASE DeqSend(n)
  <2>1. fifo[n].tx \in Seq(TxEntry)
    BY <1>2 DEF Fifos
  <2>2. /\ fifo[n].tx # << >> /\ mpe'[n].fsm = mpe[n].fsm
        /\ fifo'[n].tx = Tail(fifo[n].tx)
        /\ Head(fifo[n].tx).tlast => fifo'[n].sendDone = fifo[n].sendDone + 1
        /\ ~Head(fifo[n].tx).tlast => fifo'[n].sendDone = fifo[n].sendDone
    <3>1. CASE Head(fifo[n].tx).tlast
      BY <1>2, <1>4, <3>1 DEF DeqSend, MpeTypeOK, Fifos
    <3>2. CASE ~Head(fifo[n].tx).tlast
      BY <1>2, <1>4, <3>2 DEF DeqSend, MpeTypeOK, Fifos
    <3> QED BY <3>1, <3>2
  <2>3. TxAlternatesAt(n)'
    BY <1>1, <2>1, <2>2, TxSent
  <2> QED BY <1>3, <2>3 DEF OwnPart
<1>5. CASE DeqRecv(n)
  <2>1. fifo'[n].tx = fifo[n].tx /\ fifo'[n].sendDone = fifo[n].sendDone
    <3>1. CASE DeqRecvStart(n)
      BY <1>2, <3>1 DEF DeqRecvStart, MpeTypeOK, Fifos
    <3>2. CASE DeqRecvWrite(n)
      BY <1>2, <3>2 DEF DeqRecvWrite, MpeTypeOK, Fifos
    <3>3. CASE DeqRecvPoison(n)
      BY <1>2, <3>3 DEF DeqRecvPoison, MpeTypeOK, Fifos
    <3> QED BY <1>5, <3>1, <3>2, <3>3 DEF DeqRecv
  <2> QED BY <1>1, <1>2, <1>3, <2>1, TxUnchanged DEF OwnPart
<1>6. CASE Wrapper(n)
  <2>1. fifo'[n].tx = fifo[n].tx /\ fifo'[n].sendDone = fifo[n].sendDone
    <3>1. CASE WriteInfo(n)
      BY <1>2, <3>1 DEF WriteInfo, MpeTypeOK, Fifos
    <3>2. CASE SendWriteData(n)
      BY <1>2, <3>2 DEF SendWriteData, MpeTypeOK, Fifos
    <3>3. CASE SendFinish(n)
      BY <1>2, <3>3 DEF SendFinish, MpeTypeOK, Fifos
    <3>4. CASE RecvReadData(n)
      BY <1>2, <3>4 DEF RecvReadData, MpeTypeOK, Fifos
    <3>5. CASE RecvFinish(n)
      BY <1>2, <3>5 DEF RecvFinish, MpeTypeOK, Fifos
    <3> QED BY <1>6, <3>1, <3>2, <3>3, <3>4, <3>5 DEF Wrapper
  <2> QED BY <1>1, <1>2, <1>3, <2>1, TxUnchanged DEF OwnPart
<1> QED BY <1>4, <1>5, <1>6

-----------------------------------------------------------------------------
(* The network and the results, and all steps together. *)
FpgaTypeOK == NetworkTypeOK /\ ApplicationTypeOK /\ MpeTypeOK

(* What the engine leaves alone: all but its registers, its FIFOs and a   *)
(* packet that it consumes.                                               *)
LEMMA EngineEffect ==
  ASSUME NEW n \in Fpga, Engine(n) \/ EngineTimeout(n)
  PROVE  /\ UNCHANGED <<deq, wrap, got>>
         /\ \/ UNCHANGED netVars
            \/ \E s \in Rank : \E i \in Arriving(<<s, n>>) :
                 Consume(s, n, i) /\ UNCHANGED losses
<1> DEFINE Quiet == UNCHANGED <<deq, wrap, netVars, got>>
           Read  == /\ UNCHANGED <<deq, wrap, got>>
                    /\ \E s \in Rank : \E i \in Arriving(<<s, n>>) :
                         Consume(s, n, i) /\ UNCHANGED losses
<1>1. Reset(n) \/ Idle(n) => Quiet
  BY DEF Reset, Idle
<1>2. StartSend(n) \/ SendReq(n) \/ SendDataStart(n) \/ SendDataRd(n) \/ SendDataWrd(n) => Quiet
  BY DEF StartSend, SendReq, SendDataStart, SendDataRd, SendDataWrd
<1>3. StartRecv(n) \/ AssembleClear(n) \/ SendClear(n) \/ RecvDataDone(n) \/ SendAck(n) => Quiet
  BY DEF StartRecv, AssembleClear, SendClear, RecvDataDone, SendAck
<1>4. EngineTimeout(n) => Quiet
  BY DEF EngineTimeout, Wait4ClearTimeout, Wait4AckTimeout, RecvDataTimeout
<1>5. ASSUME NEW s \in Rank, NEW i \in Arriving(<<s, n>>),
             \/ Wait4Clear(n, s, i) \/ Wait4Ack(n, s, i) \/ Wait4Req(n, s, i)
             \/ RecvDataStart(n, s, i) \/ RecvDataMore(n, s, i)
      PROVE  Read
  <2>1. UNCHANGED <<deq, wrap, got>> /\ Consume(s, n, i) /\ UNCHANGED losses
    BY <1>5 DEF Wait4Clear, Wait4Ack, Wait4Req, RecvDataStart, RecvDataMore
  <2> QED BY <2>1
<1>6. Quiet \/ Read
  <2> HIDE DEF Quiet, Read
  <2> QED BY <1>1, <1>2, <1>3, <1>4, <1>5 DEF Engine
<1> QED BY <1>6

LEMMA NetTypes ==
  ASSUME FpgaTypeOK, NEW n \in Fpga, FpgaMove(n)
  PROVE  NetworkTypeOK'
<1>1. CASE DeqSend(n)
  BY <1>1, DeqSendType DEF FpgaTypeOK
<1>2. CASE \E s \in Rank : \E i \in Arriving(<<s, n>>) :
             Consume(s, n, i) /\ UNCHANGED losses
  <2>1. PICK s \in Rank : \E i \in Arriving(<<s, n>>) : Consume(s, n, i) /\ UNCHANGED losses
    BY <1>2
  <2>2. PICK i \in Arriving(<<s, n>>) : Consume(s, n, i) /\ UNCHANGED losses
    BY <2>1
  <2>3. net' \in [Rank \X Rank -> Seq(Packet)]
    BY <2>2, ConsumeType, MpeAssumption DEF FpgaTypeOK
  <2> QED BY <2>2, <2>3 DEF FpgaTypeOK, NetworkTypeOK
<1>3. CASE UNCHANGED netVars
  BY <1>3 DEF netVars, FpgaTypeOK, NetworkTypeOK
<1>4. Engine(n) \/ EngineTimeout(n) => \/ UNCHANGED netVars
                   \/ \E s \in Rank : \E i \in Arriving(<<s, n>>) :
                        Consume(s, n, i) /\ UNCHANGED losses
  BY EngineEffect
<1>5. DeqRecv(n) \/ Wrapper(n) => UNCHANGED netVars
  BY DEF DeqRecv, DeqRecvStart, DeqRecvWrite, DeqRecvPoison, Wrapper, WriteInfo,
         SendWriteData, SendFinish, RecvReadData, RecvFinish
<1> QED BY <1>1, <1>2, <1>3, <1>4, <1>5 DEF FpgaMove, FpgaStep

LEMMA GotType ==
  ASSUME FpgaTypeOK, WrapperBusy, NEW n \in Fpga, FpgaMove(n)
  PROVE  /\ ApplicationTypeOK'
         /\ wrap'[n].state # "READY" => Running(n)'
<1> USE DEF FpgaTypeOK
<1>1. wrap[n] \in Wrappers /\ n \in Rank /\ got[n] \in Seq(Seq(Unit))
  BY Local DEF ApplicationTypeOK
<1>2. CASE UNCHANGED <<got, wrap>>
  BY <1>2 DEF ApplicationTypeOK, WrapperBusy, Running, Position
<1>3. CASE WriteInfo(n) \/ SendWriteData(n) \/ RecvReadData(n)
  <2>1. got' = got /\ Running(n)
    BY <1>3 DEF WriteInfo, SendWriteData, RecvReadData, WrapperBusy
  <2> QED BY <2>1 DEF ApplicationTypeOK, Running, Position
<1>4. ASSUME NEW data \in Seq(Unit), Return(n, data)
      PROVE  ApplicationTypeOK'
  <2>1. Append(got[n], data) \in Seq(Seq(Unit))
    BY <1>1
  <2> QED BY <1>4, <2>1 DEF Return, ApplicationTypeOK
<1>5. CASE SendFinish(n)
  <2>1. CASE Head(fifo[n].feedback) = "OK"
    <3>1. Return(n, << >>) /\ wrap'[n].state = "READY"
      BY <1>1, <1>5, <2>1 DEF SendFinish, MpeTypeOK, Wrappers
    <3>2. << >> \in Seq(Unit)
      OBVIOUS
    <3> QED BY <1>4, <3>1, <3>2
  <2>2. CASE Head(fifo[n].feedback) # "OK"
    <3>1. got' = got /\ Running(n)
      BY <1>5, <2>2 DEF SendFinish, WrapperBusy
    <3> QED BY <3>1 DEF ApplicationTypeOK, Running, Position
  <2> QED BY <2>1, <2>2
<1>6. CASE RecvFinish(n)
  <2>1. CASE Head(fifo[n].feedback) = "OK"
    <3>1. Return(n, wrap[n].data) /\ wrap'[n].state = "READY"
      BY <1>1, <1>6, <2>1 DEF RecvFinish, MpeTypeOK, Wrappers
    <3>2. wrap[n].data \in Seq(Unit)
      BY <1>1 DEF Wrappers
    <3> QED BY <1>4, <3>1, <3>2
  <2>2. CASE Head(fifo[n].feedback) # "OK"
    <3>1. got' = got /\ Running(n)
      BY <1>6, <2>2 DEF RecvFinish, WrapperBusy
    <3> QED BY <3>1 DEF ApplicationTypeOK, Running, Position
  <2> QED BY <2>1, <2>2
<1>7. Engine(n) \/ EngineTimeout(n) \/ DeqSend(n) \/ DeqRecv(n) => UNCHANGED <<got, wrap>>
  BY EngineEffect DEF DeqSend, DeqRecv, DeqRecvStart, DeqRecvWrite, DeqRecvPoison
<1> QED BY <1>2, <1>3, <1>5, <1>6, <1>7 DEF FpgaMove, FpgaStep, Wrapper

LEMMA EngineType ==
  ASSUME FpgaTypeOK, NEW n \in Fpga, Engine(n) \/ EngineTimeout(n)
  PROVE  MpeTypeOK'
<1> USE DEF FpgaTypeOK
<1>1. CASE \E s \in Rank : \E i \in Arriving(<<s, n>>) :
             \/ Wait4Clear(n, s, i) \/ Wait4Ack(n, s, i) \/ Wait4Req(n, s, i)
             \/ RecvDataStart(n, s, i) \/ RecvDataMore(n, s, i)
  BY <1>1, Wait4ClearType, Wait4AckType, Wait4ReqType, RecvDataStartType, RecvDataMoreType
<1> QED BY <1>1, ResetType, IdleType, StartSendType, SendReqType, Wait4ClearTimeoutType,
           SendDataStartType, SendDataRdType, SendDataWrdType, Wait4AckTimeoutType,
           StartRecvType, AssembleClearType, SendClearType, RecvDataTimeoutType,
           RecvDataDoneType, SendAckType
        DEF Engine, EngineTimeout

LEMMA StepType ==
  ASSUME FpgaTypeOK, WrapperBusy, NEW n \in Fpga, FpgaMove(n)
  PROVE  MpeTypeOK'
<1> USE DEF FpgaTypeOK
<1>1. CASE Engine(n) \/ EngineTimeout(n)
  BY <1>1, EngineType
<1>2. CASE DeqSend(n)
  BY <1>2, DeqSendType
<1>3. CASE DeqRecv(n)
  BY <1>3, DeqRecvStartType, DeqRecvWriteType, DeqRecvPoisonType DEF DeqRecv
<1>4. CASE Wrapper(n)
  BY <1>4, WriteInfoType, SendWriteDataType, SendFinishType, RecvReadDataType, RecvFinishType
     DEF Wrapper
<1> QED BY <1>1, <1>2, <1>3, <1>4 DEF FpgaMove, FpgaStep

-----------------------------------------------------------------------------
(* The inductive invariant: what is typed, what the wrapper knows of the   *)
(* program, and what each engine knows of its own transmission.            *)
FpgaInv == FpgaTypeOK /\ WrapperBusy /\ AckNeverCached /\ TxAlternates

LEMMA InitFpgaInv == NetworkInit /\ ApplicationInit /\ MpeInit => FpgaInv
<1> SUFFICES ASSUME NetworkInit, ApplicationInit, MpeInit PROVE FpgaInv
  OBVIOUS
<1>1. FpgaTypeOK
  BY NetworkInitType, ApplicationInitType, MpeInitType DEF FpgaTypeOK
<1>2. WrapperBusy
  BY DEF MpeInit, WrapperBusy
<1>3. AckNeverCached
  BY DEF MpeInit, AckNeverCached, AckNeverCachedAt
<1>4. TxAlternates
  BY DEF MpeInit, TxAlternates, TxAlternatesAt, SendingStates
<1> QED BY <1>1, <1>2, <1>3, <1>4 DEF FpgaInv

LEMMA StepFpgaInv ==
  ASSUME FpgaInv, NEW n \in Fpga, FpgaMove(n)
  PROVE  FpgaInv'
<1> USE DEF FpgaInv
<1>1. NetworkTypeOK' /\ MpeTypeOK' /\ ApplicationTypeOK'
  BY NetTypes, StepType, GotType
<1>2. FpgaTypeOK'
  BY <1>1 DEF FpgaTypeOK
<1>3. ASSUME NEW m \in Fpga, m # n
      PROVE  mpe'[m] = mpe[m] /\ fifo'[m] = fifo[m] /\ wrap'[m] = wrap[m] /\ got'[m] = got[m]
  BY <1>3, Frame DEF FpgaTypeOK
<1>4. ASSUME NEW m \in Fpga PROVE wrap'[m].state # "READY" => Running(m)'
  <2>1. CASE m = n
    BY <2>1, GotType
  <2>2. CASE m # n
    BY <1>3, <2>2 DEF WrapperBusy, Running, Position
  <2> QED BY <2>1, <2>2
<1>5. OwnPart(n)'
  <2>1. OwnPart(n)
    BY DEF OwnPart, AckNeverCached, TxAlternates
  <2> QED BY <2>1, EngineOwn, OtherOwn DEF FpgaMove, FpgaStep, FpgaTypeOK
<1>6. ASSUME NEW m \in Fpga PROVE TxAlternatesAt(m)' /\ AckNeverCachedAt(m)'
  <2>1. CASE m = n
    BY <1>5, <2>1 DEF OwnPart
  <2>2. CASE m # n
    <3>1. TxAlternatesAt(m) /\ AckNeverCachedAt(m)
      BY DEF AckNeverCached, TxAlternates
    <3> QED BY <1>3, <2>2, <3>1 DEF TxAlternatesAt, InTransmission, AckNeverCachedAt
  <2> QED BY <2>1, <2>2
<1> QED BY <1>2, <1>4, <1>6 DEF WrapperBusy, AckNeverCached, TxAlternates

(* What a rank that is no FPGA, a loss or the end of the program keeps. *)
LEMMA OtherFpgaInv ==
  ASSUME FpgaInv, UNCHANGED mpeVars, NetworkTypeOK', ApplicationTypeOK',
         \A n \in Fpga : got'[n] = got[n]
  PROVE  FpgaInv'
BY DEF FpgaInv, FpgaTypeOK, mpeVars, MpeTypeOK, WrapperBusy, Running, Position,
       AckNeverCached, AckNeverCachedAt, TxAlternates, TxAlternatesAt, InTransmission

(* The results of ranks that are no FPGA stay as they are. *)
LEMMA FpgaReturns ==
  ASSUME ApplicationTypeOK, NEW n \in Fpga, FpgaMove(n), NEW m \in Rank, m # n
  PROVE  got'[m] = got[m]
<1>1. got' = got \/ \E data : Return(n, data)
  <2>1. Engine(n) \/ EngineTimeout(n) => got' = got
    BY EngineEffect
  <2>2. DeqSend(n) \/ DeqRecv(n) => got' = got
    BY DEF DeqSend, DeqRecv, DeqRecvStart, DeqRecvWrite, DeqRecvPoison
  <2>3. WriteInfo(n) \/ SendWriteData(n) \/ RecvReadData(n) => got' = got
    BY DEF WriteInfo, SendWriteData, RecvReadData
  <2>4. SendFinish(n) \/ RecvFinish(n) => got' = got \/ \E data : Return(n, data)
    BY DEF SendFinish, RecvFinish
  <2> QED BY <2>1, <2>2, <2>3, <2>4 DEF FpgaMove, FpgaStep, Wrapper
<1> QED BY <1>1 DEF Return, ApplicationTypeOK

-----------------------------------------------------------------------------
(* What a call leaves behind: the registers m of pMpeGlobal, the FIFOs f,  *)
(* pDeqRecv (d) and the wrapper (w) of one FPGA hand over to each other,   *)
(* as long as no receive gives up in the middle of a message.  op is the   *)
(* call that the program executes.                                         *)

Clean(f, d) ==
  f.rx = << >> /\ f.expLen = << >> /\ f.recvDone = 0 /\ d.state = "DEQ_IDLE"

NoData(f, d) == Clean(f, d) /\ f.appData = << >>

(* Between two calls.                                                      *)
Resting(m, f, d, w) ==
  /\ w.state = "READY" /\ m.fsm \in {"MPE_RESET", "IDLE"}
  /\ f.mpiif = << >> /\ f.mpiData = << >> /\ f.feedback = << >> /\ NoData(f, d)

(* The wrapper has written the data of its call, or is about to.           *)
Offered(f, w, count) ==
  /\ f.feedback = << >>
  /\ Len(f.mpiData) = IF w.state = "SEND_FINISH" THEN count ELSE 0

(* The wrapper is told to repeat the data of its call.                     *)
ToldFail(f, w) ==
  f.feedback = <<"FAIL">> /\ w.state = "SEND_FINISH" /\ f.mpiData = << >>

Sending(m, f, d, w, op) ==
  /\ w.state \in {"SEND_WRITE_DATA", "SEND_FINISH"} /\ NoData(f, d)
  /\ op.call \in SendCalls
  /\ \/ /\ f.mpiif = <<[call |-> op.call, count |-> op.count, rank |-> op.peer]>>
        /\ m.fsm \in {"MPE_RESET", "IDLE"} /\ Offered(f, w, op.count)
     \/ /\ f.mpiif = << >> /\ m.call = op.call /\ m.count = op.count /\ m.rank = op.peer
        /\ \/ m.fsm \in {"START_SEND", "SEND_REQ", "WAIT4CLEAR"} /\ Offered(f, w, op.count)
           \/ m.fsm = "SEND_DATA_START" /\ (Offered(f, w, op.count) \/ ToldFail(f, w))
           \/ /\ m.fsm = "SEND_DATA_RD"
              /\ \/ m.sent = 0 /\ (Offered(f, w, op.count) \/ ToldFail(f, w))
                 \/ /\ m.sent > 0 /\ w.state = "SEND_FINISH" /\ f.feedback = << >>
                    /\ Len(f.mpiData) = op.count - m.sent
           \/ /\ m.fsm \in {"SEND_DATA_WRD", "WAIT4ACK"} /\ w.state = "SEND_FINISH"
              /\ f.mpiData = << >> /\ f.feedback = << >>
           \/ /\ m.fsm = "IDLE" /\ w.state = "SEND_FINISH"
              /\ f.mpiData = << >> /\ f.feedback = <<"OK">>

(* k units of a message of e arrived, and pDeqRecv has not yet passed on   *)
(* all of them.                                                            *)
OnTheWay(f, d, w, k, e) ==
  /\ f.recvDone = 0 /\ w.state = "RECV_READ_DATA" /\ f.feedback = << >>
  /\ k > 0 /\ (k = 1 \/ k <= e) /\ f.rx \in Seq(Unit)
  /\ \/ /\ f.expLen = <<e>> /\ d.state = "DEQ_IDLE" /\ f.appData = << >>
        /\ Len(f.rx) = k
     \/ /\ f.expLen = << >> /\ d.state = "DEQ_WRITE" /\ d.exp = e
        /\ d.cnt + Len(f.rx) = k /\ (d.cnt = 0 \/ d.cnt < e)
        /\ \A i \in 1 .. Len(f.appData) : ~f.appData[i].tlast

(* All units of a message are in appData or taken by the wrapper.          *)
PassedOn(f, d, w) ==
  /\ f.rx = << >> /\ f.expLen = << >> /\ d.state = "DEQ_IDLE"
  /\ \/ /\ w.state = "RECV_READ_DATA" /\ f.appData # << >>
        /\ \A i \in 1 .. Len(f.appData) : f.appData[i].tlast <=> i = Len(f.appData)
     \/ w.state = "RECV_FINISH" /\ f.appData = << >>

(* The way from START_RECV into WAIT4ACK: the wrapper waits for ever.      *)
Stuck(m, f, d, w) ==
  /\ m.fsm \in {"WAIT4ACK", "SEND_DATA_START", "SEND_DATA_RD", "IDLE"}
  /\ w.state = "RECV_READ_DATA" /\ NoData(f, d)

Receiving(m, f, d, w, op) ==
  /\ f.mpiData = << >> /\ op.call \in RecvCalls
  /\ \/ /\ f.mpiif = <<[call |-> op.call, count |-> op.count, rank |-> op.peer]>>
        /\ m.fsm \in {"MPE_RESET", "IDLE"}
        /\ w.state = "RECV_READ_DATA" /\ f.feedback = << >> /\ NoData(f, d)
     \/ /\ f.mpiif = << >> /\ m.call = op.call /\ m.count = op.count /\ m.rank = op.peer
        /\ \/ /\ \/ m.fsm \in {"START_RECV", "WAIT4REQ", "ASSEMBLE_CLEAR", "SEND_CLEAR"}
                 \/ m.fsm = "RECV_DATA_START" /\ ~m.started /\ ~m.more
              /\ w.state = "RECV_READ_DATA" /\ f.feedback = << >> /\ NoData(f, d)
           \/ /\ m.fsm = "RECV_DATA_START" /\ m.started /\ m.more
              /\ m.rcvd < m.exp /\ OnTheWay(f, d, w, m.rcvd, m.exp)
           \/ /\ m.fsm = "RECV_DATA_WRD"
              /\ m.rcvd >= m.exp
              /\ \/ OnTheWay(f, d, w, m.rcvd, m.exp)
                 \/ f.recvDone = 1 /\ f.feedback = << >> /\ PassedOn(f, d, w)
           \/ /\ m.fsm = "SEND_ACK" /\ f.recvDone = 0 /\ f.feedback = << >>
              /\ PassedOn(f, d, w)
           \/ /\ m.fsm = "IDLE" /\ f.recvDone = 0 /\ f.feedback = <<"OK">>
              /\ PassedOn(f, d, w)
           \/ Stuck(m, f, d, w)

HandOver(m, f, d, w, op) ==
  Resting(m, f, d, w) \/ Sending(m, f, d, w, op) \/ Receiving(m, f, d, w, op)

HandOverAt(n) == HandOver(mpe[n], fifo[n], deq[n], wrap[n], CurrentOp(n))

HandsOver == \A n \in Fpga : HandOverAt(n)

(* What reading and writing a FIFO does.                                   *)
LEMMA TailOf ==
  ASSUME NEW S, NEW q \in Seq(S), q # << >>
  PROVE  /\ Len(q) \in Nat \ {0} /\ Tail(q) \in Seq(S) /\ Len(Tail(q)) = Len(q) - 1
         /\ Head(q) = q[1] /\ Head(q) \in S
         /\ \A j \in 1 .. Len(Tail(q)) : Tail(q)[j] = q[j + 1]
         /\ Len(Tail(q)) = 0 => Tail(q) = << >>
<1>1. Len(q) \in Nat \ {0} /\ Tail(q) \in Seq(S) /\ Len(Tail(q)) = Len(q) - 1
  OBVIOUS
<1>2. Head(q) = q[1] /\ Head(q) \in S
  OBVIOUS
<1>3. \A j \in 1 .. Len(Tail(q)) : Tail(q)[j] = q[j + 1]
  OBVIOUS
<1>4. \A t \in Seq(S) : Len(t) = 0 => t = << >>
  OBVIOUS
<1> QED BY <1>1, <1>2, <1>3, <1>4

LEMMA AppendOf ==
  ASSUME NEW S, NEW q \in Seq(S), NEW x \in S
  PROVE  /\ Len(q) \in Nat /\ Append(q, x) \in Seq(S) /\ Len(Append(q, x)) = Len(q) + 1
         /\ \A j \in 1 .. Len(q) : Append(q, x)[j] = q[j]
         /\ Append(q, x)[Len(q) + 1] = x
         /\ Append(q, x) # << >>
OBVIOUS

(* pDeqRecv counts one more unit, and one less is left.                    *)
LEMMA OneMore ==
  ASSUME NEW cnt \in Nat, NEW left \in Nat \ {0}, NEW k \in Nat, NEW e \in Nat,
         cnt + left = k, k = 1 \/ k <= e
  PROVE  /\ cnt + 1 >= e => left = 1
         /\ (cnt + 1) + (left - 1) = k
         /\ ~(cnt + 1 >= e) => cnt + 1 < e
OBVIOUS

(* FIFOs that differ in what pDeqSend transmits only.                      *)
LEMMA SameFifos ==
  ASSUME NEW f, NEW g, NEW m, NEW d, NEW w, NEW op, HandOver(m, f, d, w, op),
         g.mpiif = f.mpiif, g.mpiData = f.mpiData, g.feedback = f.feedback,
         g.rx = f.rx, g.expLen = f.expLen, g.recvDone = f.recvDone, g.appData = f.appData
  PROVE  HandOver(m, g, d, w, op)
<1>1. NoData(g, d) = NoData(f, d)
  BY DEF NoData, Clean
<1>2. Offered(g, w, op.count) = Offered(f, w, op.count) /\ ToldFail(g, w) = ToldFail(f, w)
  BY DEF Offered, ToldFail
<1>3. /\ PassedOn(g, d, w) = PassedOn(f, d, w)
      /\ OnTheWay(g, d, w, m.rcvd, m.exp) = OnTheWay(f, d, w, m.rcvd, m.exp)
  BY DEF PassedOn, OnTheWay
<1>4. CASE Resting(m, f, d, w)
  BY <1>1, <1>4 DEF HandOver, Resting
<1>5. CASE Sending(m, f, d, w, op)
  BY <1>1, <1>2, <1>5 DEF HandOver, Sending
<1>6. CASE Receiving(m, f, d, w, op)
  BY <1>1, <1>3, <1>6 DEF HandOver, Receiving, Stuck
<1> QED BY <1>4, <1>5, <1>6 DEF HandOver

(* It is enough to look at the registers if only they and sFifoDataTX      *)
(* change.                                                                 *)
LEMMA RegistersHandOver ==
  ASSUME NEW n \in Fpga, UNCHANGED <<deq, wrap, got>>,
         fifo'[n].mpiif = fifo[n].mpiif, fifo'[n].mpiData = fifo[n].mpiData,
         fifo'[n].feedback = fifo[n].feedback, fifo'[n].rx = fifo[n].rx,
         fifo'[n].expLen = fifo[n].expLen, fifo'[n].recvDone = fifo[n].recvDone,
         fifo'[n].appData = fifo[n].appData,
         HandOver(mpe'[n], fifo[n], deq[n], wrap[n], CurrentOp(n))
  PROVE  HandOverAt(n)'
<1>1. CurrentOp(n)' = CurrentOp(n)
  BY DEF CurrentOp, Position
<1> QED BY <1>1, SameFifos DEF HandOverAt

(* pMpeGlobal, sending *)

LEMMA ResetHandOver ==
  ASSUME MpeTypeOK, NEW n \in Fpga, HandOverAt(n), Reset(n)
  PROVE  HandOverAt(n)'
<1>1. mpe[n] \in Registers /\ fifo[n] \in Fifos
  BY Local
<1>2. mpe[n].fsm = "MPE_RESET"
  BY DEF Reset, In
<1>3. /\ mpe'[n].call = mpe[n].call /\ mpe'[n].count = mpe[n].count /\ mpe'[n].rank = mpe[n].rank
      /\ mpe'[n].fsm = "IDLE"
  BY <1>1, <1>2 DEF Reset, MpeTypeOK, Registers
<1>4. HandOver(mpe'[n], fifo[n], deq[n], wrap[n], CurrentOp(n))
  BY <1>2, <1>3 DEF HandOverAt, HandOver, Resting, Sending, Receiving, Stuck
<1> QED BY <1>4, RegistersHandOver DEF Reset

LEMMA IdleHandOver ==
  ASSUME MpeTypeOK, NEW n \in Fpga, HandOverAt(n), Idle(n)
  PROVE  HandOverAt(n)'
<1> DEFINE m == mpe[n]
           f == fifo[n]
           d == deq[n]
           w == wrap[n]
           op == CurrentOp(n)
<1>1. m \in Registers /\ f \in Fifos /\ d \in DeqRegisters /\ w \in Wrappers
  BY Local
<1>2. CurrentOp(n)' = op /\ deq' = deq /\ wrap' = wrap
  BY DEF Idle, CurrentOp, Position
<1>3. m.fsm = "IDLE" /\ f.mpiif # << >>
  BY DEF Idle, In
<1>4. \/ /\ Sending(m, f, d, w, op) /\ Offered(f, w, op.count) /\ op.call \in SendCalls
      \/ /\ Receiving(m, f, d, w, op) /\ op.call \in RecvCalls
         /\ w.state = "RECV_READ_DATA" /\ f.feedback = << >> /\ NoData(f, d)
  BY <1>3 DEF HandOverAt, HandOver, Resting, Sending, Receiving
<1>5. f.mpiif = <<[call |-> op.call, count |-> op.count, rank |-> op.peer]>>
  BY <1>3, <1>4 DEF Sending, Receiving
<1>6. /\ Head(f.mpiif) = [call |-> op.call, count |-> op.count, rank |-> op.peer]
      /\ Tail(f.mpiif) = << >>
  BY <1>5
<1>7. /\ mpe'[n].call = op.call /\ mpe'[n].count = op.count /\ mpe'[n].rank = op.peer
      /\ mpe'[n].fsm = IF op.call \in SendCalls THEN "START_SEND" ELSE "START_RECV"
  <2>1. mpe' = [mpe EXCEPT
          ![n].fsm = IF op.call \in SendCalls THEN "START_SEND" ELSE "START_RECV",
          ![n].call = op.call, ![n].count = op.count, ![n].rank = op.peer, ![n].inc = 0]
    <3>1. LET info == Head(f.mpiif)
          IN  info.call = op.call /\ info.count = op.count /\ info.rank = op.peer
      BY <1>6
    <3> QED BY <3>1 DEF Idle
  <2> QED BY <1>1, <2>1 DEF MpeTypeOK, Registers
<1>8. fifo'[n] = [f EXCEPT !.mpiif = << >>]
  BY <1>1, <1>6 DEF Idle, MpeTypeOK
<1>9. CASE op.call \in SendCalls
  <2>1. Sending(mpe'[n], fifo'[n], d, w, op)
    BY <1>1, <1>4, <1>7, <1>8, <1>9 DEF Sending, Receiving, Offered, NoData, Clean, Fifos, SendCalls, RecvCalls
  <2> QED BY <1>2, <2>1 DEF HandOverAt, HandOver
<1>10. CASE op.call \notin SendCalls
  <2>1. Receiving(mpe'[n], fifo'[n], d, w, op)
    BY <1>1, <1>4, <1>7, <1>8, <1>10 DEF Sending, Receiving, NoData, Clean, Fifos
  <2> QED BY <1>2, <2>1 DEF HandOverAt, HandOver
<1> QED BY <1>9, <1>10

LEMMA StartSendHandOver ==
  ASSUME MpeTypeOK, NEW n \in Fpga, HandOverAt(n), StartSend(n)
  PROVE  HandOverAt(n)'
<1>1. mpe[n] \in Registers /\ fifo[n] \in Fifos
  BY Local
<1>2. mpe[n].fsm = "START_SEND"
  BY DEF StartSend, In
<1>3. /\ mpe'[n].call = mpe[n].call /\ mpe'[n].count = mpe[n].count /\ mpe'[n].rank = mpe[n].rank
      /\ mpe'[n].fsm = "SEND_REQ"
  BY <1>1, <1>2 DEF StartSend, MpeTypeOK, Registers
<1>4. HandOver(mpe'[n], fifo[n], deq[n], wrap[n], CurrentOp(n))
  BY <1>2, <1>3 DEF HandOverAt, HandOver, Resting, Sending, Receiving, Stuck
<1>5. /\ fifo'[n].mpiif = fifo[n].mpiif /\ fifo'[n].mpiData = fifo[n].mpiData
      /\ fifo'[n].feedback = fifo[n].feedback /\ fifo'[n].rx = fifo[n].rx
      /\ fifo'[n].expLen = fifo[n].expLen /\ fifo'[n].recvDone = fifo[n].recvDone
      /\ fifo'[n].appData = fifo[n].appData
  BY <1>1 DEF StartSend, MpeTypeOK, Fifos
<1> QED BY <1>4, <1>5, RegistersHandOver DEF StartSend

LEMMA SendReqHandOver ==
  ASSUME MpeTypeOK, NEW n \in Fpga, HandOverAt(n), SendReq(n)
  PROVE  HandOverAt(n)'
<1>1. mpe[n] \in Registers /\ fifo[n] \in Fifos
  BY Local
<1>2. mpe[n].fsm = "SEND_REQ"
  BY DEF SendReq, In
<1>3. /\ mpe'[n].call = mpe[n].call /\ mpe'[n].count = mpe[n].count /\ mpe'[n].rank = mpe[n].rank
      /\ mpe'[n].fsm \in {"SEND_DATA_START", "WAIT4CLEAR"}
  BY <1>1, <1>2 DEF SendReq, MpeTypeOK, Registers
<1>4. HandOver(mpe'[n], fifo[n], deq[n], wrap[n], CurrentOp(n))
  BY <1>2, <1>3 DEF HandOverAt, HandOver, Resting, Sending, Receiving, Stuck
<1>5. /\ fifo'[n].mpiif = fifo[n].mpiif /\ fifo'[n].mpiData = fifo[n].mpiData
      /\ fifo'[n].feedback = fifo[n].feedback /\ fifo'[n].rx = fifo[n].rx
      /\ fifo'[n].expLen = fifo[n].expLen /\ fifo'[n].recvDone = fifo[n].recvDone
      /\ fifo'[n].appData = fifo[n].appData
  BY <1>1 DEF SendReq, MpeTypeOK, Fifos
<1> QED BY <1>4, <1>5, RegistersHandOver DEF SendReq

LEMMA Wait4ClearHandOver ==
  ASSUME MpeTypeOK, NEW n \in Fpga, NEW s \in Rank, NEW i \in Arriving(<<s, n>>),
         HandOverAt(n), Wait4Clear(n, s, i)
  PROVE  HandOverAt(n)'
<1>1. mpe[n] \in Registers /\ fifo[n] \in Fifos
  BY Local
<1>2. mpe[n].fsm = "WAIT4CLEAR"
  BY DEF Wait4Clear, In
<1>3. /\ mpe'[n].call = mpe[n].call /\ mpe'[n].count = mpe[n].count /\ mpe'[n].rank = mpe[n].rank
      /\ mpe'[n].fsm \in {"SEND_DATA_START", "WAIT4CLEAR"}
  BY <1>1, <1>2 DEF Wait4Clear, MpeTypeOK, Registers
<1>4. HandOver(mpe'[n], fifo[n], deq[n], wrap[n], CurrentOp(n))
  BY <1>2, <1>3 DEF HandOverAt, HandOver, Resting, Sending, Receiving, Stuck
<1> QED BY <1>4, RegistersHandOver DEF Wait4Clear

LEMMA Wait4ClearTimeoutHandOver ==
  ASSUME MpeTypeOK, NEW n \in Fpga, HandOverAt(n), Wait4ClearTimeout(n)
  PROVE  HandOverAt(n)'
<1>1. mpe[n] \in Registers /\ fifo[n] \in Fifos
  BY Local
<1>2. mpe[n].fsm = "WAIT4CLEAR"
  BY DEF Wait4ClearTimeout, In
<1>3. /\ mpe'[n].call = mpe[n].call /\ mpe'[n].count = mpe[n].count /\ mpe'[n].rank = mpe[n].rank
      /\ mpe'[n].fsm = "START_SEND"
  BY <1>1, <1>2 DEF Wait4ClearTimeout, MpeTypeOK, Registers
<1>4. HandOver(mpe'[n], fifo[n], deq[n], wrap[n], CurrentOp(n))
  BY <1>2, <1>3 DEF HandOverAt, HandOver, Resting, Sending, Receiving, Stuck
<1> QED BY <1>4, RegistersHandOver DEF Wait4ClearTimeout

LEMMA SendDataStartHandOver ==
  ASSUME MpeTypeOK, NEW n \in Fpga, HandOverAt(n), SendDataStart(n)
  PROVE  HandOverAt(n)'
<1>1. mpe[n] \in Registers /\ fifo[n] \in Fifos
  BY Local
<1>2. mpe[n].fsm = "SEND_DATA_START"
  BY DEF SendDataStart, In
<1>3. /\ mpe'[n].call = mpe[n].call /\ mpe'[n].count = mpe[n].count /\ mpe'[n].rank = mpe[n].rank
      /\ mpe'[n].fsm = "SEND_DATA_RD" /\ mpe'[n].sent = 0
  BY <1>1, <1>2 DEF SendDataStart, MpeTypeOK, Registers
<1>4. HandOver(mpe'[n], fifo[n], deq[n], wrap[n], CurrentOp(n))
  BY <1>2, <1>3 DEF HandOverAt, HandOver, Resting, Sending, Receiving, Stuck
<1> QED BY <1>4, RegistersHandOver DEF SendDataStart

LEMMA SendDataRdHandOver ==
  ASSUME MpeTypeOK, NEW n \in Fpga, HandOverAt(n), SendDataRd(n)
  PROVE  HandOverAt(n)'
<1> DEFINE m == mpe[n]
           f == fifo[n]
           d == deq[n]
           w == wrap[n]
           op == CurrentOp(n)
<1>1. m \in Registers /\ f \in Fifos /\ d \in DeqRegisters /\ w \in Wrappers
  BY Local
<1>2. CurrentOp(n)' = op /\ deq' = deq /\ wrap' = wrap
  BY DEF SendDataRd, CurrentOp, Position
<1>3. m.fsm = "SEND_DATA_RD" /\ f.mpiData # << >> /\ Len(f.mpiData) > 0
  BY <1>1 DEF SendDataRd, In, Fifos
<1>4. /\ w.state = "SEND_FINISH" /\ f.feedback = << >> /\ NoData(f, d) /\ f.mpiif = << >>
      /\ op.call \in SendCalls /\ m.call = op.call /\ m.count = op.count /\ m.rank = op.peer
      /\ Len(f.mpiData) = op.count - m.sent
  <2>1. Sending(m, f, d, w, op)
    BY <1>3 DEF HandOverAt, HandOver, Resting, Receiving
  <2>2. \/ m.sent = 0 /\ (Offered(f, w, op.count) \/ ToldFail(f, w))
        \/ m.sent > 0 /\ w.state = "SEND_FINISH" /\ f.feedback = << >>
           /\ Len(f.mpiData) = op.count - m.sent
    BY <1>3, <2>1 DEF Sending
  <2>3. /\ NoData(f, d) /\ f.mpiif = << >> /\ op.call \in SendCalls
        /\ m.call = op.call /\ m.count = op.count /\ m.rank = op.peer
    BY <1>3, <2>1 DEF Sending
  <2>4. m.sent \in Nat /\ m.count \in Nat
    BY <1>1 DEF Registers
  <2>5. CASE m.sent = 0 /\ (Offered(f, w, op.count) \/ ToldFail(f, w))
    <3>1. Offered(f, w, op.count)
      BY <1>3, <2>5 DEF ToldFail
    <3>2. w.state = "SEND_FINISH" /\ f.feedback = << >> /\ Len(f.mpiData) = op.count
      BY <1>3, <3>1 DEF Offered
    <3> QED BY <2>3, <2>4, <2>5, <3>2
  <2>6. CASE m.sent > 0 /\ w.state = "SEND_FINISH" /\ f.feedback = << >>
             /\ Len(f.mpiData) = op.count - m.sent
    BY <2>3, <2>6
  <2> QED BY <2>2, <2>5, <2>6
<1>5. /\ Len(Tail(f.mpiData)) = Len(f.mpiData) - 1 /\ Len(f.mpiData) \in Nat
      /\ Len(Tail(f.mpiData)) = 0 => Tail(f.mpiData) = << >>
  <2>1. f.mpiData \in Seq(Unit)
    BY <1>1 DEF Fifos
  <2> QED BY <1>3, <2>1, TailOf
<1>6. /\ mpe'[n].call = m.call /\ mpe'[n].count = m.count /\ mpe'[n].rank = m.rank
      /\ mpe'[n].sent = m.sent + 1 /\ m.sent \in Nat /\ m.count \in Nat
      /\ mpe'[n].fsm = IF m.sent + 1 >= m.count THEN "SEND_DATA_WRD" ELSE "SEND_DATA_RD"
  BY <1>1, <1>3 DEF SendDataRd, MpeTypeOK, Registers
<1>7. /\ fifo'[n].mpiData = Tail(f.mpiData) /\ fifo'[n].feedback = f.feedback
      /\ fifo'[n].mpiif = f.mpiif /\ fifo'[n].rx = f.rx /\ fifo'[n].expLen = f.expLen
      /\ fifo'[n].recvDone = f.recvDone /\ fifo'[n].appData = f.appData
  BY <1>1 DEF SendDataRd, MpeTypeOK, Fifos
<1>8. NoData(fifo'[n], d)
  BY <1>4, <1>7 DEF NoData, Clean
<1>9. Sending(mpe'[n], fifo'[n], d, w, op)
  <2>1. CASE m.sent + 1 >= m.count
    <3>1. fifo'[n].mpiData = << >>
      <4>1. Len(f.mpiData) = m.count - m.sent /\ Len(f.mpiData) \in Nat \ {0}
        <5>1. Len(f.mpiData) = op.count - m.sent /\ m.count = op.count
          BY <1>4
        <5>2. Len(f.mpiData) \in Nat /\ Len(f.mpiData) > 0
          BY <1>3, <1>5
        <5> QED BY <5>1, <5>2
      <4>2. Len(f.mpiData) - 1 = 0
        BY <1>6, <2>1, <4>1
      <4> QED BY <1>5, <1>7, <4>2
    <3> QED BY <1>4, <1>6, <1>7, <1>8, <2>1, <3>1 DEF Sending
  <2>2. CASE ~(m.sent + 1 >= m.count)
    <3>1. Len(fifo'[n].mpiData) = op.count - mpe'[n].sent /\ mpe'[n].sent > 0
      BY <1>4, <1>5, <1>6, <1>7
    <3> QED BY <1>4, <1>6, <1>7, <1>8, <2>2, <3>1 DEF Sending
  <2> QED BY <2>1, <2>2
<1> QED BY <1>2, <1>9 DEF HandOverAt, HandOver

LEMMA SendDataWrdHandOver ==
  ASSUME MpeTypeOK, NEW n \in Fpga, HandOverAt(n), AckNeverCachedAt(n), SendDataWrd(n)
  PROVE  HandOverAt(n)'
<1>1. mpe[n] \in Registers /\ fifo[n] \in Fifos
  BY Local
<1>2. mpe[n].fsm = "SEND_DATA_WRD"
  BY DEF SendDataWrd, In
<1>3. /\ mpe'[n].call = mpe[n].call /\ mpe'[n].count = mpe[n].count /\ mpe'[n].rank = mpe[n].rank
      /\ mpe'[n].fsm = "WAIT4ACK"
  <2>1. ~CacheHolds(n, "ACK")
    BY <1>2 DEF AckNeverCachedAt, CacheHolds, CachedMatch
  <2> QED BY <1>1, <2>1 DEF SendDataWrd, MpeTypeOK, Registers
<1>4. HandOver(mpe'[n], fifo[n], deq[n], wrap[n], CurrentOp(n))
  BY <1>2, <1>3 DEF HandOverAt, HandOver, Resting, Sending, Receiving, Stuck
<1>5. /\ fifo'[n].mpiif = fifo[n].mpiif /\ fifo'[n].mpiData = fifo[n].mpiData
      /\ fifo'[n].feedback = fifo[n].feedback /\ fifo'[n].rx = fifo[n].rx
      /\ fifo'[n].expLen = fifo[n].expLen /\ fifo'[n].recvDone = fifo[n].recvDone
      /\ fifo'[n].appData = fifo[n].appData
  BY <1>1 DEF SendDataWrd, MpeTypeOK, Fifos
<1> QED BY <1>4, <1>5, RegistersHandOver DEF SendDataWrd

LEMMA Wait4AckHandOver ==
  ASSUME MpeTypeOK, NEW n \in Fpga, NEW s \in Rank, NEW i \in Arriving(<<s, n>>),
         HandOverAt(n), Wait4Ack(n, s, i)
  PROVE  HandOverAt(n)'
<1> DEFINE m == mpe[n]
           f == fifo[n]
           d == deq[n]
           w == wrap[n]
           op == CurrentOp(n)
<1>1. m \in Registers /\ f \in Fifos /\ d \in DeqRegisters /\ w \in Wrappers
  BY Local
<1>2. CurrentOp(n)' = op /\ deq' = deq /\ wrap' = wrap
  BY DEF Wait4Ack, CurrentOp, Position
<1>3. m.fsm = "WAIT4ACK"
  BY DEF Wait4Ack, In
<1>4. \/ Sending(m, f, d, w, op) /\ f.feedback = << >>
      \/ Receiving(m, f, d, w, op) /\ Stuck(m, f, d, w)
  BY <1>3 DEF HandOverAt, HandOver, Resting, Sending, Receiving
<1>5. /\ mpe'[n].call = m.call /\ mpe'[n].count = m.count /\ mpe'[n].rank = m.rank
      /\ \/ mpe'[n].fsm = "IDLE" /\ fifo'[n].feedback = Append(f.feedback, "OK")
         \/ mpe'[n].fsm = "WAIT4ACK" /\ fifo'[n].feedback = f.feedback
      /\ fifo'[n].mpiData = f.mpiData
      /\ fifo'[n].mpiif = f.mpiif /\ fifo'[n].rx = f.rx /\ fifo'[n].expLen = f.expLen
      /\ fifo'[n].recvDone = f.recvDone /\ fifo'[n].appData = f.appData
  <2>1. CASE Wanted(n, net[<<s, n>>][i])
    <3>1. /\ mpe' = [mpe EXCEPT ![n].fsm = "IDLE", ![n].cache = Deleted(@, mpe[n].rank)]
          /\ fifo' = [fifo EXCEPT ![n].feedback = Append(@, "OK")]
      BY <2>1 DEF Wait4Ack
    <3> QED BY <1>1, <3>1 DEF MpeTypeOK, Registers, Fifos
  <2>2. CASE ~Wanted(n, net[<<s, n>>][i])
    <3>1. /\ mpe' = [mpe EXCEPT ![n].cache = CacheWith(n, net[<<s, n>>][i])]
          /\ fifo' = fifo
      BY <2>2 DEF Wait4Ack
    <3> QED BY <1>1, <1>3, <3>1 DEF MpeTypeOK, Registers, Fifos
  <2> QED BY <2>1, <2>2
<1>8. NoData(f, d) => NoData(fifo'[n], d)
  BY <1>5 DEF NoData, Clean
<1>9. CASE Sending(m, f, d, w, op) /\ f.feedback = << >>
  <2>1. f.feedback = << >> => Append(f.feedback, "OK") = <<"OK">>
    OBVIOUS
  <2>3. f.mpiData = << >> /\ f.mpiif = << >> /\ w.state = "SEND_FINISH"
    BY <1>3, <1>9 DEF Sending
  <2>2. Sending(mpe'[n], fifo'[n], d, w, op)
    BY <1>3, <1>5, <1>8, <1>9, <2>1, <2>3 DEF Sending
  <2> QED BY <1>2, <2>2 DEF HandOverAt, HandOver
<1>10. CASE Receiving(m, f, d, w, op) /\ Stuck(m, f, d, w)
  <2>1. Receiving(mpe'[n], fifo'[n], d, w, op)
    BY <1>3, <1>5, <1>8, <1>10 DEF Receiving, Stuck
  <2> QED BY <1>2, <2>1 DEF HandOverAt, HandOver
<1> QED BY <1>4, <1>9, <1>10

LEMMA Wait4AckTimeoutHandOver ==
  ASSUME MpeTypeOK, NEW n \in Fpga, HandOverAt(n), Wait4AckTimeout(n)
  PROVE  HandOverAt(n)'
<1> DEFINE m == mpe[n]
           f == fifo[n]
           d == deq[n]
           w == wrap[n]
           op == CurrentOp(n)
<1>1. m \in Registers /\ f \in Fifos /\ d \in DeqRegisters /\ w \in Wrappers
  BY Local
<1>2. CurrentOp(n)' = op /\ deq' = deq /\ wrap' = wrap
  BY DEF Wait4AckTimeout, CurrentOp, Position
<1>3. m.fsm = "WAIT4ACK"
  BY DEF Wait4AckTimeout, In
<1>4. \/ Sending(m, f, d, w, op) /\ f.feedback = << >>
      \/ Receiving(m, f, d, w, op) /\ Stuck(m, f, d, w)
  BY <1>3 DEF HandOverAt, HandOver, Resting, Sending, Receiving
<1>5. /\ mpe'[n].call = m.call /\ mpe'[n].count = m.count /\ mpe'[n].rank = m.rank
      /\ mpe'[n].fsm = "SEND_DATA_START"
  BY <1>1 DEF Wait4AckTimeout, MpeTypeOK, Registers
<1>7. /\ fifo'[n].feedback = Append(f.feedback, "FAIL") /\ fifo'[n].mpiData = f.mpiData
      /\ fifo'[n].mpiif = f.mpiif /\ fifo'[n].rx = f.rx /\ fifo'[n].expLen = f.expLen
      /\ fifo'[n].recvDone = f.recvDone /\ fifo'[n].appData = f.appData
  BY <1>1 DEF Wait4AckTimeout, MpeTypeOK, Fifos
<1>8. NoData(f, d) => NoData(fifo'[n], d)
  BY <1>7 DEF NoData, Clean
<1>9. CASE Sending(m, f, d, w, op) /\ f.feedback = << >>
  <2>1. fifo'[n].feedback = <<"FAIL">>
    BY <1>7, <1>9
  <2>2. Sending(mpe'[n], fifo'[n], d, w, op)
    BY <1>3, <1>5, <1>7, <1>8, <1>9, <2>1 DEF Sending, ToldFail
  <2> QED BY <1>2, <2>2 DEF HandOverAt, HandOver
<1>10. CASE Receiving(m, f, d, w, op) /\ Stuck(m, f, d, w)
  <2>1. Receiving(mpe'[n], fifo'[n], d, w, op)
    BY <1>3, <1>5, <1>7, <1>8, <1>10 DEF Receiving, Stuck
  <2> QED BY <1>2, <2>1 DEF HandOverAt, HandOver
<1> QED BY <1>4, <1>9, <1>10

(* pMpeGlobal, receiving *)

LEMMA StartRecvHandOver ==
  ASSUME MpeTypeOK, NEW n \in Fpga, HandOverAt(n), StartRecv(n)
  PROVE  HandOverAt(n)'
<1>1. mpe[n] \in Registers /\ fifo[n] \in Fifos
  BY Local
<1>2. mpe[n].fsm = "START_RECV"
  BY DEF StartRecv, In
<1>3. /\ mpe'[n].call = mpe[n].call /\ mpe'[n].count = mpe[n].count /\ mpe'[n].rank = mpe[n].rank
      /\ mpe'[n].fsm \in {"WAIT4REQ", "ASSEMBLE_CLEAR", "WAIT4ACK"}
  BY <1>1, <1>2 DEF StartRecv, MpeTypeOK, Registers
<1>4. HandOver(mpe'[n], fifo[n], deq[n], wrap[n], CurrentOp(n))
  BY <1>2, <1>3 DEF HandOverAt, HandOver, Resting, Sending, Receiving, Stuck
<1> QED BY <1>4, RegistersHandOver DEF StartRecv

LEMMA Wait4ReqHandOver ==
  ASSUME MpeTypeOK, NEW n \in Fpga, NEW s \in Rank, NEW i \in Arriving(<<s, n>>),
         HandOverAt(n), Wait4Req(n, s, i)
  PROVE  HandOverAt(n)'
<1>1. mpe[n] \in Registers /\ fifo[n] \in Fifos
  BY Local
<1>2. mpe[n].fsm = "WAIT4REQ"
  BY DEF Wait4Req, In
<1>3. /\ mpe'[n].call = mpe[n].call /\ mpe'[n].count = mpe[n].count /\ mpe'[n].rank = mpe[n].rank
      /\ mpe'[n].fsm \in {"WAIT4REQ", "ASSEMBLE_CLEAR"}
  BY <1>1, <1>2 DEF Wait4Req, MpeTypeOK, Registers
<1>4. HandOver(mpe'[n], fifo[n], deq[n], wrap[n], CurrentOp(n))
  BY <1>2, <1>3 DEF HandOverAt, HandOver, Resting, Sending, Receiving, Stuck
<1> QED BY <1>4, RegistersHandOver DEF Wait4Req

LEMMA AssembleClearHandOver ==
  ASSUME MpeTypeOK, NEW n \in Fpga, HandOverAt(n), AssembleClear(n)
  PROVE  HandOverAt(n)'
<1>1. mpe[n] \in Registers /\ fifo[n] \in Fifos
  BY Local
<1>2. mpe[n].fsm = "ASSEMBLE_CLEAR"
  BY DEF AssembleClear, In
<1>3. /\ mpe'[n].call = mpe[n].call /\ mpe'[n].count = mpe[n].count /\ mpe'[n].rank = mpe[n].rank
      /\ mpe'[n].fsm = "SEND_CLEAR"
  BY <1>1, <1>2 DEF AssembleClear, MpeTypeOK, Registers
<1>4. HandOver(mpe'[n], fifo[n], deq[n], wrap[n], CurrentOp(n))
  BY <1>2, <1>3 DEF HandOverAt, HandOver, Resting, Sending, Receiving, Stuck
<1>5. /\ fifo'[n].mpiif = fifo[n].mpiif /\ fifo'[n].mpiData = fifo[n].mpiData
      /\ fifo'[n].feedback = fifo[n].feedback /\ fifo'[n].rx = fifo[n].rx
      /\ fifo'[n].expLen = fifo[n].expLen /\ fifo'[n].recvDone = fifo[n].recvDone
      /\ fifo'[n].appData = fifo[n].appData
  BY <1>1 DEF AssembleClear, MpeTypeOK, Fifos
<1> QED BY <1>4, <1>5, RegistersHandOver DEF AssembleClear

LEMMA SendClearHandOver ==
  ASSUME MpeTypeOK, NEW n \in Fpga, HandOverAt(n), SendClear(n)
  PROVE  HandOverAt(n)'
<1>1. mpe[n] \in Registers /\ fifo[n] \in Fifos
  BY Local
<1>2. mpe[n].fsm = "SEND_CLEAR"
  BY DEF SendClear, In
<1>3. /\ mpe'[n].call = mpe[n].call /\ mpe'[n].count = mpe[n].count /\ mpe'[n].rank = mpe[n].rank
      /\ mpe'[n].fsm = "RECV_DATA_START" /\ ~mpe'[n].started /\ ~mpe'[n].more
  BY <1>1, <1>2 DEF SendClear, MpeTypeOK, Registers
<1>4. HandOver(mpe'[n], fifo[n], deq[n], wrap[n], CurrentOp(n))
  BY <1>2, <1>3 DEF HandOverAt, HandOver, Resting, Sending, Receiving, Stuck
<1>5. /\ fifo'[n].mpiif = fifo[n].mpiif /\ fifo'[n].mpiData = fifo[n].mpiData
      /\ fifo'[n].feedback = fifo[n].feedback /\ fifo'[n].rx = fifo[n].rx
      /\ fifo'[n].expLen = fifo[n].expLen /\ fifo'[n].recvDone = fifo[n].recvDone
      /\ fifo'[n].appData = fifo[n].appData
  BY <1>1 DEF SendClear, MpeTypeOK, Fifos
<1> QED BY <1>4, <1>5, RegistersHandOver DEF SendClear

(* RECV_DATA_RD counts one unit.                                           *)
LEMMA PayloadFields ==
  ASSUME MpeTypeOK, NEW n \in Fpga, NEW e \in Registers, e.fsm = "RECV_DATA_START",
         Payload2App(n, e)
  PROVE  /\ mpe'[n].call = e.call /\ mpe'[n].count = e.count /\ mpe'[n].rank = e.rank
         /\ mpe'[n].rcvd = e.rcvd + 1 /\ mpe'[n].exp = e.exp
         /\ \/ e.rcvd + 1 >= e.exp /\ mpe'[n].fsm = "RECV_DATA_WRD"
            \/ /\ e.rcvd + 1 < e.exp /\ mpe'[n].fsm = "RECV_DATA_START"
               /\ mpe'[n].started /\ mpe'[n].more
<1>1. e.rcvd \in Nat /\ e.exp \in Nat
  BY DEF Registers
<1>2. CASE e.rcvd + 1 >= e.exp
  BY <1>1, <1>2 DEF Payload2App, MpeTypeOK, Registers
<1>3. CASE ~(e.rcvd + 1 >= e.exp)
  <2>1. mpe' = [mpe EXCEPT ![n] =
          [e EXCEPT !.rcvd = @ + 1, !.fsm = "RECV_DATA_START", !.timer = "running",
                    !.started = @ \/ TRUE, !.more = @ \/ TRUE]]
    BY <1>3 DEF Payload2App
  <2>2. mpe'[n].started = (e.started \/ TRUE) /\ mpe'[n].more = (e.more \/ TRUE)
    BY <2>1 DEF MpeTypeOK, Registers
  <2>3. mpe'[n].started /\ mpe'[n].more
    BY <2>2
  <2>4. /\ mpe'[n].call = e.call /\ mpe'[n].count = e.count /\ mpe'[n].rank = e.rank
        /\ mpe'[n].rcvd = e.rcvd + 1 /\ mpe'[n].exp = e.exp
        /\ mpe'[n].fsm = "RECV_DATA_START"
    BY <2>1 DEF MpeTypeOK, Registers
  <2> QED BY <1>1, <1>3, <2>3, <2>4
<1> QED BY <1>2, <1>3

LEMMA RecvDataStartHandOver ==
  ASSUME MpeTypeOK, NetworkTypeOK, NEW n \in Fpga, NEW s \in Rank,
         NEW i \in Arriving(<<s, n>>), HandOverAt(n), RecvDataStart(n, s, i)
  PROVE  HandOverAt(n)'
<1> DEFINE m == mpe[n]
           f == fifo[n]
           d == deq[n]
           w == wrap[n]
           op == CurrentOp(n)
           p == net[<<s, n>>][i]
           wanted == /\ HasHeader(p)
                     /\ Matches(HeaderOf(p), m.expType, m.expCall, m.rank)
                     /\ ~m.more
<1>1. m \in Registers /\ f \in Fifos /\ d \in DeqRegisters /\ w \in Wrappers
  BY Local
<1>2. CurrentOp(n)' = op /\ deq' = deq /\ wrap' = wrap
  BY DEF RecvDataStart, CurrentOp, Position
<1>3. m.fsm = "RECV_DATA_START"
  BY DEF RecvDataStart, In
<1>4. /\ Receiving(m, f, d, w, op) /\ f.mpiif = << >> /\ f.mpiData = << >>
      /\ op.call \in RecvCalls /\ m.call = op.call /\ m.count = op.count /\ m.rank = op.peer
  BY <1>3 DEF HandOverAt, HandOver, Resting, Sending, Receiving
<1>5. \/ ~m.started /\ ~m.more /\ w.state = "RECV_READ_DATA" /\ f.feedback = << >> /\ NoData(f, d)
      \/ m.started /\ m.more /\ m.rcvd < m.exp /\ OnTheWay(f, d, w, m.rcvd, m.exp)
  BY <1>3, <1>4 DEF Receiving, Stuck
<1>6. CASE wanted
  <2>0. p \in Packet
    BY ConsumeType, Local DEF RecvDataStart
  <2>1. p.size \in Nat /\ p.unit \in Unit
    BY <1>6, <2>0 DEF Packet
  <2> DEFINE e == [m EXCEPT !.exp = p.size, !.rcvd = 0, !.dataSrc = s]
  <2>2. /\ Payload2App(n, e)
        /\ fifo' = [fifo EXCEPT ![n].expLen = Append(@, p.size), ![n].rx = Append(@, p.unit)]
    BY <1>6 DEF RecvDataStart
  <2>3. e \in Registers /\ e.fsm = "RECV_DATA_START" /\ e.rcvd = 0 /\ e.exp = p.size
        /\ e.call = m.call /\ e.count = m.count /\ e.rank = m.rank
    BY <1>1, <1>3, <2>1 DEF Registers
  <2> HIDE DEF e
  <2>4. w.state = "RECV_READ_DATA" /\ f.feedback = << >> /\ NoData(f, d)
    BY <1>5, <1>6
  <2>5. /\ mpe'[n].call = m.call /\ mpe'[n].count = m.count /\ mpe'[n].rank = m.rank
        /\ mpe'[n].rcvd = 1 /\ mpe'[n].exp = p.size
        /\ \/ 1 >= p.size /\ mpe'[n].fsm = "RECV_DATA_WRD"
           \/ /\ 1 < p.size /\ mpe'[n].fsm = "RECV_DATA_START"
              /\ mpe'[n].started /\ mpe'[n].more
    BY <2>2, <2>3, PayloadFields
  <2>6. /\ fifo'[n].expLen = Append(f.expLen, p.size) /\ fifo'[n].rx = Append(f.rx, p.unit)
        /\ fifo'[n].mpiif = f.mpiif /\ fifo'[n].mpiData = f.mpiData
        /\ fifo'[n].feedback = f.feedback
        /\ fifo'[n].recvDone = f.recvDone /\ fifo'[n].appData = f.appData
    BY <1>1, <2>2 DEF MpeTypeOK, Fifos
  <2>7. fifo'[n].expLen = <<p.size>> /\ Len(fifo'[n].rx) = 1 /\ fifo'[n].rx \in Seq(Unit)
    BY <2>1, <2>4, <2>6 DEF NoData, Clean
  <2>8. OnTheWay(fifo'[n], d, w, 1, p.size)
    BY <2>4, <2>6, <2>7 DEF OnTheWay, NoData, Clean
  <2>9. Receiving(mpe'[n], fifo'[n], d, w, op)
    BY <1>4, <2>1, <2>5, <2>6, <2>8 DEF Receiving
  <2> QED BY <1>2, <2>9 DEF HandOverAt, HandOver
<1>7. CASE ~wanted
  <2>1. mpe' = [mpe EXCEPT ![n].cache = CacheWith(n, p)] /\ fifo' = fifo
    BY <1>7 DEF RecvDataStart
  <2>2. /\ mpe'[n].fsm = m.fsm /\ mpe'[n].call = m.call /\ mpe'[n].count = m.count
        /\ mpe'[n].rank = m.rank /\ mpe'[n].started = m.started /\ mpe'[n].more = m.more
        /\ mpe'[n].rcvd = m.rcvd /\ mpe'[n].exp = m.exp
    BY <1>1, <2>1 DEF MpeTypeOK, Registers
  <2>3. Receiving(mpe'[n], f, d, w, op)
    BY <1>3, <1>4, <1>5, <2>2 DEF Receiving
  <2> QED BY <1>2, <2>1, <2>3 DEF HandOverAt, HandOver
<1> QED BY <1>6, <1>7

LEMMA RecvDataMoreHandOver ==
  ASSUME MpeTypeOK, NetworkTypeOK, NEW n \in Fpga, NEW s \in Rank,
         NEW i \in Arriving(<<s, n>>), HandOverAt(n), RecvDataMore(n, s, i)
  PROVE  HandOverAt(n)'
<1> DEFINE m == mpe[n]
           f == fifo[n]
           d == deq[n]
           w == wrap[n]
           op == CurrentOp(n)
           p == net[<<s, n>>][i]
           unit == IF HasHeader(p) THEN Junk ELSE p.unit
<1>1. m \in Registers /\ f \in Fifos /\ d \in DeqRegisters /\ w \in Wrappers
  BY Local
<1>2. CurrentOp(n)' = op /\ deq' = deq /\ wrap' = wrap
  BY DEF RecvDataMore, CurrentOp, Position
<1>3. m.fsm = "RECV_DATA_START" /\ m.more
  BY DEF RecvDataMore, In
<1>4. /\ Receiving(m, f, d, w, op) /\ f.mpiif = << >> /\ f.mpiData = << >>
      /\ op.call \in RecvCalls /\ m.call = op.call /\ m.count = op.count /\ m.rank = op.peer
  BY <1>3 DEF HandOverAt, HandOver, Resting, Sending, Receiving
<1>5. m.rcvd < m.exp /\ OnTheWay(f, d, w, m.rcvd, m.exp) /\ m.rcvd \in Nat /\ m.exp \in Nat
  BY <1>1, <1>3, <1>4 DEF Receiving, Stuck, Registers
<1>6. Payload2App(n, m) /\ fifo' = [fifo EXCEPT ![n].rx = Append(@, unit)]
  BY DEF RecvDataMore
<1>7. /\ mpe'[n].call = m.call /\ mpe'[n].count = m.count /\ mpe'[n].rank = m.rank
      /\ mpe'[n].rcvd = m.rcvd + 1 /\ mpe'[n].exp = m.exp
      /\ \/ m.rcvd + 1 >= m.exp /\ mpe'[n].fsm = "RECV_DATA_WRD"
         \/ /\ m.rcvd + 1 < m.exp /\ mpe'[n].fsm = "RECV_DATA_START"
            /\ mpe'[n].started /\ mpe'[n].more
  BY <1>1, <1>3, <1>6, PayloadFields
<1>8. /\ fifo'[n].rx = Append(f.rx, unit) /\ fifo'[n].expLen = f.expLen
      /\ fifo'[n].mpiif = f.mpiif /\ fifo'[n].mpiData = f.mpiData
      /\ fifo'[n].feedback = f.feedback
      /\ fifo'[n].recvDone = f.recvDone /\ fifo'[n].appData = f.appData
  BY <1>1, <1>6 DEF MpeTypeOK, Fifos
<1>9. Len(fifo'[n].rx) = Len(f.rx) + 1 /\ Len(f.rx) \in Nat /\ fifo'[n].rx \in Seq(Unit)
  <2>1. f.rx \in Seq(Unit)
    BY <1>5 DEF OnTheWay
  <2>2. p \in Packet
    BY PacketType DEF RecvDataMore
  <2>3. unit \in Unit
    BY <2>2 DEF Packet, Junk, Unit
  <2> HIDE DEF unit, f
  <2> QED BY <1>8, <2>1, <2>3, AppendOf
<1>10. d.cnt \in Nat
  BY <1>1 DEF DeqRegisters
<1> HIDE DEF m, f, d, w, op, unit
<1>11. OnTheWay(fifo'[n], d, w, m.rcvd + 1, m.exp)
  <2>1. f.recvDone = 0 /\ w.state = "RECV_READ_DATA" /\ f.feedback = << >>
    BY <1>5 DEF OnTheWay
  <2>2. CASE /\ f.expLen = <<m.exp>> /\ d.state = "DEQ_IDLE" /\ f.appData = << >>
             /\ Len(f.rx) = m.rcvd
    BY <1>5, <1>8, <1>9, <2>1, <2>2 DEF OnTheWay
  <2>3. CASE /\ f.expLen = << >> /\ d.state = "DEQ_WRITE" /\ d.exp = m.exp
             /\ d.cnt + Len(f.rx) = m.rcvd /\ (d.cnt = 0 \/ d.cnt < m.exp)
             /\ \A j \in 1 .. Len(f.appData) : ~f.appData[j].tlast
    <3>1. d.cnt + Len(fifo'[n].rx) = m.rcvd + 1
      BY <1>9, <1>10, <1>5, <2>3
    <3>2. m.rcvd + 1 > 0 /\ m.rcvd + 1 <= m.exp
      BY <1>5
    <3> QED BY <1>8, <1>9, <2>1, <2>3, <3>1, <3>2 DEF OnTheWay
  <2> QED BY <1>5, <2>2, <2>3 DEF OnTheWay
<1>12. Receiving(mpe'[n], fifo'[n], d, w, op)
  <2>1. OnTheWay(fifo'[n], d, w, mpe'[n].rcvd, mpe'[n].exp)
    BY <1>7, <1>11
  <2>2. mpe'[n].rcvd >= mpe'[n].exp \/ mpe'[n].rcvd < mpe'[n].exp
    BY <1>5, <1>7
  <2> QED BY <1>4, <1>7, <1>8, <2>1 DEF Receiving
<1> QED BY <1>2, <1>12 DEF HandOverAt, HandOver, d, w, op

LEMMA RecvDataTimeoutHandOver ==
  ASSUME MpeTypeOK, NEW n \in Fpga, HandOverAt(n), ~mpe[n].started, RecvDataTimeout(n)
  PROVE  HandOverAt(n)'
<1>1. mpe[n] \in Registers /\ fifo[n] \in Fifos
  BY Local
<1>2. mpe[n].fsm = "RECV_DATA_START" /\ ~mpe[n].started
  BY DEF RecvDataTimeout, In
<1>3. /\ mpe'[n].call = mpe[n].call /\ mpe'[n].count = mpe[n].count /\ mpe'[n].rank = mpe[n].rank
      /\ mpe'[n].fsm = "ASSEMBLE_CLEAR"
  BY <1>1, <1>2 DEF RecvDataTimeout, MpeTypeOK, Registers
<1>4. HandOver(mpe'[n], fifo[n], deq[n], wrap[n], CurrentOp(n))
  BY <1>2, <1>3 DEF HandOverAt, HandOver, Resting, Sending, Receiving, Stuck
<1> QED BY <1>2, <1>4, RegistersHandOver DEF RecvDataTimeout

LEMMA RecvDataDoneHandOver ==
  ASSUME MpeTypeOK, NEW n \in Fpga, HandOverAt(n), RecvDataDone(n)
  PROVE  HandOverAt(n)'
<1> DEFINE m == mpe[n]
           f == fifo[n]
           d == deq[n]
           w == wrap[n]
           op == CurrentOp(n)
<1>1. m \in Registers /\ f \in Fifos
  BY Local
<1>2. CurrentOp(n)' = op /\ deq' = deq /\ wrap' = wrap
  BY DEF RecvDataDone, CurrentOp, Position
<1>3. m.fsm = "RECV_DATA_WRD" /\ f.recvDone > 0
  BY DEF RecvDataDone, In
<1>4. /\ Receiving(m, f, d, w, op) /\ f.mpiif = << >> /\ f.recvDone = 1
      /\ f.feedback = << >> /\ PassedOn(f, d, w)
  BY <1>3 DEF HandOverAt, HandOver, Resting, Sending, Receiving, OnTheWay, Stuck
<1>5. /\ mpe'[n].call = m.call /\ mpe'[n].count = m.count /\ mpe'[n].rank = m.rank
      /\ mpe'[n].fsm = "SEND_ACK"
  BY <1>1 DEF RecvDataDone, MpeTypeOK, Registers
<1>6. /\ fifo'[n].recvDone = 0 /\ fifo'[n].feedback = f.feedback
      /\ fifo'[n].mpiData = f.mpiData /\ fifo'[n].mpiif = f.mpiif /\ fifo'[n].rx = f.rx
      /\ fifo'[n].expLen = f.expLen /\ fifo'[n].appData = f.appData
  BY <1>1, <1>4 DEF RecvDataDone, MpeTypeOK, Fifos
<1>7. PassedOn(fifo'[n], d, w)
  BY <1>4, <1>6 DEF PassedOn
<1>8. Receiving(mpe'[n], fifo'[n], d, w, op)
  BY <1>4, <1>5, <1>6, <1>7 DEF Receiving
<1> QED BY <1>2, <1>8 DEF HandOverAt, HandOver

LEMMA SendAckHandOver ==
  ASSUME MpeTypeOK, NEW n \in Fpga, HandOverAt(n), SendAck(n)
  PROVE  HandOverAt(n)'
<1> DEFINE m == mpe[n]
           f == fifo[n]
           d == deq[n]
           w == wrap[n]
           op == CurrentOp(n)
<1>1. m \in Registers /\ f \in Fifos /\ d \in DeqRegisters /\ w \in Wrappers
  BY Local
<1>2. CurrentOp(n)' = op /\ deq' = deq /\ wrap' = wrap
  BY DEF SendAck, CurrentOp, Position
<1>3. m.fsm = "SEND_ACK"
  BY DEF SendAck, In
<1>4. /\ Receiving(m, f, d, w, op) /\ f.recvDone = 0 /\ f.feedback = << >> /\ f.mpiif = << >>
      /\ PassedOn(f, d, w)
  BY <1>3 DEF HandOverAt, HandOver, Resting, Sending, Receiving, Stuck
<1>5. /\ mpe'[n].call = m.call /\ mpe'[n].count = m.count /\ mpe'[n].rank = m.rank
      /\ mpe'[n].fsm = "IDLE"
  BY <1>1 DEF SendAck, MpeTypeOK, Registers
<1>6. /\ fifo'[n].feedback = Append(f.feedback, "OK") /\ fifo'[n].mpiData = f.mpiData
      /\ fifo'[n].mpiif = f.mpiif /\ fifo'[n].rx = f.rx /\ fifo'[n].expLen = f.expLen
      /\ fifo'[n].recvDone = f.recvDone /\ fifo'[n].appData = f.appData
  BY <1>1 DEF SendAck, MpeTypeOK, Fifos
<1>7. fifo'[n].feedback = <<"OK">>
  BY <1>4, <1>6
<1>8. PassedOn(fifo'[n], d, w)
  BY <1>4, <1>6 DEF PassedOn
<1>9. Receiving(mpe'[n], fifo'[n], d, w, op)
  BY <1>3, <1>4, <1>5, <1>6, <1>7, <1>8 DEF Receiving
<1> QED BY <1>2, <1>9 DEF HandOverAt, HandOver

(* pDeqSend and pDeqRecv *)

LEMMA DeqSendHandOver ==
  ASSUME MpeTypeOK, NEW n \in Fpga, HandOverAt(n), DeqSend(n)
  PROVE  HandOverAt(n)'
<1>1. fifo[n] \in Fifos /\ mpe' = mpe
  BY Local DEF DeqSend
<1>2. /\ fifo'[n].mpiif = fifo[n].mpiif /\ fifo'[n].mpiData = fifo[n].mpiData
      /\ fifo'[n].feedback = fifo[n].feedback /\ fifo'[n].rx = fifo[n].rx
      /\ fifo'[n].expLen = fifo[n].expLen /\ fifo'[n].recvDone = fifo[n].recvDone
      /\ fifo'[n].appData = fifo[n].appData
  BY <1>1 DEF DeqSend, MpeTypeOK, Fifos
<1> QED BY <1>1, <1>2, RegistersHandOver DEF DeqSend, HandOverAt

LEMMA DeqRecvStartHandOver ==
  ASSUME MpeTypeOK, NEW n \in Fpga, HandOverAt(n), DeqRecvStart(n)
  PROVE  HandOverAt(n)'
<1> DEFINE m == mpe[n]
           f == fifo[n]
           d == deq[n]
           w == wrap[n]
           op == CurrentOp(n)
<1>1. m \in Registers /\ f \in Fifos /\ d \in DeqRegisters /\ w \in Wrappers
  BY Local
<1>2. CurrentOp(n)' = op /\ mpe' = mpe /\ wrap' = wrap
  BY DEF DeqRecvStart, CurrentOp, Position
<1>3. d.state = "DEQ_IDLE" /\ f.expLen # << >>
  BY DEF DeqRecvStart
<1>4. /\ Receiving(m, f, d, w, op) /\ f.mpiif = << >> /\ f.mpiData = << >>
      /\ op.call \in RecvCalls /\ m.call = op.call /\ m.count = op.count /\ m.rank = op.peer
      /\ OnTheWay(f, d, w, m.rcvd, m.exp)
      /\ \/ m.fsm = "RECV_DATA_START" /\ m.started /\ m.more /\ m.rcvd < m.exp
         \/ m.fsm = "RECV_DATA_WRD" /\ m.rcvd >= m.exp
  BY <1>3 DEF HandOverAt, HandOver, Resting, Sending, Receiving, NoData, Clean, PassedOn, Stuck
<1>5. /\ f.recvDone = 0 /\ w.state = "RECV_READ_DATA" /\ f.feedback = << >>
      /\ m.rcvd > 0 /\ (m.rcvd = 1 \/ m.rcvd <= m.exp)
      /\ f.expLen = <<m.exp>> /\ f.appData = << >> /\ Len(f.rx) = m.rcvd /\ f.rx \in Seq(Unit)
  BY <1>3, <1>4 DEF OnTheWay
<1>6. Head(f.expLen) = m.exp /\ Tail(f.expLen) = << >>
  BY <1>5
<1>7. deq'[n].state = "DEQ_WRITE" /\ deq'[n].exp = m.exp /\ deq'[n].cnt = 0
  BY <1>6 DEF DeqRecvStart, MpeTypeOK
<1>8. /\ fifo'[n].expLen = << >> /\ fifo'[n].rx = f.rx
      /\ fifo'[n].mpiif = f.mpiif /\ fifo'[n].mpiData = f.mpiData
      /\ fifo'[n].feedback = f.feedback
      /\ fifo'[n].recvDone = f.recvDone /\ fifo'[n].appData = f.appData
  BY <1>1, <1>6 DEF DeqRecvStart, MpeTypeOK, Fifos
<1>9. OnTheWay(fifo'[n], deq'[n], w, m.rcvd, m.exp)
  <2>1. deq'[n].cnt + Len(fifo'[n].rx) = m.rcvd
    BY <1>1, <1>5, <1>7, <1>8 DEF Registers
  <2> QED BY <1>5, <1>7, <1>8, <2>1 DEF OnTheWay
<1>10. Receiving(m, fifo'[n], deq'[n], w, op)
  BY <1>4, <1>5, <1>8, <1>9 DEF Receiving
<1> QED BY <1>2, <1>10 DEF HandOverAt, HandOver

LEMMA DeqRecvWriteHandOver ==
  ASSUME MpeTypeOK, NEW n \in Fpga, HandOverAt(n), DeqRecvWrite(n)
  PROVE  HandOverAt(n)'
<1> DEFINE m == mpe[n]
           f == fifo[n]
           d == deq[n]
           w == wrap[n]
           op == CurrentOp(n)
           last == d.cnt + 1 >= d.exp
           x == [unit |-> Head(f.rx), tlast |-> last]
<1>1. m \in Registers /\ f \in Fifos /\ d \in DeqRegisters /\ w \in Wrappers
  BY Local
<1>2. CurrentOp(n)' = op /\ mpe' = mpe /\ wrap' = wrap
  BY DEF DeqRecvWrite, CurrentOp, Position
<1>3. d.state = "DEQ_WRITE" /\ f.rx # << >>
  BY DEF DeqRecvWrite
<1>4. /\ Receiving(m, f, d, w, op) /\ f.mpiif = << >> /\ f.mpiData = << >>
      /\ op.call \in RecvCalls /\ m.call = op.call /\ m.count = op.count /\ m.rank = op.peer
      /\ OnTheWay(f, d, w, m.rcvd, m.exp)
      /\ \/ m.fsm = "RECV_DATA_START" /\ m.started /\ m.more /\ m.rcvd < m.exp
         \/ m.fsm = "RECV_DATA_WRD" /\ m.rcvd >= m.exp
  BY <1>3 DEF HandOverAt, HandOver, Resting, Sending, Receiving, NoData, Clean, PassedOn, Stuck
<1>5. /\ f.recvDone = 0 /\ w.state = "RECV_READ_DATA" /\ f.feedback = << >>
      /\ m.rcvd > 0 /\ (m.rcvd = 1 \/ m.rcvd <= m.exp)
      /\ f.expLen = << >> /\ d.exp = m.exp /\ d.cnt + Len(f.rx) = m.rcvd
      /\ (d.cnt = 0 \/ d.cnt < m.exp) /\ f.rx \in Seq(Unit)
      /\ \A j \in 1 .. Len(f.appData) : ~f.appData[j].tlast
  BY <1>3, <1>4 DEF OnTheWay
<1>6. /\ Len(f.rx) \in Nat \ {0} /\ Len(Tail(f.rx)) = Len(f.rx) - 1
      /\ Head(f.rx) \in Unit /\ Tail(f.rx) \in Seq(Unit)
      /\ Len(Tail(f.rx)) = 0 => Tail(f.rx) = << >>
  BY <1>3, <1>5, TailOf
<1>7. /\ Append(f.appData, x) # << >> /\ Len(Append(f.appData, x)) = Len(f.appData) + 1
      /\ Len(f.appData) \in Nat
      /\ \A j \in 1 .. Len(f.appData) : Append(f.appData, x)[j] = f.appData[j]
      /\ Append(f.appData, x)[Len(f.appData) + 1] = x
  <2>1. f.appData \in Seq(RxEntry) /\ x \in RxEntry
    BY <1>1, <1>6 DEF Fifos, RxEntry
  <2> HIDE DEF x
  <2> QED BY <2>1, AppendOf
<1>8. m.rcvd \in Nat /\ m.exp \in Nat /\ d.cnt \in Nat /\ d.exp \in Nat
  BY <1>1 DEF Registers, DeqRegisters
<1>9. /\ fifo'[n].expLen = f.expLen /\ fifo'[n].rx = Tail(f.rx)
      /\ fifo'[n].mpiif = f.mpiif /\ fifo'[n].mpiData = f.mpiData
      /\ fifo'[n].feedback = f.feedback /\ fifo'[n].appData = Append(f.appData, x)
      /\ fifo'[n].recvDone = IF last THEN f.recvDone + 1 ELSE f.recvDone
  BY <1>1 DEF DeqRecvWrite, MpeTypeOK, Fifos
<1>10. /\ deq'[n].cnt = d.cnt + 1 /\ deq'[n].exp = d.exp
       /\ deq'[n].state = IF last THEN "DEQ_IDLE" ELSE d.state
  BY <1>1 DEF DeqRecvWrite, MpeTypeOK, DeqRegisters
<1>11. x.tlast = last
  OBVIOUS
<1> HIDE DEF m, f, d, w, op, x
<1>12. CASE last
  <2>1. m.fsm = "RECV_DATA_WRD" /\ m.rcvd >= m.exp /\ Len(f.rx) = 1
    <3>1. d.cnt + 1 >= m.exp /\ d.cnt + Len(f.rx) = m.rcvd
      BY <1>5, <1>12
    <3>2. m.rcvd >= m.exp
      BY <1>6, <1>8, <3>1
    <3>3. m.fsm = "RECV_DATA_WRD"
      BY <1>4, <1>8, <3>2
    <3>6. Len(f.rx) = 1
      BY <1>5, <1>6, <1>8, <3>1, OneMore
    <3> QED BY <3>2, <3>3, <3>6
  <2>2. fifo'[n].rx = << >> /\ fifo'[n].recvDone = 1 /\ deq'[n].state = "DEQ_IDLE"
    <3>1. fifo'[n].rx = << >>
      BY <1>6, <1>9, <2>1
    <3>2. fifo'[n].recvDone = f.recvDone + 1 /\ f.recvDone = 0
      BY <1>5, <1>9, <1>12
    <3>3. deq'[n].state = "DEQ_IDLE"
      BY <1>10, <1>12
    <3> QED BY <3>1, <3>2, <3>3
  <2>3. \A j \in 1 .. Len(fifo'[n].appData) :
          fifo'[n].appData[j].tlast <=> j = Len(fifo'[n].appData)
    <3> SUFFICES ASSUME NEW j \in 1 .. Len(f.appData) + 1
                 PROVE  Append(f.appData, x)[j].tlast <=> j = Len(f.appData) + 1
      BY <1>7, <1>9
    <3>1. CASE j \in 1 .. Len(f.appData)
      <4>1. j # Len(f.appData) + 1
        BY <1>7, <3>1
      <4>2. ~Append(f.appData, x)[j].tlast
        BY <1>5, <1>7, <3>1
      <4> QED BY <4>1, <4>2
    <3>2. CASE j = Len(f.appData) + 1
      BY <1>7, <1>11, <1>12, <3>2
    <3> QED BY <1>7, <3>1, <3>2
  <2>4. PassedOn(fifo'[n], deq'[n], w)
    BY <1>5, <1>7, <1>9, <2>2, <2>3 DEF PassedOn
  <2>5. Receiving(m, fifo'[n], deq'[n], w, op)
    BY <1>4, <1>5, <1>9, <2>1, <2>2, <2>4 DEF Receiving
  <2> QED BY <1>2, <2>5 DEF HandOverAt, HandOver, m, w, op
<1>13. CASE ~last
  <2>1. /\ deq'[n].state = "DEQ_WRITE" /\ fifo'[n].recvDone = 0
        /\ deq'[n].cnt < m.exp /\ deq'[n].exp = m.exp
        /\ deq'[n].cnt + Len(fifo'[n].rx) = m.rcvd
    <3>1. deq'[n].cnt = d.cnt + 1 /\ Len(fifo'[n].rx) = Len(f.rx) - 1
      BY <1>6, <1>9, <1>10
    <3>2. deq'[n].cnt < m.exp /\ deq'[n].cnt + Len(fifo'[n].rx) = m.rcvd
      <4>1. ~(d.cnt + 1 >= m.exp) /\ (m.rcvd = 1 \/ m.rcvd <= m.exp) /\ d.cnt + Len(f.rx) = m.rcvd
        BY <1>5, <1>13
      <4>2. Len(f.rx) \in Nat
        BY <1>6
      <4>3. d.cnt + 1 < m.exp
        BY <1>8, <4>1
      <4>4. (d.cnt + 1) + (Len(f.rx) - 1) = m.rcvd
        BY <1>8, <4>1, <4>2
      <4> QED BY <3>1, <4>3, <4>4
    <3>3. deq'[n].state = "DEQ_WRITE" /\ fifo'[n].recvDone = 0 /\ deq'[n].exp = m.exp
      BY <1>3, <1>5, <1>9, <1>10, <1>13 DEF d
    <3> QED BY <3>2, <3>3
  <2>2. \A j \in 1 .. Len(fifo'[n].appData) : ~fifo'[n].appData[j].tlast
    <3> SUFFICES ASSUME NEW j \in 1 .. Len(f.appData) + 1
                 PROVE  ~Append(f.appData, x)[j].tlast
      BY <1>7, <1>9
    <3>1. CASE j \in 1 .. Len(f.appData)
      BY <1>5, <1>7, <3>1
    <3>2. CASE j = Len(f.appData) + 1
      BY <1>7, <1>11, <1>13, <3>2
    <3> QED BY <1>7, <3>1, <3>2
  <2>3. OnTheWay(fifo'[n], deq'[n], w, m.rcvd, m.exp)
    BY <1>5, <1>6, <1>9, <2>1, <2>2 DEF OnTheWay
  <2>4. Receiving(m, fifo'[n], deq'[n], w, op)
    BY <1>4, <1>9, <2>3 DEF Receiving
  <2> QED BY <1>2, <2>4 DEF HandOverAt, HandOver, m, w, op
<1> QED BY <1>12, <1>13

(* As long as no receive gives up, there is no poison pill.                *)
LEMMA PoisonIsNoUnit == Poison \notin Unit
BY DEF Poison, Unit

LEMMA OnlyUnits ==
  ASSUME NEW n \in Fpga, HandOverAt(n)
  PROVE  fifo[n].rx \in Seq(Unit)
<1>1. << >> \in Seq(Unit)
  OBVIOUS
<1> QED BY <1>1 DEF HandOverAt, HandOver, Resting, Sending, Receiving, NoData, Clean, OnTheWay,
                    PassedOn, Stuck

LEMMA NoPoison ==
  ASSUME NEW n \in Fpga, HandOverAt(n)
  PROVE  ~DeqRecvPoison(n)
<1> SUFFICES ASSUME DeqRecvPoison(n)
             PROVE  FALSE
  OBVIOUS
<1>1. fifo[n].rx # << >> /\ Head(fifo[n].rx) = Poison
  BY DEF DeqRecvPoison
<1> QED BY <1>1, OnlyUnits, TailOf, PoisonIsNoUnit

(* The wrapper *)

LEMMA WriteInfoHandOver ==
  ASSUME MpeTypeOK, ApplicationTypeOK, NEW n \in Fpga, HandOverAt(n), WriteInfo(n)
  PROVE  HandOverAt(n)'
<1> DEFINE m == mpe[n]
           f == fifo[n]
           d == deq[n]
           w == wrap[n]
           op == CurrentOp(n)
           info == [call |-> op.call, count |-> op.count, rank |-> op.peer]
<1>1. m \in Registers /\ f \in Fifos /\ d \in DeqRegisters /\ w \in Wrappers
  BY Local
<1>2. CurrentOp(n)' = op /\ deq' = deq /\ mpe' = mpe
  BY DEF WriteInfo, CurrentOp, Position
<1>3. w.state = "READY" /\ Running(n)
  BY DEF WriteInfo
<1>4. op.call \in SendCalls \/ op.call \in RecvCalls
  <2>1. op \in Op
    BY <1>3, Local, CurrentOpType
  <2> QED BY <2>1 DEF Op, Calls
<1>5. Resting(m, f, d, w)
  BY <1>3 DEF HandOverAt, HandOver, Sending, Receiving, OnTheWay, PassedOn, Stuck
<1>6. /\ m.fsm \in {"MPE_RESET", "IDLE"}
      /\ f.mpiif = << >> /\ f.mpiData = << >> /\ f.feedback = << >> /\ NoData(f, d)
  BY <1>5 DEF Resting
<1>7. /\ fifo'[n].mpiif = Append(f.mpiif, info)
      /\ fifo'[n].rx = f.rx /\ fifo'[n].expLen = f.expLen
      /\ fifo'[n].mpiData = f.mpiData /\ fifo'[n].feedback = f.feedback
      /\ fifo'[n].recvDone = f.recvDone /\ fifo'[n].appData = f.appData
      /\ wrap'[n].state = IF op.call \in SendCalls THEN "SEND_WRITE_DATA" ELSE "RECV_READ_DATA"
  BY <1>1 DEF WriteInfo, MpeTypeOK, Fifos
<1>8. fifo'[n].mpiif = <<info>>
  BY <1>6, <1>7
<1>9. NoData(fifo'[n], d)
  BY <1>6, <1>7 DEF NoData, Clean
<1>10. CASE op.call \in SendCalls
  <2>1. Offered(fifo'[n], wrap'[n], op.count)
    BY <1>6, <1>7, <1>10 DEF Offered
  <2>2. Sending(m, fifo'[n], d, wrap'[n], op)
    BY <1>6, <1>7, <1>8, <1>9, <1>10, <2>1 DEF Sending
  <2> QED BY <1>2, <2>2 DEF HandOverAt, HandOver
<1>11. CASE op.call \notin SendCalls
  <2>1. Receiving(m, fifo'[n], d, wrap'[n], op)
    BY <1>4, <1>6, <1>7, <1>8, <1>9, <1>11 DEF Receiving
  <2> QED BY <1>2, <2>1 DEF HandOverAt, HandOver
<1> QED BY <1>10, <1>11

LEMMA SendWriteDataHandOver ==
  ASSUME MpeTypeOK, ApplicationTypeOK, WrapperBusy, NEW n \in Fpga, HandOverAt(n),
         SendWriteData(n)
  PROVE  HandOverAt(n)'
<1> DEFINE m == mpe[n]
           f == fifo[n]
           d == deq[n]
           w == wrap[n]
           op == CurrentOp(n)
           data == Payload(n, Position(n))
<1>1. m \in Registers /\ f \in Fifos /\ d \in DeqRegisters /\ w \in Wrappers
  BY Local
<1>2. CurrentOp(n)' = op /\ deq' = deq /\ mpe' = mpe
  BY DEF SendWriteData, CurrentOp, Position
<1>3. w.state = "SEND_WRITE_DATA"
  BY DEF SendWriteData
<1>4. op.count \in Nat /\ data \in Seq(Unit) /\ Len(data) = op.count
  <2>1. Running(n)
    BY <1>3 DEF WrapperBusy
  <2>2. op \in Op /\ Position(n) \in DOMAIN Program[n]
    BY <2>1, Local, CurrentOpType, ProgramAssumption DEF Running
  <2>3. data \in Seq(Unit)
    BY <2>2, Local, PayloadType
  <2> QED BY <2>2, <2>3 DEF Payload, Op, CurrentOp
<1>5. /\ Sending(m, f, d, w, op) /\ NoData(f, d) /\ op.call \in SendCalls
      /\ f.feedback = << >> /\ f.mpiData = << >>
  <2>1. Sending(m, f, d, w, op) /\ Offered(f, w, op.count)
    BY <1>3 DEF HandOverAt, HandOver, Resting, Sending, Receiving, OnTheWay, PassedOn, Stuck, ToldFail
  <2>2. Len(f.mpiData) = 0 /\ f.feedback = << >>
    BY <1>3, <2>1 DEF Offered
  <2>3. f.mpiData = << >>
    BY <1>1, <2>2 DEF Fifos
  <2> QED BY <2>1, <2>2, <2>3 DEF Sending
<1>6. /\ fifo'[n].mpiData = f.mpiData \o data
      /\ fifo'[n].rx = f.rx /\ fifo'[n].expLen = f.expLen
      /\ fifo'[n].mpiif = f.mpiif /\ fifo'[n].feedback = f.feedback
      /\ fifo'[n].recvDone = f.recvDone /\ fifo'[n].appData = f.appData
      /\ wrap'[n].state = "SEND_FINISH"
  BY <1>1 DEF SendWriteData, MpeTypeOK, Fifos, Wrappers
<1> HIDE DEF data
<1>7. Len(fifo'[n].mpiData) = op.count
  BY <1>4, <1>5, <1>6
<1>8. NoData(fifo'[n], d) /\ Offered(fifo'[n], wrap'[n], op.count)
  BY <1>5, <1>6, <1>7 DEF NoData, Clean, Offered
<1>9. Sending(m, fifo'[n], d, wrap'[n], op)
  BY <1>3, <1>5, <1>6, <1>8 DEF Sending
<1> QED BY <1>2, <1>9 DEF HandOverAt, HandOver

LEMMA SendFinishHandOver ==
  ASSUME MpeTypeOK, NEW n \in Fpga, HandOverAt(n), SendFinish(n)
  PROVE  HandOverAt(n)'
<1> DEFINE m == mpe[n]
           f == fifo[n]
           d == deq[n]
           w == wrap[n]
           op == CurrentOp(n)
<1>1. m \in Registers /\ f \in Fifos /\ d \in DeqRegisters /\ w \in Wrappers
  BY Local
<1>2. deq' = deq /\ mpe' = mpe
  BY DEF SendFinish
<1>3. w.state = "SEND_FINISH" /\ f.feedback # << >>
  BY DEF SendFinish
<1>4. Sending(m, f, d, w, op) /\ f.mpiif = << >> /\ NoData(f, d)
  BY <1>3 DEF HandOverAt, HandOver, Resting, Sending, Receiving, OnTheWay, PassedOn, Stuck, Offered
<1>5. \/ ToldFail(f, w) /\ (m.fsm = "SEND_DATA_START" \/ (m.fsm = "SEND_DATA_RD" /\ m.sent = 0))
      \/ m.fsm = "IDLE" /\ f.mpiData = << >> /\ f.feedback = <<"OK">>
  <2>1. ~Offered(f, w, op.count)
    BY <1>3 DEF Offered
  <2>2. f.mpiif # <<[call |-> op.call, count |-> op.count, rank |-> op.peer]>>
    BY <1>4
  <2> HIDE DEF m, f, d, w, op
  <2> QED BY <1>3, <1>4, <2>1, <2>2 DEF Sending, f
<1>6. /\ fifo'[n].feedback = Tail(f.feedback)
      /\ fifo'[n].rx = f.rx /\ fifo'[n].expLen = f.expLen
      /\ fifo'[n].mpiData = f.mpiData /\ fifo'[n].mpiif = f.mpiif
      /\ fifo'[n].recvDone = f.recvDone /\ fifo'[n].appData = f.appData
  BY <1>1 DEF SendFinish, MpeTypeOK, Fifos
<1>7. NoData(fifo'[n], d)
  BY <1>4, <1>6 DEF NoData, Clean
<1>8. CASE m.fsm = "IDLE" /\ f.mpiData = << >> /\ f.feedback = <<"OK">>
  <2>1. Head(f.feedback) = "OK" /\ Tail(f.feedback) = << >>
    BY <1>8
  <2>2. wrap'[n].state = "READY"
    BY <1>1, <2>1 DEF SendFinish, MpeTypeOK, Wrappers
  <2>3. Resting(m, fifo'[n], d, wrap'[n])
    BY <1>4, <1>6, <1>7, <1>8, <2>1, <2>2 DEF Resting
  <2> QED BY <1>2, <2>3 DEF HandOverAt, HandOver
<1>9. CASE ToldFail(f, w) /\ (m.fsm = "SEND_DATA_START" \/ (m.fsm = "SEND_DATA_RD" /\ m.sent = 0))
  <2>1. f.mpiData = << >> /\ f.feedback = <<"FAIL">>
    BY <1>9 DEF ToldFail
  <2>2. Head(f.feedback) = "FAIL" /\ Tail(f.feedback) = << >>
    BY <2>1
  <2>3. wrap'[n].state = "SEND_WRITE_DATA" /\ got' = got
    BY <1>1, <2>2 DEF SendFinish, MpeTypeOK, Wrappers
  <2>4. CurrentOp(n)' = op
    BY <2>3 DEF CurrentOp, Position
  <2>5. Offered(fifo'[n], wrap'[n], op.count)
    BY <1>6, <2>1, <2>2, <2>3 DEF Offered
  <2>6. Sending(m, fifo'[n], d, wrap'[n], op)
    <3>1. op.call \in SendCalls /\ m.call = op.call /\ m.count = op.count /\ m.rank = op.peer
      BY <1>4, <1>9 DEF Sending
    <3> QED BY <1>4, <1>6, <1>7, <1>9, <2>3, <2>5, <3>1 DEF Sending
  <2> QED BY <1>2, <2>4, <2>6 DEF HandOverAt, HandOver
<1> QED BY <1>5, <1>8, <1>9

LEMMA RecvReadDataHandOver ==
  ASSUME MpeTypeOK, NEW n \in Fpga, HandOverAt(n), RecvReadData(n)
  PROVE  HandOverAt(n)'
<1> DEFINE m == mpe[n]
           f == fifo[n]
           d == deq[n]
           w == wrap[n]
           op == CurrentOp(n)
<1>1. m \in Registers /\ f \in Fifos /\ d \in DeqRegisters /\ w \in Wrappers
  BY Local
<1>2. CurrentOp(n)' = op /\ mpe' = mpe /\ deq' = deq
  BY DEF RecvReadData, CurrentOp, Position
<1>3. w.state = "RECV_READ_DATA" /\ f.appData # << >>
  BY DEF RecvReadData
<1>4. /\ Receiving(m, f, d, w, op) /\ f.mpiif = << >> /\ f.mpiData = << >>
      /\ op.call \in RecvCalls /\ m.call = op.call /\ m.count = op.count /\ m.rank = op.peer
      /\ \/ /\ m.fsm = "RECV_DATA_START" /\ m.started /\ m.more /\ m.rcvd < m.exp
            /\ OnTheWay(f, d, w, m.rcvd, m.exp)
         \/ /\ m.fsm = "RECV_DATA_WRD" /\ m.rcvd >= m.exp
            /\ OnTheWay(f, d, w, m.rcvd, m.exp)
         \/ /\ m.fsm = "RECV_DATA_WRD" /\ m.rcvd >= m.exp
            /\ f.recvDone = 1 /\ f.feedback = << >> /\ PassedOn(f, d, w)
         \/ m.fsm = "SEND_ACK" /\ f.recvDone = 0 /\ f.feedback = << >> /\ PassedOn(f, d, w)
         \/ m.fsm = "IDLE" /\ f.recvDone = 0 /\ f.feedback = <<"OK">> /\ PassedOn(f, d, w)
  BY <1>3 DEF HandOverAt, HandOver, Resting, Sending, Receiving, NoData, Stuck
<1>5. /\ fifo'[n].appData = Tail(f.appData)
      /\ fifo'[n].rx = f.rx /\ fifo'[n].expLen = f.expLen
      /\ fifo'[n].mpiData = f.mpiData
      /\ fifo'[n].mpiif = f.mpiif /\ fifo'[n].feedback = f.feedback
      /\ fifo'[n].recvDone = f.recvDone
      /\ wrap'[n].state = IF Head(f.appData).tlast THEN "RECV_FINISH" ELSE "RECV_READ_DATA"
  BY <1>1, <1>3 DEF RecvReadData, MpeTypeOK, Fifos, Wrappers
<1>6. /\ Len(f.appData) \in Nat \ {0} /\ Len(Tail(f.appData)) = Len(f.appData) - 1
      /\ Head(f.appData) = f.appData[1]
      /\ \A j \in 1 .. Len(Tail(f.appData)) : Tail(f.appData)[j] = f.appData[j + 1]
      /\ Len(Tail(f.appData)) = 0 => Tail(f.appData) = << >>
  <2>1. f.appData \in Seq(RxEntry)
    BY <1>1 DEF Fifos
  <2> QED BY <1>3, <2>1, TailOf
<1> HIDE DEF m, f, d, w, op
<1>7. CASE OnTheWay(f, d, w, m.rcvd, m.exp)
  <2>1. /\ f.expLen = << >> /\ d.state = "DEQ_WRITE" /\ d.exp = m.exp
        /\ d.cnt + Len(f.rx) = m.rcvd /\ (d.cnt = 0 \/ d.cnt < m.exp)
        /\ \A j \in 1 .. Len(f.appData) : ~f.appData[j].tlast
        /\ f.recvDone = 0 /\ f.feedback = << >>
        /\ m.rcvd > 0 /\ (m.rcvd = 1 \/ m.rcvd <= m.exp) /\ f.rx \in Seq(Unit)
    BY <1>3, <1>7 DEF OnTheWay, f
  <2>2. ~Head(f.appData).tlast
    BY <1>6, <2>1
  <2>3. \A j \in 1 .. Len(fifo'[n].appData) : ~fifo'[n].appData[j].tlast
    BY <1>5, <1>6, <2>1
  <2>4. wrap'[n].state = "RECV_READ_DATA"
    BY <1>5, <2>2
  <2>5. OnTheWay(fifo'[n], d, wrap'[n], m.rcvd, m.exp)
    BY <1>5, <2>1, <2>3, <2>4 DEF OnTheWay
  <2>6. \/ m.fsm = "RECV_DATA_START" /\ m.started /\ m.more /\ m.rcvd < m.exp
        \/ m.fsm = "RECV_DATA_WRD" /\ m.rcvd >= m.exp
    BY <1>4, <2>1 DEF PassedOn
  <2>7. Receiving(m, fifo'[n], d, wrap'[n], op)
    BY <1>4, <1>5, <2>5, <2>6 DEF Receiving
  <2> QED BY <1>2, <2>7 DEF HandOverAt, HandOver, m, d, op
<1>8. CASE PassedOn(f, d, w)
  <2>1. /\ f.rx = << >> /\ f.expLen = << >> /\ d.state = "DEQ_IDLE"
        /\ \A j \in 1 .. Len(f.appData) : f.appData[j].tlast <=> j = Len(f.appData)
    BY <1>3, <1>8 DEF PassedOn, f
  <2>2. f.appData[1].tlast <=> 1 = Len(f.appData)
    <3>1. 1 \in 1 .. Len(f.appData)
      BY <1>6
    <3> QED BY <2>1, <3>1, Zenon
  <2>3. ASSUME Len(f.appData) = 1 PROVE PassedOn(fifo'[n], d, wrap'[n])
    <3>1. Head(f.appData).tlast
      BY <1>6, <2>2, <2>3
    <3>2. fifo'[n].appData = << >>
      BY <1>5, <1>6, <2>3
    <3>3. wrap'[n].state = "RECV_FINISH"
      BY <1>5, <3>1
    <3>4. PassedOn(fifo'[n], d, wrap'[n])
      BY <1>5, <2>1, <3>2, <3>3 DEF PassedOn
    <3> QED BY <3>4
  <2>8. ASSUME Len(f.appData) # 1 PROVE PassedOn(fifo'[n], d, wrap'[n])
    <3>1. ~Head(f.appData).tlast
      BY <1>6, <2>2, <2>8
    <3>2. fifo'[n].appData # << >>
      <4>1. Len(fifo'[n].appData) # 0
        BY <1>5, <1>6, <2>8
      <4> QED BY <4>1
    <3>3. \A j \in 1 .. Len(fifo'[n].appData) :
            fifo'[n].appData[j].tlast <=> j = Len(fifo'[n].appData)
      BY <1>5, <1>6, <2>1
    <3>4. wrap'[n].state = "RECV_READ_DATA"
      BY <1>5, <3>1
    <3>5. PassedOn(fifo'[n], d, wrap'[n])
      BY <1>5, <2>1, <3>2, <3>3, <3>4 DEF PassedOn
    <3> QED BY <3>5
  <2>4. PassedOn(fifo'[n], d, wrap'[n])
    BY <2>3, <2>8
  <2>5. ~OnTheWay(f, d, w, m.rcvd, m.exp)
    BY <1>3, <2>1 DEF OnTheWay, f
  <2>6. Receiving(m, fifo'[n], d, wrap'[n], op)
    BY <1>4, <1>5, <2>4, <2>5 DEF Receiving
  <2> QED BY <1>2, <2>6 DEF HandOverAt, HandOver, m, d, op
<1> QED BY <1>4, <1>7, <1>8

LEMMA RecvFinishHandOver ==
  ASSUME MpeTypeOK, NEW n \in Fpga, HandOverAt(n), RecvFinish(n)
  PROVE  HandOverAt(n)'
<1> DEFINE m == mpe[n]
           f == fifo[n]
           d == deq[n]
           w == wrap[n]
           op == CurrentOp(n)
<1>1. m \in Registers /\ f \in Fifos /\ d \in DeqRegisters /\ w \in Wrappers
  BY Local
<1>2. deq' = deq /\ mpe' = mpe
  BY DEF RecvFinish
<1>3. w.state = "RECV_FINISH" /\ f.feedback # << >>
  BY DEF RecvFinish
<1>4. /\ m.fsm = "IDLE" /\ f.recvDone = 0 /\ f.feedback = <<"OK">> /\ PassedOn(f, d, w)
      /\ f.mpiif = << >> /\ f.mpiData = << >>
  BY <1>3 DEF HandOverAt, HandOver, Resting, Sending, Receiving, OnTheWay, Stuck
<1>5. NoData(f, d)
  BY <1>3, <1>4 DEF PassedOn, NoData, Clean
<1>6. /\ fifo'[n].feedback = Tail(f.feedback)
      /\ fifo'[n].rx = f.rx /\ fifo'[n].expLen = f.expLen
      /\ fifo'[n].mpiData = f.mpiData /\ fifo'[n].mpiif = f.mpiif
      /\ fifo'[n].recvDone = f.recvDone /\ fifo'[n].appData = f.appData
  BY <1>1 DEF RecvFinish, MpeTypeOK, Fifos
<1>7. NoData(fifo'[n], d)
  BY <1>5, <1>6 DEF NoData, Clean
<1>8. Head(f.feedback) = "OK" /\ Tail(f.feedback) = << >>
  BY <1>4
<1>9. wrap'[n].state = "READY"
  BY <1>1, <1>8 DEF RecvFinish, MpeTypeOK, Wrappers
<1>10. Resting(m, fifo'[n], d, wrap'[n])
  BY <1>4, <1>6, <1>7, <1>8, <1>9 DEF Resting
<1> QED BY <1>2, <1>10 DEF HandOverAt, HandOver

-----------------------------------------------------------------------------
(* A receive of rank n gives up in the middle of a message.                *)
GivesUpAt(n) == mpe[n].started /\ RecvDataTimeout(n)

LEMMA InitHandsOver == MpeInit => HandsOver
BY DEF MpeInit, HandsOver, HandOverAt, HandOver, Resting, NoData, Clean

LEMMA OwnHandOver ==
  ASSUME FpgaInv, NEW n \in Fpga, HandOverAt(n), FpgaMove(n), ~GivesUpAt(n)
  PROVE  HandOverAt(n)'
<1>1. MpeTypeOK /\ NetworkTypeOK /\ ApplicationTypeOK /\ WrapperBusy /\ AckNeverCachedAt(n)
  BY DEF FpgaInv, FpgaTypeOK, AckNeverCached
<1>2. ASSUME NEW s \in Rank, NEW i \in Arriving(<<s, n>>),
             \/ Wait4Clear(n, s, i) \/ Wait4Ack(n, s, i) \/ Wait4Req(n, s, i)
             \/ RecvDataStart(n, s, i) \/ RecvDataMore(n, s, i)
      PROVE  HandOverAt(n)'
  BY <1>1, <1>2, Wait4ClearHandOver, Wait4AckHandOver, Wait4ReqHandOver,
     RecvDataStartHandOver, RecvDataMoreHandOver
<1>3. CASE Engine(n)
  BY <1>1, <1>2, <1>3, ResetHandOver, IdleHandOver, StartSendHandOver, SendReqHandOver,
     SendDataStartHandOver, SendDataRdHandOver, SendDataWrdHandOver, StartRecvHandOver,
     AssembleClearHandOver, SendClearHandOver, RecvDataDoneHandOver, SendAckHandOver
     DEF Engine
<1>4. CASE EngineTimeout(n)
  BY <1>1, <1>4, Wait4ClearTimeoutHandOver, Wait4AckTimeoutHandOver, RecvDataTimeoutHandOver
     DEF EngineTimeout, GivesUpAt
<1>5. CASE DeqSend(n) \/ DeqRecv(n)
  BY <1>1, <1>5, DeqSendHandOver, DeqRecvStartHandOver, DeqRecvWriteHandOver, NoPoison DEF DeqRecv
<1>6. CASE Wrapper(n)
  BY <1>1, <1>6, WriteInfoHandOver, SendWriteDataHandOver, SendFinishHandOver,
     RecvReadDataHandOver, RecvFinishHandOver DEF Wrapper
<1> QED BY <1>3, <1>4, <1>5, <1>6 DEF FpgaMove, FpgaStep

(* What is the same for rank m keeps the hand-over of rank m.              *)
LEMMA SameHandOver ==
  ASSUME NEW m \in Fpga, HandOverAt(m), mpe'[m] = mpe[m], fifo'[m] = fifo[m],
         deq'[m] = deq[m], wrap'[m] = wrap[m], got'[m] = got[m]
  PROVE  HandOverAt(m)'
<1>1. CurrentOp(m)' = CurrentOp(m)
  BY DEF CurrentOp, Position
<1> QED BY <1>1 DEF HandOverAt

LEMMA DeqFrame ==
  ASSUME MpeTypeOK, NEW n \in Fpga, NEW m \in Fpga, m # n, FpgaMove(n)
  PROVE  deq'[m] = deq[m]
<1>1. CASE Engine(n) \/ EngineTimeout(n)
  BY <1>1, EngineEffect
<1>2. CASE DeqSend(n)
  BY <1>2 DEF DeqSend
<1>3. CASE DeqRecv(n)
  BY <1>3 DEF DeqRecv, DeqRecvStart, DeqRecvWrite, DeqRecvPoison, MpeTypeOK
<1>4. CASE Wrapper(n)
  BY <1>4 DEF Wrapper, WriteInfo, SendWriteData, SendFinish, RecvReadData, RecvFinish
<1> QED BY <1>1, <1>2, <1>3, <1>4 DEF FpgaMove, FpgaStep

LEMMA StepHandsOver ==
  ASSUME FpgaInv, HandsOver, NEW n \in Fpga, FpgaMove(n), ~GivesUpAt(n)
  PROVE  HandsOver'
<1>1. MpeTypeOK /\ ApplicationTypeOK
  BY DEF FpgaInv, FpgaTypeOK
<1>2. HandOverAt(n)'
  BY OwnHandOver DEF HandsOver
<1>3. ASSUME NEW m \in Fpga, m # n PROVE HandOverAt(m)'
  <2>1. mpe'[m] = mpe[m] /\ fifo'[m] = fifo[m] /\ wrap'[m] = wrap[m] /\ got'[m] = got[m]
    BY <1>1, <1>3, Frame
  <2>2. deq'[m] = deq[m]
    BY <1>1, <1>3, DeqFrame
  <2> QED BY <2>1, <2>2, SameHandOver DEF HandsOver
<1> QED BY <1>2, <1>3 DEF HandsOver

LEMMA OtherHandsOver ==
  ASSUME HandsOver, UNCHANGED mpeVars, \A n \in Fpga : got'[n] = got[n]
  PROVE  HandsOver'
BY SameHandOver DEF HandsOver, mpeVars

LEMMA HandsOverLeavesNothing == HandsOver => NothingLeftOver
<1> SUFFICES ASSUME HandsOver, NEW n \in Fpga, wrap[n].state = "READY"
             PROVE  Resting(mpe[n], fifo[n], deq[n], wrap[n])
  BY DEF NothingLeftOver, Resting, NoData, Clean
<1>1. HandOverAt(n)
  BY DEF HandsOver
<1> QED BY <1>1 DEF HandOverAt, HandOver, Sending, Receiving, OnTheWay, PassedOn, Stuck

=============================================================================
