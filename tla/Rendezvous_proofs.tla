------------------------- MODULE Rendezvous_proofs --------------------------
(***************************************************************************)
(* What the calls promise is kept, in every cluster and for every program  *)
(* of paired calls, as long as the network keeps the packets of a channel  *)
(* in order and loses none, and no timer expires.                          *)
(*                                                                         *)
(* Every step of an FPGA is a step of the hand-shake, or none; so Calm,    *)
(* the invariant of the hand-shake and what each kind of rank knows of its *)
(* own call, holds in all these behaviours.  From Calm: the calls return   *)
(* what was sent to them, and the cluster implements the rendezvous.       *)
(***************************************************************************)
EXTENDS Handshake_proofs, WellFoundedInduction

(* The FPGA ranks.                                                         *)

(* What the engine of an FPGA knows of its call when no timer has expired: *)
(* the header it waits for, the counters, the empty lines of its cache,    *)
(* the units in its FIFOs.                                                 *)
Prepared(m) ==
  /\ m.fsm = "WAIT4CLEAR" => m.expType = "CLEAR_TO_SEND"
  /\ m.fsm = "WAIT4ACK" => m.expType = "ACK"
  /\ m.fsm = "WAIT4REQ" => m.expType = "SEND_REQUEST"
  /\ m.fsm \in {"SEND_CLEAR", "RECV_DATA_START"} => m.expType = "DATA"
  /\ m.fsm \in {"WAIT4CLEAR", "WAIT4ACK", "WAIT4REQ", "SEND_CLEAR", "RECV_DATA_START"} =>
       m.expCall = PeerCall[m.call]

InCount(m) ==
  /\ m.fsm = "SEND_DATA_RD" => m.sent < m.count
  /\ m.fsm \in {"SEND_DATA_WRD", "WAIT4ACK"} => m.sent = m.count
  /\ m.fsm = "RECV_DATA_START" /\ m.more => m.dataSrc = m.rank /\ m.exp = m.count
  /\ m.fsm = "RECV_DATA_WRD" => m.exp = m.count /\ m.rcvd = m.exp

LinesEmpty(m) ==
  /\ m.fsm = "MPE_RESET" => m.cache = EmptyCache
  /\ m.fsm = "SEND_ACK" => m.cache[m.rank] = NoHeader

(* The units that the wrapper has written are the next ones of its call.   *)
InOrder(n) ==
  \A i \in 1 .. Len(fifo[n].mpiData) :
    fifo[n].mpiData[i] = <<n, Position(n), (IF In(n, "SEND_DATA_RD") THEN mpe[n].sent ELSE 0) + i>>

Addressed(n) == \A i \in 1 .. Len(fifo[n].tx) : fifo[n].tx[i].pkt.dst = mpe[n].rank

Alive(n) ==
  /\ fifo[n].mpiif = << >> => ~Stuck(mpe[n], fifo[n], deq[n], wrap[n])
  /\ fifo[n].feedback # <<"FAIL">>

(* The receive call of rank n has got no data yet.                         *)
Before(n) ==
  \/ fifo[n].mpiif # << >>
  \/ mpe[n].fsm \in {"START_RECV", "WAIT4REQ", "ASSEMBLE_CLEAR", "SEND_CLEAR"}
  \/ In(n, "RECV_DATA_START") /\ ~mpe[n].more

Took(n) ==
  /\ In(n, "RECV_DATA_WRD") \/ (In(n, "RECV_DATA_START") /\ mpe[n].more) =>
       Len(Incoming(n)) = mpe[n].rcvd
  /\ wrap[n].state = "RECV_READ_DATA" /\ Before(n) => wrap[n].data = << >>

FpgaCalm(n) ==
  /\ Prepared(mpe[n]) /\ InCount(mpe[n]) /\ LinesEmpty(mpe[n])
  /\ InOrder(n) /\ Addressed(n) /\ Alive(n) /\ Took(n)

(* What the protocol sees of an FPGA.                                      *)
LEMMA FpgaView ==
  ASSUME NEW n \in Fpga
  PROVE  /\ n \in Rank /\ n \notin Cpu
         /\ Stage(n) = StageF(n) /\ Moved(n) = MovedF(n)
         /\ Stage(n)' = StageF(n)' /\ Moved(n)' = MovedF(n)'
         /\ \A c : Named(n, c) = c
         /\ ~Finished(n) => /\ Result(n) = got[n] /\ Place(n) = Position(n)
                            /\ Now(n) = CurrentOp(n)
         /\ ~Finished(n)' => Result(n)' = got'[n]
         /\ Finished(n) => Result(n) = Append(got[n], IF CurrentOp(n).call \in SendCalls
                                                      THEN << >> ELSE Incoming(n))
         /\ Finished(n)' => Result(n)' = Append(got'[n], IF CurrentOp(n)'.call \in SendCalls
                                                         THEN << >> ELSE Incoming(n)')
<1>1. n \in Rank /\ n \notin Cpu
  BY MpeAssumption, ClusterAssumption
<1> QED BY <1>1 DEF Stage, Moved, Result, Place, Now, Position, CurrentOp, Named

(* The cache of an FPGA as the protocol sees it.                           *)
LEMMA FpgaCache ==
  ASSUME NEW n \in Fpga, NEW s
  PROVE  /\ mpe[n].fsm # "ASSEMBLE_CLEAR" \/ s # mpe[n].rank => Kept(n, s) = mpe[n].cache[s]
         /\ mpe'[n].fsm # "ASSEMBLE_CLEAR" \/ s # mpe'[n].rank =>
              Kept(n, s)' = mpe'[n].cache[s]
         /\ mpe[n].fsm = "ASSEMBLE_CLEAR" /\ s = mpe[n].rank => Kept(n, s) = NoHeader
         /\ mpe'[n].fsm = "ASSEMBLE_CLEAR" /\ s = mpe'[n].rank => Kept(n, s)' = NoHeader
BY DEF Kept

(* What an FPGA cannot change.                                             *)
LEMMA FpgaFrame ==
  ASSUME IInv, NEW n \in Fpga, FpgaStep(n), UNCHANGED cpu
  PROVE  /\ OthersStay(n)
         /\ \A d \in Rank \ {n} : \A s \in Rank : Kept(d, s)' = Kept(d, s) /\ Queue(d, s)' = Queue(d, s)
         /\ \A m \in Rank \ {n} : got'[m] = got[m]
         /\ \A m \in Fpga \ {n} : /\ mpe'[m] = mpe[m] /\ fifo'[m] = fifo[m] /\ wrap'[m] = wrap[m]
                                  /\ deq'[m] = deq[m]
<1>0. MpeTypeOK /\ ApplicationTypeOK /\ FpgaMove(n)
  BY DEF IInv, FpgaInv, FpgaTypeOK, FpgaMove
<1>1. ASSUME NEW m \in Rank, m # n PROVE got'[m] = got[m]
  BY <1>0, <1>1, FpgaReturns
<1>2. ASSUME NEW m \in Fpga, m # n
      PROVE  mpe'[m] = mpe[m] /\ fifo'[m] = fifo[m] /\ wrap'[m] = wrap[m] /\ deq'[m] = deq[m]
  BY <1>0, <1>2, Frame, DeqFrame
<1>3. ASSUME NEW m \in Rank, m # n
      PROVE  Stage(m)' = Stage(m) /\ Moved(m)' = Moved(m) /\ Result(m)' = Result(m)
             /\ \A s \in Rank : Kept(m, s)' = Kept(m, s) /\ Queue(m, s)' = Queue(m, s)
  <2>1. got'[m] = got[m] /\ Position(m)' = Position(m) /\ CurrentOp(m)' = CurrentOp(m)
    BY <1>1, <1>3 DEF Position, CurrentOp
  <2>2. CASE m \in Fpga
    <3>1. mpe'[m] = mpe[m] /\ fifo'[m] = fifo[m] /\ wrap'[m] = wrap[m]
      BY <1>2, <1>3, <2>2
    <3>2. /\ StageF(m)' = StageF(m) /\ Incoming(m)' = Incoming(m) /\ Finished(m)' = Finished(m)
      BY <3>1 DEF StageF, Incoming, Finished
    <3>3. MovedF(m)' = MovedF(m)
      BY <2>1, <3>1, <3>2 DEF MovedF
    <3>4. \A s \in Rank : Kept(m, s)' = Kept(m, s) /\ Queue(m, s)' = Queue(m, s)
      BY <2>2, <3>1 DEF Kept, Queue
    <3> QED BY <2>1, <2>2, <3>2, <3>3, <3>4 DEF Stage, Moved, Result
  <2>3. CASE m \in Cpu
    <3>1. m \notin Fpga /\ cpu'[m] = cpu[m]
      BY <2>3, ClusterAssumption
    <3>2. StageC(m)' = StageC(m) /\ MovedC(m)' = MovedC(m)
      BY <2>1, <3>1 DEF StageC, MovedC, At
    <3> QED BY <2>1, <2>3, <3>1, <3>2, CpuView DEF Kept, Queue, Stage, Moved, Result
  <2> QED BY <2>2, <2>3, ClusterAssumption
<1>4. OthersStay(n)
  BY <1>3 DEF OthersStay
<1> QED BY <1>1, <1>2, <1>3, <1>4

-----------------------------------------------------------------------------
(* The FIFO to pDeqSend and the network.                                   *)

(* Nothing is written to pDeqSend, and the engine keeps its peer.          *)
LEMMA SameQueues ==
  ASSUME IInv, NEW n \in Fpga, FpgaStep(n), UNCHANGED cpu,
         fifo'[n].tx = fifo[n].tx, mpe'[n].rank = mpe[n].rank \/ fifo[n].tx = << >>
  PROVE  QueuesStay
<1>1. ASSUME NEW d \in Rank PROVE Queue(n, d)' = Queue(n, d)
  <2>1. CASE mpe'[n].rank = mpe[n].rank
    BY <2>1 DEF Queue
  <2>2. CASE fifo[n].tx = << >>
    <3>1. [i \in 1 .. Len(fifo[n].tx) |-> fifo[n].tx[i].pkt] = << >>
      BY <2>2
    <3> QED BY <3>1 DEF Queue
  <2> QED BY <2>1, <2>2
<1>2. \A s \in Rank \ {n} : \A d \in Rank : Queue(s, d)' = Queue(s, d)
  BY FpgaFrame
<1> QED BY <1>1, <1>2 DEF QueuesStay

(* A step of an FPGA that is none of the protocol.                         *)
LEMMA FpgaStays ==
  ASSUME IInv, Unlooped, NEW n \in Fpga, FpgaStep(n), UNCHANGED cpu, UNCHANGED net,
         fifo'[n].tx = fifo[n].tx, mpe'[n].rank = mpe[n].rank \/ fifo[n].tx = << >>,
         Stage(n)' = Stage(n), Moved(n)' = Moved(n), Result(n)' = Result(n),
         \A s \in Rank : Kept(n, s)' = Kept(n, s)
  PROVE  HsStays /\ Unlooped'
<1>1. QueuesStay
  BY SameQueues
<1>2. WaysStay /\ Unlooped'
  BY <1>1, SameNet
<1>3. OthersStay(n) /\ KeptStays
  BY FpgaFrame DEF KeptStays
<1> QED BY <1>2, <1>3 DEF HsStays, OthersStay

(* The engine writes a packet for the peer of its call.                    *)
LEMMA FpgaWrites ==
  ASSUME IInv, Unlooped, NEW n \in Fpga, FpgaStep(n), UNCHANGED cpu, UNCHANGED net,
         NEW p \in Packet, NEW last \in BOOLEAN,
         fifo'[n].tx = Append(fifo[n].tx, [pkt |-> p, tlast |-> last]),
         mpe'[n].rank = mpe[n].rank
  PROVE  Gives(n, mpe[n].rank, p) /\ Unlooped'
<1> DEFINE q == mpe[n].rank
           t == fifo[n].tx
           x == [pkt |-> p, tlast |-> last]
           c == net[<<n, q>>]
           e == Queue(n, q)
<1>1. /\ n \in Rank /\ q \in Rank /\ t \in Seq(TxEntry)
  BY Local DEF IInv, FpgaInv, FpgaTypeOK, Registers, Fifos
<1>2. x \in TxEntry /\ x.pkt = p
  BY DEF TxEntry
<1>3. c \in Seq(Packet) /\ e \in Seq(Packet)
  BY <1>1, QueueType
<1>4. e = [i \in 1 .. Len(t) |-> t[i].pkt] /\ Len(e) = Len(t) /\ Len(t) \in Nat
  BY <1>1 DEF Queue
<1>5. e' = Append(e, p)
  <2> DEFINE u == Append(t, x)
  <2>1. fifo'[n].tx = u
    OBVIOUS
  <2> HIDE DEF t, x
  <2>2. /\ u \in Seq(TxEntry) /\ Len(u) = Len(t) + 1
        /\ \A j \in 1 .. Len(t) : u[j] = t[j]
        /\ u[Len(t) + 1] = x
    BY <1>1, <1>2, AppendOf
  <2>3. e' = [i \in 1 .. Len(u) |-> u[i].pkt]
    BY <1>1, <2>1 DEF Queue
  <2> HIDE DEF e, u
  <2>4. /\ Len(Append(e, p)) = Len(e) + 1 /\ Append(e, p) \in Seq(Packet)
        /\ \A j \in 1 .. Len(e) : Append(e, p)[j] = e[j]
        /\ Append(e, p)[Len(e) + 1] = p
    BY <1>3, AppendOf
  <2>5. \A j \in 1 .. Len(t) + 1 : u[j].pkt = Append(e, p)[j]
    BY <1>2, <1>4, <2>2, <2>4
  <2>6. Append(e, p) = [i \in 1 .. Len(t) + 1 |-> u[i].pkt]
    BY <1>4, <2>4, <2>5
  <2> QED BY <2>2, <2>3, <2>6
<1>6. c \o Append(e, p) = Append(c \o e, p)
  <2> HIDE DEF c, e
  <2> QED BY <1>3, AppendChain
<1>7. Way(n, q)' = Append(Way(n, q), p)
  BY <1>5, <1>6 DEF Way
<1>8. ASSUME NEW d \in Rank, d # q PROVE Way(n, d)' = Way(n, d)
  BY <1>8 DEF Way, Queue
<1>9. ASSUME NEW s \in Rank, NEW d \in Rank, s # n PROVE Way(s, d)' = Way(s, d)
  BY <1>9, FpgaFrame DEF Way
<1> HIDE DEF c, e, x, t
<1>10. Unlooped'
  BY DEF Unlooped
<1> QED BY <1>1, <1>7, <1>8, <1>9, <1>10 DEF Gives

(* The engine reads a packet.                                              *)
LEMMA FpgaReads ==
  ASSUME IInv, HsInv, Unlooped, Window = 1, NEW n \in Fpga, FpgaStep(n), UNCHANGED cpu,
         NEW s \in Rank, NEW i \in Arriving(<<s, n>>), Consume(s, n, i),
         fifo'[n].tx = fifo[n].tx, mpe'[n].rank = mpe[n].rank
  PROVE  /\ n \in Rank /\ s # n /\ Way(s, n) # << >> /\ net[<<s, n>>][i] = Head(Way(s, n))
         /\ net[<<s, n>>][i] \in Packet
         /\ Takes(n, s) /\ Unlooped' /\ OthersStay(n)
<1>1. n \in Rank /\ QueuesStay /\ OthersStay(n)
  BY FpgaFrame, FpgaView, SameQueues
<1> QED BY <1>1, Reading

-----------------------------------------------------------------------------
(* Where an FPGA is in its call.                                           *)

SendStates == {"START_SEND", "SEND_REQ", "WAIT4CLEAR", "SEND_DATA_START", "SEND_DATA_RD",
               "SEND_DATA_WRD", "WAIT4ACK"}
RecvStates == {"START_RECV", "WAIT4REQ", "ASSEMBLE_CLEAR", "SEND_CLEAR", "RECV_DATA_START",
               "RECV_DATA_WRD"}

(* The registers of the engine describe the call of the program.           *)
Current(n) ==
  /\ n \in Rank /\ n \in Nat /\ Running(n) /\ ~Finished(n)
  /\ mpe[n].rank \in Rank /\ mpe[n].rank # n
  /\ Place(n) = Position(n) /\ Now(n) = CurrentOp(n) /\ Result(n) = got[n]
  /\ Place(n) \in 1 .. Len(Program[n]) /\ Place(n) <= Len(Program[n]) /\ Place(n) \in Nat
  /\ Now(n).peer = mpe[n].rank /\ Now(n).call = mpe[n].call /\ Now(n).count = mpe[n].count
  /\ mpe[n].call \in Calls /\ mpe[n].count \in Nat \ {0}
  /\ fifo[n].mpiif = << >> /\ wrap[n].state # "READY"
  /\ mpe[n] \in Registers /\ fifo[n] \in Fifos /\ wrap[n] \in Wrappers /\ deq[n] \in DeqRegisters

(* The wrapper works on a call of the program.                             *)
LEMMA FpgaRunning ==
  ASSUME IInv, NEW n \in Fpga, wrap[n].state # "READY"
  PROVE  /\ n \in Rank /\ n \in Nat /\ Running(n) /\ Position(n) \in 1 .. Len(Program[n])
         /\ Position(n) <= Len(Program[n]) /\ Position(n) \in Nat
         /\ CurrentOp(n).peer \in Rank /\ CurrentOp(n).peer # n
         /\ CurrentOp(n).call \in Calls /\ CurrentOp(n).count \in Nat \ {0}
         /\ mpe[n] \in Registers /\ fifo[n] \in Fifos /\ wrap[n] \in Wrappers
         /\ deq[n] \in DeqRegisters
<1>1. /\ n \in Rank /\ n \in Nat /\ Running(n) /\ got[n] \in Seq(Seq(Unit))
      /\ mpe[n] \in Registers /\ fifo[n] \in Fifos /\ wrap[n] \in Wrappers
      /\ deq[n] \in DeqRegisters
  BY Local DEF IInv, FpgaInv, FpgaTypeOK, WrapperBusy, ApplicationTypeOK
<1>2. Position(n) \in Nat \ {0} /\ Len(Program[n]) \in Nat
  BY <1>1, ProgramAssumption DEF Position
<1>3. Position(n) <= Len(Program[n]) /\ Position(n) \in 1 .. Len(Program[n])
  BY <1>1, <1>2 DEF Running
<1> QED BY <1>1, <1>2, <1>3, CallType DEF CurrentOp

(* An engine that sends works on a send of the program.                    *)
LEMMA FpgaSends ==
  ASSUME IInv, NEW n \in Fpga, HandOverAt(n), FpgaCalm(n), mpe[n].fsm \in SendStates
  PROVE  /\ Current(n) /\ Now(n).call \in SendCalls
         /\ Sending(mpe[n], fifo[n], deq[n], wrap[n], CurrentOp(n))
         /\ wrap[n].state \in {"SEND_WRITE_DATA", "SEND_FINISH"}
<1> DEFINE m == mpe[n]
           f == fifo[n]
           d == deq[n]
           w == wrap[n]
           op == CurrentOp(n)
<1>0. /\ f.mpiif = << >> => ~Stuck(m, f, d, w)
      /\ m.fsm \in SendStates /\ HandOver(m, f, d, w, op)
  BY DEF FpgaCalm, Alive, HandOverAt
<1> HIDE DEF m, f, d, w, op
<1>1. /\ Sending(m, f, d, w, op) /\ f.mpiif = << >>
      /\ m.call = op.call /\ m.count = op.count /\ m.rank = op.peer
      /\ w.state \in {"SEND_WRITE_DATA", "SEND_FINISH"} /\ op.call \in SendCalls
  BY <1>0 DEF SendStates, HandOver, Resting, Sending, Receiving
<1>2. ~Finished(n)
  BY <1>0 DEF Finished, SendStates, m
<1>3. w.state # "READY"
  BY <1>1
<1> QED BY <1>1, <1>2, <1>3, FpgaRunning, FpgaView DEF Current, m, f, d, w, op

(* An engine that receives works on a receive of the program.              *)
LEMMA FpgaReceives ==
  ASSUME IInv, NEW n \in Fpga, HandOverAt(n), FpgaCalm(n), mpe[n].fsm \in RecvStates
  PROVE  /\ Current(n) /\ Now(n).call \in RecvCalls
         /\ Receiving(mpe[n], fifo[n], deq[n], wrap[n], CurrentOp(n))
         /\ wrap[n].state \in {"RECV_READ_DATA", "RECV_FINISH"}
<1> DEFINE m == mpe[n]
           f == fifo[n]
           d == deq[n]
           w == wrap[n]
           op == CurrentOp(n)
<1>0. /\ f.mpiif = << >> => ~Stuck(m, f, d, w)
      /\ m.fsm \in RecvStates /\ HandOver(m, f, d, w, op)
  BY DEF FpgaCalm, Alive, HandOverAt
<1> HIDE DEF m, f, d, w, op
<1>1. /\ Receiving(m, f, d, w, op) /\ f.mpiif = << >>
      /\ m.call = op.call /\ m.count = op.count /\ m.rank = op.peer
      /\ w.state \in {"RECV_READ_DATA", "RECV_FINISH"} /\ op.call \in RecvCalls
  BY <1>0 DEF RecvStates, HandOver, Resting, Sending, Receiving, OnTheWay, PassedOn
<1>2. ~Finished(n)
  BY <1>0 DEF Finished, RecvStates, m
<1>3. w.state # "READY"
  BY <1>1
<1> QED BY <1>1, <1>2, <1>3, FpgaRunning, FpgaView DEF Current, m, f, d, w, op

(* No unit has arrived for the receive call of rank n.                     *)
LEMMA NoneYet ==
  ASSUME IInv, NEW n \in Fpga, HandOverAt(n), FpgaCalm(n),
         \/ mpe[n].fsm \in {"START_RECV", "WAIT4REQ", "ASSEMBLE_CLEAR", "SEND_CLEAR"}
         \/ mpe[n].fsm = "RECV_DATA_START" /\ ~mpe[n].more
  PROVE  /\ wrap[n].data = << >> /\ Incoming(n) = << >> /\ wrap[n].state = "RECV_READ_DATA"
         /\ NoData(fifo[n], deq[n]) /\ fifo[n].feedback = << >>
<1> DEFINE m == mpe[n]
           f == fifo[n]
           d == deq[n]
           w == wrap[n]
           op == CurrentOp(n)
<1>1. Current(n) /\ Receiving(m, f, d, w, op)
  BY FpgaReceives DEF RecvStates
<1>2. Before(n)
  BY DEF Before, In
<1>3. w.state = "RECV_READ_DATA" /\ NoData(f, d) /\ f.feedback = << >>
  <2> HIDE DEF f, d, w, op
  <2>1. /\ f.mpiif = << >>
        /\ \/ m.fsm \in {"START_RECV", "WAIT4REQ", "ASSEMBLE_CLEAR", "SEND_CLEAR"}
           \/ m.fsm = "RECV_DATA_START" /\ ~m.more
    BY <1>1 DEF Current, f
  <2> HIDE DEF m
  <2> QED BY <1>1, <2>1 DEF Receiving, Stuck
<1>4. w.data = << >>
  BY <1>2, <1>3 DEF FpgaCalm, Took
<1>5. Incoming(n) = << >>
  <2>1. [i \in 1 .. Len(f.appData) |-> f.appData[i].unit] = << >> /\ f.rx = << >>
    BY <1>3 DEF NoData, Clean
  <2>2. << >> \o << >> = << >>
    OBVIOUS
  <2> QED BY <1>4, <2>1, <2>2 DEF Incoming
<1> QED BY <1>3, <1>4, <1>5

-----------------------------------------------------------------------------
(* What keeps an engine calm that only goes on to another state.           *)

(* The engine goes on, and the wrapper has units to send.                  *)
LEMMA CalmSending ==
  ASSUME NEW n \in Fpga, FpgaCalm(n), UNCHANGED <<deq, wrap, got>>,
         wrap[n].state # "RECV_READ_DATA",
         fifo'[n].mpiif = fifo[n].mpiif, fifo'[n].mpiData = fifo[n].mpiData,
         fifo'[n].feedback # <<"FAIL">>,
         mpe'[n].fsm \notin {"RECV_DATA_START", "RECV_DATA_WRD"}, mpe[n].fsm # "SEND_DATA_RD",
         mpe'[n].fsm = "SEND_DATA_RD" => mpe'[n].sent = 0,
         Prepared(mpe'[n]), InCount(mpe'[n]), LinesEmpty(mpe'[n]), Addressed(n)'
  PROVE  FpgaCalm(n)'
<1>1. InOrder(n)'
  <2>1. Position(n)' = Position(n)
    BY DEF Position
  <2>2. (IF In(n, "SEND_DATA_RD") THEN mpe[n].sent ELSE 0)'
          = (IF In(n, "SEND_DATA_RD") THEN mpe[n].sent ELSE 0)
    BY DEF In
  <2> QED BY <2>1, <2>2 DEF FpgaCalm, InOrder
<1>2. Alive(n)'
  BY DEF Alive, Stuck
<1>3. Took(n)'
  BY DEF Took, In
<1> QED BY <1>1, <1>2, <1>3 DEF FpgaCalm

(* The engine goes on, and nothing has come for the wrapper.               *)
LEMMA CalmReceiving ==
  ASSUME NEW n \in Fpga, FpgaCalm(n), UNCHANGED <<deq, wrap, got>>,
         fifo'[n].mpiif = fifo[n].mpiif, fifo'[n].mpiData = fifo[n].mpiData,
         fifo'[n].feedback # <<"FAIL">>,
         fifo'[n].rx = fifo[n].rx, fifo'[n].appData = fifo[n].appData,
         mpe'[n].fsm \notin {"WAIT4ACK", "SEND_DATA_START", "SEND_DATA_RD", "IDLE"},
         mpe[n].fsm # "SEND_DATA_RD",
         (mpe'[n].fsm = "RECV_DATA_WRD" \/ (mpe'[n].fsm = "RECV_DATA_START" /\ mpe'[n].more)) =>
           Len(Incoming(n)) = mpe'[n].rcvd,
         Before(n)' => Before(n),
         Prepared(mpe'[n]), InCount(mpe'[n]), LinesEmpty(mpe'[n]), Addressed(n)'
  PROVE  FpgaCalm(n)'
<1>1. InOrder(n)'
  <2>1. Position(n)' = Position(n)
    BY DEF Position
  <2>2. (IF In(n, "SEND_DATA_RD") THEN mpe[n].sent ELSE 0)'
          = (IF In(n, "SEND_DATA_RD") THEN mpe[n].sent ELSE 0)
    BY DEF In
  <2> QED BY <2>1, <2>2 DEF FpgaCalm, InOrder
<1>2. Alive(n)'
  BY DEF Alive, Stuck
<1>3. Took(n)'
  <2>1. Incoming(n)' = Incoming(n)
    BY DEF Incoming
  <2> QED BY <2>1 DEF FpgaCalm, Took, In
<1> QED BY <1>1, <1>2, <1>3 DEF FpgaCalm

(* What waits at pDeqSend is for the peer of the call.                     *)
LEMMA AddressedSame ==
  ASSUME NEW n \in Fpga, Addressed(n), fifo'[n].tx = fifo[n].tx, mpe'[n].rank = mpe[n].rank
  PROVE  Addressed(n)'
BY DEF Addressed

(* One more packet for the peer of the call.                               *)
LEMMA AddressedMore ==
  ASSUME NEW n \in Fpga, Addressed(n), fifo[n].tx \in Seq(TxEntry), NEW x \in TxEntry,
         fifo'[n].tx = Append(fifo[n].tx, x), mpe'[n].rank = mpe[n].rank,
         x.pkt.dst = mpe[n].rank
  PROVE  Addressed(n)'
<1> DEFINE t == fifo[n].tx
           u == Append(t, x)
<1>1. fifo'[n].tx = u /\ \A i \in 1 .. Len(t) : t[i].pkt.dst = mpe[n].rank
  BY DEF Addressed
<1>2. t \in Seq(TxEntry)
  OBVIOUS
<1> HIDE DEF t
<1>3. /\ Len(u) = Len(t) + 1 /\ u[Len(t) + 1] = x /\ Len(t) \in Nat
      /\ \A j \in 1 .. Len(t) : u[j] = t[j]
  BY <1>2, AppendOf
<1> HIDE DEF u
<1>4. \A j \in 1 .. Len(u) : u[j].pkt.dst = mpe[n].rank
  BY <1>1, <1>3
<1> QED BY <1>1, <1>4 DEF Addressed

-----------------------------------------------------------------------------
(* The control messages of the engine.                                     *)
LEMMA ControlWritten ==
  ASSUME IInv, NEW n \in Fpga, NEW type \in HeaderTypes,
         fifo' = [fifo EXCEPT ![n].tx = @ \o ControlMessage(n, type)]
           \/ fifo' = [fifo EXCEPT ![n].recvDone = @ - 1, ![n].tx = @ \o ControlMessage(n, type)]
  PROVE  LET p == Control(type, n, mpe[n].rank, mpe[n].call)
         IN  /\ p \in Packet /\ p.dst = mpe[n].rank
             /\ [pkt |-> p, tlast |-> TRUE] \in TxEntry
             /\ fifo'[n].tx = Append(fifo[n].tx, [pkt |-> p, tlast |-> TRUE])
             /\ fifo'[n].mpiif = fifo[n].mpiif /\ fifo'[n].mpiData = fifo[n].mpiData
             /\ fifo'[n].feedback = fifo[n].feedback /\ fifo'[n].rx = fifo[n].rx
             /\ fifo'[n].appData = fifo[n].appData
<1> DEFINE p == Control(type, n, mpe[n].rank, mpe[n].call)
           x == [pkt |-> p, tlast |-> TRUE]
<1>1. /\ n \in Rank /\ mpe[n].rank \in Rank /\ mpe[n].call \in Calls /\ fifo[n] \in Fifos
      /\ fifo \in [Fpga -> Fifos]
  BY Local DEF IInv, FpgaInv, FpgaTypeOK, MpeTypeOK, Registers
<1>2. p \in Packet
  BY <1>1, ControlType
<1>3. p.dst = mpe[n].rank
  BY DEF Control
<1>4. ControlMessage(n, type) = <<x>>
  BY DEF ControlMessage
<1> HIDE DEF p
<1>5. x \in TxEntry
  BY <1>2 DEF TxEntry
<1> HIDE DEF x
<1>6. fifo[n].tx \in Seq(TxEntry)
  BY <1>1 DEF Fifos
<1>7. fifo[n].tx \o <<x>> = Append(fifo[n].tx, x)
  BY <1>5, <1>6, AppendIsConcat
<1>8. /\ fifo'[n].tx = fifo[n].tx \o ControlMessage(n, type)
      /\ fifo'[n].mpiif = fifo[n].mpiif /\ fifo'[n].mpiData = fifo[n].mpiData
      /\ fifo'[n].feedback = fifo[n].feedback /\ fifo'[n].rx = fifo[n].rx
      /\ fifo'[n].appData = fifo[n].appData
  <2> DEFINE c == ControlMessage(n, type)
  <2> HIDE DEF c
  <2>1. CASE fifo' = [fifo EXCEPT ![n].tx = @ \o c]
    BY <1>1, <2>1 DEF Fifos, c
  <2>2. CASE fifo' = [fifo EXCEPT ![n].recvDone = @ - 1, ![n].tx = @ \o c]
    BY <1>1, <2>2 DEF Fifos, c
  <2> QED BY <2>1, <2>2 DEF c
<1> QED BY <1>2, <1>3, <1>4, <1>5, <1>7, <1>8 DEF p, x
-----------------------------------------------------------------------------
(* The engine, sending.                                                    *)

(* While the engine resets, no call has reached it.                        *)
LEMMA NoCallInReset ==
  ASSUME NEW m, NEW f, NEW d, NEW w, NEW op, HandOver(m, f, d, w, op), m.fsm = "MPE_RESET"
  PROVE  w.state = "READY" \/ f.mpiif # << >>
<1> DEFINE info == [call |-> op.call, count |-> op.count, rank |-> op.peer]
<1>1. <<info>> # << >>
  OBVIOUS
<1> QED BY <1>1 DEF HandOver, Resting, Sending, Receiving, Stuck

(* MPE_RESET: the cache is empty from the start.                           *)
LEMMA ResetHs ==
  ASSUME IInv, Unlooped, NEW n \in Fpga, HandOverAt(n), FpgaCalm(n), Reset(n), UNCHANGED cpu
  PROVE  HsStays /\ FpgaCalm(n)' /\ Unlooped'
<1>1. /\ mpe[n] \in Registers /\ mpe[n].fsm = "MPE_RESET" /\ FpgaStep(n)
      /\ n \in Rank /\ fifo' = fifo /\ deq' = deq /\ wrap' = wrap /\ got' = got /\ UNCHANGED net
  BY Local DEF IInv, FpgaInv, FpgaTypeOK, Reset, In, FpgaStep, Engine, netVars
<1>2. /\ mpe'[n].fsm = "IDLE" /\ mpe'[n].cache = EmptyCache /\ mpe[n].cache = EmptyCache
      /\ mpe'[n].rank = mpe[n].rank /\ mpe'[n].sent = mpe[n].sent
  BY <1>1 DEF Reset, IInv, FpgaInv, FpgaTypeOK, MpeTypeOK, Registers, FpgaCalm, LinesEmpty
<1>3. wrap[n].state = "READY" \/ fifo[n].mpiif # << >>
  BY <1>1, NoCallInReset DEF HandOverAt
<1>4. ~Finished(n) /\ ~Finished(n)'
  BY <1>1, <1>2, <1>3 DEF Finished
<1>5. Stage(n)' = Stage(n) /\ Moved(n)' = Moved(n) /\ Result(n)' = Result(n)
  <2>1. StageF(n)' = StageF(n) /\ MovedF(n)' = MovedF(n)
    BY <1>1, <1>2 DEF StageF, MovedF
  <2> QED BY <1>1, <1>4, <2>1, FpgaView
<1>6. \A s \in Rank : Kept(n, s)' = Kept(n, s)
  BY <1>1, <1>2, FpgaCache
<1>7. HsStays /\ Unlooped'
  BY <1>1, <1>2, <1>5, <1>6, FpgaStays
<1>8. InOrder(n)' /\ Addressed(n)' /\ Alive(n)'
  <2>1. Position(n)' = Position(n)
    BY <1>1 DEF Position
  <2>2. InOrder(n)'
    BY <1>1, <1>2, <2>1 DEF FpgaCalm, InOrder, In
  <2>3. Alive(n)'
    BY <1>1, <1>3 DEF FpgaCalm, Alive, Stuck
  <2> QED BY <1>1, <1>2, <2>2, <2>3, AddressedSame DEF FpgaCalm
<1>9. Took(n)'
  <2>1. Before(n)' => Before(n)
    BY <1>1, <1>2 DEF Before, In
  <2> QED BY <1>1, <1>2, <2>1 DEF FpgaCalm, Took, In
<1>10. Prepared(mpe'[n]) /\ InCount(mpe'[n]) /\ LinesEmpty(mpe'[n])
  BY <1>2 DEF Prepared, InCount, LinesEmpty
<1> QED BY <1>7, <1>8, <1>9, <1>10 DEF FpgaCalm

(* IDLE: the engine reads the call.                                        *)
LEMMA IdleHs ==
  ASSUME IInv, Unlooped, NEW n \in Fpga, HandOverAt(n), FpgaCalm(n), Idle(n), UNCHANGED cpu
  PROVE  HsStays /\ FpgaCalm(n)' /\ Unlooped'
<1> DEFINE info == Head(fifo[n].mpiif)
<1>1. /\ mpe[n] \in Registers /\ fifo[n] \in Fifos /\ mpe[n].fsm = "IDLE" /\ FpgaStep(n)
      /\ n \in Rank /\ deq' = deq /\ wrap' = wrap /\ got' = got /\ UNCHANGED net
      /\ fifo[n].mpiif # << >>
  BY Local DEF IInv, FpgaInv, FpgaTypeOK, Idle, In, FpgaStep, Engine, netVars
<1>2. /\ mpe'[n].fsm = IF info.call \in SendCalls THEN "START_SEND" ELSE "START_RECV"
      /\ mpe'[n].cache = mpe[n].cache
  BY <1>1 DEF Idle, IInv, FpgaInv, FpgaTypeOK, MpeTypeOK, Registers
<1>3. /\ fifo'[n].tx = fifo[n].tx /\ fifo'[n].mpiData = fifo[n].mpiData
      /\ fifo'[n].feedback = fifo[n].feedback /\ fifo'[n].rx = fifo[n].rx
      /\ fifo'[n].appData = fifo[n].appData /\ fifo'[n].mpiif = Tail(fifo[n].mpiif)
  BY <1>1 DEF Idle, IInv, FpgaInv, FpgaTypeOK, MpeTypeOK, Fifos
<1>4. fifo[n].tx = << >>
  BY <1>1 DEF IInv, FpgaInv, TxAlternates, TxAlternatesAt, SendingStates
<1> HIDE DEF info
<1>5. mpe'[n].fsm \in {"START_SEND", "START_RECV"}
  BY <1>2
<1>6. ~Finished(n) /\ ~Finished(n)'
  BY <1>1, <1>5 DEF Finished
<1>7. Stage(n)' = Stage(n) /\ Moved(n)' = Moved(n) /\ Result(n)' = Result(n)
  <2>1. StageF(n)' = StageF(n) /\ MovedF(n)' = MovedF(n)
    BY <1>1, <1>5 DEF StageF, MovedF
  <2> QED BY <1>1, <1>6, <2>1, FpgaView
<1>8. \A s \in Rank : Kept(n, s)' = Kept(n, s)
  BY <1>1, <1>2, <1>5, FpgaCache
<1>9. HsStays /\ Unlooped'
  BY <1>1, <1>3, <1>4, <1>7, <1>8, FpgaStays
<1>10. InOrder(n)' /\ Addressed(n)' /\ Alive(n)'
  <2>1. Position(n)' = Position(n)
    BY <1>1 DEF Position
  <2>2. InOrder(n)'
    BY <1>1, <1>3, <1>5, <2>1 DEF FpgaCalm, InOrder, In
  <2>3. Alive(n)'
    BY <1>3, <1>5 DEF FpgaCalm, Alive, Stuck
  <2>4. Addressed(n)'
    BY <1>3, <1>4 DEF Addressed
  <2> QED BY <2>2, <2>3, <2>4
<1>11. Took(n)'
  <2>1. Before(n)
    BY <1>1 DEF Before
  <2> QED BY <1>1, <1>5, <2>1 DEF FpgaCalm, Took, In
<1>12. Prepared(mpe'[n]) /\ InCount(mpe'[n]) /\ LinesEmpty(mpe'[n])
  BY <1>5 DEF Prepared, InCount, LinesEmpty
<1> QED BY <1>9, <1>10, <1>11, <1>12 DEF FpgaCalm

(* START_SEND: the engine writes the request.                              *)
LEMMA StartSendHs ==
  ASSUME IInv, Unlooped, NEW n \in Fpga, HandOverAt(n), FpgaCalm(n), StartSend(n), UNCHANGED cpu
  PROVE  Ask(n, mpe[n].rank) /\ FpgaCalm(n)' /\ Unlooped'
<1> DEFINE p == Control("SEND_REQUEST", n, mpe[n].rank, mpe[n].call)
<1>1. /\ mpe[n].fsm = "START_SEND" /\ FpgaStep(n) /\ Engine(n)
      /\ deq' = deq /\ wrap' = wrap /\ got' = got /\ UNCHANGED net
  BY DEF StartSend, In, FpgaStep, Engine, netVars
<1>2. /\ Current(n) /\ Now(n).call \in SendCalls
      /\ wrap[n].state \in {"SEND_WRITE_DATA", "SEND_FINISH"}
  BY <1>1, FpgaSends DEF SendStates
<1>3. /\ mpe'[n].fsm = "SEND_REQ" /\ mpe'[n].rank = mpe[n].rank /\ mpe'[n].cache = mpe[n].cache
      /\ mpe'[n].sent = mpe[n].sent
  BY <1>2 DEF Current, StartSend, IInv, FpgaInv, FpgaTypeOK, MpeTypeOK, Registers
<1>4. /\ p \in Packet /\ p.dst = mpe[n].rank /\ [pkt |-> p, tlast |-> TRUE] \in TxEntry
      /\ fifo'[n].tx = Append(fifo[n].tx, [pkt |-> p, tlast |-> TRUE])
      /\ fifo'[n].mpiif = fifo[n].mpiif /\ fifo'[n].mpiData = fifo[n].mpiData
      /\ fifo'[n].feedback = fifo[n].feedback
  <2>1. "SEND_REQUEST" \in HeaderTypes
    BY DEF HeaderTypes
  <2> QED BY <2>1, ControlWritten DEF StartSend
<1>5. p = Request(n, Place(n))
  BY <1>2, FpgaView DEF Request, Current, Now
<1> HIDE DEF p
<1>6. Gives(n, mpe[n].rank, p) /\ Unlooped' /\ OthersStay(n)
  BY <1>1, <1>3, <1>4, FpgaWrites, FpgaFrame
<1>7. ~Finished(n) /\ ~Finished(n)'
  BY <1>2, <1>3 DEF Finished, Current
<1>8. Stage(n) = "out" /\ Stage(n)' = "asked" /\ Moved(n)' = Moved(n) /\ Result(n)' = Result(n)
  <2>1. StageF(n) = "out" /\ StageF(n)' = "asked" /\ MovedF(n)' = MovedF(n)
    BY <1>1, <1>3 DEF StageF, MovedF
  <2> QED BY <1>1, <1>7, <2>1, FpgaView
<1>9. KeptStays
  <2>1. \A s \in Rank : Kept(n, s)' = Kept(n, s)
    BY <1>1, <1>3, FpgaCache
  <2> QED BY <1>1, <2>1, FpgaFrame DEF KeptStays
<1>10. Ask(n, mpe[n].rank)
  BY <1>2, <1>5, <1>6, <1>8, <1>9 DEF Ask, Executes, GoesOn, Current
<1>11. FpgaCalm(n)'
  <2>1. Addressed(n)'
    BY <1>2, <1>3, <1>4, AddressedMore DEF FpgaCalm, Current, Fifos
  <2>2. Prepared(mpe'[n]) /\ InCount(mpe'[n]) /\ LinesEmpty(mpe'[n])
    BY <1>3 DEF Prepared, InCount, LinesEmpty
  <2>3. fifo'[n].feedback # <<"FAIL">>
    BY <1>4 DEF FpgaCalm, Alive
  <2> QED BY <1>1, <1>2, <1>3, <1>4, <2>1, <2>2, <2>3, CalmSending
<1> QED BY <1>6, <1>10, <1>11

(* An answer is never found in the cache.                                  *)
LEMMA NoAnswerCached ==
  ASSUME HsInv, NEW n \in Fpga, Current(n), mpe[n].fsm # "ASSEMBLE_CLEAR",
         NEW type, type # "SEND_REQUEST"
  PROVE  ~CacheHolds(n, type)
<1> SUFFICES ASSUME CacheHolds(n, type) PROVE FALSE
  OBVIOUS
<1>1. Kept(n, mpe[n].rank) # NoHeader /\ Kept(n, mpe[n].rank).type = type
  BY FpgaCache DEF CacheHolds, CachedMatch, Matches
<1> QED BY <1>1, KeptRequests DEF Current

(* What an FPGA reads in the headers of its partner.                       *)
LEMMA FpgaReadsNames ==
  ASSUME NamesAgree, NEW n \in Fpga, NEW s \in Rank, NEW m \in 1 .. Len(Program[s])
  PROVE  /\ s = n => Named(Program[s][m].peer, PeerCall[Program[s][m].call])
                       = PeerCall[Program[s][m].call]
         /\ Program[s][m].peer = n => Named(s, Program[s][m].call) = Program[s][m].call
<1> DEFINE call == Program[s][m].call
           peer == Program[s][m].peer
<1>1. call \in Calls /\ Named(s, call) \in Calls
  BY CallType, NamedType
<1>2. Named(peer, PeerCall[call]) = PeerCall[Named(s, call)]
  BY Understood
<1>3. \A c : Named(n, c) = c
  BY FpgaView
<1> HIDE DEF call, peer
<1>4. s = n => Named(peer, PeerCall[call]) = PeerCall[call]
  BY <1>2, <1>3
<1>5. peer = n => PeerCall[call] = PeerCall[Named(s, call)]
  BY <1>2, <1>3
<1>6. \A a, b \in Calls : PeerCall[a] = PeerCall[b] => b = a
  BY DEF PeerCall, Calls, SendCalls, RecvCalls
<1>7. peer = n => Named(s, call) = call
  BY <1>1, <1>5, <1>6
<1> QED BY <1>4, <1>7 DEF call, peer

(* SEND_REQ: the request has left.                                         *)
LEMMA SendReqHs ==
  ASSUME IInv, HsInv, Unlooped, NEW n \in Fpga, HandOverAt(n), FpgaCalm(n), SendReq(n),
         UNCHANGED cpu
  PROVE  HsStays /\ FpgaCalm(n)' /\ Unlooped'
<1>1. /\ mpe[n].fsm = "SEND_REQ" /\ FpgaStep(n)
      /\ deq' = deq /\ wrap' = wrap /\ got' = got /\ UNCHANGED net
  BY DEF SendReq, In, FpgaStep, Engine, netVars
<1>2. /\ Current(n) /\ wrap[n].state \in {"SEND_WRITE_DATA", "SEND_FINISH"}
  BY <1>1, FpgaSends DEF SendStates
<1>3. ~CacheHolds(n, "CLEAR_TO_SEND")
  BY <1>1, <1>2, NoAnswerCached
<1>4. /\ mpe'[n].fsm = "WAIT4CLEAR" /\ mpe'[n].rank = mpe[n].rank
      /\ mpe'[n].cache = mpe[n].cache /\ mpe'[n].call = mpe[n].call
      /\ mpe'[n].expType = "CLEAR_TO_SEND" /\ mpe'[n].expCall = PeerCall[mpe[n].call]
  BY <1>2, <1>3 DEF Current, SendReq, IInv, FpgaInv, FpgaTypeOK, MpeTypeOK, Registers
<1>5. /\ fifo'[n].tx = fifo[n].tx /\ fifo'[n].mpiif = fifo[n].mpiif
      /\ fifo'[n].mpiData = fifo[n].mpiData /\ fifo'[n].feedback = fifo[n].feedback
  BY <1>2 DEF Current, SendReq, IInv, FpgaInv, FpgaTypeOK, MpeTypeOK, Fifos
<1>6. Stage(n)' = Stage(n) /\ Moved(n)' = Moved(n) /\ Result(n)' = Result(n)
  <2>1. StageF(n)' = StageF(n) /\ MovedF(n)' = MovedF(n) /\ ~Finished(n) /\ ~Finished(n)'
    BY <1>1, <1>4 DEF StageF, MovedF, Finished
  <2> QED BY <1>1, <2>1, FpgaView
<1>7. \A s \in Rank : Kept(n, s)' = Kept(n, s)
  BY <1>1, <1>4, FpgaCache
<1>8. HsStays /\ Unlooped'
  BY <1>1, <1>4, <1>5, <1>6, <1>7, FpgaStays
<1>9. FpgaCalm(n)'
  <2>1. Prepared(mpe'[n]) /\ InCount(mpe'[n]) /\ LinesEmpty(mpe'[n])
    BY <1>4 DEF Prepared, InCount, LinesEmpty
  <2>2. Addressed(n)' /\ fifo'[n].feedback # <<"FAIL">>
    BY <1>4, <1>5, AddressedSame DEF FpgaCalm, Alive
  <2> QED BY <1>1, <1>2, <1>4, <1>5, <2>1, <2>2, CalmSending
<1> QED BY <1>8, <1>9

(* A request that is not waited for is put into the cache.                 *)
LEMMA FpgaPutsAside ==
  ASSUME IInv, HsInv, Unlooped, Window = 1, NEW n \in Fpga, FpgaCalm(n), FpgaStep(n),
         UNCHANGED cpu, UNCHANGED <<fifo, deq, wrap, got>>, mpe[n] \in Registers,
         mpe[n].fsm \in {"WAIT4CLEAR", "WAIT4ACK", "WAIT4REQ", "RECV_DATA_START"},
         NEW s \in Rank, NEW i \in Arriving(<<s, n>>), Consume(s, n, i),
         net[<<s, n>>][i].type = "SEND_REQUEST",
         mpe' = [mpe EXCEPT ![n].cache = CacheWith(n, net[<<s, n>>][i])]
  PROVE  Keep(n, s) /\ FpgaCalm(n)' /\ Unlooped'
<1> DEFINE p == net[<<s, n>>][i]
           c == CacheWith(n, p)
<1>1. mpe'[n] = [mpe[n] EXCEPT !.cache = c]
  BY DEF IInv, FpgaInv, FpgaTypeOK, MpeTypeOK
<1> HIDE DEF c
<1>2. /\ mpe'[n].fsm = mpe[n].fsm /\ mpe'[n].rank = mpe[n].rank /\ mpe'[n].call = mpe[n].call
      /\ mpe'[n].count = mpe[n].count /\ mpe'[n].expType = mpe[n].expType
      /\ mpe'[n].expCall = mpe[n].expCall /\ mpe'[n].sent = mpe[n].sent
      /\ mpe'[n].exp = mpe[n].exp /\ mpe'[n].rcvd = mpe[n].rcvd
      /\ mpe'[n].dataSrc = mpe[n].dataSrc /\ mpe'[n].more = mpe[n].more
      /\ mpe'[n].cache = c
  BY <1>1 DEF Registers
<1>3. /\ n \in Rank /\ s # n /\ Way(s, n) # << >> /\ p = Head(Way(s, n)) /\ p \in Packet
      /\ Takes(n, s) /\ Unlooped' /\ OthersStay(n)
  BY <1>2, FpgaReads
<1>4. p.src = s /\ Comes(n, s, {"SEND_REQUEST"}) /\ p.unit = NoUnit /\ HasHeader(p)
  BY <1>3, ReadPacket DEF HasHeader
<1>5. c = [mpe[n].cache EXCEPT ![s] = HeaderOf(p)] /\ mpe[n].cache \in [Rank -> CacheLine]
  <2> HIDE DEF p
  <2> QED BY <1>4 DEF c, CacheWith, Registers
<1>6. Stage(n)' = Stage(n) /\ Moved(n)' = Moved(n) /\ Result(n)' = Result(n)
  <2>1. StageF(n)' = StageF(n) /\ Incoming(n)' = Incoming(n) /\ ~Finished(n) /\ ~Finished(n)'
        /\ Position(n)' = Position(n)
    BY <1>2 DEF StageF, Incoming, Finished, Position
  <2>2. MovedF(n)' = MovedF(n)
    BY <1>2, <2>1 DEF MovedF
  <2> QED BY <2>1, <2>2, FpgaView
<1>7. Puts(n, s, HeaderOf(Head(Way(s, n))))
  <2>1. \A r \in Rank : Kept(n, r)' = IF r = s THEN HeaderOf(p) ELSE Kept(n, r)
    <3> HIDE DEF p
    <3>1. \A r \in Rank : Kept(n, r)' = c[r] /\ Kept(n, r) = mpe[n].cache[r]
      BY <1>2, FpgaCache
    <3> QED BY <1>5, <3>1
  <2> QED BY <1>3, <2>1, FpgaFrame DEF Puts
<1>8. FpgaCalm(n)'
  <2>1. Prepared(mpe[n])' /\ InCount(mpe[n])' /\ LinesEmpty(mpe[n])'
    BY <1>2 DEF FpgaCalm, Prepared, InCount, LinesEmpty
  <2>2. InOrder(n)' /\ Addressed(n)'
    BY <1>2 DEF FpgaCalm, InOrder, Addressed, Position, In
  <2>3. Alive(n)'
    BY <1>2 DEF FpgaCalm, Alive, Stuck
  <2>4. Took(n)'
    <3>1. Incoming(n)' = Incoming(n) /\ (Before(n)' <=> Before(n))
      BY <1>2 DEF Incoming, Before, In
    <3> QED BY <1>2, <3>1 DEF FpgaCalm, Took, In
  <2> QED BY <2>1, <2>2, <2>3, <2>4 DEF FpgaCalm
<1> QED BY <1>3, <1>4, <1>6, <1>7, <1>8 DEF Keep, GoesOn

(* WAIT4CLEAR: the engine reads a packet.                                  *)
LEMMA Wait4ClearHs ==
  ASSUME IInv, HsInv, Unlooped, Window = 1, NamesAgree, NEW n \in Fpga, HandOverAt(n),
         FpgaCalm(n), NEW s \in Rank, NEW i \in Arriving(<<s, n>>), Wait4Clear(n, s, i),
         UNCHANGED cpu
  PROVE  /\ s # n /\ (HearClear(n, s) \/ Keep(n, s))
         /\ FpgaCalm(n)' /\ Unlooped'
<1> DEFINE p == net[<<s, n>>][i]
<1>1. /\ mpe[n].fsm = "WAIT4CLEAR" /\ FpgaStep(n) /\ Consume(s, n, i)
      /\ fifo' = fifo /\ deq' = deq /\ wrap' = wrap /\ got' = got
  BY DEF Wait4Clear, In, FpgaStep, Engine
<1>2. /\ Current(n) /\ wrap[n].state \in {"SEND_WRITE_DATA", "SEND_FINISH"}
  BY <1>1, FpgaSends DEF SendStates
<1>0. mpe'[n].rank = mpe[n].rank
  BY <1>2 DEF Wait4Clear, Current, IInv, FpgaInv, FpgaTypeOK, MpeTypeOK, Registers
<1>3. /\ n \in Rank /\ s # n /\ Way(s, n) # << >> /\ p = Head(Way(s, n)) /\ p \in Packet
      /\ Takes(n, s) /\ Unlooped' /\ OthersStay(n)
  BY <1>0, <1>1, FpgaReads
<1>4. /\ Stage(n) = "asked" /\ mpe[n].expType = "CLEAR_TO_SEND"
      /\ mpe[n].expCall = PeerCall[mpe[n].call]
  BY <1>1, FpgaView DEF StageF, FpgaCalm, Prepared
<1> HIDE DEF p
<1>5. \/ /\ p.type = "CLEAR_TO_SEND" /\ Comes(n, s, {"CLEAR_TO_SEND"}) /\ p.unit = NoUnit
         /\ p = Answer("CLEAR_TO_SEND", s, n, Place(n)) /\ Asks(n, s) /\ p.src = s
      \/ p.type = "SEND_REQUEST"
  BY <1>3, <1>4, ReadPacket DEF Streams, Hears, Busy
<1>6. CASE /\ p.type = "CLEAR_TO_SEND" /\ Comes(n, s, {"CLEAR_TO_SEND"}) /\ p.unit = NoUnit
           /\ p = Answer("CLEAR_TO_SEND", s, n, Place(n)) /\ Asks(n, s) /\ p.src = s
  <2>1. s = mpe[n].rank
    BY <1>2, <1>6 DEF Asks, Busy, Current
  <2>2. p.call = mpe[n].expCall
    <3>1. p.call = Named(s, PeerCall[Program[n][Place(n)].call])
      BY <1>6 DEF Answer, Control
    <3> QED BY <1>2, <1>4, <2>1, <3>1, FpgaReadsNames DEF Now, Current
  <2>3. Wanted(n, p)
    BY <1>4, <1>6, <2>1, <2>2 DEF Wanted, HasHeader, Matches, HeaderOf
  <2>4. mpe' = [mpe EXCEPT ![n].fsm = "SEND_DATA_START"]
    BY <2>3 DEF Wait4Clear, p
  <2>5. /\ mpe'[n].fsm = "SEND_DATA_START" /\ mpe'[n].cache = mpe[n].cache
        /\ mpe'[n].rank = mpe[n].rank
    BY <1>2, <2>4 DEF Current, IInv, FpgaInv, FpgaTypeOK, MpeTypeOK, Registers
  <2>6. Stage(n)' = "sending" /\ Moved(n)' = Moved(n) /\ Result(n)' = Result(n)
    <3>1. StageF(n)' = "sending" /\ MovedF(n)' = MovedF(n) /\ ~Finished(n) /\ ~Finished(n)'
      BY <1>1, <2>5 DEF StageF, MovedF, Finished
    <3> QED BY <1>1, <3>1, FpgaView
  <2>7. KeptStays
    <3>1. \A r \in Rank : Kept(n, r)' = Kept(n, r)
      BY <1>1, <2>5, FpgaCache
    <3> QED BY <1>1, <3>1, FpgaFrame DEF KeptStays
  <2>8. FpgaCalm(n)'
    <3>1. Prepared(mpe'[n]) /\ InCount(mpe'[n]) /\ LinesEmpty(mpe'[n])
      BY <2>5 DEF Prepared, InCount, LinesEmpty
    <3>2. Addressed(n)' /\ fifo'[n].feedback # <<"FAIL">>
      BY <1>1, <2>5, AddressedSame DEF FpgaCalm, Alive
    <3> QED BY <1>1, <1>2, <2>5, <3>1, <3>2, CalmSending
  <2> QED BY <1>2, <1>3, <1>4, <1>6, <2>1, <2>6, <2>7, <2>8 DEF HearClear, GoesOn, Current
<1>7. CASE p.type = "SEND_REQUEST"
  <2>1. ~Wanted(n, p)
    BY <1>4, <1>7 DEF Wanted, Matches, HeaderOf
  <2>2. mpe' = [mpe EXCEPT ![n].cache = CacheWith(n, p)]
    BY <2>1 DEF Wait4Clear, p
  <2>3. mpe[n] \in Registers
    BY <1>2 DEF Current
  <2> QED BY <1>1, <1>3, <1>7, <2>2, <2>3, FpgaPutsAside DEF p
<1> QED BY <1>5, <1>6, <1>7

(* Who has put a header of s aside does not send to s.                     *)
KeptApart == \A d, s \in Rank : d # s /\ Kept(d, s) # NoHeader => ~Streams(d, s)

(* The steps of the protocol put aside headers only of ranks that wait.    *)
LEMMA HsStepKeepsApart ==
  ASSUME HsInv, KeptApart, NEW n \in Rank, NEW q \in Rank, n # q, HsStep(n, q)
  PROVE  KeptApart'
<1> SUFFICES ASSUME NEW d \in Rank, NEW s \in Rank, d # s, (Kept(d, s) # NoHeader)',
                    Streams(d, s)'
             PROVE  FALSE
  BY DEF KeptApart
<1>1. OthersStay(n)
  BY DEF HsStep, Ask, Keep, HearRequest, FindRequest, Clear, HearClear, SendPart, HearPart,
         Acknowledge, HearAck, GoesOn, Transfers, Completes
<1>2. KeptStays \/ Puts(n, q, NoHeader) \/ Keep(n, q)
  BY DEF HsStep, Ask, HearRequest, FindRequest, Clear, HearClear, SendPart, HearPart,
         Acknowledge, HearAck
<1>3. \/ Stage(n)' # "sending"
      \/ Stage(n) = "sending" /\ Result(n)' = Result(n)
      \/ HearClear(n, q)
  BY DEF HsStep, Ask, Keep, HearRequest, FindRequest, Clear, SendPart, HearPart,
         Acknowledge, HearAck, GoesOn, Transfers, Completes
<1>4. (\A m \in Rank : Result(m)' = Result(m) => Now(m)' = Now(m))
  BY DEF Now, Place
<1>5. Streams(d, s) \/ (HearClear(n, q) /\ d = n)
  <2>1. CASE d = n
    BY <1>3, <1>4, <2>1 DEF Streams, Busy
  <2>2. CASE d # n
    BY <1>1, <1>4, <2>2 DEF Streams, Busy, OthersStay
  <2> QED BY <2>1, <2>2
<1>6. CASE Streams(d, s)
  <2>1. Kept(d, s) = NoHeader
    BY <1>6 DEF KeptApart
  <2>2. Keep(n, q) /\ d = n /\ s = q
    BY <1>2, <2>1 DEF KeptStays, Puts, Keep
  <2>3. Asks(s, d) /\ Back(s, d) = << >>
    BY <2>2, Arrival DEF Keep, Comes
  <2>4. ~Hears(s, d)
    BY <2>3 DEF Asks, Hears, Busy
  <2>5. ~Asks(d, s)
    BY <1>6 DEF Asks, Streams, Busy
  <2>6. Back(s, d) = <<Answer("ACK", s, d, Place(d))>>
    BY <1>6, <2>4, <2>5 DEF Back
  <2> QED BY <2>3, <2>6
<1>7. CASE HearClear(n, q) /\ d = n
  <2>1. Now(n).peer = q /\ Result(n)' = Result(n)
    BY <1>7 DEF HearClear, GoesOn
  <2>2. s = q
    BY <1>4, <1>7, <2>1 DEF Streams, Busy
  <2>3. Kept(n, q) # NoHeader
    BY <1>7, <2>2 DEF HearClear, KeptStays
  <2>4. Asks(q, n)
    BY <2>3, KeptRequests
  <2>5. Hears(q, n)
    BY <1>7, Arrival DEF HearClear, Comes
  <2> QED BY <2>4, <2>5 DEF Asks, Hears, Busy
<1> QED BY <1>5, <1>6, <1>7

(* The other steps put nothing aside.                                      *)
LEMMA HsStaysKeepsApart ==
  ASSUME KeptApart, HsStays
  PROVE  KeptApart'
<1>1. \A m \in Rank : Stage(m)' = Stage(m) /\ Now(m)' = Now(m)
  BY DEF HsStays, Now, Place
<1> QED BY <1>1 DEF KeptApart, HsStays, KeptStays, Streams, Busy

(* Nothing of the receiver has been put aside while data goes out to him.  *)
LEMMA NothingKept ==
  ASSUME IInv, KeptApart, NEW n \in Fpga, Current(n), Stage(n) = "sending"
  PROVE  mpe[n].cache[mpe[n].rank] = NoHeader
<1>1. Streams(n, mpe[n].rank)
  BY DEF Streams, Busy, Current
<1>2. Kept(n, mpe[n].rank) = NoHeader
  BY <1>1 DEF KeptApart, Current
<1>3. mpe[n].fsm # "ASSEMBLE_CLEAR"
  BY FpgaView DEF StageF
<1> QED BY <1>2, <1>3, FpgaCache

(* Deleting an empty line of the cache.                                    *)
LEMMA ClearedLine ==
  ASSUME NEW c \in [Rank -> CacheLine], NEW r \in Rank, c[r] = NoHeader
  PROVE  Deleted(c, r) = c
BY DEF Deleted

(* SEND_DATA_START: the header of the data is prepared.                    *)
LEMMA SendDataStartHs ==
  ASSUME IInv, Unlooped, KeptApart, NEW n \in Fpga, HandOverAt(n), FpgaCalm(n),
         SendDataStart(n), UNCHANGED cpu
  PROVE  HsStays /\ FpgaCalm(n)' /\ Unlooped'
<1>1. /\ mpe[n].fsm = "SEND_DATA_START" /\ FpgaStep(n)
      /\ deq' = deq /\ wrap' = wrap /\ got' = got /\ fifo' = fifo /\ UNCHANGED net
  BY DEF SendDataStart, In, FpgaStep, Engine, netVars
<1>2. Current(n) /\ wrap[n].state \in {"SEND_WRITE_DATA", "SEND_FINISH"}
  BY <1>1, FpgaSends DEF SendStates
<1>3. mpe[n].cache[mpe[n].rank] = NoHeader
  <2>1. Stage(n) = "sending"
    BY <1>1, FpgaView DEF StageF
  <2> QED BY <1>2, <2>1, NothingKept
<1>4. /\ mpe'[n].fsm = "SEND_DATA_RD" /\ mpe'[n].rank = mpe[n].rank /\ mpe'[n].sent = 0
      /\ mpe'[n].cache = Deleted(mpe[n].cache, mpe[n].rank) /\ mpe'[n].count = mpe[n].count
  BY <1>2 DEF Current, SendDataStart, IInv, FpgaInv, FpgaTypeOK, MpeTypeOK, Registers
<1>5. mpe'[n].cache = mpe[n].cache
  <2>1. mpe[n].cache \in [Rank -> CacheLine] /\ mpe[n].rank \in Rank
    BY <1>2 DEF Current, Registers
  <2> QED BY <1>3, <1>4, <2>1, ClearedLine
<1>6. Stage(n)' = Stage(n) /\ Moved(n)' = Moved(n) /\ Result(n)' = Result(n)
  <2>1. Units(n, Position(n), 0) = << >>
    BY DEF Units
  <2>2. Units(n, Position(n), 0)' = << >>
    BY DEF Units
  <2>3. StageF(n)' = StageF(n) /\ ~Finished(n) /\ ~Finished(n)'
    BY <1>1, <1>4 DEF StageF, Finished
  <2>4. MovedF(n) = << >> /\ MovedF(n)' = << >>
    BY <1>1, <1>4, <2>2 DEF MovedF, StageF
  <2> QED BY <1>1, <2>3, <2>4, FpgaView
<1>7. \A s \in Rank : Kept(n, s)' = Kept(n, s)
  BY <1>1, <1>4, <1>5, FpgaCache
<1>8. HsStays /\ Unlooped'
  BY <1>1, <1>4, <1>6, <1>7, FpgaStays
<1>9. FpgaCalm(n)'
  <2>1. Prepared(mpe'[n]) /\ InCount(mpe'[n]) /\ LinesEmpty(mpe'[n])
    <3>1. 0 < mpe[n].count
      BY <1>2 DEF Current
    <3> QED BY <1>4, <3>1 DEF Prepared, InCount, LinesEmpty
  <2>2. Addressed(n)' /\ fifo'[n].feedback # <<"FAIL">>
    BY <1>1, <1>4, AddressedSame DEF FpgaCalm, Alive
  <2> QED BY <1>1, <1>2, <1>4, <2>1, <2>2, CalmSending
<1> QED BY <1>8, <1>9

(* SEND_DATA_RD: the next unit of the wrapper is written.                  *)
LEMMA SendDataRdHs ==
  ASSUME IInv, HsInv, Unlooped, NEW n \in Fpga, HandOverAt(n), FpgaCalm(n), SendDataRd(n),
         UNCHANGED cpu
  PROVE  SendPart(n, mpe[n].rank) /\ FpgaCalm(n)' /\ Unlooped'
<1> DEFINE unit == Head(fifo[n].mpiData)
           last == mpe[n].sent + 1 >= mpe[n].count
           pkt == IF mpe[n].sent = 0
                  THEN DataPacket(n, mpe[n].rank, mpe[n].call, mpe[n].count, unit)
                  ELSE ContPacket(n, mpe[n].rank, mpe[n].call, unit)
           k == mpe[n].sent
<1>1. /\ mpe[n].fsm = "SEND_DATA_RD" /\ FpgaStep(n) /\ fifo[n].mpiData # << >>
      /\ deq' = deq /\ wrap' = wrap /\ got' = got /\ UNCHANGED net
  BY DEF SendDataRd, In, FpgaStep, Engine, netVars
<1>2. /\ Current(n) /\ Now(n).call \in SendCalls
      /\ wrap[n].state \in {"SEND_WRITE_DATA", "SEND_FINISH"}
  BY <1>1, FpgaSends DEF SendStates
<1>3. /\ k \in Nat /\ k < mpe[n].count /\ mpe[n].count \in Nat
  BY <1>1, <1>2 DEF FpgaCalm, InCount, Current, Registers
<1>4. /\ mpe'[n].fsm = (IF last THEN "SEND_DATA_WRD" ELSE "SEND_DATA_RD")
      /\ mpe'[n].rank = mpe[n].rank /\ mpe'[n].sent = k + 1
      /\ mpe'[n].cache = mpe[n].cache /\ mpe'[n].count = mpe[n].count
  BY <1>1, <1>2 DEF Current, SendDataRd, IInv, FpgaInv, FpgaTypeOK, MpeTypeOK, Registers
<1>5. /\ fifo'[n].mpiData = Tail(fifo[n].mpiData)
      /\ fifo'[n].tx = Append(fifo[n].tx, [pkt |-> pkt, tlast |-> last])
      /\ fifo'[n].mpiif = fifo[n].mpiif /\ fifo'[n].feedback = fifo[n].feedback
  BY <1>2 DEF Current, SendDataRd, IInv, FpgaInv, FpgaTypeOK, MpeTypeOK, Fifos
<1>6. unit = <<n, Place(n), k + 1>>
  <2>1. Len(fifo[n].mpiData) \in Nat \ {0} /\ unit = fifo[n].mpiData[1]
    BY <1>1, <1>2, TailOf DEF Current, Fifos
  <2>2. 1 \in 1 .. Len(fifo[n].mpiData)
    BY <2>1
  <2>3. fifo[n].mpiData[1] = <<n, Position(n), k + 1>>
    BY <1>1, <2>2 DEF FpgaCalm, InOrder, In
  <2> QED BY <1>2, <2>1, <2>3 DEF Current
<1>7. pkt = Part(n, Place(n), k + 1) /\ pkt \in Packet
  <2>1. k + 1 \in Nat /\ (k + 1 = 1 <=> k = 0)
    BY <1>3
  <2>2. pkt = Part(n, Place(n), k + 1)
    BY <1>2, <1>6, <2>1, FpgaView DEF Part, Current, Now
  <2> QED BY <1>2, <2>1, <2>2, PacketTypes DEF Current
<1>8. last \in BOOLEAN /\ [pkt |-> pkt, tlast |-> last] \in TxEntry
  <2> HIDE DEF pkt
  <2> QED BY <1>7 DEF TxEntry
<1> HIDE DEF pkt, unit
<1>9. Gives(n, mpe[n].rank, pkt) /\ Unlooped' /\ OthersStay(n)
  <2> HIDE DEF last
  <2>1. UNCHANGED cpu /\ OthersStay(n)
    BY <1>1, FpgaFrame
  <2>2. /\ pkt \in Packet /\ last \in BOOLEAN
        /\ fifo'[n].tx = Append(fifo[n].tx, [pkt |-> pkt, tlast |-> last])
        /\ mpe'[n].rank = mpe[n].rank /\ FpgaStep(n) /\ UNCHANGED net
    BY <1>1, <1>4, <1>5, <1>7, <1>8
  <2>3. Gives(n, mpe[n].rank, pkt) /\ Unlooped'
    BY <2>1, <2>2, FpgaWrites
  <2> QED BY <2>1, <2>3
<1>10. /\ Stage(n) = "sending" /\ Stage(n)' = Stage(n) /\ Result(n)' = Result(n)
       /\ Len(Moved(n)) = k /\ Moved(n)' = Append(Moved(n), <<n, Place(n), k + 1>>)
  <2>1. /\ StageF(n) = "sending" /\ StageF(n)' = "sending" /\ ~Finished(n) /\ ~Finished(n)'
    BY <1>1, <1>4 DEF StageF, Finished
  <2>2. MovedF(n) = Units(n, Position(n), k)
    BY <1>1 DEF MovedF
  <2>3. MovedF(n)' = Units(n, Position(n), k + 1)
    <3>1. MovedF(n)' = Units(n, Position(n)', mpe'[n].sent)
      BY <1>4 DEF MovedF, Units
    <3> QED BY <1>1, <1>4, <3>1 DEF Position
  <2>4. /\ Len(Units(n, Place(n), k)) = k
        /\ Append(Units(n, Place(n), k), <<n, Place(n), k + 1>>) = Units(n, Place(n), k + 1)
    <3>1. n \in Nat /\ Place(n) \in Nat
      BY <1>2 DEF Current
    <3> QED BY <1>3, <3>1, UnitsGrow, Zenon
  <2> QED BY <1>1, <1>2, <2>1, <2>2, <2>3, <2>4, FpgaView DEF Current
<1>11. KeptStays
  <2>1. \A s \in Rank : Kept(n, s)' = Kept(n, s)
    BY <1>1, <1>4, FpgaCache
  <2> QED BY <1>1, <2>1, FpgaFrame DEF KeptStays
<1>12. SendPart(n, mpe[n].rank)
  BY <1>2, <1>3, <1>7, <1>9, <1>10, <1>11 DEF SendPart, Transfers, Current
<1>13. FpgaCalm(n)'
  <2>1. Prepared(mpe[n])' /\ InCount(mpe[n])' /\ LinesEmpty(mpe[n])'
    <3>1. last => k + 1 = mpe[n].count
      BY <1>3
    <3>2. ~last => k + 1 < mpe[n].count
      BY <1>3
    <3> HIDE DEF last, k
    <3> QED BY <1>4, <3>1, <3>2 DEF Prepared, InCount, LinesEmpty
  <2>2. Addressed(n)'
    <3>1. pkt.dst = mpe[n].rank
      BY <1>2, <1>7 DEF Part, DataPacket, ContPacket, Current, Now
    <3>2. fifo[n].tx \in Seq(TxEntry) /\ Addressed(n)
      BY <1>2 DEF Current, Fifos, FpgaCalm
    <3> HIDE DEF last
    <3> QED BY <1>4, <1>5, <1>8, <3>1, <3>2, AddressedMore
  <2>3. InOrder(n)'
    <3>1. HandOverAt(n)'
      BY SendDataRdHandOver DEF IInv, FpgaInv, FpgaTypeOK
    <3>2. CASE last
      <4>1. fifo'[n].mpiData = << >>
        <5> DEFINE m == mpe'[n]
                   f == fifo'[n]
                   d == deq'[n]
                   w == wrap'[n]
                   op == CurrentOp(n)'
        <5>1. HandOver(m, f, d, w, op) /\ m.fsm = "SEND_DATA_WRD"
          BY <1>4, <3>1, <3>2 DEF HandOverAt
        <5> HIDE DEF m, f, d, w, op
        <5>2. f.mpiData = << >>
          BY <5>1 DEF HandOver, Resting, Sending, Receiving, Stuck
        <5> QED BY <5>2 DEF f
      <4> QED BY <4>1 DEF InOrder
    <3>3. CASE ~last
      <4>1. mpe'[n].fsm = "SEND_DATA_RD"
        BY <1>4, <3>3
      <4>2. /\ Len(Tail(fifo[n].mpiData)) = Len(fifo[n].mpiData) - 1
            /\ Len(fifo[n].mpiData) \in Nat
            /\ \A j \in 1 .. Len(Tail(fifo[n].mpiData)) :
                 Tail(fifo[n].mpiData)[j] = fifo[n].mpiData[j + 1]
        BY <1>1, <1>2, TailOf DEF Current, Fifos
      <4>3. \A j \in 1 .. Len(fifo[n].mpiData) : fifo[n].mpiData[j] = <<n, Position(n), k + j>>
        BY <1>1 DEF FpgaCalm, InOrder, In
      <4>4. Position(n)' = Position(n)
        BY <1>1 DEF Position
      <4>5. ASSUME NEW j \in 1 .. Len(fifo'[n].mpiData)
            PROVE  fifo'[n].mpiData[j] = <<n, Position(n), (k + 1) + j>>
        <5> DEFINE more == Len(fifo[n].mpiData)
        <5>0. Len(fifo'[n].mpiData) = more - 1 /\ more \in Nat /\ k \in Nat
          BY <1>3, <1>5, <4>2
        <5> HIDE DEF more, k
        <5>1. j + 1 \in 1 .. more /\ k + (j + 1) = (k + 1) + j
          BY <5>0
        <5>2. fifo'[n].mpiData[j] = fifo[n].mpiData[j + 1]
          BY <1>5, <4>2
        <5>3. fifo[n].mpiData[j + 1] = <<n, Position(n), k + (j + 1)>>
          BY <4>3, <5>1 DEF more, k
        <5> QED BY <5>1, <5>2, <5>3
      <4> HIDE DEF k
      <4> QED BY <1>4, <4>1, <4>4, <4>5 DEF InOrder, In
    <3> QED BY <3>2, <3>3
  <2>4. Alive(n)'
    BY <1>1, <1>2, <1>5 DEF FpgaCalm, Alive, Stuck
  <2>5. Took(n)'
    BY <1>1, <1>2, <1>4 DEF Took, In
  <2> QED BY <2>1, <2>2, <2>3, <2>4, <2>5 DEF FpgaCalm
<1> QED BY <1>9, <1>12, <1>13

(* SEND_DATA_WRD: the last unit has left.                                  *)
LEMMA SendDataWrdHs ==
  ASSUME IInv, HsInv, Unlooped, NEW n \in Fpga, HandOverAt(n), FpgaCalm(n), SendDataWrd(n),
         UNCHANGED cpu
  PROVE  HsStays /\ FpgaCalm(n)' /\ Unlooped'
<1>1. /\ mpe[n].fsm = "SEND_DATA_WRD" /\ FpgaStep(n)
      /\ deq' = deq /\ wrap' = wrap /\ got' = got /\ UNCHANGED net
  BY DEF SendDataWrd, In, FpgaStep, Engine, netVars
<1>2. /\ Current(n) /\ wrap[n].state \in {"SEND_WRITE_DATA", "SEND_FINISH"}
  BY <1>1, FpgaSends DEF SendStates
<1>3. ~CacheHolds(n, "ACK")
  BY <1>1, <1>2, NoAnswerCached
<1>4. /\ mpe'[n].fsm = "WAIT4ACK" /\ mpe'[n].rank = mpe[n].rank
      /\ mpe'[n].cache = mpe[n].cache /\ mpe'[n].call = mpe[n].call
      /\ mpe'[n].count = mpe[n].count /\ mpe'[n].sent = mpe[n].sent
      /\ mpe'[n].expType = "ACK" /\ mpe'[n].expCall = PeerCall[mpe[n].call]
  BY <1>2, <1>3 DEF Current, SendDataWrd, IInv, FpgaInv, FpgaTypeOK, MpeTypeOK, Registers
<1>5. /\ fifo'[n].tx = fifo[n].tx /\ fifo'[n].mpiif = fifo[n].mpiif
      /\ fifo'[n].mpiData = fifo[n].mpiData /\ fifo'[n].feedback = fifo[n].feedback
  BY <1>2 DEF Current, SendDataWrd, IInv, FpgaInv, FpgaTypeOK, MpeTypeOK, Fifos
<1>6. Stage(n)' = Stage(n) /\ Moved(n)' = Moved(n) /\ Result(n)' = Result(n)
  <2>1. StageF(n)' = StageF(n) /\ ~Finished(n) /\ ~Finished(n)'
    BY <1>1, <1>4 DEF StageF, Finished
  <2>2. MovedF(n)' = MovedF(n)
    BY <1>1, <1>4 DEF MovedF, Position
  <2> QED BY <1>1, <2>1, <2>2, FpgaView
<1>7. \A s \in Rank : Kept(n, s)' = Kept(n, s)
  BY <1>1, <1>4, FpgaCache
<1>8. HsStays /\ Unlooped'
  BY <1>1, <1>4, <1>5, <1>6, <1>7, FpgaStays
<1>9. FpgaCalm(n)'
  <2>1. Prepared(mpe'[n]) /\ InCount(mpe'[n]) /\ LinesEmpty(mpe'[n])
    BY <1>1, <1>4 DEF FpgaCalm, Prepared, InCount, LinesEmpty
  <2>2. Addressed(n)' /\ fifo'[n].feedback # <<"FAIL">>
    BY <1>4, <1>5, AddressedSame DEF FpgaCalm, Alive
  <2> QED BY <1>1, <1>2, <1>4, <1>5, <2>1, <2>2, CalmSending
<1> QED BY <1>8, <1>9

(* WAIT4ACK: the engine reads a packet.                                    *)
LEMMA Wait4AckHs ==
  ASSUME IInv, HsInv, Unlooped, Window = 1, NamesAgree, KeptApart, NEW n \in Fpga,
         HandOverAt(n), FpgaCalm(n), NEW s \in Rank, NEW i \in Arriving(<<s, n>>),
         Wait4Ack(n, s, i), UNCHANGED cpu
  PROVE  /\ s # n /\ (HearAck(n, s) \/ Keep(n, s))
         /\ FpgaCalm(n)' /\ Unlooped'
<1> DEFINE p == net[<<s, n>>][i]
<1>1. /\ mpe[n].fsm = "WAIT4ACK" /\ FpgaStep(n) /\ Consume(s, n, i)
      /\ deq' = deq /\ wrap' = wrap /\ got' = got
  BY DEF Wait4Ack, In, FpgaStep, Engine
<1>2. /\ Current(n) /\ wrap[n].state \in {"SEND_WRITE_DATA", "SEND_FINISH"}
      /\ Now(n).call \in SendCalls
  BY <1>1, FpgaSends DEF SendStates
<1>0. mpe'[n].rank = mpe[n].rank /\ fifo'[n].tx = fifo[n].tx
  <2>0. /\ mpe[n] \in Registers /\ fifo[n] \in Fifos
        /\ mpe \in [Fpga -> Registers] /\ fifo \in [Fpga -> Fifos]
    BY <1>2 DEF Current, IInv, FpgaInv, FpgaTypeOK, MpeTypeOK
  <2>1. CASE /\ mpe' = [mpe EXCEPT ![n].fsm = "IDLE", ![n].cache = Deleted(@, mpe[n].rank)]
             /\ fifo' = [fifo EXCEPT ![n].feedback = Append(@, "OK")]
    BY <2>0, <2>1 DEF Registers, Fifos
  <2>2. CASE mpe' = [mpe EXCEPT ![n].cache = CacheWith(n, p)] /\ fifo' = fifo
    <3> DEFINE c == CacheWith(n, p)
    <3> HIDE DEF c
    <3> QED BY <2>0, <2>2 DEF Registers, c
  <2> QED BY <2>1, <2>2 DEF Wait4Ack
<1>3. /\ n \in Rank /\ s # n /\ Way(s, n) # << >> /\ p = Head(Way(s, n)) /\ p \in Packet
      /\ Takes(n, s) /\ Unlooped' /\ OthersStay(n)
  BY <1>0, <1>1, FpgaReads
<1>4. /\ Stage(n) = "sending" /\ mpe[n].expType = "ACK"
      /\ mpe[n].expCall = PeerCall[mpe[n].call]
  BY <1>1, FpgaView DEF StageF, FpgaCalm, Prepared
<1> HIDE DEF p
<1>5. \/ /\ p.type = "ACK" /\ Comes(n, s, {"ACK"}) /\ p.unit = NoUnit
         /\ p = Answer("ACK", s, n, Place(n)) /\ Streams(n, s) /\ p.src = s
      \/ p.type = "SEND_REQUEST"
  BY <1>3, <1>4, ReadPacket DEF Asks, Hears, Busy
<1>6. CASE /\ p.type = "ACK" /\ Comes(n, s, {"ACK"}) /\ p.unit = NoUnit
           /\ p = Answer("ACK", s, n, Place(n)) /\ Streams(n, s) /\ p.src = s
  <2>1. s = mpe[n].rank
    BY <1>2, <1>6 DEF Streams, Busy, Current
  <2>2. p.call = mpe[n].expCall
    <3>1. p.call = Named(s, PeerCall[Program[n][Place(n)].call])
      BY <1>6 DEF Answer, Control
    <3> QED BY <1>2, <1>4, <2>1, <3>1, FpgaReadsNames DEF Now, Current
  <2>3. Wanted(n, p)
    BY <1>4, <1>6, <2>1, <2>2 DEF Wanted, HasHeader, Matches, HeaderOf
  <2>4. /\ mpe' = [mpe EXCEPT ![n].fsm = "IDLE", ![n].cache = Deleted(@, mpe[n].rank)]
        /\ fifo' = [fifo EXCEPT ![n].feedback = Append(@, "OK")]
    BY <2>3 DEF Wait4Ack, p
  <2>5. /\ mpe'[n].fsm = "IDLE" /\ mpe'[n].cache = Deleted(mpe[n].cache, mpe[n].rank)
        /\ mpe'[n].rank = mpe[n].rank
    BY <1>2, <2>4 DEF Current, IInv, FpgaInv, FpgaTypeOK, MpeTypeOK, Registers
  <2>6. /\ fifo'[n].mpiif = fifo[n].mpiif /\ fifo'[n].mpiData = fifo[n].mpiData
        /\ fifo'[n].feedback = Append(fifo[n].feedback, "OK")
    BY <1>2, <2>4 DEF Current, IInv, FpgaInv, FpgaTypeOK, MpeTypeOK, Fifos
  <2>7. mpe'[n].cache = mpe[n].cache
    <3>1. mpe[n].cache \in [Rank -> CacheLine] /\ mpe[n].rank \in Rank
      BY <1>2 DEF Current, Registers
    <3>2. mpe[n].cache[mpe[n].rank] = NoHeader
      BY <1>2, <1>4, NothingKept
    <3> QED BY <2>5, <3>1, <3>2, ClearedLine
  <2>8. Stage(n)' = "out" /\ Moved(n)' = << >> /\ Result(n)' = Append(Result(n), << >>)
    <3>1. StageF(n)' = "out" /\ MovedF(n)' = << >> /\ Finished(n)'
      BY <1>1, <1>2, <2>5, <2>6 DEF StageF, MovedF, Finished, Current
    <3>2. CurrentOp(n)'.call \in SendCalls
      <4>1. CurrentOp(n)' = CurrentOp(n)
        BY <1>1 DEF CurrentOp, Position
      <4> QED BY <1>2, <4>1 DEF Current
    <3> QED BY <1>1, <1>2, <3>1, <3>2, FpgaView DEF Current
  <2>9. KeptStays
    <3>1. \A r \in Rank : Kept(n, r)' = Kept(n, r)
      BY <1>1, <2>5, <2>7, FpgaCache
    <3> QED BY <1>1, <3>1, FpgaFrame DEF KeptStays
  <2>10. FpgaCalm(n)'
    <3>1. Prepared(mpe'[n]) /\ InCount(mpe'[n]) /\ LinesEmpty(mpe'[n])
      BY <2>5 DEF Prepared, InCount, LinesEmpty
    <3>2. Addressed(n)'
      BY <1>0, AddressedSame DEF FpgaCalm
    <3>3. fifo'[n].feedback # <<"FAIL">>
      <4>1. \A q \in Seq({"OK", "FAIL"}) : Append(q, "OK") # <<"FAIL">>
        <5>1. SUFFICES ASSUME NEW q \in Seq({"OK", "FAIL"}), Append(q, "OK") = <<"FAIL">>
                       PROVE  FALSE
          OBVIOUS
        <5>2. Append(q, "OK")[Len(q) + 1] = "OK" /\ Len(Append(q, "OK")) = Len(q) + 1
              /\ Len(q) \in Nat
          BY AppendOf
        <5>3. Len(<<"FAIL">>) = 1 /\ <<"FAIL">>[1] = "FAIL"
          OBVIOUS
        <5> QED BY <5>1, <5>2, <5>3
      <4>2. fifo[n].feedback \in Seq({"OK", "FAIL"})
        BY <1>2 DEF Current, Fifos
      <4> QED BY <2>6, <4>1, <4>2
    <3> QED BY <1>1, <1>2, <2>5, <2>6, <3>1, <3>2, <3>3, CalmSending
  <2> QED BY <1>2, <1>3, <1>4, <1>6, <2>1, <2>8, <2>9, <2>10 DEF HearAck, Completes, Current
<1>7. CASE p.type = "SEND_REQUEST"
  <2>1. ~Wanted(n, p)
    BY <1>4, <1>7 DEF Wanted, Matches, HeaderOf
  <2>2. mpe' = [mpe EXCEPT ![n].cache = CacheWith(n, p)] /\ fifo' = fifo
    BY <2>1 DEF Wait4Ack, p
  <2>3. mpe[n] \in Registers
    BY <1>2 DEF Current
  <2> QED BY <1>1, <1>3, <1>7, <2>2, <2>3, FpgaPutsAside DEF p
<1> QED BY <1>5, <1>6, <1>7
-----------------------------------------------------------------------------
(* The engine, receiving.                                                  *)

(* The request of a partner is the one the engine waits for.               *)
LEMMA RequestMatches ==
  ASSUME HsInv, WellPaired, NamesAgree, NEW n \in Fpga, Current(n), Now(n).call \in RecvCalls,
         Asks(mpe[n].rank, n)
  PROVE  LET q == mpe[n].rank
         IN  Matches(HeaderOf(Request(q, Place(q))), "SEND_REQUEST", PeerCall[mpe[n].call], q)
<1> DEFINE q == mpe[n].rank
           a == Place(q)
           b == Place(n)
<1>1. /\ n \in Rank /\ q \in Rank /\ q # n /\ b \in 1 .. Len(Program[n])
      /\ Now(n).peer = q /\ Now(n).call = mpe[n].call
  BY DEF Current
<1>2. /\ a \in Sends(q, n) /\ a \in 1 .. Len(Program[q]) /\ Program[q][a].peer = n
  BY <1>1, PositionOf DEF Asks, Busy, Now
<1>3. b \in Recvs(n, q)
  <2>1. DOMAIN Program[n] = 1 .. Len(Program[n])
    BY <1>1, ProgramAssumption
  <2> QED BY <1>1, <2>1 DEF Recvs, CallsOf, Now
<1>4. Done(Sends(q, n), a) = Done(Recvs(n, q), b)
  <2>1. InStep(q, n) /\ ~Streams(q, n)
    BY <1>1 DEF HsInv, Link, Asks, Streams, Busy
  <2>2. Done(Sends(q, n), a) \in Nat
    <3>1. Sends(q, n) \in SUBSET Nat /\ IsFiniteSet(Sends(q, n)) /\ a \in Nat
      BY <1>1, CallsFinite, PositionOf
    <3> QED BY <3>1, OrdinalCounts
  <2> QED BY <2>1, <2>2 DEF InStep
<1>5. Program[n][b].call = PeerCall[Program[q][a].call]
  <2> HIDE DEF a, b, q
  <2> QED BY <1>1, <1>2, <1>3, <1>4, Paired
<1>6. Named(q, Program[q][a].call) = Program[q][a].call /\ Program[q][a].call \in Calls
  <2> HIDE DEF a, q
  <2> QED BY <1>1, <1>2, FpgaReadsNames, CallType
<1>7. \A c \in Calls : PeerCall[PeerCall[c]] = c
  BY DEF PeerCall, Calls, SendCalls, RecvCalls
<1>8. Request(q, a).call = PeerCall[mpe[n].call]
  <2>1. Request(q, a).call = Named(q, Program[q][a].call)
    BY DEF Request, Control
  <2>2. mpe[n].call = Program[n][b].call
    BY <1>1 DEF Now
  <2> QED BY <1>5, <1>6, <1>7, <2>1, <2>2
<1>9. Request(q, a).type = "SEND_REQUEST" /\ Request(q, a).src = q
  BY DEF Request, Control
<1> QED BY <1>8, <1>9 DEF Matches, HeaderOf

(* START_RECV: the request is in the cache, or it has to be waited for.    *)
LEMMA StartRecvHs ==
  ASSUME IInv, HsInv, Unlooped, NamesAgree, WellPaired, NEW n \in Fpga, HandOverAt(n),
         FpgaCalm(n), StartRecv(n), UNCHANGED cpu
  PROVE  /\ HsStays \/ FindRequest(n, mpe[n].rank)
         /\ FpgaCalm(n)' /\ Unlooped'
<1> DEFINE q == mpe[n].rank
<1>1. /\ mpe[n].fsm = "START_RECV" /\ FpgaStep(n) /\ fifo' = fifo
      /\ deq' = deq /\ wrap' = wrap /\ got' = got /\ UNCHANGED net
  BY DEF StartRecv, In, FpgaStep, Engine, netVars
<1>2. /\ Current(n) /\ Now(n).call \in RecvCalls
  BY <1>1, FpgaReceives DEF RecvStates
<1>3. \A r \in Rank : Kept(n, r) = mpe[n].cache[r]
  BY <1>1, FpgaCache
<1>4. mpe[n].cache[q] # NoHeader => CacheHolds(n, "SEND_REQUEST")
  <2> SUFFICES ASSUME mpe[n].cache[q] # NoHeader PROVE CacheHolds(n, "SEND_REQUEST")
    OBVIOUS
  <2>1. Kept(n, q) # NoHeader /\ Kept(n, q) = mpe[n].cache[q]
    BY <1>2, <1>3 DEF Current
  <2>2. Kept(n, q) = HeaderOf(Request(q, Place(q))) /\ Asks(q, n)
    BY <1>2, <2>1, KeptRequests DEF Current
  <2>3. Matches(HeaderOf(Request(q, Place(q))), "SEND_REQUEST", PeerCall[mpe[n].call], q)
    BY <1>2, <2>2, RequestMatches
  <2> QED BY <2>1, <2>2, <2>3 DEF CacheHolds, CachedMatch
<1>5. /\ mpe'[n].fsm = IF mpe[n].cache[q] = NoHeader THEN "WAIT4REQ" ELSE "ASSEMBLE_CLEAR"
      /\ mpe'[n].rank = mpe[n].rank /\ mpe'[n].cache = mpe[n].cache
      /\ mpe'[n].expType = "SEND_REQUEST" /\ mpe'[n].expCall = PeerCall[mpe[n].call]
      /\ mpe'[n].call = mpe[n].call
  <2> DEFINE c == CacheHolds(n, "SEND_REQUEST")
             state == IF mpe[n].cache[q] = NoHeader THEN "WAIT4REQ" ELSE "ASSEMBLE_CLEAR"
             exp == PeerCall[mpe[n].call]
  <2>1. mpe' = [mpe EXCEPT ![n].expType = "SEND_REQUEST", ![n].expCall = exp, ![n].fsm = state]
    BY <1>4 DEF StartRecv
  <2> HIDE DEF c, state, exp
  <2>2. /\ mpe'[n].fsm = state
        /\ mpe'[n].rank = mpe[n].rank /\ mpe'[n].cache = mpe[n].cache
        /\ mpe'[n].expType = "SEND_REQUEST" /\ mpe'[n].expCall = exp
        /\ mpe'[n].call = mpe[n].call
    BY <1>2, <2>1 DEF Current, IInv, FpgaInv, FpgaTypeOK, MpeTypeOK, Registers
  <2> QED BY <2>2 DEF state, exp
<1>6. Moved(n)' = Moved(n) /\ Result(n)' = Result(n) /\ Stage(n) = "out"
      /\ Stage(n)' = IF mpe[n].cache[q] = NoHeader THEN "out" ELSE "clear"
  <2>1. ~Finished(n) /\ ~Finished(n)' /\ StageF(n) = "out"
        /\ StageF(n)' = IF mpe[n].cache[q] = NoHeader THEN "out" ELSE "clear"
    BY <1>1, <1>5 DEF StageF, Finished
  <2>2. MovedF(n) = << >> /\ MovedF(n)' = << >>
    BY <1>1, <1>5, <2>1 DEF MovedF
  <2> QED BY <1>1, <2>1, <2>2, FpgaView
<1>7. FpgaCalm(n)'
  <2>1. Prepared(mpe'[n]) /\ InCount(mpe'[n]) /\ LinesEmpty(mpe'[n])
    BY <1>5 DEF Prepared, InCount, LinesEmpty
  <2>2. Addressed(n)' /\ fifo'[n].feedback # <<"FAIL">>
    BY <1>1, <1>5, AddressedSame DEF FpgaCalm, Alive
  <2>3. Before(n)
    BY <1>1 DEF Before
  <2> QED BY <1>1, <1>2, <1>5, <2>1, <2>2, <2>3, CalmReceiving
<1>8. CASE mpe[n].cache[q] = NoHeader
  <2>1. Stage(n)' = Stage(n)
    BY <1>6, <1>8
  <2>2. \A s \in Rank : Kept(n, s)' = Kept(n, s)
    BY <1>3, <1>5, <1>8, FpgaCache
  <2>3. HsStays /\ Unlooped'
    BY <1>1, <1>5, <1>6, <2>1, <2>2, FpgaStays
  <2> QED BY <1>7, <2>3
<1>9. CASE mpe[n].cache[q] # NoHeader
  <2>1. mpe'[n].fsm = "ASSEMBLE_CLEAR"
    BY <1>5, <1>9
  <2>2. Puts(n, q, NoHeader)
    <3>1. \A s \in Rank : Kept(n, s)' = IF s = q THEN NoHeader ELSE Kept(n, s)
      BY <1>3, <1>5, <2>1, FpgaCache
    <3> QED BY <1>1, <3>1, FpgaFrame DEF Puts
  <2>3. QueuesStay
    BY <1>1, <1>5, SameQueues
  <2>4. WaysStay /\ Unlooped'
    BY <1>1, <2>3, SameNet
  <2>5. OthersStay(n)
    BY <1>1, FpgaFrame
  <2>6. Kept(n, q) # NoHeader
    BY <1>2, <1>3, <1>9 DEF Current
  <2>7. FindRequest(n, q)
    BY <1>2, <1>6, <1>9, <2>2, <2>4, <2>5, <2>6 DEF FindRequest, Executes, GoesOn, Current
  <2> QED BY <1>7, <2>4, <2>7
<1> QED BY <1>8, <1>9

(* WAIT4REQ: the engine reads a packet.                                    *)
LEMMA Wait4ReqHs ==
  ASSUME IInv, HsInv, Unlooped, Window = 1, NamesAgree, WellPaired, NEW n \in Fpga,
         HandOverAt(n), FpgaCalm(n), NEW s \in Rank, NEW i \in Arriving(<<s, n>>),
         Wait4Req(n, s, i), UNCHANGED cpu
  PROVE  /\ s # n /\ (HearRequest(n, s) \/ Keep(n, s))
         /\ FpgaCalm(n)' /\ Unlooped'
<1> DEFINE p == net[<<s, n>>][i]
<1>1. /\ mpe[n].fsm = "WAIT4REQ" /\ FpgaStep(n) /\ Consume(s, n, i)
      /\ fifo' = fifo /\ deq' = deq /\ wrap' = wrap /\ got' = got
  BY DEF Wait4Req, In, FpgaStep, Engine
<1>2. Current(n) /\ Now(n).call \in RecvCalls
  BY <1>1, FpgaReceives DEF RecvStates
<1>0. mpe'[n].rank = mpe[n].rank
  BY <1>2 DEF Wait4Req, Current, IInv, FpgaInv, FpgaTypeOK, MpeTypeOK, Registers
<1>3. /\ n \in Rank /\ s # n /\ Way(s, n) # << >> /\ p = Head(Way(s, n)) /\ p \in Packet
      /\ Takes(n, s) /\ Unlooped' /\ OthersStay(n)
  BY <1>0, <1>1, FpgaReads
<1>4. /\ Stage(n) = "out" /\ mpe[n].expType = "SEND_REQUEST"
      /\ mpe[n].expCall = PeerCall[mpe[n].call]
  BY <1>1, FpgaView DEF StageF, FpgaCalm, Prepared
<1> HIDE DEF p
<1>5. /\ p.type = "SEND_REQUEST" /\ Comes(n, s, {"SEND_REQUEST"}) /\ p.unit = NoUnit
      /\ p = Request(s, Place(s)) /\ Asks(s, n) /\ p.src = s
  BY <1>3, <1>4, ReadPacket DEF Asks, Streams, Hears, Busy
<1>6. CASE s = mpe[n].rank
  <2>1. Wanted(n, p)
    <3>1. Matches(HeaderOf(p), "SEND_REQUEST", PeerCall[mpe[n].call], mpe[n].rank)
      BY <1>2, <1>5, <1>6, RequestMatches
    <3> QED BY <1>4, <1>5, <3>1 DEF Wanted, HasHeader
  <2>2. mpe' = [mpe EXCEPT ![n].fsm = "ASSEMBLE_CLEAR"]
    BY <2>1 DEF Wait4Req, p
  <2>3. /\ mpe'[n].fsm = "ASSEMBLE_CLEAR" /\ mpe'[n].cache = mpe[n].cache
        /\ mpe'[n].rank = mpe[n].rank
    BY <1>2, <2>2 DEF Current, IInv, FpgaInv, FpgaTypeOK, MpeTypeOK, Registers
  <2>4. Stage(n)' = "clear" /\ Moved(n)' = Moved(n) /\ Result(n)' = Result(n)
    <3>1. StageF(n)' = "clear" /\ MovedF(n)' = MovedF(n) /\ ~Finished(n) /\ ~Finished(n)'
      BY <1>1, <2>3 DEF StageF, MovedF, Finished
    <3> QED BY <1>1, <3>1, FpgaView
  <2>5. KeptStays
    <3>1. Kept(n, s) = NoHeader
      BY <1>3, Arrival, <1>5
    <3>2. \A r \in Rank : Kept(n, r)' = Kept(n, r)
      BY <1>1, <1>6, <2>3, <3>1, FpgaCache
    <3> QED BY <1>1, <3>2, FpgaFrame DEF KeptStays
  <2>6. FpgaCalm(n)'
    <3>1. Prepared(mpe'[n]) /\ InCount(mpe'[n]) /\ LinesEmpty(mpe'[n])
      BY <2>3 DEF Prepared, InCount, LinesEmpty
    <3>2. Addressed(n)' /\ fifo'[n].feedback # <<"FAIL">>
      BY <1>1, <2>3, AddressedSame DEF FpgaCalm, Alive
    <3>3. Before(n)
      BY <1>1 DEF Before
    <3> QED BY <1>1, <1>2, <2>3, <3>1, <3>2, <3>3, CalmReceiving
  <2> QED BY <1>2, <1>3, <1>4, <1>5, <1>6, <2>4, <2>5, <2>6
          DEF HearRequest, GoesOn, Executes, Current
<1>7. CASE s # mpe[n].rank
  <2>1. ~Wanted(n, p)
    BY <1>5, <1>7 DEF Wanted, Matches, HeaderOf
  <2>2. mpe' = [mpe EXCEPT ![n].cache = CacheWith(n, p)]
    BY <2>1 DEF Wait4Req, p
  <2>3. mpe[n] \in Registers
    BY <1>2 DEF Current
  <2> QED BY <1>1, <1>3, <1>5, <2>2, <2>3, FpgaPutsAside DEF p
<1> QED BY <1>6, <1>7

(* The answers of the engine to its partner.                               *)
LEMMA FpgaAnswers ==
  ASSUME HsInv, WellPaired, NEW n \in Fpga, Current(n), Stage(n) \in {"clear", "receiving"},
         NEW type
  PROVE  /\ Engaged(n, mpe[n].rank)
         /\ Control(type, n, mpe[n].rank, mpe[n].call)
              = Answer(type, n, mpe[n].rank, Place(mpe[n].rank))
<1> DEFINE q == mpe[n].rank
<1>1. n \in Rank /\ q \in Rank /\ q # n /\ Engaged(n, q) /\ Now(n).call = mpe[n].call
  BY DEF Current, Engaged, Busy
<1> HIDE DEF q
<1>2. Answer(type, n, q, Place(q)) = Control(type, n, q, Named(n, Now(n).call))
  BY <1>1, Partners
<1>3. Named(n, Now(n).call) = Now(n).call
  BY FpgaView
<1> QED BY <1>1, <1>2, <1>3 DEF q

(* ASSEMBLE_CLEAR: the engine writes the clear to send.                    *)
LEMMA AssembleClearHs ==
  ASSUME IInv, HsInv, Unlooped, WellPaired, NEW n \in Fpga, HandOverAt(n), FpgaCalm(n),
         AssembleClear(n), UNCHANGED cpu
  PROVE  Clear(n, mpe[n].rank) /\ FpgaCalm(n)' /\ Unlooped'
<1> DEFINE q == mpe[n].rank
           p == Control("CLEAR_TO_SEND", n, mpe[n].rank, mpe[n].call)
<1>1. /\ mpe[n].fsm = "ASSEMBLE_CLEAR" /\ FpgaStep(n)
      /\ deq' = deq /\ wrap' = wrap /\ got' = got /\ UNCHANGED net
  BY DEF AssembleClear, In, FpgaStep, Engine, netVars
<1>2. Current(n) /\ Now(n).call \in RecvCalls
  BY <1>1, FpgaReceives DEF RecvStates
<1>3. Incoming(n) = << >> /\ wrap[n].data = << >>
  BY <1>1, NoneYet
<1>4. /\ mpe'[n].fsm = "SEND_CLEAR" /\ mpe'[n].rank = mpe[n].rank
      /\ mpe'[n].cache = Deleted(mpe[n].cache, mpe[n].rank)
      /\ mpe'[n].call = mpe[n].call
      /\ mpe'[n].expType = "DATA" /\ mpe'[n].expCall = PeerCall[mpe[n].call]
  BY <1>2 DEF Current, AssembleClear, IInv, FpgaInv, FpgaTypeOK, MpeTypeOK, Registers
<1>5. /\ p \in Packet /\ p.dst = mpe[n].rank /\ [pkt |-> p, tlast |-> TRUE] \in TxEntry
      /\ fifo'[n].tx = Append(fifo[n].tx, [pkt |-> p, tlast |-> TRUE])
      /\ fifo'[n].mpiif = fifo[n].mpiif /\ fifo'[n].mpiData = fifo[n].mpiData
      /\ fifo'[n].feedback = fifo[n].feedback /\ fifo'[n].rx = fifo[n].rx
      /\ fifo'[n].appData = fifo[n].appData
  <2>1. "CLEAR_TO_SEND" \in HeaderTypes
    BY DEF HeaderTypes
  <2> QED BY <2>1, ControlWritten DEF AssembleClear
<1> HIDE DEF p
<1>6. Gives(n, q, p) /\ Unlooped' /\ OthersStay(n)
  BY <1>1, <1>4, <1>5, FpgaWrites, FpgaFrame
<1>7. /\ Stage(n) = "clear" /\ Stage(n)' = "receiving" /\ Moved(n)' = Moved(n)
      /\ Result(n)' = Result(n)
  <2>1. Incoming(n)' = Incoming(n)
    BY <1>1, <1>5 DEF Incoming
  <2>2. /\ StageF(n) = "clear" /\ StageF(n)' = "receiving" /\ ~Finished(n) /\ ~Finished(n)'
        /\ MovedF(n) = << >>
    BY <1>1, <1>4 DEF StageF, MovedF, Finished
  <2>3. MovedF(n)' = << >>
    BY <1>3, <1>4, <2>1, <2>2 DEF MovedF
  <2> QED BY <1>1, <2>2, <2>3, FpgaView
<1>8. p = Answer("CLEAR_TO_SEND", n, q, Place(q))
  BY <1>2, <1>7, FpgaAnswers DEF p
<1>9. KeptStays
  <2>1. mpe'[n].cache = [mpe[n].cache EXCEPT ![q] = NoHeader] /\ q \in Rank
        /\ mpe[n].cache \in [Rank -> CacheLine]
    BY <1>2, <1>4 DEF Deleted, Current, Registers
  <2>2. \A s \in Rank : Kept(n, s)' = mpe'[n].cache[s]
    BY <1>4, FpgaCache
  <2>3. \A s \in Rank : Kept(n, s) = IF s = q THEN NoHeader ELSE mpe[n].cache[s]
    BY <1>1, FpgaCache
  <2>4. \A s \in Rank : Kept(n, s)' = Kept(n, s)
    BY <2>1, <2>2, <2>3
  <2> QED BY <1>1, <2>4, FpgaFrame DEF KeptStays
<1>10. Clear(n, q)
  BY <1>2, <1>6, <1>7, <1>8, <1>9 DEF Clear, GoesOn, Current
<1>11. FpgaCalm(n)'
  <2>1. Addressed(n)'
    BY <1>2, <1>4, <1>5, AddressedMore DEF FpgaCalm, Current, Fifos
  <2>2. Prepared(mpe'[n]) /\ InCount(mpe'[n]) /\ LinesEmpty(mpe'[n])
    BY <1>4 DEF Prepared, InCount, LinesEmpty
  <2>3. fifo'[n].feedback # <<"FAIL">> /\ Before(n)
    BY <1>1, <1>5 DEF FpgaCalm, Alive, Before
  <2> QED BY <1>1, <1>2, <1>4, <1>5, <2>1, <2>2, <2>3, CalmReceiving
<1> QED BY <1>6, <1>10, <1>11

(* SEND_CLEAR: the clear to send has left.                                 *)
LEMMA SendClearHs ==
  ASSUME IInv, HsInv, Unlooped, NEW n \in Fpga, HandOverAt(n), FpgaCalm(n), SendClear(n),
         UNCHANGED cpu
  PROVE  HsStays /\ FpgaCalm(n)' /\ Unlooped'
<1>1. /\ mpe[n].fsm = "SEND_CLEAR" /\ FpgaStep(n)
      /\ deq' = deq /\ wrap' = wrap /\ got' = got /\ UNCHANGED net
  BY DEF SendClear, In, FpgaStep, Engine, netVars
<1>2. Current(n)
  BY <1>1, FpgaReceives DEF RecvStates
<1>3. /\ mpe'[n].fsm = "RECV_DATA_START" /\ mpe'[n].more = FALSE
      /\ mpe'[n].rank = mpe[n].rank /\ mpe'[n].call = mpe[n].call
      /\ mpe'[n].cache = mpe[n].cache /\ mpe'[n].expType = mpe[n].expType
      /\ mpe'[n].expCall = mpe[n].expCall
  BY <1>2 DEF Current, SendClear, IInv, FpgaInv, FpgaTypeOK, MpeTypeOK, Registers
<1>4. /\ fifo'[n].tx = fifo[n].tx /\ fifo'[n].mpiif = fifo[n].mpiif
      /\ fifo'[n].mpiData = fifo[n].mpiData /\ fifo'[n].feedback = fifo[n].feedback
      /\ fifo'[n].rx = fifo[n].rx /\ fifo'[n].appData = fifo[n].appData
  BY <1>2 DEF Current, SendClear, IInv, FpgaInv, FpgaTypeOK, MpeTypeOK, Fifos
<1>5. Stage(n)' = Stage(n) /\ Moved(n)' = Moved(n) /\ Result(n)' = Result(n)
  <2>1. /\ StageF(n) = "receiving" /\ StageF(n)' = "receiving" /\ ~Finished(n)
        /\ ~Finished(n)' /\ Incoming(n)' = Incoming(n)
    BY <1>1, <1>3, <1>4 DEF StageF, Finished, Incoming
  <2>2. MovedF(n)' = MovedF(n)
    BY <1>1, <1>3, <2>1 DEF MovedF
  <2> QED BY <1>1, <2>1, <2>2, FpgaView
<1>6. \A s \in Rank : Kept(n, s)' = Kept(n, s)
  BY <1>1, <1>3, FpgaCache
<1>7. HsStays /\ Unlooped'
  BY <1>1, <1>3, <1>4, <1>5, <1>6, FpgaStays
<1>8. FpgaCalm(n)'
  <2>1. Prepared(mpe'[n]) /\ InCount(mpe'[n]) /\ LinesEmpty(mpe'[n])
    BY <1>1, <1>3 DEF FpgaCalm, Prepared, InCount, LinesEmpty
  <2>2. Addressed(n)' /\ fifo'[n].feedback # <<"FAIL">> /\ Before(n)
    BY <1>1, <1>3, <1>4, AddressedSame DEF FpgaCalm, Alive, Before
  <2> QED BY <1>1, <1>2, <1>3, <1>4, <2>1, <2>2, CalmReceiving
<1> QED BY <1>7, <1>8

(* What has come for the wrapper are units.                                *)
LEMMA IncomingOf ==
  ASSUME IInv, NEW n \in Fpga, HandOverAt(n)
  PROVE  LET a == [i \in 1 .. Len(fifo[n].appData) |-> fifo[n].appData[i].unit]
         IN  /\ a \in Seq(Unit) /\ Len(a) = Len(fifo[n].appData)
             /\ wrap[n].data \in Seq(Unit) /\ fifo[n].rx \in Seq(Unit)
             /\ Incoming(n) = wrap[n].data \o a \o fifo[n].rx
             /\ Incoming(n) \in Seq(Unit)
<1> DEFINE q == fifo[n].appData
           a == [i \in 1 .. Len(q) |-> q[i].unit]
<1>1. /\ q \in Seq(RxEntry) /\ wrap[n].data \in Seq(Unit) /\ fifo[n].rx \in Seq(Unit)
  BY Local, OnlyUnits DEF IInv, FpgaInv, FpgaTypeOK, Fifos, Wrappers
<1>2. Incoming(n) = wrap[n].data \o a \o fifo[n].rx
  BY DEF Incoming
<1> HIDE DEF q
<1>3. ASSUME NEW i \in 1 .. Len(q) PROVE q[i].unit \in Unit
  <2>1. q[i] \in RxEntry
    BY <1>1
  <2> QED BY <2>1 DEF RxEntry
<1>4. Len(q) \in Nat /\ a \in Seq(Unit) /\ Len(a) = Len(q)
  BY <1>1, <1>3
<1> HIDE DEF a
<1>5. wrap[n].data \o a \o fifo[n].rx \in Seq(Unit)
  BY <1>1, <1>4
<1> QED BY <1>1, <1>2, <1>4, <1>5 DEF a, q

(* One more unit comes for the wrapper.                                    *)
LEMMA IncomingGrows ==
  ASSUME IInv, NEW n \in Fpga, HandOverAt(n), NEW u \in Unit, wrap' = wrap,
         fifo'[n].appData = fifo[n].appData, fifo'[n].rx = Append(fifo[n].rx, u)
  PROVE  /\ Incoming(n)' = Append(Incoming(n), u)
         /\ Len(Incoming(n)') = Len(Incoming(n)) + 1 /\ Len(Incoming(n)) \in Nat
<1> DEFINE a == [i \in 1 .. Len(fifo[n].appData) |-> fifo[n].appData[i].unit]
           b == wrap[n].data
           c == fifo[n].rx
<1>1. /\ a \in Seq(Unit) /\ b \in Seq(Unit) /\ c \in Seq(Unit)
      /\ Incoming(n) = b \o a \o c /\ Incoming(n) \in Seq(Unit)
  BY IncomingOf
<1>2. Incoming(n)' = b \o a \o Append(c, u)
  BY DEF Incoming
<1> HIDE DEF a, b, c
<1>3. b \o a \in Seq(Unit)
  BY <1>1
<1>4. (b \o a) \o Append(c, u) = Append((b \o a) \o c, u)
  BY <1>1, <1>3, Chained
<1>5. Incoming(n)' = Append(Incoming(n), u)
  BY <1>1, <1>2, <1>4
<1> QED BY <1>1, <1>5, AppendOf

(* Reading data changes neither the cache nor what is waited for.          *)
LEMMA PayloadKeeps ==
  ASSUME MpeTypeOK, NEW n \in Fpga, NEW e \in Registers, Payload2App(n, e)
  PROVE  /\ mpe'[n].cache = e.cache /\ mpe'[n].expType = e.expType
         /\ mpe'[n].expCall = e.expCall /\ mpe'[n].dataSrc = e.dataSrc
<1> DEFINE complete == e.rcvd + 1 >= e.exp
           k == e.rcvd + 1
           state == IF complete THEN "RECV_DATA_WRD" ELSE "RECV_DATA_START"
           time == IF complete THEN e.timer ELSE "running"
           st == e.started \/ ~complete
           mo == e.more \/ ~complete
<1>1. mpe' = [mpe EXCEPT ![n] = [e EXCEPT !.rcvd = k, !.fsm = state, !.timer = time,
                                          !.started = st, !.more = mo]]
  BY DEF Payload2App
<1> HIDE DEF complete, k, state, time, st, mo
<1> QED BY <1>1 DEF MpeTypeOK, Registers

(* A unit that is the next one of the message.                             *)
LEMMA UnitHeard ==
  ASSUME IInv, HsInv, Unlooped, Window = 1, NEW n \in Fpga, HandOverAt(n),
         FpgaCalm(n), FpgaStep(n), UNCHANGED cpu, UNCHANGED <<deq, wrap, got>>, Current(n),
         mpe[n].fsm = "RECV_DATA_START",
         NEW s \in Rank, NEW i \in Arriving(<<s, n>>), Consume(s, n, i), s = mpe[n].rank,
         net[<<s, n>>][i].type \in {"DATA", "CONT"},
         NEW e \in Registers, Payload2App(n, e), e.fsm = "RECV_DATA_START",
         e.rank = mpe[n].rank, e.call = mpe[n].call, e.count = mpe[n].count,
         e.cache = mpe[n].cache, e.expType = "DATA", e.expCall = PeerCall[mpe[n].call],
         e.dataSrc = mpe[n].rank, e.exp = mpe[n].count, e.rcvd < e.exp,
         Len(Incoming(n)) = e.rcvd,
         fifo'[n].tx = fifo[n].tx, fifo'[n].mpiif = fifo[n].mpiif,
         fifo'[n].mpiData = fifo[n].mpiData, fifo'[n].feedback = fifo[n].feedback,
         fifo'[n].appData = fifo[n].appData,
         fifo'[n].rx = Append(fifo[n].rx, net[<<s, n>>][i].unit)
  PROVE  HearPart(n, s) /\ FpgaCalm(n)' /\ Unlooped'
<1> DEFINE p == net[<<s, n>>][i]
<1>1. MpeTypeOK
  BY DEF IInv, FpgaInv, FpgaTypeOK
<1>2. /\ mpe'[n].call = e.call /\ mpe'[n].count = e.count /\ mpe'[n].rank = e.rank
      /\ mpe'[n].rcvd = e.rcvd + 1 /\ mpe'[n].exp = e.exp
      /\ \/ e.rcvd + 1 >= e.exp /\ mpe'[n].fsm = "RECV_DATA_WRD"
         \/ e.rcvd + 1 < e.exp /\ mpe'[n].fsm = "RECV_DATA_START" /\ mpe'[n].more
  BY <1>1, PayloadFields
<1>3. /\ mpe'[n].cache = e.cache /\ mpe'[n].expType = e.expType
      /\ mpe'[n].expCall = e.expCall /\ mpe'[n].dataSrc = e.dataSrc
  BY <1>1, PayloadKeeps
<1>4. /\ n \in Rank /\ s # n /\ Way(s, n) # << >> /\ p = Head(Way(s, n)) /\ p \in Packet
      /\ Takes(n, s) /\ Unlooped' /\ OthersStay(n)
  BY <1>2, FpgaReads
<1>5. p.unit \in Unit
  BY <1>4 DEF Packet
<1> HIDE DEF p
<1>6. /\ Incoming(n)' = Append(Incoming(n), p.unit)
      /\ Len(Incoming(n)') = Len(Incoming(n)) + 1
  BY <1>5, IncomingGrows DEF p
<1>7. /\ Stage(n) = "receiving" /\ Stage(n)' = "receiving" /\ Result(n)' = Result(n)
      /\ Moved(n) = Incoming(n) /\ Moved(n)' = Incoming(n)'
  <2>1. /\ StageF(n) = "receiving" /\ StageF(n)' = "receiving" /\ ~Finished(n) /\ ~Finished(n)'
    BY <1>2 DEF StageF, Finished
  <2>2. MovedF(n) = Incoming(n) /\ MovedF(n)' = Incoming(n)'
    BY <1>2, <2>1 DEF MovedF
  <2> QED BY <2>1, <2>2, FpgaView
<1>8. KeptStays
  <2>1. \A r \in Rank : Kept(n, r)' = Kept(n, r)
    BY <1>2, <1>3, FpgaCache
  <2> QED BY <2>1, FpgaFrame DEF KeptStays
<1>9. HearPart(n, s)
  <2>1. Comes(n, s, {"DATA", "CONT"})
    BY <1>4 DEF Comes, p
  <2> QED BY <1>4, <1>6, <1>7, <1>8, <2>1 DEF HearPart, Transfers, Current
<1>10. FpgaCalm(n)'
  <2>1. Prepared(mpe[n])' /\ LinesEmpty(mpe[n])'
    BY <1>2, <1>3 DEF Prepared, LinesEmpty
  <2>2. InCount(mpe[n])'
    <3>1. e.rcvd \in Nat /\ e.exp \in Nat
      BY DEF Registers
    <3>2. e.rcvd + 1 >= e.exp => e.rcvd + 1 = e.exp
      BY <3>1
    <3> QED BY <1>2, <1>3, <3>2 DEF InCount
  <2>3. InOrder(n)' /\ Addressed(n)'
    <3>1. Addressed(n)'
      BY <1>2, AddressedSame DEF FpgaCalm
    <3>2. InOrder(n)'
      BY <1>2 DEF FpgaCalm, InOrder, Position, In
    <3> QED BY <3>1, <3>2
  <2>4. Alive(n)'
    BY <1>2 DEF FpgaCalm, Alive, Stuck
  <2>5. Took(n)'
    <3>1. ~Before(n)'
      BY <1>2 DEF Before, In, Current
    <3> QED BY <1>2, <1>6, <3>1 DEF Took
  <2> QED BY <2>1, <2>2, <2>3, <2>4, <2>5 DEF FpgaCalm
<1> QED BY <1>4, <1>9, <1>10

(* With Window = 1 a rank reads the first packet of those on their way.    *)
LEMMA FirstOnItsWay ==
  ASSUME IInv, Unlooped, Window = 1, NEW n \in Rank, NEW s \in Rank,
         NEW i \in Arriving(<<s, n>>)
  PROVE  /\ s # n /\ Way(s, n) # << >> /\ net[<<s, n>>][i] = Head(Way(s, n))
         /\ net[<<s, n>>][i] \in Packet
<1> DEFINE c == net[<<s, n>>]
<1>1. c \in Seq(Packet)
  BY DEF IInv, FpgaInv, FpgaTypeOK, NetworkTypeOK
<1>2. i = 1 /\ c # << >> /\ c[1] \in Packet
  BY <1>1 DEF Arriving
<1>3. s # n
  BY <1>2 DEF Unlooped
<1>4. Queue(s, n) \in Seq(Packet)
  BY QueueType
<1> HIDE DEF c
<1>5. c \o Queue(s, n) # << >> /\ Head(c \o Queue(s, n)) = c[1]
  BY <1>1, <1>2, <1>4, TailOfChain
<1> QED BY <1>2, <1>3, <1>5 DEF Way, c

(* RECV_DATA_START: the engine reads a packet with a header.               *)
LEMMA RecvDataStartHs ==
  ASSUME IInv, HsInv, Unlooped, Window = 1, NamesAgree, WellPaired, NEW n \in Fpga,
         HandOverAt(n), FpgaCalm(n), NEW s \in Rank, NEW i \in Arriving(<<s, n>>),
         RecvDataStart(n, s, i), UNCHANGED cpu
  PROVE  /\ s # n /\ (HearPart(n, s) \/ Keep(n, s))
         /\ FpgaCalm(n)' /\ Unlooped'
<1> DEFINE p == net[<<s, n>>][i]
           q == mpe[n].rank
<1>1. /\ mpe[n].fsm = "RECV_DATA_START" /\ FpgaStep(n) /\ Consume(s, n, i)
      /\ deq' = deq /\ wrap' = wrap /\ got' = got
      /\ ~(mpe[n].more /\ s = mpe[n].dataSrc)
  BY DEF RecvDataStart, In, FpgaStep, Engine
<1>2. Current(n) /\ Now(n).call \in RecvCalls /\ q \in Rank /\ n \in Rank /\ q # n
  BY <1>1, FpgaReceives DEF RecvStates, Current
<1>3. s # n /\ Way(s, n) # << >> /\ p = Head(Way(s, n)) /\ p \in Packet
  BY <1>2, FirstOnItsWay
<1>4. /\ Stage(n) = "receiving" /\ mpe[n].expType = "DATA"
      /\ mpe[n].expCall = PeerCall[mpe[n].call]
      /\ Moved(n) = Incoming(n)
  BY <1>1, FpgaView DEF StageF, MovedF, FpgaCalm, Prepared
<1> HIDE DEF p
<1>5. \/ /\ p.type \in {"DATA", "CONT"} /\ p = Part(s, Place(s), Len(Moved(n)) + 1)
         /\ Streams(s, n) /\ Hears(n, s) /\ p.src = s
      \/ p.type = "SEND_REQUEST" /\ p.unit = NoUnit
  BY <1>2, <1>3, <1>4, ReadPacket DEF Asks, Streams, Busy
<1>6. CASE /\ p.type \in {"DATA", "CONT"} /\ p = Part(s, Place(s), Len(Moved(n)) + 1)
           /\ Streams(s, n) /\ Hears(n, s) /\ p.src = s
  <2>1. s = q
    BY <1>2, <1>6 DEF Hears, Busy, Current
  <2>2. ~mpe[n].more
    BY <1>1, <2>1 DEF FpgaCalm, InCount
  <2>3. Incoming(n) = << >>
    BY <1>1, <2>2, NoneYet
  <2>4. p = Part(s, Place(s), 1)
    <3>1. Len(<< >>) + 1 = 1
      OBVIOUS
    <3> QED BY <1>4, <1>6, <2>3, <3>1
  <2>5. Engaged(n, s)
    BY <1>6 DEF Hears, Engaged, Busy
  <2>6. /\ Place(s) \in Sends(s, n) /\ Now(n).count = Now(s).count
        /\ Now(n).call = PeerCall[Now(s).call]
    BY <1>2, <1>3, <2>5, Partners
  <2>7. /\ Place(s) \in 1 .. Len(Program[s]) /\ Now(s).peer = n /\ Now(s).call \in Calls
    BY <2>6, CallsFinite, CallType DEF Sends, CallsOf, Now
  <2>8. Named(s, Now(s).call) = Now(s).call
    BY <2>7, FpgaReadsNames DEF Now
  <2>9. /\ p.type = "DATA" /\ p.call = Now(s).call /\ p.size = Now(s).count
    BY <2>4, <2>8 DEF Part, DataPacket, Now
  <2>10. PeerCall[mpe[n].call] = Now(s).call
    <3>1. \A c \in Calls : PeerCall[PeerCall[c]] = c
      BY DEF PeerCall, Calls, SendCalls, RecvCalls
    <3> QED BY <1>2, <2>6, <2>7, <3>1 DEF Current
  <2>11. HasHeader(p) /\ Matches(HeaderOf(p), mpe[n].expType, mpe[n].expCall, mpe[n].rank)
    BY <1>4, <1>6, <2>1, <2>9, <2>10 DEF HasHeader, Matches, HeaderOf
  <2> DEFINE e == [mpe[n] EXCEPT !.exp = p.size, !.rcvd = 0, !.dataSrc = s]
  <2>12. /\ Payload2App(n, e)
         /\ fifo' = [fifo EXCEPT ![n].expLen = Append(@, p.size), ![n].rx = Append(@, p.unit)]
    BY <2>2, <2>11 DEF RecvDataStart, p
  <2>13. p.size = mpe[n].count /\ mpe[n].count \in Nat \ {0}
    BY <1>2, <2>6, <2>9 DEF Current
  <2>14. /\ e \in Registers /\ e.fsm = "RECV_DATA_START"
         /\ e.rank = mpe[n].rank /\ e.call = mpe[n].call /\ e.count = mpe[n].count
         /\ e.cache = mpe[n].cache /\ e.expType = "DATA" /\ e.expCall = PeerCall[mpe[n].call]
         /\ e.dataSrc = s /\ e.exp = p.size /\ e.rcvd = 0
    <3>1. mpe[n] \in Registers
      BY <1>2 DEF Current
    <3>2. mpe[n].expCall = PeerCall[mpe[n].call] /\ mpe[n].expType = "DATA"
      BY <1>4
    <3> QED BY <1>1, <2>13, <3>1, <3>2 DEF Registers
  <2>15. /\ fifo'[n].tx = fifo[n].tx /\ fifo'[n].mpiif = fifo[n].mpiif
         /\ fifo'[n].mpiData = fifo[n].mpiData /\ fifo'[n].feedback = fifo[n].feedback
         /\ fifo'[n].appData = fifo[n].appData /\ fifo'[n].rx = Append(fifo[n].rx, p.unit)
    BY <1>2, <2>12 DEF Current, IInv, FpgaInv, FpgaTypeOK, MpeTypeOK, Fifos
  <2> HIDE DEF e
  <2>16. e.dataSrc = mpe[n].rank /\ e.exp = mpe[n].count /\ e.rcvd < e.exp
         /\ Len(Incoming(n)) = e.rcvd
    <3>1. Len(<< >>) = 0
      OBVIOUS
    <3> QED BY <2>1, <2>3, <2>13, <2>14, <3>1
  <2>17. HearPart(n, s) /\ FpgaCalm(n)' /\ Unlooped'
    BY <1>1, <1>2, <1>6, <2>1, <2>12, <2>14, <2>15, <2>16, UnitHeard DEF p
  <2> QED BY <1>3, <2>17
<1>7. CASE p.type = "SEND_REQUEST" /\ p.unit = NoUnit
  <2>1. ~Matches(HeaderOf(p), mpe[n].expType, mpe[n].expCall, mpe[n].rank)
    BY <1>4, <1>7 DEF Matches, HeaderOf
  <2>2. mpe' = [mpe EXCEPT ![n].cache = CacheWith(n, p)] /\ fifo' = fifo
    BY <2>1 DEF RecvDataStart, p
  <2>3. mpe[n] \in Registers
    BY <1>2 DEF Current
  <2> QED BY <1>1, <1>3, <1>7, <2>2, <2>3, FpgaPutsAside DEF p
<1> QED BY <1>5, <1>6, <1>7

(* RECV_DATA_START: the engine reads a packet that continues the message.  *)
LEMMA RecvDataMoreHs ==
  ASSUME IInv, HsInv, Unlooped, Window = 1, NamesAgree, WellPaired, NEW n \in Fpga,
         HandOverAt(n), FpgaCalm(n), NEW s \in Rank, NEW i \in Arriving(<<s, n>>),
         RecvDataMore(n, s, i), UNCHANGED cpu
  PROVE  s # n /\ HearPart(n, s) /\ FpgaCalm(n)' /\ Unlooped'
<1> DEFINE p == net[<<s, n>>][i]
           q == mpe[n].rank
           e == mpe[n]
<1>1. /\ e.fsm = "RECV_DATA_START" /\ FpgaStep(n) /\ Consume(s, n, i)
      /\ deq' = deq /\ wrap' = wrap /\ got' = got /\ e.more /\ s = e.dataSrc
      /\ Payload2App(n, e)
  BY DEF RecvDataMore, In, FpgaStep, Engine
<1>2. Current(n) /\ Now(n).call \in RecvCalls /\ q \in Rank /\ n \in Rank /\ q # n
  BY <1>1, FpgaReceives DEF RecvStates, Current
<1>3. s # n /\ Way(s, n) # << >> /\ p = Head(Way(s, n)) /\ p \in Packet
  BY <1>2, FirstOnItsWay
<1>4. /\ Stage(n) = "receiving" /\ e.expType = "DATA" /\ e.expCall = PeerCall[e.call]
      /\ Moved(n) = Incoming(n) /\ s = q /\ e.exp = e.count /\ Len(Incoming(n)) = e.rcvd
  BY <1>1, FpgaView DEF StageF, MovedF, FpgaCalm, Prepared, InCount, Took, In
<1>5. e.rcvd \in Nat /\ e.rcvd > 0 /\ e.rcvd < e.exp
  <2> DEFINE m == mpe[n]
             f == fifo[n]
             d == deq[n]
             w == wrap[n]
             op == CurrentOp(n)
  <2>1. Receiving(m, f, d, w, op) /\ m.fsm = "RECV_DATA_START" /\ m.more /\ m \in Registers
    BY <1>1, <1>2, FpgaReceives DEF RecvStates, Current
  <2>2. f.mpiif = << >>
    BY <1>2 DEF Current
  <2> HIDE DEF m, f, d, w, op
  <2>3. m.rcvd < m.exp /\ m.rcvd > 0
    BY <2>1, <2>2 DEF Receiving, OnTheWay, Stuck
  <2> QED BY <2>1, <2>3 DEF m, Registers
<1> HIDE DEF p
<1>6. Engaged(n, s)
  BY <1>2, <1>4 DEF Engaged, Busy, Current
<1>7. p.type = "CONT"
  <2>1. p.type \in {"DATA", "CONT"} /\ p = Part(s, Place(s), e.rcvd + 1)
    BY <1>2, <1>3, <1>4, <1>6, ReadPacket DEF Asks, Streams, Busy
  <2>2. e.rcvd + 1 # 1
    BY <1>5
  <2> QED BY <2>1, <2>2 DEF Part, ContPacket
<1>8. fifo' = [fifo EXCEPT ![n].rx = Append(@, p.unit)]
  BY <1>7 DEF RecvDataMore, HasHeader, p
<1>9. /\ fifo'[n].tx = fifo[n].tx /\ fifo'[n].mpiif = fifo[n].mpiif
      /\ fifo'[n].mpiData = fifo[n].mpiData /\ fifo'[n].feedback = fifo[n].feedback
      /\ fifo'[n].appData = fifo[n].appData /\ fifo'[n].rx = Append(fifo[n].rx, p.unit)
  BY <1>2, <1>8 DEF Current, IInv, FpgaInv, FpgaTypeOK, MpeTypeOK, Fifos
<1>10. HearPart(n, s) /\ FpgaCalm(n)' /\ Unlooped'
  <2>1. e \in Registers
    BY <1>2 DEF Current
  <2> QED BY <1>1, <1>2, <1>4, <1>5, <1>7, <1>9, <2>1, UnitHeard DEF p
<1> QED BY <1>3, <1>10

(* RECV_DATA_WRD: all units are here, the engine writes the                *)
(* acknowledgement.                                                        *)
LEMMA RecvDataDoneHs ==
  ASSUME IInv, HsInv, Unlooped, WellPaired, NEW n \in Fpga, HandOverAt(n), FpgaCalm(n),
         RecvDataDone(n), UNCHANGED cpu
  PROVE  Acknowledge(n, mpe[n].rank) /\ FpgaCalm(n)' /\ Unlooped'
<1> DEFINE q == mpe[n].rank
           p == Control("ACK", n, mpe[n].rank, mpe[n].call)
<1>1. /\ mpe[n].fsm = "RECV_DATA_WRD" /\ FpgaStep(n)
      /\ deq' = deq /\ wrap' = wrap /\ got' = got /\ UNCHANGED net
  BY DEF RecvDataDone, In, FpgaStep, Engine, netVars
<1>2. Current(n) /\ Now(n).call \in RecvCalls
  BY <1>1, FpgaReceives DEF RecvStates
<1>3. Len(Incoming(n)) = mpe[n].count
  BY <1>1 DEF FpgaCalm, InCount, Took, In
<1>4. /\ mpe'[n].fsm = "SEND_ACK" /\ mpe'[n].rank = mpe[n].rank
      /\ mpe'[n].cache = mpe[n].cache
  BY <1>2 DEF Current, RecvDataDone, IInv, FpgaInv, FpgaTypeOK, MpeTypeOK, Registers
<1>5. /\ p \in Packet /\ p.dst = mpe[n].rank /\ [pkt |-> p, tlast |-> TRUE] \in TxEntry
      /\ fifo'[n].tx = Append(fifo[n].tx, [pkt |-> p, tlast |-> TRUE])
      /\ fifo'[n].mpiif = fifo[n].mpiif /\ fifo'[n].mpiData = fifo[n].mpiData
      /\ fifo'[n].feedback = fifo[n].feedback /\ fifo'[n].rx = fifo[n].rx
      /\ fifo'[n].appData = fifo[n].appData
  <2>1. "ACK" \in HeaderTypes
    BY DEF HeaderTypes
  <2> QED BY <2>1, ControlWritten DEF RecvDataDone
<1> HIDE DEF p
<1>6. Gives(n, q, p) /\ Unlooped' /\ OthersStay(n)
  BY <1>1, <1>4, <1>5, FpgaWrites, FpgaFrame
<1>7. /\ Stage(n) = "receiving" /\ Stage(n)' = "out" /\ Moved(n)' = << >>
      /\ Moved(n) = Incoming(n) /\ Result(n)' = Append(Result(n), Moved(n))
  <2>1. Incoming(n)' = Incoming(n) /\ CurrentOp(n)' = CurrentOp(n)
    BY <1>1, <1>5 DEF Incoming, CurrentOp, Position
  <2>2. /\ StageF(n) = "receiving" /\ StageF(n)' = "out" /\ ~Finished(n) /\ Finished(n)'
    BY <1>1, <1>4 DEF StageF, Finished
  <2>3. MovedF(n)' = << >> /\ MovedF(n) = Incoming(n)
    BY <1>1, <1>4, <2>2 DEF MovedF
  <2>4. CurrentOp(n)'.call \notin SendCalls
    BY <1>2, <2>1 DEF Current, SendCalls, RecvCalls
  <2>5. Result(n)' = Append(got'[n], Incoming(n)')
    BY <2>2, <2>4, FpgaView
  <2> QED BY <1>1, <1>2, <2>1, <2>2, <2>3, <2>5, FpgaView DEF Current
<1>8. p = Answer("ACK", n, q, Place(q)) /\ Engaged(n, q)
  BY <1>2, <1>7, FpgaAnswers DEF p
<1>9. KeptStays
  <2>1. \A s \in Rank : Kept(n, s)' = Kept(n, s)
    BY <1>1, <1>4, FpgaCache
  <2> QED BY <1>1, <2>1, FpgaFrame DEF KeptStays
<1>10. Acknowledge(n, q)
  BY <1>2, <1>3, <1>6, <1>7, <1>8, <1>9 DEF Acknowledge, Completes, Current
<1>11. FpgaCalm(n)'
  <2>1. Addressed(n)'
    BY <1>2, <1>4, <1>5, AddressedMore DEF FpgaCalm, Current, Fifos
  <2>2. mpe'[n].cache[q] = NoHeader
    <3>1. Kept(n, q) = NoHeader
      BY <1>2, <1>8, KeptRequests DEF Current
    <3>2. Kept(n, q) = mpe[n].cache[q]
      BY <1>1, FpgaCache
    <3> QED BY <1>4, <3>1, <3>2
  <2>3. Prepared(mpe'[n]) /\ InCount(mpe'[n]) /\ LinesEmpty(mpe'[n])
    BY <1>4, <2>2 DEF Prepared, InCount, LinesEmpty
  <2>4. fifo'[n].feedback # <<"FAIL">> /\ ~Before(n)'
    BY <1>2, <1>4, <1>5 DEF FpgaCalm, Alive, Before, Current, In
  <2> QED BY <1>1, <1>2, <1>4, <1>5, <2>1, <2>3, <2>4, CalmReceiving
<1> QED BY <1>6, <1>10, <1>11

(* SEND_ACK: the acknowledgement has left, the wrapper is told.            *)
LEMMA SendAckHs ==
  ASSUME IInv, HsInv, Unlooped, NEW n \in Fpga, HandOverAt(n), FpgaCalm(n), SendAck(n),
         UNCHANGED cpu
  PROVE  HsStays /\ FpgaCalm(n)' /\ Unlooped'
<1> DEFINE m == mpe[n]
           f == fifo[n]
           d == deq[n]
           w == wrap[n]
           op == CurrentOp(n)
<1>1. /\ m.fsm = "SEND_ACK" /\ FpgaStep(n) /\ m \in Registers /\ f \in Fifos
      /\ deq' = deq /\ wrap' = wrap /\ got' = got /\ UNCHANGED net
      /\ m.cache[m.rank] = NoHeader /\ HandOver(m, f, d, w, op)
  BY Local DEF SendAck, In, FpgaStep, Engine, netVars, IInv, FpgaInv, FpgaTypeOK,
     FpgaCalm, LinesEmpty, HandOverAt
<1>2. f.mpiif = << >> /\ f.feedback = << >> /\ PassedOn(f, d, w)
      /\ w.state \in {"RECV_READ_DATA", "RECV_FINISH"}
  <2> HIDE DEF m, f, d, w, op
  <2> QED BY <1>1 DEF HandOver, Resting, Sending, Receiving, Stuck, PassedOn
<1>3. /\ mpe'[n].fsm = "IDLE" /\ mpe'[n].rank = mpe[n].rank
      /\ mpe'[n].cache = Deleted(mpe[n].cache, mpe[n].rank)
  BY <1>1 DEF SendAck, IInv, FpgaInv, FpgaTypeOK, MpeTypeOK, Registers
<1>4. /\ fifo'[n].tx = fifo[n].tx /\ fifo'[n].mpiif = fifo[n].mpiif
      /\ fifo'[n].mpiData = fifo[n].mpiData /\ fifo'[n].rx = fifo[n].rx
      /\ fifo'[n].appData = fifo[n].appData
      /\ fifo'[n].feedback = Append(fifo[n].feedback, "OK")
  BY <1>1 DEF SendAck, IInv, FpgaInv, FpgaTypeOK, MpeTypeOK, Fifos
<1>5. mpe'[n].cache = mpe[n].cache
  <2>1. mpe[n].cache \in [Rank -> CacheLine] /\ mpe[n].rank \in Rank
    BY <1>1 DEF Registers
  <2> QED BY <1>1, <1>3, <2>1, ClearedLine
<1>6. Stage(n)' = Stage(n) /\ Moved(n)' = Moved(n) /\ Result(n)' = Result(n)
  <2>1. /\ StageF(n) = "out" /\ StageF(n)' = "out" /\ Finished(n) /\ Finished(n)'
        /\ Incoming(n)' = Incoming(n)
    BY <1>1, <1>2, <1>3, <1>4 DEF StageF, Finished, Incoming
  <2>2. MovedF(n) = << >> /\ MovedF(n)' = << >>
    BY <1>1, <1>3, <2>1 DEF MovedF
  <2>3. CurrentOp(n)' = CurrentOp(n)
    BY <1>1 DEF CurrentOp, Position
  <2> QED BY <1>1, <2>1, <2>2, <2>3, FpgaView
<1>7. \A s \in Rank : Kept(n, s)' = Kept(n, s)
  BY <1>1, <1>3, <1>5, FpgaCache
<1>8. HsStays /\ Unlooped'
  BY <1>1, <1>3, <1>4, <1>6, <1>7, FpgaStays
<1>9. FpgaCalm(n)'
  <2>1. Prepared(mpe'[n]) /\ InCount(mpe'[n]) /\ LinesEmpty(mpe'[n])
    BY <1>3 DEF Prepared, InCount, LinesEmpty
  <2>2. Addressed(n)'
    BY <1>3, <1>4, AddressedSame DEF FpgaCalm
  <2>3. InOrder(n)'
    BY <1>1, <1>3, <1>4 DEF FpgaCalm, InOrder, Position, In
  <2>4. Alive(n)'
    <3>1. fifo'[n].feedback # <<"FAIL">>
      <4>1. Append(<< >>, "OK") # <<"FAIL">>
        OBVIOUS
      <4> QED BY <1>2, <1>4, <4>1
    <3>2. ~NoData(fifo'[n], deq'[n]) \/ wrap'[n].state # "RECV_READ_DATA"
      BY <1>1, <1>2, <1>4 DEF PassedOn, NoData
    <3> QED BY <3>1, <3>2 DEF Alive, Stuck
  <2>5. Took(n)'
    BY <1>2, <1>3, <1>4 DEF Took, In, Before
  <2> QED BY <2>1, <2>2, <2>3, <2>4, <2>5 DEF FpgaCalm
<1> QED BY <1>8, <1>9

-----------------------------------------------------------------------------
(* pDeqSend, pDeqRecv and the wrapper: nothing happens for the protocol.   *)

(* The head of one queue goes to the end of the one before it.             *)
LEMMA PassedAlong ==
  ASSUME NEW S, NEW c \in Seq(S), NEW e \in Seq(S), e # << >>
  PROVE  Append(c, Head(e)) \o Tail(e) = c \o e
<1> DEFINE x == Head(e)
           u == Tail(e)
           a == Append(c, x)
           b == c \o e
           r == a \o u
<1>1. /\ Len(e) \in Nat \ {0} /\ u \in Seq(S) /\ Len(u) = Len(e) - 1 /\ x = e[1] /\ x \in S
      /\ \A j \in 1 .. Len(u) : u[j] = e[j + 1]
  BY TailOf
<1> HIDE DEF x, u
<1>2. /\ Len(c) \in Nat /\ a \in Seq(S) /\ Len(a) = Len(c) + 1
      /\ \A j \in 1 .. Len(c) : a[j] = c[j]
      /\ a[Len(c) + 1] = x
  BY <1>1, AppendOf
<1>3. /\ b \in Seq(S) /\ Len(b) = Len(c) + Len(e)
      /\ \A i \in 1 .. Len(c) + Len(e) : b[i] = IF i <= Len(c) THEN c[i] ELSE e[i - Len(c)]
  BY ConcatProperties
<1> HIDE DEF a
<1>4. /\ r \in Seq(S) /\ Len(r) = Len(a) + Len(u)
      /\ \A i \in 1 .. Len(a) + Len(u) : r[i] = IF i <= Len(a) THEN a[i] ELSE u[i - Len(a)]
  BY <1>1, <1>2, ConcatProperties
<1> HIDE DEF b, r
<1>5. Len(r) = Len(b)
  BY <1>1, <1>2, <1>3, <1>4
<1>6. ASSUME NEW i \in 1 .. Len(r) PROVE r[i] = b[i]
  <2>0. i \in Nat /\ i >= 1 /\ i <= Len(c) + Len(e) /\ i \in 1 .. Len(c) + Len(e)
        /\ i \in 1 .. Len(a) + Len(u)
    BY <1>1, <1>2, <1>3, <1>4
  <2>1. CASE i <= Len(c)
    <3>1. i \in 1 .. Len(c) /\ i <= Len(a)
      BY <1>2, <2>0, <2>1
    <3>2. r[i] = a[i] /\ b[i] = c[i]
      BY <1>3, <1>4, <2>0, <2>1, <3>1
    <3> QED BY <1>2, <3>1, <3>2
  <2>2. CASE i = Len(c) + 1
    <3>1. i - Len(c) = 1 /\ ~(i <= Len(c)) /\ i <= Len(a)
      BY <1>2, <2>2
    <3> QED BY <1>1, <1>2, <1>3, <1>4, <2>0, <2>2, <3>1
  <2>3. CASE i > Len(c) + 1
    <3>1. /\ ~(i <= Len(c)) /\ ~(i <= Len(a)) /\ i - Len(a) \in 1 .. Len(u)
          /\ (i - Len(a)) + 1 = i - Len(c)
      BY <1>1, <1>2, <2>0, <2>3
    <3> QED BY <1>1, <1>3, <1>4, <2>0, <3>1
  <2> QED BY <1>2, <2>0, <2>1, <2>2, <2>3
<1>7. r = b
  BY <1>3, <1>4, <1>5, <1>6, SeqEqual
<1> QED BY <1>7 DEF r, b, a, x, u

(* Whoever transmits has a call with somebody else.                        *)
LEMMA TransmitsTo ==
  ASSUME IInv, NEW n \in Fpga, HandOverAt(n), FpgaCalm(n), mpe[n].fsm \in SendingStates
  PROVE  mpe[n].rank \in Rank /\ mpe[n].rank # n /\ fifo[n].mpiif = << >>
<1>1. CASE mpe[n].fsm \in {"SEND_REQ", "SEND_DATA_RD", "SEND_DATA_WRD"}
  BY <1>1, FpgaSends DEF SendStates, Current
<1>2. CASE mpe[n].fsm = "SEND_CLEAR"
  BY <1>2, FpgaReceives DEF RecvStates, Current
<1>3. CASE mpe[n].fsm = "SEND_ACK"
  <2> DEFINE m == mpe[n]
             f == fifo[n]
             d == deq[n]
             w == wrap[n]
             op == CurrentOp(n)
  <2>1. m.fsm = "SEND_ACK" /\ HandOver(m, f, d, w, op)
    BY <1>3 DEF HandOverAt
  <2> HIDE DEF m, f, d, w, op
  <2>2. f.mpiif = << >> /\ m.rank = op.peer /\ w.state # "READY"
    BY <2>1 DEF HandOver, Resting, Sending, Receiving, Stuck, PassedOn
  <2> QED BY <2>2, FpgaRunning DEF m, f, d, w, op
<1> QED BY <1>1, <1>2, <1>3 DEF SendingStates

(* pDeqSend: a packet goes from the FIFO to the network.                   *)
LEMMA DeqSendHs ==
  ASSUME IInv, Unlooped, NEW n \in Fpga, HandOverAt(n), FpgaCalm(n), DeqSend(n), UNCHANGED cpu
  PROVE  HsStays /\ FpgaCalm(n)' /\ Unlooped'
<1> DEFINE q == mpe[n].rank
           t == fifo[n].tx
           x == Head(t)
           c == net[<<n, q>>]
           e == Queue(n, q)
<1>1. /\ n \in Rank /\ FpgaStep(n) /\ mpe' = mpe /\ deq' = deq /\ wrap' = wrap /\ got' = got
      /\ fifo[n] \in Fifos /\ t # << >> /\ MpeTypeOK /\ TxAlternatesAt(n) /\ Addressed(n)
  BY Local, FpgaView DEF DeqSend, FpgaStep, IInv, FpgaInv, FpgaTypeOK, TxAlternates, FpgaCalm
<1>2. mpe[n].fsm \in SendingStates
  BY <1>1 DEF TxAlternatesAt
<1>3. q \in Rank /\ q # n /\ fifo[n].mpiif = << >>
  BY <1>2, TransmitsTo
<1>4. t \in Seq(TxEntry) /\ c \in Seq(Packet) /\ e \in Seq(Packet)
      /\ net \in [Rank \X Rank -> Seq(Packet)]
  BY <1>1, <1>3, QueueType DEF Fifos, IInv, FpgaInv, FpgaTypeOK, NetworkTypeOK
<1>5. /\ fifo'[n].tx = Tail(t) /\ fifo'[n].mpiif = fifo[n].mpiif
      /\ fifo'[n].mpiData = fifo[n].mpiData /\ fifo'[n].rx = fifo[n].rx
      /\ fifo'[n].appData = fifo[n].appData /\ fifo'[n].feedback = fifo[n].feedback
      /\ fifo'[n].expLen = fifo[n].expLen /\ fifo'[n].recvDone = fifo[n].recvDone
  BY <1>1 DEF DeqSend, MpeTypeOK, Fifos
<1> HIDE DEF t
<1>6. /\ Len(t) \in Nat \ {0} /\ Len(Tail(t)) = Len(t) - 1 /\ x = t[1]
      /\ \A j \in 1 .. Len(Tail(t)) : Tail(t)[j] = t[j + 1]
  BY <1>1, <1>4, TailOf DEF t
<1>7. x.pkt.dst = q
  <2>1. 1 \in 1 .. Len(t)
    BY <1>6
  <2> QED BY <1>1, <1>6, <2>1 DEF Addressed, t
<1>8. net' = [net EXCEPT ![<<n, q>>] = Append(c, x.pkt)]
  BY <1>7 DEF DeqSend, Transmit, t
<1>9. e # << >> /\ Head(e) = x.pkt /\ e' = Tail(e)
  <2>1. e = [i \in 1 .. Len(t) |-> t[i].pkt] /\ Len(e) = Len(t)
    BY <1>4, <1>6 DEF Queue, t
  <2>2. e' = [i \in 1 .. Len(Tail(t)) |-> Tail(t)[i].pkt]
    BY <1>1, <1>5 DEF Queue
  <2> HIDE DEF e, x
  <2>3. /\ e # << >> /\ Head(e) = e[1] /\ Len(Tail(e)) = Len(t) - 1 /\ Tail(e) \in Seq(Packet)
        /\ \A j \in 1 .. Len(Tail(e)) : Tail(e)[j] = e[j + 1]
    <3>1. e # << >>
      BY <1>6, <2>1
    <3> QED BY <1>4, <2>1, <3>1, TailOf
  <2>4. e[1] = x.pkt
    BY <1>6, <2>1
  <2>5. \A j \in 1 .. Len(t) - 1 : Tail(e)[j] = Tail(t)[j].pkt
    <3>1. ASSUME NEW j \in 1 .. Len(t) - 1 PROVE Tail(e)[j] = Tail(t)[j].pkt
      <4>1. j + 1 \in 1 .. Len(t)
        BY <1>6
      <4>2. e[j + 1] = t[j + 1].pkt
        BY <2>1, <4>1
      <4> QED BY <1>6, <2>3, <4>2
    <3> QED BY <3>1
  <2>6. Tail(e) = [i \in 1 .. Len(t) - 1 |-> Tail(t)[i].pkt]
    <3> DEFINE u == Tail(e)
               v == Tail(t)
    <3>1. u \in Seq(Packet) /\ Len(u) = Len(t) - 1 /\ \A j \in 1 .. Len(t) - 1 : u[j] = v[j].pkt
      BY <2>3, <2>5
    <3> HIDE DEF u, v
    <3>2. u = [i \in 1 .. Len(t) - 1 |-> v[i].pkt]
      BY <3>1
    <3> QED BY <3>2 DEF u, v
  <2>7. Tail(e) = [i \in 1 .. Len(Tail(t)) |-> Tail(t)[i].pkt]
    BY <1>6, <2>6
  <2> QED BY <2>2, <2>3, <2>4, <2>7
<1>10. Append(c, x.pkt) \o Tail(e) = c \o e
  <2> HIDE DEF c, e, x
  <2> QED BY <1>4, <1>9, PassedAlong
<1>11. net'[<<n, q>>] = Append(c, x.pkt)
       /\ \A a, b \in Rank : (a # n \/ b # q) => net'[<<a, b>>] = net[<<a, b>>]
  <2> HIDE DEF c, x
  <2> QED BY <1>1, <1>3, <1>4, <1>8
<1>12. WaysStay
  <2>1. Way(n, q)' = Way(n, q)
    <3>1. net'[<<n, q>>] \o e' = c \o e
      <4> HIDE DEF c, e, x
      <4> QED BY <1>9, <1>10, <1>11
    <3> QED BY <1>1, <3>1 DEF Way
  <2>2. ASSUME NEW d \in Rank, d # q PROVE Way(n, d)' = Way(n, d)
    BY <1>1, <1>11, <2>2 DEF Way, Queue
  <2>3. ASSUME NEW a \in Rank, NEW d \in Rank, a # n PROVE Way(a, d)' = Way(a, d)
    BY <1>1, <1>11, <2>3, FpgaFrame DEF Way
  <2>4. ASSUME NEW a \in Rank, NEW d \in Rank PROVE Way(a, d)' = Way(a, d)
    <3>1. CASE a = n /\ d = q
      BY <1>1, <2>1, <3>1 DEF Way, Queue
    <3>2. CASE a = n /\ d # q
      BY <2>2, <3>2
    <3>3. CASE a # n
      BY <2>3, <3>3
    <3> QED BY <3>1, <3>2, <3>3
  <2> QED BY <2>4 DEF WaysStay
<1>13. Unlooped'
  BY <1>3, <1>11 DEF Unlooped
<1>14. Stage(n)' = Stage(n) /\ Moved(n)' = Moved(n) /\ Result(n)' = Result(n)
  <2>1. /\ StageF(n)' = StageF(n) /\ Finished(n)' = Finished(n) /\ Incoming(n)' = Incoming(n)
        /\ CurrentOp(n)' = CurrentOp(n) /\ Position(n)' = Position(n)
    BY <1>1, <1>5 DEF StageF, Finished, Incoming, CurrentOp, Position
  <2>2. MovedF(n)' = MovedF(n)
    BY <1>1, <2>1 DEF MovedF
  <2> QED BY <1>1, <2>1, <2>2, FpgaView
<1>15. KeptStays /\ OthersStay(n)
  <2>1. \A s \in Rank : Kept(n, s)' = Kept(n, s)
    BY <1>1 DEF Kept
  <2> QED BY <1>1, <2>1, FpgaFrame DEF KeptStays
<1>16. HsStays
  BY <1>12, <1>14, <1>15 DEF HsStays, OthersStay
<1>17. FpgaCalm(n)'
  <2>1. Addressed(n)'
    <3>1. ASSUME NEW j \in 1 .. Len(Tail(t)) PROVE Tail(t)[j].pkt.dst = q
      <4>1. j + 1 \in 1 .. Len(t)
        BY <1>6
      <4> QED BY <1>1, <1>6, <4>1 DEF Addressed, t
    <3> QED BY <1>1, <1>5, <3>1 DEF Addressed
  <2>2. InOrder(n)' /\ Alive(n)' /\ Took(n)'
    BY <1>1, <1>5 DEF FpgaCalm, InOrder, Alive, Took, Stuck, NoData, Clean, In, Position,
       Before, Incoming
  <2> QED BY <1>1, <2>1, <2>2 DEF FpgaCalm
<1> QED BY <1>13, <1>16, <1>17

(* pDeqRecv: the engine has begun to receive.                              *)
LEMMA DeqRecvStartHs ==
  ASSUME IInv, Unlooped, NEW n \in Fpga, HandOverAt(n), FpgaCalm(n), DeqRecvStart(n),
         UNCHANGED cpu
  PROVE  HsStays /\ FpgaCalm(n)' /\ Unlooped'
<1>1. /\ FpgaStep(n) /\ mpe' = mpe /\ wrap' = wrap /\ got' = got /\ UNCHANGED net
      /\ fifo[n] \in Fifos /\ MpeTypeOK /\ fifo[n].expLen # << >>
  BY Local DEF DeqRecvStart, FpgaStep, DeqRecv, IInv, FpgaInv, FpgaTypeOK, netVars
<1>2. /\ fifo'[n].tx = fifo[n].tx /\ fifo'[n].mpiif = fifo[n].mpiif
      /\ fifo'[n].mpiData = fifo[n].mpiData /\ fifo'[n].rx = fifo[n].rx
      /\ fifo'[n].appData = fifo[n].appData /\ fifo'[n].feedback = fifo[n].feedback
      /\ deq'[n].state = "DEQ_WRITE"
  BY <1>1 DEF DeqRecvStart, MpeTypeOK, Fifos
<1>3. Stage(n)' = Stage(n) /\ Moved(n)' = Moved(n) /\ Result(n)' = Result(n)
  <2>1. /\ StageF(n)' = StageF(n) /\ Finished(n)' = Finished(n) /\ Incoming(n)' = Incoming(n)
        /\ CurrentOp(n)' = CurrentOp(n) /\ Position(n)' = Position(n)
    BY <1>1, <1>2 DEF StageF, Finished, Incoming, CurrentOp, Position
  <2>2. MovedF(n)' = MovedF(n)
    BY <1>1, <2>1 DEF MovedF
  <2> QED BY <1>1, <2>1, <2>2, FpgaView
<1>4. \A s \in Rank : Kept(n, s)' = Kept(n, s)
  BY <1>1 DEF Kept
<1>5. HsStays /\ Unlooped'
  BY <1>1, <1>2, <1>3, <1>4, FpgaStays
<1>6. FpgaCalm(n)'
  <2>1. ~NoData(fifo'[n], deq'[n])
    BY <1>2 DEF NoData, Clean
  <2>2. InOrder(n)' /\ Alive(n)' /\ Took(n)' /\ Addressed(n)'
    BY <1>1, <1>2, <2>1 DEF FpgaCalm, InOrder, Alive, Took, Stuck, In, Position,
       Before, Incoming, Addressed
  <2> QED BY <1>1, <2>2 DEF FpgaCalm
<1> QED BY <1>5, <1>6

(* A unit moves from sFifoDataRX to the wrapper.                           *)
LEMMA DeqRecvWriteHs ==
  ASSUME IInv, Unlooped, NEW n \in Fpga, HandOverAt(n), FpgaCalm(n), DeqRecvWrite(n),
         UNCHANGED cpu
  PROVE  HsStays /\ FpgaCalm(n)' /\ Unlooped'
<1> DEFINE last == deq[n].cnt + 1 >= deq[n].exp
           q == fifo[n].appData
           rx == fifo[n].rx
           x == [unit |-> Head(rx), tlast |-> last]
<1>1. /\ FpgaStep(n) /\ mpe' = mpe /\ wrap' = wrap /\ got' = got /\ UNCHANGED net
      /\ fifo[n] \in Fifos /\ MpeTypeOK /\ rx # << >>
  BY Local DEF DeqRecvWrite, FpgaStep, DeqRecv, IInv, FpgaInv, FpgaTypeOK, netVars
<1>2. /\ fifo'[n].tx = fifo[n].tx /\ fifo'[n].mpiif = fifo[n].mpiif
      /\ fifo'[n].mpiData = fifo[n].mpiData /\ fifo'[n].rx = Tail(rx)
      /\ fifo'[n].appData = Append(q, x) /\ fifo'[n].feedback = fifo[n].feedback
  <2> HIDE DEF last
  <2> QED BY <1>1 DEF DeqRecvWrite, MpeTypeOK, Fifos, last
<1>3. /\ q \in Seq(RxEntry) /\ rx \in Seq(Unit) /\ Head(rx) \in Unit /\ x \in RxEntry
  <2>1. q \in Seq(RxEntry) /\ rx \in Seq(Unit)
    BY <1>1, OnlyUnits DEF Fifos
  <2>2. Head(rx) \in Unit /\ last \in BOOLEAN
    <3> HIDE DEF rx
    <3> QED BY <1>1, <2>1, TailOf
  <2> HIDE DEF last, rx, q
  <2> QED BY <2>1, <2>2 DEF RxEntry
<1>4. Incoming(n)' = Incoming(n)
  <2> DEFINE a == [i \in 1 .. Len(q) |-> q[i].unit]
             b == wrap[n].data
             r == Append(q, x)
             z == [i \in 1 .. Len(r) |-> r[i].unit]
  <2>1. /\ a \in Seq(Unit) /\ Len(a) = Len(q) /\ b \in Seq(Unit)
        /\ Incoming(n) = b \o a \o rx
    BY IncomingOf
  <2>2. Incoming(n)' = b \o z \o Tail(rx)
    BY <1>1, <1>2 DEF Incoming
  <2>3. z = Append(a, Head(rx))
    <3>1. /\ Len(q) \in Nat /\ Len(r) = Len(q) + 1 /\ r[Len(q) + 1] = x
          /\ \A j \in 1 .. Len(q) : r[j] = q[j]
      <4> HIDE DEF q, x
      <4> QED BY <1>3, AppendOf
    <3>2. \A j \in 1 .. Len(q) : a[j] = q[j].unit
      OBVIOUS
    <3>3. x.unit = Head(rx)
      OBVIOUS
    <3> HIDE DEF a, r, q, x, rx
    <3>4. /\ Append(a, Head(rx)) \in Seq(Unit) /\ Len(Append(a, Head(rx))) = Len(q) + 1
          /\ \A j \in 1 .. Len(q) : Append(a, Head(rx))[j] = a[j]
          /\ Append(a, Head(rx))[Len(q) + 1] = Head(rx)
      BY <1>3, <2>1, AppendOf
    <3> DEFINE y == Append(a, Head(rx))
    <3>5. \A j \in 1 .. Len(q) + 1 : y[j] = r[j].unit
      BY <3>1, <3>2, <3>3, <3>4
    <3>6. y \in Seq(Unit) /\ Len(y) = Len(r)
      BY <3>1, <3>4
    <3> HIDE DEF y
    <3>7. y = [i \in 1 .. Len(r) |-> r[i].unit]
      BY <3>1, <3>5, <3>6
    <3> QED BY <3>7 DEF y
  <2> HIDE DEF a, b, z, rx
  <2>4. b \o a \in Seq(Unit)
    BY <2>1
  <2>5. b \o Append(a, Head(rx)) = Append(b \o a, Head(rx))
    BY <1>3, <2>1, AppendChain
  <2>6. Append(b \o a, Head(rx)) \o Tail(rx) = (b \o a) \o rx
    BY <1>1, <1>3, <2>4, PassedAlong DEF rx
  <2> QED BY <2>1, <2>2, <2>3, <2>5, <2>6
<1>5. Stage(n)' = Stage(n) /\ Moved(n)' = Moved(n) /\ Result(n)' = Result(n)
  <2>1. /\ StageF(n)' = StageF(n) /\ Finished(n)' = Finished(n)
        /\ CurrentOp(n)' = CurrentOp(n) /\ Position(n)' = Position(n)
    BY <1>1, <1>2 DEF StageF, Finished, CurrentOp, Position
  <2>2. MovedF(n)' = MovedF(n)
    BY <1>1, <1>4, <2>1 DEF MovedF
  <2> QED BY <1>1, <1>4, <2>1, <2>2, FpgaView
<1>6. \A s \in Rank : Kept(n, s)' = Kept(n, s)
  BY <1>1 DEF Kept
<1>7. HsStays /\ Unlooped'
  BY <1>1, <1>2, <1>5, <1>6, FpgaStays
<1>8. FpgaCalm(n)'
  <2>1. ~NoData(fifo'[n], deq'[n])
    <3>1. Append(q, x) # << >>
      <4> HIDE DEF q, x
      <4> QED BY <1>3, AppendOf
    <3> QED BY <1>2, <3>1 DEF NoData
  <2>2. InOrder(n)' /\ Addressed(n)'
    BY <1>1, <1>2 DEF FpgaCalm, InOrder, In, Position, Addressed
  <2>3. Alive(n)'
    BY <1>1, <1>2, <2>1 DEF FpgaCalm, Alive, Stuck
  <2>4. Took(n)'
    <3>1. Before(n)' = Before(n)
      BY <1>1, <1>2 DEF Before, In
    <3> QED BY <1>1, <1>4, <3>1 DEF FpgaCalm, Took, In
  <2> QED BY <1>1, <2>2, <2>3, <2>4 DEF FpgaCalm
<1> QED BY <1>7, <1>8

(* The wrapper writes the call to the engine.                              *)
LEMMA WriteInfoHs ==
  ASSUME IInv, Unlooped, NEW n \in Fpga, HandOverAt(n), FpgaCalm(n), WriteInfo(n),
         UNCHANGED cpu
  PROVE  HsStays /\ FpgaCalm(n)' /\ Unlooped'
<1> DEFINE op == CurrentOp(n)
           info == [call |-> op.call, count |-> op.count, rank |-> op.peer]
<1>1. /\ FpgaStep(n) /\ mpe' = mpe /\ deq' = deq /\ got' = got /\ UNCHANGED net
      /\ fifo[n] \in Fifos /\ wrap[n] \in Wrappers /\ MpeTypeOK /\ wrap[n].state = "READY"
  BY Local DEF WriteInfo, FpgaStep, Wrapper, IInv, FpgaInv, FpgaTypeOK, netVars
<1>2. Resting(mpe[n], fifo[n], deq[n], wrap[n])
  <2> DEFINE m == mpe[n]
             f == fifo[n]
             d == deq[n]
             w == wrap[n]
  <2>1. HandOver(m, f, d, w, op) /\ w.state = "READY"
    BY <1>1 DEF HandOverAt
  <2> HIDE DEF m, f, d, w, op
  <2>2. Resting(m, f, d, w)
    BY <2>1 DEF HandOver, Sending, Receiving, OnTheWay, PassedOn, Stuck
  <2> QED BY <2>2 DEF m, f, d, w
<1>3. /\ mpe[n].fsm \in {"MPE_RESET", "IDLE"} /\ fifo[n].mpiif = << >>
      /\ fifo[n].mpiData = << >> /\ fifo[n].feedback = << >>
  BY <1>2 DEF Resting
<1>4. /\ fifo'[n].tx = fifo[n].tx /\ fifo'[n].mpiif = Append(fifo[n].mpiif, info)
      /\ fifo'[n].mpiData = fifo[n].mpiData /\ fifo'[n].rx = fifo[n].rx
      /\ fifo'[n].appData = fifo[n].appData /\ fifo'[n].feedback = fifo[n].feedback
      /\ wrap'[n].data = << >>
  <2> HIDE DEF info
  <2> QED BY <1>1 DEF WriteInfo, MpeTypeOK, Fifos, info
<1>5. fifo'[n].mpiif # << >>
  <2>1. Append(<< >>, info) # << >>
    OBVIOUS
  <2> QED BY <1>3, <1>4, <2>1
<1>6. Stage(n)' = Stage(n) /\ Moved(n)' = Moved(n) /\ Result(n)' = Result(n)
  <2>1. StageF(n) = "out" /\ StageF(n)' = "out" /\ ~Finished(n) /\ ~Finished(n)'
    BY <1>1, <1>3, <1>5 DEF StageF, Finished
  <2>2. MovedF(n) = << >> /\ MovedF(n)' = << >>
    BY <1>1, <1>3, <2>1 DEF MovedF
  <2> QED BY <1>1, <2>1, <2>2, FpgaView
<1>7. \A s \in Rank : Kept(n, s)' = Kept(n, s)
  BY <1>1 DEF Kept
<1>8. HsStays /\ Unlooped'
  BY <1>1, <1>4, <1>6, <1>7, FpgaStays
<1>9. FpgaCalm(n)'
  <2>1. InOrder(n)' /\ Addressed(n)'
    BY <1>1, <1>4 DEF FpgaCalm, InOrder, In, Position, Addressed
  <2>2. Alive(n)' /\ Took(n)'
    BY <1>1, <1>3, <1>4, <1>5 DEF FpgaCalm, Alive, Took, In
  <2> QED BY <1>1, <2>1, <2>2 DEF FpgaCalm
<1> QED BY <1>8, <1>9

(* The wrapper writes a unit to the engine.                                *)
LEMMA SendWriteDataHs ==
  ASSUME IInv, Unlooped, NEW n \in Fpga, HandOverAt(n), FpgaCalm(n), SendWriteData(n),
         UNCHANGED cpu
  PROVE  HsStays /\ FpgaCalm(n)' /\ Unlooped'
<1> DEFINE k == Position(n)
           y == Payload(n, k)
<1>1. /\ FpgaStep(n) /\ mpe' = mpe /\ deq' = deq /\ got' = got /\ UNCHANGED net
      /\ fifo[n] \in Fifos /\ wrap[n] \in Wrappers /\ MpeTypeOK
      /\ wrap[n].state = "SEND_WRITE_DATA"
  BY Local DEF SendWriteData, FpgaStep, Wrapper, IInv, FpgaInv, FpgaTypeOK, netVars
<1>2. /\ fifo[n].mpiData = << >> /\ fifo[n].feedback = << >>
      /\ mpe[n].fsm = "SEND_DATA_RD" => mpe[n].sent = 0
  <2> DEFINE m == mpe[n]
             f == fifo[n]
             d == deq[n]
             w == wrap[n]
             op == CurrentOp(n)
  <2>1. HandOver(m, f, d, w, op) /\ w.state = "SEND_WRITE_DATA" /\ f \in Fifos
    BY <1>1 DEF HandOverAt
  <2> HIDE DEF m, f, d, w, op
  <2>2. /\ f.feedback = << >> /\ Len(f.mpiData) = 0
        /\ m.fsm = "SEND_DATA_RD" => m.sent = 0
    BY <2>1 DEF HandOver, Resting, Sending, Receiving, OnTheWay, PassedOn, Stuck, Offered, ToldFail
  <2>3. f.mpiData \in Seq(Unit)
    BY <2>1 DEF Fifos
  <2>4. f.mpiData = << >>
    BY <2>2, <2>3
  <2> QED BY <2>2, <2>4 DEF m, f
<1>3. /\ fifo'[n].tx = fifo[n].tx /\ fifo'[n].mpiif = fifo[n].mpiif
      /\ fifo'[n].mpiData = fifo[n].mpiData \o y /\ fifo'[n].rx = fifo[n].rx
      /\ fifo'[n].appData = fifo[n].appData /\ fifo'[n].feedback = fifo[n].feedback
      /\ wrap'[n].state = "SEND_FINISH" /\ wrap'[n].data = wrap[n].data
  <2> HIDE DEF y
  <2> QED BY <1>1 DEF SendWriteData, MpeTypeOK, Fifos, Wrappers, y
<1>4. /\ fifo'[n].mpiData = y /\ Len(y) = CurrentOp(n).count /\ CurrentOp(n).count \in Nat
      /\ \A i \in 1 .. CurrentOp(n).count : y[i] = <<n, k, i>>
  <2>1. k \in Nat /\ n \in Nat /\ CurrentOp(n).count \in Nat
    BY <1>1, FpgaRunning
  <2>2. y = [p \in 1 .. CurrentOp(n).count |-> <<n, k, p>>]
    BY DEF Payload, CurrentOp
  <2> HIDE DEF k
  <2>3. ASSUME NEW c \in Nat PROVE [p \in 1 .. c |-> <<n, k, p>>] \in Seq(Nat \X Nat \X Nat)
    BY <2>1
  <2>4. y \in Seq(Nat \X Nat \X Nat)
    BY <2>1, <2>2, <2>3
  <2> HIDE DEF y
  <2>5. << >> \o y = y
    BY <2>4, ConcatEmptySeq
  <2> QED BY <1>2, <1>3, <2>1, <2>2, <2>5
<1>5. Stage(n)' = Stage(n) /\ Moved(n)' = Moved(n) /\ Result(n)' = Result(n)
  <2>1. /\ StageF(n)' = StageF(n) /\ Incoming(n)' = Incoming(n) /\ Finished(n)' = Finished(n)
        /\ CurrentOp(n)' = CurrentOp(n) /\ Position(n)' = Position(n)
    BY <1>1, <1>3 DEF StageF, Incoming, Finished, CurrentOp, Position
  <2>2. MovedF(n)' = MovedF(n)
    BY <1>1, <2>1 DEF MovedF
  <2> QED BY <1>1, <2>1, <2>2, FpgaView
<1>6. \A s \in Rank : Kept(n, s)' = Kept(n, s)
  BY <1>1 DEF Kept
<1>7. HsStays /\ Unlooped'
  BY <1>1, <1>3, <1>5, <1>6, FpgaStays
<1>8. FpgaCalm(n)'
  <2>1. InOrder(n)'
    <3>1. Position(n)' = k
      BY <1>1 DEF Position
    <3> HIDE DEF y, k
    <3>2. ASSUME NEW i \in 1 .. CurrentOp(n).count
          PROVE y[i] = <<n, k, (IF mpe'[n].fsm = "SEND_DATA_RD" THEN mpe'[n].sent ELSE 0) + i>>
      <4>1. 0 + i = i
        BY <1>4
      <4>2. (IF mpe'[n].fsm = "SEND_DATA_RD" THEN mpe'[n].sent ELSE 0) = 0
        BY <1>1, <1>2
      <4> QED BY <1>4, <4>1, <4>2
    <3> QED BY <1>4, <3>1, <3>2 DEF InOrder, In
  <2>2. Addressed(n)'
    BY <1>1, <1>3 DEF FpgaCalm, Addressed
  <2>3. Alive(n)' /\ Took(n)'
    <3>1. Incoming(n)' = Incoming(n)
      BY <1>1, <1>3 DEF Incoming
    <3> QED BY <1>1, <1>2, <1>3, <3>1 DEF FpgaCalm, Alive, Took, In, Stuck
  <2> QED BY <1>1, <2>1, <2>2, <2>3 DEF FpgaCalm
<1> QED BY <1>7, <1>8

(* The wrapper reads that its send is complete, and returns.               *)
LEMMA SendFinishHs ==
  ASSUME IInv, Unlooped, NEW n \in Fpga, HandOverAt(n), FpgaCalm(n), SendFinish(n),
         UNCHANGED cpu
  PROVE  HsStays /\ FpgaCalm(n)' /\ Unlooped'
<1>1. /\ FpgaStep(n) /\ mpe' = mpe /\ deq' = deq /\ UNCHANGED net
      /\ fifo[n] \in Fifos /\ wrap[n] \in Wrappers /\ MpeTypeOK /\ n \in Rank
      /\ wrap[n].state = "SEND_FINISH" /\ fifo[n].feedback # << >>
      /\ got \in [Rank -> Seq(Seq(Unit))]
  BY Local, FpgaView DEF SendFinish, FpgaStep, Wrapper, IInv, FpgaInv, FpgaTypeOK, netVars,
     ApplicationTypeOK
<1>2. /\ mpe[n].fsm = "IDLE" /\ fifo[n].mpiif = << >> /\ fifo[n].mpiData = << >>
      /\ fifo[n].feedback = <<"OK">> /\ CurrentOp(n).call \in SendCalls
  <2> DEFINE m == mpe[n]
             f == fifo[n]
             d == deq[n]
             w == wrap[n]
             op == CurrentOp(n)
  <2>1. /\ HandOver(m, f, d, w, op) /\ w.state = "SEND_FINISH" /\ f.feedback # << >>
        /\ f.feedback # <<"FAIL">>
    BY <1>1 DEF HandOverAt, FpgaCalm, Alive
  <2> HIDE DEF m, f, d, w, op
  <2>2. /\ m.fsm = "IDLE" /\ f.mpiif = << >> /\ f.mpiData = << >>
        /\ f.feedback = <<"OK">> /\ op.call \in SendCalls
    BY <2>1 DEF HandOver, Resting, Sending, Receiving, OnTheWay, PassedOn, Stuck, Offered, ToldFail
  <2> QED BY <2>2 DEF m, f, op
<1>3. Head(fifo[n].feedback) = "OK" /\ Tail(fifo[n].feedback) = << >>
  BY <1>2
<1>4. /\ fifo'[n].tx = fifo[n].tx /\ fifo'[n].mpiif = << >> /\ fifo'[n].mpiData = << >>
      /\ fifo'[n].feedback = << >> /\ wrap'[n].state = "READY" /\ Return(n, << >>)
  BY <1>1, <1>2, <1>3 DEF SendFinish, MpeTypeOK, Fifos, Wrappers
<1>5. got'[n] = Append(got[n], << >>)
  BY <1>1, <1>4 DEF Return
<1>6. Stage(n)' = Stage(n) /\ Moved(n)' = Moved(n) /\ Result(n)' = Result(n)
  <2>1. StageF(n) = "out" /\ StageF(n)' = "out" /\ Finished(n) /\ ~Finished(n)'
    BY <1>1, <1>2, <1>4 DEF StageF, Finished
  <2>2. MovedF(n) = << >> /\ MovedF(n)' = << >>
    BY <1>1, <1>2, <2>1 DEF MovedF
  <2> QED BY <1>2, <1>5, <2>1, <2>2, FpgaView
<1>7. \A s \in Rank : Kept(n, s)' = Kept(n, s)
  BY <1>1 DEF Kept
<1>8. HsStays /\ Unlooped'
  BY <1>1, <1>4, <1>6, <1>7, FpgaStays
<1>9. FpgaCalm(n)'
  <2>1. InOrder(n)'
    <3>1. Len(fifo'[n].mpiData) = 0 /\ 1 .. 0 = {}
      BY <1>4
    <3> QED BY <3>1 DEF InOrder
  <2>2. Addressed(n)'
    BY <1>1, <1>4 DEF FpgaCalm, Addressed
  <2>3. Alive(n)' /\ Took(n)'
    <3>1. << >> # <<"FAIL">>
      OBVIOUS
    <3> QED BY <1>1, <1>2, <1>4, <3>1 DEF Alive, Took, In, Stuck
  <2> QED BY <1>1, <2>1, <2>2, <2>3 DEF FpgaCalm
<1> QED BY <1>8, <1>9

(* The wrapper takes the next unit.                                        *)
LEMMA RecvReadDataHs ==
  ASSUME IInv, Unlooped, NEW n \in Fpga, HandOverAt(n), FpgaCalm(n), RecvReadData(n),
         UNCHANGED cpu
  PROVE  HsStays /\ FpgaCalm(n)' /\ Unlooped'
<1> DEFINE q == fifo[n].appData
           x == Head(q)
           b == wrap[n].data
           a == [i \in 1 .. Len(q) |-> q[i].unit]
<1>1. /\ FpgaStep(n) /\ mpe' = mpe /\ deq' = deq /\ got' = got /\ UNCHANGED net
      /\ fifo[n] \in Fifos /\ wrap[n] \in Wrappers /\ MpeTypeOK
      /\ wrap[n].state = "RECV_READ_DATA" /\ q # << >>
  BY Local DEF RecvReadData, FpgaStep, Wrapper, IInv, FpgaInv, FpgaTypeOK, netVars
<1>2. /\ ~Before(n)
      /\ mpe[n].fsm \in {"RECV_DATA_START", "RECV_DATA_WRD", "SEND_ACK", "IDLE"}
      /\ mpe[n].fsm = "IDLE" => PassedOn(fifo[n], deq[n], wrap[n])
  <2> DEFINE m == mpe[n]
             f == fifo[n]
             d == deq[n]
             w == wrap[n]
             op == CurrentOp(n)
  <2>1. /\ HandOver(m, f, d, w, op) /\ w.state = "RECV_READ_DATA" /\ f.appData # << >>
    BY <1>1 DEF HandOverAt
  <2> HIDE DEF m, f, d, w, op
  <2>2. /\ f.mpiif = << >>
        /\ m.fsm \in {"RECV_DATA_START", "RECV_DATA_WRD", "SEND_ACK", "IDLE"}
        /\ m.fsm = "RECV_DATA_START" => m.more
        /\ m.fsm = "IDLE" => PassedOn(f, d, w)
    BY <2>1 DEF HandOver, Resting, Sending, Receiving, Stuck, NoData
  <2> QED BY <2>2 DEF Before, In, m, f, d, w
<1>3. /\ fifo'[n].tx = fifo[n].tx /\ fifo'[n].mpiif = fifo[n].mpiif
      /\ fifo'[n].mpiData = fifo[n].mpiData /\ fifo'[n].rx = fifo[n].rx
      /\ fifo'[n].appData = Tail(q) /\ fifo'[n].feedback = fifo[n].feedback
      /\ wrap'[n].state = (IF x.tlast THEN "RECV_FINISH" ELSE wrap[n].state)
      /\ wrap'[n].data = Append(b, x.unit)
  BY <1>1 DEF RecvReadData, MpeTypeOK, Fifos, Wrappers
<1>4. /\ q \in Seq(RxEntry) /\ a \in Seq(Unit) /\ Len(a) = Len(q) /\ b \in Seq(Unit)
      /\ fifo[n].rx \in Seq(Unit) /\ Incoming(n) = b \o a \o fifo[n].rx
  BY <1>1, IncomingOf DEF Fifos
<1>5. /\ Len(q) \in Nat \ {0} /\ Tail(q) \in Seq(RxEntry) /\ Len(Tail(q)) = Len(q) - 1
      /\ x = q[1] /\ x \in RxEntry
      /\ \A j \in 1 .. Len(Tail(q)) : Tail(q)[j] = q[j + 1]
      /\ Len(Tail(q)) = 0 => Tail(q) = << >>
  <2> HIDE DEF q
  <2> QED BY <1>1, <1>4, TailOf DEF q
<1>6. /\ a # << >> /\ Head(a) = x.unit
      /\ Tail(a) = [i \in 1 .. Len(Tail(q)) |-> Tail(q)[i].unit]
  <2>1. /\ \A j \in 1 .. Len(q) : a[j] = q[j].unit
    OBVIOUS
  <2> DEFINE u == Tail(a)
             v == Tail(q)
  <2> HIDE DEF a, q, x
  <2>2. a # << >>
    BY <1>4, <1>5
  <2>3. /\ Head(a) = a[1] /\ u \in Seq(Unit) /\ Len(u) = Len(q) - 1
        /\ \A j \in 1 .. Len(u) : u[j] = a[j + 1]
    BY <1>4, <2>2, TailOf
  <2>4. Head(a) = x.unit
    BY <1>5, <2>1, <2>3
  <2>5. ASSUME NEW j \in 1 .. Len(q) - 1 PROVE u[j] = v[j].unit
    <3>1. j + 1 \in 1 .. Len(q) /\ j \in 1 .. Len(u) /\ j \in 1 .. Len(v)
      BY <1>5, <2>3
    <3>2. u[j] = a[j + 1] /\ v[j] = q[j + 1]
      BY <1>5, <2>3, <3>1
    <3> QED BY <2>1, <3>1, <3>2
  <2> HIDE DEF u, v
  <2>6. u = [i \in 1 .. Len(q) - 1 |-> v[i].unit]
    BY <2>3, <2>5
  <2>7. u = [i \in 1 .. Len(v) |-> v[i].unit]
    BY <1>5, <2>6 DEF v
  <2> QED BY <2>2, <2>4, <2>7 DEF u, v
<1>7. Incoming(n)' = Incoming(n)
  <2>1. Incoming(n)' = Append(b, Head(a)) \o Tail(a) \o fifo[n].rx
    BY <1>3, <1>6 DEF Incoming
  <2> HIDE DEF a, b
  <2>2. Append(b, Head(a)) \o Tail(a) = b \o a
    BY <1>4, <1>6, PassedAlong
  <2> QED BY <1>4, <2>1, <2>2
<1>8. Stage(n)' = Stage(n) /\ Moved(n)' = Moved(n) /\ Result(n)' = Result(n)
  <2>1. wrap'[n].state # "READY"
    BY <1>1, <1>3
  <2>2. /\ StageF(n)' = StageF(n) /\ Finished(n)' = Finished(n)
        /\ CurrentOp(n)' = CurrentOp(n) /\ Position(n)' = Position(n)
    BY <1>1, <1>3, <2>1 DEF StageF, Finished, CurrentOp, Position
  <2>3. MovedF(n)' = MovedF(n)
    BY <1>1, <1>7, <2>2 DEF MovedF
  <2> QED BY <1>1, <1>7, <2>2, <2>3, FpgaView
<1>9. \A s \in Rank : Kept(n, s)' = Kept(n, s)
  BY <1>1 DEF Kept
<1>10. HsStays /\ Unlooped'
  BY <1>1, <1>3, <1>8, <1>9, FpgaStays
<1>11. FpgaCalm(n)'
  <2>1. InOrder(n)' /\ Addressed(n)'
    BY <1>1, <1>3 DEF FpgaCalm, InOrder, In, Position, Addressed
  <2>2. Alive(n)'
    <3>1. ASSUME mpe[n].fsm = "IDLE", Tail(q) = << >> PROVE x.tlast
      <4>1. \A i \in 1 .. Len(q) : q[i].tlast <=> i = Len(q)
        BY <1>1, <1>2, <3>1 DEF PassedOn
      <4>2. Len(q) = 1 /\ 1 \in 1 .. Len(q)
        <5>1. Len(Tail(q)) = 0
          <6>1. Len(<< >>) = 0
            OBVIOUS
          <6> QED BY <3>1, <6>1
        <5> QED BY <1>5, <5>1
      <4> HIDE DEF q, x
      <4> QED BY <1>5, <4>1, <4>2
    <3>2. ~Stuck(mpe'[n], fifo'[n], deq'[n], wrap'[n])
      BY <1>1, <1>2, <1>3, <3>1 DEF Stuck, NoData
    <3> QED BY <1>3, <3>2 DEF FpgaCalm, Alive
  <2>3. Took(n)'
    <3>1. Before(n)' = Before(n)
      BY <1>1, <1>3 DEF Before, In
    <3> QED BY <1>1, <1>2, <1>7, <3>1 DEF FpgaCalm, Took, In
  <2> QED BY <1>1, <2>1, <2>2, <2>3 DEF FpgaCalm
<1> QED BY <1>10, <1>11

(* The wrapper reads that its receive is complete, and returns the data.   *)
LEMMA RecvFinishHs ==
  ASSUME IInv, Unlooped, NEW n \in Fpga, HandOverAt(n), FpgaCalm(n), RecvFinish(n),
         UNCHANGED cpu
  PROVE  HsStays /\ FpgaCalm(n)' /\ Unlooped'
<1>1. /\ FpgaStep(n) /\ mpe' = mpe /\ deq' = deq /\ UNCHANGED net
      /\ fifo[n] \in Fifos /\ wrap[n] \in Wrappers /\ MpeTypeOK /\ n \in Rank
      /\ wrap[n].state = "RECV_FINISH" /\ fifo[n].feedback # << >>
      /\ got \in [Rank -> Seq(Seq(Unit))]
  BY Local, FpgaView DEF RecvFinish, FpgaStep, Wrapper, IInv, FpgaInv, FpgaTypeOK, netVars,
     ApplicationTypeOK
<1>2. /\ mpe[n].fsm = "IDLE" /\ fifo[n].mpiif = << >> /\ fifo[n].mpiData = << >>
      /\ fifo[n].feedback = <<"OK">> /\ CurrentOp(n).call \in RecvCalls
      /\ fifo[n].rx = << >> /\ fifo[n].appData = << >>
  <2> DEFINE m == mpe[n]
             f == fifo[n]
             d == deq[n]
             w == wrap[n]
             op == CurrentOp(n)
  <2>1. /\ HandOver(m, f, d, w, op) /\ w.state = "RECV_FINISH" /\ f.feedback # << >>
    BY <1>1 DEF HandOverAt
  <2> HIDE DEF m, f, d, w, op
  <2>2. /\ m.fsm = "IDLE" /\ f.mpiif = << >> /\ f.mpiData = << >>
        /\ f.feedback = <<"OK">> /\ op.call \in RecvCalls /\ f.rx = << >> /\ f.appData = << >>
    BY <2>1 DEF HandOver, Resting, Sending, Receiving, OnTheWay, PassedOn, Stuck
  <2> QED BY <2>2 DEF m, f, op
<1>3. Head(fifo[n].feedback) = "OK" /\ Tail(fifo[n].feedback) = << >>
  BY <1>2
<1>4. /\ fifo'[n].tx = fifo[n].tx /\ fifo'[n].mpiif = << >> /\ fifo'[n].mpiData = << >>
      /\ fifo'[n].feedback = << >> /\ wrap'[n].state = "READY" /\ Return(n, wrap[n].data)
  BY <1>1, <1>2, <1>3 DEF RecvFinish, MpeTypeOK, Fifos, Wrappers
<1>5. got'[n] = Append(got[n], wrap[n].data)
  BY <1>1, <1>4 DEF Return
<1>6. Incoming(n) = wrap[n].data
  <2> DEFINE b == wrap[n].data
  <2>1. b \in Seq(Unit) /\ [i \in 1 .. Len(fifo[n].appData) |-> fifo[n].appData[i].unit] = << >>
    BY <1>1, <1>2 DEF Wrappers
  <2>2. Incoming(n) = b \o << >> \o << >>
    BY <1>2, <2>1 DEF Incoming
  <2> HIDE DEF b
  <2>3. b \o << >> = b
    BY <2>1, ConcatEmptySeq
  <2> QED BY <2>2, <2>3 DEF b
<1>7. Stage(n)' = Stage(n) /\ Moved(n)' = Moved(n) /\ Result(n)' = Result(n)
  <2>1. StageF(n) = "out" /\ StageF(n)' = "out" /\ Finished(n) /\ ~Finished(n)'
    BY <1>1, <1>2, <1>4 DEF StageF, Finished
  <2>2. MovedF(n) = << >> /\ MovedF(n)' = << >>
    BY <1>1, <1>2, <2>1 DEF MovedF
  <2>3. CurrentOp(n).call \notin SendCalls
    BY <1>2 DEF SendCalls, RecvCalls
  <2>4. Result(n) = Append(got[n], Incoming(n))
    BY <2>1, <2>3, FpgaView
  <2> QED BY <1>5, <1>6, <2>1, <2>2, <2>4, FpgaView
<1>8. \A s \in Rank : Kept(n, s)' = Kept(n, s)
  BY <1>1 DEF Kept
<1>9. HsStays /\ Unlooped'
  BY <1>1, <1>4, <1>7, <1>8, FpgaStays
<1>10. FpgaCalm(n)'
  <2>1. InOrder(n)'
    <3>1. Len(fifo'[n].mpiData) = 0 /\ 1 .. 0 = {}
      BY <1>4
    <3> QED BY <3>1 DEF InOrder
  <2>2. Addressed(n)'
    BY <1>1, <1>4 DEF FpgaCalm, Addressed
  <2>3. Alive(n)' /\ Took(n)'
    <3>1. << >> # <<"FAIL">>
      OBVIOUS
    <3> QED BY <1>1, <1>2, <1>4, <3>1 DEF Alive, Took, In, Stuck
  <2> QED BY <1>1, <2>1, <2>2, <2>3 DEF FpgaCalm
<1> QED BY <1>9, <1>10

-----------------------------------------------------------------------------
(* Every step of an FPGA is a step of the protocol or none.                *)
LEMMA FpgaStepHs ==
  ASSUME IInv, HsInv, KeptApart, Unlooped, Window = 1, NamesAgree, WellPaired,
         NEW n \in Fpga, HandOverAt(n), FpgaCalm(n), FpgaStep(n), UNCHANGED cpu
  PROVE  /\ HsStays \/ \E q \in Rank : q # n /\ HsStep(n, q)
         /\ FpgaCalm(n)' /\ Unlooped'
<1> DEFINE Goal == /\ HsStays \/ \E q \in Rank : q # n /\ HsStep(n, q)
                   /\ FpgaCalm(n)' /\ Unlooped'
           p == mpe[n].rank
<1>1. /\ mpe[n].fsm \in SendStates => p \in Rank /\ p # n
      /\ mpe[n].fsm \in RecvStates => p \in Rank /\ p # n
  BY FpgaSends, FpgaReceives DEF Current
<1>2. \A s \in Rank : s # n /\ HsStep(n, s) /\ FpgaCalm(n)' /\ Unlooped' => Goal
  OBVIOUS
<1>3. HsStays /\ FpgaCalm(n)' /\ Unlooped' => Goal
  OBVIOUS
<1> HIDE DEF Goal, p
<1>4. CASE Reset(n) \/ Idle(n) \/ SendReq(n) \/ SendDataStart(n) \/ SendDataWrd(n)
           \/ SendClear(n) \/ SendAck(n)
  BY <1>3, <1>4, ResetHs, IdleHs, SendReqHs, SendDataStartHs, SendDataWrdHs, SendClearHs,
     SendAckHs
<1>5. CASE DeqSend(n) \/ DeqRecv(n)
  BY <1>3, <1>5, DeqSendHs, DeqRecvStartHs, DeqRecvWriteHs, NoPoison DEF DeqRecv
<1>6. CASE Wrapper(n)
  BY <1>3, <1>6, WriteInfoHs, SendWriteDataHs, SendFinishHs, RecvReadDataHs, RecvFinishHs
     DEF Wrapper
<1>7. CASE StartSend(n) \/ SendDataRd(n)
  <2>1. p \in Rank /\ p # n
    BY <1>1, <1>7 DEF StartSend, SendDataRd, In, SendStates
  <2>2. HsStep(n, p) /\ FpgaCalm(n)' /\ Unlooped'
    BY <1>7, StartSendHs, SendDataRdHs DEF HsStep, p
  <2> QED BY <1>2, <2>1, <2>2
<1>8. CASE StartRecv(n) \/ AssembleClear(n) \/ RecvDataDone(n)
  <2>1. p \in Rank /\ p # n
    BY <1>1, <1>8 DEF StartRecv, AssembleClear, RecvDataDone, In, RecvStates
  <2>2. (HsStays \/ HsStep(n, p)) /\ FpgaCalm(n)' /\ Unlooped'
    BY <1>8, StartRecvHs, AssembleClearHs, RecvDataDoneHs DEF HsStep, p
  <2> QED BY <1>2, <1>3, <2>1, <2>2
<1>9. ASSUME NEW s \in Rank, NEW i \in Arriving(<<s, n>>),
             \/ Wait4Clear(n, s, i) \/ Wait4Ack(n, s, i) \/ Wait4Req(n, s, i)
             \/ RecvDataStart(n, s, i) \/ RecvDataMore(n, s, i)
      PROVE  Goal
  <2>1. s # n /\ HsStep(n, s) /\ FpgaCalm(n)' /\ Unlooped'
    BY <1>9, Wait4ClearHs, Wait4AckHs, Wait4ReqHs, RecvDataStartHs, RecvDataMoreHs DEF HsStep
  <2> QED BY <1>2, <2>1
<1> QED BY <1>4, <1>5, <1>6, <1>7, <1>8, <1>9 DEF FpgaStep, Engine, Goal

-----------------------------------------------------------------------------
(* Behaviours without premature timeouts and without loss.                 *)

Calm ==
  /\ IInv /\ HandsOver /\ HsInv /\ KeptApart /\ Unlooped
  /\ \A n \in Fpga : FpgaCalm(n)
  /\ \A n \in Cpu : CpuCalm(n)

(* The initial states.                                                     *)
LEMMA InitCalm == Init => Calm
<1> SUFFICES ASSUME Init PROVE Calm
  OBVIOUS
<1>1. IInv
  BY InitIInv
<1>2. HandsOver
  BY InitHandsOver DEF Init
<1>3. ASSUME NEW n \in Fpga
      PROVE  /\ mpe[n].fsm = "MPE_RESET" /\ mpe[n].cache = EmptyCache
             /\ fifo[n].mpiif = << >> /\ fifo[n].mpiData = << >> /\ fifo[n].feedback = << >>
             /\ fifo[n].tx = << >> /\ wrap[n].state = "READY"
  BY DEF Init, MpeInit
<1>4. ASSUME NEW n \in Cpu
      PROVE  cpu[n].pc = "READY" /\ \A s \in Rank : cpu[n].cache[s] = NoHeader
  BY DEF Init, CpuInit
<1>5. ASSUME NEW n \in Rank
      PROVE  got[n] = << >> /\ \A s \in Rank : net[<<s, n>>] = << >>
  BY DEF Init, ApplicationInit, NetworkInit
<1>6. ASSUME NEW n \in Rank
      PROVE  /\ Stage(n) = "out" /\ Moved(n) = << >> /\ Result(n) = << >>
             /\ \A s \in Rank : Kept(n, s) = NoHeader /\ Queue(n, s) = << >>
  <2>1. CASE n \in Fpga
    <3>1. StageF(n) = "out" /\ ~Finished(n)
      BY <1>3, <2>1 DEF StageF, Finished
    <3>2. MovedF(n) = << >>
      BY <1>3, <2>1, <3>1 DEF MovedF
    <3>3. [i \in 1 .. Len(fifo[n].tx) |-> fifo[n].tx[i].pkt] = << >>
      BY <1>3, <2>1
    <3>4. \A s \in Rank : EmptyCache[s] = NoHeader
      BY DEF EmptyCache
    <3> QED BY <1>3, <1>5, <2>1, <3>1, <3>2, <3>3, <3>4, FpgaView DEF Kept, Queue
  <2>2. CASE n \in Cpu
    <3>1. StageC(n) = "out" /\ MovedC(n) = << >>
      BY <1>4, <2>2 DEF StageC, MovedC, At
    <3> QED BY <1>4, <1>5, <2>2, <3>1, CpuView DEF Queue
  <2> QED BY <2>1, <2>2, ClusterAssumption
<1>7. ASSUME NEW s \in Rank, NEW d \in Rank PROVE Way(s, d) = << >>
  <2>1. << >> \o << >> = << >>
    OBVIOUS
  <2> QED BY <1>5, <1>6, <2>1 DEF Way
<1>8. ASSUME NEW s \in Rank, NEW d \in Rank
      PROVE  /\ ~Asks(s, d) /\ ~Streams(s, d) /\ ~Hears(s, d) /\ ~Engaged(s, d)
             /\ ~Busy(s, d, {"clear"}) /\ Place(s) = 1
  <2>1. Len(<< >>) + 1 = 1
    OBVIOUS
  <2> QED BY <1>6, <2>1 DEF Asks, Streams, Hears, Engaged, Busy, Place
<1>9. ASSUME NEW n \in Rank PROVE Fine(n) /\ Own(n) /\ RightSoFar(n)
  <2>1. << >> \in Seq(Unit) /\ << >> \in Seq(Seq(Unit)) /\ Len(<< >>) = 0 /\ 1 .. 0 = {}
    OBVIOUS
  <2> QED BY <1>6, <2>1 DEF Fine, Own, RightSoFar, Stages
<1>10. ASSUME NEW s \in Rank, NEW d \in Rank, s # d PROVE Link(s, d)
  <2>1. InTurn(s, d)
    BY <1>6, <1>8 DEF InTurn
  <2>2. InStep(s, d)
    <3>1. ASSUME NEW S, S \subseteq Nat \ {0} PROVE Done(S, 1) = 0
      <4>1. \A i \in Nat \ {0} : ~(i < 1)
        OBVIOUS
      <4>2. {i \in S : i < 1} = {}
        BY <3>1, <4>1
      <4> QED BY <4>2, FS_EmptySet DEF Done
    <3>2. Recvs(d, s) \subseteq Nat \ {0} /\ Sends(s, d) \subseteq Nat \ {0}
      BY CallsFinite
    <3>3. Done(Recvs(d, s), 1) = 0 /\ Done(Sends(s, d), 1) = 0
      BY <3>1, <3>2
    <3> QED BY <1>8, <3>3 DEF InStep
  <2>3. OnItsWay(s, d)
    <3>1. << >> \o << >> = << >>
      OBVIOUS
    <3> QED BY <1>7, <1>8, <3>1 DEF OnItsWay, Forward, Back
  <2> QED BY <2>1, <2>2, <2>3 DEF Link
<1>11. HsInv
  BY <1>9, <1>10 DEF HsInv
<1>12. KeptApart /\ Unlooped
  BY <1>5, <1>6 DEF KeptApart, Unlooped
<1>13. ASSUME NEW n \in Fpga PROVE FpgaCalm(n)
  <2>1. Len(<< >>) = 0 /\ 1 .. 0 = {} /\ << >> # <<"FAIL">>
    OBVIOUS
  <2> QED BY <1>3, <2>1 DEF FpgaCalm, Prepared, InCount, LinesEmpty, InOrder, Addressed,
     Alive, Stuck, Took, Before, In
<1>14. ASSUME NEW n \in Cpu PROVE CpuCalm(n)
  BY <1>4 DEF CpuCalm, CpuSends, CpuReceives, At
<1> QED BY <1>1, <1>2, <1>11, <1>12, <1>13, <1>14 DEF Calm

(* A timer of some rank expires.                                           *)
SomeTimeout == (\E n \in Fpga : EngineTimeout(n)) \/ (\E n \in Cpu : CpuTimeout(n))

Disturbed == SomeTimeout \/ Lose

(* Nothing happens.                                                        *)
LEMMA SameCalls ==
  ASSUME Calm, UNCHANGED vars
  PROVE  Calm'
<1>1. IInv' /\ HandsOver'
  BY NextIInv, OtherHandsOver DEF Calm, vars, mpeVars
<1>2. HsStays /\ KeptStays
  BY DEF HsStays, KeptStays, WaysStay, Stage, Moved, Result, Way, Kept, Queue, StageF, StageC,
     MovedF, MovedC, Finished, Incoming, CurrentOp, Position, At, vars
<1>3. HsInv' /\ KeptApart'
  BY <1>2, HsStaysKeepsInv, HsStaysKeepsApart DEF Calm
<1>4. Unlooped'
  BY DEF Calm, Unlooped, vars
<1>5. ASSUME NEW n \in Fpga PROVE FpgaCalm(n)'
  BY DEF Calm, FpgaCalm, InOrder, Addressed, Alive, Took, Before, In, Incoming, Position, vars
<1>6. ASSUME NEW n \in Cpu PROVE CpuCalm(n)'
  BY DEF Calm, CpuCalm, CurrentOp, Position, At, vars
<1> QED BY <1>1, <1>3, <1>4, <1>5, <1>6 DEF Calm

(* The steps of an FPGA.                                                   *)
LEMMA FpgaKeepsCalm ==
  ASSUME Calm, Window = 1, NamesAgree, WellPaired, NEW n \in Fpga, FpgaStep(n), UNCHANGED cpu,
         ~Disturbed
  PROVE  Calm'
<1>1. /\ IInv /\ HandsOver /\ HsInv /\ KeptApart /\ Unlooped /\ FpgaCalm(n)
      /\ HandOverAt(n) /\ n \in Rank
  BY FpgaView DEF Calm, HandsOver
<1>2. /\ HsStays \/ \E q \in Rank : q # n /\ HsStep(n, q)
      /\ FpgaCalm(n)' /\ Unlooped'
  BY <1>1, FpgaStepHs
<1>3. HsInv' /\ KeptApart'
  BY <1>1, <1>2, HsStaysKeepsInv, HsStepKeepsInv, HsStaysKeepsApart, HsStepKeepsApart
<1>4. IInv'
  BY <1>1, FpgaRankIInv DEF FpgaRank
<1>5. HandsOver'
  <2>1. ~GivesUpAt(n)
    BY DEF GivesUpAt, Disturbed, SomeTimeout, EngineTimeout
  <2> QED BY <1>1, <2>1, StepHandsOver DEF FpgaMove, IInv
<1>6. ASSUME NEW m \in Fpga PROVE FpgaCalm(m)'
  <2>1. CASE m # n
    <3>1. /\ mpe'[m] = mpe[m] /\ fifo'[m] = fifo[m] /\ wrap'[m] = wrap[m] /\ deq'[m] = deq[m]
          /\ got'[m] = got[m]
      BY <1>1, <2>1, FpgaFrame, FpgaView
    <3>2. FpgaCalm(m)
      BY DEF Calm
    <3> QED BY <3>1, <3>2 DEF FpgaCalm, InOrder, Addressed, Alive, Took, Before, In, Incoming,
       Position
  <2> QED BY <1>2, <2>1
<1>7. ASSUME NEW m \in Cpu PROVE CpuCalm(m)'
  <2>1. m \in Rank /\ m # n
    BY CpuView
  <2>2. got'[m] = got[m] /\ cpu' = cpu
    BY <1>1, <2>1, FpgaFrame
  <2>3. CpuCalm(m)
    BY DEF Calm
  <2> QED BY <2>2, <2>3 DEF CpuCalm, CurrentOp, Position, At
<1> QED BY <1>2, <1>3, <1>4, <1>5, <1>6, <1>7 DEF Calm

(* The steps of a CPU rank.                                                *)
LEMMA CpuKeepsCalm ==
  ASSUME Calm, Window = 1, NamesAgree, WellPaired, NEW n \in Cpu, CpuStep(n), UNCHANGED mpeVars
  PROVE  Calm'
<1>1. IInv /\ HandsOver /\ HsInv /\ KeptApart /\ Unlooped /\ CpuCalm(n) /\ n \in Rank
  BY CpuView DEF Calm
<1>2. /\ HsStays \/ \E q \in Rank : q # n /\ HsStep(n, q)
      /\ CpuCalm(n)' /\ Unlooped'
  BY <1>1, CpuStepHs
<1>3. HsInv' /\ KeptApart'
  BY <1>1, <1>2, HsStaysKeepsInv, HsStepKeepsInv, HsStaysKeepsApart, HsStepKeepsApart
<1>4. IInv'
  BY <1>1, CpuRankIInv DEF CpuRank
<1>5. ASSUME NEW m \in Rank, m # n PROVE got'[m] = got[m]
  BY <1>1, <1>5, CpuReturns DEF IInv, CpuInv
<1>6. HandsOver'
  <2>1. \A m \in Fpga : got'[m] = got[m]
    BY <1>5, FpgaView
  <2> QED BY <1>1, <2>1, OtherHandsOver
<1>7. ASSUME NEW m \in Fpga PROVE FpgaCalm(m)'
  <2>1. got'[m] = got[m] /\ mpe' = mpe /\ fifo' = fifo /\ deq' = deq /\ wrap' = wrap
    BY <1>5, FpgaView DEF mpeVars
  <2>2. FpgaCalm(m)
    BY DEF Calm
  <2> QED BY <2>1, <2>2 DEF FpgaCalm, InOrder, Addressed, Alive, Took, Before, In, Incoming,
     Position
<1>8. ASSUME NEW m \in Cpu PROVE CpuCalm(m)'
  <2>1. CASE m # n
    <3>1. cpu'[m] = cpu[m] /\ got'[m] = got[m]
      BY <1>1, <2>1, CpuFrame
    <3>2. CpuCalm(m)
      BY DEF Calm
    <3> QED BY <3>1, <3>2 DEF CpuCalm, CurrentOp, Position, At
  <2> QED BY <1>2, <2>1
<1> QED BY <1>2, <1>3, <1>4, <1>6, <1>7, <1>8 DEF Calm

(* Calm is an invariant of these behaviours.                               *)
LEMMA NextCalm ==
  ASSUME Window = 1, NamesAgree, WellPaired
  PROVE  Calm /\ [Next]_vars /\ [~Disturbed]_vars => Calm'
<1> SUFFICES ASSUME Calm, [Next]_vars, [~Disturbed]_vars PROVE Calm'
  OBVIOUS
<1>1. CASE UNCHANGED vars
  BY <1>1, SameCalls
<1>2. CASE Next /\ ~Disturbed
  <2>1. ASSUME NEW n \in Fpga, FpgaRank(n) PROVE Calm'
    <3>1. FpgaStep(n) /\ UNCHANGED cpu
      BY <1>2, <2>1 DEF FpgaRank, Disturbed, SomeTimeout
    <3> QED BY <1>2, <3>1, FpgaKeepsCalm
  <2>2. ASSUME NEW n \in Cpu, CpuRank(n) PROVE Calm'
    <3>1. CpuStep(n) /\ UNCHANGED mpeVars
      BY <1>2, <2>2 DEF CpuRank, Disturbed, SomeTimeout
    <3> QED BY <3>1, CpuKeepsCalm
  <2>3. ~Loss
    BY <1>2 DEF Loss, Disturbed
  <2>4. CASE Terminated
    BY <2>4, SameCalls DEF Terminated
  <2> QED BY <1>2, <2>1, <2>2, <2>3, <2>4 DEF Next
<1> QED BY <1>1, <1>2

(* What has returned is what the protocol has completed.                   *)
LEMMA CalmIsRight == Calm => RightData /\ OnlySendersAwaitAck
<1> SUFFICES ASSUME Calm PROVE RightData /\ OnlySendersAwaitAck
  OBVIOUS
<1>1. RightData
  <2> SUFFICES ASSUME NEW r \in Rank, NEW k \in 1 .. Len(got[r])
               PROVE  got[r][k] = Expected(r, k)
    BY DEF RightData
  <2>1. RightSoFar(r) /\ got[r] \in Seq(Seq(Unit)) /\ Result(r) \in Seq(Seq(Unit))
    BY DEF Calm, HsInv, Fine, IInv, FpgaInv, FpgaTypeOK, ApplicationTypeOK
  <2>2. Result(r) = got[r] \/ \E x : Result(r) = Append(got[r], x)
    BY DEF Result
  <2>3. k \in 1 .. Len(Result(r)) /\ Result(r)[k] = got[r][k]
    <3>1. CASE Result(r) = got[r]
      BY <3>1
    <3>2. ASSUME NEW x, Result(r) = Append(got[r], x)
          PROVE  k \in 1 .. Len(Result(r)) /\ Result(r)[k] = got[r][k]
      BY <2>1, <3>2
    <3> QED BY <2>2, <3>1, <3>2
  <2> QED BY <2>1, <2>3 DEF RightSoFar
<1>2. OnlySendersAwaitAck
  <2> SUFFICES ASSUME NEW n \in Fpga, mpe[n].fsm = "WAIT4ACK"
               PROVE  mpe[n].call \in SendCalls
    BY DEF OnlySendersAwaitAck
  <2>1. HandOverAt(n) /\ FpgaCalm(n) /\ IInv
    BY DEF Calm, HandsOver
  <2> QED BY <2>1, FpgaSends DEF SendStates, Current
<1> QED BY <1>1, <1>2

(* Whatever a call returns is what the program sent to it, complete and in *)
(* order: in every cluster and for every program of paired calls, as long  *)
(* as the network keeps the packets in order and loses none, and no timer  *)
(* expires.                                                                *)
THEOREM CallsReturnTheirData ==
  ASSUME WellPaired, NamesAgree, Window = 1
  PROVE  Spec /\ [][~Disturbed]_vars => []RightData
<1>1. Calm /\ [Next]_vars /\ [~Disturbed]_vars => Calm'
  BY NextCalm
<1>2. Calm => RightData
  BY CalmIsRight
<1> QED BY <1>1, <1>2, InitCalm, PTL DEF Spec

(* In the same behaviours no receive takes the way into WAIT4ACK.          *)
THEOREM ReceivesNeverAwaitAck ==
  ASSUME WellPaired, NamesAgree, Window = 1
  PROVE  Spec /\ [][~Disturbed]_vars => []OnlySendersAwaitAck
<1>1. Calm /\ [Next]_vars /\ [~Disturbed]_vars => Calm'
  BY NextCalm
<1>2. Calm => OnlySendersAwaitAck
  BY CalmIsRight
<1> QED BY <1>1, <1>2, InitCalm, PTL DEF Spec

-----------------------------------------------------------------------------
(* The pairs of calls, counted.                                            *)

(* Every number below that of the calls counted is the number of one.      *)
LEMMA CountedCall ==
  ASSUME NEW S \in SUBSET Nat, IsFiniteSet(S), NEW P \in Nat, NEW j \in Nat, j < Done(S, P)
  PROVE  \E k \in S : Done(S, k) = j
<1> DEFINE T == {i \in Nat : j < Done(S, i)}
<1>1. PICK x \in T : \A y \in T : ~(<<y, x>> \in OpToRel(<, Nat))
  <2>1. P \in T /\ T \subseteq Nat
    OBVIOUS
  <2> HIDE DEF T
  <2> QED BY <2>1, WFMin, NatLessThanWellFounded
<1>2. x \in Nat /\ j < Done(S, x) /\ \A y \in Nat : y < x => ~(j < Done(S, y))
  BY <1>1 DEF OpToRel
<1>3. x # 0
  <2>1. \A i \in Nat : ~(i < 0)
    OBVIOUS
  <2>2. {i \in S : i < 0} = {}
    BY <2>1
  <2> QED BY <1>2, <2>2, FS_EmptySet DEF Done
<1>4. x - 1 \in Nat /\ x - 1 < x /\ x - 1 + 1 = x
  BY <1>2, <1>3
<1>5. /\ Done(S, x - 1) \in Nat
      /\ Done(S, x) = Done(S, x - 1) + (IF x - 1 \in S THEN 1 ELSE 0)
  BY <1>4, OrdinalCounts
<1>6. ~(j < Done(S, x - 1))
  BY <1>2, <1>4
<1>7. x - 1 \in S /\ Done(S, x - 1) = j
  BY <1>2, <1>5, <1>6
<1> QED BY <1>7

(* Later calls have at least as many before them.                          *)
LEMMA DoneGrows ==
  ASSUME NEW S \in SUBSET Nat, IsFiniteSet(S), NEW a \in Nat, NEW b \in Nat
  PROVE  /\ a <= b => Done(S, a) <= Done(S, b)
         /\ a \in S /\ a < b => Done(S, a) < Done(S, b)
<1>1. ASSUME NEW x \in Nat, NEW y \in Nat, x <= y PROVE Done(S, x) <= Done(S, y)
  <2> DEFINE A == {i \in S : i < x}
             B == {i \in S : i < y}
  <2>1. A \subseteq B /\ B \subseteq S
    <3>1. \A i \in S : i \in Nat /\ (i < x => i < y)
      BY <1>1
    <3> QED BY <3>1
  <2> HIDE DEF A, B
  <2>2. IsFiniteSet(B) /\ Cardinality(A) <= Cardinality(B)
    BY <2>1, FS_Subset
  <2> QED BY <2>2 DEF Done, A, B
<1>2. ASSUME a \in S, a < b PROVE Done(S, a) < Done(S, b)
  <2>1. Done(S, a + 1) = Done(S, a) + 1 /\ Done(S, a) \in Nat /\ Done(S, b) \in Nat
    BY <1>2, OrdinalCounts
  <2>2. a + 1 \in Nat /\ a + 1 <= b
    BY <1>2
  <2>3. Done(S, a + 1) <= Done(S, b)
    BY <1>1, <2>2
  <2> QED BY <2>1, <2>3
<1> QED BY <1>1, <1>2

(* Before a place behind the last call all calls are done.                 *)
LEMMA AllCounted ==
  ASSUME NEW s \in Rank, NEW d \in Rank
  PROVE  /\ Len(Program[s]) + 1 \in Nat
         /\ Done(Sends(s, d), Len(Program[s]) + 1) = Cardinality(Sends(s, d))
         /\ Done(Recvs(s, d), Len(Program[s]) + 1) = Cardinality(Recvs(s, d))
<1>1. /\ Sends(s, d) \subseteq 1 .. Len(Program[s]) /\ Recvs(s, d) \subseteq 1 .. Len(Program[s])
      /\ Len(Program[s]) \in Nat
  BY CallsFinite
<1>2. ASSUME NEW S, S \subseteq 1 .. Len(Program[s])
      PROVE  {i \in S : i < Len(Program[s]) + 1} = S
  <2>1. \A i \in S : i < Len(Program[s]) + 1
    BY <1>1, <1>2
  <2> QED BY <2>1
<1>3. Len(Program[s]) + 1 \in Nat
  BY <1>1
<1>4. /\ {i \in Sends(s, d) : i < Len(Program[s]) + 1} = Sends(s, d)
      /\ {i \in Recvs(s, d) : i < Len(Program[s]) + 1} = Recvs(s, d)
  BY <1>1, <1>2
<1> QED BY <1>3, <1>4 DEF Done

(* Every call of a well paired program has its partner.                    *)
LEMMA EveryCallIsPaired ==
  ASSUME WellPaired, NEW s \in Rank, NEW d \in Rank
  PROVE  /\ \A k \in Recvs(d, s) : \E m \in Sends(s, d) :
              Done(Sends(s, d), m) = Done(Recvs(d, s), k)
         /\ \A m \in Sends(s, d) : \E k \in Recvs(d, s) :
              Done(Sends(s, d), m) = Done(Recvs(d, s), k)
<1> DEFINE S == Sends(s, d)
           R == Recvs(d, s)
           a == Len(Program[s]) + 1
           b == Len(Program[d]) + 1
<1>1. /\ S \in SUBSET Nat /\ IsFiniteSet(S) /\ R \in SUBSET Nat /\ IsFiniteSet(R)
      /\ \A m \in S : m < a
      /\ \A k \in R : k < b
  BY CallsFinite
<1>2. a \in Nat /\ b \in Nat /\ Done(S, a) = Done(R, b)
  BY AllCounted DEF WellPaired
<1> HIDE DEF S, R, a, b
<1>3. ASSUME NEW k \in R PROVE \E m \in S : Done(S, m) = Done(R, k)
  <2>1. k \in Nat /\ k < b /\ Done(R, k) \in Nat
    BY <1>1, OrdinalCounts
  <2>2. Done(R, k) < Done(R, b)
    BY <1>1, <1>2, <2>1, DoneGrows
  <2> QED BY <1>1, <1>2, <2>1, <2>2, CountedCall
<1>4. ASSUME NEW m \in S PROVE \E k \in R : Done(S, m) = Done(R, k)
  <2>1. m \in Nat /\ m < a /\ Done(S, m) \in Nat
    BY <1>1, OrdinalCounts
  <2>2. Done(S, m) < Done(S, a)
    BY <1>1, <1>2, <2>1, DoneGrows
  <2>3. \E k \in R : Done(R, k) = Done(S, m)
    BY <1>1, <1>2, <2>1, <2>2, CountedCall
  <2> QED BY <2>3
<1> QED BY <1>3, <1>4 DEF S, R

(* The receive of a send.                                                  *)
LEMMA PairedBack ==
  ASSUME NEW s \in Rank, NEW d \in Rank, NEW m \in Sends(s, d), NEW k \in Recvs(d, s),
         Done(Sends(s, d), m) = Done(Recvs(d, s), k)
  PROVE  MatchingRecv(s, m) = k
<1>1. /\ Sends(s, d) \in SUBSET Nat /\ IsFiniteSet(Sends(s, d))
      /\ Recvs(d, s) \in SUBSET Nat /\ IsFiniteSet(Recvs(d, s))
  BY CallsFinite
<1>2. Ordinal(Sends(s, d), m) = Ordinal(Recvs(d, s), k)
  BY <1>1, OrdinalCounts
<1>3. Program[s][m].peer = d
  BY DEF Sends, CallsOf
<1>4. \A x \in Recvs(d, s) : Ordinal(Recvs(d, s), x) = Ordinal(Sends(s, d), m) => x = k
  BY <1>1, <1>2, OrdinalIsUnique
<1> QED BY <1>2, <1>3, <1>4 DEF MatchingRecv

(* A receive expects at least one unit.                                    *)
LEMMA SomethingExpected ==
  ASSUME WellPaired, NEW d \in Rank, NEW k \in 1 .. Len(Program[d]),
         Program[d][k].call \in RecvCalls
  PROVE  Expected(d, k) # << >>
<1> DEFINE s == Program[d][k].peer
<1>1. s \in Rank /\ k \in Recvs(d, s)
  BY CallType, ProgramAssumption DEF Recvs, CallsOf
<1>2. PICK m \in Sends(s, d) : Done(Sends(s, d), m) = Done(Recvs(d, s), k)
  BY <1>1, EveryCallIsPaired
<1>3. MatchingSend(d, k) = m
  BY <1>1, <1>2, Paired
<1>4. m \in 1 .. Len(Program[s])
  BY <1>1, CallsFinite
<1>5. Program[s][m].count \in Nat \ {0}
  BY <1>1, <1>4, CallType
<1>6. Expected(d, k) = Payload(s, m)
  BY <1>3 DEF Expected, SendCalls, RecvCalls
<1>7. DOMAIN Payload(s, m) = 1 .. Program[s][m].count /\ 1 \in 1 .. Program[s][m].count
  BY <1>5 DEF Payload
<1>8. DOMAIN << >> = {}
  OBVIOUS
<1> QED BY <1>6, <1>7, <1>8

-----------------------------------------------------------------------------
(* The abstract state, as the protocol sees it.                            *)

Held == [r \in Rank |-> IF r \in Fpga THEN TakenByFpga(r) ELSE TakenByCpu(r)]

(* The data of a receive is taken when the protocol has completed it.      *)
LEMMA FinishedReceive ==
  ASSUME IInv, NEW n \in Fpga, HandOverAt(n), FpgaCalm(n)
  PROVE  /\ Finished(n) => wrap[n].state # "READY"
         /\ TakenByFpga(n) = IF Finished(n) /\ CurrentOp(n).call \notin SendCalls
                             THEN Incoming(n) ELSE << >>
<1> DEFINE m == mpe[n]
           f == fifo[n]
           d == deq[n]
           w == wrap[n]
           op == CurrentOp(n)
           told == \E i \in 1 .. Len(fifo[n].feedback) : fifo[n].feedback[i] = "OK"
<1>1. /\ HandOver(m, f, d, w, op) /\ (f.mpiif = << >> => ~Stuck(m, f, d, w))
      /\ f.feedback # <<"FAIL">> /\ f \in Fifos /\ w \in Wrappers
  BY Local DEF HandOverAt, FpgaCalm, Alive, IInv, FpgaInv, FpgaTypeOK
<1>2. /\ f.feedback = << >> => ~told
      /\ f.feedback = <<"OK">> => told
  <2>1. Len(<< >>) = 0 /\ 1 .. 0 = {} /\ 1 \in 1 .. Len(<<"OK">>) /\ <<"OK">>[1] = "OK"
    OBVIOUS
  <2> QED BY <2>1
<1>3. Finished(n) <=> \/ m.fsm = "SEND_ACK"
                      \/ m.fsm = "IDLE" /\ w.state # "READY" /\ f.mpiif = << >>
  BY DEF Finished
<1>4. TakenByFpga(n) =
        IF w.state \in {"RECV_READ_DATA", "RECV_FINISH"} /\ (m.fsm = "SEND_ACK" \/ told)
        THEN w.data \o [i \in 1 .. Len(f.appData) |-> f.appData[i].unit]
        ELSE << >>
  BY DEF TakenByFpga
<1>5. Incoming(n) = w.data \o [i \in 1 .. Len(f.appData) |-> f.appData[i].unit] \o f.rx
  BY DEF Incoming
<1> HIDE DEF m, f, d, w, op, told
<1>6. m.fsm = "SEND_ACK" => w.state # "READY"
  BY <1>1 DEF HandOver, Resting, Sending, Receiving, PassedOn, Stuck
<1>10. Finished(n) => wrap[n].state # "READY"
  BY <1>3, <1>6 DEF w
<1>7. CASE op.call \in SendCalls
  <2>1. w.state \in {"RECV_READ_DATA", "RECV_FINISH"} => FALSE
    BY <1>1, <1>7 DEF HandOver, Resting, Sending, Receiving, SendCalls, RecvCalls
  <2> QED BY <1>4, <1>7, <1>10, <2>1 DEF op
<1>8. CASE op.call \notin SendCalls /\ (m.fsm = "SEND_ACK"
                \/ (m.fsm = "IDLE" /\ w.state # "READY" /\ f.mpiif = << >>))
  <2>1. /\ w.state \in {"RECV_READ_DATA", "RECV_FINISH"} /\ f.rx = << >>
        /\ m.fsm = "SEND_ACK" \/ f.feedback = <<"OK">>
    BY <1>1, <1>8 DEF HandOver, Resting, Sending, Receiving, PassedOn, Stuck
  <2>2. w.data \o [i \in 1 .. Len(f.appData) |-> f.appData[i].unit] \in Seq(Unit)
    <3>1. w.data \in Seq(Unit) /\ [i \in 1 .. Len(f.appData) |-> f.appData[i].unit] \in Seq(Unit)
      BY IncomingOf DEF f, w
    <3> QED BY <3>1, ConcatProperties
  <2>3. Incoming(n) = w.data \o [i \in 1 .. Len(f.appData) |-> f.appData[i].unit]
    BY <1>5, <2>1, <2>2, ConcatEmptySeq
  <2> QED BY <1>2, <1>3, <1>4, <1>8, <1>10, <2>1, <2>3 DEF op
<1>9. CASE op.call \notin SendCalls /\ m.fsm # "SEND_ACK"
              /\ ~(m.fsm = "IDLE" /\ w.state # "READY" /\ f.mpiif = << >>)
  <2>1. w.state \in {"RECV_READ_DATA", "RECV_FINISH"} => f.feedback = << >>
    BY <1>1, <1>9 DEF HandOver, Resting, Sending, Receiving, PassedOn, OnTheWay, Stuck
  <2> QED BY <1>2, <1>3, <1>4, <1>9, <1>10, <2>1 DEF op
<1> QED BY <1>7, <1>8, <1>9

(* What a rank has taken, in the terms of the protocol: an FPGA the result *)
(* that its wrapper has not yet returned, a CPU all units of the message.  *)
FpgaHolds(n) ==
  \/ Result(n) = got[n] /\ Held[n] = << >>
  \/ /\ Result(n) = Append(got[n], Held[n]) /\ Stage(n) = "out"
     /\ Running(n)

CpuHolds(n) ==
  /\ Result(n) = got[n]
  /\ Held[n] = IF Stage(n) = "receiving" /\ Len(Moved(n)) = Now(n).count
               THEN Moved(n) ELSE << >>

Holds ==
  /\ got \in [Rank -> Seq(Seq(Unit))]
  /\ \A n \in Fpga : FpgaHolds(n) /\ Held[n] \in Seq(Unit)
  /\ \A n \in Cpu : CpuHolds(n) /\ Held[n] \in Seq(Unit)

(* What the protocol has completed and not returned is what is taken.      *)
LEMMA CalmHolds == Calm => Holds
<1> SUFFICES ASSUME Calm PROVE Holds
  OBVIOUS
<1>1. ASSUME NEW n \in Fpga PROVE FpgaHolds(n) /\ Held[n] \in Seq(Unit)
  <2> DEFINE send == CurrentOp(n).call \in SendCalls
             data == IF send THEN << >> ELSE Incoming(n)
  <2>1. IInv /\ HandOverAt(n) /\ FpgaCalm(n) /\ n \in Rank
    BY <1>1, FpgaView DEF Calm, HandsOver
  <2>2. Held[n] = TakenByFpga(n)
    BY <1>1, <2>1 DEF Held
  <2>3. << >> \in Seq(Unit) /\ Incoming(n) \in Seq(Unit)
    BY <2>1, IncomingOf
  <2>4. Held[n] = IF Finished(n) /\ ~send THEN Incoming(n) ELSE << >>
    BY <2>1, <2>2, FinishedReceive
  <2>5. CASE ~Finished(n)
    BY <2>3, <2>4, <2>5, FpgaView DEF FpgaHolds
  <2>6. CASE Finished(n)
    <3>1. Running(n)
      BY <2>1, <2>6, FinishedReceive, FpgaRunning
    <3>2. Stage(n) = "out"
      <4>1. mpe[n].fsm \in {"SEND_ACK", "IDLE"}
        BY <2>6 DEF Finished
      <4>2. StageF(n) = "out"
        BY <4>1 DEF StageF
      <4> QED BY <4>2, FpgaView
    <3>3. Result(n) = Append(got[n], data)
      BY <2>6, FpgaView
    <3>4. Held[n] = data
      BY <2>4, <2>6
    <3> HIDE DEF data
    <3> QED BY <2>3, <2>4, <3>1, <3>2, <3>3, <3>4 DEF FpgaHolds
  <2> QED BY <2>5, <2>6
<1>2. ASSUME NEW n \in Cpu PROVE CpuHolds(n) /\ Held[n] \in Seq(Unit)
  <2>1. CpuCalm(n) /\ n \in Rank /\ n \notin Fpga /\ Fine(n)
    BY <1>2, CpuView DEF Calm, HsInv
  <2>2. Held[n] = IF At(n, "SEND_ACK") THEN cpu[n].buffer ELSE << >>
    BY <2>1 DEF Held, TakenByCpu
  <2>3. Stage(n) = "receiving" <=> At(n, "WAIT_DATA") \/ At(n, "SEND_ACK")
    <3>1. Stage(n) = StageC(n)
      BY <1>2, CpuView
    <3> QED BY <3>1 DEF StageC, At
  <2>4. At(n, "WAIT_DATA") \/ At(n, "SEND_ACK") => Moved(n) = cpu[n].buffer
    <3>1. Moved(n) = MovedC(n)
      BY <1>2, CpuView
    <3> QED BY <3>1 DEF MovedC, At
  <2>5. Now(n) = CurrentOp(n) /\ Result(n) = got[n]
    BY <1>2, CpuView
  <2>6. Moved(n) \in Seq(Unit) /\ << >> \in Seq(Unit)
    BY <2>1 DEF Fine
  <2>7. At(n, "WAIT_DATA") => Len(Moved(n)) < Now(n).count
    BY <2>1, <2>4, <2>5 DEF CpuCalm
  <2>8. At(n, "SEND_ACK") => Len(Moved(n)) = Now(n).count /\ ~At(n, "WAIT_DATA")
    BY <2>1, <2>4, <2>5 DEF CpuCalm, At
  <2>9. At(n, "WAIT_DATA") => Len(Moved(n)) # Now(n).count /\ ~At(n, "SEND_ACK")
    <3>1. At(n, "WAIT_DATA") => Now(n).count \in Nat
      <4>1. IInv
        BY DEF Calm
      <4>2. At(n, "WAIT_DATA") => Running(n)
        BY <1>2, <4>1 DEF IInv, CpuInv, CpuBusy, At
      <4> QED BY <1>2, <4>1, <4>2, CpuCallOf
    <3>2. Len(Moved(n)) \in Nat
      BY <2>6
    <3> QED BY <2>7, <3>1, <3>2 DEF At
  <2> QED BY <2>2, <2>3, <2>4, <2>5, <2>6, <2>8, <2>9 DEF CpuHolds
<1>3. got \in [Rank -> Seq(Seq(Unit))]
  BY DEF Calm, IInv, FpgaInv, FpgaTypeOK, ApplicationTypeOK
<1> QED BY <1>1, <1>2, <1>3 DEF Holds

(* The same in the next state.                                             *)
LEMMA CalmHoldsNext == Calm' => Holds'
BY CalmHolds, PTL

-----------------------------------------------------------------------------
(* The three actions of the rendezvous, and what each of them needs.       *)

(* A receive takes its data.                                               *)
LEMMA ToTake ==
  ASSUME NEW d \in Rank, NEW s, s = CurrentOp(d).peer,
         Running(d), CurrentOp(d).call \in RecvCalls, Held[d] = << >>,
         Running(s), Position(s) = MatchingSend(d, Position(d)),
         Held' = [Held EXCEPT ![d] = Expected(d, Position(d))], got' = got
  PROVE  Abstract!Take(d)
<1>1. Abstract!MatchingSend(d, Position(d)) = MatchingSend(d, Position(d))
  BY DEF MatchingSend, Ordinal, Sends, Recvs, CallsOf, SendCalls, RecvCalls,
         Abstract!MatchingSend, Abstract!Ordinal, Abstract!Sends, Abstract!Recvs,
         Abstract!CallsOf, Abstract!SendCalls, Abstract!RecvCalls, Cardinality,
         Abstract!Cardinality
<1>2. Abstract!Expected(d, Position(d)) = Expected(d, Position(d))
  BY <1>1 DEF Expected, Payload, SendCalls, Abstract!Expected, Abstract!Payload,
         Abstract!SendCalls
<1> QED
  BY <1>1, <1>2 DEF Abstract!Take, Abstract!Running, Abstract!Position, Abstract!CurrentOp,
     Abstract!RecvCalls, Running, Position, CurrentOp, RecvCalls, Held

(* A receive returns the data it has taken.                                *)
LEMMA ToReturnFromRecv ==
  ASSUME NEW d \in Rank, Held[d] # << >>, Return(d, Held[d]),
         Held' = [Held EXCEPT ![d] = << >>]
  PROVE  Abstract!ReturnFromRecv(d)
BY DEF Abstract!ReturnFromRecv, Abstract!Return, Return, Held

(* A send returns when its data is taken.                                  *)
LEMMA ToReturnFromSend ==
  ASSUME NEW s \in Rank, NEW d, d = CurrentOp(s).peer, NEW k, k = MatchingRecv(s, Position(s)),
         Running(s), CurrentOp(s).call \in SendCalls,
         Position(d) > k \/ (Position(d) = k /\ Held[d] # << >>),
         Return(s, << >>), Held' = Held
  PROVE  Abstract!ReturnFromSend(s)
<1>1. Abstract!MatchingRecv(s, Position(s)) = MatchingRecv(s, Position(s))
  BY DEF MatchingRecv, Ordinal, Sends, Recvs, CallsOf, SendCalls, RecvCalls,
         Abstract!MatchingRecv, Abstract!Ordinal, Abstract!Sends, Abstract!Recvs,
         Abstract!CallsOf, Abstract!SendCalls, Abstract!RecvCalls, Cardinality,
         Abstract!Cardinality
<1> QED
  BY <1>1 DEF Abstract!ReturnFromSend, Abstract!Running, Abstract!Position,
     Abstract!CurrentOp, Abstract!SendCalls, Abstract!Return, Running, Position, CurrentOp,
     SendCalls, Return, Held

-----------------------------------------------------------------------------
(* The data of a receive.                                                  *)

(* A rank in the middle of a call has returned all that it has completed.  *)
LEMMA InTheMiddle ==
  ASSUME Holds, HsInv, NEW n \in Rank, Stage(n) # "out"
  PROVE  /\ Result(n) = got[n] /\ Place(n) = Position(n) /\ Now(n) = CurrentOp(n) /\ Running(n)
         /\ n \in Fpga => Held[n] = << >>
<1>1. Result(n) = got[n] /\ (n \in Fpga => Held[n] = << >>)
  BY ClusterAssumption DEF Holds, FpgaHolds, CpuHolds
<1>2. Place(n) = Position(n) /\ Now(n) = CurrentOp(n)
  BY <1>1 DEF Place, Position, Now, CurrentOp
<1>3. Running(n)
  BY <1>2 DEF HsInv, Own, Running
<1> QED BY <1>1, <1>2, <1>3

(* A receive that has as many units as it has to receive has those of the  *)
(* paired send, and the sender is still in that call.                      *)
LEMMA DataComplete ==
  ASSUME HsInv, WellPaired, NEW n \in Rank, NEW q \in Rank, n # q,
         Hears(n, q), Len(Moved(n)) = Now(n).count
  PROVE  /\ Stage(q) = "sending" /\ Place(q) = MatchingSend(n, Place(n))
         /\ Moved(n) = Expected(n, Place(n)) /\ Moved(n) # << >>
<1>1. InTurn(q, n) /\ Engaged(n, q) /\ Now(n).peer = q /\ Stage(n) = "receiving"
  BY DEF HsInv, Link, Engaged, Hears, Busy
<1>2. /\ Place(q) \in Sends(q, n) /\ Place(n) \in Recvs(n, q)
      /\ MatchingSend(n, Place(n)) = Place(q) /\ Now(n).count = Now(q).count
      /\ Asks(q, n) \/ Streams(q, n)
  BY <1>1, Partners
<1>3. Now(n).count \in Nat \ {0}
  <2>1. Place(n) \in 1 .. Len(Program[n])
    BY <1>2, CallsFinite
  <2> QED BY <2>1, CallType DEF Now
<1>4. Moved(n) # << >>
  <2>1. Len(<< >>) = 0
    OBVIOUS
  <2> QED BY <1>3, <2>1
<1>5. Stage(q) = "sending"
  BY <1>1, <1>2, <1>4 DEF InTurn, Streams, Busy
<1>6. Moved(n) = Expected(n, Place(n))
  <2>1. Now(n).call \in RecvCalls
    BY <1>1 DEF HsInv, Own
  <2>2. Moved(n) = Units(q, Place(q), Now(q).count)
    BY <1>1, <1>2 DEF InTurn
  <2>3. Moved(n) = Payload(q, Place(q))
    BY <2>2 DEF Units, Payload, Now
  <2>4. Program[n][Place(n)].call \notin SendCalls
    BY <2>1 DEF Now, SendCalls, RecvCalls
  <2>5. Program[n][Place(n)].peer = q
    BY <1>1 DEF Now
  <2> QED BY <1>2, <2>3, <2>4, <2>5 DEF Expected
<1> QED BY <1>2, <1>4, <1>5, <1>6

CompleteIsExpected ==
  \A n, q \in Rank :
    n # q /\ Hears(n, q) /\ Len(Moved(n)) = Now(n).count => Moved(n) = Expected(n, Place(n))

(* The same in the next state.                                             *)
LEMMA CompleteDataNext ==
  ASSUME WellPaired
  PROVE  HsInv' => CompleteIsExpected'
<1>1. HsInv => CompleteIsExpected
  BY DataComplete DEF CompleteIsExpected
<1> QED BY <1>1, PTL

(* A send whose receive is completed: that receive has taken the data, if  *)
(* it has not returned already.                                            *)
LEMMA AlreadyReceived ==
  ASSUME Holds, HsInv, WellPaired, NEW s \in Rank, NEW d \in Rank, NEW m \in Sends(s, d),
         Done(Sends(s, d), m) < Done(Recvs(d, s), Place(d))
  PROVE  LET k == MatchingRecv(s, m)
         IN  Position(d) > k \/ (Position(d) = k /\ Held[d] # << >>)
<1>1. PICK k \in Recvs(d, s) : Done(Sends(s, d), m) = Done(Recvs(d, s), k)
  BY EveryCallIsPaired
<1>2. MatchingRecv(s, m) = k
  BY <1>1, PairedBack
<1>3. /\ k \in 1 .. Len(Program[d]) /\ k \in Nat /\ Program[d][k].call \in RecvCalls
      /\ Recvs(d, s) \in SUBSET Nat /\ IsFiniteSet(Recvs(d, s))
      /\ Place(d) \in Nat /\ Result(d) \in Seq(Seq(Unit)) /\ got[d] \in Seq(Seq(Unit))
      /\ Position(d) \in Nat
  <2>1. /\ k \in 1 .. Len(Program[d]) /\ k \in Nat
        /\ Recvs(d, s) \in SUBSET Nat /\ IsFiniteSet(Recvs(d, s))
    BY CallsFinite
  <2>2. Program[d][k].call \in RecvCalls
    BY DEF Recvs, CallsOf
  <2>3. Place(d) \in Nat /\ Result(d) \in Seq(Seq(Unit))
    BY PositionOf
  <2>4. got[d] \in Seq(Seq(Unit)) /\ Position(d) \in Nat
    BY DEF Holds, Position
  <2> QED BY <2>1, <2>2, <2>3, <2>4
<1>4. k < Place(d)
  <2>1. Place(d) <= k => Done(Recvs(d, s), Place(d)) <= Done(Recvs(d, s), k)
    BY <1>3, DoneGrows
  <2>2. Done(Recvs(d, s), Place(d)) \in Nat /\ Done(Recvs(d, s), k) \in Nat
    BY <1>3, OrdinalCounts
  <2> QED BY <1>1, <1>3, <2>1, <2>2
<1>5. CASE Result(d) = got[d]
  BY <1>2, <1>3, <1>4, <1>5 DEF Place, Position
<1>6. CASE Result(d) # got[d]
  <2>1. Result(d) = Append(got[d], Held[d]) /\ Held[d] \in Seq(Unit)
    BY <1>6, ClusterAssumption DEF Holds, FpgaHolds, CpuHolds
  <2>2. Place(d) = Position(d) + 1 /\ Result(d)[Position(d)] = Held[d]
    BY <1>3, <2>1, AppendOf DEF Place, Position
  <2>3. CASE k < Position(d)
    BY <1>2, <1>3, <2>3
  <2>4. CASE k = Position(d)
    <3>1. k \in 1 .. Len(Result(d))
      BY <1>3, <1>4 DEF Place
    <3>2. Result(d)[k] = Expected(d, k)
      BY <3>1 DEF HsInv, RightSoFar
    <3>3. Expected(d, k) # << >>
      BY <1>3, SomethingExpected
    <3> QED BY <1>2, <2>2, <2>4, <3>2, <3>3
  <2> QED BY <1>3, <1>4, <2>2, <2>3, <2>4
<1> QED BY <1>5, <1>6

-----------------------------------------------------------------------------
(* What a step changes of the abstract state.                              *)

(* A list with one more member is another list.                            *)
LEMMA AppendDiffers ==
  ASSUME NEW S, NEW g \in Seq(S), NEW x \in S, NEW y \in S, NEW z \in S
  PROVE  /\ Append(g, x) # g
         /\ Append(g, x) = Append(g, y) => x = y
         /\ Append(Append(g, x), y) # g
         /\ Append(Append(g, x), y) # Append(g, z)
<1>1. /\ Append(g, x) \in Seq(S) /\ Len(g) \in Nat
      /\ Len(Append(g, x)) = Len(g) + 1 /\ Append(g, x)[Len(g) + 1] = x
      /\ Len(Append(g, y)) = Len(g) + 1 /\ Append(g, y)[Len(g) + 1] = y
      /\ Len(Append(g, z)) = Len(g) + 1
  BY AppendOf
<1>2. Len(Append(Append(g, x), y)) = Len(g) + 2
  <2>1. Len(Append(Append(g, x), y)) = Len(Append(g, x)) + 1
    BY <1>1, AppendOf
  <2> QED BY <1>1, <2>1
<1>3. Len(g) + 2 # Len(g) /\ Len(g) + 2 # Len(g) + 1 /\ Len(g) + 1 # Len(g)
  BY <1>1
<1> QED BY <1>1, <1>2, <1>3

(* What an FPGA has taken follows from its results.                        *)
LEMMA SameResultHeld ==
  ASSUME Holds, Holds', NEW n \in Fpga, Result(n)' = Result(n), got'[n] = got[n]
  PROVE  Held'[n] = Held[n]
<1>1. /\ got[n] \in Seq(Seq(Unit)) /\ Held[n] \in Seq(Unit) /\ Held'[n] \in Seq(Unit)
      /\ FpgaHolds(n) /\ FpgaHolds(n)'
  BY FpgaView DEF Holds
<1>2. /\ Append(got[n], Held[n]) # got[n] /\ Append(got[n], Held'[n]) # got[n]
      /\ Append(got[n], Held[n]) = Append(got[n], Held'[n]) => Held[n] = Held'[n]
  BY <1>1, AppendDiffers
<1> QED BY <1>1, <1>2 DEF FpgaHolds

(* A step of rank n changes only what rank n has taken and returned.       *)
LEMMA OthersHold ==
  ASSUME Holds, Holds', NEW n \in Rank, OthersStay(n),
         \A m \in Rank \ {n} : got'[m] = got[m]
  PROVE  /\ \A x : Held'[n] = x => Held' = [Held EXCEPT ![n] = x]
         /\ Held'[n] = Held[n] => Held' = Held
         /\ got'[n] = got[n] => got' = got
         /\ \A x : got'[n] = Append(got[n], x) => Return(n, x)
<1>1. ASSUME NEW m \in Rank, m # n PROVE Held'[m] = Held[m]
  <2>1. /\ Stage(m)' = Stage(m) /\ Moved(m)' = Moved(m) /\ Result(m)' = Result(m)
        /\ got'[m] = got[m]
    BY <1>1 DEF OthersStay
  <2>2. CASE m \in Fpga
    BY <2>1, <2>2, SameResultHeld
  <2>3. CASE m \in Cpu
    <3>1. Now(m)' = Now(m)
      BY <2>1 DEF Now, Place
    <3>2. CpuHolds(m) /\ CpuHolds(m)'
      BY <2>3 DEF Holds
    <3> QED BY <2>1, <3>1, <3>2 DEF CpuHolds
  <2> QED BY <2>2, <2>3, ClusterAssumption
<1>2. /\ Held = [r \in Rank |-> Held[r]] /\ Held' = [r \in Rank |-> Held'[r]]
      /\ DOMAIN Held = Rank
  BY DEF Held
<1>3. got \in [Rank -> Seq(Seq(Unit))] /\ got' \in [Rank -> Seq(Seq(Unit))]
  BY DEF Holds
<1>4. ASSUME NEW x, Held'[n] = x PROVE Held' = [Held EXCEPT ![n] = x]
  BY <1>1, <1>2, <1>4
<1>5. Held'[n] = Held[n] => Held' = Held
  BY <1>1, <1>2
<1>6. got'[n] = got[n] => got' = got
  BY <1>3
<1>7. ASSUME NEW x, got'[n] = Append(got[n], x) PROVE Return(n, x)
  BY <1>3, <1>7 DEF Return
<1> QED BY <1>4, <1>5, <1>6, <1>7

Rests == got' = got /\ Held' = Held

AbstractStep == Rests \/ Abstract!AbsNext

(* A receive takes its data.                                               *)
LEMMA TakeData ==
  ASSUME HsInv, Holds, Holds', WellPaired, NEW n \in Rank, NEW q \in Rank, n # q,
         Stage(n) = "receiving", Now(n).peer = q, Held[n] = << >>,
         Stage(q) = "sending", Place(q) = MatchingSend(n, Place(n)),
         OthersStay(n), got' = got, Held'[n] = Expected(n, Place(n))
  PROVE  AbstractStep
<1>1. /\ Result(n) = got[n] /\ Place(n) = Position(n) /\ Now(n) = CurrentOp(n) /\ Running(n)
      /\ Place(q) = Position(q) /\ Running(q)
  BY InTheMiddle
<1>2. CurrentOp(n).call \in RecvCalls
  BY <1>1 DEF HsInv, Own
<1>3. Held' = [Held EXCEPT ![n] = Expected(n, Position(n))]
  BY <1>1, OthersHold
<1>4. Abstract!Take(n)
  BY <1>1, <1>2, <1>3, ToTake
<1> QED BY <1>4 DEF AbstractStep, Abstract!AbsNext

-----------------------------------------------------------------------------
(* The steps of an FPGA.                                                   *)

(* An FPGA returns in the last states of its wrapper only.                 *)
LEMMA FpgaGets ==
  ASSUME IInv, NEW n \in Fpga, FpgaStep(n)
  PROVE  \/ got' = got
         \/ /\ SendFinish(n) \/ RecvFinish(n)
            /\ \E data \in Seq(Unit) : got'[n] = Append(got[n], data)
<1>1. Engine(n) => got' = got
  BY EngineEffect
<1>2. DeqSend(n) \/ DeqRecv(n) => got' = got
  BY DEF DeqSend, DeqRecv, DeqRecvStart, DeqRecvWrite, DeqRecvPoison
<1>3. WriteInfo(n) \/ SendWriteData(n) \/ RecvReadData(n) => got' = got
  BY DEF WriteInfo, SendWriteData, RecvReadData
<1>4. << >> \in Seq(Unit) /\ wrap[n].data \in Seq(Unit) /\ n \in Rank
      /\ got \in [Rank -> Seq(Seq(Unit))]
  BY Local, FpgaView DEF IInv, FpgaInv, FpgaTypeOK, Wrappers, ApplicationTypeOK
<1>5. SendFinish(n) => got' = got \/ Return(n, << >>)
  BY DEF SendFinish
<1>6. RecvFinish(n) => got' = got \/ Return(n, wrap[n].data)
  BY DEF RecvFinish
<1>7. \A data : Return(n, data) => got'[n] = Append(got[n], data)
  BY <1>4 DEF Return
<1> QED BY <1>1, <1>2, <1>3, <1>4, <1>5, <1>6, <1>7 DEF FpgaStep, Wrapper

(* A call of an FPGA returns: a receive what it has taken, a send nothing, *)
(* after the receive has taken the data.                                   *)
LEMMA FpgaReturnRefines ==
  ASSUME HsInv, Holds, Holds', WellPaired, NEW n \in Fpga, OthersStay(n),
         \A m \in Rank \ {n} : got'[m] = got[m], Result(n)' = Result(n),
         NEW data \in Seq(Unit), got'[n] = Append(got[n], data)
  PROVE  AbstractStep
<1>1. /\ n \in Rank /\ got[n] \in Seq(Seq(Unit)) /\ Held[n] \in Seq(Unit)
      /\ Held'[n] \in Seq(Unit) /\ FpgaHolds(n) /\ FpgaHolds(n)'
  BY FpgaView DEF Holds
<1>2. /\ Append(got[n], data) # got[n]
      /\ Append(got[n], data) = Append(got[n], Held[n]) => data = Held[n]
      /\ Append(Append(got[n], data), Held'[n]) # got[n]
      /\ Append(Append(got[n], data), Held'[n]) # Append(got[n], Held[n])
  BY <1>1, AppendDiffers
<1>3. /\ Result(n) = Append(got[n], Held[n]) /\ data = Held[n] /\ Running(n)
      /\ Held'[n] = << >>
  BY <1>1, <1>2 DEF FpgaHolds
<1>4. Return(n, Held[n])
  BY <1>1, <1>3, OthersHold
<1>5. /\ Position(n) \in 1 .. Len(Program[n]) /\ Position(n) \in Nat
      /\ Place(n) = Position(n) + 1 /\ Result(n)[Position(n)] = Held[n]
      /\ Position(n) \in 1 .. Len(Result(n))
  <2>1. /\ Len(got[n]) \in Nat /\ Len(Result(n)) = Len(got[n]) + 1
        /\ Result(n)[Len(got[n]) + 1] = Held[n]
    BY <1>1, <1>3, AppendOf
  <2>2. Len(Program[n]) \in Nat
    BY <1>1, CallsFinite
  <2> QED BY <1>3, <2>1, <2>2 DEF Position, Place, Running
<1>6. Held[n] = Expected(n, Position(n))
  BY <1>1, <1>5 DEF HsInv, RightSoFar
<1>7. CASE CurrentOp(n).call \in RecvCalls
  <2>1. Held[n] # << >>
    BY <1>1, <1>5, <1>6, <1>7, SomethingExpected DEF CurrentOp
  <2>2. Held' = [Held EXCEPT ![n] = << >>]
    BY <1>1, <1>3, OthersHold
  <2>3. Abstract!ReturnFromRecv(n)
    BY <1>1, <1>4, <2>1, <2>2, ToReturnFromRecv
  <2> QED BY <1>1, <2>3 DEF AbstractStep, Abstract!AbsNext
<1>8. CASE CurrentOp(n).call \in SendCalls
  <2> DEFINE d == CurrentOp(n).peer
             S == Sends(n, d)
             R == Recvs(d, n)
  <2>1. d \in Rank /\ d # n /\ Position(n) \in S
    BY <1>1, <1>5, <1>8, CallType, ProgramAssumption DEF CurrentOp, Sends, CallsOf
  <2>2. Held[n] = << >>
    BY <1>6, <1>8 DEF Expected, CurrentOp
  <2>3. Held' = Held
    BY <1>1, <1>3, <2>2, OthersHold
  <2>4. S \in SUBSET Nat /\ IsFiniteSet(S)
    BY <1>1, <2>1, CallsFinite
  <2>5. InStep(n, d)
    BY <1>1, <2>1 DEF HsInv, Link
  <2> HIDE DEF d
  <2>6. Done(S, Position(n)) < Done(R, Place(d))
    <3>1. /\ Done(S, Position(n)) \in Nat
          /\ Done(S, Position(n) + 1) = Done(S, Position(n)) + 1
      BY <1>5, <2>1, <2>4, OrdinalCounts
    <3>2. Done(R, Place(d)) \in {Done(S, Position(n) + 1), Done(S, Position(n) + 1) + 1}
      BY <1>5, <2>5, <3>1 DEF InStep
    <3> QED BY <3>1, <3>2
  <2>7. LET k == MatchingRecv(n, Position(n))
        IN  Position(d) > k \/ (Position(d) = k /\ Held[d] # << >>)
    BY <1>1, <2>1, <2>6, AlreadyReceived
  <2>8. Abstract!ReturnFromSend(n)
    BY <1>1, <1>3, <1>4, <1>8, <2>2, <2>3, <2>7, ToReturnFromSend DEF d
  <2> QED BY <1>1, <2>8 DEF AbstractStep, Abstract!AbsNext
<1>9. CurrentOp(n).call \in Calls
  BY <1>1, <1>5, CallType DEF CurrentOp
<1> QED BY <1>7, <1>8, <1>9 DEF Calls

(* Every step of an FPGA is a step of the rendezvous, or none.             *)
LEMMA FpgaRefines ==
  ASSUME Calm, Calm', Window = 1, NamesAgree, WellPaired, NEW n \in Fpga, FpgaStep(n),
         UNCHANGED cpu
  PROVE  AbstractStep
<1>1. /\ IInv /\ HandsOver /\ HsInv /\ KeptApart /\ Unlooped /\ FpgaCalm(n)
      /\ HandOverAt(n) /\ n \in Rank
  BY FpgaView DEF Calm, HandsOver
<1>2. Holds /\ Holds'
  BY CalmHolds, CalmHoldsNext
<1>3. OthersStay(n) /\ \A m \in Rank \ {n} : got'[m] = got[m]
  BY <1>1, FpgaFrame
<1>4. CASE got' # got
  <2>1. PICK data \in Seq(Unit) : /\ SendFinish(n) \/ RecvFinish(n)
                                  /\ got'[n] = Append(got[n], data)
    BY <1>1, <1>4, FpgaGets
  <2>2. HsStays
    BY <1>1, <2>1, SendFinishHs, RecvFinishHs
  <2>3. Result(n)' = Result(n)
    BY <1>1, <2>2 DEF HsStays
  <2> QED BY <1>1, <1>2, <1>3, <2>1, <2>3, FpgaReturnRefines
<1>5. CASE got' = got
  <2>1. CASE Result(n)' = Result(n)
    <3>1. Held'[n] = Held[n]
      BY <1>2, <1>5, <2>1, SameResultHeld
    <3> QED BY <1>1, <1>2, <1>3, <1>5, <3>1, OthersHold DEF AbstractStep, Rests
  <2>2. CASE Result(n)' # Result(n)
    <3>1. PICK q \in Rank : q # n /\ HsStep(n, q)
      BY <1>1, <2>2, FpgaStepHs DEF HsStays
    <3>2. Acknowledge(n, q) \/ HearAck(n, q)
      BY <2>2, <3>1 DEF HsStep, Ask, Keep, HearRequest, FindRequest, Clear, HearClear, SendPart,
         HearPart, GoesOn, Transfers
    <3>3. ASSUME NEW data \in Seq(Unit), Completes(n, data), Stage(n) # "out"
          PROVE  Held[n] = << >> /\ Held'[n] = data
      <4>1. Result(n) = got[n] /\ Held[n] = << >>
        BY <1>1, <1>2, <3>3, InTheMiddle
      <4>2. Result(n)' = Append(got[n], data)
        BY <3>3, <4>1 DEF Completes
      <4>3. /\ got[n] \in Seq(Seq(Unit)) /\ FpgaHolds(n)' /\ Held'[n] \in Seq(Unit)
        BY <1>1, <1>2 DEF Holds
      <4>4. /\ Append(got[n], data) # got[n]
            /\ Append(got[n], data) = Append(got[n], Held'[n]) => data = Held'[n]
        BY <4>3, AppendDiffers
      <4> QED BY <1>5, <4>1, <4>2, <4>3, <4>4 DEF FpgaHolds
    <3>4. CASE HearAck(n, q)
      <4>1. << >> \in Seq(Unit) /\ Completes(n, << >>) /\ Stage(n) = "sending"
        BY <3>4 DEF HearAck
      <4>2. Held[n] = << >> /\ Held'[n] = << >>
        BY <3>3, <4>1
      <4> QED BY <1>1, <1>2, <1>3, <1>5, <4>2, OthersHold DEF AbstractStep, Rests
    <3>5. CASE Acknowledge(n, q)
      <4>1. /\ Moved(n) \in Seq(Unit) /\ Completes(n, Moved(n)) /\ Stage(n) = "receiving"
            /\ Now(n).peer = q /\ Len(Moved(n)) = Now(n).count
        BY <1>1, <3>5, PositionOf DEF Acknowledge
      <4>2. Held[n] = << >> /\ Held'[n] = Moved(n)
        BY <3>3, <4>1
      <4>3. Hears(n, q)
        BY <4>1 DEF Hears, Busy
      <4>4. /\ Stage(q) = "sending" /\ Place(q) = MatchingSend(n, Place(n))
            /\ Moved(n) = Expected(n, Place(n))
        BY <1>1, <3>1, <4>1, <4>3, DataComplete
      <4> QED BY <1>1, <1>2, <1>3, <1>5, <3>1, <4>1, <4>2, <4>4, TakeData
    <3> QED BY <3>2, <3>4, <3>5
  <2> QED BY <2>1, <2>2
<1> QED BY <1>4, <1>5

-----------------------------------------------------------------------------
(* The steps of a CPU.                                                     *)

(* One more unit of a receive: the last one completes the data.            *)
LEMMA CpuHearsPart ==
  ASSUME HsInv, HsInv', Holds, Holds', WellPaired, NEW n \in Cpu, NEW q \in Rank, q # n,
         HearPart(n, q), \A m \in Rank \ {n} : got'[m] = got[m]
  PROVE  AbstractStep
<1>1. /\ n \in Rank /\ Stage(n) = "receiving" /\ Now(n).peer = q
      /\ Stage(n)' = Stage(n) /\ Result(n)' = Result(n) /\ OthersStay(n)
      /\ Moved(n)' = Append(Moved(n), Head(Way(q, n)).unit)
      /\ Place(n)' = Place(n) /\ Now(n)' = Now(n)
  BY CpuView DEF HearPart, Transfers, Place, Now
<1>2. Way(q, n) # << >> /\ Head(Way(q, n)).type \in {"DATA", "CONT"}
  BY DEF HearPart, Comes
<1>3. Streams(q, n) /\ Hears(n, q) /\ Len(Moved(n)) < Len(Moved(q))
  BY <1>1, <1>2, Arrival
<1>4. /\ Place(q) = MatchingSend(n, Place(n)) /\ Now(n).count = Now(q).count
      /\ Stage(q) = "sending"
  BY <1>1, <1>3, Partners DEF Engaged, Hears, Streams, Busy
<1>5. Len(Moved(q)) <= Now(n).count
  BY <1>4 DEF HsInv, Own
<1>6. /\ Len(Moved(n)) \in Nat /\ Len(Moved(q)) \in Nat /\ Now(n).count \in Nat
  BY <1>1, <1>4, PositionOf, CallType DEF Now
<1>7. Len(Moved(n)) # Now(n).count
  BY <1>3, <1>5, <1>6
<1>8. CpuHolds(n) /\ CpuHolds(n)'
  BY DEF Holds
<1>9. Held[n] = << >> /\ got'[n] = got[n]
  BY <1>1, <1>7, <1>8 DEF CpuHolds
<1>10. got' = got
  BY <1>1, <1>9, OthersHold
<1>11. CASE Len(Moved(n)') = Now(n).count
  <2>1. Held'[n] = Moved(n)'
    BY <1>1, <1>8, <1>11 DEF CpuHolds
  <2>2. Hears(n, q)' /\ Len(Moved(n)') = Now(n)'.count
    BY <1>1, <1>11 DEF Hears, Busy
  <2>3. Moved(n)' = Expected(n, Place(n)')
    BY <1>1, <2>2, CompleteDataNext DEF CompleteIsExpected
  <2>4. Held'[n] = Expected(n, Place(n))
    BY <1>1, <2>1, <2>3
  <2> QED BY <1>1, <1>4, <1>9, <1>10, <2>4, TakeData
<1>12. CASE Len(Moved(n)') # Now(n).count
  <2>1. Held'[n] = Held[n]
    BY <1>1, <1>8, <1>9, <1>12 DEF CpuHolds
  <2> QED BY <1>1, <1>10, <2>1, OthersHold DEF AbstractStep, Rests
<1> QED BY <1>11, <1>12

(* The receive of a CPU returns the data that it has taken.                *)
LEMMA CpuAcknowledges ==
  ASSUME HsInv, Holds, Holds', WellPaired, NEW n \in Cpu, NEW q \in Rank, q # n,
         Acknowledge(n, q), \A m \in Rank \ {n} : got'[m] = got[m]
  PROVE  AbstractStep
<1>1. /\ n \in Rank /\ Stage(n) = "receiving" /\ Now(n).peer = q
      /\ Len(Moved(n)) = Now(n).count /\ OthersStay(n)
      /\ Stage(n)' = "out" /\ Result(n)' = Append(Result(n), Moved(n))
  BY CpuView DEF Acknowledge, Completes
<1>2. CpuHolds(n) /\ CpuHolds(n)'
  BY DEF Holds
<1>3. /\ Held[n] = Moved(n) /\ Held'[n] = << >> /\ got'[n] = Append(got[n], Moved(n))
  BY <1>1, <1>2 DEF CpuHolds
<1>4. Moved(n) # << >>
  BY <1>1, DataComplete DEF Hears, Busy
<1>5. Return(n, Held[n]) /\ Held' = [Held EXCEPT ![n] = << >>]
  BY <1>1, <1>3, OthersHold
<1>6. Abstract!ReturnFromRecv(n)
  BY <1>1, <1>3, <1>4, <1>5, ToReturnFromRecv
<1> QED BY <1>1, <1>6 DEF AbstractStep, Abstract!AbsNext

(* The send of a CPU returns when the receive has all its data.            *)
LEMMA CpuHearsAck ==
  ASSUME HsInv, Holds, Holds', WellPaired, NEW n \in Cpu, NEW q \in Rank, q # n,
         HearAck(n, q), \A m \in Rank \ {n} : got'[m] = got[m]
  PROVE  AbstractStep
<1>1. /\ n \in Rank /\ Stage(n) = "sending" /\ Now(n).peer = q /\ OthersStay(n)
      /\ Stage(n)' = "out" /\ Result(n)' = Append(Result(n), << >>)
  BY CpuView DEF HearAck, Completes
<1>2. CpuHolds(n) /\ CpuHolds(n)'
  BY DEF Holds
<1>3. Held[n] = << >> /\ Held'[n] = << >> /\ got'[n] = Append(got[n], << >>)
  BY <1>1, <1>2 DEF CpuHolds
<1>4. Return(n, << >>) /\ Held' = Held
  BY <1>1, <1>3, OthersHold
<1>5. /\ Place(n) = Position(n) /\ Now(n) = CurrentOp(n) /\ Running(n)
      /\ Place(n) \in Sends(n, q) /\ Now(n).call \in SendCalls
  BY <1>1, InTheMiddle, PositionOf DEF HsInv, Own
<1>6. Done(Sends(n, q), Place(n)) < Done(Recvs(q, n), Place(q))
  <2>1. Way(q, n) # << >> /\ Head(Way(q, n)).type = "ACK"
    BY DEF HearAck, Comes
  <2>2. Streams(n, q) /\ ~Hears(q, n)
    BY <1>1, <2>1, Arrival
  <2>3. InStep(n, q)
    BY <1>1 DEF HsInv, Link
  <2>4. Done(Sends(n, q), Place(n)) \in Nat
    <3>1. Sends(n, q) \in SUBSET Nat /\ IsFiniteSet(Sends(n, q)) /\ Place(n) \in Nat
      BY <1>1, CallsFinite, PositionOf
    <3> QED BY <3>1, OrdinalCounts
  <2> QED BY <2>2, <2>3, <2>4 DEF InStep
<1>7. LET k == MatchingRecv(n, Position(n))
      IN  Position(q) > k \/ (Position(q) = k /\ Held[q] # << >>)
  BY <1>1, <1>5, <1>6, AlreadyReceived
<1>8. Abstract!ReturnFromSend(n)
  BY <1>1, <1>4, <1>5, <1>7, ToReturnFromSend
<1> QED BY <1>1, <1>8 DEF AbstractStep, Abstract!AbsNext

(* Every step of a CPU rank is a step of the rendezvous, or none.          *)
LEMMA CpuRefines ==
  ASSUME Calm, Calm', Window = 1, NamesAgree, WellPaired, NEW n \in Cpu, CpuStep(n),
         UNCHANGED mpeVars
  PROVE  AbstractStep
<1>1. IInv /\ HsInv /\ HsInv' /\ Unlooped /\ CpuCalm(n) /\ n \in Rank
  BY CpuView DEF Calm
<1>2. Holds /\ Holds'
  BY CalmHolds, CalmHoldsNext
<1>3. OthersStay(n) /\ \A m \in Rank \ {n} : got'[m] = got[m]
  BY <1>1, CpuFrame, CpuReturns DEF IInv, CpuInv
<1>4. CpuHolds(n) /\ CpuHolds(n)'
  BY <1>2 DEF Holds
<1>5. ASSUME Result(n)' = Result(n), Held'[n] = Held[n] PROVE AbstractStep
  <2>1. got'[n] = got[n]
    BY <1>4, <1>5 DEF CpuHolds
  <2> QED BY <1>1, <1>2, <1>3, <1>5, <2>1, OthersHold DEF AbstractStep, Rests
<1>6. CASE HsStays
  <2>1. /\ Stage(n)' = Stage(n) /\ Moved(n)' = Moved(n) /\ Result(n)' = Result(n)
        /\ Now(n)' = Now(n)
    BY <1>1, <1>6 DEF HsStays, Now, Place
  <2> QED BY <1>4, <1>5, <2>1 DEF CpuHolds
<1>7. ASSUME NEW q \in Rank, q # n, HsStep(n, q) PROVE AbstractStep
  <2>1. ASSUME NEW from, NEW to, GoesOn(n, from, to),
               (from # "receiving" /\ to # "receiving") \/ from = to
                 \/ (from = "clear" /\ to = "receiving")
        PROVE  AbstractStep
    <3>1. /\ Stage(n) = from /\ Stage(n)' = to /\ Moved(n)' = Moved(n)
          /\ Result(n)' = Result(n) /\ Now(n)' = Now(n)
      BY <2>1 DEF GoesOn, Now, Place
    <3>2. CASE from = "clear"
      <4>1. Len(Moved(n)) # Now(n).count
        <5>1. Moved(n) = << >> /\ Place(n) \in 1 .. Len(Program[n])
          BY <1>1, <3>1, <3>2, PositionOf DEF HsInv, Own
        <5>2. Now(n).count # 0 /\ Len(<< >>) = 0
          BY <1>1, <5>1, CallType DEF Now
        <5> QED BY <5>1, <5>2
      <4> QED BY <1>4, <1>5, <3>1, <4>1 DEF CpuHolds
    <3>3. CASE from # "clear"
      BY <1>4, <1>5, <2>1, <3>1, <3>3 DEF CpuHolds
    <3> QED BY <3>2, <3>3
  <2>2. CASE Ask(n, q) \/ HearRequest(n, q) \/ FindRequest(n, q) \/ HearClear(n, q)
    BY <2>1, <2>2 DEF Ask, HearRequest, FindRequest, HearClear
  <2>3. CASE Keep(n, q) \/ Clear(n, q)
    BY <2>1, <2>3 DEF Keep, Clear
  <2>4. CASE SendPart(n, q)
    <3>1. Stage(n) = "sending" /\ Stage(n)' = "sending" /\ Result(n)' = Result(n)
      BY <2>4 DEF SendPart, Transfers
    <3> QED BY <1>4, <1>5, <3>1 DEF CpuHolds
  <2>5. CASE HearPart(n, q)
    BY <1>1, <1>2, <1>3, <1>7, <2>5, CpuHearsPart
  <2>6. CASE Acknowledge(n, q)
    BY <1>1, <1>2, <1>3, <1>7, <2>6, CpuAcknowledges
  <2>7. CASE HearAck(n, q)
    BY <1>1, <1>2, <1>3, <1>7, <2>7, CpuHearsAck
  <2> QED BY <1>7, <2>2, <2>3, <2>4, <2>5, <2>6, <2>7 DEF HsStep
<1>8. HsStays \/ \E q \in Rank : q # n /\ HsStep(n, q)
  BY <1>1, CpuStepHs
<1> QED BY <1>6, <1>7, <1>8

-----------------------------------------------------------------------------
(* Every step of the cluster is a step of the rendezvous, or none.         *)
LEMMA NextRefines ==
  ASSUME Window = 1, NamesAgree, WellPaired
  PROVE  Calm /\ Calm' /\ [Next]_vars /\ [~Disturbed]_vars =>
           [Abstract!AbsNext]_(Abstract!absVars)
<1> SUFFICES ASSUME Calm, Calm', [Next]_vars, [~Disturbed]_vars
             PROVE  [Abstract!AbsNext]_(Abstract!absVars)
  OBVIOUS
<1>1. AbstractStep => [Abstract!AbsNext]_(Abstract!absVars)
  BY DEF AbstractStep, Rests, Held, Abstract!absVars
<1>2. CASE UNCHANGED vars
  <2>1. got' = got /\ Held' = Held
    BY <1>2 DEF vars, Held, TakenByFpga, TakenByCpu, At
  <2> QED BY <1>1, <2>1 DEF AbstractStep, Rests
<1>3. CASE Next /\ ~Disturbed
  <2>1. ASSUME NEW n \in Fpga, FpgaRank(n) PROVE AbstractStep
    <3>1. FpgaStep(n) /\ UNCHANGED cpu
      BY <1>3, <2>1 DEF FpgaRank, Disturbed, SomeTimeout
    <3> QED BY <3>1, FpgaRefines
  <2>2. ASSUME NEW n \in Cpu, CpuRank(n) PROVE AbstractStep
    <3>1. CpuStep(n) /\ UNCHANGED mpeVars
      BY <1>3, <2>2 DEF CpuRank, Disturbed, SomeTimeout
    <3> QED BY <3>1, CpuRefines
  <2>3. ~Loss
    BY <1>3 DEF Loss, Disturbed
  <2>4. CASE Terminated
    BY <1>2, <2>4 DEF Terminated
  <2> QED BY <1>1, <1>3, <2>1, <2>2, <2>3, <2>4 DEF Next
<1> QED BY <1>2, <1>3

(* The initial states of the cluster are those of the rendezvous.          *)
LEMMA InitRefines == Init => Abstract!AbsInit
<1> SUFFICES ASSUME Init PROVE Abstract!AbsInit
  OBVIOUS
<1>1. ASSUME NEW n \in Rank PROVE Held[n] = << >>
  <2>1. CASE n \in Fpga
    <3>1. wrap[n].state = "READY"
      BY <2>1 DEF Init, MpeInit
    <3> QED BY <1>1, <2>1, <3>1 DEF Held, TakenByFpga
  <2>2. CASE n \notin Fpga
    <3>1. n \in Cpu
      BY <1>1, <2>2, ClusterAssumption
    <3>2. cpu[n].pc = "READY"
      BY <3>1 DEF Init, CpuInit
    <3> QED BY <1>1, <2>2, <3>2 DEF Held, TakenByCpu, At
  <2> QED BY <2>1, <2>2
<1>2. Held = [r \in Rank |-> << >>]
  BY <1>1 DEF Held
<1>3. got = [r \in Rank |-> << >>]
  BY DEF Init, ApplicationInit
<1> QED BY <1>2, <1>3 DEF Abstract!AbsInit, Abstract!ApplicationInit, Held

(* The engines, FIFOs, wrappers and libraries implement the rendezvous:    *)
(* in every cluster and for every program of paired calls, a receive takes *)
(* its data while the sender is in that very call, and a send returns only *)
(* after that, as long as the network keeps the packets in order and loses *)
(* none, and no timer expires.                                             *)
THEOREM ClusterImplementsRendezvous ==
  ASSUME WellPaired, NamesAgree, Window = 1
  PROVE  Spec /\ [][~Disturbed]_vars => IsRendezvous
<1>1. Calm /\ [Next]_vars /\ [~Disturbed]_vars => Calm'
  BY NextCalm
<1>2. Calm /\ Calm' /\ [Next]_vars /\ [~Disturbed]_vars =>
        [Abstract!AbsNext]_(Abstract!absVars)
  BY NextRefines
<1> QED BY <1>1, <1>2, InitCalm, InitRefines, PTL DEF Spec, IsRendezvous, Abstract!AbsSpec

=============================================================================
