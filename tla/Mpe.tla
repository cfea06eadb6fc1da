-------------------------------- MODULE Mpe --------------------------------
(***************************************************************************)
(* The Message Passing Engine of an FPGA (LIB/HW/hls/mpe2) with the        *)
(* wrapper of the application (LIB/HW/hls/mpi_wrapperv2) that drives it.   *)
(*                                                                         *)
(*   wrapper --mpiif, mpiData--> pMpeGlobal --tx--> pDeqSend --> network   *)
(*   wrapper <--feedback-------- pMpeGlobal <------------------ network    *)
(*   wrapper <--appData-- pDeqRecv <--rx, expLen-- pMpeGlobal              *)
(*                                                                         *)
(* One action is one visit of a state of pMpeGlobal's switch, at packet    *)
(* granularity: the beats that write one header (X, X_1) and the beats     *)
(* that read one packet (X, X_1, RECV_DATA_RD, MPE_DRAIN_DATA_STREAM) are  *)
(* one action, and a visit that only looks into the header cache or only   *)
(* sets registers is part of the action before it, since nobody else can   *)
(* see it.  Counters of words are counters of units.                       *)
(***************************************************************************)
EXTENDS Application

CONSTANTS Fpga,            \* the ranks that are FPGAs
          FeedbackDepth    \* depth of the feedback FIFO to the wrapper

ASSUME MpeAssumption ==
  /\ Fpga \subseteq Rank
  /\ FeedbackDepth \in Nat \ {0}

VARIABLES mpe,     \* registers of pMpeGlobal
          fifo,    \* the FIFOs between the processes
          deq,     \* registers of pDeqRecv
          wrap     \* the application's wrapper

mpeVars == <<mpe, fifo, deq, wrap>>

States == {"MPE_RESET", "IDLE", "START_SEND", "SEND_REQ", "WAIT4CLEAR",
           "SEND_DATA_START", "SEND_DATA_RD", "SEND_DATA_WRD", "WAIT4ACK",
           "START_RECV", "WAIT4REQ", "ASSEMBLE_CLEAR", "SEND_CLEAR",
           "RECV_DATA_START", "RECV_DATA_WRD", "SEND_ACK"}

NoRank == 999  \* 0xFFF: no data source yet

Registers ==
  [fsm : States,
   call : Calls, count : Nat, rank : Rank,         \* currentInfo
   expType : HeaderTypes, expCall : Calls,         \* what checkHeader expects
   inc : 0 .. MaxInc,                              \* protocol_timeout_inc
   timer : {"running", "expired"},                 \* protocol_timeout_cnt
   sent : Nat,                                     \* send_total_cnt
   exp : Nat, rcvd : Nat,                          \* exp_recv_count_enqueue, enqueue_recv_total_cnt
   dataSrc : Rank \cup {NoRank}, more : BOOLEAN,   \* current_data_src_node_id, expect_more_data
   started : BOOLEAN,                              \* receive_right_data_started
   cache : [Rank -> CacheLine]]                    \* header_cache, header_cache_valid

EmptyCache == [r \in Rank |-> NoHeader]

TxEntry == [pkt : Packet, tlast : BOOLEAN]
RxEntry == [unit : Unit, tlast : BOOLEAN]
Info    == [call : Calls, count : Nat, rank : Rank]

Fifos ==
  [mpiif : Seq(Info), mpiData : Seq(Unit), feedback : Seq({"OK", "FAIL"}),
   tx : Seq(TxEntry), sendDone : Nat,              \* sFifoDataTX, sDeqSendDone
   rx : Seq(Unit \cup {Poison}), expLen : Seq(Nat), recvDone : Nat,
   appData : Seq(RxEntry)]

DeqRegisters == [state : {"DEQ_IDLE", "DEQ_WRITE"}, exp : Nat, cnt : Nat]

Wrappers == [state : {"READY", "SEND_WRITE_DATA", "SEND_FINISH", "RECV_READ_DATA",
                      "RECV_FINISH"},
             data : Seq(Unit)]

MpeTypeOK ==
  /\ mpe \in [Fpga -> Registers]
  /\ fifo \in [Fpga -> Fifos]
  /\ deq \in [Fpga -> DeqRegisters]
  /\ wrap \in [Fpga -> Wrappers]

MpeInit ==
  /\ mpe = [n \in Fpga |->
       [fsm |-> "MPE_RESET", call |-> "MPI_SEND_INT", count |-> 0, rank |-> n,
        expType |-> "DATA", expCall |-> "MPI_SEND_INT",
        inc |-> 0, timer |-> "running", sent |-> 0, exp |-> 0, rcvd |-> 0,
        dataSrc |-> NoRank, more |-> FALSE, started |-> FALSE,
        cache |-> EmptyCache]]
  /\ fifo = [n \in Fpga |->
       [mpiif |-> << >>, mpiData |-> << >>, feedback |-> << >>,
        tx |-> << >>, sendDone |-> 0, rx |-> << >>, expLen |-> << >>,
        recvDone |-> 0, appData |-> << >>]]
  /\ deq = [n \in Fpga |-> [state |-> "DEQ_IDLE", exp |-> 0, cnt |-> 0]]
  /\ wrap = [n \in Fpga |-> [state |-> "READY", data |-> << >>]]

-----------------------------------------------------------------------------
(* What the states have in common. *)

In(n, state) == mpe[n].fsm = state

FeedbackRoom(n) == Len(fifo[n].feedback) < FeedbackDepth

(* A control packet for the peer of the current call, as sFifoDataTX holds *)
(* it.  The engine waits for sDeqSendDone before it writes the next        *)
(* message, so the FIFO has room.                                          *)
ControlMessage(n, type) ==
  <<[pkt |-> Control(type, n, mpe[n].rank, mpe[n].call), tlast |-> TRUE]>>

(* getCache followed by checkHeader for the current call. *)
CacheHolds(n, type) ==
  CachedMatch(mpe[n].cache[mpe[n].rank], type, PeerCall[mpe[n].call], mpe[n].rank)

(* KeepLine is a mutant of Deleted: delete_cache_line forgets to delete. *)
KeepLine(cache, r) == cache

Deleted(cache, r) == [cache EXCEPT ![r] = NoHeader]

(* checkHeader on an arriving packet that ends with its header *)
Wanted(n, p) ==
  /\ HasHeader(p) /\ p.unit = NoUnit
  /\ Matches(HeaderOf(p), mpe[n].expType, mpe[n].expCall, mpe[n].rank)

(* A mutant of CacheWith: headers nobody waits for are thrown away. *)
DropUnwanted(n, p) == mpe[n].cache

(* What becomes of a packet nobody waits for: if it ends with its header,  *)
(* it overwrites the cache line of its sender, a longer one is drained.    *)
CacheWith(n, p) ==
  IF HasHeader(p) /\ p.unit = NoUnit
  THEN [mpe[n].cache EXCEPT ![p.src] = HeaderOf(p)]
  ELSE mpe[n].cache

(* A mutant of TimerFires: no limit of the number of timeouts. *)
TimerFiresAgain(n) == mpe[n].timer = "running"

(* The counter of rank n reaches zero: it is reloaded only where the code  *)
(* does so; past zero it wraps and does not fire again.                    *)
TimerFires(n) == mpe[n].timer = "running" /\ mpe[n].inc < MaxInc

(* The engine, pDeqRecv and the wrapper of rank n all wait for others.     *)
Blocked(n) ==
  /\ mpe[n].fsm \in {"IDLE", "WAIT4CLEAR", "WAIT4ACK", "WAIT4REQ", "RECV_DATA_START"}
  /\ fifo[n].mpiif = << >> /\ fifo[n].tx = << >>
  /\ fifo[n].feedback = << >> /\ fifo[n].appData = << >>
  /\ wrap[n].state = "READY" => ~Running(n)
  /\ wrap[n].state # "SEND_WRITE_DATA"

-----------------------------------------------------------------------------
(* Reset and dispatch of a call. *)

(* Entered after power-up only.  MPE_RESET is left once cluster_size is    *)
(* not zero: an input of the management core (Role.tla) that is set in the *)
(* end, so here it is one of the delays of the step.                       *)
Reset(n) ==
  /\ In(n, "MPE_RESET")
  /\ mpe' = [mpe EXCEPT ![n].fsm = "IDLE", ![n].cache = EmptyCache]
  /\ UNCHANGED <<fifo, deq, wrap, netVars, got>>

Idle(n) ==
  /\ In(n, "IDLE")
  /\ fifo[n].mpiif # << >>
  /\ LET info == Head(fifo[n].mpiif)
     IN  mpe' = [mpe EXCEPT
           ![n].fsm = IF info.call \in SendCalls THEN "START_SEND" ELSE "START_RECV",
           ![n].call = info.call, ![n].count = info.count, ![n].rank = info.rank,
           ![n].inc = 0]
  /\ fifo' = [fifo EXCEPT ![n].mpiif = Tail(@)]
  /\ UNCHANGED <<deq, wrap, netVars, got>>

-----------------------------------------------------------------------------
(* Sending: SEND_REQUEST, wait for CLEAR_TO_SEND, DATA, wait for ACK. *)

StartSend(n) ==
  /\ In(n, "START_SEND")
  /\ fifo' = [fifo EXCEPT ![n].tx = @ \o ControlMessage(n, "SEND_REQUEST")]
  /\ mpe' = [mpe EXCEPT ![n].fsm = "SEND_REQ"]
  /\ UNCHANGED <<deq, wrap, netVars, got>>

SendReq(n) ==
  /\ In(n, "SEND_REQ")
  /\ fifo[n].sendDone > 0
  /\ fifo' = [fifo EXCEPT ![n].sendDone = @ - 1]
  /\ mpe' = [mpe EXCEPT
       ![n].expType = "CLEAR_TO_SEND", ![n].expCall = PeerCall[mpe[n].call],
       ![n].timer = "running",
       ![n].fsm = IF CacheHolds(n, "CLEAR_TO_SEND") THEN "SEND_DATA_START" ELSE "WAIT4CLEAR"]
  /\ UNCHANGED <<deq, wrap, netVars, got>>

Wait4Clear(n, s, i) ==
  /\ In(n, "WAIT4CLEAR")
  /\ Consume(s, n, i)
  /\ LET p == net[<<s, n>>][i]
     IN  mpe' = IF Wanted(n, p)
                THEN [mpe EXCEPT ![n].fsm = "SEND_DATA_START"]
                ELSE [mpe EXCEPT ![n].cache = CacheWith(n, p)]
  /\ UNCHANGED <<fifo, deq, wrap, losses, got>>

Wait4ClearTimeout(n) ==
  /\ In(n, "WAIT4CLEAR")
  /\ TimerFires(n)
  /\ mpe' = [mpe EXCEPT ![n].fsm = "START_SEND", ![n].inc = @ + 1, ![n].timer = "expired"]
  /\ UNCHANGED <<fifo, deq, wrap, netVars, got>>

SendDataStart(n) ==
  /\ In(n, "SEND_DATA_START")
  /\ mpe' = [mpe EXCEPT ![n].fsm = "SEND_DATA_RD", ![n].sent = 0,
                        ![n].cache = Deleted(@, mpe[n].rank)]
  /\ UNCHANGED <<fifo, deq, wrap, netVars, got>>

SendDataRd(n) ==
  /\ In(n, "SEND_DATA_RD")
  /\ fifo[n].mpiData # << >>
  /\ LET e    == mpe[n]
         unit == Head(fifo[n].mpiData)
         last == e.sent + 1 >= e.count
         pkt  == IF e.sent = 0 THEN DataPacket(n, e.rank, e.call, e.count, unit)
                               ELSE ContPacket(n, e.rank, e.call, unit)
     IN  /\ mpe' = [mpe EXCEPT ![n].sent = @ + 1,
                               ![n].fsm = IF last THEN "SEND_DATA_WRD" ELSE @]
         /\ fifo' = [fifo EXCEPT ![n].mpiData = Tail(@),
                                 ![n].tx = Append(@, [pkt |-> pkt, tlast |-> last])]
  /\ UNCHANGED <<deq, wrap, netVars, got>>

(* A hit in the cache ends the call without any feedback to the wrapper. *)
SendDataWrd(n) ==
  /\ In(n, "SEND_DATA_WRD")
  /\ fifo[n].sendDone > 0
  /\ fifo' = [fifo EXCEPT ![n].sendDone = @ - 1]
  /\ LET hit == CacheHolds(n, "ACK")
     IN  mpe' = [mpe EXCEPT
           ![n].expType = "ACK", ![n].expCall = PeerCall[mpe[n].call],
           ![n].timer = "running",
           ![n].cache = IF hit THEN Deleted(@, mpe[n].rank) ELSE @,
           ![n].fsm = IF hit THEN "IDLE" ELSE "WAIT4ACK"]
  /\ UNCHANGED <<deq, wrap, netVars, got>>

Wait4Ack(n, s, i) ==
  /\ In(n, "WAIT4ACK")
  /\ FeedbackRoom(n)
  /\ Consume(s, n, i)
  /\ LET p == net[<<s, n>>][i]
     IN  IF Wanted(n, p)
         THEN /\ mpe' = [mpe EXCEPT ![n].fsm = "IDLE",
                                    ![n].cache = Deleted(@, mpe[n].rank)]
              /\ fifo' = [fifo EXCEPT ![n].feedback = Append(@, "OK")]
         ELSE /\ mpe' = [mpe EXCEPT ![n].cache = CacheWith(n, p)]
              /\ UNCHANGED fifo
  /\ UNCHANGED <<deq, wrap, losses, got>>

Wait4AckTimeout(n) ==
  /\ In(n, "WAIT4ACK")
  /\ FeedbackRoom(n)
  /\ TimerFires(n)
  /\ mpe' = [mpe EXCEPT ![n].fsm = "SEND_DATA_START", ![n].inc = @ + 1,
                        ![n].timer = "expired"]
  /\ fifo' = [fifo EXCEPT ![n].feedback = Append(@, "FAIL")]
  /\ UNCHANGED <<deq, wrap, netVars, got>>

-----------------------------------------------------------------------------
(* Receiving: wait for SEND_REQUEST, CLEAR_TO_SEND, DATA, ACK. *)

(* A cache line of the sender that is no SEND_REQUEST leads to WAIT4ACK,   *)
(* not to WAIT4REQ.                                                        *)
StartRecv(n) ==
  /\ In(n, "START_RECV")
  /\ mpe' = [mpe EXCEPT
       ![n].expType = "SEND_REQUEST", ![n].expCall = PeerCall[mpe[n].call],
       ![n].fsm = IF mpe[n].cache[mpe[n].rank] = NoHeader THEN "WAIT4REQ"
                  ELSE IF CacheHolds(n, "SEND_REQUEST") THEN "ASSEMBLE_CLEAR"
                  ELSE "WAIT4ACK"]
  /\ UNCHANGED <<fifo, deq, wrap, netVars, got>>

Wait4Req(n, s, i) ==
  /\ In(n, "WAIT4REQ")
  /\ Consume(s, n, i)
  /\ LET p == net[<<s, n>>][i]
     IN  mpe' = IF Wanted(n, p)
                THEN [mpe EXCEPT ![n].fsm = "ASSEMBLE_CLEAR"]
                ELSE [mpe EXCEPT ![n].cache = CacheWith(n, p)]
  /\ UNCHANGED <<fifo, deq, wrap, losses, got>>

AssembleClear(n) ==
  /\ In(n, "ASSEMBLE_CLEAR")
  /\ fifo' = [fifo EXCEPT ![n].tx = @ \o ControlMessage(n, "CLEAR_TO_SEND")]
  /\ mpe' = [mpe EXCEPT
       ![n].fsm = "SEND_CLEAR", ![n].cache = Deleted(@, mpe[n].rank),
       ![n].expType = "DATA", ![n].expCall = PeerCall[mpe[n].call],
       ![n].more = FALSE, ![n].dataSrc = NoRank]
  /\ UNCHANGED <<deq, wrap, netVars, got>>

SendClear(n) ==
  /\ In(n, "SEND_CLEAR")
  /\ fifo[n].sendDone > 0
  /\ fifo' = [fifo EXCEPT ![n].sendDone = @ - 1]
  /\ mpe' = [mpe EXCEPT
       ![n].fsm = "RECV_DATA_START", ![n].timer = "running", ![n].started = FALSE,
       ![n].more = FALSE, ![n].dataSrc = NoRank]
  /\ UNCHANGED <<deq, wrap, netVars, got>>

(* RECV_DATA_RD: e holds the engine's registers as the payload begins.     *)
Payload2App(n, e) ==
  LET complete == e.rcvd + 1 >= e.exp
  IN  mpe' = [mpe EXCEPT ![n] =
        [e EXCEPT !.rcvd = @ + 1,
                  !.fsm = IF complete THEN "RECV_DATA_WRD" ELSE "RECV_DATA_START",
                  !.timer = IF complete THEN @ ELSE "running",
                  !.started = @ \/ ~complete,
                  !.more = @ \/ ~complete]]

(* The next packet of a message is recognised by its sender only. *)
RecvDataMore(n, s, i) ==
  /\ In(n, "RECV_DATA_START")
  /\ mpe[n].more
  /\ s = mpe[n].dataSrc
  /\ Consume(s, n, i)
  /\ LET p    == net[<<s, n>>][i]
         unit == IF HasHeader(p) THEN Junk ELSE p.unit
     IN  /\ fifo' = [fifo EXCEPT ![n].rx = Append(@, unit)]
         /\ Payload2App(n, mpe[n])
  /\ UNCHANGED <<deq, wrap, losses, got>>

RecvDataStart(n, s, i) ==
  /\ In(n, "RECV_DATA_START")
  /\ ~(mpe[n].more /\ s = mpe[n].dataSrc)
  /\ Consume(s, n, i)
  /\ LET p == net[<<s, n>>][i]
     IN  IF /\ HasHeader(p)
            /\ Matches(HeaderOf(p), mpe[n].expType, mpe[n].expCall, mpe[n].rank)
            /\ ~mpe[n].more
         THEN /\ fifo' = [fifo EXCEPT ![n].expLen = Append(@, p.size),
                                      ![n].rx = Append(@, p.unit)]
              /\ Payload2App(n, [mpe[n] EXCEPT !.exp = p.size, !.rcvd = 0, !.dataSrc = s])
         ELSE /\ mpe' = [mpe EXCEPT ![n].cache = CacheWith(n, p)]
              /\ UNCHANGED fifo
  /\ UNCHANGED <<deq, wrap, losses, got>>

(* Before any data: repeat the CLEAR_TO_SEND.  After the first packet:     *)
(* give up, tell the wrapper, and wait for DATA again; the timer is not    *)
(* reloaded and pDeqRecv not reset.                                        *)
RecvDataTimeout(n) ==
  /\ In(n, "RECV_DATA_START")
  /\ FeedbackRoom(n)
  /\ TimerFires(n)
  /\ IF mpe[n].started
     THEN /\ mpe' = [mpe EXCEPT
               ![n].inc = @ + 1, ![n].timer = "expired", ![n].started = FALSE,
               ![n].more = FALSE, ![n].dataSrc = NoRank]
          /\ fifo' = [fifo EXCEPT ![n].feedback = Append(@, "FAIL"),
                                  ![n].rx = Append(@, Poison)]
     ELSE /\ mpe' = [mpe EXCEPT ![n].inc = @ + 1, ![n].timer = "expired",
                                ![n].fsm = "ASSEMBLE_CLEAR"]
          /\ UNCHANGED fifo
  /\ UNCHANGED <<deq, wrap, netVars, got>>

(* A mutant of RecvDataDone: pDeqRecv is not waited for. *)
RecvDataDoneEarly(n) ==
  /\ In(n, "RECV_DATA_WRD")
  /\ fifo' = [fifo EXCEPT ![n].tx = @ \o ControlMessage(n, "ACK")]
  /\ mpe' = [mpe EXCEPT ![n].fsm = "SEND_ACK"]
  /\ UNCHANGED <<deq, wrap, netVars, got>>

RecvDataDone(n) ==
  /\ In(n, "RECV_DATA_WRD")
  /\ fifo[n].recvDone > 0
  /\ fifo' = [fifo EXCEPT ![n].recvDone = @ - 1,
                          ![n].tx = @ \o ControlMessage(n, "ACK")]
  /\ mpe' = [mpe EXCEPT ![n].fsm = "SEND_ACK"]
  /\ UNCHANGED <<deq, wrap, netVars, got>>

SendAck(n) ==
  /\ In(n, "SEND_ACK")
  /\ fifo[n].sendDone > 0
  /\ FeedbackRoom(n)
  /\ fifo' = [fifo EXCEPT ![n].sendDone = @ - 1, ![n].feedback = Append(@, "OK")]
  /\ mpe' = [mpe EXCEPT ![n].fsm = "IDLE", ![n].cache = Deleted(@, mpe[n].rank)]
  /\ UNCHANGED <<deq, wrap, netVars, got>>

-----------------------------------------------------------------------------
(* pDeqSend and pDeqRecv *)

(* A mutant of DeqSend: done is signalled after every packet. *)
DeqSendEveryDone(n) ==
  /\ fifo[n].tx # << >>
  /\ LET t == Head(fifo[n].tx)
     IN  /\ Transmit(n, t.pkt.dst, t.pkt)
         /\ fifo' = [fifo EXCEPT ![n].tx = Tail(@), ![n].sendDone = @ + 1]
  /\ UNCHANGED <<mpe, deq, wrap, losses, got>>

DeqSend(n) ==
  /\ fifo[n].tx # << >>
  /\ LET t == Head(fifo[n].tx)
     IN  /\ Transmit(n, t.pkt.dst, t.pkt)
         /\ fifo' = [fifo EXCEPT ![n].tx = Tail(@),
                                 ![n].sendDone = IF t.tlast THEN @ + 1 ELSE @]
  /\ UNCHANGED <<mpe, deq, wrap, losses, got>>

DeqRecvStart(n) ==
  /\ deq[n].state = "DEQ_IDLE"
  /\ fifo[n].expLen # << >>
  /\ deq' = [deq EXCEPT ![n] = [state |-> "DEQ_WRITE", exp |-> Head(fifo[n].expLen), cnt |-> 0]]
  /\ fifo' = [fifo EXCEPT ![n].expLen = Tail(@)]
  /\ UNCHANGED <<mpe, wrap, netVars, got>>

(* pDeqRecv counts whatever arrives, and sets tlast by its count alone. *)
DeqRecvWrite(n) ==
  /\ deq[n].state = "DEQ_WRITE"
  /\ fifo[n].rx # << >> /\ Head(fifo[n].rx) # Poison
  /\ LET last == deq[n].cnt + 1 >= deq[n].exp
     IN  /\ deq' = [deq EXCEPT ![n].cnt = @ + 1,
                               ![n].state = IF last THEN "DEQ_IDLE" ELSE @]
         /\ fifo' = [fifo EXCEPT
              ![n].rx = Tail(@),
              ![n].appData = Append(@, [unit |-> Head(fifo[n].rx), tlast |-> last]),
              ![n].recvDone = IF last THEN @ + 1 ELSE @]
  /\ UNCHANGED <<mpe, wrap, netVars, got>>

(* The poison pill is counted as one line of the many of a unit, and goes  *)
(* to an attempt of the wrapper that the FAIL written with it will discard.*)
DeqRecvPoison(n) ==
  /\ deq[n].state = "DEQ_WRITE"
  /\ fifo[n].rx # << >> /\ Head(fifo[n].rx) = Poison
  /\ fifo' = [fifo EXCEPT ![n].rx = Tail(@)]
  /\ UNCHANGED <<mpe, deq, wrap, netVars, got>>

-----------------------------------------------------------------------------
(* The wrapper: send_internal and recv_internal of ZRLMPI_temp.cpp *)

WriteInfo(n) ==
  /\ wrap[n].state = "READY"
  /\ Running(n)
  /\ LET op == CurrentOp(n)
     IN  /\ fifo' = [fifo EXCEPT ![n].mpiif =
                       Append(@, [call |-> op.call, count |-> op.count, rank |-> op.peer])]
         /\ wrap' = [wrap EXCEPT ![n] =
              [state |-> IF op.call \in SendCalls THEN "SEND_WRITE_DATA" ELSE "RECV_READ_DATA",
               data  |-> << >>]]
  /\ UNCHANGED <<mpe, deq, netVars, got>>

SendWriteData(n) ==
  /\ wrap[n].state = "SEND_WRITE_DATA"
  /\ fifo' = [fifo EXCEPT ![n].mpiData = @ \o Payload(n, Position(n))]
  /\ wrap' = [wrap EXCEPT ![n].state = "SEND_FINISH"]
  /\ UNCHANGED <<mpe, deq, netVars, got>>

SendFinish(n) ==
  /\ wrap[n].state = "SEND_FINISH"
  /\ fifo[n].feedback # << >>
  /\ fifo' = [fifo EXCEPT ![n].feedback = Tail(@)]
  /\ IF Head(fifo[n].feedback) = "OK"
     THEN wrap' = [wrap EXCEPT ![n].state = "READY"] /\ Return(n, << >>)
     ELSE wrap' = [wrap EXCEPT ![n].state = "SEND_WRITE_DATA"] /\ UNCHANGED got
  /\ UNCHANGED <<mpe, deq, netVars>>

RecvReadData(n) ==
  /\ wrap[n].state = "RECV_READ_DATA"
  /\ fifo[n].appData # << >>
  /\ LET w == Head(fifo[n].appData)
     IN  wrap' = [wrap EXCEPT ![n].data = Append(@, w.unit),
                              ![n].state = IF w.tlast THEN "RECV_FINISH" ELSE @]
  /\ fifo' = [fifo EXCEPT ![n].appData = Tail(@)]
  /\ UNCHANGED <<mpe, deq, netVars, got>>

RecvFinish(n) ==
  /\ wrap[n].state = "RECV_FINISH"
  /\ fifo[n].feedback # << >>
  /\ fifo' = [fifo EXCEPT ![n].feedback = Tail(@)]
  /\ IF Head(fifo[n].feedback) = "OK"
     THEN wrap' = [wrap EXCEPT ![n].state = "READY"] /\ Return(n, wrap[n].data)
     ELSE /\ wrap' = [wrap EXCEPT ![n] = [state |-> "RECV_READ_DATA", data |-> << >>]]
          /\ UNCHANGED got
  /\ UNCHANGED <<mpe, deq, netVars>>

-----------------------------------------------------------------------------
Engine(n) ==
  \/ Reset(n) \/ Idle(n)
  \/ StartSend(n) \/ SendReq(n)
  \/ SendDataStart(n) \/ SendDataRd(n) \/ SendDataWrd(n)
  \/ StartRecv(n) \/ AssembleClear(n) \/ SendClear(n)
  \/ RecvDataDone(n) \/ SendAck(n)
  \/ \E s \in Rank : \E i \in Arriving(<<s, n>>) :
       \/ Wait4Clear(n, s, i) \/ Wait4Ack(n, s, i) \/ Wait4Req(n, s, i)
       \/ RecvDataStart(n, s, i) \/ RecvDataMore(n, s, i)

EngineTimeout(n) ==
  Wait4ClearTimeout(n) \/ Wait4AckTimeout(n) \/ RecvDataTimeout(n)

DeqRecv(n) == DeqRecvStart(n) \/ DeqRecvWrite(n) \/ DeqRecvPoison(n)

Wrapper(n) ==
  \/ WriteInfo(n) \/ SendWriteData(n) \/ SendFinish(n)
  \/ RecvReadData(n) \/ RecvFinish(n)

FpgaStep(n) == Engine(n) \/ DeqSend(n) \/ DeqRecv(n) \/ Wrapper(n)

-----------------------------------------------------------------------------
(* SAFETY: while the data of a send goes out, the cache line of the        *)
(* destination is empty, so the lookup for the ACK never hits.  A hit      *)
(* would end the call without feedback and leave the wrapper hanging.      *)
AckNeverCachedAt(n) ==
  mpe[n].fsm \in {"SEND_DATA_RD", "SEND_DATA_WRD"} => mpe[n].cache[mpe[n].rank] = NoHeader

AckNeverCached == \A n \in Fpga : AckNeverCachedAt(n)

(* SAFETY: pMpeGlobal and pDeqSend alternate.  There is something in       *)
(* sFifoDataTX or one unread sDeqSendDone only while the engine waits for  *)
(* that very message, so messages never mix and no done flag is left over  *)
(* for the next one (a stale one would let the engine run ahead).          *)
SendingStates == {"SEND_REQ", "SEND_DATA_RD", "SEND_DATA_WRD", "SEND_CLEAR", "SEND_ACK"}

InTransmission(n) ==
  LET tx == fifo[n].tx
  IN  /\ fifo[n].sendDone = (IF tx = << >> /\ mpe[n].fsm # "SEND_DATA_RD" THEN 1 ELSE 0)
      /\ \A i \in 1 .. Len(tx) :
           tx[i].tlast <=> (i = Len(tx) /\ mpe[n].fsm # "SEND_DATA_RD")

TxAlternatesAt(n) ==
  IF mpe[n].fsm \in SendingStates THEN InTransmission(n)
  ELSE fifo[n].tx = << >> /\ fifo[n].sendDone = 0

TxAlternates == \A n \in Fpga : TxAlternatesAt(n)

(* SAFETY: when the wrapper is between two calls, nothing of a finished    *)
(* call is left in any FIFO: no feedback, no data, no call.  The next call *)
(* would take it for its own.                                              *)
NothingLeftOver ==
  \A n \in Fpga :
    wrap[n].state = "READY" =>
      /\ fifo[n].mpiif = << >> /\ fifo[n].mpiData = << >>
      /\ fifo[n].feedback = << >> /\ fifo[n].appData = << >>
      /\ fifo[n].rx = << >> /\ fifo[n].expLen = << >> /\ fifo[n].recvDone = 0
      /\ mpe[n].fsm \in {"MPE_RESET", "IDLE"}

(* SAFETY: only a send call waits for an ACK.  A receive call that does    *)
(* returns without data when an unrelated request arrives.                 *)
OnlySendersAwaitAck ==
  \A n \in Fpga : mpe[n].fsm = "WAIT4ACK" => mpe[n].call \in SendCalls

=============================================================================
