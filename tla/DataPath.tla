------------------------------ MODULE DataPath ------------------------------
(***************************************************************************)
(* The way of one message from the memory of one FPGA application to that  *)
(* of another, word by word.  Mpe.tla counts in units of one packet; here  *)
(* are the widths that it leaves out.                                      *)
(*                                                                         *)
(*   wrapper --lines--> pEnqMpiData --beats--> pMpeGlobal --beats-->       *)
(*     pDeqSend --packets of lines--> network --> pEnqTcpIn --beats-->     *)
(*     pMpeGlobal --beats--> pDeqRecv --lines--> wrapper                   *)
(*                                                                         *)
(* A word has 4 bytes, a line two words, a beat one or two lines (its      *)
(* tkeep tells which).  The receiver has sent its CLEAR_TO_SEND: Init is   *)
(* the moment at which both wrappers and both engines turn to the data.    *)
(* The ACK is one flag, and a repeated CLEAR_TO_SEND is not modelled: both *)
(* are in Mpe.tla.                                                         *)
(***************************************************************************)
EXTENDS Integers, Sequences, FiniteSets

CONSTANTS Senders,   \* ranks that may send,
          Receivers, \* and receive, this message
          Counts,    \* lengths of messages, in words
          LossyCounts,  \* those of which the first packet may be lost
          LossyLines,   \* of the other packets, those of at most this length
          MaxLines,  \* ZRLMPI_MAX_MESSAGE_SIZE_LINES
          Window,    \* INTERNAL_BRAM_BUFFER_SIZE_WORDS
          Modulus,   \* 2^32, the range of uint32_t
          Depth,     \* of the FIFOs that hold lines or beats
          MaxInc,    \* ZRLMPI_PROTOCOL_MAX_INC
          MaxLoss    \* packets lost at most

ASSUME DataPathAssumption ==
  /\ MaxLines \in Nat /\ MaxLines > 4      \* the header and at least one line
  /\ Window \in Nat \ {0} /\ Window % 2 = 0
  /\ Modulus \in Nat \ {0} /\ Window <= Modulus \div 2
  /\ Counts \subseteq 0 .. (Modulus \div 2) - 1        \* count is an int
  /\ Senders \subseteq Nat /\ Receivers \subseteq Nat
  /\ LossyCounts \subseteq Counts /\ LossyLines \in Nat
  /\ Depth \in Nat \ {0} /\ MaxInc \in Nat /\ MaxLoss \in Nat

VARIABLES job,   \* the message: its length, its ranks, the variants of the calls
          sw,    \* MPI_Send or MPI_Send_DRAM of the wrapper
          enq,   \* registers of pEnqMpiData
          se,    \* pMpeGlobal of the sender
          dq,    \* registers of pDeqSend
          net,   \* packets in flight
          tin,   \* registers of pEnqTcpIn
          re,    \* pMpeGlobal of the receiver
          dr,    \* registers of pDeqRecv
          rw,    \* MPI_Recv or MPI_Recv_DRAM of the wrapper
          dst,   \* the memory of the receiving application
          fifo   \* the streams between the processes

vars == <<job, sw, enq, se, dq, net, tin, re, dr, rw, dst, fifo>>

-----------------------------------------------------------------------------
(* Data.  The k-th word of the message is k + 1; a header line is one word *)
(* repeated.                                                               *)

Zero == 0
Old  == -1        \* whatever memory holds that is not part of the message
HeaderWords == {-11, -12, -13, -14}
Word == 0 .. Modulus \cup {Old} \cup HeaderWords

Data(k) == IF k < job.count THEN k + 1 ELSE Old
H(k) == <<-10 - k, -10 - k>>
HeaderBeats == <<[lines |-> <<H(1), H(2)>>, last |-> FALSE],
                 [lines |-> <<H(3), H(4)>>, last |-> FALSE]>>
IsHeader(first, second) ==
  first = HeaderBeats[1].lines /\ second = HeaderBeats[2].lines

(* "poisson pill": no byte of it is valid, and it ends the message *)
PoisonBeat == [lines |-> <<<<Zero, Zero>>>>, last |-> TRUE]

(* A mutant of WordCnt: lines are counted, not words. *)
LinesOf(b) == Len(b.lines)

(* A mutant of LineCnt: the last line of an odd message is forgotten. *)
WholeLines(words) == words \div 2

NoLine == <<Old, Old>>
Second(b) == IF Len(b.lines) = 2 THEN b.lines[2] ELSE NoLine

WordCnt(b) == 2 * Len(b.lines)            \* getWordCntfromTKeep

LineCnt(words) == (words + 1) \div 2      \* expected_length_in_lines

Streams == {"mpiData", "mpiIn", "tx", "tcpIn", "rx", "app"}
Room(s)  == Len(fifo[s]) < Depth
Some(s)  == fifo[s] # << >>
Put(s, x) == fifo' = [fifo EXCEPT ![s] = Append(@, x)]
Move(s, t, x) == fifo' = [fifo EXCEPT ![s] = Tail(@), ![t] = Append(@, x)]

-----------------------------------------------------------------------------
(* The wrapper that sends.  words[0 .. Window-1] is its BRAM buffer: with  *)
(* MPI_Send_DRAM a window of the message, with MPI_Send only used for      *)
(* counts up to one.                                                       *)

(* word_count - 1 as the code computes it *)
LastWord == (job.count - 1) % Modulus

(* A mutant of Copied: every window is copied from the first address. *)
CopiedAgain(words, start, len) ==
  [k \in 0 .. Window - 1 |-> IF k < len THEN Data(k) ELSE words[k]]

Copied(words, start, len) ==
  [k \in 0 .. Window - 1 |-> IF k < len THEN Data(start + k) ELSE words[k]]

Lesser(a, b) == IF a < b THEN a ELSE b

(* MPI_Send and MPI_Recv hand these over in words[0], not in place. *)
SmallMessage == job.count <= 1

FirstWindow(words) ==
  IF job.sendDram
  THEN [state |-> "SEND_WRITE_DATA", i |-> 0, start |-> 0,
        copied |-> Lesser(Window, job.count),
        words |-> Copied(words, 0, Lesser(Window, job.count))]
  ELSE [state |-> "SEND_WRITE_DATA", i |-> 0, start |-> 0, copied |-> 0,
        words |-> Copied(words, 0, IF SmallMessage THEN 1 ELSE 0)]

(* The window after the one that was sent up to word sw.i. *)
NextWindow ==
  LET len == Lesser(Window, job.count - sw.i)
  IN  [sw EXCEPT !.start = sw.copied, !.copied = @ + len,
                 !.words = Copied(sw.words, sw.copied, len)]

Loaded(w) ==
  IF job.sendDram /\ w.i >= w.copied THEN NextWindow ELSE w

Fetch(w, i) ==
  IF job.sendDram \/ SmallMessage THEN w.words[i - w.start] ELSE Data(i)

SendWriteData ==
  /\ sw.state = "SEND_WRITE_DATA" /\ Room("mpiData")
  /\ LET w    == Loaded(sw)
         last == w.i + 2 >= job.count
         line == <<Fetch(w, w.i), IF w.i < LastWord THEN Fetch(w, w.i + 1) ELSE Zero>>
     IN  /\ Put("mpiData", [line |-> line, last |-> last])
         /\ sw' = [w EXCEPT !.i = @ + 2,
                            !.state = IF last THEN "SEND_FINISH" ELSE @]
  /\ UNCHANGED <<job, enq, se, dq, net, tin, re, dr, rw, dst>>

(* The feedback of the engine: the call returns, or sends everything again.*)
SendFinish ==
  /\ sw.state = "SEND_FINISH" /\ fifo.sendFeedback # << >>
  /\ sw' = IF Head(fifo.sendFeedback) = "OK" THEN [sw EXCEPT !.state = "SEND_DONE"]
           ELSE FirstWindow(sw.words)
  /\ fifo' = [fifo EXCEPT !.sendFeedback = Tail(@)]
  /\ UNCHANGED <<job, enq, se, dq, net, tin, re, dr, rw, dst>>

-----------------------------------------------------------------------------
(* pEnqMpiData joins two lines to a beat. *)

EnqMpiData ==
  /\ Some("mpiData") /\ Room("mpiIn")
  /\ LET w == Head(fifo.mpiData)
     IN  \/ /\ enq.state = "DEQ_WRITE" /\ w.last
            /\ Move("mpiData", "mpiIn", [lines |-> <<w.line>>, last |-> TRUE])
            /\ UNCHANGED enq
         \/ /\ enq.state = "DEQ_WRITE" /\ ~w.last
            /\ fifo' = [fifo EXCEPT !.mpiData = Tail(@)]
            /\ enq' = [state |-> "DEQ_WRITE_2", first |-> w.line]
         \/ /\ enq.state = "DEQ_WRITE_2"
            /\ Move("mpiData", "mpiIn", [lines |-> <<enq.first, w.line>>, last |-> w.last])
            /\ enq' = [enq EXCEPT !.state = "DEQ_WRITE"]
  /\ UNCHANGED <<job, sw, se, dq, net, tin, re, dr, rw, dst>>

-----------------------------------------------------------------------------
(* The engine of the sender. *)

SendDataStart ==
  /\ se.state = "SEND_DATA_START" /\ Room("tx")
  /\ fifo' = [fifo EXCEPT !.tx = Append(@, HeaderBeats[1]), !.destId = @ + 1]
  /\ se' = [se EXCEPT !.state = "SEND_DATA_START_1", !.total = 0]
  /\ UNCHANGED <<job, sw, enq, dq, net, tin, re, dr, rw, dst>>

SendDataStart1 ==
  /\ se.state = "SEND_DATA_START_1" /\ Room("tx")
  /\ Put("tx", HeaderBeats[2])
  /\ se' = [se EXCEPT !.state = "SEND_DATA_RD"]
  /\ UNCHANGED <<job, sw, enq, dq, net, tin, re, dr, rw, dst>>

(* The end of the message is found by counting words, not by its tlast. *)
SendDataRd ==
  /\ se.state = "SEND_DATA_RD" /\ Some("mpiIn") /\ Room("tx")
  /\ LET b     == Head(fifo.mpiIn)
         total == se.total + WordCnt(b)
         last  == total >= job.count
     IN  /\ Move("mpiIn", "tx", [b EXCEPT !.last = last])
         /\ se' = [se EXCEPT !.total = total,
                             !.state = IF last THEN "SEND_DATA_WRD" ELSE @]
  /\ UNCHANGED <<job, sw, enq, dq, net, tin, re, dr, rw, dst>>

(* A mutant of SendDataWrd: it does not wait for pDeqSend. *)
SendDataWrdEarly ==
  /\ se.state = "SEND_DATA_WRD"
  /\ fifo' = [fifo EXCEPT !.sendDone = @ - 1]
  /\ se' = [se EXCEPT !.state = "WAIT4ACK"]
  /\ UNCHANGED <<job, sw, enq, dq, net, tin, re, dr, rw, dst>>

SendDataWrd ==
  /\ se.state = "SEND_DATA_WRD" /\ fifo.sendDone > 0
  /\ fifo' = [fifo EXCEPT !.sendDone = @ - 1]
  /\ se' = [se EXCEPT !.state = "WAIT4ACK"]
  /\ UNCHANGED <<job, sw, enq, dq, net, tin, re, dr, rw, dst>>

Wait4Ack ==
  /\ se.state = "WAIT4ACK" /\ fifo.ack > 0
  /\ fifo' = [fifo EXCEPT !.ack = @ - 1, !.sendFeedback = Append(@, "OK")]
  /\ se' = [se EXCEPT !.state = "IDLE"]
  /\ UNCHANGED <<job, sw, enq, dq, net, tin, re, dr, rw, dst>>

-----------------------------------------------------------------------------
(* pDeqSend splits beats into lines and the message into packets of        *)
(* MaxLines lines.  `cnt` lines of the packet are written, `second` is the *)
(* other line of the current beat.                                         *)

DeqIdle ==
  /\ dq.state = "DEQ_IDLE" /\ fifo.destId > 0
  /\ fifo' = [fifo EXCEPT !.destId = @ - 1]
  /\ dq' = [dq EXCEPT !.state = "DEQ_START", !.cnt = 0, !.startWithSecond = FALSE]
  /\ UNCHANGED <<job, sw, enq, se, net, tin, re, dr, rw, dst>>

PacketFull == dq.cnt >= MaxLines - 1

(* A line goes to the network stack; the last one of a packet completes it.*)
Emit(regs, line, last) ==
  IF last THEN /\ net' = [net EXCEPT !.packets = Append(@, Append(dq.packet, line))]
               /\ dq' = [regs EXCEPT !.packet = << >>]
  ELSE /\ dq' = [regs EXCEPT !.packet = Append(@, line)]
       /\ UNCHANGED net

(* The first line of a beat b: in DEQ_WRITE and, at the start of a packet, *)
(* in DEQ_START.  The end of the message is looked at before the length of *)
(* the packet.                                                             *)
FirstLine(b) ==
  LET regs == [dq EXCEPT !.second = Second(b), !.goToDone = b.last]
  IN  IF b.last
      THEN IF Len(b.lines) = 2
           THEN Emit([regs EXCEPT !.state = "DEQ_WRITE_2"], b.lines[1], FALSE)
           ELSE Emit([regs EXCEPT !.state = "DEQ_DONE"], b.lines[1], TRUE)
      ELSE IF PacketFull
      THEN Emit([regs EXCEPT !.state = "DEQ_START", !.cnt = 0,
                             !.startWithSecond = Len(b.lines) = 2], b.lines[1], TRUE)
      ELSE Emit([regs EXCEPT !.state = "DEQ_WRITE_2", !.cnt = @ + 1], b.lines[1], FALSE)

DeqStart ==
  /\ dq.state = "DEQ_START" /\ ~dq.startWithSecond /\ Some("tx")
  /\ FirstLine(Head(fifo.tx))
  /\ fifo' = [fifo EXCEPT !.tx = Tail(@)]
  /\ UNCHANGED <<job, sw, enq, se, tin, re, dr, rw, dst>>

(* A mutant of DeqStartWithSecond: the line is not counted. *)
DeqStartUncounted ==
  /\ dq.state = "DEQ_START" /\ dq.startWithSecond /\ Some("tx")
  /\ Emit([dq EXCEPT !.state = "DEQ_WRITE", !.goToDone = FALSE,
                     !.startWithSecond = FALSE], dq.second, FALSE)
  /\ UNCHANGED <<job, sw, enq, se, tin, re, dr, rw, dst, fifo>>

(* The beat that was cut by the end of the last packet. *)
DeqStartWithSecond ==
  /\ dq.state = "DEQ_START" /\ dq.startWithSecond /\ Some("tx")
  /\ Emit([dq EXCEPT !.state = "DEQ_WRITE", !.cnt = @ + 1, !.goToDone = FALSE,
                     !.startWithSecond = FALSE], dq.second, FALSE)
  /\ UNCHANGED <<job, sw, enq, se, tin, re, dr, rw, dst, fifo>>

DeqWrite ==
  /\ dq.state = "DEQ_WRITE" /\ Some("tx")
  /\ FirstLine(Head(fifo.tx))
  /\ fifo' = [fifo EXCEPT !.tx = Tail(@)]
  /\ UNCHANGED <<job, sw, enq, se, tin, re, dr, rw, dst>>

DeqWrite2 ==
  /\ dq.state = "DEQ_WRITE_2"
  /\ IF dq.goToDone THEN Emit([dq EXCEPT !.state = "DEQ_DONE"], dq.second, TRUE)
     ELSE IF PacketFull
     THEN Emit([dq EXCEPT !.state = "DEQ_START", !.cnt = 0], dq.second, TRUE)
     ELSE Emit([dq EXCEPT !.state = "DEQ_WRITE", !.cnt = @ + 1], dq.second, FALSE)
  /\ UNCHANGED <<job, sw, enq, se, tin, re, dr, rw, dst, fifo>>

DeqDone ==
  /\ dq.state = "DEQ_DONE"
  /\ fifo' = [fifo EXCEPT !.sendDone = @ + 1]
  /\ dq' = [dq EXCEPT !.state = "DEQ_IDLE", !.goToDone = FALSE]
  /\ UNCHANGED <<job, sw, enq, se, net, tin, re, dr, rw, dst>>

-----------------------------------------------------------------------------
(* The network delivers packets in order, or not at all.  The constants    *)
(* say which losses are studied.                                           *)

Losable(p) == IF Head(p) = H(1) THEN job.count \in LossyCounts
              ELSE Len(p) <= LossyLines

Lose ==
  /\ net.losses < MaxLoss
  /\ \E i \in DOMAIN net.packets :
       /\ i = 1 => tin.state = "DEQ_START"
       /\ Losable(net.packets[i])
       /\ net' = [packets |-> SubSeq(net.packets, 1, i - 1)
                              \o SubSeq(net.packets, i + 1, Len(net.packets)),
                  losses |-> net.losses + 1]
  /\ UNCHANGED <<job, sw, enq, se, dq, tin, re, dr, rw, dst, fifo>>

-----------------------------------------------------------------------------
(* pEnqTcpIn joins the lines of a packet to beats, and hands on one meta   *)
(* word for each packet.  A packet with an odd number of lines ends in a   *)
(* beat of one line.                                                       *)

EnqTcpIn ==
  /\ net.packets # << >> /\ Room("tcpIn")
  /\ LET line  == Head(Head(net.packets))
         rest  == Tail(Head(net.packets))
         last  == rest = << >>
         meta  == IF tin.state = "DEQ_START" THEN fifo.meta + 1 ELSE fifo.meta
         To(lines) == [fifo EXCEPT !.meta = meta,
                        !.tcpIn = Append(@, [lines |-> lines, last |-> last])]
     IN  /\ net' = [net EXCEPT !.packets = IF last THEN Tail(@) ELSE <<rest>> \o Tail(@)]
         /\ \/ /\ tin.state # "DEQ_WRITE_2" /\ last
               /\ fifo' = To(<<line>>)
               /\ tin' = [tin EXCEPT !.state = "DEQ_START"]
            \/ /\ tin.state # "DEQ_WRITE_2" /\ ~last
               /\ fifo' = [fifo EXCEPT !.meta = meta]
               /\ tin' = [state |-> "DEQ_WRITE_2", first |-> line]
            \/ /\ tin.state = "DEQ_WRITE_2"
               /\ fifo' = To(<<tin.first, line>>)
               /\ tin' = [tin EXCEPT !.state = IF last THEN "DEQ_START" ELSE "DEQ_WRITE"]
  /\ UNCHANGED <<job, sw, enq, se, dq, re, dr, rw, dst>>

-----------------------------------------------------------------------------
(* The engine of the receiver. *)

(* A packet that continues the message: no header is read. *)
RecvDataMore ==
  /\ re.state = "RECV_DATA_START" /\ Some("tcpIn") /\ fifo.meta > 0 /\ re.more
  /\ fifo' = [fifo EXCEPT !.meta = @ - 1]
  /\ re' = [re EXCEPT !.state = "RECV_DATA_RD"]
  /\ UNCHANGED <<job, sw, enq, se, dq, net, tin, dr, rw, dst>>

(* The first beat is taken for a header whether or not it ends the packet. *)
RecvDataStart ==
  /\ re.state = "RECV_DATA_START" /\ Some("tcpIn") /\ fifo.meta > 0 /\ ~re.more
  /\ fifo' = [fifo EXCEPT !.meta = @ - 1, !.tcpIn = Tail(@)]
  /\ re' = [re EXCEPT !.state = "RECV_DATA_START_1", !.first = Head(fifo.tcpIn).lines]
  /\ UNCHANGED <<job, sw, enq, se, dq, net, tin, dr, rw, dst>>

RecvDataStart1 ==
  /\ re.state = "RECV_DATA_START_1" /\ Some("tcpIn")
  /\ LET b  == Head(fifo.tcpIn)
         ok == IsHeader(re.first, b.lines)
     IN  /\ fifo' = [fifo EXCEPT !.tcpIn = Tail(@),
                       !.expLen = IF ok THEN Append(@, LineCnt(job.count)) ELSE @]
         /\ re' = [re EXCEPT !.total = IF ok THEN 0 ELSE @,
                             !.state = IF ok THEN "RECV_DATA_RD"
                                       ELSE IF b.last THEN "RECV_DATA_START"
                                       ELSE "MPE_DRAIN_DATA_STREAM"]
  /\ UNCHANGED <<job, sw, enq, se, dq, net, tin, dr, rw, dst>>

DrainDataStream ==
  /\ re.state = "MPE_DRAIN_DATA_STREAM" /\ Some("tcpIn")
  /\ fifo' = [fifo EXCEPT !.tcpIn = Tail(@)]
  /\ re' = [re EXCEPT !.state = IF Head(fifo.tcpIn).last THEN "RECV_DATA_START" ELSE @]
  /\ UNCHANGED <<job, sw, enq, se, dq, net, tin, dr, rw, dst>>

(* The end of the message is found by counting words, at the end of a      *)
(* packet.                                                                 *)
RecvDataRd ==
  /\ re.state = "RECV_DATA_RD" /\ Some("tcpIn") /\ Room("rx")
  /\ LET b     == Head(fifo.tcpIn)
         total == re.total + WordCnt(b)
     IN  /\ Move("tcpIn", "rx", b)
         /\ re' = IF ~b.last THEN [re EXCEPT !.total = total]
                  ELSE IF total < job.count
                  THEN [re EXCEPT !.total = total, !.state = "RECV_DATA_START",
                                  !.more = TRUE, !.started = TRUE, !.timer = "running"]
                  ELSE [re EXCEPT !.total = total, !.state = "RECV_DATA_WRD"]
  /\ UNCHANGED <<job, sw, enq, se, dq, net, tin, dr, rw, dst>>

(* RECV_DATA_WRD to SEND_ACK *)
RecvDataWrd ==
  /\ re.state = "RECV_DATA_WRD" /\ fifo.recvDone > 0
  /\ fifo' = [fifo EXCEPT !.recvDone = @ - 1, !.ack = @ + 1,
                          !.recvFeedback = Append(@, "OK")]
  /\ re' = [re EXCEPT !.state = "IDLE"]
  /\ UNCHANGED <<job, sw, enq, se, dq, net, tin, dr, rw, dst>>

-----------------------------------------------------------------------------
(* pDeqRecv splits beats into lines; it alone decides which line is the    *)
(* last one of the message.                                                *)

DeqRecvIdle ==
  /\ dr.state = "DEQ_IDLE" /\ fifo.expLen # << >>
  /\ dr' = [dr EXCEPT !.state = "DEQ_WRITE", !.exp = Head(fifo.expLen), !.total = 0]
  /\ fifo' = [fifo EXCEPT !.expLen = Tail(@)]
  /\ UNCHANGED <<job, sw, enq, se, dq, net, tin, re, rw, dst>>

LineReached == dr.total + 1 >= dr.exp

DeqRecvWrite ==
  /\ dr.state = "DEQ_WRITE" /\ Some("rx") /\ Room("app")
  /\ LET b == Head(fifo.rx)
     IN  /\ Move("rx", "app", [line |-> b.lines[1], last |-> LineReached])
         /\ dr' = [dr EXCEPT !.total = @ + 1, !.second = Second(b),
                             !.state = IF LineReached THEN "DEQ_DONE"
                                       ELSE IF Len(b.lines) = 2 THEN "DEQ_WRITE_2"
                                       ELSE @]
  /\ UNCHANGED <<job, sw, enq, se, dq, net, tin, re, rw, dst>>

DeqRecvWrite2 ==
  /\ dr.state = "DEQ_WRITE_2" /\ Room("app")
  /\ Put("app", [line |-> dr.second, last |-> LineReached])
  /\ dr' = [dr EXCEPT !.total = @ + 1,
                      !.state = IF LineReached THEN "DEQ_DONE" ELSE "DEQ_WRITE"]
  /\ UNCHANGED <<job, sw, enq, se, dq, net, tin, re, rw, dst>>

DeqRecvDone ==
  /\ dr.state = "DEQ_DONE"
  /\ fifo' = [fifo EXCEPT !.recvDone = @ + 1]
  /\ dr' = [dr EXCEPT !.state = "DEQ_IDLE"]
  /\ UNCHANGED <<job, sw, enq, se, dq, net, tin, re, rw, dst>>

-----------------------------------------------------------------------------
(* The wrapper that receives. *)

RecvWindow(words) ==
  [state |-> "RECV_READ_DATA", i |-> 0, start |-> 0, max |-> Window, words |-> words]

(* memory after `len` words of the BRAM buffer are copied to it *)
Flushed(memory, w, len) ==
  [k \in DOMAIN memory |-> IF k \in w.start .. w.start + len - 1
                           THEN w.words[k - w.start] ELSE memory[k]]

Stored(a, i, line) ==
  [k \in DOMAIN a |-> IF k = i THEN line[1]
                      ELSE IF k = i + 1 THEN line[2] ELSE a[k]]

(* A mutant of StoredAt: lines are stored whole. *)
StoredWhole(a, base, line) == Stored(a, rw.i - base, line)

(* The second word is stored only if it is part of the message. *)
StoredAt(a, base, line) ==
  IF rw.i < LastWord THEN Stored(a, rw.i - base, line)
  ELSE [a EXCEPT ![rw.i - base] = line[1]]

RecvReadDram ==
  /\ rw.state = "RECV_READ_DATA" /\ job.recvDram /\ Some("app")
  /\ LET full == rw.i >= rw.max
         w    == IF full THEN [rw EXCEPT !.start = @ + Window, !.max = @ + Window] ELSE rw
         in   == Head(fifo.app)
     IN  /\ dst' = IF full THEN Flushed(dst, rw, Window) ELSE dst
         /\ rw' = [w EXCEPT !.words = StoredAt(@, w.start, in.line),
                            !.i = IF @ < LastWord THEN @ + 2 ELSE @ + 1,
                            !.state = IF in.last THEN "RECV_FINISH" ELSE @]
  /\ fifo' = [fifo EXCEPT !.app = Tail(@)]
  /\ UNCHANGED <<job, sw, enq, se, dq, net, tin, re, dr>>

RecvReadData ==
  /\ rw.state = "RECV_READ_DATA" /\ ~job.recvDram /\ Some("app")
  /\ LET in == Head(fifo.app)
         w  == [rw EXCEPT !.i = @ + 2, !.state = IF in.last THEN "RECV_FINISH" ELSE @]
     IN  IF SmallMessage
         THEN rw' = [w EXCEPT !.words = StoredAt(@, 0, in.line)] /\ UNCHANGED dst
         ELSE rw' = w /\ dst' = StoredAt(dst, 0, in.line)
  /\ fifo' = [fifo EXCEPT !.app = Tail(@)]
  /\ UNCHANGED <<job, sw, enq, se, dq, net, tin, re, dr>>

RecvFinish ==
  /\ rw.state = "RECV_FINISH" /\ fifo.recvFeedback # << >>
  /\ rw' = IF Head(fifo.recvFeedback) = "OK" THEN [rw EXCEPT !.state = "RECV_DONE"]
           ELSE RecvWindow(rw.words)
  /\ dst' = IF job.recvDram THEN Flushed(dst, rw, rw.i - rw.start)
            ELSE IF SmallMessage /\ Head(fifo.recvFeedback) = "OK"
            THEN Flushed(dst, rw, 1) ELSE dst
  /\ fifo' = [fifo EXCEPT !.recvFeedback = Tail(@)]
  /\ UNCHANGED <<job, sw, enq, se, dq, net, tin, re, dr>>

-----------------------------------------------------------------------------
(* Timeouts.  They are long compared with the way of a message: they come  *)
(* only when nothing else can happen.  Then both timers have run for as    *)
(* long, and the shorter one expires first: which one that is depends on   *)
(* the ranks.  Lengths are in eighths of ZRLMPI_PROTOCOL_TIMEOUT_CYCLES,   *)
(* which is ZRLMPI_PROTOCOL_TIMEOUT_STEPS_CYCLES.                          *)

TransferStep ==
  \/ SendWriteData \/ SendFinish \/ EnqMpiData
  \/ SendDataStart \/ SendDataStart1 \/ SendDataRd \/ SendDataWrd \/ Wait4Ack
  \/ DeqIdle \/ DeqStart \/ DeqStartWithSecond \/ DeqWrite \/ DeqWrite2 \/ DeqDone
  \/ EnqTcpIn
  \/ RecvDataMore \/ RecvDataStart \/ RecvDataStart1 \/ DrainDataStream
  \/ RecvDataRd \/ RecvDataWrd
  \/ DeqRecvIdle \/ DeqRecvWrite \/ DeqRecvWrite2 \/ DeqRecvDone
  \/ RecvReadDram \/ RecvReadData \/ RecvFinish

TimerFires(e) == e.timer = "running" /\ e.inc < MaxInc

Basis(rank) == 8 + rank                       \* individual_basis_timeout
Timeout(e, rank, factor) == factor * Basis(rank) + 80 * e.inc

DataTimeout == Timeout(re, job.to, 1)         \* of RECV_DATA_START
AckTimeout  == Timeout(se, job.from, 2)       \* of WAIT4ACK

(* Every process waits for another one, or for a packet that was lost: no  *)
(* TransferStep is possible.                                               *)
Quiet ==
  /\ \/ sw.state = "SEND_WRITE_DATA" /\ ~Room("mpiData")
     \/ sw.state = "SEND_FINISH" /\ fifo.sendFeedback = << >>
     \/ sw.state = "SEND_DONE"
  /\ ~Some("mpiData") \/ ~Room("mpiIn")
  /\ se.state = "WAIT4ACK" /\ fifo.ack = 0
  /\ \/ dq.state = "DEQ_IDLE" /\ fifo.destId = 0
     \/ dq.state \in {"DEQ_START", "DEQ_WRITE"} /\ ~Some("tx")
  /\ net.packets = << >> \/ ~Room("tcpIn")
  /\ \/ re.state = "RECV_DATA_START" /\ (~Some("tcpIn") \/ fifo.meta = 0)
     \/ re.state \in {"RECV_DATA_START_1", "MPE_DRAIN_DATA_STREAM"} /\ ~Some("tcpIn")
     \/ re.state = "RECV_DATA_RD" /\ (~Some("tcpIn") \/ ~Room("rx"))
     \/ re.state = "RECV_DATA_WRD" /\ fifo.recvDone = 0
     \/ re.state = "IDLE"
  /\ \/ dr.state = "DEQ_IDLE" /\ fifo.expLen = << >>
     \/ dr.state = "DEQ_WRITE" /\ (~Some("rx") \/ ~Room("app"))
     \/ dr.state = "DEQ_WRITE_2" /\ ~Room("app")
  /\ \/ rw.state = "RECV_READ_DATA" /\ ~Some("app")
     \/ rw.state = "RECV_FINISH" /\ fifo.recvFeedback = << >>
     \/ rw.state = "RECV_DONE"

RecvWaits == re.state = "RECV_DATA_START" /\ re.started /\ TimerFires(re)

(* The wrapper is told, and a poison pill follows the data.  (Before the   *)
(* first packet the engine repeats the CLEAR_TO_SEND instead.)             *)
RecvTimeout ==
  /\ RecvWaits /\ Quiet
  /\ TimerFires(se) => DataTimeout <= AckTimeout
  /\ fifo' = [fifo EXCEPT !.rx = Append(@, PoisonBeat),
                          !.recvFeedback = Append(@, "FAIL")]
  /\ re' = [re EXCEPT !.inc = @ + 1, !.timer = "expired",
                      !.started = FALSE, !.more = FALSE]
  /\ UNCHANGED <<job, sw, enq, se, dq, net, tin, dr, rw, dst>>

SendTimeout ==
  /\ TimerFires(se) /\ Quiet
  /\ RecvWaits => AckTimeout <= DataTimeout
  /\ fifo' = [fifo EXCEPT !.sendFeedback = Append(@, "FAIL")]
  /\ se' = [se EXCEPT !.state = "SEND_DATA_START", !.inc = @ + 1]
  /\ UNCHANGED <<job, sw, enq, dq, net, tin, re, dr, rw, dst>>

-----------------------------------------------------------------------------
Job == [count : Counts, from : Senders, to : Receivers,
        sendDram : BOOLEAN, recvDram : BOOLEAN]

Blank == [k \in 0 .. Window - 1 |-> Old]

Init ==
  /\ job \in Job
  /\ sw = FirstWindow(Blank)
  /\ enq = [state |-> "DEQ_WRITE", first |-> NoLine]
  /\ se = [state |-> "SEND_DATA_START", total |-> 0, inc |-> 0, timer |-> "running"]
  /\ dq = [state |-> "DEQ_IDLE", cnt |-> 0, second |-> NoLine, goToDone |-> FALSE,
           startWithSecond |-> FALSE, packet |-> << >>]
  /\ net = [packets |-> << >>, losses |-> 0]
  /\ tin = [state |-> "DEQ_START", first |-> NoLine]
  /\ re = [state |-> "RECV_DATA_START", first |-> << >>, total |-> 0, more |-> FALSE,
           started |-> FALSE, inc |-> 0, timer |-> "running"]
  /\ dr = [state |-> "DEQ_IDLE", exp |-> 0, total |-> 0, second |-> NoLine]
  /\ rw = RecvWindow(Blank)
  /\ dst = [k \in 0 .. job.count + 1 |-> Old]
  /\ fifo = [mpiData |-> << >>, mpiIn |-> << >>, tx |-> << >>, tcpIn |-> << >>,
             rx |-> << >>, app |-> << >>, destId |-> 0, sendDone |-> 0, meta |-> 0,
             expLen |-> << >>, recvDone |-> 0, ack |-> 0,
             sendFeedback |-> << >>, recvFeedback |-> << >>]

Returned == sw.state = "SEND_DONE" /\ rw.state = "RECV_DONE"

(* Not a step of the code: both calls have returned. *)
Terminated == Returned /\ UNCHANGED vars

Next == TransferStep \/ RecvTimeout \/ SendTimeout \/ Lose \/ Terminated

Spec == Init /\ [][Next]_vars

(* The processes run in every clock cycle, and a timer expires in the end. *)
FairSpec == Spec /\ WF_vars(TransferStep \/ RecvTimeout \/ SendTimeout)

-----------------------------------------------------------------------------
Line == Word \X Word
Beat == [lines : {<<l>> : l \in Line} \cup Line \X Line, last : BOOLEAN]
Uint == 0 .. Modulus - 1

TypeOK ==
  /\ job \in Job
  /\ sw.state \in {"SEND_WRITE_DATA", "SEND_FINISH", "SEND_DONE"}
  /\ {sw.i, sw.start, sw.copied} \subseteq Uint
  /\ enq \in [state : {"DEQ_WRITE", "DEQ_WRITE_2"}, first : Line]
  /\ se \in [state : {"SEND_DATA_START", "SEND_DATA_START_1", "SEND_DATA_RD",
                      "SEND_DATA_WRD", "WAIT4ACK", "IDLE"},
             total : Uint, inc : 0 .. MaxInc, timer : {"running"}]
  /\ dq \in [state : {"DEQ_IDLE", "DEQ_START", "DEQ_WRITE", "DEQ_WRITE_2", "DEQ_DONE"},
             cnt : 0 .. MaxLines - 1, second : Line, goToDone : BOOLEAN,
             startWithSecond : BOOLEAN, packet : Seq(Line)]
  /\ net \in [packets : Seq(Seq(Line)), losses : 0 .. MaxLoss]
  /\ tin \in [state : {"DEQ_START", "DEQ_WRITE", "DEQ_WRITE_2"}, first : Line]
  /\ re.total \in Uint /\ re.inc \in 0 .. MaxInc
  /\ dr \in [state : {"DEQ_IDLE", "DEQ_WRITE", "DEQ_WRITE_2", "DEQ_DONE"},
             exp : Uint, total : Uint, second : Line]
  /\ rw.state \in {"RECV_READ_DATA", "RECV_FINISH", "RECV_DONE"}
  /\ {rw.i, rw.start, rw.max} \subseteq Uint
  /\ rw.words \in [0 .. Window - 1 -> Word]
  /\ dst \in [0 .. job.count + 1 -> Word]
  /\ \A s \in Streams : Len(fifo[s]) <= Depth
  /\ {fifo.destId, fifo.sendDone, fifo.meta, fifo.recvDone, fifo.ack} \subseteq Nat

(* SAFETY: when the receive returns, the memory of the receiver holds the  *)
(* message.  Two windows, two width conversions and the cut into packets   *)
(* lie between, none of them aligned with the others, and each side may    *)
(* have had to start again.                                                *)
RightMemory ==
  rw.state = "RECV_DONE" => \A k \in 0 .. job.count - 1 : dst[k] = k + 1

(* SAFETY: nothing but the message is written to the receiver's memory,    *)
(* although lines and windows are longer than an odd message.  For count 0 *)
(* this is not so: the (word_count - 1) of both sides wraps, the sender    *)
(* sends a line and the receiver stores a word of it or two.               *)
NothingBeyond ==
  job.count > 0 => \A k \in DOMAIN dst : k >= job.count => dst[k] = Old

(* SAFETY: when both calls have returned, every FSM is back at its start   *)
(* and every stream is empty, so the next message is aligned to lines,     *)
(* beats and packets again.  Only the done flags of pDeqRecv are too many, *)
(* one for every FAIL: the poison pill is counted like the lost line, so   *)
(* the attempt that failed ends as well, and nobody asks for its flag.     *)
FlagsLeft == fifo.recvDone + (IF dr.state = "DEQ_DONE" THEN 1 ELSE 0)

CleanAfterwards ==
  Returned =>
    /\ enq.state = "DEQ_WRITE" /\ dq.state = "DEQ_IDLE" /\ tin.state = "DEQ_START"
    /\ dr.state \in {"DEQ_IDLE", "DEQ_DONE"} /\ FlagsLeft = re.inc
    /\ dq.packet = << >> /\ net.packets = << >>
    /\ \A s \in Streams : fifo[s] = << >>
    /\ fifo.destId + fifo.sendDone + fifo.meta + fifo.ack = 0
    /\ fifo.expLen = << >> /\ fifo.sendFeedback = << >> /\ fifo.recvFeedback = << >>

(* SAFETY: no packet is longer than the limit by more than one line.       *)
AtMost(n) ==
  /\ Len(dq.packet) <= n
  /\ \A i \in DOMAIN net.packets : Len(net.packets[i]) <= n

PacketBound == AtMost(MaxLines + 1)

(* What zrlmpi_common.hpp says of ZRLMPI_MAX_MESSAGE_SIZE_LINES.           *)
PacketFits == AtMost(MaxLines)

(* LIVENESS: both calls return, also if the first packet or a last packet  *)
(* of one line is lost.                                                    *)
Finishes == <>Returned

=============================================================================
