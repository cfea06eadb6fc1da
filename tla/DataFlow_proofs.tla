--------------------------- MODULE DataFlow_proofs ---------------------------
(***************************************************************************)
(* The way of a message while no packet is lost: every line is in its      *)
(* place, at every moment and for all values of the constants.             *)
(*                                                                         *)
(* The lines are numbered: -3 to 0 are the header, 1 to Final(count) are   *)
(* the message.  Each process is at a line, and has passed on all lines    *)
(* before it:                                                              *)
(*                                                                         *)
(*   w  wrapper that sends     q  pDeqSend     u  pMpeGlobal, receiver     *)
(*   e  pEnqMpiData            z  pEnqTcpIn    s  pDeqRecv                 *)
(*   r  pMpeGlobal, sender                     f  wrapper that receives    *)
(*                                                                         *)
(* and the stream between two processes carries the lines between theirs.  *)
(* How it carries them, one or two to a beat, cut where a packet ends or   *)
(* not, is what `Steps` of the stream says.  The number of packets that    *)
(* have ended is counted likewise, from rk to tk, because pMpeGlobal is    *)
(* told of packets by meta words that run beside the beats.                *)
(*                                                                         *)
(* A step moves the number of one process, and disturbs the two streams at *)
(* its sides: there is a lemma ...Step for each, about these two only.     *)
(***************************************************************************)
EXTENDS DataPath_proofs

(* The number of the last line: a message of no words is sent as one line. *)
Final(c) == IF c = 0 THEN 1 ELSE LineCnt(c)

WordAt(c, k) == IF k < c THEN k + 1 ELSE Old

LineAt(c, j) ==
  IF j <= 0 THEN H(j + 4)
  ELSE <<WordAt(c, 2 * j - 2),
         IF 2 * j - 2 < (c - 1) % Modulus THEN WordAt(c, 2 * j - 1) ELSE Zero>>

LinesFrom(c, a, b) == [i \in 1 .. b - a |-> LineAt(c, a + i - 1)]

(* The items of `s` lead from line a to line b: `Steps` has an <<item,     *)
(* from, to>> for each.                                                    *)
Carries(s, Steps, a, b) ==
  /\ IsSeq(s)
  /\ \E at \in [1 .. Len(s) + 1 -> Int] :
       /\ at[1] = a /\ at[Len(s) + 1] = b
       /\ \A i, j \in 1 .. Len(s) + 1 : i <= j => at[i] <= at[j]
       /\ \A i \in 1 .. Len(s) : <<s[i], at[i], at[i + 1]>> \in Steps

(* mpiData and app *)
LineSteps(c) ==
  {<<[line |-> LineAt(c, j), last |-> j >= Final(c)], j, j + 1>> : j \in 1 .. Final(c)}

(* mpiIn and tx: beats of two lines, but for the last one of an odd number.*)
OneLine(c, a, last) == [lines |-> <<LineAt(c, a)>>, last |-> last]
TwoLines(c, a, last) == [lines |-> <<LineAt(c, a), LineAt(c, a + 1)>>, last |-> last]

BeatSteps(c) ==
  {<<TwoLines(c, a, a + 1 >= Final(c)), a, a + 2>> : a \in {a \in -3 .. Final(c) - 1 : (a + 4) % 2 = 1}}
  \cup {<<OneLine(c, a, TRUE), a, a + 1>> : a \in {a \in {Final(c)} : (a + 4) % 2 = 1}}

(* The packets in flight.  The first one may have been taken in part. *)
PacketSteps(c) ==
  {<<LinesFrom(c, x[1], x[2]), x[1], x[2]>> :
     x \in {x \in (-3 .. Final(c)) \X (2 .. Final(c) + 1) : x[1] < x[2]}}

(* tcpIn and rx: beats that begin anew with every packet. *)
ArrivedSteps(c) ==
  {<<TwoLines(c, a, FALSE), a, a + 2>> : a \in {-3, -1}}
  \cup {<<TwoLines(c, x[1], x[2]), x[1], x[1] + 2>> :
          x \in {x \in (1 .. Final(c) - 1) \X BOOLEAN : x[1] + 1 = Final(c) => x[2]}}
  \cup {<<OneLine(c, a, TRUE), a, a + 1>> : a \in 1 .. Final(c)}

(* tcpIn again, by the number of packets that have ended. *)
EndSteps(c) ==
  {<<x[1], x[2], IF x[1].last THEN x[2] + 1 ELSE x[2]>> : x \in {y[1] : y \in ArrivedSteps(c)} \X Nat}

-----------------------------------------------------------------------------
(* The sender *)

(* MPI_Send is at line w. *)
Sending(w) ==
  /\ sw = [state |-> sw.state, i |-> sw.i, start |-> sw.start, copied |-> sw.copied,
           words |-> sw.words]
  /\ sw.state \in {"SEND_WRITE_DATA", "SEND_FINISH", "SEND_DONE"}
  /\ w \in 1 .. Final(job.count) + 1
  /\ sw.i = 2 * (w - 1)
  /\ sw.state = "SEND_WRITE_DATA" <=> w <= Final(job.count)

(* The buffer of registers v holds the words from v.start to Filled(v) - 1.*)
Filled(v) == IF job.count = 0 THEN Window ELSE IF job.sendDram THEN v.copied ELSE 1

Buffers(v) ==
  /\ v.start \in Nat /\ v.start % 2 = 0 /\ v.start <= job.count
  /\ v.words = [k \in 0 .. Window - 1 |-> v.words[k]]
  /\ job.sendDram => v.copied = Lesser(v.start + Window, job.count)
  /\ ~job.sendDram => v.start = 0 /\ v.copied = 0
  /\ job.sendDram \/ SmallMessage =>
       \A k \in 0 .. Window - 1 :
         v.start + k < Filled(v) => v.words[k] = WordAt(job.count, v.start + k)

Buffered ==
  /\ Buffers(sw)
  /\ job.sendDram /\ sw.state = "SEND_WRITE_DATA" => sw.start <= sw.i /\ sw.i <= sw.copied

(* pEnqMpiData takes the beat that begins with line e. *)
Joined(e) == IF enq.state = "DEQ_WRITE_2" THEN e + 1 ELSE e

Joining(e) ==
  /\ enq = [state |-> enq.state, first |-> enq.first]
  /\ enq.state \in {"DEQ_WRITE", "DEQ_WRITE_2"} /\ enq.first \in Line
  /\ e \in 1 .. Final(job.count) + 1
  /\ e % 2 = 1 \/ e = Final(job.count) + 1
  /\ enq.state = "DEQ_WRITE_2" => enq.first = LineAt(job.count, e) /\ e < Final(job.count)

(* pMpeGlobal is at line r of the data. *)
SentTo(r) == IF se.state = "SEND_DATA_START" THEN -3
             ELSE IF se.state = "SEND_DATA_START_1" THEN -1 ELSE r

Reading(r) ==
  /\ se = [state |-> se.state, total |-> se.total, inc |-> se.inc, timer |-> se.timer]
  /\ se.inc = 0 /\ se.timer = "running"
  /\ se.state \in {"SEND_DATA_START", "SEND_DATA_START_1", "SEND_DATA_RD",
                   "SEND_DATA_WRD", "WAIT4ACK", "IDLE"}
  /\ r \in 1 .. Final(job.count) + 1
  /\ se.total = 2 * (r - 1)
  /\ se.state \in {"SEND_DATA_START", "SEND_DATA_START_1"} => r = 1
  /\ se.state \in {"SEND_DATA_WRD", "WAIT4ACK", "IDLE"} <=> r = Final(job.count) + 1

(* pDeqSend has taken the lines before q, and completed the packets before *)
(* line Packed(q).                                                         *)
Kept       == dq.state = "DEQ_WRITE_2" \/ (dq.state = "DEQ_START" /\ dq.startWithSecond)
Emitted(q) == IF Kept THEN q - 1 ELSE q
Packed(q)  == Emitted(q) - Len(dq.packet)

Splitting(q) ==
  /\ q \in -3 .. Final(job.count) + 1
  /\ {dq.goToDone, dq.startWithSecond} \subseteq BOOLEAN /\ dq.second \in Line
  /\ dq.startWithSecond => dq.state = "DEQ_START"
  /\ Kept => q > -3 /\ dq.second = LineAt(job.count, q - 1)
  /\ dq.state = "DEQ_WRITE_2" => dq.goToDone = (q = Final(job.count) + 1)
  /\ dq.state \in {"DEQ_START", "DEQ_WRITE"} => q <= Final(job.count)
  /\ dq.state = "DEQ_DONE" => q = Final(job.count) + 1
  /\ dq.state = "DEQ_IDLE" => q = -3 \/ q = Final(job.count) + 1
  /\ dq.packet = LinesFrom(job.count, Packed(q), Emitted(q)) /\ Packed(q) >= -3

(* The flags between pMpeGlobal and pDeqSend. *)
SenderFlags(q) ==
  /\ se.state = "SEND_DATA_START" => dq.state = "DEQ_IDLE" /\ q = -3
  /\ se.state \in {"WAIT4ACK", "IDLE"} => dq.state = "DEQ_IDLE" /\ q = Final(job.count) + 1
  /\ fifo.destId = IF se.state # "SEND_DATA_START" /\ dq.state = "DEQ_IDLE" /\ q = -3
                   THEN 1 ELSE 0
  /\ fifo.sendDone = IF se.state = "SEND_DATA_WRD" /\ dq.state = "DEQ_IDLE"
                        /\ q = Final(job.count) + 1 THEN 1 ELSE 0

-----------------------------------------------------------------------------
(* The receiver *)

(* pEnqTcpIn takes line z. *)
Arrived(z) == IF tin.state = "DEQ_WRITE_2" THEN z - 1 ELSE z

Arriving(z) ==
  /\ tin = [state |-> tin.state, first |-> tin.first]
  /\ tin.state \in {"DEQ_START", "DEQ_WRITE", "DEQ_WRITE_2"} /\ tin.first \in Line
  /\ z \in -3 .. Final(job.count) + 1
  /\ z <= 1 => (tin.state = "DEQ_WRITE_2" <=> z \in {-2, 0})
  /\ tin.state = "DEQ_WRITE_2" => tin.first = LineAt(job.count, z - 1)
  /\ tin.state # "DEQ_START" => net.packets # << >>

(* The packets from rk to tk - 1 end in tcpIn.  A meta word for each packet*)
(* that has begun to arrive, but for those that pMpeGlobal has begun.      *)
Metas(tk, rk) ==
  /\ fifo.meta \in Nat
  /\ fifo.meta = tk + (IF tin.state # "DEQ_START" THEN 1 ELSE 0)
                 - rk - (IF re.state \in {"RECV_DATA_START_1", "RECV_DATA_RD"} THEN 1 ELSE 0)
  /\ tin.state = "DEQ_START" /\ fifo.tcpIn # << >> => fifo.tcpIn[Len(fifo.tcpIn)].last

(* pMpeGlobal takes the beat that begins with line u. *)
Passed(u) == IF u < 1 THEN 1 ELSE u

Passing(u) ==
  /\ re = [state |-> re.state, first |-> re.first, total |-> re.total, more |-> re.more,
           started |-> re.started, inc |-> re.inc, timer |-> re.timer]
  /\ re.inc = 0
  /\ \/ re.state = "RECV_DATA_START" /\ ~re.more /\ u = -3
     \/ re.state = "RECV_DATA_START_1" /\ u = -1 /\ re.first = HeaderBeats[1].lines
     \/ re.state = "RECV_DATA_RD" /\ u \in 1 .. Final(job.count)
     \/ re.state = "RECV_DATA_START" /\ re.more /\ u \in 1 .. Final(job.count)
     \/ re.state \in {"RECV_DATA_WRD", "IDLE"} /\ u = Final(job.count) + 1
  /\ re.total = 2 * (Passed(u) - 1)

(* pDeqRecv has taken the lines before s. *)
Parted(s) == IF dr.state = "DEQ_WRITE_2" THEN s - 1 ELSE s

Parting(s, u) ==
  /\ dr = [state |-> dr.state, exp |-> dr.exp, total |-> dr.total, second |-> dr.second]
  /\ dr.second \in Line /\ dr.exp \in {0, LineCnt(job.count)}
  /\ s \in 1 .. Final(job.count) + 1
  /\ dr.total = Parted(s) - 1
  /\ \/ dr.state = "DEQ_IDLE" /\ s \in {1, Final(job.count) + 1}
     \/ dr.state = "DEQ_WRITE" /\ s <= Final(job.count)
     \/ dr.state = "DEQ_WRITE_2" /\ s > 1 /\ dr.second = LineAt(job.count, s - 1)
     \/ dr.state = "DEQ_DONE" /\ s = Final(job.count) + 1
  /\ dr.state \in {"DEQ_WRITE", "DEQ_WRITE_2"} => dr.exp = LineCnt(job.count)
  /\ dr.state # "DEQ_IDLE" => u >= 1

(* The flags between pMpeGlobal and pDeqRecv. *)
ReceiverFlags(s, u) ==
  /\ fifo.expLen = IF u >= 1 /\ dr.state = "DEQ_IDLE" /\ s = 1
                   THEN <<LineCnt(job.count)>> ELSE << >>
  /\ fifo.recvDone = IF re.state # "IDLE" /\ dr.state = "DEQ_IDLE"
                        /\ s = Final(job.count) + 1 THEN 1 ELSE 0
  /\ re.state = "IDLE" => dr.state = "DEQ_IDLE" /\ s = Final(job.count) + 1

(* MPI_Recv is at line f. *)
Receiving(f) ==
  /\ rw = [state |-> rw.state, i |-> rw.i, start |-> rw.start, max |-> rw.max,
           words |-> rw.words]
  /\ rw.state \in {"RECV_READ_DATA", "RECV_FINISH", "RECV_DONE"}
  /\ f \in 1 .. Final(job.count) + 1
  /\ rw.state = "RECV_READ_DATA" <=> f <= Final(job.count)
  /\ f <= Final(job.count) \/ ~job.recvDram => rw.i = 2 * (f - 1)
  /\ f > Final(job.count) /\ job.recvDram => rw.i \in job.count .. job.count + 2
  /\ rw.start \in Nat /\ rw.start % 2 = 0 /\ rw.start <= rw.i /\ rw.start <= job.count
  /\ rw.max = rw.start + Window
  /\ job.recvDram => rw.i <= rw.max
  /\ ~job.recvDram => rw.start = 0

(* What the receiver has of the message, in its buffer and in memory. *)
Held(f) ==
  /\ rw.words \in [0 .. Window - 1 -> Word]
  /\ dst \in [0 .. job.count + 1 -> Word]
  /\ job.recvDram =>
       /\ \A k \in 0 .. job.count - 1 : k < rw.start => dst[k] = k + 1
       /\ \A k \in 0 .. Window - 1 :
            rw.start + k < rw.i /\ rw.start + k < job.count => rw.words[k] = rw.start + k + 1
  /\ ~job.recvDram /\ ~SmallMessage =>
       \A k \in 0 .. job.count - 1 : k < rw.i => dst[k] = k + 1
  /\ ~job.recvDram /\ SmallMessage /\ f > Final(job.count) =>
       rw.words[0] = WordAt(job.count, 0)
  /\ RightMemory

-----------------------------------------------------------------------------
(* The acknowledgement, and what the two calls are told. *)
Answers ==
  /\ se.state = "IDLE" => re.state = "IDLE"
  /\ sw.state = "SEND_DONE" => se.state = "IDLE"
  /\ rw.state = "RECV_DONE" => re.state = "IDLE"
  /\ fifo.ack = IF re.state = "IDLE" /\ se.state # "IDLE" THEN 1 ELSE 0
  /\ fifo.sendFeedback = IF se.state = "IDLE" /\ sw.state # "SEND_DONE" THEN <<"OK">> ELSE << >>
  /\ fifo.recvFeedback = IF re.state = "IDLE" /\ rw.state # "RECV_DONE" THEN <<"OK">> ELSE << >>

(* The parts of the way, each with the stream that leads into or out of it.*)
FromWrapper(w) == Sending(w) /\ Buffered
ToBeats(w, e) ==
  Len(fifo.mpiData) <= Depth /\ Joining(e)
  /\ Carries(fifo.mpiData, LineSteps(job.count), Joined(e), w)
ToEngine(e, r) ==
  Len(fifo.mpiIn) <= Depth /\ Reading(r) /\ Carries(fifo.mpiIn, BeatSteps(job.count), r, e)
ToPackets(r, q) ==
  Len(fifo.tx) <= Depth /\ Splitting(q) /\ SenderFlags(q)
  /\ Carries(fifo.tx, BeatSteps(job.count), q, SentTo(r))
ToReceiver(q, z) ==
  Arriving(z) /\ Carries(net.packets, PacketSteps(job.count), z, Packed(q))
Ends(tk, rk) ==
  Metas(tk, rk) /\ Carries(fifo.tcpIn, EndSteps(job.count), rk, tk)
FromNetwork(z, u) ==
  Len(fifo.tcpIn) <= Depth /\ Passing(u)
  /\ Carries(fifo.tcpIn, ArrivedSteps(job.count), u, Arrived(z))
ToLines(u, s) ==
  Len(fifo.rx) <= Depth /\ Parting(s, u) /\ ReceiverFlags(s, u)
  /\ Carries(fifo.rx, ArrivedSteps(job.count), s, Passed(u))
ToWrapper(s, f) ==
  Len(fifo.app) <= Depth /\ Receiving(f) /\ Held(f)
  /\ Carries(fifo.app, LineSteps(job.count), f, Parted(s))

Lossless ==
  /\ net.losses = 0 /\ Streamed
  /\ job \in Job

Flow(w, e, r, q, z, tk, rk, u, s, f) ==
  /\ Lossless /\ Answers
  /\ FromWrapper(w) /\ ToBeats(w, e) /\ ToEngine(e, r) /\ ToPackets(r, q)
  /\ ToReceiver(q, z) /\ Ends(tk, rk) /\ FromNetwork(z, u) /\ ToLines(u, s)
  /\ ToWrapper(s, f)

(* Every line of the message is in its place. *)
FlowInv ==
  \E w, e, r, q, z, u, s, f \in Int, tk, rk \in Nat :
    Flow(w, e, r, q, z, tk, rk, u, s, f)


-----------------------------------------------------------------------------
(* Streams that carry lines: what the first and the last item are. *)

(* The first line is not after the last one. *)
LEMMA CarriesRange ==
  ASSUME NEW s, NEW Steps, NEW a, NEW b, Carries(s, Steps, a, b)
  PROVE  a \in Int /\ b \in Int /\ a <= b /\ IsSeq(s) /\ Len(s) \in Nat
<1>1. IsSeq(s) /\ Len(s) \in Nat
  BY AppendAny DEF Carries
<1> QED BY <1>1 DEF Carries

(* An empty stream leads nowhere. *)
LEMMA CarriesNone ==
  ASSUME NEW Steps, NEW a \in Int
  PROVE  Carries(<< >>, Steps, a, a)
<1> DEFINE at == [i \in 1 .. 1 |-> a]
<1>1. at \in [1 .. Len(<< >>) + 1 -> Int] /\ \A i \in 1 .. 1 : at[i] = a
  BY EmptyIsSeq
<1> HIDE DEF at
<1> QED BY <1>1, EmptyIsSeq DEF Carries

LEMMA CarriesEmpty ==
  ASSUME NEW Steps, NEW a, NEW b, Carries(<< >>, Steps, a, b)
  PROVE  a = b
BY EmptyIsSeq DEF Carries

(* An item is put at the end. *)
LEMMA CarriesPut ==
  ASSUME NEW s, NEW Steps, NEW a, NEW b, Carries(s, Steps, a, b),
         NEW x, NEW c \in Int, b <= c, <<x, b, c>> \in Steps
  PROVE  Carries(Append(s, x), Steps, a, c)
<1>1. IsSeq(s) /\ Len(s) \in Nat
  BY AppendAny DEF Carries
<1>2. PICK at \in [1 .. Len(s) + 1 -> Int] :
        /\ at[1] = a /\ at[Len(s) + 1] = b
        /\ \A i, j \in 1 .. Len(s) + 1 : i <= j => at[i] <= at[j]
        /\ \A i \in 1 .. Len(s) : <<s[i], at[i], at[i + 1]>> \in Steps
  BY DEF Carries
<1> DEFINE n == Len(s)
           t == Append(s, x)
           more == [i \in 1 .. n + 2 |-> IF i = n + 2 THEN c ELSE at[i]]
<1>3. IsSeq(t) /\ Len(t) = n + 1 /\ n \in Nat
  BY <1>1, AppendAny
<1>4. t[n + 1] = x /\ \A i \in 1 .. n : t[i] = s[i]
  BY <1>1, AppendProperties DEF IsSeq
<1> HIDE DEF n, t
<1>5. /\ more \in [1 .. n + 1 + 1 -> Int] /\ more[1] = a /\ more[n + 2] = c
      /\ \A i \in 1 .. n + 1 : more[i] = at[i]
  BY <1>2, <1>3 DEF n
<1> HIDE DEF more
<1>6. more[n + 1] = b /\ \A i \in 1 .. n + 1 : more[i] <= b
  <2>1. at[n + 1] = b /\ \A i \in 1 .. n + 1 : at[i] <= b
    BY <1>2, <1>3 DEF n
  <2> QED BY <1>3, <1>5, <2>1
<1>7. \A i, j \in 1 .. n + 2 : i <= j => more[i] <= more[j]
  <2> SUFFICES ASSUME NEW i \in 1 .. n + 2, NEW j \in 1 .. n + 2, i <= j
               PROVE  more[i] <= more[j]
    OBVIOUS
  <2>1. CASE j = n + 2
    <3>1. b \in Int /\ (i \in 1 .. n + 1 => more[i] \in Int /\ more[i] <= b)
      BY <1>3, <1>5, <1>6
    <3>2. i = n + 2 \/ i \in 1 .. n + 1
      BY <1>3
    <3> QED BY <1>5, <2>1, <3>1, <3>2
  <2>2. CASE j # n + 2
    <3>1. i \in 1 .. n + 1 /\ j \in 1 .. n + 1
      BY <1>3, <2>2
    <3> QED BY <1>2, <1>5, <3>1 DEF n
  <2> QED BY <2>1, <2>2
<1>8. ASSUME NEW i \in 1 .. n + 1 PROVE <<t[i], more[i], more[i + 1]>> \in Steps
  <2>1. CASE i \in 1 .. n
    <3>1. more[i] = at[i] /\ more[i + 1] = at[i + 1] /\ t[i] = s[i]
      BY <1>3, <1>4, <1>5, <2>1
    <3> QED BY <1>2, <2>1, <3>1 DEF n
  <2>2. CASE i = n + 1
    <3>1. more[i] = b /\ more[i + 1] = c /\ t[i] = x
      BY <1>3, <1>4, <1>5, <1>6, <2>2
    <3> QED BY <3>1
  <2> QED BY <1>3, <2>1, <2>2
<1>9. Carries(t, Steps, a, c)
  <2>1. /\ more \in [1 .. Len(t) + 1 -> Int] /\ more[1] = a /\ more[Len(t) + 1] = c
        /\ 1 .. Len(t) = 1 .. n + 1 /\ 1 .. Len(t) + 1 = 1 .. n + 2
    BY <1>3, <1>5
  <2> QED BY <1>3, <1>7, <1>8, <2>1 DEF Carries
<1> QED BY <1>9 DEF t

(* The rest of a stream from its second item on. *)
LEMMA CarriesTake ==
  ASSUME NEW s, NEW Steps, NEW a, NEW b, Carries(s, Steps, a, b), s # << >>
  PROVE  \E c \in Int : /\ <<Head(s), a, c>> \in Steps /\ a <= c /\ c <= b
                        /\ Carries(Tail(s), Steps, c, b)
<1>1. PICK S : s \in Seq(S)
  BY DEF Carries, IsSeq
<1>2. PICK at \in [1 .. Len(s) + 1 -> Int] :
        /\ at[1] = a /\ at[Len(s) + 1] = b
        /\ \A i, j \in 1 .. Len(s) + 1 : i <= j => at[i] <= at[j]
        /\ \A i \in 1 .. Len(s) : <<s[i], at[i], at[i + 1]>> \in Steps
  BY DEF Carries
<1> DEFINE n == Len(s)
           t == Tail(s)
           less == [i \in 1 .. n |-> at[i + 1]]
<1>3. n \in Nat /\ n > 0 /\ Head(s) = s[1]
  BY <1>1, LenProperties, EmptySeq, HeadTailProperties
<1>4. t \in Seq(S) /\ Len(t) = n - 1 /\ \A i \in 1 .. n - 1 : t[i] = s[i + 1]
  BY <1>1, <1>3, HeadTailProperties
<1> HIDE DEF n, t
<1>5. less \in [1 .. (n - 1) + 1 -> Int] /\ less[1] = at[2] /\ less[(n - 1) + 1] = b
  BY <1>2, <1>3 DEF n
<1>6. \A i \in 1 .. n : less[i] = at[i + 1]
  OBVIOUS
<1> HIDE DEF less
<1>7. \A i, j \in 1 .. n : i <= j => less[i] <= less[j]
  BY <1>2, <1>3, <1>6 DEF n
<1>8. ASSUME NEW i \in 1 .. n - 1 PROVE <<t[i], less[i], less[i + 1]>> \in Steps
  <2>1. less[i] = at[i + 1] /\ less[i + 1] = at[i + 1 + 1] /\ t[i] = s[i + 1]
    BY <1>3, <1>4, <1>6
  <2>2. i + 1 \in 1 .. n
    BY <1>3
  <2> QED BY <1>2, <2>1, <2>2 DEF n
<1>9. Carries(t, Steps, at[2], b)
  <2>1. /\ less \in [1 .. Len(t) + 1 -> Int] /\ less[1] = at[2] /\ less[Len(t) + 1] = b
        /\ 1 .. Len(t) = 1 .. n - 1 /\ 1 .. Len(t) + 1 = 1 .. n /\ IsSeq(t)
    BY <1>3, <1>4, <1>5 DEF IsSeq
  <2> QED BY <1>7, <1>8, <2>1 DEF Carries
<1>10. /\ at[2] \in Int /\ <<Head(s), a, at[2]>> \in Steps
       /\ at[1] <= at[2] /\ at[2] <= at[n + 1]
  BY <1>2, <1>3 DEF n
<1> QED BY <1>2, <1>9, <1>10 DEF t, n

(* The first item is replaced by another one. *)
LEMMA CarriesInstead ==
  ASSUME NEW s, NEW Steps, NEW a, NEW b, Carries(s, Steps, a, b), s # << >>,
         NEW c, Carries(Tail(s), Steps, c, b),
         NEW x, NEW d \in Int, d <= c, <<x, d, c>> \in Steps
  PROVE  Carries(<<x>> \o Tail(s), Steps, d, b)
<1> DEFINE t == Tail(s)
<1>1. PICK S : t \in Seq(S)
  BY DEF Carries, IsSeq
<1>2. PICK at \in [1 .. Len(t) + 1 -> Int] :
        /\ at[1] = c /\ at[Len(t) + 1] = b
        /\ \A i, j \in 1 .. Len(t) + 1 : i <= j => at[i] <= at[j]
        /\ \A i \in 1 .. Len(t) : <<t[i], at[i], at[i + 1]>> \in Steps
  BY DEF Carries
<1> HIDE DEF t
<1> DEFINE n == Len(t)
           u == <<x>> \o t
           more == [i \in 1 .. n + 2 |-> IF i = 1 THEN d ELSE at[i - 1]]
<1>3. n \in Nat
  BY <1>1, LenProperties
<1>4. /\ u \in Seq(S \cup {x}) /\ Len(u) = n + 1 /\ u[1] = x
      /\ \A i \in 2 .. n + 1 : u[i] = t[i - 1]
  <2>1. t \in Seq(S \cup {x}) /\ <<x>> \in Seq(S \cup {x}) /\ Len(<<x>>) = 1 /\ <<x>>[1] = x
    BY <1>1, SeqMonotonic
  <2> QED BY <1>3, <2>1, ConcatProperties
<1> HIDE DEF n, u
<1>5. /\ more \in [1 .. n + 1 + 1 -> Int] /\ more[1] = d /\ more[n + 1 + 1] = b
      /\ more[2] = c
  BY <1>2, <1>3 DEF n
<1>6. \A i \in 2 .. n + 2 : more[i] = at[i - 1] /\ i - 1 \in 1 .. n + 1
  BY <1>3
<1> HIDE DEF more
<1>7. \A i \in 1 .. n + 1 : c <= at[i]
  BY <1>2, <1>3 DEF n
<1>8. \A i, j \in 1 .. n + 2 : i <= j => more[i] <= more[j]
  <2> SUFFICES ASSUME NEW i \in 1 .. n + 2, NEW j \in 1 .. n + 2, i <= j
               PROVE  more[i] <= more[j]
    OBVIOUS
  <2>1. CASE i = 1 /\ j = 1
    BY <1>5, <2>1
  <2>2. CASE i = 1 /\ j # 1
    <3>1. more[j] = at[j - 1] /\ j - 1 \in 1 .. n + 1
      BY <1>3, <1>6, <2>2
    <3>2. c <= more[j] /\ more[j] \in Int /\ c \in Int
      BY <1>2, <1>3, <1>7, <3>1 DEF n
    <3> QED BY <1>5, <2>2, <3>2
  <2>3. CASE i # 1
    <3>1. /\ more[i] = at[i - 1] /\ more[j] = at[j - 1]
          /\ i - 1 \in 1 .. n + 1 /\ j - 1 \in 1 .. n + 1 /\ i - 1 <= j - 1
      BY <1>3, <1>6, <2>3
    <3> QED BY <1>2, <3>1 DEF n
  <2> QED BY <2>1, <2>2, <2>3
<1>9. ASSUME NEW i \in 1 .. n + 1 PROVE <<u[i], more[i], more[i + 1]>> \in Steps
  <2>1. CASE i = 1
    <3>1. u[i] = x /\ more[i] = d /\ more[i + 1] = c
      BY <1>4, <1>5, <2>1
    <3> QED BY <3>1
  <2>2. CASE i # 1
    <3>1. /\ u[i] = t[i - 1] /\ more[i] = at[i - 1] /\ more[i + 1] = at[(i - 1) + 1]
          /\ i - 1 \in 1 .. n
      BY <1>3, <1>4, <1>6, <2>2
    <3> QED BY <1>2, <3>1 DEF n
  <2> QED BY <2>1, <2>2
<1>10. Carries(u, Steps, d, b)
  <2>1. /\ more \in [1 .. Len(u) + 1 -> Int] /\ more[1] = d /\ more[Len(u) + 1] = b
        /\ 1 .. Len(u) = 1 .. n + 1 /\ 1 .. Len(u) + 1 = 1 .. n + 2 /\ IsSeq(u)
    BY <1>3, <1>4, <1>5 DEF IsSeq
  <2> QED BY <1>8, <1>9, <2>1 DEF Carries
<1> QED BY <1>10 DEF u, t

(* If every item leads on, nothing leads from a line to itself. *)
LEMMA CarriesNothing ==
  ASSUME NEW s, NEW Steps, NEW a, Carries(s, Steps, a, a),
         \A x, b, c : <<x, b, c>> \in Steps => b < c
  PROVE  s = << >>
<1> SUFFICES ASSUME s # << >> PROVE FALSE
  OBVIOUS
<1>1. PICK c \in Int : <<Head(s), a, c>> \in Steps /\ c <= a
  BY CarriesTake
<1>2. a \in Int /\ a < c
  BY <1>1, CarriesRange
<1> QED BY <1>1, <1>2

(* The last item of a stream. *)
LEMMA CarriesLast ==
  ASSUME NEW s, NEW Steps, NEW a, NEW b, Carries(s, Steps, a, b), s # << >>
  PROVE  \E c \in Int : <<s[Len(s)], c, b>> \in Steps /\ a <= c
<1>1. IsSeq(s) /\ Len(s) \in Nat /\ Len(s) > 0
  BY AppendAny, EmptySeq, LenProperties DEF Carries, IsSeq
<1>2. PICK at \in [1 .. Len(s) + 1 -> Int] :
        /\ at[1] = a /\ at[Len(s) + 1] = b
        /\ \A i, j \in 1 .. Len(s) + 1 : i <= j => at[i] <= at[j]
        /\ \A i \in 1 .. Len(s) : <<s[i], at[i], at[i + 1]>> \in Steps
  BY DEF Carries
<1>3. at[Len(s)] \in Int /\ a <= at[Len(s)] /\ <<s[Len(s)], at[Len(s)], b>> \in Steps
  BY <1>1, <1>2
<1> QED BY <1>3

(* What a stream still holds when its first item is taken. *)
LEMMA TailKeepsLast ==
  ASSUME NEW s, IsSeq(s), Tail(s) # << >>, s # << >>
  PROVE  Tail(s)[Len(Tail(s))] = s[Len(s)]
<1>1. PICK S : s \in Seq(S)
  BY DEF IsSeq
<1>2. /\ Tail(s) \in Seq(S) /\ Len(Tail(s)) = Len(s) - 1 /\ Len(s) \in Nat
      /\ \A i \in 1 .. Len(Tail(s)) : Tail(s)[i] = s[i + 1]
  BY <1>1, HeadTailProperties, LenProperties
<1>3. Len(Tail(s)) > 0
  BY <1>2, EmptySeq, LenProperties
<1> QED BY <1>2, <1>3

(* Taking an item makes room. *)
LEMMA TailFits ==
  ASSUME NEW s, IsSeq(s), s # << >>, NEW n \in Nat, Len(s) <= n
  PROVE  IsSeq(Tail(s)) /\ Len(Tail(s)) <= n
<1>1. PICK S : s \in Seq(S)
  BY DEF IsSeq
<1> QED BY <1>1, HeadTailProperties, LenProperties DEF IsSeq

-----------------------------------------------------------------------------
(* The steps one by one. *)

(* How many lines a message has. *)
LEMMA FinalType ==
  ASSUME NEW c \in Nat
  PROVE  /\ Final(c) \in Nat /\ Final(c) >= 1 /\ LineCnt(c) \in Nat
         /\ 2 * Final(c) >= c /\ (c > 0 => Final(c) = LineCnt(c) /\ 2 * Final(c) <= c + 1)
         /\ c = 0 => Final(c) = 1 /\ LineCnt(c) = 0
BY DEF Final, LineCnt

(* A line of the header or of the message holds words. *)
LEMMA LineType ==
  ASSUME NEW c \in Counts, NEW j \in Int, j >= -3
  PROVE  LineAt(c, j) \in Line
<1>1. c \in Nat /\ 2 * c + 2 <= Modulus /\ Modulus \in Nat
  BY CountIsInt
<1>2. \A k \in Nat : WordAt(c, k) \in Word
  BY <1>1 DEF WordAt, Word, Old
<1>3. CASE j <= 0
  <2>1. -10 - (j + 4) \in HeaderWords
    BY <1>3 DEF HeaderWords
  <2> QED BY <1>3, <2>1 DEF LineAt, Line, H, Word
<1>4. CASE j > 0
  <2>1. 2 * j - 2 \in Nat /\ 2 * j - 1 \in Nat
    BY <1>4
  <2>2. Zero \in Word
    BY <1>1 DEF Zero, Word
  <2> QED BY <1>2, <1>4, <2>1, <2>2 DEF LineAt, Line
<1> QED BY <1>3, <1>4

(* mpiData and app *)
LEMMA LineStep ==
  ASSUME NEW c, NEW x, NEW a, NEW b
  PROVE  <<x, a, b>> \in LineSteps(c) <=>
           /\ a \in 1 .. Final(c) /\ b = a + 1
           /\ x = [line |-> LineAt(c, a), last |-> a >= Final(c)]
BY DEF LineSteps

(* mpiIn and tx *)
LEMMA BeatStep ==
  ASSUME NEW c, NEW x, NEW a, NEW b
  PROVE  <<x, a, b>> \in BeatSteps(c) <=>
           /\ (a + 4) % 2 = 1
           /\ \/ /\ a \in -3 .. Final(c) - 1 /\ b = a + 2
                 /\ x = TwoLines(c, a, a + 1 >= Final(c))
              \/ a = Final(c) /\ b = a + 1 /\ x = OneLine(c, a, TRUE)
BY DEF BeatSteps

(* net.packets *)
LEMMA PacketStep ==
  ASSUME NEW c, NEW x, NEW a, NEW b
  PROVE  <<x, a, b>> \in PacketSteps(c) <=>
           /\ a \in -3 .. Final(c) /\ b \in 2 .. Final(c) + 1 /\ a < b
           /\ x = LinesFrom(c, a, b)
<1>1. ASSUME <<x, a, b>> \in PacketSteps(c)
      PROVE  /\ a \in -3 .. Final(c) /\ b \in 2 .. Final(c) + 1 /\ a < b
             /\ x = LinesFrom(c, a, b)
  BY <1>1 DEF PacketSteps
<1>2. ASSUME a \in -3 .. Final(c), b \in 2 .. Final(c) + 1, a < b, x = LinesFrom(c, a, b)
      PROVE  <<x, a, b>> \in PacketSteps(c)
  <2>1. <<a, b>> \in {y \in (-3 .. Final(c)) \X (2 .. Final(c) + 1) : y[1] < y[2]}
    BY <1>2
  <2> QED BY <1>2, <2>1 DEF PacketSteps
<1> QED BY <1>1, <1>2

(* tcpIn and rx *)
LEMMA ArrivedStep ==
  ASSUME NEW c, NEW x, NEW a, NEW b
  PROVE  <<x, a, b>> \in ArrivedSteps(c) <=>
           \/ a \in {-3, -1} /\ b = a + 2 /\ x = TwoLines(c, a, FALSE)
           \/ /\ a \in 1 .. Final(c) - 1 /\ b = a + 2
              /\ \E last \in BOOLEAN : x = TwoLines(c, a, last) /\ (a + 1 = Final(c) => last)
           \/ a \in 1 .. Final(c) /\ b = a + 1 /\ x = OneLine(c, a, TRUE)
<1> DEFINE Inner == {y \in (1 .. Final(c) - 1) \X BOOLEAN : y[1] + 1 = Final(c) => y[2]}
<1>1. <<x, a, b>> \in {<<TwoLines(c, y[1], y[2]), y[1], y[1] + 2>> : y \in Inner} <=>
           /\ a \in 1 .. Final(c) - 1 /\ b = a + 2
           /\ \E last \in BOOLEAN : x = TwoLines(c, a, last) /\ (a + 1 = Final(c) => last)
  <2>1. ASSUME <<x, a, b>> \in {<<TwoLines(c, y[1], y[2]), y[1], y[1] + 2>> : y \in Inner}
        PROVE  /\ a \in 1 .. Final(c) - 1 /\ b = a + 2
               /\ \E last \in BOOLEAN : x = TwoLines(c, a, last) /\ (a + 1 = Final(c) => last)
    <3>1. PICK y \in Inner : <<x, a, b>> = <<TwoLines(c, y[1], y[2]), y[1], y[1] + 2>>
      BY <2>1
    <3> QED BY <3>1
  <2>2. ASSUME a \in 1 .. Final(c) - 1, b = a + 2,
               NEW last \in BOOLEAN, x = TwoLines(c, a, last), a + 1 = Final(c) => last
        PROVE  <<x, a, b>> \in {<<TwoLines(c, y[1], y[2]), y[1], y[1] + 2>> : y \in Inner}
    <3>1. <<a, last>> \in Inner
      BY <2>2
    <3> HIDE DEF Inner
    <3> QED BY <2>2, <3>1
  <2> QED BY <2>1, <2>2
<1> HIDE DEF Inner
<1>2. <<x, a, b>> \in {<<TwoLines(c, y, FALSE), y, y + 2>> : y \in {-3, -1}} <=>
        a \in {-3, -1} /\ b = a + 2 /\ x = TwoLines(c, a, FALSE)
  OBVIOUS
<1>3. <<x, a, b>> \in {<<OneLine(c, y, TRUE), y, y + 1>> : y \in 1 .. Final(c)} <=>
        a \in 1 .. Final(c) /\ b = a + 1 /\ x = OneLine(c, a, TRUE)
  OBVIOUS
<1> QED BY <1>1, <1>2, <1>3 DEF ArrivedSteps, Inner

(* tcpIn, by the packets that end in it *)
LEMMA EndStepLeads ==
  ASSUME NEW c, NEW x, NEW m, NEW n, <<x, m, n>> \in EndSteps(c)
  PROVE  m \in Nat /\ n = IF x.last THEN m + 1 ELSE m
<1> DEFINE Beats == {y[1] : y \in ArrivedSteps(c)}
<1>1. PICK y \in Beats \X Nat : <<x, m, n>> = <<y[1], y[2], IF y[1].last THEN y[2] + 1 ELSE y[2]>>
  BY DEF EndSteps
<1> HIDE DEF Beats
<1> QED BY <1>1

LEMMA EndStepIs ==
  ASSUME NEW c, NEW x, NEW a, NEW b, <<x, a, b>> \in ArrivedSteps(c), NEW m \in Nat
  PROVE  <<x, m, IF x.last THEN m + 1 ELSE m>> \in EndSteps(c)
<1> DEFINE Beats == {y[1] : y \in ArrivedSteps(c)}
           n == IF x.last THEN m + 1 ELSE m
<1>1. x \in Beats
  <2>1. <<x, a, b>>[1] = x
    OBVIOUS
  <2> QED BY <2>1
<1> HIDE DEF Beats
<1>2. <<x, m>> \in Beats \X Nat /\ <<x, m>>[1] = x /\ <<x, m>>[2] = m
  BY <1>1
<1>3. <<x, m, n>> \in {<<y[1], y[2], IF y[1].last THEN y[2] + 1 ELSE y[2]>> : y \in Beats \X Nat}
  BY <1>2
<1> QED BY <1>3 DEF EndSteps, Beats

(* The two beats of the header. *)
LEMMA HeaderSteps ==
  ASSUME NEW c \in Nat
  PROVE  /\ <<HeaderBeats[1], -3, -1>> \in BeatSteps(c) /\ <<HeaderBeats[2], -1, 1>> \in BeatSteps(c)
         /\ HeaderBeats[1] = TwoLines(c, -3, FALSE) /\ HeaderBeats[2] = TwoLines(c, -1, FALSE)
<1>1. LineAt(c, -3) = H(1) /\ LineAt(c, -2) = H(2) /\ LineAt(c, -1) = H(3) /\ LineAt(c, 0) = H(4)
  BY DEF LineAt
<1>2. /\ HeaderBeats[1] = [lines |-> <<H(1), H(2)>>, last |-> FALSE]
      /\ HeaderBeats[2] = [lines |-> <<H(3), H(4)>>, last |-> FALSE]
  BY DEF HeaderBeats
<1>3. /\ -3 + 1 = -2
      /\ -1 + 1 = 0
      /\ ((-3) + 4) % 2 = 1
      /\ ((-1) + 4) % 2 = 1
  OBVIOUS
<1>4. HeaderBeats[1] = TwoLines(c, -3, FALSE) /\ HeaderBeats[2] = TwoLines(c, -1, FALSE)
  BY <1>1, <1>2, <1>3 DEF TwoLines
<1>5. /\ ~(-2 >= Final(c))
      /\ ~(0 >= Final(c))
      /\ -3 \in -3 .. Final(c) - 1
      /\ -1 \in -3 .. Final(c) - 1
  <2>1. Final(c) \in Nat /\ Final(c) >= 1
    BY FinalType
  <2> QED BY <2>1
<1>6. <<HeaderBeats[1], -3, -1>> \in BeatSteps(c)
  <2>1. (-3 + 1 >= Final(c)) = FALSE
    BY <1>3, <1>5
  <2>2. -3 + 2 = -1
    OBVIOUS
  <2> QED BY <1>3, <1>4, <1>5, <2>1, <2>2, BeatStep
<1>7. <<HeaderBeats[2], -1, 1>> \in BeatSteps(c)
  <2>1. (-1 + 1 >= Final(c)) = FALSE
    BY <1>3, <1>5
  <2>2. -1 + 2 = 1
    OBVIOUS
  <2> QED BY <1>3, <1>4, <1>5, <2>1, <2>2, BeatStep
<1> QED BY <1>4, <1>6, <1>7

(* The lines of a packet *)
LEMMA LinesType ==
  ASSUME NEW c \in Counts, NEW a \in Int, NEW b \in Int, a >= -3, a <= b
  PROVE  LinesFrom(c, a, b) \in Seq(Line) /\ Len(LinesFrom(c, a, b)) = b - a
<1>1. b - a \in Nat /\ \A i \in 1 .. b - a : LineAt(c, a + i - 1) \in Line
  BY LineType
<1> QED BY <1>1, SeqDef, LenProperties DEF LinesFrom

LEMMA LinesNone ==
  ASSUME NEW c, NEW a \in Int
  PROVE  LinesFrom(c, a, a) = << >>
BY EmptySeq DEF LinesFrom

(* A packet grows by one line. *)
LEMMA LinesPut ==
  ASSUME NEW c \in Counts, NEW a \in Int, NEW b \in Int, a >= -3, a <= b
  PROVE  Append(LinesFrom(c, a, b), LineAt(c, b)) = LinesFrom(c, a, b + 1)
<1> DEFINE s == LinesFrom(c, a, b)
           t == LinesFrom(c, a, b + 1)
           x == LineAt(c, b)
<1>1. s \in Seq(Line) /\ Len(s) = b - a /\ t \in Seq(Line) /\ Len(t) = b + 1 - a /\ x \in Line
  BY LinesType, LineType
<1>2. /\ \A i \in 1 .. b - a : s[i] = LineAt(c, a + i - 1)
      /\ \A i \in 1 .. b + 1 - a : t[i] = LineAt(c, a + i - 1)
  BY DEF LinesFrom
<1> HIDE DEF s, t, x
<1>3. Append(s, x) \in Seq(Line) /\ Len(Append(s, x)) = Len(s) + 1 /\ Append(s, x)[Len(s) + 1] = x
      /\ \A i \in 1 .. Len(s) : Append(s, x)[i] = s[i]
  BY <1>1, AppendProperties
<1>4. \A i \in 1 .. Len(t) : Append(s, x)[i] = t[i]
  <2> SUFFICES ASSUME NEW i \in 1 .. b + 1 - a PROVE Append(s, x)[i] = t[i]
    BY <1>1
  <2>1. CASE i \in 1 .. b - a
    BY <1>1, <1>2, <1>3, <2>1
  <2>2. CASE i = b + 1 - a
    <3>1. a + i - 1 = b /\ i = Len(s) + 1
      BY <1>1, <2>2
    <3>2. t[i] = LineAt(c, b)
      BY <1>2, <3>1
    <3>3. Append(s, x)[i] = x
      BY <1>3, <3>1
    <3> QED BY <3>2, <3>3 DEF x
  <2>3. i \in 1 .. b - a \/ i = b + 1 - a
    OBVIOUS
  <2> QED BY <2>1, <2>2, <2>3
<1>5. Append(s, x) = t
  BY <1>1, <1>3, <1>4, SeqEqual
<1> QED BY <1>5 DEF s, t, x

(* The first line of a packet is taken. *)
LEMMA LinesTake ==
  ASSUME NEW c \in Counts, NEW a \in Int, NEW b \in Int, a >= -3, a < b
  PROVE  /\ LinesFrom(c, a, b) # << >> /\ Head(LinesFrom(c, a, b)) = LineAt(c, a)
         /\ Tail(LinesFrom(c, a, b)) = LinesFrom(c, a + 1, b)
<1> DEFINE s == LinesFrom(c, a, b)
           t == LinesFrom(c, a + 1, b)
<1>1. s \in Seq(Line) /\ Len(s) = b - a /\ t \in Seq(Line) /\ Len(t) = b - (a + 1)
  BY LinesType
<1>2. /\ \A i \in 1 .. b - a : s[i] = LineAt(c, a + i - 1)
      /\ \A i \in 1 .. b - (a + 1) : t[i] = LineAt(c, (a + 1) + i - 1)
  BY DEF LinesFrom
<1> HIDE DEF s, t
<1>3. s # << >> /\ Head(s) = s[1]
  BY <1>1, EmptySeq
<1>4. s[1] = LineAt(c, a)
  <2>1. 1 \in 1 .. b - a /\ a + 1 - 1 = a
    OBVIOUS
  <2> QED BY <1>2, <2>1
<1>5. Tail(s) \in Seq(Line) /\ Len(Tail(s)) = Len(s) - 1
      /\ \A i \in 1 .. Len(Tail(s)) : Tail(s)[i] = s[i + 1]
  BY <1>1, <1>3, HeadTailProperties
<1>6. \A i \in 1 .. Len(t) : Tail(s)[i] = t[i]
  <2> SUFFICES ASSUME NEW i \in 1 .. b - (a + 1) PROVE Tail(s)[i] = t[i]
    BY <1>1
  <2>1. i + 1 \in 1 .. b - a /\ a + (i + 1) - 1 = (a + 1) + i - 1 /\ i \in 1 .. Len(Tail(s))
    BY <1>1, <1>5
  <2> QED BY <1>2, <1>5, <2>1
<1>7. Tail(s) = t
  BY <1>1, <1>5, <1>6, SeqEqual
<1> QED BY <1>3, <1>4, <1>7 DEF s, t

-----------------------------------------------------------------------------
(* The sender *)

LEMMA CountType ==
  ASSUME Lossless
  PROVE  /\ job.count \in Counts /\ job.count \in Nat /\ 2 * job.count + 2 <= Modulus
         /\ Modulus \in Nat /\ {job.sendDram, job.recvDram} \subseteq BOOLEAN
         /\ Final(job.count) \in Nat /\ Final(job.count) >= 1 /\ LineCnt(job.count) \in Nat
         /\ 2 * Final(job.count) >= job.count
         /\ job.count > 0 => Final(job.count) = LineCnt(job.count)
                             /\ 2 * Final(job.count) <= job.count + 1
         /\ job.count = 0 => Final(job.count) = 1 /\ LineCnt(job.count) = 0
<1>1. job.count \in Counts /\ {job.sendDram, job.recvDram} \subseteq BOOLEAN
  BY DEF Lossless, Job
<1>2. job.count \in Nat /\ 2 * job.count + 2 <= Modulus /\ Modulus \in Nat
  BY <1>1, CountIsInt
<1> QED BY <1>1, <1>2, FinalType

(* (word_count - 1), when it does not wrap *)
LEMMA LastWordIs ==
  ASSUME Lossless, job.count > 0
  PROVE  LastWord = job.count - 1
<1>1. job.count \in Nat /\ 2 * job.count + 2 <= Modulus /\ Modulus \in Nat
  BY CountType
<1>2. job.count - 1 \in 0 .. Modulus - 1
  BY <1>1
<1> QED BY <1>1, <1>2 DEF LastWord

(* Where MPI_Send is. *)
LEMMA AtLine ==
  ASSUME Lossless, NEW w \in Int, FromWrapper(w), sw.state = "SEND_WRITE_DATA"
  PROVE  /\ sw = [state |-> sw.state, i |-> sw.i, start |-> sw.start, copied |-> sw.copied,
                  words |-> sw.words]
         /\ w \in Nat /\ w >= 1 /\ w <= Final(job.count)
         /\ sw.i = 2 * (w - 1) /\ sw.i \in Nat /\ sw.i % 2 = 0
<1>1. Final(job.count) \in Nat
  BY CountType
<1>2. /\ w \in 1 .. Final(job.count) + 1 /\ w <= Final(job.count) /\ sw.i = 2 * (w - 1)
      /\ sw = [state |-> sw.state, i |-> sw.i, start |-> sw.start, copied |-> sw.copied,
               words |-> sw.words]
  BY DEF FromWrapper, Sending
<1> QED BY <1>1, <1>2

(* The window of the message that holds the next line is in the buffer. *)
LEMMA LoadedBuffer ==
  ASSUME Lossless, NEW w \in Int, FromWrapper(w), sw.state = "SEND_WRITE_DATA",
         NEW v, v = Loaded(sw)
  PROVE  /\ v = [state |-> sw.state, i |-> sw.i, start |-> v.start, copied |-> v.copied,
                 words |-> v.words]
         /\ Buffers(v)
         /\ job.sendDram => v.start <= sw.i /\ (sw.i < v.copied \/ job.count = 0)
<1>1. /\ sw = [state |-> sw.state, i |-> sw.i, start |-> sw.start, copied |-> sw.copied,
              words |-> sw.words]
      /\ w \in Nat /\ w >= 1 /\ w <= Final(job.count) /\ sw.i = 2 * (w - 1) /\ sw.i \in Nat
      /\ sw.i % 2 = 0
  BY AtLine
<1>2. Buffers(sw) /\ (job.sendDram => sw.start <= sw.i /\ sw.i <= sw.copied)
  BY DEF FromWrapper, Buffered
<1>3. job.count \in Nat /\ Window \in Nat /\ Window >= 2 /\ (job.count > 0 => sw.i < job.count)
  BY <1>1, CountType, WindowIsEven
<1>4. CASE ~(job.sendDram /\ sw.i >= sw.copied)
  <2>1. v = sw
    BY <1>4 DEF Loaded
  <2>2. job.sendDram => sw.copied \in Int
    BY <1>2, <1>3 DEF Buffers, Lesser
  <2> QED BY <1>1, <1>2, <1>3, <1>4, <2>1, <2>2
<1>5. CASE job.sendDram /\ sw.i >= sw.copied
  <2> DEFINE len == Lesser(Window, job.count - sw.i)
  <2>1. v = [sw EXCEPT !.start = sw.copied, !.copied = @ + len,
                       !.words = Copied(sw.words, sw.copied, len)]
    BY <1>5 DEF Loaded, NextWindow
  <2>2. sw.copied = sw.i /\ sw.copied = Lesser(sw.start + Window, job.count)
    <3>1. sw.copied = Lesser(sw.start + Window, job.count) /\ sw.start \in Nat
      BY <1>2, <1>5 DEF Buffers
    <3>2. sw.copied \in Int
      BY <1>3, <3>1 DEF Lesser
    <3> QED BY <1>1, <1>2, <1>5, <3>1, <3>2
  <2>3. /\ v = [state |-> sw.state, i |-> sw.i, start |-> v.start, copied |-> v.copied,
                words |-> v.words]
        /\ v.start = sw.i /\ v.copied = sw.i + len /\ v.words = Copied(sw.words, sw.i, len)
    BY <1>1, <2>1, <2>2
  <2>4. v.start <= job.count /\ v.copied = Lesser(v.start + Window, job.count)
    BY <1>1, <1>3, <2>2, <2>3 DEF Lesser
  <2>5. sw.i < v.copied \/ job.count = 0
    BY <1>1, <1>3, <2>3 DEF Lesser
  <2>6. /\ v.words = [k \in 0 .. Window - 1 |-> v.words[k]]
        /\ \A k \in 0 .. Window - 1 : v.words[k] = IF k < len THEN Data(sw.i + k) ELSE sw.words[k]
    BY <2>3 DEF Copied
  <2>7. ASSUME NEW k \in 0 .. Window - 1, v.start + k < Filled(v)
        PROVE  v.words[k] = WordAt(job.count, v.start + k)
    <3>1. CASE job.count = 0
      <4>1. sw.i = 0 /\ sw.start = 0 /\ len = 0
        BY <1>1, <1>2, <1>3, <2>2, <3>1 DEF Buffers, Lesser
      <4>2. v.words[k] = sw.words[k] /\ sw.start + k < Filled(sw) /\ sw.start + k = v.start + k
        BY <1>3, <2>3, <2>6, <3>1, <4>1 DEF Filled
      <4> QED BY <1>2, <1>5, <4>2 DEF Buffers
    <3>2. CASE job.count > 0
      <4>1. Filled(v) = sw.i + len
        BY <1>3, <1>5, <2>3, <3>2 DEF Filled
      <4>2. k < len
        BY <1>1, <1>3, <2>3, <2>7, <4>1 DEF Lesser
      <4> QED BY <2>3, <2>6, <4>2 DEF Data, WordAt
    <3> QED BY <1>3, <3>1, <3>2
  <2> HIDE DEF len
  <2>8. Buffers(v)
    BY <1>1, <1>5, <2>3, <2>4, <2>6, <2>7 DEF Buffers
  <2> QED BY <1>1, <2>3, <2>5, <2>8
<1> QED BY <1>4, <1>5

(* The line that MPI_Send writes. *)
LEMMA LineWritten ==
  ASSUME Lossless, NEW w \in Int, FromWrapper(w), sw.state = "SEND_WRITE_DATA",
         NEW v, v = Loaded(sw)
  PROVE  <<Fetch(v, v.i), IF v.i < LastWord THEN Fetch(v, v.i + 1) ELSE Zero>> = LineAt(job.count, w)
<1>1. /\ Buffers(v) /\ v.i = sw.i
      /\ job.sendDram => v.start <= sw.i /\ (sw.i < v.copied \/ job.count = 0)
  BY LoadedBuffer
<1>2. /\ w \in Nat /\ w >= 1 /\ w <= Final(job.count) /\ sw.i = 2 * w - 2 /\ sw.i \in Nat
      /\ sw.i % 2 = 0
  BY AtLine
<1>3. /\ job.count \in Nat /\ Window \in Nat /\ Window >= 2 /\ Window % 2 = 0
      /\ job.count > 0 => sw.i < job.count
      /\ job.count = 0 => sw.i = 0
  BY <1>2, CountType, WindowIsEven DEF Final
<1>4. job.count > 0 => LastWord = job.count - 1
  BY LastWordIs
<1> DEFINE i == sw.i
<1>5. Fetch(v, i) = WordAt(job.count, i)
  <2>1. CASE ~job.sendDram /\ ~SmallMessage
    BY <2>1 DEF Fetch, Data, WordAt
  <2>2. CASE job.sendDram \/ SmallMessage
    <3>1. v.start <= i /\ i < Filled(v) /\ i - v.start < Window
      <4>1. CASE job.count = 0
        BY <1>1, <1>3, <4>1 DEF Filled, Buffers
      <4>2. CASE job.count > 0 /\ job.sendDram
        <5>1. v.copied = Lesser(v.start + Window, job.count) /\ v.start \in Nat
          BY <1>1, <4>2 DEF Buffers
        <5>2. v.copied \in Int /\ v.copied <= v.start + Window
          BY <1>3, <5>1 DEF Lesser
        <5>3. v.start <= i /\ i < v.copied
          BY <1>1, <4>2
        <5>4. Filled(v) = v.copied
          BY <4>2 DEF Filled
        <5> QED BY <1>2, <1>3, <5>1, <5>2, <5>3, <5>4
      <4>3. CASE job.count > 0 /\ ~job.sendDram
        BY <1>1, <1>2, <1>3, <2>2, <4>3 DEF Filled, Buffers, SmallMessage
      <4> QED BY <1>3, <4>1, <4>2, <4>3
    <3>2. i - v.start \in 0 .. Window - 1 /\ v.start + (i - v.start) = i
      BY <1>1, <1>2, <1>3, <3>1 DEF Buffers
    <3> QED BY <1>1, <2>2, <3>1, <3>2 DEF Fetch, Buffers
  <2> QED BY <2>1, <2>2
<1>6. i < LastWord => Fetch(v, i + 1) = WordAt(job.count, i + 1)
  <2> SUFFICES ASSUME i < LastWord PROVE Fetch(v, i + 1) = WordAt(job.count, i + 1)
    OBVIOUS
  <2>1. CASE ~job.sendDram /\ ~SmallMessage
    BY <2>1 DEF Fetch, Data, WordAt
  <2>2. CASE job.sendDram \/ SmallMessage
    <3>1. v.start <= i + 1 /\ i + 1 < Filled(v) /\ (i + 1) - v.start < Window
      <4>1. CASE job.count = 0
        BY <1>1, <1>3, <4>1 DEF Filled, Buffers
      <4>2. CASE job.count > 0 /\ job.sendDram
        <5>1. i < v.start + Window /\ v.start \in Nat /\ v.start % 2 = 0
          <6>1. v.copied = Lesser(v.start + Window, job.count) /\ v.start \in Nat /\ v.start % 2 = 0
            BY <1>1, <4>2 DEF Buffers
          <6>2. v.copied \in Int /\ v.copied <= v.start + Window
            BY <1>3, <6>1 DEF Lesser
          <6>3. i < v.copied
            BY <1>1, <4>2
          <6> QED BY <1>2, <1>3, <6>1, <6>2, <6>3
        <5>2. i + 1 < v.start + Window
          BY <1>2, <1>3, <5>1
        <5>3. i + 1 < job.count
          BY <1>2, <1>3, <1>4, <4>2
        <5> QED BY <1>1, <1>2, <1>3, <4>2, <5>1, <5>2, <5>3 DEF Filled, Buffers, Lesser
      <4>3. CASE job.count > 0 /\ ~job.sendDram
        BY <1>2, <1>3, <1>4, <2>2, <4>3 DEF SmallMessage
      <4> QED BY <1>3, <4>1, <4>2, <4>3
    <3>2. (i + 1) - v.start \in 0 .. Window - 1 /\ v.start + ((i + 1) - v.start) = i + 1
      BY <1>1, <1>2, <1>3, <3>1 DEF Buffers
    <3> QED BY <1>1, <2>2, <3>1, <3>2 DEF Fetch, Buffers
  <2> QED BY <2>1, <2>2
<1>7. LineAt(job.count, w) =
        <<WordAt(job.count, i), IF i < LastWord THEN WordAt(job.count, i + 1) ELSE Zero>>
  BY <1>2 DEF LineAt, LastWord
<1> HIDE DEF i
<1> QED BY <1>1, <1>5, <1>6, <1>7 DEF i

(* MPI_Send writes a line. *)
LEMMA SendWriteDataStep ==
  ASSUME Lossless, NEW w \in Int, NEW e \in Int, FromWrapper(w), ToBeats(w, e), SendWriteData
  PROVE  /\ FromWrapper(w + 1)' /\ ToBeats(w + 1, e)'
         /\ sw.state # "SEND_DONE" /\ sw'.state # "SEND_DONE"
<1> DEFINE v    == Loaded(sw)
           last == v.i + 2 >= job.count
           line == <<Fetch(v, v.i), IF v.i < LastWord THEN Fetch(v, v.i + 1) ELSE Zero>>
           x    == [line |-> line, last |-> last]
<1>1. /\ sw.state = "SEND_WRITE_DATA" /\ Len(fifo.mpiData) < Depth
      /\ fifo' = [fifo EXCEPT !["mpiData"] = Append(@, x)]
      /\ sw' = [v EXCEPT !.i = @ + 2, !.state = IF last THEN "SEND_FINISH" ELSE @]
      /\ UNCHANGED <<job, enq>>
  BY DEF SendWriteData, Room, Put
<1>2. fifo'.mpiData = Append(fifo.mpiData, x)
  BY <1>1 DEF Lossless, Streamed
<1>3. /\ v = [state |-> sw.state, i |-> sw.i, start |-> v.start, copied |-> v.copied,
             words |-> v.words]
      /\ Buffers(v)
      /\ job.sendDram => v.start <= sw.i /\ (sw.i < v.copied \/ job.count = 0)
  BY <1>1, LoadedBuffer
<1>4. line = LineAt(job.count, w)
  BY <1>1, LineWritten
<1>5. /\ w \in Nat /\ w >= 1 /\ w <= Final(job.count) /\ sw.i = 2 * (w - 1) /\ sw.i \in Nat
      /\ sw.i % 2 = 0
  BY <1>1, AtLine
<1>6. /\ job.count \in Nat /\ Final(job.count) \in Nat /\ 2 * Final(job.count) >= job.count
      /\ job.count > 0 => 2 * Final(job.count) <= job.count + 1
      /\ job.count = 0 => Final(job.count) = 1
      /\ Window \in Nat /\ Window % 2 = 0
  BY CountType, WindowIsEven
<1> HIDE DEF v, line
<1>7. last = (w >= Final(job.count))
  <2>1. v.i = 2 * (w - 1)
    BY <1>3, <1>5
  <2> QED BY <1>5, <1>6, <2>1
<1>8. /\ sw' = [state |-> sw'.state, i |-> sw'.i, start |-> sw'.start, copied |-> sw'.copied,
               words |-> sw'.words]
      /\ sw'.i = sw.i + 2 /\ sw'.start = v.start /\ sw'.copied = v.copied /\ sw'.words = v.words
      /\ sw'.state = IF last THEN "SEND_FINISH" ELSE "SEND_WRITE_DATA"
  <2>1. v = [state |-> sw.state, i |-> sw.i, start |-> v.start, copied |-> v.copied,
             words |-> v.words]
    BY <1>3
  <2>2. sw' = [v EXCEPT !.i = @ + 2, !.state = IF last THEN "SEND_FINISH" ELSE @]
    BY <1>1
  <2> HIDE DEF last
  <2>3. sw' = [state |-> sw'.state, i |-> sw'.i, start |-> sw'.start, copied |-> sw'.copied,
               words |-> sw'.words]
    BY <2>1, <2>2
  <2>4. /\ sw'.i = sw.i + 2 /\ sw'.start = v.start /\ sw'.copied = v.copied
        /\ sw'.words = v.words
    BY <2>1, <2>2
  <2>5. sw'.state = IF last THEN "SEND_FINISH" ELSE "SEND_WRITE_DATA"
    BY <1>1, <2>1, <2>2
  <2> QED BY <2>3, <2>4, <2>5
<1>9. Sending(w + 1)'
  <2>1. w + 1 \in 1 .. Final(job.count) + 1 /\ sw'.i = 2 * ((w + 1) - 1)
    BY <1>5, <1>6, <1>8
  <2>2. sw'.state = "SEND_WRITE_DATA" <=> w + 1 <= Final(job.count)
    <3>1. CASE last
      BY <1>5, <1>6, <1>7, <1>8, <3>1
    <3>2. CASE ~last
      BY <1>5, <1>6, <1>7, <1>8, <3>2
    <3> QED BY <3>1, <3>2
  <2> QED BY <1>1, <1>8, <2>1, <2>2 DEF Sending
<1>10. Buffered'
  <2>1. Buffers(sw)'
    BY <1>1, <1>3, <1>8 DEF Buffers, Filled, SmallMessage
  <2>2. ASSUME job.sendDram, ~last PROVE sw'.start <= sw'.i /\ sw'.i <= sw'.copied
    <3>1. v.copied = Lesser(v.start + Window, job.count) /\ v.start \in Nat /\ v.start % 2 = 0
      BY <1>3, <2>2 DEF Buffers
    <3>2. v.start <= sw.i /\ sw.i < v.copied /\ sw.i + 2 <= job.count
      <4>1. w < Final(job.count)
        BY <1>5, <1>6, <1>7, <2>2
      <4>2. job.count > 0 /\ sw.i + 2 <= job.count
        BY <1>5, <1>6, <4>1
      <4> QED BY <1>3, <2>2, <4>2
    <3>3. v.copied \in Nat /\ v.copied <= v.start + Window
      BY <1>6, <3>1 DEF Lesser
    <3>4. sw.i + 2 <= v.start + Window
      <4>1. sw.i < v.start + Window
        BY <1>5, <1>6, <3>1, <3>2, <3>3
      <4> QED BY <1>5, <1>6, <3>1, <4>1
    <3>5. sw.i + 2 <= v.copied
      BY <1>5, <1>6, <3>1, <3>2, <3>4 DEF Lesser
    <3> QED BY <1>5, <1>8, <3>1, <3>2, <3>5
  <2> QED BY <1>1, <1>8, <2>1, <2>2 DEF Buffered
<1>11. ToBeats(w + 1, e)'
  <2>1. Carries(fifo.mpiData, LineSteps(job.count), Joined(e), w) /\ IsSeq(fifo.mpiData)
        /\ Len(fifo.mpiData) \in Nat
    BY CarriesRange DEF ToBeats
  <2>2. <<x, w, w + 1>> \in LineSteps(job.count)
    BY <1>4, <1>5, <1>6, <1>7, LineStep
  <2> HIDE DEF x
  <2>3. Carries(Append(fifo.mpiData, x), LineSteps(job.count), Joined(e), w + 1)
    BY <2>1, <2>2, CarriesPut
  <2>4. Len(Append(fifo.mpiData, x)) <= Depth
    BY <1>1, <2>1, AppendAny, DataPathAssumption
  <2>5. Joining(e)' /\ Joined(e)' = Joined(e)
    BY <1>1 DEF ToBeats, Joining, Joined
  <2> QED BY <1>1, <1>2, <2>3, <2>4, <2>5 DEF ToBeats
<1>12. sw.state # "SEND_DONE" /\ sw'.state # "SEND_DONE"
  BY <1>1, <1>8
<1> QED BY <1>9, <1>10, <1>11, <1>12 DEF FromWrapper

(* MPI_Send returns. *)
LEMMA SendFinishStep ==
  ASSUME Lossless, Answers, NEW w \in Int, FromWrapper(w), SendFinish
  PROVE  FromWrapper(w)' /\ Answers'
<1>1. /\ sw.state = "SEND_FINISH" /\ se.state = "IDLE"
      /\ fifo.sendFeedback = <<"OK">> /\ Head(fifo.sendFeedback) = "OK"
      /\ Tail(fifo.sendFeedback) = << >>
  BY DEF SendFinish, Answers
<1>2. /\ sw' = [sw EXCEPT !.state = "SEND_DONE"] /\ UNCHANGED <<job, se, re, rw>>
      /\ fifo' = [fifo EXCEPT !.sendFeedback = Tail(@)]
  BY <1>1 DEF SendFinish
<1>3. fifo'.sendFeedback = << >> /\ fifo'.ack = fifo.ack /\ fifo'.recvFeedback = fifo.recvFeedback
  BY <1>1, <1>2 DEF Lossless, Streamed
<1>4. sw' = [state |-> "SEND_DONE", i |-> sw.i, start |-> sw.start, copied |-> sw.copied,
             words |-> sw.words]
  BY <1>2 DEF FromWrapper, Sending
<1>5. Sending(w)'
  BY <1>1, <1>2, <1>4 DEF FromWrapper, Sending
<1>6. Buffered'
  BY <1>2, <1>4 DEF FromWrapper, Buffered, Buffers, Filled, SmallMessage
<1>7. Answers'
  BY <1>1, <1>2, <1>3, <1>4 DEF Answers
<1> QED BY <1>5, <1>6, <1>7 DEF FromWrapper

(* pEnqMpiData *)
LEMMA EnqMpiDataStep ==
  ASSUME Lossless, NEW w \in Int, NEW e \in Int, NEW r \in Int, ToBeats(w, e), ToEngine(e, r),
         EnqMpiData
  PROVE  \E d \in Int : ToBeats(w, d)' /\ ToEngine(d, r)'
<1> DEFINE c == job.count
           F == Final(job.count)
           x == Head(fifo.mpiData)
           beat == IF enq.state = "DEQ_WRITE" THEN [lines |-> <<x.line>>, last |-> TRUE]
                   ELSE [lines |-> <<enq.first, x.line>>, last |-> x.last]
<1>0. /\ c \in Counts /\ F \in Nat /\ F >= 1 /\ Depth \in Nat /\ UNCHANGED <<job, se>>
      /\ c' = c /\ F' = F /\ Joining(e) /\ Reading(r)
      /\ fifo.mpiData # << >> /\ Len(fifo.mpiIn) < Depth
  BY CountType, DataPathAssumption DEF EnqMpiData, Some, Room, ToBeats, ToEngine
<1>1. /\ Carries(fifo.mpiData, LineSteps(c), Joined(e), w) /\ Len(fifo.mpiData) <= Depth
      /\ Carries(fifo.mpiIn, BeatSteps(c), r, e)
  BY DEF ToBeats, ToEngine
<1>2. PICK b \in Int : /\ <<x, Joined(e), b>> \in LineSteps(c) /\ b <= w
                       /\ Carries(Tail(fifo.mpiData), LineSteps(c), b, w)
  BY <1>0, <1>1, CarriesTake
<1>3. /\ Joined(e) \in 1 .. F /\ b = Joined(e) + 1
      /\ x.line = LineAt(c, Joined(e)) /\ x.last = (Joined(e) >= F)
  BY <1>2, LineStep
<1>4. /\ Len(Tail(fifo.mpiData)) <= Depth
  <2>1. PICK S : fifo.mpiData \in Seq(S)
    BY <1>1, CarriesRange DEF IsSeq
  <2> QED BY <1>0, <1>1, <2>1, HeadTailProperties, LenProperties
<1>5. IsSeq(fifo.mpiIn) /\ Len(fifo.mpiIn) \in Nat /\ r <= e
  BY <1>1, CarriesRange
<1>6. /\ enq = [state |-> enq.state, first |-> enq.first]
      /\ enq.state \in {"DEQ_WRITE", "DEQ_WRITE_2"} /\ enq.first \in Line
      /\ e \in 1 .. F + 1
      /\ e % 2 = 1 \/ e = F + 1
      /\ enq.state = "DEQ_WRITE_2" => enq.first = LineAt(c, e) /\ e < F
  BY <1>0 DEF Joining
<1> HIDE DEF c, F, x
<1>7. CASE enq.state = "DEQ_WRITE" /\ ~x.last
  <2>1. /\ fifo' = [fifo EXCEPT !.mpiData = Tail(@)]
        /\ enq' = [state |-> "DEQ_WRITE_2", first |-> x.line]
    BY <1>7 DEF EnqMpiData, x
  <2>2. fifo'.mpiData = Tail(fifo.mpiData) /\ fifo'.mpiIn = fifo.mpiIn
    BY <2>1 DEF Lossless, Streamed
  <2>3. Joined(e) = e /\ Joined(e)' = e + 1 /\ e < F /\ e % 2 = 1
    <3>1. Joined(e) = e /\ Joined(e)' = e + 1
      BY <1>7, <2>1 DEF Joined
    <3>2. ~(e >= F)
      BY <1>3, <1>7, <3>1
    <3> QED BY <1>0, <1>6, <3>1, <3>2
  <2>4. Joining(e)'
    <3>1. x.line \in Line
      BY <1>0, <1>3, <1>6, <2>3, LineType
    <3> QED BY <1>0, <1>3, <1>6, <2>1, <2>3, <3>1 DEF Joining, c, F
  <2>5. ToBeats(w, e)'
    BY <1>0, <1>2, <1>3, <1>4, <2>2, <2>3, <2>4 DEF ToBeats, c
  <2>6. ToEngine(e, r)'
    BY <1>0, <1>1, <2>2 DEF ToEngine, Reading, c
  <2> QED BY <2>5, <2>6
<1>8. CASE enq.state = "DEQ_WRITE_2" \/ x.last
  <2>1. /\ fifo' = [fifo EXCEPT !["mpiData"] = Tail(@), !["mpiIn"] = Append(@, beat)]
        /\ enq'.state = "DEQ_WRITE" /\ enq'.first = enq.first
        /\ enq' = [state |-> enq'.state, first |-> enq'.first]
    BY <1>6, <1>8 DEF EnqMpiData, Move, x
  <2>2. fifo'.mpiData = Tail(fifo.mpiData) /\ fifo'.mpiIn = Append(fifo.mpiIn, beat)
    BY <2>1 DEF Lossless, Streamed
  <2>3. <<beat, e, b>> \in BeatSteps(c) /\ (b % 2 = 1 \/ b = F + 1) /\ e <= b /\ b \in 1 .. F + 1
    <3>1. CASE enq.state = "DEQ_WRITE_2"
      <4>1. Joined(e) = e + 1 /\ b = e + 2 /\ e % 2 = 1 /\ e < F
        BY <1>0, <1>3, <1>6, <3>1 DEF Joined
      <4>2. beat = TwoLines(c, e, e + 1 >= F)
        BY <1>3, <1>6, <3>1, <4>1 DEF TwoLines
      <4>3. e \in -3 .. F - 1 /\ b % 2 = 1 /\ b \in 1 .. F + 1
        BY SMTT(30), <1>0, <1>6, <4>1
      <4>5. (e + 4) % 2 = 1
        BY <1>6, <4>1
      <4>4. <<beat, e, e + 2>> \in BeatSteps(c)
        BY <4>1, <4>2, <4>3, <4>5, BeatStep DEF F, c
      <4> QED BY <1>6, <4>1, <4>3, <4>4
    <3>2. CASE enq.state = "DEQ_WRITE"
      <4>1. Joined(e) = e /\ b = e + 1 /\ e = F /\ e % 2 = 1
        <5>1. Joined(e) = e
          BY <3>2 DEF Joined
        <5>2. e >= F
          BY <1>3, <1>8, <3>2, <5>1
        <5> QED BY <1>0, <1>3, <1>6, <5>1, <5>2
      <4>2. beat = OneLine(c, e, TRUE)
        BY <1>3, <3>2, <4>1 DEF OneLine
      <4>4. (e + 4) % 2 = 1
        BY <1>6, <4>1
      <4>3. <<beat, e, e + 1>> \in BeatSteps(c)
        BY <4>1, <4>2, <4>4, BeatStep DEF F, c
      <4> QED BY <1>0, <1>6, <4>1, <4>3
    <3> QED BY <1>6, <3>1, <3>2
  <2> HIDE DEF beat
  <2>4. Carries(Append(fifo.mpiIn, beat), BeatSteps(c), r, b)
    BY <1>1, <2>3, CarriesPut
  <2>5. Len(Append(fifo.mpiIn, beat)) <= Depth
    BY <1>0, <1>5, AppendAny
  <2>6. Joined(b)' = b
    BY <2>1 DEF Joined
  <2>7. Joining(b)'
    BY <1>0, <1>6, <2>1, <2>3 DEF Joining, c, F
  <2>8. ToBeats(w, b)'
    BY <1>0, <1>2, <1>4, <2>2, <2>6, <2>7 DEF ToBeats, c
  <2>9. ToEngine(b, r)'
    BY <1>0, <2>2, <2>4, <2>5 DEF ToEngine, Reading, c
  <2> QED BY <2>8, <2>9
<1> QED BY <1>6, <1>7, <1>8

(* pMpeGlobal of the sender *)
LEMMA SendDataStartStep ==
  ASSUME Lossless, Answers, NEW e \in Int, NEW r \in Int, NEW q \in Int,
         ToEngine(e, r), ToPackets(r, q), SendDataStart
  PROVE  ToEngine(e, r)' /\ ToPackets(r, q)' /\ Answers'
<1>1. /\ se.state = "SEND_DATA_START" /\ Len(fifo.tx) < Depth /\ UNCHANGED <<job, sw, dq, re, rw>>
      /\ fifo' = [fifo EXCEPT !.tx = Append(@, HeaderBeats[1]), !.destId = @ + 1]
      /\ se' = [se EXCEPT !.state = "SEND_DATA_START_1", !.total = 0]
  BY DEF SendDataStart, Room
<1>2. /\ fifo'.tx = Append(fifo.tx, HeaderBeats[1]) /\ fifo'.destId = fifo.destId + 1
      /\ fifo'.mpiIn = fifo.mpiIn /\ fifo'.sendDone = fifo.sendDone
      /\ fifo'.ack = fifo.ack /\ fifo'.sendFeedback = fifo.sendFeedback
      /\ fifo'.recvFeedback = fifo.recvFeedback
  BY <1>1 DEF Lossless, Streamed
<1>3. Reading(r) /\ Splitting(q) /\ SenderFlags(q) /\ r = 1 /\ q = -3 /\ dq.state = "DEQ_IDLE"
  BY <1>1 DEF ToEngine, ToPackets, Reading, SenderFlags
<1>4. /\ se' = [state |-> se'.state, total |-> se'.total, inc |-> se'.inc, timer |-> se'.timer]
      /\ se'.state = "SEND_DATA_START_1" /\ se'.total = 0 /\ se'.inc = 0 /\ se'.timer = "running"
  BY <1>1, <1>3 DEF Reading
<1>5. Final(job.count) \in Nat /\ Final(job.count) >= 1 /\ Depth \in Nat
  BY CountType, DataPathAssumption
<1>6. ToEngine(e, r)'
  <2>1. Reading(r)'
    BY <1>1, <1>3, <1>4, <1>5 DEF Reading
  <2> QED BY <1>1, <1>2, <2>1 DEF ToEngine
<1>7. ToPackets(r, q)'
  <2>1. Carries(fifo.tx, BeatSteps(job.count), -3, -3)
    BY <1>1, <1>3 DEF ToPackets, SentTo
  <2>2. <<HeaderBeats[1], -3, -1>> \in BeatSteps(job.count)
    BY HeaderSteps, CountType
  <2>3. Carries(fifo'.tx, BeatSteps(job.count), -3, -1)
    BY <1>2, <2>1, <2>2, CarriesPut
  <2>4. Len(fifo'.tx) <= Depth
    BY <1>1, <1>2, <1>5, <2>1, AppendAny, CarriesRange
  <2>5. SentTo(r)' = -1
    BY <1>4 DEF SentTo
  <2>6. Splitting(q)'
    BY <1>1, <1>3 DEF Splitting, Packed, Emitted, Kept
  <2>7. SenderFlags(q)'
    BY <1>1, <1>2, <1>3, <1>4, <1>5 DEF SenderFlags
  <2> QED BY <1>1, <1>3, <2>3, <2>4, <2>5, <2>6, <2>7 DEF ToPackets
<1>8. Answers'
  BY <1>1, <1>2, <1>4 DEF Answers
<1> QED BY <1>6, <1>7, <1>8

(* The second beat of the header. *)
LEMMA SendDataStart1Step ==
  ASSUME Lossless, Answers, NEW e \in Int, NEW r \in Int, NEW q \in Int,
         ToEngine(e, r), ToPackets(r, q), SendDataStart1
  PROVE  ToEngine(e, r)' /\ ToPackets(r, q)' /\ Answers'
<1>1. /\ se.state = "SEND_DATA_START_1" /\ Len(fifo.tx) < Depth /\ UNCHANGED <<job, sw, dq, re, rw>>
      /\ fifo' = [fifo EXCEPT !["tx"] = Append(@, HeaderBeats[2])]
      /\ se' = [se EXCEPT !.state = "SEND_DATA_RD"]
  BY DEF SendDataStart1, Room, Put
<1>2. /\ fifo'.tx = Append(fifo.tx, HeaderBeats[2]) /\ fifo'.destId = fifo.destId
      /\ fifo'.mpiIn = fifo.mpiIn /\ fifo'.sendDone = fifo.sendDone
      /\ fifo'.ack = fifo.ack /\ fifo'.sendFeedback = fifo.sendFeedback
      /\ fifo'.recvFeedback = fifo.recvFeedback
  BY <1>1 DEF Lossless, Streamed
<1>3. Reading(r) /\ Splitting(q) /\ SenderFlags(q) /\ r = 1
  BY <1>1 DEF ToEngine, ToPackets, Reading
<1>4. /\ se' = [state |-> se'.state, total |-> se'.total, inc |-> se'.inc, timer |-> se'.timer]
      /\ se'.state = "SEND_DATA_RD" /\ se'.total = se.total /\ se'.inc = 0 /\ se'.timer = "running"
  BY <1>1, <1>3 DEF Reading
<1>5. Final(job.count) \in Nat /\ Final(job.count) >= 1 /\ Depth \in Nat
  BY CountType, DataPathAssumption
<1>6. ToEngine(e, r)'
  <2>1. Reading(r)'
    BY <1>1, <1>3, <1>4, <1>5 DEF Reading
  <2> QED BY <1>1, <1>2, <2>1 DEF ToEngine
<1>7. ToPackets(r, q)'
  <2>1. Carries(fifo.tx, BeatSteps(job.count), q, -1)
    BY <1>1, <1>3 DEF ToPackets, SentTo
  <2>2. <<HeaderBeats[2], -1, 1>> \in BeatSteps(job.count)
    BY HeaderSteps, CountType
  <2>3. Carries(fifo'.tx, BeatSteps(job.count), q, 1)
    BY <1>2, <2>1, <2>2, CarriesPut
  <2>4. Len(fifo'.tx) <= Depth
    BY <1>1, <1>2, <1>5, <2>1, AppendAny, CarriesRange
  <2>5. SentTo(r)' = 1
    BY <1>3, <1>4 DEF SentTo
  <2>6. Splitting(q)'
    BY <1>1, <1>3 DEF Splitting, Packed, Emitted, Kept
  <2>7. SenderFlags(q)'
    BY <1>1, <1>2, <1>3, <1>4, <1>5 DEF SenderFlags
  <2> QED BY <1>1, <1>3, <2>3, <2>4, <2>5, <2>6, <2>7 DEF ToPackets
<1>8. Answers'
  BY <1>1, <1>2, <1>4 DEF Answers
<1> QED BY <1>6, <1>7, <1>8

(* A beat of the data; the end is found by counting words. *)
LEMMA SendDataRdStep ==
  ASSUME Lossless, Answers, NEW e \in Int, NEW r \in Int, NEW q \in Int,
         ToEngine(e, r), ToPackets(r, q), SendDataRd
  PROVE  \E d \in Int : ToEngine(e, d)' /\ ToPackets(d, q)' /\ Answers'
<1> DEFINE c == job.count
           F == Final(job.count)
           b == Head(fifo.mpiIn)
           total == se.total + WordCnt(b)
           last == total >= job.count
           x == [b EXCEPT !.last = last]
<1>0. /\ se.state = "SEND_DATA_RD" /\ Len(fifo.tx) < Depth /\ UNCHANGED <<job, sw, dq, re, rw>>
      /\ fifo.mpiIn # << >>
      /\ fifo' = [fifo EXCEPT !["mpiIn"] = Tail(@), !["tx"] = Append(@, x)]
      /\ se' = [se EXCEPT !.total = total, !.state = IF last THEN "SEND_DATA_WRD" ELSE @]
  BY DEF SendDataRd, Room, Some, Move
<1>1. /\ fifo'.tx = Append(fifo.tx, x) /\ fifo'.destId = fifo.destId
      /\ fifo'.mpiIn = Tail(fifo.mpiIn) /\ fifo'.sendDone = fifo.sendDone
      /\ fifo'.ack = fifo.ack /\ fifo'.sendFeedback = fifo.sendFeedback
      /\ fifo'.recvFeedback = fifo.recvFeedback
  BY <1>0 DEF Lossless, Streamed
<1>2. Reading(r) /\ Splitting(q) /\ SenderFlags(q)
  BY DEF ToEngine, ToPackets
<1>3. /\ F \in Nat /\ F >= 1 /\ Depth \in Nat /\ c \in Nat
      /\ 2 * F >= c /\ (c > 0 => 2 * F <= c + 1) /\ (c = 0 => F = 1)
      /\ c' = c
  BY <1>0, CountType, DataPathAssumption
<1>4. /\ se = [state |-> se.state, total |-> se.total, inc |-> se.inc, timer |-> se.timer]
      /\ se.inc = 0 /\ se.timer = "running"
      /\ r \in 1 .. F + 1 /\ se.total = 2 * (r - 1) /\ r # F + 1
  BY <1>0, <1>2 DEF Reading
<1>5. PICK d \in Int : /\ <<b, r, d>> \in BeatSteps(c) /\ r <= d /\ d <= e
                       /\ Carries(Tail(fifo.mpiIn), BeatSteps(c), d, e)
  BY <1>0, CarriesTake DEF ToEngine
<1>6. Len(fifo'.mpiIn) <= Depth
  <2>1. IsSeq(fifo.mpiIn) /\ Len(fifo.mpiIn) <= Depth
    BY CarriesRange DEF ToEngine
  <2> QED BY <1>0, <1>1, <1>3, <2>1, TailFits
<1>7. /\ d \in 2 .. F + 1 /\ WordCnt(b) = 2 * (d - r)
      /\ b = [lines |-> b.lines, last |-> b.last] /\ b.last = (d > F)
  <2>1. \/ /\ r \in -3 .. F - 1 /\ d = r + 2 /\ b = TwoLines(c, r, r + 1 >= F)
        \/ r = F /\ d = r + 1 /\ b = OneLine(c, r, TRUE)
    BY <1>5, BeatStep DEF F
  <2> HIDE DEF F, c, b
  <2>2. CASE r \in -3 .. F - 1 /\ d = r + 2 /\ b = TwoLines(c, r, r + 1 >= F)
    <3>1. b = [lines |-> <<LineAt(c, r), LineAt(c, r + 1)>>, last |-> (r + 1 >= F)]
      BY <2>2 DEF TwoLines
    <3>2. Len(b.lines) = 2 /\ b = [lines |-> b.lines, last |-> b.last]
      BY <3>1
    <3>3. b.last = (d > F)
      BY <1>3, <1>4, <2>2, <3>1
    <3>4. d \in 2 .. F + 1 /\ 2 * 2 = 2 * (d - r)
      BY <1>3, <1>4, <2>2
    <3> QED BY <3>2, <3>3, <3>4 DEF WordCnt
  <2>3. CASE r = F /\ d = r + 1 /\ b = OneLine(c, r, TRUE)
    <3>1. b = [lines |-> <<LineAt(c, r)>>, last |-> TRUE]
      BY <2>3 DEF OneLine
    <3>2. Len(b.lines) = 1 /\ b = [lines |-> b.lines, last |-> b.last]
      BY <3>1
    <3>3. b.last = (d > F)
      <4>1. d > F
        BY <1>3, <2>3
      <4>2. b.last = TRUE
        BY <3>1
      <4> QED BY <4>1, <4>2
    <3>4. d \in 2 .. F + 1 /\ 2 * 1 = 2 * (d - r)
      BY <1>3, <1>4, <2>3
    <3> QED BY <3>2, <3>3, <3>4 DEF WordCnt
  <2> QED BY <2>1, <2>2, <2>3
<1> HIDE DEF F, c, b
<1>8. total = 2 * (d - 1) /\ (last <=> d > F) /\ (d > F <=> d = F + 1)
  <2>1. total = 2 * (d - 1)
    BY <1>4, <1>7
  <2>2. d > F <=> 2 * (d - 1) >= c
    BY <1>3, <1>7
  <2> QED BY <1>3, <1>7, <2>1, <2>2 DEF c
<1>9. x = b
  <2>1. last = b.last
    BY <1>7, <1>8
  <2>2. x = [b EXCEPT !.last = b.last]
    BY <2>1
  <2> QED BY <1>7, <2>2
<1> HIDE DEF x, total
<1>10. /\ se' = [state |-> se'.state, total |-> se'.total, inc |-> se'.inc, timer |-> se'.timer]
       /\ se'.total = 2 * (d - 1) /\ se'.inc = 0 /\ se'.timer = "running"
       /\ se'.state = IF d = F + 1 THEN "SEND_DATA_WRD" ELSE "SEND_DATA_RD"
  <2>1. se' = [se EXCEPT !.total = 2 * (d - 1),
                         !.state = IF d = F + 1 THEN "SEND_DATA_WRD" ELSE @]
    BY <1>0, <1>8
  <2>2. se' = [state |-> se'.state, total |-> se'.total, inc |-> se'.inc, timer |-> se'.timer]
    BY <1>4, <2>1
  <2>3. /\ se'.total = 2 * (d - 1) /\ se'.inc = 0 /\ se'.timer = "running"
        /\ se'.state = IF d = F + 1 THEN "SEND_DATA_WRD" ELSE "SEND_DATA_RD"
    BY <1>0, <1>4, <2>1
  <2> QED BY <2>2, <2>3
<1>11. ToEngine(e, d)'
  <2>1. Reading(d)'
    <3>1. d \in 1 .. F + 1 /\ job' = job
      BY <1>0, <1>3, <1>7
    <3> QED BY <1>10, <3>1 DEF Reading, F
  <2> QED BY <1>0, <1>1, <1>5, <1>6, <2>1 DEF ToEngine, c
<1>12. ToPackets(d, q)'
  <2>1. Carries(fifo.tx, BeatSteps(c), q, r) /\ q <= r /\ IsSeq(fifo.tx)
    BY <1>0, CarriesRange DEF ToPackets, SentTo, c
  <2>2. Carries(fifo'.tx, BeatSteps(c), q, d)
    BY <1>1, <1>5, <1>9, <2>1, CarriesPut
  <2>3. Len(fifo'.tx) <= Depth
    BY <1>0, <1>1, <1>3, <2>1, AppendAny
  <2>4. SentTo(d)' = d
    BY <1>10 DEF SentTo
  <2>5. Splitting(q)'
    BY <1>0, <1>2 DEF Splitting, Packed, Emitted, Kept
  <2>6. q # F + 1
    BY <1>3, <1>4, <2>1
  <2>7. SenderFlags(q)'
    <3>1. /\ se.state = "SEND_DATA_RD" /\ se'.state \in {"SEND_DATA_WRD", "SEND_DATA_RD"}
          /\ dq' = dq /\ job' = job
          /\ fifo'.destId = fifo.destId /\ fifo'.sendDone = fifo.sendDone
      BY <1>0, <1>1, <1>10
    <3>2. /\ fifo.destId = IF dq.state = "DEQ_IDLE" /\ q = -3 THEN 1 ELSE 0
          /\ fifo.sendDone = 0
      BY <1>2, <3>1 DEF SenderFlags
    <3> QED BY <2>6, <3>1, <3>2 DEF SenderFlags, F
  <2> QED BY <1>3, <2>2, <2>3, <2>4, <2>5, <2>7 DEF ToPackets, c
<1>13. Answers'
  BY <1>0, <1>1, <1>10 DEF Answers
<1> QED BY <1>11, <1>12, <1>13

(* pDeqSend says that it is done. *)
LEMMA SendDataWrdStep ==
  ASSUME Lossless, Answers, NEW e \in Int, NEW r \in Int, NEW q \in Int,
         ToEngine(e, r), ToPackets(r, q), SendDataWrd
  PROVE  ToEngine(e, r)' /\ ToPackets(r, q)' /\ Answers'
<1>1. /\ se.state = "SEND_DATA_WRD" /\ fifo.sendDone > 0 /\ UNCHANGED <<job, sw, dq, re, rw>>
      /\ fifo' = [fifo EXCEPT !.sendDone = @ - 1]
      /\ se' = [se EXCEPT !.state = "WAIT4ACK"]
  BY DEF SendDataWrd
<1>2. /\ fifo'.tx = fifo.tx /\ fifo'.destId = fifo.destId
      /\ fifo'.mpiIn = fifo.mpiIn /\ fifo'.sendDone = fifo.sendDone - 1
      /\ fifo'.ack = fifo.ack /\ fifo'.sendFeedback = fifo.sendFeedback
      /\ fifo'.recvFeedback = fifo.recvFeedback
  BY <1>1 DEF Lossless, Streamed
<1>3. Reading(r) /\ Splitting(q) /\ SenderFlags(q)
  BY DEF ToEngine, ToPackets
<1>4. /\ se' = [state |-> se'.state, total |-> se'.total, inc |-> se'.inc, timer |-> se'.timer]
      /\ se'.state = "WAIT4ACK" /\ se'.total = se.total /\ se'.inc = 0 /\ se'.timer = "running"
  BY <1>1, <1>3 DEF Reading
<1>5. Final(job.count) \in Nat /\ Final(job.count) >= 1
  BY CountType
<1>6. /\ dq.state = "DEQ_IDLE" /\ q = Final(job.count) + 1 /\ fifo.sendDone = 1
      /\ r = Final(job.count) + 1
  BY <1>1, <1>3 DEF SenderFlags, Reading
<1>7. ToEngine(e, r)'
  <2>1. Reading(r)'
    BY <1>1, <1>3, <1>4, <1>6 DEF Reading
  <2> QED BY <1>1, <1>2, <2>1 DEF ToEngine
<1>8. ToPackets(r, q)'
  <2>1. SentTo(r)' = SentTo(r)
    BY <1>1, <1>4 DEF SentTo
  <2>2. Splitting(q)'
    BY <1>1, <1>3 DEF Splitting, Packed, Emitted, Kept
  <2>3. SenderFlags(q)'
    BY <1>1, <1>2, <1>3, <1>4, <1>5, <1>6 DEF SenderFlags
  <2> QED BY <1>1, <1>2, <2>1, <2>2, <2>3 DEF ToPackets
<1>9. Answers'
  BY <1>1, <1>2, <1>4 DEF Answers
<1> QED BY <1>7, <1>8, <1>9

(* The acknowledgement. *)
LEMMA Wait4AckStep ==
  ASSUME Lossless, Answers, NEW e \in Int, NEW r \in Int, NEW q \in Int,
         ToEngine(e, r), ToPackets(r, q), Wait4Ack
  PROVE  ToEngine(e, r)' /\ ToPackets(r, q)' /\ Answers'
<1>1. /\ se.state = "WAIT4ACK" /\ fifo.ack > 0 /\ UNCHANGED <<job, sw, dq, re, rw>>
      /\ fifo' = [fifo EXCEPT !.ack = @ - 1, !.sendFeedback = Append(@, "OK")]
      /\ se' = [se EXCEPT !.state = "IDLE"]
  BY DEF Wait4Ack
<1>2. /\ fifo'.tx = fifo.tx /\ fifo'.destId = fifo.destId
      /\ fifo'.mpiIn = fifo.mpiIn /\ fifo'.sendDone = fifo.sendDone
      /\ fifo'.ack = fifo.ack - 1 /\ fifo'.sendFeedback = Append(fifo.sendFeedback, "OK")
      /\ fifo'.recvFeedback = fifo.recvFeedback
  BY <1>1 DEF Lossless, Streamed
<1>3. Reading(r) /\ Splitting(q) /\ SenderFlags(q)
  BY DEF ToEngine, ToPackets
<1>4. /\ se' = [state |-> se'.state, total |-> se'.total, inc |-> se'.inc, timer |-> se'.timer]
      /\ se'.state = "IDLE" /\ se'.total = se.total /\ se'.inc = 0 /\ se'.timer = "running"
  BY <1>1, <1>3 DEF Reading
<1>5. Final(job.count) \in Nat /\ Final(job.count) >= 1
  BY CountType
<1>6. /\ fifo.ack = 1 /\ re.state = "IDLE" /\ sw.state # "SEND_DONE" /\ fifo.sendFeedback = << >>
  BY <1>1 DEF Answers
<1>7. ToEngine(e, r)'
  <2>1. Reading(r)'
    BY <1>1, <1>3, <1>4 DEF Reading
  <2> QED BY <1>1, <1>2, <2>1 DEF ToEngine
<1>8. ToPackets(r, q)'
  <2>1. SentTo(r)' = SentTo(r)
    BY <1>1, <1>4 DEF SentTo
  <2>2. Splitting(q)'
    BY <1>1, <1>3 DEF Splitting, Packed, Emitted, Kept
  <2>3. SenderFlags(q)'
    BY <1>1, <1>2, <1>3, <1>4, <1>5 DEF SenderFlags
  <2> QED BY <1>1, <1>2, <2>1, <2>2, <2>3 DEF ToPackets
<1>9. Answers'
  BY <1>1, <1>2, <1>4, <1>6 DEF Answers
<1> QED BY <1>7, <1>8, <1>9

(* pDeqSend: the packet that it writes. *)
LEMMA PacketIs ==
  ASSUME Lossless, PacketInv, NEW q \in Int, Splitting(q)
  PROVE  /\ Emitted(q) \in Int /\ Packed(q) \in Int /\ Packed(q) >= -3
         /\ IsSeq(dq.packet) /\ Len(dq.packet) \in Nat /\ Packed(q) = Emitted(q) - Len(dq.packet)
         /\ Emitted(q) <= q /\ Emitted(q) >= q - 1 /\ Packed(q) <= Emitted(q)
         /\ dq.packet = LinesFrom(job.count, Packed(q), Emitted(q))
         /\ Append(dq.packet, LineAt(job.count, Emitted(q)))
              = LinesFrom(job.count, Packed(q), Emitted(q) + 1)
<1>1. IsSeq(dq.packet) /\ Len(dq.packet) \in Nat
  BY AppendAny DEF PacketInv, Counted
<1>2. Emitted(q) \in {q, q - 1}
  BY DEF Emitted
<1>3. Packed(q) = Emitted(q) - Len(dq.packet)
  BY DEF Packed
<1>4. dq.packet = LinesFrom(job.count, Packed(q), Emitted(q)) /\ Packed(q) >= -3
  BY DEF Splitting
<1>5. Emitted(q) \in Int /\ Packed(q) \in Int /\ Packed(q) <= Emitted(q)
  BY <1>1, <1>2, <1>3
<1>6. Append(LinesFrom(job.count, Packed(q), Emitted(q)), LineAt(job.count, Emitted(q)))
        = LinesFrom(job.count, Packed(q), Emitted(q) + 1)
  <2>1. job.count \in Counts
    BY CountType
  <2> QED BY <1>4, <1>5, <2>1, LinesPut
<1>7. Append(dq.packet, LineAt(job.count, Emitted(q)))
        = LinesFrom(job.count, Packed(q), Emitted(q) + 1)
  <2> DEFINE L == LinesFrom(job.count, Packed(q), Emitted(q))
             x == LineAt(job.count, Emitted(q))
             M == LinesFrom(job.count, Packed(q), Emitted(q) + 1)
  <2>1. Append(L, x) = M /\ dq.packet = L
    BY <1>4, <1>6
  <2> HIDE DEF L, x, M
  <2>2. Append(dq.packet, x) = M
    BY <2>1
  <2> QED BY <2>2 DEF x, M
<1>8. Emitted(q) <= q /\ Emitted(q) >= q - 1
  BY <1>2
<1> QED BY <1>1, <1>3, <1>4, <1>5, <1>7, <1>8

(* A line is added to the packet. *)
LEMMA PacketGoesOn ==
  ASSUME Lossless, PacketInv, NEW q \in Int, NEW z \in Int, NEW d \in Int,
         Splitting(q), ToReceiver(q, z), UNCHANGED <<job, tin>>,
         dq'.packet = Append(dq.packet, LineAt(job.count, Emitted(q))),
         net'.packets = net.packets, Emitted(d)' = Emitted(q) + 1
  PROVE  /\ dq'.packet = LinesFrom(job.count, Packed(d)', Emitted(d)') /\ Packed(d)' >= -3
         /\ ToReceiver(d, z)'
<1>1. /\ Emitted(q) \in Int /\ Packed(q) \in Int /\ Packed(q) >= -3 /\ Packed(q) <= Emitted(q)
      /\ IsSeq(dq.packet) /\ Len(dq.packet) \in Nat /\ Packed(q) = Emitted(q) - Len(dq.packet)
  BY PacketIs
<1>2. dq'.packet = LinesFrom(job.count, Packed(q), Emitted(q) + 1)
  BY PacketIs
<1>3. Len(dq'.packet) = Len(dq.packet) + 1
  BY <1>1, AppendAny
<1>4. Packed(d)' = Packed(q)
  <2>1. Packed(d)' = Emitted(d)' - Len(dq'.packet)
    BY DEF Packed
  <2> QED BY <1>1, <1>3, <2>1
<1>5. ToReceiver(d, z)'
  <2>1. Arriving(z)' /\ Carries(net.packets, PacketSteps(job.count), z, Packed(q))
    BY DEF ToReceiver, Arriving
  <2> QED BY <1>4, <2>1 DEF ToReceiver
<1> QED BY <1>1, <1>2, <1>4, <1>5

(* A line completes the packet. *)
LEMMA PacketEnds ==
  ASSUME Lossless, PacketInv, NEW q \in Int, NEW z \in Int, NEW d \in Int,
         Splitting(q), ToReceiver(q, z), UNCHANGED <<job, tin>>, dq'.packet = << >>,
         net'.packets = Append(net.packets, Append(dq.packet, LineAt(job.count, Emitted(q)))),
         Emitted(d)' = Emitted(q) + 1, Emitted(d)' \in 2 .. Final(job.count) + 1
  PROVE  /\ dq'.packet = LinesFrom(job.count, Packed(d)', Emitted(d)') /\ Packed(d)' >= -3
         /\ ToReceiver(d, z)'
<1> DEFINE c == job.count
           n == Emitted(q) + 1
<1>1. /\ Emitted(q) \in Int /\ Packed(q) \in Int /\ Packed(q) >= -3 /\ Packed(q) <= Emitted(q)
      /\ IsSeq(dq.packet) /\ Len(dq.packet) \in Nat /\ Packed(q) = Emitted(q) - Len(dq.packet)
      /\ Final(c) \in Nat
  <2>1. Final(c) \in Nat
    BY CountType
  <2> QED BY <2>1, PacketIs
<1>2. Append(dq.packet, LineAt(c, Emitted(q))) = LinesFrom(c, Packed(q), n)
  BY PacketIs
<1>3. Packed(d)' = n
  <2>1. Packed(d)' = Emitted(d)' - Len(dq'.packet)
    BY DEF Packed
  <2> QED BY <1>1, <2>1, EmptyIsSeq
<1>4. <<LinesFrom(c, Packed(q), n), Packed(q), n>> \in PacketSteps(c)
  <2>1. Packed(q) \in -3 .. Final(c) /\ n \in 2 .. Final(c) + 1 /\ Packed(q) < n
    BY SMTT(30), <1>1
  <2> QED BY <2>1, PacketStep
<1>5. Carries(net'.packets, PacketSteps(c), z, n)
  <2>1. Carries(net.packets, PacketSteps(c), z, Packed(q))
    BY DEF ToReceiver
  <2>2. n \in Int /\ Packed(q) <= n
    BY <1>1
  <2>3. net'.packets = Append(net.packets, LinesFrom(c, Packed(q), n))
    BY <1>2
  <2> HIDE DEF n, c
  <2> QED BY <1>4, <2>1, <2>2, <2>3, CarriesPut
<1>6. ToReceiver(d, z)'
  <2>1. Arriving(z)'
    <3>1. net'.packets # << >>
      <4>1. IsSeq(net.packets)
        BY CarriesRange DEF ToReceiver
      <4> QED BY <4>1, AppendAny
    <3> QED BY <3>1 DEF ToReceiver, Arriving
  <2> QED BY <1>3, <1>5, <2>1 DEF ToReceiver
<1>7. dq'.packet = LinesFrom(c, Packed(d)', Emitted(d)')
  <2>1. LinesFrom(c, n, n) = << >>
    BY <1>1, LinesNone
  <2> QED BY <1>3, <2>1
<1> QED BY SMTT(30), <1>1, <1>3, <1>6, <1>7

(* Nothing is said between pMpeGlobal and pDeqSend while a message is split. *)
LEMMA FlagsStay ==
  ASSUME NEW q, NEW d, SenderFlags(q), UNCHANGED <<se, fifo.destId, fifo.sendDone>>,
         dq.state # "DEQ_IDLE", dq'.state # "DEQ_IDLE"
  PROVE  SenderFlags(d)'
BY DEF SenderFlags

(* A beat on its way through the engine of the sender. *)
LEMMA BeatOf ==
  ASSUME NEW c \in Nat, NEW b, NEW a \in Int, NEW d \in Int, <<b, a, d>> \in BeatSteps(c)
  PROVE  /\ b.last \in BOOLEAN /\ (b.last <=> d = Final(c) + 1) /\ d \in -2 .. Final(c) + 1
         /\ \/ /\ a \in -3 .. Final(c) - 1 /\ d = a + 2
               /\ b.lines = <<LineAt(c, a), LineAt(c, a + 1)>>
            \/ a = Final(c) /\ d = a + 1 /\ b.lines = <<LineAt(c, a)>>
<1>1. Final(c) \in Nat /\ Final(c) >= 1
  BY FinalType
<1>2. \/ a \in -3 .. Final(c) - 1 /\ d = a + 2 /\ b = TwoLines(c, a, a + 1 >= Final(c))
      \/ a = Final(c) /\ d = a + 1 /\ b = OneLine(c, a, TRUE)
  BY BeatStep
<1>3. CASE a \in -3 .. Final(c) - 1 /\ d = a + 2 /\ b = TwoLines(c, a, a + 1 >= Final(c))
  <2>1. b = [lines |-> <<LineAt(c, a), LineAt(c, a + 1)>>, last |-> (a + 1 >= Final(c))]
    BY <1>3 DEF TwoLines
  <2>2. (a + 1 >= Final(c)) = (d = Final(c) + 1) /\ d \in -2 .. Final(c) + 1
    BY <1>1, <1>3
  <2>3. b.lines = <<LineAt(c, a), LineAt(c, a + 1)>>
    BY <2>1
  <2>4. b.last = (a + 1 >= Final(c))
    BY <2>1
  <2>5. b.last \in BOOLEAN /\ (b.last <=> d = Final(c) + 1)
    BY <2>2, <2>4
  <2> QED BY <1>3, <2>2, <2>3, <2>5
<1>4. CASE a = Final(c) /\ d = a + 1 /\ b = OneLine(c, a, TRUE)
  <2>1. b.lines = <<LineAt(c, a)>> /\ b.last = TRUE
    BY <1>4 DEF OneLine
  <2>2. d = Final(c) + 1 /\ d \in -2 .. Final(c) + 1
    BY <1>1, <1>4
  <2> QED BY <1>4, <2>1, <2>2
<1> QED BY <1>2, <1>3, <1>4

(* pDeqSend takes a beat and writes its first line. *)
LEMMA FirstLineStep ==
  ASSUME Lossless, PacketInv, NEW r \in Int, NEW q \in Int, NEW z \in Int,
         ToPackets(r, q), ToReceiver(q, z),
         dq.state = "DEQ_WRITE" \/ (dq.state = "DEQ_START" /\ ~dq.startWithSecond),
         fifo.tx # << >>, FirstLine(Head(fifo.tx)),
         fifo' = [fifo EXCEPT !.tx = Tail(@)], UNCHANGED <<job, se, tin>>
  PROVE  \E d \in Int : ToPackets(r, d)' /\ ToReceiver(d, z)'
<1> DEFINE c == job.count
           F == Final(job.count)
           b == Head(fifo.tx)
           regs == [dq EXCEPT !.second = Second(b), !.goToDone = b.last]
<1>0. /\ Registers /\ Counted /\ Splitting(q) /\ SenderFlags(q) /\ c' = c /\ c \in Counts
      /\ F \in Nat /\ F >= 1 /\ Depth \in Nat /\ MaxLines \in Nat /\ MaxLines > 4
      /\ ~Kept /\ Emitted(q) = q /\ q \in -3 .. F /\ ~dq.startWithSecond /\ c \in Nat
      /\ dq.state \in {"DEQ_START", "DEQ_WRITE"}
  <2>1. /\ c \in Counts /\ F \in Nat /\ F >= 1 /\ Depth \in Nat /\ c \in Nat
        /\ MaxLines \in Nat /\ MaxLines > 4
    BY CountType, DataPathAssumption
  <2>2. Registers /\ Counted /\ Splitting(q) /\ SenderFlags(q) /\ c' = c
    BY DEF PacketInv, ToPackets
  <2>3. dq.startWithSecond => dq.state = "DEQ_START"
    BY <2>2 DEF Splitting
  <2>4. ~dq.startWithSecond /\ dq.state \in {"DEQ_START", "DEQ_WRITE"}
    BY <2>3
  <2>5. ~Kept /\ Emitted(q) = q
    BY <2>4 DEF Kept, Emitted
  <2>6. q \in -3 .. F + 1 /\ q <= F
    BY <2>2, <2>4 DEF Splitting
  <2>7. q \in -3 .. F
    BY <2>1, <2>6
  <2> QED BY <2>1, <2>2, <2>4, <2>5, <2>7
<1>1. /\ fifo'.tx = Tail(fifo.tx) /\ fifo'.destId = fifo.destId /\ fifo'.sendDone = fifo.sendDone
  BY DEF Lossless, Streamed
<1>2. PICK d \in Int : /\ <<b, q, d>> \in BeatSteps(c) /\ d <= SentTo(r)
                       /\ Carries(Tail(fifo.tx), BeatSteps(c), d, SentTo(r))
  BY CarriesTake DEF ToPackets
<1>3. Carries(fifo'.tx, BeatSteps(c), d, SentTo(r)') /\ Len(fifo'.tx) <= Depth
  <2>1. SentTo(r)' = SentTo(r)
    BY DEF SentTo
  <2>2. IsSeq(fifo.tx) /\ Len(fifo.tx) <= Depth
    BY CarriesRange DEF ToPackets
  <2> QED BY <1>0, <1>1, <1>2, <2>1, <2>2, TailFits
<1> HIDE DEF c, F, b
<1>4. /\ \/ q <= F - 1 /\ d = q + 2 /\ Len(b.lines) = 2 /\ Second(b) = LineAt(c, d - 1)
         \/ d = F + 1 /\ q = F /\ Len(b.lines) = 1
      /\ (b.last <=> d = F + 1) /\ b.last \in BOOLEAN /\ Second(b) \in Line
      /\ b.lines[1] = LineAt(c, q) /\ d \in -2 .. F + 1
  <2>1. /\ b.last \in BOOLEAN /\ (b.last <=> d = F + 1) /\ d \in -2 .. F + 1
        /\ \/ q \in -3 .. F - 1 /\ d = q + 2 /\ b.lines = <<LineAt(c, q), LineAt(c, q + 1)>>
           \/ q = F /\ d = q + 1 /\ b.lines = <<LineAt(c, q)>>
    BY <1>0, <1>2, BeatOf DEF F, c
  <2>2. CASE q \in -3 .. F - 1 /\ d = q + 2 /\ b.lines = <<LineAt(c, q), LineAt(c, q + 1)>>
    <3>1. Len(b.lines) = 2 /\ b.lines[1] = LineAt(c, q) /\ Second(b) = LineAt(c, q + 1)
      BY <2>2 DEF Second
    <3>2. d - 1 = q + 1 /\ q <= F - 1 /\ q + 1 \in Int /\ q + 1 >= -3
      BY <1>0, <2>2
    <3>3. LineAt(c, q + 1) \in Line
      BY <1>0, <3>2, LineType
    <3> QED BY <2>1, <2>2, <3>1, <3>2, <3>3
  <2>3. CASE q = F /\ d = q + 1 /\ b.lines = <<LineAt(c, q)>>
    <3>1. Len(b.lines) = 1 /\ b.lines[1] = LineAt(c, q) /\ Second(b) = NoLine
      BY <2>3 DEF Second
    <3>2. NoLine \in Line
      BY DEF NoLine, Line, Word
    <3> QED BY <2>1, <2>3, <3>1, <3>2
  <2> QED BY <2>1, <2>2, <2>3
<1>5. d \in -3 .. F + 1 /\ d > -3 /\ Second(b) \in Line /\ b.last \in BOOLEAN
  BY SMTT(30), <1>0, <1>4
<1>6. Len(dq.packet) = dq.cnt /\ Packed(q) >= -3 /\ Packed(q) = q - Len(dq.packet)
      /\ Len(dq.packet) \in Nat
  BY <1>0, EmptyIsSeq, PacketIs DEF Counted
<1> DEFINE Goal == Splitting(d)' /\ ToReceiver(d, z)' /\ dq'.state # "DEQ_IDLE"
<1>7. ASSUME Goal PROVE ToPackets(r, d)' /\ ToReceiver(d, z)'
  <2>1. SenderFlags(d)'
    BY <1>0, <1>1, <1>7, FlagsStay
  <2> QED BY <1>0, <1>3, <1>7, <2>1 DEF ToPackets, c
<1>8. CASE b.last /\ Len(b.lines) = 2
  <2>1. /\ dq' = [[regs EXCEPT !.state = "DEQ_WRITE_2"] EXCEPT !.packet = Append(@, b.lines[1])]
        /\ net' = net
    BY <1>8 DEF FirstLine, Emit, b
  <2>2. /\ dq'.state = "DEQ_WRITE_2" /\ dq'.packet = Append(dq.packet, b.lines[1])
        /\ dq'.goToDone = b.last /\ dq'.second = Second(b) /\ dq'.startWithSecond = dq.startWithSecond
    BY <1>0, <2>1 DEF Registers
  <2>3. Kept' /\ Emitted(d)' = Emitted(q) + 1
    BY <1>0, <1>4, <1>8, <2>2 DEF Kept, Emitted
  <2>4. /\ dq'.packet = LinesFrom(c, Packed(d)', Emitted(d)') /\ Packed(d)' >= -3
        /\ ToReceiver(d, z)'
    <3>1. dq'.packet = Append(dq.packet, LineAt(job.count, Emitted(q)))
      BY <1>0, <1>4, <2>2 DEF c
    <3>2. net'.packets = net.packets
      BY <2>1
    <3> QED BY <1>0, <2>3, <3>1, <3>2, PacketGoesOn DEF c
  <2>5. Splitting(d)'
    <3>1. dq'.goToDone = (d = F + 1) /\ dq'.goToDone \in BOOLEAN
      BY <1>4, <2>2
    <3>2. dq'.second = LineAt(c, d - 1) /\ dq'.second \in Line
      BY <1>0, <1>4, <1>8, <2>2
    <3> QED BY <1>0, <1>5, <2>2, <2>3, <2>4, <3>1, <3>2 DEF Splitting, c, F
  <2> QED BY <1>7, <2>2, <2>4, <2>5
<1>9. CASE b.last /\ Len(b.lines) # 2
  <2>1. /\ dq' = [[regs EXCEPT !.state = "DEQ_DONE"] EXCEPT !.packet = << >>]
        /\ net' = [net EXCEPT !.packets = Append(@, Append(dq.packet, b.lines[1]))]
    BY <1>9 DEF FirstLine, Emit, b
  <2>2. /\ dq'.state = "DEQ_DONE" /\ dq'.packet = << >>
        /\ dq'.goToDone = b.last /\ dq'.second = Second(b) /\ dq'.startWithSecond = dq.startWithSecond
    BY <1>0, <2>1 DEF Registers
  <2>3. net'.packets = Append(net.packets, Append(dq.packet, b.lines[1]))
    BY <1>0, <2>1 DEF Registers
  <2>4. ~Kept' /\ Emitted(d)' = Emitted(q) + 1 /\ Emitted(d)' \in 2 .. F + 1
    BY SMTT(30), <1>0, <1>4, <1>9, <2>2 DEF Kept, Emitted
  <2>5. /\ dq'.packet = LinesFrom(c, Packed(d)', Emitted(d)') /\ Packed(d)' >= -3
        /\ ToReceiver(d, z)'
    BY <1>0, <1>4, <1>9, <2>2, <2>3, <2>4, PacketEnds DEF c, F
  <2>6. Splitting(d)'
    BY <1>0, <1>4, <1>5, <1>9, <2>2, <2>4, <2>5 DEF Splitting, c, F
  <2> QED BY <1>7, <2>2, <2>5, <2>6
<1>10. CASE ~b.last /\ PacketFull
  <2>1. /\ dq' = [[regs EXCEPT !.state = "DEQ_START", !.cnt = 0,
                               !.startWithSecond = Len(b.lines) = 2] EXCEPT !.packet = << >>]
        /\ net' = [net EXCEPT !.packets = Append(@, Append(dq.packet, b.lines[1]))]
    BY <1>10 DEF FirstLine, Emit, b
  <2>2. /\ dq'.state = "DEQ_START" /\ dq'.packet = << >>
        /\ dq'.goToDone = b.last /\ dq'.second = Second(b) /\ dq'.startWithSecond
    <3>1. Len(b.lines) = 2
      BY <1>4, <1>10
    <3> QED BY <1>0, <2>1, <3>1 DEF Registers
  <2>3. net'.packets = Append(net.packets, Append(dq.packet, b.lines[1]))
    BY <1>0, <2>1 DEF Registers
  <2>4. Kept' /\ Emitted(d)' = Emitted(q) + 1 /\ Emitted(d)' \in 2 .. F + 1
    <3>1. dq.cnt >= MaxLines - 1
      BY <1>10 DEF PacketFull
    <3>2. q >= 1 /\ q \in Int
      BY <1>0, <1>6, <3>1
    <3>3. Kept' /\ Emitted(d)' = d - 1 /\ d - 1 = q + 1 /\ Emitted(q) = q
      BY SMTT(30), <1>0, <1>4, <1>10, <2>2 DEF Kept, Emitted
    <3> QED BY <1>0, <3>2, <3>3
  <2>5. /\ dq'.packet = LinesFrom(c, Packed(d)', Emitted(d)') /\ Packed(d)' >= -3
        /\ ToReceiver(d, z)'
    BY <1>0, <1>4, <1>10, <2>2, <2>3, <2>4, PacketEnds DEF c, F
  <2>6. Splitting(d)'
    BY SMTT(30), <1>0, <1>4, <1>5, <1>10, <2>2, <2>4, <2>5 DEF Splitting, c, F
  <2> QED BY <1>7, <2>2, <2>5, <2>6
<1>11. CASE ~b.last /\ ~PacketFull
  <2>1. /\ dq' = [[regs EXCEPT !.state = "DEQ_WRITE_2", !.cnt = @ + 1]
                     EXCEPT !.packet = Append(@, b.lines[1])]
        /\ net' = net
    BY <1>11 DEF FirstLine, Emit, b
  <2>2. /\ dq'.state = "DEQ_WRITE_2" /\ dq'.packet = Append(dq.packet, b.lines[1])
        /\ dq'.goToDone = b.last /\ dq'.second = Second(b) /\ dq'.startWithSecond = dq.startWithSecond
    BY <1>0, <2>1 DEF Registers
  <2>3. Kept' /\ Emitted(d)' = Emitted(q) + 1
    BY SMTT(30), <1>0, <1>4, <1>11, <2>2 DEF Kept, Emitted
  <2>4. /\ dq'.packet = LinesFrom(c, Packed(d)', Emitted(d)') /\ Packed(d)' >= -3
        /\ ToReceiver(d, z)'
    BY <1>0, <1>4, <1>11, <2>1, <2>2, <2>3, PacketGoesOn DEF c
  <2>5. Splitting(d)'
    BY <1>0, <1>4, <1>5, <1>11, <2>2, <2>3, <2>4 DEF Splitting, c, F
  <2> QED BY <1>7, <2>2, <2>4, <2>5
<1> QED BY <1>8, <1>9, <1>10, <1>11

(* The same, in both states that do it. *)
LEMMA DeqStartStep ==
  ASSUME Lossless, PacketInv, NEW r \in Int, NEW q \in Int, NEW z \in Int,
         ToPackets(r, q), ToReceiver(q, z), DeqStart \/ DeqWrite
  PROVE  \E d \in Int : ToPackets(r, d)' /\ ToReceiver(d, z)'
<1>1. /\ dq.state = "DEQ_WRITE" \/ (dq.state = "DEQ_START" /\ ~dq.startWithSecond)
      /\ fifo.tx # << >> /\ FirstLine(Head(fifo.tx))
      /\ fifo' = [fifo EXCEPT !.tx = Tail(@)] /\ UNCHANGED <<job, se, tin>>
  BY DEF DeqStart, DeqWrite, Some
<1> QED BY <1>1, FirstLineStep

(* pDeqSend turns to a message. *)
LEMMA DeqIdleStep ==
  ASSUME Lossless, PacketInv, NEW r \in Int, NEW q \in Int, NEW z \in Int,
         ToPackets(r, q), ToReceiver(q, z), DeqIdle
  PROVE  ToPackets(r, q)' /\ ToReceiver(q, z)'
<1> DEFINE F == Final(job.count)
<1>1. /\ dq.state = "DEQ_IDLE" /\ fifo.destId > 0 /\ UNCHANGED <<job, se, tin, net>>
      /\ fifo' = [fifo EXCEPT !.destId = @ - 1]
      /\ dq' = [dq EXCEPT !.state = "DEQ_START", !.cnt = 0, !.startWithSecond = FALSE]
  BY DEF DeqIdle
<1>2. fifo'.tx = fifo.tx /\ fifo'.destId = fifo.destId - 1 /\ fifo'.sendDone = fifo.sendDone
  BY <1>1 DEF Lossless, Streamed
<1>3. Registers /\ Counted /\ Splitting(q) /\ SenderFlags(q)
  BY DEF ToPackets, PacketInv
<1>4. /\ dq'.state = "DEQ_START" /\ dq'.startWithSecond = FALSE /\ dq'.packet = dq.packet
      /\ dq'.second = dq.second /\ dq'.goToDone = dq.goToDone
  BY <1>1, <1>3 DEF Registers
<1>5. F \in Nat /\ F >= 1
  BY CountType
<1>6. fifo.destId = 1 /\ q = -3 /\ se.state # "SEND_DATA_START"
  BY <1>1, <1>3 DEF SenderFlags
<1>7. ~Kept /\ ~Kept'
  BY <1>1, <1>4 DEF Kept
<1>8. Emitted(q)' = Emitted(q)
  BY <1>7 DEF Emitted
<1>9. Packed(q)' = Packed(q)
  BY <1>4, <1>8 DEF Packed
<1>10. Splitting(q)'
  <2>1. dq'.packet = LinesFrom(job'.count, Packed(q)', Emitted(q)') /\ Packed(q)' >= -3
    BY <1>1, <1>3, <1>4, <1>8, <1>9 DEF Splitting
  <2> QED BY <1>1, <1>3, <1>4, <1>5, <1>6, <1>7, <2>1 DEF Splitting
<1>11. SenderFlags(q)'
  BY <1>1, <1>2, <1>3, <1>4, <1>5, <1>6 DEF SenderFlags
<1>12. ToPackets(r, q)'
  <2>1. SentTo(r)' = SentTo(r)
    BY <1>1 DEF SentTo
  <2> QED BY <1>1, <1>2, <1>10, <1>11, <2>1 DEF ToPackets
<1>13. ToReceiver(q, z)'
  BY <1>1, <1>9 DEF ToReceiver, Arriving
<1> QED BY <1>12, <1>13

(* pDeqSend has split the message. *)
LEMMA DeqDoneStep ==
  ASSUME Lossless, PacketInv, NEW e \in Int, NEW r \in Int, NEW q \in Int, NEW z \in Int,
         ToEngine(e, r), ToPackets(r, q), ToReceiver(q, z), DeqDone
  PROVE  ToPackets(r, q)' /\ ToReceiver(q, z)'
<1> DEFINE F == Final(job.count)
<1>1. /\ dq.state = "DEQ_DONE" /\ UNCHANGED <<job, se, tin, net>>
      /\ fifo' = [fifo EXCEPT !.sendDone = @ + 1]
      /\ dq' = [dq EXCEPT !.state = "DEQ_IDLE", !.goToDone = FALSE]
  BY DEF DeqDone
<1>2. fifo'.tx = fifo.tx /\ fifo'.destId = fifo.destId /\ fifo'.sendDone = fifo.sendDone + 1
  BY <1>1 DEF Lossless, Streamed
<1>3. Registers /\ Counted /\ Splitting(q) /\ SenderFlags(q)
  BY DEF ToPackets, PacketInv
<1>4. /\ dq'.state = "DEQ_IDLE" /\ dq'.startWithSecond = dq.startWithSecond
      /\ dq'.packet = dq.packet /\ dq'.second = dq.second /\ dq'.goToDone = FALSE
  BY <1>1, <1>3 DEF Registers
<1>5. F \in Nat /\ F >= 1
  BY CountType
<1>6. q = F + 1 /\ ~dq.startWithSecond
  BY <1>1, <1>3 DEF Splitting
<1>7. se.state = "SEND_DATA_WRD"
  <2>1. Reading(r) /\ q <= SentTo(r)
    BY CarriesRange DEF ToEngine, ToPackets
  <2>2. se.state \notin {"SEND_DATA_START", "WAIT4ACK", "IDLE"}
    BY <1>1, <1>3 DEF SenderFlags
  <2>3. se.state # "SEND_DATA_START_1"
    BY <1>5, <1>6, <2>1 DEF SentTo
  <2>4. CASE se.state = "SEND_DATA_RD"
    <3>1. SentTo(r) = r
      BY <2>4 DEF SentTo
    <3>2. r \in 1 .. F + 1 /\ r # F + 1
      BY <2>1, <2>4 DEF Reading
    <3> QED BY <1>5, <1>6, <2>1, <3>1, <3>2
  <2> QED BY <2>1, <2>2, <2>3, <2>4 DEF Reading
<1>8. ~Kept /\ ~Kept'
  BY <1>1, <1>4 DEF Kept
<1>9. Emitted(q)' = Emitted(q)
  BY <1>8 DEF Emitted
<1>10. Packed(q)' = Packed(q)
  BY <1>4, <1>9 DEF Packed
<1>11. Splitting(q)'
  <2>1. dq'.packet = LinesFrom(job'.count, Packed(q)', Emitted(q)') /\ Packed(q)' >= -3
    BY <1>1, <1>3, <1>4, <1>9, <1>10 DEF Splitting
  <2> QED BY <1>1, <1>3, <1>4, <1>5, <1>6, <1>8, <2>1 DEF Splitting
<1>12. SenderFlags(q)'
  BY <1>1, <1>2, <1>3, <1>4, <1>5, <1>6, <1>7 DEF SenderFlags
<1>13. ToPackets(r, q)'
  <2>1. SentTo(r)' = SentTo(r)
    BY <1>1 DEF SentTo
  <2> QED BY <1>1, <1>2, <1>11, <1>12, <2>1 DEF ToPackets
<1>14. ToReceiver(q, z)'
  BY <1>1, <1>10 DEF ToReceiver, Arriving
<1> QED BY <1>13, <1>14

(* The second line of a beat goes into the packet. *)
LEMMA SecondLineStep ==
  ASSUME Lossless, PacketInv, NEW r \in Int, NEW q \in Int, NEW z \in Int,
         ToPackets(r, q), ToReceiver(q, z), UNCHANGED <<job, se, tin, fifo>>, Kept, ~Kept',
         dq'.state \in {"DEQ_START", "DEQ_WRITE", "DEQ_DONE"},
         dq'.goToDone \in BOOLEAN, dq'.startWithSecond = FALSE, dq'.second = dq.second,
         IF dq'.state = "DEQ_DONE" THEN q = Final(job.count) + 1 ELSE q <= Final(job.count),
         \/ dq'.packet = Append(dq.packet, dq.second) /\ net' = net
         \/ /\ dq'.packet = << >> /\ q \in 2 .. Final(job.count) + 1
            /\ net'.packets = Append(net.packets, Append(dq.packet, dq.second))
  PROVE  ToPackets(r, q)' /\ ToReceiver(q, z)'
<1>1. Splitting(q) /\ SenderFlags(q)
  BY DEF ToPackets
<1>2. /\ dq.state # "DEQ_IDLE" /\ Emitted(q) = q - 1 /\ Emitted(q)' = Emitted(q) + 1
      /\ Emitted(q)' = q
  BY DEF Kept, Emitted
<1>3. dq.second = LineAt(job.count, Emitted(q)) /\ dq.second \in Line
  BY <1>1, <1>2 DEF Splitting
<1>4. /\ dq'.packet = LinesFrom(job.count, Packed(q)', Emitted(q)') /\ Packed(q)' >= -3
      /\ ToReceiver(q, z)'
  <2>1. CASE dq'.packet = Append(dq.packet, dq.second) /\ net' = net
    <3>1. dq'.packet = Append(dq.packet, LineAt(job.count, Emitted(q)))
      BY <1>3, <2>1
    <3>2. net'.packets = net.packets
      BY <2>1
    <3> QED BY <1>1, <1>2, <3>1, <3>2, PacketGoesOn
  <2>2. CASE /\ dq'.packet = << >> /\ q \in 2 .. Final(job.count) + 1
             /\ net'.packets = Append(net.packets, Append(dq.packet, dq.second))
    <3>1. net'.packets = Append(net.packets, Append(dq.packet, LineAt(job.count, Emitted(q))))
      BY <1>3, <2>2
    <3>2. Emitted(q)' \in 2 .. Final(job.count) + 1
      BY <1>2, <2>2
    <3> QED BY <1>1, <1>2, <2>2, <3>1, <3>2, PacketEnds
  <2> QED BY <2>1, <2>2
<1>5. Splitting(q)'
  <2>1. q \in -3 .. Final(job.count) + 1 /\ dq'.second \in Line
    BY <1>1, <1>3 DEF Splitting
  <2>2. dq'.packet = LinesFrom(job'.count, Packed(q)', Emitted(q)')
    BY <1>4
  <2> QED BY <1>4, <2>1, <2>2 DEF Splitting
<1>6. SenderFlags(q)'
  BY <1>1, <1>2, FlagsStay
<1>7. ToPackets(r, q)'
  <2>1. SentTo(r)' = SentTo(r)
    BY DEF SentTo
  <2> QED BY <1>5, <1>6, <2>1 DEF ToPackets
<1> QED BY <1>4, <1>7

(* The beat was cut by the end of the packet. *)
LEMMA DeqStartWithSecondStep ==
  ASSUME Lossless, PacketInv, NEW r \in Int, NEW q \in Int, NEW z \in Int,
         ToPackets(r, q), ToReceiver(q, z), DeqStartWithSecond
  PROVE  ToPackets(r, q)' /\ ToReceiver(q, z)'
<1>1. /\ dq.state = "DEQ_START" /\ dq.startWithSecond /\ UNCHANGED <<job, se, tin, fifo>>
      /\ dq' = [[dq EXCEPT !.state = "DEQ_WRITE", !.cnt = @ + 1, !.goToDone = FALSE,
                           !.startWithSecond = FALSE] EXCEPT !.packet = Append(@, dq.second)]
      /\ net' = net
  BY DEF DeqStartWithSecond, Emit
<1>2. Registers /\ Splitting(q)
  BY DEF ToPackets, PacketInv
<1>3. /\ dq'.state = "DEQ_WRITE" /\ dq'.startWithSecond = FALSE /\ dq'.goToDone = FALSE
      /\ dq'.packet = Append(dq.packet, dq.second) /\ dq'.second = dq.second
  BY <1>1, <1>2 DEF Registers
<1>4. Kept /\ ~Kept' /\ q <= Final(job.count)
  BY <1>1, <1>2, <1>3 DEF Kept, Splitting
<1> QED BY <1>1, <1>3, <1>4, SecondLineStep

(* The beat was not cut. *)
LEMMA DeqWrite2Step ==
  ASSUME Lossless, PacketInv, NEW r \in Int, NEW q \in Int, NEW z \in Int,
         ToPackets(r, q), ToReceiver(q, z), DeqWrite2
  PROVE  ToPackets(r, q)' /\ ToReceiver(q, z)'
<1> DEFINE F == Final(job.count)
<1>1. dq.state = "DEQ_WRITE_2" /\ UNCHANGED <<job, se, tin, fifo>>
  BY DEF DeqWrite2
<1>2. Registers /\ Counted /\ Splitting(q)
  BY DEF ToPackets, PacketInv
<1>3. /\ F \in Nat /\ F >= 1 /\ q \in -3 .. F + 1 /\ (dq.goToDone <=> q = F + 1)
      /\ dq.goToDone \in BOOLEAN /\ dq.startWithSecond = FALSE /\ Kept
      /\ MaxLines \in Nat /\ MaxLines > 4
  <2>1. F \in Nat /\ F >= 1 /\ MaxLines \in Nat /\ MaxLines > 4
    BY CountType, DataPathAssumption
  <2>2. dq.goToDone = (q = F + 1) /\ dq.startWithSecond \in BOOLEAN /\ q \in -3 .. F + 1
    BY <1>1, <1>2 DEF Splitting
  <2>3. ~dq.startWithSecond
    BY <1>1, <1>2 DEF Splitting
  <2> QED BY <1>1, <2>1, <2>2, <2>3 DEF Kept
<1>4. CASE dq.goToDone
  <2>1. /\ dq' = [[dq EXCEPT !.state = "DEQ_DONE"] EXCEPT !.packet = << >>]
        /\ net' = [net EXCEPT !.packets = Append(@, Append(dq.packet, dq.second))]
    BY <1>4 DEF DeqWrite2, Emit
  <2>2. /\ dq'.state = "DEQ_DONE" /\ dq'.startWithSecond = FALSE /\ dq'.goToDone \in BOOLEAN
        /\ dq'.packet = << >> /\ dq'.second = dq.second
        /\ net'.packets = Append(net.packets, Append(dq.packet, dq.second))
    BY <1>2, <1>3, <2>1 DEF Registers
  <2>3. ~Kept' /\ q = F + 1 /\ q \in 2 .. F + 1
    BY <1>3, <1>4, <2>2 DEF Kept
  <2> QED BY <1>1, <1>3, <2>2, <2>3, SecondLineStep
<1>5. CASE ~dq.goToDone /\ PacketFull
  <2>1. /\ dq' = [[dq EXCEPT !.state = "DEQ_START", !.cnt = 0] EXCEPT !.packet = << >>]
        /\ net' = [net EXCEPT !.packets = Append(@, Append(dq.packet, dq.second))]
    BY <1>5 DEF DeqWrite2, Emit
  <2>2. /\ dq'.state = "DEQ_START" /\ dq'.startWithSecond = FALSE /\ dq'.goToDone \in BOOLEAN
        /\ dq'.packet = << >> /\ dq'.second = dq.second
        /\ net'.packets = Append(net.packets, Append(dq.packet, dq.second))
    BY <1>2, <1>3, <2>1 DEF Registers
  <2>3. Len(dq.packet) >= MaxLines - 1 /\ Len(dq.packet) \in Nat
    BY <1>1, <1>2, <1>3, <1>5 DEF Counted, PacketFull
  <2>4. Packed(q) >= -3 /\ Packed(q) = q - 1 - Len(dq.packet)
    BY <1>2, <1>3 DEF Splitting, Packed, Emitted
  <2>5. ~Kept' /\ q <= F /\ q \in 2 .. F + 1
    <3>1. ~Kept'
      BY <2>2 DEF Kept
    <3> QED BY <1>3, <1>5, <2>3, <2>4, <3>1
  <2> QED BY <1>1, <1>3, <2>2, <2>5, SecondLineStep
<1>6. CASE ~dq.goToDone /\ ~PacketFull
  <2>1. /\ dq' = [[dq EXCEPT !.state = "DEQ_WRITE", !.cnt = @ + 1]
                     EXCEPT !.packet = Append(@, dq.second)]
        /\ net' = net
    BY <1>6 DEF DeqWrite2, Emit
  <2>2. /\ dq'.state = "DEQ_WRITE" /\ dq'.startWithSecond = FALSE /\ dq'.goToDone \in BOOLEAN
        /\ dq'.packet = Append(dq.packet, dq.second) /\ dq'.second = dq.second
    BY <1>2, <1>3, <2>1 DEF Registers
  <2>3. ~Kept' /\ q <= F
    BY <1>3, <1>6, <2>2 DEF Kept
  <2> QED BY <1>1, <1>3, <2>1, <2>2, <2>3, SecondLineStep
<1> QED BY <1>4, <1>5, <1>6

(* Beats that arrive. *)
LEMMA OneArrives ==
  ASSUME NEW c, Final(c) \in Nat, NEW a \in 1 .. Final(c)
  PROVE  <<OneLine(c, a, TRUE), a, a + 1>> \in ArrivedSteps(c)
BY ArrivedStep

(* The header arrives in two whole beats. *)
LEMMA HeaderArrives ==
  ASSUME NEW c
  PROVE  /\ <<TwoLines(c, -3, FALSE), -3, (-3) + 2>> \in ArrivedSteps(c)
         /\ <<TwoLines(c, -1, FALSE), -1, (-1) + 2>> \in ArrivedSteps(c)
BY ArrivedStep

(* pEnqTcpIn: a beat that is complete goes on to pMpeGlobal. *)
LEMMA BeatArrives ==
  ASSUME Lossless, NEW z \in Int, NEW u \in Int, NEW tk \in Nat, NEW rk \in Nat,
         Ends(tk, rk), FromNetwork(z, u), Room("tcpIn"), UNCHANGED <<job, re>>,
         NEW x, <<x, Arrived(z), z + 1>> \in ArrivedSteps(job.count), x.last \in BOOLEAN,
         fifo'.tcpIn = Append(fifo.tcpIn, x), Arrived(z + 1)' = z + 1,
         tin'.state = "DEQ_START" <=> x.last,
         fifo'.meta = IF tin.state = "DEQ_START" THEN fifo.meta + 1 ELSE fifo.meta
  PROVE  \E k \in Nat : Ends(k, rk)' /\ FromNetwork(z + 1, u)'
<1> DEFINE k == IF x.last THEN tk + 1 ELSE tk
<1>1. /\ Carries(fifo.tcpIn, ArrivedSteps(job.count), u, Arrived(z))
      /\ Carries(fifo.tcpIn, EndSteps(job.count), rk, tk) /\ Metas(tk, rk)
      /\ Len(fifo.tcpIn) < Depth /\ Passing(u)
  BY DEF Ends, FromNetwork, Room
<1>2. Arrived(z) \in Int /\ Arrived(z) <= z + 1
  BY DEF Arrived
<1>3. Carries(fifo'.tcpIn, ArrivedSteps(job.count), u, z + 1)
  <2>1. z + 1 \in Int
    OBVIOUS
  <2> QED BY <1>1, <1>2, <2>1, CarriesPut
<1>4. Carries(fifo'.tcpIn, EndSteps(job.count), rk, k)
  <2>1. <<x, tk, k>> \in EndSteps(job.count)
    BY EndStepIs
  <2>2. k \in Int /\ tk <= k
    OBVIOUS
  <2> HIDE DEF k
  <2> QED BY <1>1, <2>1, <2>2, CarriesPut
<1>5. Len(fifo'.tcpIn) <= Depth
  <2>1. IsSeq(fifo.tcpIn) /\ Depth \in Nat
    BY <1>1, CarriesRange, DataPathAssumption
  <2>2. Len(fifo.tcpIn) \in Nat /\ Len(fifo'.tcpIn) = Len(fifo.tcpIn) + 1
    BY <2>1, AppendAny
  <2> QED BY <1>1, <2>1, <2>2
<1>6. FromNetwork(z + 1, u)'
  <2>1. Passing(u)'
    BY <1>1 DEF Passing, Passed
  <2> QED BY <1>3, <1>5, <2>1 DEF FromNetwork
<1>7. Metas(k, rk)'
  <2>1. /\ fifo'.meta \in Nat
        /\ fifo'.meta = k + (IF tin'.state # "DEQ_START" THEN 1 ELSE 0)
             - rk - (IF re'.state \in {"RECV_DATA_START_1", "RECV_DATA_RD"} THEN 1 ELSE 0)
    <3> DEFINE begun == IF re.state \in {"RECV_DATA_START_1", "RECV_DATA_RD"} THEN 1 ELSE 0
    <3>1. /\ fifo.meta \in Nat /\ begun \in {0, 1}
          /\ fifo.meta = tk + (IF tin.state # "DEQ_START" THEN 1 ELSE 0) - rk - begun
      BY <1>1 DEF Metas
    <3>2. begun = IF re'.state \in {"RECV_DATA_START_1", "RECV_DATA_RD"} THEN 1 ELSE 0
      OBVIOUS
    <3> DEFINE late  == IF tin'.state # "DEQ_START" THEN 1 ELSE 0
               early == IF tin.state # "DEQ_START" THEN 1 ELSE 0
    <3>3. k + late = tk + 1 /\ k \in Nat /\ late \in {0, 1}
      <4>1. CASE x.last
        BY <4>1
      <4>2. CASE ~x.last
        BY <4>2
      <4> QED BY <4>1, <4>2
    <3>4. fifo'.meta = fifo.meta + 1 - early /\ early \in {0, 1}
      <4>1. CASE tin.state = "DEQ_START"
        <5>1. early = 0 /\ fifo'.meta = fifo.meta + 1
          BY <4>1
        <5> HIDE DEF early
        <5> QED BY <3>1, <5>1
      <4>2. CASE tin.state # "DEQ_START"
        <5>1. early = 1 /\ fifo'.meta = fifo.meta
          BY <4>2
        <5> HIDE DEF early
        <5> QED BY <3>1, <5>1
      <4> QED BY <4>1, <4>2
    <3>5. fifo.meta = tk + early - rk - begun
      BY <3>1
    <3> HIDE DEF begun, late, early, k
    <3>6. fifo'.meta = k + late - rk - begun
      BY <3>1, <3>3, <3>4, <3>5
    <3>7. fifo'.meta \in Nat
      BY <3>1, <3>4
    <3> QED BY <3>2, <3>6, <3>7 DEF late
  <2>2. tin'.state = "DEQ_START" => fifo'.tcpIn[Len(fifo'.tcpIn)].last
    <3>1. fifo'.tcpIn[Len(fifo'.tcpIn)] = x
      <4>1. IsSeq(fifo.tcpIn)
        BY <1>1, CarriesRange
      <4>2. PICK S : fifo.tcpIn \in Seq(S)
        BY <4>1 DEF IsSeq
      <4>3. fifo.tcpIn \in Seq(S \cup {x}) /\ x \in S \cup {x}
        BY <4>2, SeqMonotonic
      <4> QED BY <4>3, AppendProperties
    <3> QED BY <3>1
  <2> HIDE DEF k
  <2> QED BY <2>1, <2>2 DEF Metas
<1>8. Ends(k, rk)'
  BY <1>4, <1>7 DEF Ends
<1>9. k \in Nat
  OBVIOUS
<1> HIDE DEF k
<1> QED BY <1>6, <1>8, <1>9

(* pEnqTcpIn takes the first line of the first packet. *)
LEMMA EnqTcpInStep ==
  ASSUME Lossless, PacketInv, NEW q \in Int, NEW z \in Int, NEW u \in Int,
         NEW tk \in Nat, NEW rk \in Nat,
         ToReceiver(q, z), Ends(tk, rk), FromNetwork(z, u), EnqTcpIn
  PROVE  \E k \in Nat : ToReceiver(q, z + 1)' /\ Ends(k, rk)' /\ FromNetwork(z + 1, u)'
<1> DEFINE c    == job.count
           F    == Final(job.count)
           p    == Head(net.packets)
           line == Head(p)
           rest == Tail(p)
           last == rest = << >>
           meta == IF tin.state = "DEQ_START" THEN fifo.meta + 1 ELSE fifo.meta
           One  == [lines |-> <<line>>, last |-> last]
           Two  == [lines |-> <<tin.first, line>>, last |-> last]
<1>1. /\ net.packets # << >> /\ Room("tcpIn") /\ UNCHANGED <<job, dq, re>>
      /\ net' = [net EXCEPT !.packets = IF last THEN Tail(@) ELSE <<rest>> \o Tail(@)]
      /\ \/ /\ tin.state # "DEQ_WRITE_2" /\ last
            /\ fifo' = [fifo EXCEPT !.meta = meta, !.tcpIn = Append(@, One)]
            /\ tin' = [tin EXCEPT !.state = "DEQ_START"]
         \/ /\ tin.state # "DEQ_WRITE_2" /\ ~last
            /\ fifo' = [fifo EXCEPT !.meta = meta]
            /\ tin' = [state |-> "DEQ_WRITE_2", first |-> line]
         \/ /\ tin.state = "DEQ_WRITE_2"
            /\ fifo' = [fifo EXCEPT !.meta = meta, !.tcpIn = Append(@, Two)]
            /\ tin' = [tin EXCEPT !.state = IF last THEN "DEQ_START" ELSE "DEQ_WRITE"]
  BY DEF EnqTcpIn
<1>2. /\ c \in Counts /\ F \in Nat /\ F >= 1 /\ c' = c
      /\ Arriving(z) /\ Carries(net.packets, PacketSteps(c), z, Packed(q))
      /\ net = [packets |-> net.packets, losses |-> net.losses]
  BY <1>1, CountType DEF ToReceiver, PacketInv, Registers
<1>3. PICK n \in Int : /\ <<p, z, n>> \in PacketSteps(c) /\ z <= n /\ n <= Packed(q)
                       /\ Carries(Tail(net.packets), PacketSteps(c), n, Packed(q))
  BY <1>1, <1>2, CarriesTake
<1>4. z \in -3 .. F /\ n \in 2 .. F + 1 /\ z < n /\ p = LinesFrom(c, z, n)
  BY <1>3, PacketStep
<1>5. line = LineAt(c, z) /\ rest = LinesFrom(c, z + 1, n) /\ line \in Line
  <2>1. z \in Int /\ z >= -3 /\ z < n /\ c \in Counts
    BY <1>2, <1>4
  <2>2. /\ Head(LinesFrom(c, z, n)) = LineAt(c, z)
        /\ Tail(LinesFrom(c, z, n)) = LinesFrom(c, z + 1, n)
    BY <2>1, LinesTake
  <2>3. LineAt(c, z) \in Line
    BY <2>1, LineType
  <2> QED BY <1>4, <2>2, <2>3
<1>6. last <=> z + 1 = n
  <2>1. CASE z + 1 = n
    <3>1. LinesFrom(c, z + 1, n) = << >>
      BY <1>4, <2>1, LinesNone
    <3> QED BY <1>5, <2>1, <3>1
  <2>2. CASE z + 1 # n
    <3>1. z + 1 \in Int /\ z + 1 >= -3 /\ z + 1 < n /\ n \in Int
      BY <1>4, <2>2
    <3>2. LinesFrom(c, z + 1, n) # << >>
      BY <1>2, <3>1, LinesTake
    <3> QED BY <1>5, <2>2, <3>2
  <2> QED BY <2>1, <2>2
<1>7. Carries(net'.packets, PacketSteps(c), z + 1, Packed(q)')
  <2>1. Packed(q)' = Packed(q)
    BY <1>1 DEF Packed, Emitted, Kept
  <2>2. CASE last
    <3>1. net'.packets = Tail(net.packets)
      BY <1>1, <1>2, <2>2
    <3> QED BY <1>3, <1>6, <2>1, <2>2, <3>1
  <2>3. CASE ~last
    <3>1. net'.packets = <<rest>> \o Tail(net.packets)
      BY <1>1, <1>2, <2>3
    <3>2. <<rest, z + 1, n>> \in PacketSteps(c)
      <4>1. z + 1 # n
        BY <1>6, <2>3
      <4>2. z + 1 \in -3 .. F /\ z + 1 < n
        BY <1>2, <1>4, <4>1
      <4> QED BY <1>4, <1>5, <4>2, PacketStep
    <3>3. z + 1 \in Int /\ z + 1 <= n
      BY <1>4
    <3> HIDE DEF c, p, rest, last
    <3> QED BY <1>1, <1>2, <1>3, <2>1, <3>1, <3>2, <3>3, CarriesInstead
  <2> QED BY <2>2, <2>3
<1>8. ~last => net'.packets # << >>
  <2> SUFFICES ASSUME ~last PROVE net'.packets # << >>
    OBVIOUS
  <2>1. net'.packets = <<rest>> \o Tail(net.packets)
    BY <1>1, <1>2
  <2>2. PICK S : Tail(net.packets) \in Seq(S)
    BY <1>3 DEF Carries, IsSeq
  <2>3. Tail(net.packets) \in Seq(S \cup {rest}) /\ <<rest>> \in Seq(S \cup {rest})
    BY <2>2, SeqMonotonic
  <2>4. Len(net'.packets) = 1 + Len(Tail(net.packets)) /\ Len(Tail(net.packets)) \in Nat
    BY <2>1, <2>3, ConcatProperties, LenProperties
  <2> QED BY <2>4, EmptyIsSeq
<1> HIDE DEF line, rest, last, meta, One, Two, c, F, p
<1>9. /\ tin = [state |-> tin.state, first |-> tin.first] /\ tin.first \in Line
      /\ tin.state \in {"DEQ_START", "DEQ_WRITE", "DEQ_WRITE_2"}
      /\ z <= 1 => (tin.state = "DEQ_WRITE_2" <=> z \in {-2, 0})
      /\ tin.state = "DEQ_WRITE_2" => tin.first = LineAt(c, z - 1)
  BY <1>2 DEF Arriving, c
<1>10. ASSUME tin' = [state |-> tin'.state, first |-> tin'.first],
              tin'.state \in {"DEQ_START", "DEQ_WRITE", "DEQ_WRITE_2"}, tin'.first \in Line,
              z + 1 <= 1 => (tin'.state = "DEQ_WRITE_2" <=> z + 1 \in {-2, 0}),
              tin'.state = "DEQ_WRITE_2" => tin'.first = line,
              last => tin'.state = "DEQ_START"
       PROVE  ToReceiver(q, z + 1)'
  <2>1. (z + 1) - 1 = z /\ z + 1 \in -3 .. F + 1
    BY <1>2, <1>4
  <2>2. tin'.state # "DEQ_START" => net'.packets # << >>
    BY <1>8, <1>10
  <2>3. Arriving(z + 1)'
    BY <1>1, <1>5, <1>10, <2>1, <2>2 DEF Arriving, c, F
  <2> QED BY <1>1, <1>7, <2>3 DEF ToReceiver, c
<1>11. Streamed
  BY DEF Lossless
<1>12. CASE tin.state # "DEQ_WRITE_2" /\ last
  <2>1. /\ fifo' = [fifo EXCEPT !.meta = meta, !.tcpIn = Append(@, One)]
        /\ tin' = [tin EXCEPT !.state = "DEQ_START"]
    BY <1>1, <1>12
  <2>2. fifo'.tcpIn = Append(fifo.tcpIn, One) /\ fifo'.meta = meta
    BY <1>11, <2>1 DEF Streamed
  <2>3. /\ tin' = [state |-> tin'.state, first |-> tin'.first] /\ tin'.first = tin.first
        /\ tin'.state = "DEQ_START"
    BY <1>9, <2>1
  <2>4. z >= 1 /\ z \in 1 .. F
    BY <1>2, <1>4, <1>6, <1>12
  <2>5. One = OneLine(c, z, TRUE) /\ One.last = TRUE
    <3>1. One = [lines |-> <<line>>, last |-> TRUE]
      BY <1>12 DEF One
    <3> QED BY <1>5, <3>1 DEF OneLine
  <2>6. <<One, Arrived(z), z + 1>> \in ArrivedSteps(c)
    <3>1. Arrived(z) = z
      BY <1>12 DEF Arrived
    <3> QED BY <1>2, <2>4, <2>5, <3>1, OneArrives DEF F, c
  <2>7. ToReceiver(q, z + 1)'
    BY <1>9, <1>10, <2>3, <2>4
  <2>8. Arrived(z + 1)' = z + 1
    BY <2>3 DEF Arrived
  <2>9. \E k \in Nat : Ends(k, rk)' /\ FromNetwork(z + 1, u)'
    BY <1>1, <2>2, <2>3, <2>5, <2>6, <2>8, BeatArrives DEF c, meta
  <2> QED BY <2>7, <2>9
<1>13. CASE tin.state # "DEQ_WRITE_2" /\ ~last
  <2>1. /\ fifo' = [fifo EXCEPT !.meta = meta]
        /\ tin' = [state |-> "DEQ_WRITE_2", first |-> line]
    BY <1>1, <1>13
  <2>2. fifo'.tcpIn = fifo.tcpIn /\ fifo'.meta = meta
    BY <1>11, <2>1 DEF Streamed
  <2>3. /\ tin' = [state |-> tin'.state, first |-> tin'.first] /\ tin'.first = line
        /\ tin'.state = "DEQ_WRITE_2"
    BY <2>1
  <2>4. z + 1 <= 1 => z + 1 \in {-2, 0}
    BY <1>4, <1>9, <1>13
  <2>5. ToReceiver(q, z + 1)'
    BY <1>5, <1>10, <1>13, <2>3, <2>4
  <2>6. Arrived(z + 1)' = Arrived(z)
    BY <1>13, <2>3 DEF Arrived
  <2>7. FromNetwork(z + 1, u)'
    <3>1. Passing(u)'
      BY <1>1 DEF FromNetwork, Passing, Passed
    <3> QED BY <1>1, <2>2, <2>6, <3>1 DEF FromNetwork
  <2>8. Ends(tk, rk)'
    <3>1. Metas(tk, rk)'
      <4>1. Metas(tk, rk)
        BY DEF Ends
      <4> QED BY <1>1, <1>13, <2>2, <2>3, <4>1 DEF Metas, meta
    <3> QED BY <1>1, <2>2, <3>1 DEF Ends
  <2> QED BY <2>5, <2>7, <2>8
<1>14. CASE tin.state = "DEQ_WRITE_2"
  <2>1. /\ fifo' = [fifo EXCEPT !.meta = meta, !.tcpIn = Append(@, Two)]
        /\ tin' = [tin EXCEPT !.state = IF last THEN "DEQ_START" ELSE "DEQ_WRITE"]
    BY <1>1, <1>14
  <2>2. fifo'.tcpIn = Append(fifo.tcpIn, Two) /\ fifo'.meta = meta
    BY <1>11, <2>1 DEF Streamed
  <2>3. /\ tin' = [state |-> tin'.state, first |-> tin'.first] /\ tin'.first = tin.first
        /\ tin'.state = IF last THEN "DEQ_START" ELSE "DEQ_WRITE"
    <3>1. tin' = [state |-> tin'.state, first |-> tin'.first]
      BY <1>9, <2>1
    <3>2. tin'.first = tin.first
      BY <1>9, <2>1
    <3>3. tin'.state = IF last THEN "DEQ_START" ELSE "DEQ_WRITE"
      BY <1>9, <2>1
    <3> QED BY <3>1, <3>2, <3>3
  <2>4. Two = TwoLines(c, z - 1, last) /\ Two.last = last /\ last \in BOOLEAN
    <3>1. Two = [lines |-> <<LineAt(c, z - 1), LineAt(c, z)>>, last |-> last]
      BY <1>5, <1>9, <1>14 DEF Two
    <3>2. (z - 1) + 1 = z
      OBVIOUS
    <3>3. last \in BOOLEAN
      BY DEF last
    <3>4. Two.last = last
      BY <3>1
    <3> QED BY <3>1, <3>2, <3>3, <3>4 DEF TwoLines
  <2>5. <<Two, Arrived(z), z + 1>> \in ArrivedSteps(c)
    <3>1. Arrived(z) = z - 1 /\ z + 1 = (z - 1) + 2
      BY <1>14 DEF Arrived
    <3>2. CASE z <= 1
      <4>1. z \in {-2, 0} /\ z - 1 \in {-3, -1}
        BY <1>9, <1>14, <3>2
      <4>2. ~last
        BY <1>4, <1>6, <4>1
      <4>3. Two = TwoLines(c, z - 1, FALSE)
        BY <2>4, <4>2
      <4>4. CASE z - 1 = -3
        <5>1. Two = TwoLines(c, -3, FALSE) /\ Arrived(z) = -3 /\ z + 1 = (-3) + 2
          BY <3>1, <4>3, <4>4
        <5> QED BY <5>1, HeaderArrives
      <4>5. CASE z - 1 = -1
        <5>1. Two = TwoLines(c, -1, FALSE) /\ Arrived(z) = -1 /\ z + 1 = (-1) + 2
          BY <3>1, <4>3, <4>5
        <5> QED BY <5>1, HeaderArrives
      <4> QED BY <4>1, <4>4, <4>5
    <3>3. CASE z > 1
      <4>1. z - 1 \in 1 .. F - 1
        BY <1>2, <1>4, <3>3
      <4>2. (z - 1) + 1 = F => last
        BY <1>2, <1>4, <1>6
      <4>3. \E l \in BOOLEAN : Two = TwoLines(c, z - 1, l) /\ ((z - 1) + 1 = F => l)
        BY <2>4, <4>2
      <4> QED BY <3>1, <4>1, <4>3, ArrivedStep DEF F, c
    <3> QED BY <3>2, <3>3
  <2>6. z + 1 <= 1 => z + 1 \notin {-2, 0}
    BY <1>9, <1>14
  <2>7. ToReceiver(q, z + 1)'
    <3>1. tin'.state \in {"DEQ_START", "DEQ_WRITE"} /\ (last => tin'.state = "DEQ_START")
      BY <2>3
    <3> QED BY <1>9, <1>10, <2>3, <2>6, <3>1
  <2>8. Arrived(z + 1)' = z + 1
    BY <2>3 DEF Arrived
  <2>9. (tin'.state = "DEQ_START" <=> Two.last) /\ Two.last \in BOOLEAN
    BY <2>3, <2>4
  <2>10. \E k \in Nat : Ends(k, rk)' /\ FromNetwork(z + 1, u)'
    BY <1>1, <2>2, <2>5, <2>8, <2>9, BeatArrives DEF c, meta
  <2> QED BY <2>7, <2>10
<1> QED BY <1>12, <1>13, <1>14

(* pMpeGlobal of the receiver *)
LEMMA EndsTake ==
  ASSUME Lossless, NEW tk \in Nat, NEW rk \in Nat, Ends(tk, rk), fifo.tcpIn # << >>
  PROVE  /\ Carries(Tail(fifo.tcpIn), EndSteps(job.count),
                    IF Head(fifo.tcpIn).last THEN rk + 1 ELSE rk, tk)
         /\ tin.state = "DEQ_START" /\ Tail(fifo.tcpIn) # << >> =>
              Tail(fifo.tcpIn)[Len(Tail(fifo.tcpIn))].last
<1>1. /\ Carries(fifo.tcpIn, EndSteps(job.count), rk, tk) /\ IsSeq(fifo.tcpIn)
      /\ tin.state = "DEQ_START" /\ fifo.tcpIn # << >> => fifo.tcpIn[Len(fifo.tcpIn)].last
  BY CarriesRange DEF Ends, Metas
<1>2. PICK k \in Int : /\ <<Head(fifo.tcpIn), rk, k>> \in EndSteps(job.count)
                       /\ Carries(Tail(fifo.tcpIn), EndSteps(job.count), k, tk)
  BY <1>1, CarriesTake
<1>3. k = IF Head(fifo.tcpIn).last THEN rk + 1 ELSE rk
  BY <1>2, EndStepLeads
<1>4. Tail(fifo.tcpIn) # << >> =>
        Tail(fifo.tcpIn)[Len(Tail(fifo.tcpIn))] = fifo.tcpIn[Len(fifo.tcpIn)]
  BY <1>1, TailKeepsLast
<1> QED BY <1>1, <1>2, <1>3, <1>4

(* A packet without a header. *)
LEMMA RecvDataMoreStep ==
  ASSUME Lossless, Answers, NEW z \in Int, NEW u \in Int, NEW s \in Int,
         NEW tk \in Nat, NEW rk \in Nat,
         Ends(tk, rk), FromNetwork(z, u), ToLines(u, s), RecvDataMore
  PROVE  Ends(tk, rk)' /\ FromNetwork(z, u)' /\ ToLines(u, s)' /\ Answers'
<1>1. /\ re.state = "RECV_DATA_START" /\ fifo.meta > 0 /\ re.more
      /\ fifo' = [fifo EXCEPT !.meta = @ - 1]
      /\ re' = [re EXCEPT !.state = "RECV_DATA_RD"]
      /\ UNCHANGED <<job, sw, se, tin, dr, rw>>
  BY DEF RecvDataMore
<1>2. /\ fifo'.meta = fifo.meta - 1 /\ fifo'.tcpIn = fifo.tcpIn /\ fifo'.rx = fifo.rx
      /\ fifo'.expLen = fifo.expLen /\ fifo'.recvDone = fifo.recvDone /\ fifo'.ack = fifo.ack
      /\ fifo'.sendFeedback = fifo.sendFeedback /\ fifo'.recvFeedback = fifo.recvFeedback
  BY <1>1 DEF Lossless, Streamed
<1>3. Passing(u) /\ Parting(s, u) /\ ReceiverFlags(s, u) /\ Metas(tk, rk)
  BY DEF Ends, FromNetwork, ToLines
<1>4. /\ re' = [state |-> re'.state, first |-> re'.first, total |-> re'.total, more |-> re'.more,
                started |-> re'.started, inc |-> re'.inc, timer |-> re'.timer]
      /\ re'.state = "RECV_DATA_RD" /\ re'.total = re.total /\ re'.inc = 0
  <2>1. re = [state |-> re.state, first |-> re.first, total |-> re.total, more |-> re.more,
              started |-> re.started, inc |-> re.inc, timer |-> re.timer] /\ re.inc = 0
    BY <1>3 DEF Passing
  <2>2. re' = [state |-> re'.state, first |-> re'.first, total |-> re'.total, more |-> re'.more,
               started |-> re'.started, inc |-> re'.inc, timer |-> re'.timer]
    BY <1>1, <2>1
  <2>3. re'.state = "RECV_DATA_RD" /\ re'.total = re.total /\ re'.inc = 0
    BY <1>1, <2>1
  <2> QED BY <2>2, <2>3
<1>5. FromNetwork(z, u)'
  <2>1. u \in 1 .. Final(job.count)
    BY <1>1, <1>3 DEF Passing
  <2>2. Passing(u)'
    BY <1>1, <1>3, <1>4, <2>1 DEF Passing, Passed
  <2> QED BY <1>1, <1>2, <2>2 DEF FromNetwork, Arrived
<1>6. Ends(tk, rk)'
  <2>1. Metas(tk, rk)'
    <3> DEFINE late == IF tin.state # "DEQ_START" THEN 1 ELSE 0
    <3>1. fifo.meta \in Nat /\ fifo.meta = tk + late - rk - 0 /\ late \in {0, 1}
      BY <1>1, <1>3 DEF Metas
    <3> HIDE DEF late
    <3>2. fifo'.meta \in Nat /\ fifo'.meta = tk + late - rk - 1
      BY <1>1, <1>2, <3>1
    <3> QED BY <1>1, <1>2, <1>3, <1>4, <3>2 DEF Metas, late
  <2> QED BY <1>1, <1>2, <2>1 DEF Ends
<1>7. ToLines(u, s)'
  <2>1. Parting(s, u)'
    BY <1>1, <1>3 DEF Parting, Parted
  <2>2. ReceiverFlags(s, u)'
    BY <1>1, <1>2, <1>3, <1>4 DEF ReceiverFlags
  <2> QED BY <1>1, <1>2, <2>1, <2>2 DEF ToLines, Passed
<1>8. Answers'
  BY <1>1, <1>2, <1>4 DEF Answers
<1> QED BY <1>5, <1>6, <1>7, <1>8

(* The first beat of the header. *)
LEMMA RecvDataStartStep ==
  ASSUME Lossless, Answers, NEW z \in Int, NEW u \in Int, NEW s \in Int,
         NEW tk \in Nat, NEW rk \in Nat,
         Ends(tk, rk), FromNetwork(z, u), ToLines(u, s), RecvDataStart
  PROVE  Ends(tk, rk)' /\ FromNetwork(z, -1)' /\ ToLines(-1, s)' /\ Answers'
<1> DEFINE b == Head(fifo.tcpIn)
<1>1. /\ re.state = "RECV_DATA_START" /\ fifo.meta > 0 /\ ~re.more /\ fifo.tcpIn # << >>
      /\ fifo' = [fifo EXCEPT !.meta = @ - 1, !.tcpIn = Tail(@)]
      /\ re' = [re EXCEPT !.state = "RECV_DATA_START_1", !.first = b.lines]
      /\ UNCHANGED <<job, sw, se, tin, dr, rw>>
  BY DEF RecvDataStart, Some
<1>2. /\ fifo'.meta = fifo.meta - 1 /\ fifo'.tcpIn = Tail(fifo.tcpIn) /\ fifo'.rx = fifo.rx
      /\ fifo'.expLen = fifo.expLen /\ fifo'.recvDone = fifo.recvDone /\ fifo'.ack = fifo.ack
      /\ fifo'.sendFeedback = fifo.sendFeedback /\ fifo'.recvFeedback = fifo.recvFeedback
  BY <1>1 DEF Lossless, Streamed
<1>3. Passing(u) /\ Parting(s, u) /\ ReceiverFlags(s, u) /\ Metas(tk, rk) /\ u = -3
  BY <1>1 DEF Ends, FromNetwork, ToLines, Passing
<1>4. /\ job.count \in Nat /\ Final(job.count) \in Nat /\ Final(job.count) >= 1 /\ Depth \in Nat
  BY CountType, DataPathAssumption
<1>5. PICK d \in Int : /\ <<b, -3, d>> \in ArrivedSteps(job.count)
                       /\ Carries(Tail(fifo.tcpIn), ArrivedSteps(job.count), d, Arrived(z))
  BY <1>1, <1>3, CarriesTake DEF FromNetwork
<1>6. d = -1 /\ b = HeaderBeats[1] /\ b.last = FALSE /\ b.lines = HeaderBeats[1].lines
  <2>1. -3 \notin 1 .. Final(job.count) /\ -3 \notin 1 .. Final(job.count) - 1
    BY <1>4
  <2>2. d = (-3) + 2 /\ b = TwoLines(job.count, -3, FALSE)
    BY <1>5, <2>1, ArrivedStep
  <2>3. b.last = FALSE
    BY <2>2 DEF TwoLines
  <2>4. b = HeaderBeats[1]
    BY <1>4, <2>2, HeaderSteps
  <2> QED BY <2>2, <2>3, <2>4
<1>7. /\ re' = [state |-> re'.state, first |-> re'.first, total |-> re'.total, more |-> re'.more,
                started |-> re'.started, inc |-> re'.inc, timer |-> re'.timer]
      /\ re'.state = "RECV_DATA_START_1" /\ re'.total = re.total /\ re'.inc = 0
      /\ re'.first = HeaderBeats[1].lines
  <2>1. re = [state |-> re.state, first |-> re.first, total |-> re.total, more |-> re.more,
              started |-> re.started, inc |-> re.inc, timer |-> re.timer] /\ re.inc = 0
    BY <1>3 DEF Passing
  <2>2. re' = [state |-> re'.state, first |-> re'.first, total |-> re'.total, more |-> re'.more,
               started |-> re'.started, inc |-> re'.inc, timer |-> re'.timer]
    BY <1>1, <2>1
  <2>3. /\ re'.state = "RECV_DATA_START_1" /\ re'.total = re.total /\ re'.inc = 0
        /\ re'.first = b.lines
    BY <1>1, <2>1
  <2> QED BY <1>6, <2>2, <2>3
<1> HIDE DEF b
<1>8. FromNetwork(z, -1)'
  <2>1. Passing(-1)'
    <3>1. Passed(-1)' = 1 /\ Passed(-3) = 1
      BY DEF Passed
    <3> QED BY <1>3, <1>7, <3>1 DEF Passing
  <2>2. Len(fifo'.tcpIn) <= Depth
    <3>1. IsSeq(fifo.tcpIn) /\ Len(fifo.tcpIn) <= Depth
      BY CarriesRange DEF FromNetwork
    <3> QED BY <1>1, <1>2, <1>4, <3>1, TailFits
  <2>3. Arrived(z)' = Arrived(z)
    BY <1>1 DEF Arrived
  <2> QED BY <1>1, <1>2, <1>5, <1>6, <2>1, <2>2, <2>3 DEF FromNetwork
<1>9. Ends(tk, rk)'
  <2>1. /\ Carries(fifo'.tcpIn, EndSteps(job.count), rk, tk)
        /\ tin'.state = "DEQ_START" /\ fifo'.tcpIn # << >> => fifo'.tcpIn[Len(fifo'.tcpIn)].last
    BY <1>1, <1>2, <1>6, EndsTake DEF b
  <2>2. Metas(tk, rk)'
    <3> DEFINE late == IF tin.state # "DEQ_START" THEN 1 ELSE 0
    <3>1. fifo.meta \in Nat /\ fifo.meta = tk + late - rk - 0 /\ late \in {0, 1}
      BY <1>1, <1>3 DEF Metas
    <3> HIDE DEF late
    <3>2. fifo.meta > 0 /\ fifo'.meta = fifo.meta - 1
      BY <1>1, <1>2
    <3>3. fifo'.meta \in Nat /\ fifo'.meta = tk + late - rk - 1
      BY <3>1, <3>2
    <3> QED BY SMTT(30), <1>1, <1>7, <2>1, <3>3 DEF Metas, late
  <2> QED BY <1>1, <2>1, <2>2 DEF Ends
<1>10. ToLines(-1, s)'
  <2>1. dr.state = "DEQ_IDLE"
    BY <1>3 DEF Parting
  <2>2. Parting(s, -1)'
    BY <1>1, <1>3, <2>1 DEF Parting, Parted
  <2>3. ReceiverFlags(s, -1)'
    <3>1. ~(-3 >= 1) /\ ~(-1 >= 1)
      OBVIOUS
    <3> QED BY <1>1, <1>2, <1>3, <1>7, <3>1 DEF ReceiverFlags
  <2>4. Passed(-1)' = Passed(u)
    BY <1>3 DEF Passed
  <2> QED BY <1>1, <1>2, <2>2, <2>3, <2>4 DEF ToLines
<1>11. Answers'
  BY <1>1, <1>2, <1>7 DEF Answers
<1> QED BY <1>8, <1>9, <1>10, <1>11

(* The header is the one of the message. *)
LEMMA RecvDataStart1Step ==
  ASSUME Lossless, Answers, NEW z \in Int, NEW u \in Int, NEW s \in Int,
         NEW tk \in Nat, NEW rk \in Nat,
         Ends(tk, rk), FromNetwork(z, u), ToLines(u, s), RecvDataStart1
  PROVE  Ends(tk, rk)' /\ FromNetwork(z, 1)' /\ ToLines(1, s)' /\ Answers'
<1> DEFINE b  == Head(fifo.tcpIn)
           ok == IsHeader(re.first, b.lines)
<1>1. /\ re.state = "RECV_DATA_START_1" /\ fifo.tcpIn # << >>
      /\ fifo' = [fifo EXCEPT !.tcpIn = Tail(@),
                       !.expLen = IF ok THEN Append(@, LineCnt(job.count)) ELSE @]
      /\ re' = [re EXCEPT !.total = IF ok THEN 0 ELSE @,
                          !.state = IF ok THEN "RECV_DATA_RD"
                                    ELSE IF b.last THEN "RECV_DATA_START"
                                    ELSE "MPE_DRAIN_DATA_STREAM"]
      /\ UNCHANGED <<job, sw, se, tin, dr, rw>>
  BY DEF RecvDataStart1, Some
<1>2. /\ Passing(u) /\ Parting(s, u) /\ ReceiverFlags(s, u) /\ Metas(tk, rk) /\ u = -1
      /\ re.first = HeaderBeats[1].lines
  BY <1>1 DEF Ends, FromNetwork, ToLines, Passing
<1>3. /\ job.count \in Nat /\ Final(job.count) \in Nat /\ Final(job.count) >= 1 /\ Depth \in Nat
  BY CountType, DataPathAssumption
<1>4. PICK d \in Int : /\ <<b, -1, d>> \in ArrivedSteps(job.count)
                       /\ Carries(Tail(fifo.tcpIn), ArrivedSteps(job.count), d, Arrived(z))
  BY <1>1, <1>2, CarriesTake DEF FromNetwork
<1>5. d = 1 /\ b = HeaderBeats[2] /\ b.last = FALSE
  <2>1. -1 \notin 1 .. Final(job.count) /\ -1 \notin 1 .. Final(job.count) - 1
    BY <1>3
  <2>2. d = (-1) + 2 /\ b = TwoLines(job.count, -1, FALSE)
    BY <1>4, <2>1, ArrivedStep
  <2>3. b.last = FALSE
    BY <2>2 DEF TwoLines
  <2>4. b = HeaderBeats[2]
    BY <1>3, <2>2, HeaderSteps
  <2> QED BY <2>2, <2>3, <2>4
<1>6. ok
  BY <1>2, <1>5 DEF IsHeader
<1> HIDE DEF ok
<1>7. /\ fifo' = [fifo EXCEPT !.tcpIn = Tail(@), !.expLen = Append(@, LineCnt(job.count))]
      /\ re' = [re EXCEPT !.total = 0, !.state = "RECV_DATA_RD"]
  BY <1>1, <1>6
<1>8. /\ fifo'.meta = fifo.meta /\ fifo'.tcpIn = Tail(fifo.tcpIn) /\ fifo'.rx = fifo.rx
      /\ fifo'.expLen = Append(fifo.expLen, LineCnt(job.count))
      /\ fifo'.recvDone = fifo.recvDone /\ fifo'.ack = fifo.ack
      /\ fifo'.sendFeedback = fifo.sendFeedback /\ fifo'.recvFeedback = fifo.recvFeedback
  BY <1>7 DEF Lossless, Streamed
<1>9. /\ re' = [state |-> re'.state, first |-> re'.first, total |-> re'.total, more |-> re'.more,
                started |-> re'.started, inc |-> re'.inc, timer |-> re'.timer]
      /\ re'.state = "RECV_DATA_RD" /\ re'.total = 0 /\ re'.inc = 0
  <2>1. re = [state |-> re.state, first |-> re.first, total |-> re.total, more |-> re.more,
              started |-> re.started, inc |-> re.inc, timer |-> re.timer] /\ re.inc = 0
    BY <1>2 DEF Passing
  <2>2. re' = [state |-> re'.state, first |-> re'.first, total |-> re'.total, more |-> re'.more,
               started |-> re'.started, inc |-> re'.inc, timer |-> re'.timer]
    BY <1>7, <2>1
  <2>3. re'.state = "RECV_DATA_RD" /\ re'.total = 0 /\ re'.inc = 0
    BY <1>7, <2>1
  <2> QED BY <2>2, <2>3
<1>10. FromNetwork(z, 1)'
  <2>1. Passing(1)'
    <3>1. Passed(1)' = 1 /\ 1 \in 1 .. Final(job.count) /\ 2 * (1 - 1) = 0
      BY <1>3 DEF Passed
    <3> QED BY <1>1, <1>9, <3>1 DEF Passing
  <2>2. Len(fifo'.tcpIn) <= Depth
    <3>1. IsSeq(fifo.tcpIn) /\ Len(fifo.tcpIn) <= Depth
      BY CarriesRange DEF FromNetwork
    <3> QED BY <1>1, <1>3, <1>8, <3>1, TailFits
  <2>3. Arrived(z)' = Arrived(z)
    BY <1>1 DEF Arrived
  <2> QED BY <1>1, <1>4, <1>5, <1>8, <2>1, <2>2, <2>3 DEF FromNetwork
<1>11. Ends(tk, rk)'
  <2>1. /\ Carries(fifo'.tcpIn, EndSteps(job.count), rk, tk)
        /\ tin'.state = "DEQ_START" /\ fifo'.tcpIn # << >> => fifo'.tcpIn[Len(fifo'.tcpIn)].last
    BY <1>1, <1>5, <1>8, EndsTake
  <2>2. Metas(tk, rk)'
    <3> DEFINE late == IF tin.state # "DEQ_START" THEN 1 ELSE 0
    <3>1. fifo.meta \in Nat /\ fifo.meta = tk + late - rk - 1
      BY <1>1, <1>2 DEF Metas
    <3>2. fifo'.meta \in Nat /\ fifo'.meta = tk + late - rk - 1
      BY <1>8, <3>1
    <3> QED BY <1>1, <1>9, <2>1, <3>2 DEF Metas
  <2> QED BY <1>1, <2>1, <2>2 DEF Ends
<1>12. ToLines(1, s)'
  <2>1. dr.state = "DEQ_IDLE" /\ Passed(u) = 1 /\ Passed(1)' = 1
    BY <1>2 DEF Parting, Passed
  <2>2. s = 1
    <3>1. s <= 1 /\ s \in 1 .. Final(job.count) + 1
      BY <1>2, <2>1, CarriesRange DEF ToLines, Parting
    <3> QED BY <1>3, <3>1
  <2>3. Parting(s, 1)'
    BY <1>1, <1>2, <2>1 DEF Parting, Parted
  <2>4. ReceiverFlags(s, 1)'
    <3>1. ~(-1 >= 1) /\ s # Final(job.count) + 1
      BY <1>3, <2>2
    <3>2. fifo.expLen = << >>
      BY <1>2, <3>1 DEF ReceiverFlags
    <3> QED BY <1>1, <1>2, <1>8, <1>9, <2>1, <2>2, <3>1, <3>2 DEF ReceiverFlags
  <2> QED BY <1>1, <1>8, <2>1, <2>3, <2>4 DEF ToLines
<1>13. Answers'
  BY <1>1, <1>8, <1>9 DEF Answers
<1> QED BY <1>10, <1>11, <1>12, <1>13

(* A beat that has arrived, of the data. *)
LEMMA DataArrived ==
  ASSUME NEW c \in Nat, NEW b, NEW a \in 1 .. Final(c), NEW d \in Int,
         <<b, a, d>> \in ArrivedSteps(c)
  PROVE  /\ d \in 2 .. Final(c) + 1 /\ d > a /\ b.last \in BOOLEAN
         /\ WordCnt(b) = 2 * (d - a) /\ (~b.last => d <= Final(c))
         /\ \/ d = a + 2 /\ b.lines = <<LineAt(c, a), LineAt(c, a + 1)>>
            \/ d = a + 1 /\ b.lines = <<LineAt(c, a)>>
<1>1. Final(c) \in Nat /\ Final(c) >= 1
  BY FinalType
<1>2. a \notin {-3, -1}
  BY <1>1
<1>3. \/ /\ a \in 1 .. Final(c) - 1 /\ d = a + 2
         /\ \E last \in BOOLEAN : b = TwoLines(c, a, last) /\ (a + 1 = Final(c) => last)
      \/ d = a + 1 /\ b = OneLine(c, a, TRUE)
  <2>1. \/ a \in {-3, -1} /\ d = a + 2 /\ b = TwoLines(c, a, FALSE)
        \/ /\ a \in 1 .. Final(c) - 1 /\ d = a + 2
           /\ \E last \in BOOLEAN : b = TwoLines(c, a, last) /\ (a + 1 = Final(c) => last)
        \/ a \in 1 .. Final(c) /\ d = a + 1 /\ b = OneLine(c, a, TRUE)
    BY ArrivedStep
  <2> QED BY <1>2, <2>1, Zenon
<1>4. ASSUME a \in 1 .. Final(c) - 1, d = a + 2, NEW last \in BOOLEAN,
             b = TwoLines(c, a, last), a + 1 = Final(c) => last
      PROVE  /\ d \in 2 .. Final(c) + 1 /\ d > a /\ b.last \in BOOLEAN
             /\ WordCnt(b) = 2 * (d - a) /\ (~b.last => d <= Final(c))
             /\ b.lines = <<LineAt(c, a), LineAt(c, a + 1)>>
  <2>1. b.lines = <<LineAt(c, a), LineAt(c, a + 1)>> /\ b.last = last
    BY <1>4 DEF TwoLines
  <2>2. Len(b.lines) = 2
    BY <2>1
  <2>3. WordCnt(b) = 2 * (d - a)
    BY <1>4, <2>2 DEF WordCnt
  <2>4. d \in 2 .. Final(c) + 1 /\ d > a
    BY <1>1, <1>4
  <2>5. a + 1 # Final(c) => d <= Final(c)
    BY <1>1, <1>4
  <2> QED BY <1>4, <2>1, <2>3, <2>4, <2>5
<1>5. CASE d = a + 1 /\ b = OneLine(c, a, TRUE)
  <2>1. b.lines = <<LineAt(c, a)>> /\ b.last = TRUE
    BY <1>5 DEF OneLine
  <2>2. Len(b.lines) = 1
    BY <2>1
  <2>3. WordCnt(b) = 2 * (d - a)
    <3>1. d - a = 1
      BY <1>1, <1>5
    <3> QED BY <2>2, <3>1 DEF WordCnt
  <2>4. d \in 2 .. Final(c) + 1 /\ d > a
    BY <1>1, <1>5
  <2> QED BY <1>5, <2>1, <2>3, <2>4
<1> QED BY <1>3, <1>4, <1>5

(* A beat of the data; the end is found at the end of a packet. *)
LEMMA RecvDataRdStep ==
  ASSUME Lossless, Answers, NEW z \in Int, NEW u \in Int, NEW s \in Int,
         NEW tk \in Nat, NEW rk \in Nat,
         Ends(tk, rk), FromNetwork(z, u), ToLines(u, s), RecvDataRd
  PROVE  \E d \in Int, k \in Nat :
           Ends(tk, k)' /\ FromNetwork(z, d)' /\ ToLines(d, s)' /\ Answers'
<1> DEFINE c == job.count
           F == Final(job.count)
           b == Head(fifo.tcpIn)
           total == re.total + WordCnt(b)
           more == [re EXCEPT !.total = total, !.state = "RECV_DATA_START",
                              !.more = TRUE, !.started = TRUE, !.timer = "running"]
<1>1. /\ re.state = "RECV_DATA_RD" /\ fifo.tcpIn # << >> /\ Len(fifo.rx) < Depth
      /\ fifo' = [fifo EXCEPT !["tcpIn"] = Tail(@), !["rx"] = Append(@, b)]
      /\ re' = IF ~b.last THEN [re EXCEPT !.total = total]
               ELSE IF total < job.count THEN more
               ELSE [re EXCEPT !.total = total, !.state = "RECV_DATA_WRD"]
      /\ UNCHANGED <<job, sw, se, tin, dr, rw>>
  BY DEF RecvDataRd, Some, Room, Move
<1>2. /\ fifo'.meta = fifo.meta /\ fifo'.tcpIn = Tail(fifo.tcpIn)
      /\ fifo'.rx = Append(fifo.rx, b) /\ fifo'.expLen = fifo.expLen
      /\ fifo'.recvDone = fifo.recvDone /\ fifo'.ack = fifo.ack
      /\ fifo'.sendFeedback = fifo.sendFeedback /\ fifo'.recvFeedback = fifo.recvFeedback
  BY <1>1 DEF Lossless, Streamed
<1>3. Passing(u) /\ Parting(s, u) /\ ReceiverFlags(s, u) /\ Metas(tk, rk)
  BY DEF Ends, FromNetwork, ToLines
<1>4. /\ F \in Nat /\ F >= 1 /\ Depth \in Nat /\ c \in Nat
      /\ 2 * F >= c /\ (c > 0 => 2 * F <= c + 1) /\ (c = 0 => F = 1)
  BY CountType, DataPathAssumption
<1>5. /\ re = [state |-> re.state, first |-> re.first, total |-> re.total, more |-> re.more,
               started |-> re.started, inc |-> re.inc, timer |-> re.timer]
      /\ re.inc = 0 /\ u \in 1 .. F /\ re.total = 2 * (u - 1)
  <2>1. u \in 1 .. F
    BY <1>1, <1>3 DEF Passing
  <2>2. Passed(u) = u
    BY <2>1 DEF Passed
  <2> QED BY <1>3, <2>1, <2>2 DEF Passing
<1>6. PICK d \in Int : /\ <<b, u, d>> \in ArrivedSteps(c)
                       /\ Carries(Tail(fifo.tcpIn), ArrivedSteps(c), d, Arrived(z))
  BY <1>1, CarriesTake DEF FromNetwork
<1>7. /\ d \in 2 .. F + 1 /\ d > u /\ b.last \in BOOLEAN /\ WordCnt(b) = 2 * (d - u)
      /\ ~b.last => d <= F
  BY <1>4, <1>5, <1>6, DataArrived
<1>8. PICK k \in Nat : k = IF b.last THEN rk + 1 ELSE rk
  OBVIOUS
<1>15. UNCHANGED <<job, sw, se, tin, dr, rw>>
  BY <1>1
<1> HIDE DEF b, F, c
<1>9. total = 2 * (d - 1) /\ (total < c <=> d <= F) /\ (d > F => d = F + 1)
  <2>1. total = 2 * (d - 1)
    BY <1>5, <1>7
  <2>2. 2 * (d - 1) < c <=> d <= F
    BY <1>4, <1>7
  <2>3. d > F => d = F + 1
    BY <1>4, <1>7
  <2> QED BY <2>1, <2>2, <2>3
<1> HIDE DEF total
<1>10. /\ re' = [state |-> re'.state, first |-> re'.first, total |-> re'.total, more |-> re'.more,
                 started |-> re'.started, inc |-> re'.inc, timer |-> re'.timer]
       /\ re'.total = 2 * (d - 1) /\ re'.inc = 0
       /\ re'.state = IF ~b.last THEN "RECV_DATA_RD"
                      ELSE IF d <= F THEN "RECV_DATA_START" ELSE "RECV_DATA_WRD"
       /\ re'.state = "RECV_DATA_START" => re'.more
  <2>1. CASE ~b.last
    <3>1. re' = [re EXCEPT !.total = total]
      BY <1>1, <2>1
    <3>2. re' = [state |-> re'.state, first |-> re'.first, total |-> re'.total,
                 more |-> re'.more, started |-> re'.started, inc |-> re'.inc,
                 timer |-> re'.timer]
      BY <1>5, <3>1
    <3>3. re'.total = total /\ re'.inc = 0 /\ re'.state = "RECV_DATA_RD"
      BY <1>1, <1>5, <3>1
    <3> QED BY <1>9, <2>1, <3>2, <3>3
  <2>2. CASE b.last /\ d <= F
    <3>1. re' = more
      BY <1>1, <1>9, <2>2 DEF c
    <3>2. re' = [state |-> re'.state, first |-> re'.first, total |-> re'.total,
                 more |-> re'.more, started |-> re'.started, inc |-> re'.inc,
                 timer |-> re'.timer]
      BY <1>5, <3>1
    <3>3. /\ re'.total = total /\ re'.inc = 0 /\ re'.state = "RECV_DATA_START"
          /\ re'.more = TRUE
      BY <1>5, <3>1
    <3> QED BY <1>9, <2>2, <3>2, <3>3
  <2>3. CASE b.last /\ ~(d <= F)
    <3>1. re' = [re EXCEPT !.total = total, !.state = "RECV_DATA_WRD"]
      BY <1>1, <1>9, <2>3 DEF c
    <3>2. re' = [state |-> re'.state, first |-> re'.first, total |-> re'.total,
                 more |-> re'.more, started |-> re'.started, inc |-> re'.inc,
                 timer |-> re'.timer]
      BY <1>5, <3>1
    <3>3. re'.total = total /\ re'.inc = 0 /\ re'.state = "RECV_DATA_WRD"
      BY <1>5, <3>1
    <3> QED BY <1>9, <2>3, <3>2, <3>3
  <2> QED BY <2>1, <2>2, <2>3
<1>11. FromNetwork(z, d)'
  <2>1. Passing(d)'
    <3>1. Passed(d)' = d
      BY <1>7 DEF Passed
    <3>2. \/ re'.state = "RECV_DATA_RD" /\ d \in 1 .. F
          \/ re'.state = "RECV_DATA_START" /\ re'.more /\ d \in 1 .. F
          \/ re'.state = "RECV_DATA_WRD" /\ d = F + 1
      <4>1. CASE ~b.last
        BY <1>4, <1>7, <1>10, <4>1
      <4>2. CASE b.last /\ d <= F
        BY <1>4, <1>7, <1>10, <4>2
      <4>3. CASE b.last /\ ~(d <= F)
        BY <1>4, <1>7, <1>9, <1>10, <4>3
      <4> QED BY <4>1, <4>2, <4>3
    <3> QED BY <1>10, <1>15, <3>1, <3>2 DEF Passing, F
  <2>2. Len(fifo'.tcpIn) <= Depth
    <3>1. IsSeq(fifo.tcpIn) /\ Len(fifo.tcpIn) <= Depth
      BY CarriesRange DEF FromNetwork
    <3> QED BY <1>1, <1>2, <1>4, <3>1, TailFits
  <2>3. Arrived(z)' = Arrived(z)
    BY <1>15 DEF Arrived
  <2> QED BY <1>2, <1>6, <1>15, <2>1, <2>2, <2>3 DEF FromNetwork, c
<1>12. Ends(tk, k)'
  <2>1. /\ Carries(fifo'.tcpIn, EndSteps(job.count), k, tk)
        /\ tin'.state = "DEQ_START" /\ fifo'.tcpIn # << >> => fifo'.tcpIn[Len(fifo'.tcpIn)].last
    BY <1>1, <1>2, <1>8, EndsTake DEF b
  <2>2. Metas(tk, k)'
    <3> DEFINE late == IF tin.state # "DEQ_START" THEN 1 ELSE 0
               begun == IF re'.state \in {"RECV_DATA_START_1", "RECV_DATA_RD"} THEN 1 ELSE 0
    <3>1. fifo.meta \in Nat /\ fifo.meta = tk + late - rk - 1 /\ late \in {0, 1}
      BY <1>1, <1>3 DEF Metas
    <3>2. rk + 1 = k + begun /\ begun \in {0, 1}
      <4>1. CASE b.last
        <5>1. begun = 0 /\ k = rk + 1
          BY <1>8, <1>10, <4>1
        <5> QED BY <5>1
      <4>2. CASE ~b.last
        <5>1. begun = 1 /\ k = rk
          BY <1>8, <1>10, <4>2
        <5> QED BY <5>1
      <4> QED BY <1>7, <4>1, <4>2
    <3> HIDE DEF late, begun
    <3>4. fifo'.meta = fifo.meta
      BY <1>2
    <3>3. fifo'.meta \in Nat /\ fifo'.meta = tk + late - k - begun
      BY <3>1, <3>2, <3>4
    <3> QED BY <1>15, <2>1, <3>3 DEF Metas, late, begun
  <2> QED BY <1>15, <2>1, <2>2 DEF Ends
<1>13. ToLines(d, s)'
  <2>1. Passed(u) = u /\ Passed(d)' = d
    BY <1>5, <1>7 DEF Passed
  <2>2. Carries(fifo.rx, ArrivedSteps(c), s, u) /\ IsSeq(fifo.rx)
    BY <2>1, CarriesRange DEF ToLines, c
  <2>3. Carries(fifo'.rx, ArrivedSteps(c), s, d)
    <3>1. u <= d
      BY <1>7
    <3> QED BY <1>2, <1>6, <2>2, <3>1, CarriesPut
  <2>4. Len(fifo'.rx) <= Depth
    <3>1. Len(fifo'.rx) = Len(fifo.rx) + 1 /\ Len(fifo.rx) \in Nat
      BY <1>2, <2>2, AppendAny
    <3>2. Len(fifo.rx) < Depth
      BY <1>1
    <3> QED BY <1>4, <3>1, <3>2
  <2>5. Parting(s, d)'
    <3>1. d >= 1
      BY <1>7
    <3> QED BY <1>3, <1>15, <3>1 DEF Parting, Parted
  <2>6. ReceiverFlags(s, d)'
    <3>1. u >= 1 /\ d >= 1
      BY <1>5, <1>7
    <3>2. re'.state # "IDLE"
      BY <1>10
    <3>3. re.state # "IDLE"
      BY <1>1
    <3> QED BY <1>2, <1>3, <1>15, <3>1, <3>2, <3>3 DEF ReceiverFlags
  <2> QED BY <1>15, <2>1, <2>3, <2>4, <2>5, <2>6 DEF ToLines, c
<1>14. Answers'
  <2>1. re'.state # "IDLE"
    BY <1>10
  <2>2. re.state # "IDLE"
    BY <1>1
  <2> QED BY <1>2, <1>15, <2>1, <2>2 DEF Answers
<1> QED BY <1>8, <1>11, <1>12, <1>13, <1>14

(* The engine acknowledges, and tells the wrapper. *)
LEMMA RecvDataWrdStep ==
  ASSUME Lossless, Answers, NEW z \in Int, NEW u \in Int, NEW s \in Int,
         NEW tk \in Nat, NEW rk \in Nat,
         Ends(tk, rk), FromNetwork(z, u), ToLines(u, s), RecvDataWrd
  PROVE  Ends(tk, rk)' /\ FromNetwork(z, u)' /\ ToLines(u, s)' /\ Answers'
<1>1. /\ re.state = "RECV_DATA_WRD" /\ fifo.recvDone > 0
      /\ fifo' = [fifo EXCEPT !.recvDone = @ - 1, !.ack = @ + 1,
                              !.recvFeedback = Append(@, "OK")]
      /\ re' = [re EXCEPT !.state = "IDLE"]
      /\ UNCHANGED <<job, sw, se, tin, dr, rw>>
  BY DEF RecvDataWrd
<1>2. /\ fifo'.meta = fifo.meta /\ fifo'.tcpIn = fifo.tcpIn /\ fifo'.rx = fifo.rx
      /\ fifo'.expLen = fifo.expLen /\ fifo'.recvDone = fifo.recvDone - 1
      /\ fifo'.ack = fifo.ack + 1 /\ fifo'.sendFeedback = fifo.sendFeedback
      /\ fifo'.recvFeedback = Append(fifo.recvFeedback, "OK")
  BY <1>1 DEF Lossless, Streamed
<1>3. Passing(u) /\ Parting(s, u) /\ ReceiverFlags(s, u) /\ Metas(tk, rk)
  BY DEF Ends, FromNetwork, ToLines
<1>4. /\ re' = [state |-> re'.state, first |-> re'.first, total |-> re'.total, more |-> re'.more,
                started |-> re'.started, inc |-> re'.inc, timer |-> re'.timer]
      /\ re'.state = "IDLE" /\ re'.total = re.total /\ re'.inc = 0
  <2>1. re = [state |-> re.state, first |-> re.first, total |-> re.total, more |-> re.more,
              started |-> re.started, inc |-> re.inc, timer |-> re.timer] /\ re.inc = 0
    BY <1>3 DEF Passing
  <2>2. re' = [state |-> re'.state, first |-> re'.first, total |-> re'.total, more |-> re'.more,
               started |-> re'.started, inc |-> re'.inc, timer |-> re'.timer]
    BY <1>1, <2>1
  <2>3. re'.state = "IDLE" /\ re'.total = re.total /\ re'.inc = 0
    BY <1>1, <2>1
  <2> QED BY <2>2, <2>3
<1>5. fifo.recvDone = 1 /\ dr.state = "DEQ_IDLE" /\ s = Final(job.count) + 1
  BY <1>1, <1>3 DEF ReceiverFlags
<1>6. FromNetwork(z, u)'
  <2>1. Passing(u)'
    BY <1>1, <1>3, <1>4 DEF Passing, Passed
  <2> QED BY <1>1, <1>2, <2>1 DEF FromNetwork, Arrived
<1>7. Ends(tk, rk)'
  <2>1. Metas(tk, rk)'
    BY <1>1, <1>2, <1>3, <1>4 DEF Metas
  <2> QED BY <1>1, <1>2, <2>1 DEF Ends
<1>8. ToLines(u, s)'
  <2>1. Parting(s, u)'
    BY <1>1, <1>3 DEF Parting, Parted
  <2>2. ReceiverFlags(s, u)'
    BY <1>1, <1>2, <1>3, <1>4, <1>5 DEF ReceiverFlags
  <2> QED BY <1>1, <1>2, <2>1, <2>2 DEF ToLines, Passed
<1>9. Answers'
  <2>1. /\ fifo.ack = 0 /\ fifo.recvFeedback = << >> /\ fifo.sendFeedback = << >>
        /\ se.state # "IDLE" /\ rw.state # "RECV_DONE" /\ sw.state # "SEND_DONE"
    BY <1>1 DEF Answers
  <2>2. /\ fifo'.ack = 1 /\ fifo'.recvFeedback = <<"OK">> /\ fifo'.sendFeedback = << >>
        /\ se'.state # "IDLE" /\ rw'.state # "RECV_DONE" /\ sw'.state # "SEND_DONE"
    BY <1>1, <1>2, <2>1
  <2> QED BY <1>4, <2>2 DEF Answers
<1> QED BY <1>6, <1>7, <1>8, <1>9

(* pDeqRecv *)
LEMMA DeqRecvIdleStep ==
  ASSUME Lossless, NEW u \in Int, NEW s \in Int, NEW f \in Int,
         ToLines(u, s), ToWrapper(s, f), DeqRecvIdle
  PROVE  ToLines(u, s)' /\ ToWrapper(s, f)'
<1>1. /\ dr.state = "DEQ_IDLE" /\ fifo.expLen # << >> /\ UNCHANGED <<job, re, rw, dst>>
      /\ dr' = [dr EXCEPT !.state = "DEQ_WRITE", !.exp = Head(fifo.expLen), !.total = 0]
      /\ fifo' = [fifo EXCEPT !.expLen = Tail(@)]
  BY DEF DeqRecvIdle
<1>2. /\ fifo'.rx = fifo.rx /\ fifo'.app = fifo.app /\ fifo'.recvDone = fifo.recvDone
      /\ fifo'.expLen = Tail(fifo.expLen)
  BY <1>1 DEF Lossless, Streamed
<1>3. /\ Parting(s, u) /\ ReceiverFlags(s, u) /\ Final(job.count) \in Nat
      /\ Final(job.count) >= 1
  BY CountType DEF ToLines
<1>4. u >= 1 /\ s = 1 /\ fifo.expLen = <<LineCnt(job.count)>> /\ re.state # "IDLE"
  BY <1>1, <1>3 DEF ReceiverFlags
<1>5. /\ dr' = [state |-> dr'.state, exp |-> dr'.exp, total |-> dr'.total, second |-> dr'.second]
      /\ dr'.state = "DEQ_WRITE" /\ dr'.exp = LineCnt(job.count) /\ dr'.total = 0
      /\ dr'.second = dr.second
  <2>1. dr = [state |-> dr.state, exp |-> dr.exp, total |-> dr.total, second |-> dr.second]
    BY <1>3 DEF Parting
  <2>2. dr' = [dr EXCEPT !.state = "DEQ_WRITE", !.exp = LineCnt(job.count), !.total = 0]
    BY <1>1, <1>4
  <2>3. dr' = [state |-> dr'.state, exp |-> dr'.exp, total |-> dr'.total, second |-> dr'.second]
    BY <2>1, <2>2
  <2>4. /\ dr'.state = "DEQ_WRITE" /\ dr'.exp = LineCnt(job.count) /\ dr'.total = 0
        /\ dr'.second = dr.second
    BY <2>1, <2>2
  <2> QED BY <2>3, <2>4
<1>6. Parted(s) = s /\ Parted(s)' = s
  BY <1>1, <1>5 DEF Parted
<1>7. ToLines(u, s)'
  <2>1. Parting(s, u)'
    <3>1. 0 = 1 - 1 /\ 1 \in 1 .. Final(job.count) + 1
      BY <1>3
    <3> QED BY <1>1, <1>3, <1>4, <1>5, <1>6, <3>1 DEF Parting
  <2>2. ReceiverFlags(s, u)'
    <3>1. fifo'.expLen = << >>
      BY <1>2, <1>4
    <3>2. s # Final(job.count) + 1
      BY <1>3, <1>4
    <3>3. fifo.recvDone = 0
      BY <1>3, <3>2 DEF ReceiverFlags
    <3> QED BY <1>1, <1>2, <1>4, <1>5, <3>1, <3>3 DEF ReceiverFlags
  <2> QED BY <1>1, <1>2, <2>1, <2>2 DEF ToLines, Passed
<1>8. ToWrapper(s, f)'
  <2>1. Receiving(f)' /\ Held(f)'
    BY <1>1 DEF ToWrapper, Receiving, Held, RightMemory, SmallMessage
  <2> QED BY <1>1, <1>2, <1>6, <2>1 DEF ToWrapper
<1> QED BY <1>7, <1>8

(* All lines are written. *)
LEMMA DeqRecvDoneStep ==
  ASSUME Lossless, NEW u \in Int, NEW s \in Int, NEW f \in Int,
         ToLines(u, s), ToWrapper(s, f), DeqRecvDone
  PROVE  ToLines(u, s)' /\ ToWrapper(s, f)'
<1>1. /\ dr.state = "DEQ_DONE" /\ UNCHANGED <<job, re, rw, dst>>
      /\ dr' = [dr EXCEPT !.state = "DEQ_IDLE"]
      /\ fifo' = [fifo EXCEPT !.recvDone = @ + 1]
  BY DEF DeqRecvDone
<1>2. /\ fifo'.rx = fifo.rx /\ fifo'.app = fifo.app /\ fifo'.recvDone = fifo.recvDone + 1
      /\ fifo'.expLen = fifo.expLen
  BY <1>1 DEF Lossless, Streamed
<1>3. /\ Parting(s, u) /\ ReceiverFlags(s, u) /\ Final(job.count) \in Nat
      /\ Final(job.count) >= 1
  BY CountType DEF ToLines
<1>4. s = Final(job.count) + 1 /\ s # 1 /\ re.state # "IDLE" /\ fifo.recvDone = 0
      /\ fifo.expLen = << >>
  BY <1>1, <1>3 DEF Parting, ReceiverFlags
<1>5. /\ dr' = [state |-> dr'.state, exp |-> dr'.exp, total |-> dr'.total, second |-> dr'.second]
      /\ dr'.state = "DEQ_IDLE" /\ dr'.exp = dr.exp /\ dr'.total = dr.total
      /\ dr'.second = dr.second
  <2>1. dr = [state |-> dr.state, exp |-> dr.exp, total |-> dr.total, second |-> dr.second]
    BY <1>3 DEF Parting
  <2>2. dr' = [state |-> dr'.state, exp |-> dr'.exp, total |-> dr'.total, second |-> dr'.second]
    BY <1>1, <2>1
  <2>3. /\ dr'.state = "DEQ_IDLE" /\ dr'.exp = dr.exp /\ dr'.total = dr.total
        /\ dr'.second = dr.second
    BY <1>1, <2>1
  <2> QED BY <2>2, <2>3
<1>6. Parted(s) = s /\ Parted(s)' = s
  BY <1>1, <1>5 DEF Parted
<1>7. ToLines(u, s)'
  <2>1. Parting(s, u)'
    BY <1>1, <1>3, <1>4, <1>5, <1>6 DEF Parting
  <2>2. ReceiverFlags(s, u)'
    BY <1>1, <1>2, <1>4, <1>5 DEF ReceiverFlags
  <2> QED BY <1>1, <1>2, <2>1, <2>2 DEF ToLines, Passed
<1>8. ToWrapper(s, f)'
  <2>1. Receiving(f)' /\ Held(f)'
    BY <1>1 DEF ToWrapper, Receiving, Held, RightMemory, SmallMessage
  <2> QED BY <1>1, <1>2, <1>6, <2>1 DEF ToWrapper
<1> QED BY <1>7, <1>8

(* A line goes to the wrapper. *)
LEMMA LineGoes ==
  ASSUME Lossless, NEW s \in Int, NEW f \in Int, NEW d \in Int, ToWrapper(s, f),
         UNCHANGED <<job, rw, dst>>, Parted(s) \in 1 .. Final(job.count), Room("app"),
         fifo'.app = Append(fifo.app, [line |-> LineAt(job.count, Parted(s)),
                                       last |-> (Parted(s) >= Final(job.count))]),
         Parted(d)' = Parted(s) + 1
  PROVE  ToWrapper(d, f)'
<1> DEFINE c == job.count
           a == Parted(s)
           x == [line |-> LineAt(c, a), last |-> (a >= Final(c))]
<1>1. Carries(fifo.app, LineSteps(c), f, a) /\ IsSeq(fifo.app) /\ Len(fifo.app) < Depth
  BY CarriesRange DEF ToWrapper, Room
<1>2. <<x, a, a + 1>> \in LineSteps(c)
  <2>1. a \in 1 .. Final(c)
    OBVIOUS
  <2> HIDE DEF a, c
  <2> QED BY <2>1, LineStep
<1>3. Carries(fifo'.app, LineSteps(c), f, a + 1)
  <2>1. a \in Int /\ a <= a + 1 /\ a + 1 \in Int
    <3>1. a \in 1 .. Final(c) /\ Final(c) \in Nat
      BY CountType
    <3> HIDE DEF a, c
    <3> QED BY <3>1
  <2>2. fifo'.app = Append(fifo.app, x)
    OBVIOUS
  <2> HIDE DEF a, c, x
  <2> QED BY <1>1, <1>2, <2>1, <2>2, CarriesPut
<1>4. Len(fifo'.app) <= Depth
  <2>1. Len(fifo'.app) = Len(fifo.app) + 1 /\ Len(fifo.app) \in Nat
    BY <1>1, AppendAny
  <2>2. Depth \in Nat
    BY DataPathAssumption
  <2> QED BY <1>1, <2>1, <2>2
<1>5. Receiving(f)' /\ Held(f)'
  BY DEF ToWrapper, Receiving, Held, RightMemory, SmallMessage
<1> QED BY <1>3, <1>4, <1>5 DEF ToWrapper

(* The count of lines says the same as the count of words. *)
LEMMA LineReachedIs ==
  ASSUME Lossless, NEW u \in Int, NEW s \in Int, Parting(s, u),
         dr.state \in {"DEQ_WRITE", "DEQ_WRITE_2"}
  PROVE  /\ Parted(s) \in 1 .. Final(job.count)
         /\ LineReached = (Parted(s) >= Final(job.count))
         /\ dr.total + 1 = Parted(s)
<1> DEFINE F == Final(job.count)
           a == Parted(s)
<1>1. /\ F \in Nat /\ F >= 1 /\ LineCnt(job.count) \in Nat /\ job.count \in Nat
      /\ (job.count > 0 => F = LineCnt(job.count))
      /\ (job.count = 0 => F = 1 /\ LineCnt(job.count) = 0)
  BY CountType
<1>2. s \in 1 .. F + 1 /\ dr.total = a - 1 /\ dr.exp = LineCnt(job.count)
  BY DEF Parting
<1>3. a \in 1 .. F
  <2>1. CASE dr.state = "DEQ_WRITE"
    <3>1. s <= F /\ a = s
      BY <2>1 DEF Parting, Parted
    <3> QED BY <1>1, <1>2, <3>1
  <2>2. CASE dr.state = "DEQ_WRITE_2"
    <3>1. s > 1 /\ a = s - 1
      BY <2>2 DEF Parting, Parted
    <3> QED BY <1>1, <1>2, <3>1
  <2> QED BY <2>1, <2>2
<1> HIDE DEF F, a
<1>4. dr.total + 1 = a
  BY <1>1, <1>2, <1>3
<1>5. (a >= LineCnt(job.count)) = (a >= F)
  BY <1>1, <1>3
<1>6. LineReached = (a >= F)
  BY <1>2, <1>4, <1>5 DEF LineReached
<1> QED BY <1>3, <1>4, <1>6 DEF F, a

(* The first line of a beat. *)
LEMMA DeqRecvWriteStep ==
  ASSUME Lossless, NEW u \in Int, NEW s \in Int, NEW f \in Int,
         ToLines(u, s), ToWrapper(s, f), DeqRecvWrite
  PROVE  \E d \in Int : ToLines(u, d)' /\ ToWrapper(d, f)'
<1> DEFINE c == job.count
           F == Final(job.count)
           b == Head(fifo.rx)
<1>1. /\ dr.state = "DEQ_WRITE" /\ fifo.rx # << >> /\ Room("app")
      /\ fifo' = [fifo EXCEPT !["rx"] = Tail(@),
                              !["app"] = Append(@, [line |-> b.lines[1], last |-> LineReached])]
      /\ dr' = [dr EXCEPT !.total = @ + 1, !.second = Second(b),
                          !.state = IF LineReached THEN "DEQ_DONE"
                                    ELSE IF Len(b.lines) = 2 THEN "DEQ_WRITE_2" ELSE @]
      /\ UNCHANGED <<job, re, rw, dst>>
  BY DEF DeqRecvWrite, Some, Move
<1>2. /\ fifo'.rx = Tail(fifo.rx) /\ fifo'.recvDone = fifo.recvDone
      /\ fifo'.app = Append(fifo.app, [line |-> b.lines[1], last |-> LineReached])
      /\ fifo'.expLen = fifo.expLen
  BY <1>1 DEF Lossless, Streamed
<1>3. /\ Parting(s, u) /\ ReceiverFlags(s, u) /\ F \in Nat /\ F >= 1 /\ Depth \in Nat
      /\ c \in Counts /\ c \in Nat /\ Parted(s) = s
  BY <1>1, CountType, DataPathAssumption DEF ToLines, Parted
<1>4. /\ s \in 1 .. F /\ dr.total = s - 1 /\ dr.exp = LineCnt(c) /\ u >= 1
      /\ dr = [state |-> dr.state, exp |-> dr.exp, total |-> dr.total, second |-> dr.second]
  <2>1. s <= F
    BY <1>1, <1>3 DEF Parting
  <2> QED BY <1>1, <1>3, <2>1 DEF Parting
<1>5. LineReached = (s >= F)
  BY <1>1, <1>3, LineReachedIs
<1>6. PICK d \in Int : /\ <<b, s, d>> \in ArrivedSteps(c)
                       /\ Carries(Tail(fifo.rx), ArrivedSteps(c), d, Passed(u))
  BY <1>1, CarriesTake DEF ToLines
<1>7. /\ d \in 2 .. F + 1 /\ d > s
      /\ \/ d = s + 2 /\ b.lines = <<LineAt(c, s), LineAt(c, s + 1)>>
         \/ d = s + 1 /\ b.lines = <<LineAt(c, s)>>
  BY <1>3, <1>4, <1>6, DataArrived
<1> HIDE DEF b, c, F
<1>8. /\ b.lines[1] = LineAt(c, s) /\ Second(b) \in Line
      /\ \/ d = s + 2 /\ Len(b.lines) = 2 /\ Second(b) = LineAt(c, d - 1)
         \/ d = s + 1 /\ Len(b.lines) = 1
  <2>1. CASE d = s + 2 /\ b.lines = <<LineAt(c, s), LineAt(c, s + 1)>>
    <3>1. b.lines[1] = LineAt(c, s) /\ Second(b) = LineAt(c, s + 1) /\ Len(b.lines) = 2
      BY <2>1 DEF Second
    <3>2. d - 1 = s + 1 /\ s + 1 \in Int /\ s + 1 >= -3
      BY <1>4, <2>1
    <3>3. LineAt(c, s + 1) \in Line
      BY <1>3, <3>2, LineType
    <3> QED BY <2>1, <3>1, <3>2, <3>3
  <2>2. CASE d = s + 1 /\ b.lines = <<LineAt(c, s)>>
    <3>1. b.lines[1] = LineAt(c, s) /\ Second(b) = NoLine /\ Len(b.lines) = 1
      BY <2>2 DEF Second
    <3>2. NoLine \in Line
      BY DEF NoLine, Line, Word
    <3> QED BY <2>2, <3>1, <3>2
  <2> QED BY <1>7, <2>1, <2>2
<1>9. /\ dr' = [state |-> dr'.state, exp |-> dr'.exp, total |-> dr'.total, second |-> dr'.second]
      /\ dr'.exp = LineCnt(c) /\ dr'.total = s /\ dr'.second = Second(b)
      /\ dr'.state = IF s >= F THEN "DEQ_DONE"
                     ELSE IF d = s + 2 THEN "DEQ_WRITE_2" ELSE "DEQ_WRITE"
  <2>1. /\ dr'.exp = LineCnt(c) /\ dr'.total = dr.total + 1 /\ dr'.second = Second(b)
        /\ dr'.state = IF LineReached THEN "DEQ_DONE"
                       ELSE IF Len(b.lines) = 2 THEN "DEQ_WRITE_2" ELSE "DEQ_WRITE"
    <3> DEFINE new == IF LineReached THEN "DEQ_DONE"
                      ELSE IF Len(b.lines) = 2 THEN "DEQ_WRITE_2" ELSE "DEQ_WRITE"
    <3>1. dr' = [dr EXCEPT !.total = @ + 1, !.second = Second(b), !.state = new]
      BY <1>1
    <3> HIDE DEF new
    <3>2. /\ dr'.exp = LineCnt(c) /\ dr'.total = dr.total + 1 /\ dr'.second = Second(b)
          /\ dr'.state = new
      BY <1>4, <3>1
    <3> QED BY <3>2 DEF new
  <2>2. dr' = [state |-> dr'.state, exp |-> dr'.exp, total |-> dr'.total, second |-> dr'.second]
    BY <1>1, <1>4
  <2>3. dr'.total = s
    BY <1>4, <2>1
  <2>4. Len(b.lines) = 2 <=> d = s + 2
    <3>1. s + 1 # s + 2
      BY <1>4
    <3> QED BY <1>8, <3>1
  <2>5. dr'.state = IF s >= F THEN "DEQ_DONE"
                    ELSE IF d = s + 2 THEN "DEQ_WRITE_2" ELSE "DEQ_WRITE"
    BY <1>5, <2>1, <2>4
  <2> QED BY <2>1, <2>2, <2>3, <2>5
<1>10. UNCHANGED <<job, re, rw, dst>>
  BY <1>1
<1>11. Parted(d)' = s + 1
  <2>1. CASE s >= F
    <3>1. d = s + 1 /\ dr'.state = "DEQ_DONE"
      BY <1>3, <1>4, <1>7, <1>9, <2>1
    <3> QED BY <3>1 DEF Parted
  <2>2. CASE ~(s >= F) /\ d = s + 2
    <3>1. d - 1 = s + 1 /\ dr'.state = "DEQ_WRITE_2"
      BY <1>4, <1>9, <2>2
    <3> QED BY <3>1 DEF Parted
  <2>3. CASE ~(s >= F) /\ d # s + 2
    <3>1. d = s + 1 /\ dr'.state = "DEQ_WRITE"
      BY <1>7, <1>9, <2>3
    <3> QED BY <3>1 DEF Parted
  <2> QED BY <2>1, <2>2, <2>3
<1>12. ToWrapper(d, f)'
  <2>1. fifo'.app = Append(fifo.app, [line |-> LineAt(c, s), last |-> (s >= F)])
    BY <1>2, <1>5, <1>8
  <2> QED BY <1>1, <1>3, <1>4, <1>10, <1>11, <2>1, LineGoes DEF c, F
<1>13. Parting(d, u)'
  <2>1. dr'.total = Parted(d)' - 1 /\ d \in 1 .. F + 1 /\ dr'.second \in Line
    BY <1>3, <1>4, <1>7, <1>8, <1>9, <1>11
  <2>2. \/ dr'.state = "DEQ_WRITE" /\ d <= F
        \/ dr'.state = "DEQ_WRITE_2" /\ d > 1 /\ dr'.second = LineAt(c, d - 1)
        \/ dr'.state = "DEQ_DONE" /\ d = F + 1
    <3>1. CASE s >= F
      BY <1>3, <1>4, <1>7, <1>9, <3>1
    <3>2. CASE ~(s >= F) /\ d = s + 2
      BY <1>3, <1>4, <1>7, <1>8, <1>9, <3>2
    <3>3. CASE ~(s >= F) /\ d # s + 2
      BY <1>3, <1>4, <1>7, <1>9, <3>3
    <3> QED BY <3>1, <3>2, <3>3
  <2> QED BY <1>4, <1>9, <1>10, <2>1, <2>2 DEF Parting, F, c
<1>14. ReceiverFlags(d, u)'
  <2>1. dr.state # "DEQ_IDLE" /\ dr'.state # "DEQ_IDLE"
    BY <1>1, <1>9
  <2> QED BY <1>2, <1>3, <1>10, <2>1 DEF ReceiverFlags
<1>15. ToLines(u, d)'
  <2>1. Len(fifo'.rx) <= Depth
    <3>1. IsSeq(fifo.rx) /\ Len(fifo.rx) <= Depth
      BY CarriesRange DEF ToLines
    <3> QED BY <1>1, <1>2, <1>3, <3>1, TailFits
  <2> QED BY <1>2, <1>6, <1>10, <1>13, <1>14, <2>1 DEF ToLines, Passed, c
<1> QED BY <1>12, <1>15

(* The second line of a beat. *)
LEMMA DeqRecvWrite2Step ==
  ASSUME Lossless, NEW u \in Int, NEW s \in Int, NEW f \in Int,
         ToLines(u, s), ToWrapper(s, f), DeqRecvWrite2
  PROVE  ToLines(u, s)' /\ ToWrapper(s, f)'
<1> DEFINE c == job.count
           F == Final(job.count)
           a == s - 1
<1>1. /\ dr.state = "DEQ_WRITE_2" /\ Room("app")
      /\ fifo' = [fifo EXCEPT !["app"] = Append(@, [line |-> dr.second, last |-> LineReached])]
      /\ dr' = [dr EXCEPT !.total = @ + 1,
                          !.state = IF LineReached THEN "DEQ_DONE" ELSE "DEQ_WRITE"]
      /\ UNCHANGED <<job, re, rw, dst>>
  BY DEF DeqRecvWrite2, Put
<1>2. /\ fifo'.rx = fifo.rx /\ fifo'.recvDone = fifo.recvDone
      /\ fifo'.app = Append(fifo.app, [line |-> dr.second, last |-> LineReached])
      /\ fifo'.expLen = fifo.expLen
  BY <1>1 DEF Lossless, Streamed
<1>3. /\ Parting(s, u) /\ ReceiverFlags(s, u) /\ F \in Nat /\ F >= 1 /\ Parted(s) = a
  BY <1>1, CountType DEF ToLines, Parted
<1>4. /\ s \in 1 .. F + 1 /\ dr.exp = LineCnt(c) /\ u >= 1 /\ dr.second \in Line
      /\ dr = [state |-> dr.state, exp |-> dr.exp, total |-> dr.total, second |-> dr.second]
      /\ dr.second = LineAt(c, a)
  BY <1>1, <1>3 DEF Parting
<1>5. a \in 1 .. F /\ LineReached = (a >= F) /\ dr.total + 1 = a
  BY <1>1, <1>3, LineReachedIs
<1> HIDE DEF c, F
<1>6. /\ dr' = [state |-> dr'.state, exp |-> dr'.exp, total |-> dr'.total, second |-> dr'.second]
      /\ dr'.exp = LineCnt(c) /\ dr'.total = a /\ dr'.second = dr.second
      /\ dr'.state = IF a >= F THEN "DEQ_DONE" ELSE "DEQ_WRITE"
  <2> DEFINE new == IF LineReached THEN "DEQ_DONE" ELSE "DEQ_WRITE"
  <2>1. dr' = [dr EXCEPT !.total = @ + 1, !.state = new]
    BY <1>1
  <2>2. new = IF a >= F THEN "DEQ_DONE" ELSE "DEQ_WRITE"
    BY <1>5
  <2> HIDE DEF new
  <2>3. dr' = [state |-> dr'.state, exp |-> dr'.exp, total |-> dr'.total, second |-> dr'.second]
    BY <1>4, <2>1
  <2>4. /\ dr'.exp = LineCnt(c) /\ dr'.total = dr.total + 1 /\ dr'.second = dr.second
        /\ dr'.state = new
    BY <1>4, <2>1
  <2> QED BY <1>5, <2>2, <2>3, <2>4
<1>7. UNCHANGED <<job, re, rw, dst>>
  BY <1>1
<1>8. Parted(s)' = s /\ s = a + 1
  BY <1>4, <1>6 DEF Parted
<1>9. ToWrapper(s, f)'
  <2>1. fifo'.app = Append(fifo.app, [line |-> LineAt(c, a), last |-> (a >= F)])
    BY <1>2, <1>4, <1>5
  <2>2. Parted(s)' = Parted(s) + 1
    BY <1>3, <1>4, <1>8
  <2> QED BY <1>1, <1>3, <1>5, <1>7, <2>1, <2>2, LineGoes DEF c, F
<1>10. Parting(s, u)'
  <2>1. \/ dr'.state = "DEQ_WRITE" /\ s <= F
        \/ dr'.state = "DEQ_DONE" /\ s = F + 1
    <3>1. CASE a >= F
      BY <1>3, <1>4, <1>5, <1>6, <3>1
    <3>2. CASE ~(a >= F)
      BY <1>3, <1>4, <1>5, <1>6, <3>2
    <3> QED BY <3>1, <3>2
  <2> QED BY <1>4, <1>6, <1>7, <1>8, <2>1 DEF Parting, F, c
<1>11. ReceiverFlags(s, u)'
  <2>1. dr.state # "DEQ_IDLE" /\ dr'.state # "DEQ_IDLE"
    BY <1>1, <1>6
  <2> QED BY <1>2, <1>3, <1>7, <2>1 DEF ReceiverFlags
<1>12. ToLines(u, s)'
  BY <1>2, <1>7, <1>10, <1>11 DEF ToLines, Passed
<1> QED BY <1>9, <1>12

(* The wrapper that receives: a line is stored in the buffer or in memory. *)
LEMMA StoredLine ==
  ASSUME Lossless, NEW f \in 1 .. Final(job.count), rw.i = 2 * (f - 1),
         NEW n \in Nat, NEW a \in [0 .. n -> Word], NEW base \in Nat,
         base <= rw.i, rw.i - base <= n,
         NEW b, b = StoredAt(a, base, LineAt(job.count, f))
  PROVE  /\ b \in [0 .. n -> Word]
         /\ b[rw.i - base] = WordAt(job.count, rw.i)
         /\ rw.i < LastWord /\ rw.i - base + 1 <= n =>
              b[rw.i - base + 1] = WordAt(job.count, rw.i + 1)
         /\ \A k \in 0 .. n : k < rw.i - base => b[k] = a[k]
<1> DEFINE c == job.count
           line == LineAt(c, f)
           i == rw.i
           m == rw.i - base
<1>1. c \in Counts /\ Final(c) \in Nat /\ f \in Int /\ f >= 1 /\ i = 2 * f - 2 /\ i \in Nat
  <2>1. c \in Counts /\ Final(c) \in Nat
    BY CountType
  <2> QED BY <2>1
<1>2. line[1] \in Word /\ line[2] \in Word
  <2>1. line \in Word \X Word
    BY <1>1, LineType DEF Line
  <2> QED BY <2>1
<1>3. line = <<WordAt(c, i), IF i < LastWord THEN WordAt(c, i + 1) ELSE Zero>>
  <2>1. 2 * f - 1 = i + 1 /\ ~(f <= 0)
    BY <1>1
  <2> QED BY <1>1, <2>1 DEF LineAt, LastWord
<1>4. line[1] = WordAt(c, i) /\ (i < LastWord => line[2] = WordAt(c, i + 1))
  BY <1>3
<1>5. m \in 0 .. n
  BY <1>1
<1>6. b = IF i < LastWord THEN Stored(a, m, line) ELSE [a EXCEPT ![m] = line[1]]
  BY DEF StoredAt
<1> HIDE DEF line, m, c, i
<1>7. CASE i < LastWord
  <2>1. b = [k \in 0 .. n |-> IF k = m THEN line[1] ELSE IF k = m + 1 THEN line[2] ELSE a[k]]
    BY <1>6, <1>7 DEF Stored
  <2>2. b \in [0 .. n -> Word]
    BY <1>2, <2>1
  <2>3. b[m] = line[1] /\ (m + 1 <= n => b[m + 1] = line[2])
    BY <1>5, <2>1
  <2>4. \A k \in 0 .. n : k < m => b[k] = a[k]
    BY <1>5, <2>1
  <2> QED BY <1>4, <1>7, <2>2, <2>3, <2>4 DEF m, c, i
<1>8. CASE ~(i < LastWord)
  <2>1. b = [a EXCEPT ![m] = line[1]]
    BY <1>6, <1>8
  <2>2. b \in [0 .. n -> Word]
    BY <1>2, <2>1
  <2>3. b[m] = line[1]
    BY <1>5, <2>1
  <2>4. \A k \in 0 .. n : k < m => b[k] = a[k]
    BY <1>5, <2>1
  <2> QED BY <1>4, <1>8, <2>2, <2>3, <2>4 DEF m, c, i
<1> QED BY <1>7, <1>8

(* The line that MPI_Recv reads. *)
LEMMA LineTaken ==
  ASSUME Lossless, NEW s \in Int, NEW f \in Int, ToWrapper(s, f),
         rw.state = "RECV_READ_DATA", fifo.app # << >>,
         fifo'.app = Tail(fifo.app), UNCHANGED <<job, dr>>
  PROVE  /\ Head(fifo.app).line = LineAt(job.count, f)
         /\ Head(fifo.app).last = (f >= Final(job.count))
         /\ f \in 1 .. Final(job.count) /\ rw.i = 2 * (f - 1) /\ rw.i \in Nat
         /\ job.count > 0 => rw.i < job.count
         /\ Carries(fifo'.app, LineSteps(job.count), f + 1, Parted(s)')
         /\ Len(fifo'.app) <= Depth
<1> DEFINE c == job.count
           F == Final(c)
<1>1. /\ c \in Nat /\ F \in Nat /\ (c > 0 => 2 * F <= c + 1) /\ Depth \in Nat
  BY CountType, DataPathAssumption
<1>2. Receiving(f) /\ Carries(fifo.app, LineSteps(c), f, Parted(s)) /\ Len(fifo.app) <= Depth
      /\ IsSeq(fifo.app)
  BY CarriesRange DEF ToWrapper
<1>3. PICK d \in Int : /\ <<Head(fifo.app), f, d>> \in LineSteps(c)
                       /\ Carries(Tail(fifo.app), LineSteps(c), d, Parted(s))
  BY <1>2, CarriesTake
<1>4. /\ f \in 1 .. F /\ d = f + 1
      /\ Head(fifo.app) = [line |-> LineAt(c, f), last |-> (f >= F)]
  BY <1>3, LineStep
<1>5. rw.i = 2 * (f - 1)
  <2>1. f <= F
    BY <1>1, <1>4
  <2> QED BY <1>2, <2>1 DEF Receiving
<1>6. rw.i \in Nat /\ (c > 0 => rw.i < c)
  <2> HIDE DEF c, F
  <2> QED BY <1>1, <1>4, <1>5
<1>7. Carries(fifo'.app, LineSteps(c), f + 1, Parted(s)')
  BY <1>3, <1>4 DEF Parted
<1>8. Len(fifo'.app) <= Depth
  BY <1>1, <1>2, TailFits
<1>9. Head(fifo.app).line = LineAt(c, f) /\ Head(fifo.app).last = (f >= F)
  BY <1>4
<1> QED BY <1>4, <1>5, <1>6, <1>7, <1>8, <1>9

(* MPI_Recv stores a line. *)
LEMMA RecvReadDataStep ==
  ASSUME Lossless, NEW s \in Int, NEW f \in Int, ToWrapper(s, f), RecvReadData
  PROVE  ToWrapper(s, f + 1)' /\ (rw.state # "RECV_DONE" /\ rw'.state # "RECV_DONE")
<1> DEFINE c == job.count
           F == Final(job.count)
           in == Head(fifo.app)
           w == [rw EXCEPT !.i = @ + 2, !.state = IF in.last THEN "RECV_FINISH" ELSE @]
<1>1. /\ rw.state = "RECV_READ_DATA" /\ ~job.recvDram /\ fifo.app # << >>
      /\ IF SmallMessage
         THEN rw' = [w EXCEPT !.words = StoredAt(@, 0, in.line)] /\ UNCHANGED dst
         ELSE rw' = w /\ dst' = StoredAt(dst, 0, in.line)
      /\ fifo' = [fifo EXCEPT !.app = Tail(@)]
  BY DEF RecvReadData, Some
<1>2. UNCHANGED <<job, dr>>
  BY DEF RecvReadData
<1>3. fifo'.app = Tail(fifo.app)
  BY <1>1 DEF Lossless, Streamed
<1>4. /\ in.line = LineAt(c, f) /\ in.last = (f >= F)
      /\ f \in 1 .. F /\ rw.i = 2 * (f - 1) /\ rw.i \in Nat
      /\ c > 0 => rw.i < c
      /\ Carries(fifo'.app, LineSteps(c), f + 1, Parted(s)')
      /\ Len(fifo'.app) <= Depth
  BY <1>1, <1>2, <1>3, LineTaken
<1>5. Receiving(f) /\ Held(f)
  BY DEF ToWrapper
<1>6. /\ rw = [state |-> rw.state, i |-> rw.i, start |-> rw.start, max |-> rw.max,
               words |-> rw.words]
      /\ rw.start = 0 /\ rw.max = rw.start + Window
  BY <1>1, <1>5 DEF Receiving
<1>7. /\ rw.words \in [0 .. Window - 1 -> Word] /\ dst \in [0 .. c + 1 -> Word]
      /\ c \in Nat /\ F \in Nat /\ Window - 1 \in Nat /\ (c = 0 => F = 1)
      /\ (c > 0 => 2 * F <= c + 1)
  BY <1>5, CountType, WindowIsEven DEF Held
<1> HIDE DEF in, F, c
<1>8. /\ rw' = [state |-> rw'.state, i |-> rw'.i, start |-> rw'.start, max |-> rw'.max,
                words |-> rw'.words]
      /\ rw'.i = rw.i + 2 /\ rw'.start = rw.start /\ rw'.max = rw.max
      /\ rw'.state = IF f >= F THEN "RECV_FINISH" ELSE "RECV_READ_DATA"
      /\ rw'.words = IF SmallMessage THEN StoredAt(rw.words, 0, in.line) ELSE rw.words
  <2> DEFINE new == IF in.last THEN "RECV_FINISH" ELSE "RECV_READ_DATA"
             stored == IF SmallMessage THEN StoredAt(rw.words, 0, in.line) ELSE rw.words
  <2>1. rw' = [rw EXCEPT !.i = @ + 2, !.state = new, !.words = stored]
    <3>1. w = [rw EXCEPT !.i = @ + 2, !.state = new]
      BY <1>1
    <3>2. CASE SmallMessage
      <4>1. rw' = [w EXCEPT !.words = StoredAt(w.words, 0, in.line)] /\ w.words = rw.words
        BY <1>1, <1>6, <3>2
      <4>2. stored = StoredAt(rw.words, 0, in.line)
        BY <3>2
      <4> HIDE DEF stored, new, w
      <4>3. rw' = [w EXCEPT !.words = stored]
        BY <4>1, <4>2
      <4> QED BY <1>6, <3>1, <4>3
    <3>3. CASE ~SmallMessage
      <4>1. rw' = w /\ stored = rw.words
        BY <1>1, <3>3
      <4> HIDE DEF stored, new, w
      <4> QED BY <1>6, <3>1, <4>1
    <3> QED BY <3>2, <3>3
  <2>2. new = IF f >= F THEN "RECV_FINISH" ELSE "RECV_READ_DATA"
    BY <1>4
  <2> HIDE DEF new, stored
  <2>3. rw' = [state |-> rw'.state, i |-> rw'.i, start |-> rw'.start, max |-> rw'.max,
               words |-> rw'.words]
    BY <1>6, <2>1
  <2>4. /\ rw'.i = rw.i + 2 /\ rw'.start = rw.start /\ rw'.max = rw.max
        /\ rw'.state = new /\ rw'.words = stored
    BY <1>6, <2>1
  <2> QED BY <2>2, <2>3, <2>4 DEF stored
<1>9. Receiving(f + 1)'
  <2>1. f + 1 \in 1 .. F + 1 /\ rw'.i = 2 * ((f + 1) - 1) /\ rw'.i \in Nat
    <3>1. f \in Int /\ 1 <= f /\ f <= F /\ F \in Nat
      BY <1>4, <1>7
    <3>2. rw'.i = 2 * f
      BY <1>4, <1>8, <3>1
    <3> QED BY <3>1, <3>2
  <2>2. /\ rw'.state \in {"RECV_READ_DATA", "RECV_FINISH", "RECV_DONE"}
        /\ rw'.state = "RECV_READ_DATA" <=> f + 1 <= F
    <3>1. CASE f >= F
      BY <1>4, <1>7, <1>8, <3>1
    <3>2. CASE ~(f >= F)
      BY <1>4, <1>7, <1>8, <3>2
    <3> QED BY <3>1, <3>2
  <2>3. /\ rw'.start = 0 /\ 0 \in Nat /\ 0 % 2 = 0 /\ 0 <= rw'.i /\ 0 <= c
        /\ rw'.max = rw'.start + Window
    BY <1>6, <1>7, <1>8, <2>1
  <2> QED BY <1>1, <1>2, <1>8, <2>1, <2>2, <2>3 DEF Receiving, F, c
<1>10. Held(f + 1)'
  <2>0. rw'.state # "RECV_DONE"
    BY <1>8
  <2>1. CASE SmallMessage
    <3>1. c \in {0, 1} /\ f = 1 /\ rw.i = 0
      BY <1>4, <1>7, <2>1 DEF SmallMessage, c
    <3>2. rw'.words = StoredAt(rw.words, 0, LineAt(c, f)) /\ dst' = dst
      BY <1>1, <1>4, <1>8, <2>1
    <3>3. /\ rw'.words \in [0 .. Window - 1 -> Word]
          /\ rw'.words[0] = WordAt(c, 0)
      <4>1. rw.i - 0 = 0 /\ 0 <= Window - 1
        BY <1>7, <3>1
      <4>2. f \in 1 .. Final(job.count) /\ rw.i = 2 * (f - 1)
        BY <1>4 DEF F
      <4>3. /\ 0 \in Nat /\ 0 <= rw.i /\ rw.i - 0 <= Window - 1
            /\ rw.words \in [0 .. Window - 1 -> Word] /\ Window - 1 \in Nat
        BY <1>7, <3>1, <4>1
      <4>4. rw'.words = StoredAt(rw.words, 0, LineAt(job.count, f))
        BY <3>2 DEF c
      <4>5. /\ rw'.words \in [0 .. Window - 1 -> Word]
            /\ rw'.words[rw.i - 0] = WordAt(job.count, rw.i)
        BY ONLY Lossless, <4>2, <4>3, <4>4, StoredLine
      <4> QED BY <3>1, <4>1, <4>5 DEF c
    <3> QED BY <1>1, <1>2, <1>7, <2>0, <2>1, <3>2, <3>3 DEF Held, c, SmallMessage, RightMemory
  <2>2. CASE ~SmallMessage
    <3>1. c > 1 /\ rw.i < c /\ LastWord = c - 1
      <4>1. c > 1
        BY <1>7, <2>2 DEF SmallMessage, c
      <4>2. LastWord = c - 1
        BY <1>7, <4>1, LastWordIs DEF c
      <4> QED BY <1>4, <1>7, <4>1, <4>2
    <3>2. rw'.words = rw.words /\ dst' = StoredAt(dst, 0, LineAt(c, f))
      BY <1>1, <1>4, <1>8, <2>2
    <3>3. /\ dst' \in [0 .. c + 1 -> Word]
          /\ dst'[rw.i] = WordAt(c, rw.i)
          /\ rw.i < LastWord /\ rw.i + 1 <= c + 1 => dst'[rw.i + 1] = WordAt(c, rw.i + 1)
          /\ \A k \in 0 .. c + 1 : k < rw.i => dst'[k] = dst[k]
      <4>1. rw.i - 0 = rw.i /\ rw.i - 0 <= c + 1 /\ c + 1 \in Nat
        BY <1>4, <1>7, <3>1
      <4>2. f \in 1 .. Final(job.count) /\ rw.i = 2 * (f - 1)
        BY <1>4 DEF F
      <4>3. 0 \in Nat /\ 0 <= rw.i
        BY <1>4
      <4>4. dst' = StoredAt(dst, 0, LineAt(job.count, f))
        BY <3>2 DEF c
      <4>5. /\ dst' \in [0 .. c + 1 -> Word]
            /\ dst'[rw.i - 0] = WordAt(job.count, rw.i)
            /\ rw.i < LastWord /\ rw.i - 0 + 1 <= c + 1 =>
                 dst'[rw.i - 0 + 1] = WordAt(job.count, rw.i + 1)
            /\ \A k \in 0 .. c + 1 : k < rw.i - 0 => dst'[k] = dst[k]
        BY ONLY Lossless, <1>7, <4>1, <4>2, <4>3, <4>4, StoredLine
      <4> QED BY <4>1, <4>5 DEF c
    <3>4. ASSUME NEW k \in 0 .. c - 1, k < rw'.i PROVE dst'[k] = k + 1
      <4>1. k < rw.i \/ k = rw.i \/ k = rw.i + 1
        <5>1. k \in Int /\ rw.i \in Nat /\ k < rw.i + 2
          BY <1>4, <1>7, <1>8, <3>4
        <5> QED BY <5>1
      <4>2. CASE k < rw.i
        <5>1. dst[k] = k + 1
          BY <1>1, <1>5, <2>2, <4>2 DEF Held, c
        <5> QED BY <1>7, <3>3, <4>2, <5>1
      <4>3. CASE k = rw.i
        BY <1>4, <1>7, <3>1, <3>3, <4>3 DEF WordAt
      <4>4. CASE k = rw.i + 1
        <5>1. rw.i < LastWord /\ rw.i + 1 <= c + 1 /\ rw.i + 1 < c
          BY <1>4, <1>7, <3>1, <4>4
        <5> QED BY <3>3, <4>4, <5>1 DEF WordAt
      <4> QED BY <4>1, <4>2, <4>3, <4>4
    <3> QED BY <1>1, <1>2, <1>7, <2>0, <2>2, <3>2, <3>3, <3>4 DEF Held, c, SmallMessage, RightMemory
  <2> QED BY <2>1, <2>2
<1>11. rw'.state # "RECV_DONE"
  BY <1>8
<1> QED BY <1>1, <1>2, <1>4, <1>9, <1>10, <1>11 DEF ToWrapper, c

(* The window of the receiver is written to memory when it is full. *)
LEMMA WindowGoesOn ==
  ASSUME Lossless, NEW s \in Int, NEW f \in Int, ToWrapper(s, f),
         rw.state = "RECV_READ_DATA", job.recvDram, rw.i = 2 * (f - 1), rw.i \in Nat,
         job.count > 0 => rw.i < job.count,
         f \in 1 .. Final(job.count),
         NEW base, base = IF rw.i >= rw.max THEN rw.start + Window ELSE rw.start,
         NEW d, d = IF rw.i >= rw.max THEN Flushed(dst, rw, Window) ELSE dst
  PROVE  /\ base \in Nat /\ base % 2 = 0 /\ base <= rw.i /\ base <= job.count
         /\ rw.i - base <= Window - 2
         /\ d \in [0 .. job.count + 1 -> Word]
         /\ \A k \in 0 .. job.count - 1 : k < base => d[k] = k + 1
         /\ \A k \in 0 .. Window - 1 :
              base + k < rw.i /\ base + k < job.count => rw.words[k] = base + k + 1
<1> DEFINE c == job.count
<1>1. /\ rw.start \in Nat /\ rw.start % 2 = 0 /\ rw.start <= rw.i /\ rw.start <= c
      /\ rw.max = rw.start + Window /\ rw.i <= rw.max
  BY DEF ToWrapper, Receiving
<1>2. /\ rw.words \in [0 .. Window - 1 -> Word] /\ dst \in [0 .. c + 1 -> Word]
      /\ \A k \in 0 .. c - 1 : k < rw.start => dst[k] = k + 1
      /\ \A k \in 0 .. Window - 1 :
           rw.start + k < rw.i /\ rw.start + k < c => rw.words[k] = rw.start + k + 1
  BY DEF ToWrapper, Held
<1>3. c \in Nat /\ Window \in Nat /\ Window >= 2 /\ Window % 2 = 0
  BY CountType, WindowIsEven
<1>4. rw.i % 2 = 0
  <2>1. f - 1 \in Nat
    OBVIOUS
  <2> QED BY <2>1
<1>5. CASE rw.i >= rw.max
  <2>1. base = rw.i /\ base = rw.start + Window /\ base <= c
    <3>1. rw.i = rw.start + Window
      BY <1>1, <1>3, <1>5
    <3>2. c > 0
      <4>1. c = 0 => rw.i = 0
        BY CountType
      <4> QED BY <1>1, <1>3, <3>1, <4>1
    <3> QED BY <1>3, <1>5, <3>1, <3>2
  <2>2. d = [k \in 0 .. c + 1 |-> IF k \in rw.start .. rw.start + Window - 1
                                  THEN rw.words[k - rw.start] ELSE dst[k]]
    <3>1. DOMAIN dst = 0 .. c + 1 /\ d = Flushed(dst, rw, Window)
      BY <1>2, <1>5
    <3> QED BY <3>1 DEF Flushed
  <2>3. d \in [0 .. c + 1 -> Word]
    <3>1. ASSUME NEW k \in 0 .. c + 1
          PROVE  (IF k \in rw.start .. rw.start + Window - 1
                  THEN rw.words[k - rw.start] ELSE dst[k]) \in Word
      <4>1. CASE k \in rw.start .. rw.start + Window - 1
        <5>1. k - rw.start \in 0 .. Window - 1
          BY <1>1, <1>3, <4>1
        <5> QED BY <1>2, <4>1, <5>1
      <4> QED BY <1>2, <4>1
    <3> QED BY <2>2, <3>1
  <2>4. ASSUME NEW k \in 0 .. c - 1, k < base PROVE d[k] = k + 1
    <3>0. k \in 0 .. c + 1 /\ k \in Nat
      BY <1>3
    <3>1. CASE k < rw.start
      <4>1. ~(k \in rw.start .. rw.start + Window - 1)
        BY <1>1, <3>1
      <4>2. d[k] = dst[k]
        BY <2>2, <3>0, <4>1
      <4> QED BY <1>2, <3>1, <4>2
    <3>2. CASE ~(k < rw.start)
      <4>1. /\ k \in rw.start .. rw.start + Window - 1
            /\ k - rw.start \in 0 .. Window - 1
            /\ rw.start + (k - rw.start) = k
        BY <1>1, <1>3, <2>1, <2>4, <3>0, <3>2
      <4>2. d[k] = rw.words[k - rw.start]
        BY <2>2, <3>0, <4>1
      <4>3. k < rw.i /\ k < c
        BY <1>3, <2>1, <2>4, <3>0
      <4>4. rw.words[k - rw.start] = rw.start + (k - rw.start) + 1
        BY <1>2, <4>1, <4>3
      <4> QED BY <4>1, <4>2, <4>4
    <3> QED BY <3>1, <3>2
  <2>5. base % 2 = 0 /\ base \in Nat /\ base <= rw.i /\ rw.i - base <= Window - 2
    BY <1>3, <1>4, <2>1
  <2>6. \A k \in 0 .. Window - 1 : ~(base + k < rw.i)
    BY <1>3, <2>1
  <2> QED BY <2>1, <2>3, <2>4, <2>5, <2>6
<1>6. CASE ~(rw.i >= rw.max)
  <2>1. base = rw.start /\ d = dst /\ rw.i < rw.start + Window
    BY <1>1, <1>3, <1>6
  <2>2. rw.i - base <= Window - 2
    BY <1>1, <1>3, <1>4, <2>1
  <2> QED BY <1>1, <1>2, <2>1, <2>2
<1> QED BY <1>5, <1>6

(* MPI_Recv_DRAM stores a line, after a full window is written. *)
LEMMA RecvReadDramStep ==
  ASSUME Lossless, NEW s \in Int, NEW f \in Int, ToWrapper(s, f), RecvReadDram
  PROVE  ToWrapper(s, f + 1)' /\ (rw.state # "RECV_DONE" /\ rw'.state # "RECV_DONE")
<1> DEFINE c == job.count
           F == Final(job.count)
           in == Head(fifo.app)
           full == rw.i >= rw.max
           base == IF full THEN rw.start + Window ELSE rw.start
           max == IF full THEN rw.max + Window ELSE rw.max
           w == IF full THEN [rw EXCEPT !.start = @ + Window, !.max = @ + Window] ELSE rw
           next == IF rw.i < LastWord THEN rw.i + 2 ELSE rw.i + 1
           new == IF in.last THEN "RECV_FINISH" ELSE "RECV_READ_DATA"
           stored == StoredAt(rw.words, base, in.line)
<1>1. /\ rw.state = "RECV_READ_DATA" /\ job.recvDram /\ fifo.app # << >>
      /\ dst' = IF full THEN Flushed(dst, rw, Window) ELSE dst
      /\ rw' = [w EXCEPT !.words = StoredAt(@, w.start, in.line),
                         !.i = IF @ < LastWord THEN @ + 2 ELSE @ + 1,
                         !.state = IF in.last THEN "RECV_FINISH" ELSE @]
      /\ fifo' = [fifo EXCEPT !.app = Tail(@)]
  BY DEF RecvReadDram, Some
<1>2. UNCHANGED <<job, dr>>
  BY DEF RecvReadDram
<1>3. fifo'.app = Tail(fifo.app)
  BY <1>1 DEF Lossless, Streamed
<1>4. /\ in.line = LineAt(c, f) /\ in.last = (f >= F)
      /\ f \in 1 .. F /\ rw.i = 2 * (f - 1) /\ rw.i \in Nat
      /\ c > 0 => rw.i < c
      /\ Carries(fifo'.app, LineSteps(c), f + 1, Parted(s)')
      /\ Len(fifo'.app) <= Depth
  BY <1>1, <1>2, <1>3, LineTaken
<1>5. Receiving(f) /\ Held(f)
  BY DEF ToWrapper
<1>6. /\ rw = [state |-> rw.state, i |-> rw.i, start |-> rw.start, max |-> rw.max,
               words |-> rw.words]
      /\ rw.max = rw.start + Window /\ rw.start \in Nat
  BY <1>1, <1>5 DEF Receiving
<1>7. /\ rw.words \in [0 .. Window - 1 -> Word]
      /\ c \in Nat /\ F \in Nat /\ Window - 1 \in Nat /\ (c = 0 => F = 1)
      /\ 2 * F >= c /\ (c > 0 => 2 * F <= c + 1)
  BY <1>5, CountType, WindowIsEven DEF Held
<1>8. /\ base \in Nat /\ base % 2 = 0 /\ base <= rw.i /\ base <= c
      /\ rw.i - base <= Window - 2
      /\ dst' \in [0 .. c + 1 -> Word]
      /\ \A k \in 0 .. c - 1 : k < base => dst'[k] = k + 1
      /\ \A k \in 0 .. Window - 1 :
           base + k < rw.i /\ base + k < c => rw.words[k] = base + k + 1
  <2>1. dst' = IF rw.i >= rw.max THEN Flushed(dst, rw, Window) ELSE dst
    BY <1>1
  <2>2. rw.state = "RECV_READ_DATA" /\ job.recvDram
    BY <1>1
  <2> HIDE DEF w, in
  <2> QED BY SMTT(30), <1>4, <2>1, <2>2, WindowGoesOn
<1>9. /\ rw' = [state |-> new, i |-> next, start |-> base, max |-> max, words |-> stored]
      /\ max = base + Window
  <2>1. w = [state |-> "RECV_READ_DATA", i |-> rw.i, start |-> base, max |-> max,
             words |-> rw.words]
    <3>1. CASE full
      BY <1>1, <1>6, <3>1
    <3>2. CASE ~full
      BY <1>1, <1>6, <3>2
    <3> QED BY <3>1, <3>2
  <2>2. max = base + Window
    BY <1>6, <1>7
  <2> HIDE DEF full, base, max, w, in
  <2>3. rw' = [w EXCEPT !.words = StoredAt(@, w.start, in.line),
                        !.i = IF @ < LastWord THEN @ + 2 ELSE @ + 1,
                        !.state = IF in.last THEN "RECV_FINISH" ELSE @]
    BY <1>1
  <2>4. /\ w.words = rw.words /\ w.start = base /\ w.i = rw.i /\ w.state = "RECV_READ_DATA"
    BY <2>1
  <2>5. rw' = [w EXCEPT !.words = stored, !.i = next, !.state = new]
    BY <2>3, <2>4
  <2> HIDE DEF stored, next, new
  <2> QED BY <2>1, <2>2, <2>5
<1> HIDE DEF full, base, max, w, stored
<1>10. /\ next \in Nat /\ next <= rw.i + 2 /\ rw.i + 1 <= next
       /\ next = rw.i + 2 => rw.i < LastWord
       /\ f < F => next = 2 * f
       /\ f = F => next \in c .. c + 2
  <2>1. CASE c > 0
    <3>1. LastWord = c - 1
      BY <2>1, LastWordIs
    <3>2. /\ f \in Int /\ 1 <= f /\ f <= F /\ F \in Nat /\ c \in Nat /\ rw.i = 2 * f - 2
          /\ 2 * F >= c /\ 2 * F <= c + 1 /\ rw.i < c
      BY <1>4, <1>7, <2>1
    <3> HIDE DEF F, c, next
    <3>3. next = IF rw.i < c - 1 THEN rw.i + 2 ELSE rw.i + 1
      BY <3>1 DEF next
    <3>4. CASE rw.i < c - 1
      BY <3>1, <3>2, <3>3, <3>4
    <3>5. CASE ~(rw.i < c - 1)
      BY <3>1, <3>2, <3>3, <3>5
    <3> QED BY <3>4, <3>5
  <2>2. CASE c = 0
    <3>1. F = 1 /\ f \in 1 .. F
      BY <1>4, <1>7, <2>2
    <3>2. f = 1 /\ rw.i = 0
      BY <1>4, <3>1
    <3> HIDE DEF F, c, next
    <3>3. next = 2 \/ next = 1
      BY <3>2 DEF next
    <3>4. next = 2 => rw.i < LastWord
      BY <3>2 DEF next
    <3> QED BY <2>2, <3>1, <3>2, <3>3, <3>4
  <2> QED BY <1>7, <2>1, <2>2
<1>11. new = IF f >= F THEN "RECV_FINISH" ELSE "RECV_READ_DATA"
  BY <1>4
<1> HIDE DEF in, F, c, next, new
<1>12. /\ rw' = [state |-> rw'.state, i |-> rw'.i, start |-> rw'.start, max |-> rw'.max,
                 words |-> rw'.words]
       /\ rw'.state = new /\ rw'.i = next /\ rw'.start = base /\ rw'.max = base + Window
       /\ rw'.words = stored
  BY <1>9
<1>13. f \in Int /\ 1 <= f /\ f <= F
  BY <1>4, <1>7
<1>14. Receiving(f + 1)'
  <2>1. f + 1 \in 1 .. F + 1
    BY <1>7, <1>13
  <2>2. /\ rw'.state \in {"RECV_READ_DATA", "RECV_FINISH", "RECV_DONE"}
        /\ rw'.state = "RECV_READ_DATA" <=> f + 1 <= F
    <3>1. CASE f >= F
      BY <1>7, <1>11, <1>12, <1>13, <3>1
    <3>2. CASE ~(f >= F)
      BY <1>7, <1>11, <1>12, <1>13, <3>2
    <3> QED BY <3>1, <3>2
  <2>3. /\ f + 1 <= F => rw'.i = 2 * ((f + 1) - 1)
        /\ f + 1 > F => rw'.i \in c .. c + 2
    <3>1. CASE f < F
      <4>1. rw'.i = 2 * f
        BY <1>10, <1>12, <3>1
      <4>2. f + 1 <= F /\ ~(f + 1 > F)
        BY <1>7, <1>13, <3>1
      <4> QED BY <1>13, <4>1, <4>2
    <3>2. CASE f = F
      <4>1. rw'.i \in c .. c + 2 /\ ~(f + 1 <= F)
        BY <1>7, <1>10, <1>12, <1>13, <3>2
      <4> QED BY <4>1
    <3> QED BY <1>7, <1>13, <3>1, <3>2
  <2>4. /\ rw'.start \in Nat /\ rw'.start % 2 = 0 /\ rw'.start <= c
        /\ rw'.max = rw'.start + Window
    BY <1>8, <1>12
  <2>5. rw'.start <= rw'.i /\ rw'.i <= rw'.max
    <3>1. rw'.i <= rw.i + 2 /\ rw.i + 1 <= rw'.i /\ rw.i \in Nat
      BY <1>4, <1>10, <1>12
    <3>2. base <= rw.i /\ rw.i - base <= Window - 2 /\ Window \in Nat /\ base \in Nat
      BY <1>8, WindowIsEven
    <3>3. rw'.i \in Nat
      BY <1>10, <1>12
    <3> QED BY <1>12, <3>1, <3>2, <3>3
  <2> QED BY <1>1, <1>2, <1>12, <2>1, <2>2, <2>3, <2>4, <2>5 DEF Receiving, F, c
<1>15. Held(f + 1)'
  <2>1. rw'.state # "RECV_DONE"
    BY <1>11, <1>12
  <2>2. /\ stored \in [0 .. Window - 1 -> Word]
        /\ stored[rw.i - base] = WordAt(c, rw.i)
        /\ rw.i < LastWord /\ rw.i - base + 1 <= Window - 1 =>
             stored[rw.i - base + 1] = WordAt(c, rw.i + 1)
        /\ \A k \in 0 .. Window - 1 : k < rw.i - base => stored[k] = rw.words[k]
    <3>1. f \in 1 .. Final(job.count) /\ rw.i = 2 * (f - 1)
      BY <1>4 DEF F
    <3>2. base \in Nat /\ base <= rw.i /\ rw.i - base <= Window - 1
      <4>1. rw.i \in Nat /\ Window \in Nat
        BY <1>4, WindowIsEven
      <4>2. base \in Nat /\ base <= rw.i /\ rw.i - base <= Window - 2
        BY <1>8
      <4> QED BY <4>1, <4>2
    <3>3. stored = StoredAt(rw.words, base, LineAt(job.count, f))
      BY <1>4 DEF stored, c
    <3>4. rw.words \in [0 .. Window - 1 -> Word] /\ Window - 1 \in Nat
      BY <1>7
    <3>5. /\ stored \in [0 .. Window - 1 -> Word]
          /\ stored[rw.i - base] = WordAt(job.count, rw.i)
          /\ rw.i < LastWord /\ rw.i - base + 1 <= Window - 1 =>
               stored[rw.i - base + 1] = WordAt(job.count, rw.i + 1)
          /\ \A k \in 0 .. Window - 1 : k < rw.i - base => stored[k] = rw.words[k]
      BY ONLY Lossless, <3>1, <3>2, <3>3, <3>4, StoredLine
    <3> QED BY <3>5 DEF c
  <2>3. ASSUME NEW k \in 0 .. Window - 1, base + k < rw'.i, base + k < c
        PROVE  stored[k] = base + k + 1
    <3>0. /\ k \in Nat /\ base \in Nat /\ rw.i \in Nat /\ c \in Nat
          /\ base <= rw.i
      BY <1>4, <1>7, <1>8
    <3>1. base + k < rw.i \/ base + k = rw.i \/ base + k = rw.i + 1
      <4>1. rw'.i <= rw.i + 2 /\ rw'.i \in Nat
        BY <1>10, <1>12
      <4> QED BY <2>3, <3>0, <4>1
    <3>2. CASE base + k < rw.i
      <4>1. k < rw.i - base
        BY <3>0, <3>2
      <4> QED BY <1>8, <2>2, <2>3, <3>2, <4>1
    <3>3. CASE base + k = rw.i
      <4>1. k = rw.i - base /\ rw.i \in Nat /\ rw.i < c
        BY <2>3, <3>0, <3>3
      <4>2. WordAt(c, rw.i) = rw.i + 1
        BY <4>1 DEF WordAt
      <4> QED BY <2>2, <3>3, <4>1, <4>2
    <3>4. CASE base + k = rw.i + 1
      <4>1. k = rw.i - base + 1 /\ rw.i + 1 < c /\ rw.i - base + 1 <= Window - 1
        BY <2>3, <3>0, <3>4, WindowIsEven
      <4>2. WordAt(c, rw.i + 1) = rw.i + 1 + 1
        BY <4>1 DEF WordAt
      <4>3. rw.i < LastWord
        <5>1. next = rw.i + 2
          <6>1. next <= rw.i + 2 /\ next \in Nat /\ rw.i + 1 < next
            BY <1>10, <1>12, <2>3, <3>4
          <6> QED BY <3>0, <6>1
        <5> QED BY <1>10, <5>1
      <4> QED BY <2>2, <3>4, <4>1, <4>2, <4>3
    <3> QED BY <3>1, <3>2, <3>3, <3>4
  <2>4. /\ rw'.words \in [0 .. Window - 1 -> Word]
        /\ \A k \in 0 .. Window - 1 :
             rw'.start + k < rw'.i /\ rw'.start + k < c => rw'.words[k] = rw'.start + k + 1
        /\ \A k \in 0 .. c - 1 : k < rw'.start => dst'[k] = k + 1
    BY <1>8, <1>12, <2>2, <2>3
  <2> QED BY <1>1, <1>2, <1>8, <2>1, <2>4 DEF Held, RightMemory, c
<1>16. rw'.state # "RECV_DONE"
  BY <1>11, <1>12
<1> QED BY <1>1, <1>2, <1>4, <1>14, <1>15, <1>16 DEF ToWrapper, c

(* MPI_Recv is told OK: what its buffer still holds is written to memory. *)
LEMMA LastWindow ==
  ASSUME Lossless, NEW s \in Int, NEW f \in Int, ToWrapper(s, f),
         rw.state = "RECV_FINISH",
         NEW d, d = IF job.recvDram THEN Flushed(dst, rw, rw.i - rw.start)
                    ELSE IF SmallMessage THEN Flushed(dst, rw, 1) ELSE dst
  PROVE  /\ d \in [0 .. job.count + 1 -> Word]
         /\ \A k \in 0 .. job.count - 1 : d[k] = k + 1
<1> DEFINE c == job.count
           F == Final(job.count)
           n == IF job.recvDram THEN rw.i - rw.start ELSE 1
<1>1. /\ c \in Nat /\ F \in Nat /\ (c = 0 => F = 1) /\ 2 * F >= c
      /\ Window \in Nat /\ Window >= 2
  BY CountType, WindowIsEven
<1>2. Receiving(f) /\ Held(f)
  BY DEF ToWrapper
<1>3. f > F /\ f = F + 1
  <2>1. f \in 1 .. F + 1 /\ ~(f <= F)
    BY <1>2 DEF Receiving
  <2> QED BY <1>1, <2>1
<1>4. /\ rw.start \in Nat /\ rw.start <= rw.i /\ rw.start <= c
      /\ rw.max = rw.start + Window
      /\ job.recvDram => rw.i \in c .. c + 2 /\ rw.i <= rw.max
      /\ ~job.recvDram => rw.start = 0 /\ rw.i = 2 * (f - 1)
  BY <1>2, <1>3 DEF Receiving
<1>5. rw.words \in [0 .. Window - 1 -> Word] /\ dst \in [0 .. c + 1 -> Word]
  BY <1>2 DEF Held
<1> HIDE DEF F
<1>6. CASE job.recvDram \/ SmallMessage
  <2>1. d = Flushed(dst, rw, n)
    BY <1>6
  <2>2. n \in Int /\ n <= Window
    BY <1>1, <1>4
  <2>3. \A k \in 0 .. c - 1 :
          k >= rw.start => k < rw.start + n /\ k - rw.start \in 0 .. Window - 1
                           /\ rw.words[k - rw.start] = k + 1
    <3>1. CASE job.recvDram
      <4> SUFFICES ASSUME NEW k \in 0 .. c - 1, k >= rw.start
                   PROVE  k < rw.start + n /\ k - rw.start \in 0 .. Window - 1
                          /\ rw.words[k - rw.start] = k + 1
        OBVIOUS
      <4>1. /\ k - rw.start \in 0 .. Window - 1 /\ rw.start + (k - rw.start) = k /\ k < rw.i
            /\ k < rw.start + n /\ k < c
        BY <1>1, <1>4, <3>1
      <4>2. \A j \in 0 .. Window - 1 :
              rw.start + j < rw.i /\ rw.start + j < c => rw.words[j] = rw.start + j + 1
        BY <1>2, <3>1 DEF Held
      <4>3. rw.words[k - rw.start] = rw.start + (k - rw.start) + 1
        BY <4>1, <4>2
      <4> QED BY <4>1, <4>3
    <3>2. CASE ~job.recvDram
      <4>1. rw.start = 0 /\ n = 1 /\ c <= 1
        BY <1>4, <1>6, <3>2 DEF SmallMessage
      <4>2. rw.words[0] = WordAt(c, 0)
        BY <1>2, <1>3, <1>6, <3>2 DEF Held, F
      <4>3. c > 0 => WordAt(c, 0) = 1
        BY DEF WordAt
      <4> QED BY <1>1, <4>1, <4>2, <4>3
    <3> QED BY <3>1, <3>2
  <2> HIDE DEF n
  <2>4. d = [k \in 0 .. c + 1 |-> IF k \in rw.start .. rw.start + n - 1
                                  THEN rw.words[k - rw.start] ELSE dst[k]]
    BY <1>5, <2>1 DEF Flushed
  <2>5. ASSUME NEW k \in 0 .. c + 1
        PROVE  (IF k \in rw.start .. rw.start + n - 1
                THEN rw.words[k - rw.start] ELSE dst[k]) \in Word
    <3>1. CASE k \in rw.start .. rw.start + n - 1
      <4>1. k - rw.start \in 0 .. Window - 1
        BY <1>1, <1>4, <2>2, <3>1
      <4> QED BY <1>5, <3>1, <4>1
    <3> QED BY <1>5, <3>1
  <2>6. d \in [0 .. c + 1 -> Word]
    BY <2>4, <2>5
  <2>7. ASSUME NEW k \in 0 .. c - 1 PROVE d[k] = k + 1
    <3>0. k \in 0 .. c + 1 /\ k \in Nat
      BY <1>1
    <3>1. CASE k >= rw.start
      <4>1. k < rw.start + n /\ rw.words[k - rw.start] = k + 1
        BY <2>3, <3>1
      <4>2. k \in rw.start .. rw.start + n - 1
        BY <1>4, <2>2, <3>0, <3>1, <4>1
      <4> QED BY <2>4, <3>0, <4>1, <4>2
    <3>2. CASE ~(k >= rw.start)
      <4>1. job.recvDram
        BY <1>4, <3>0, <3>2
      <4>2. ~(k \in rw.start .. rw.start + n - 1) /\ k < rw.start
        BY <1>4, <2>2, <3>0, <3>2
      <4>3. dst[k] = k + 1
        BY <1>2, <4>1, <4>2 DEF Held
      <4> QED BY <2>4, <3>0, <4>2, <4>3
    <3> QED BY <3>1, <3>2
  <2> QED BY <2>6, <2>7
<1>7. CASE ~(job.recvDram \/ SmallMessage)
  <2>1. d = dst
    BY <1>7
  <2>2. rw.i >= c /\ rw.i \in Int
    BY <1>1, <1>3, <1>4, <1>7
  <2>3. \A k \in 0 .. c - 1 : k < rw.i => dst[k] = k + 1
    BY <1>2, <1>7 DEF Held
  <2>4. \A k \in 0 .. c - 1 : k < rw.i
    BY <1>1, <2>2
  <2> QED BY <1>5, <2>1, <2>3, <2>4
<1> QED BY <1>6, <1>7

(* MPI_Recv returns. *)
LEMMA RecvFinishStep ==
  ASSUME Lossless, Answers, NEW s \in Int, NEW f \in Int, ToWrapper(s, f), RecvFinish
  PROVE  ToWrapper(s, f)' /\ Answers'
<1> DEFINE c == job.count
           F == Final(job.count)
<1>1. /\ rw.state = "RECV_FINISH" /\ fifo.recvFeedback # << >>
      /\ rw' = IF Head(fifo.recvFeedback) = "OK" THEN [rw EXCEPT !.state = "RECV_DONE"]
               ELSE RecvWindow(rw.words)
      /\ dst' = IF job.recvDram THEN Flushed(dst, rw, rw.i - rw.start)
                ELSE IF SmallMessage /\ Head(fifo.recvFeedback) = "OK"
                THEN Flushed(dst, rw, 1) ELSE dst
      /\ fifo' = [fifo EXCEPT !.recvFeedback = Tail(@)]
  BY DEF RecvFinish
<1>2. UNCHANGED <<job, sw, enq, se, dq, net, tin, re, dr>>
  BY DEF RecvFinish
<1>3. re.state = "IDLE" /\ fifo.recvFeedback = <<"OK">>
  BY <1>1 DEF Answers
<1>4. Head(fifo.recvFeedback) = "OK" /\ Tail(fifo.recvFeedback) = << >>
  BY <1>3
<1>5. /\ fifo'.recvFeedback = << >> /\ fifo'.app = fifo.app /\ fifo'.ack = fifo.ack
      /\ fifo'.sendFeedback = fifo.sendFeedback
  BY <1>1, <1>4 DEF Lossless, Streamed
<1>6. Receiving(f) /\ Held(f) /\ Len(fifo.app) <= Depth
      /\ Carries(fifo.app, LineSteps(c), f, Parted(s))
  BY DEF ToWrapper
<1>7. rw' = [rw EXCEPT !.state = "RECV_DONE"]
  BY <1>1, <1>4
<1>8. rw = [state |-> rw.state, i |-> rw.i, start |-> rw.start, max |-> rw.max,
            words |-> rw.words]
  BY <1>6 DEF Receiving
<1>9. /\ rw' = [state |-> "RECV_DONE", i |-> rw.i, start |-> rw.start, max |-> rw.max,
                words |-> rw.words]
  BY <1>7, <1>8
<1>10. /\ rw' = [state |-> rw'.state, i |-> rw'.i, start |-> rw'.start, max |-> rw'.max,
                 words |-> rw'.words]
       /\ rw'.state = "RECV_DONE" /\ rw'.i = rw.i /\ rw'.start = rw.start
       /\ rw'.max = rw.max /\ rw'.words = rw.words
  BY <1>9
<1>11. f \in 1 .. F + 1 /\ ~(f <= F)
  BY <1>1, <1>6 DEF Receiving
<1>12. Receiving(f)'
  <2>1. /\ f > F /\ job.recvDram => rw.i \in c .. c + 2
        /\ f <= F \/ ~job.recvDram => rw.i = 2 * (f - 1)
        /\ rw.start \in Nat /\ rw.start % 2 = 0 /\ rw.start <= rw.i /\ rw.start <= c
        /\ rw.max = rw.start + Window
        /\ job.recvDram => rw.i <= rw.max
        /\ ~job.recvDram => rw.start = 0
    BY <1>6 DEF Receiving
  <2> QED BY <1>2, <1>10, <1>11, <2>1 DEF Receiving
<1>13. dst' \in [0 .. c + 1 -> Word] /\ \A k \in 0 .. c - 1 : dst'[k] = k + 1
  <2>1. dst' = IF job.recvDram THEN Flushed(dst, rw, rw.i - rw.start)
               ELSE IF SmallMessage THEN Flushed(dst, rw, 1) ELSE dst
    BY <1>1, <1>4
  <2> QED BY <1>1, <2>1, LastWindow
<1>14. Held(f)'
  <2>1. /\ rw.words \in [0 .. Window - 1 -> Word]
        /\ job.recvDram => \A k \in 0 .. Window - 1 :
             rw.start + k < rw.i /\ rw.start + k < c => rw.words[k] = rw.start + k + 1
        /\ ~job.recvDram /\ SmallMessage /\ f > F => rw.words[0] = WordAt(c, 0)
    BY <1>6 DEF Held
  <2>2. SmallMessage' = SmallMessage
    BY <1>2 DEF SmallMessage
  <2> QED BY <1>2, <1>10, <1>13, <2>1, <2>2 DEF Held, RightMemory
<1>15. ToWrapper(s, f)'
  BY <1>2, <1>5, <1>6, <1>12, <1>14 DEF ToWrapper, Parted
<1>16. Answers'
  BY <1>2, <1>3, <1>5, <1>10 DEF Answers
<1> QED BY <1>15, <1>16

-----------------------------------------------------------------------------
(* What a part of the way does not read may change. *)

LEMMA SameFromWrapper ==
  ASSUME NEW w, FromWrapper(w), UNCHANGED <<job, sw>>
  PROVE  FromWrapper(w)'
<1>1. Sending(w)'
  BY DEF FromWrapper, Sending
<1>2. Filled(sw)' = Filled(sw) /\ SmallMessage' = SmallMessage
  BY DEF Filled, SmallMessage
<1>3. Buffers(sw)'
  BY <1>2 DEF FromWrapper, Buffered, Buffers
<1> QED BY <1>1, <1>3 DEF FromWrapper, Buffered

LEMMA SameToBeats ==
  ASSUME NEW w, NEW e, ToBeats(w, e), UNCHANGED <<job, enq>>, fifo'.mpiData = fifo.mpiData
  PROVE  ToBeats(w, e)'
<1>1. Joining(e)' /\ Joined(e)' = Joined(e)
  BY DEF ToBeats, Joining, Joined
<1> QED BY <1>1 DEF ToBeats

LEMMA SameToEngine ==
  ASSUME NEW e, NEW r, ToEngine(e, r), UNCHANGED <<job, se>>, fifo'.mpiIn = fifo.mpiIn
  PROVE  ToEngine(e, r)'
<1>1. Reading(r)'
  BY DEF ToEngine, Reading
<1> QED BY <1>1 DEF ToEngine

LEMMA SameToPackets ==
  ASSUME NEW r, NEW q, ToPackets(r, q), UNCHANGED <<job, se, dq>>,
         fifo'.tx = fifo.tx, fifo'.destId = fifo.destId, fifo'.sendDone = fifo.sendDone
  PROVE  ToPackets(r, q)'
<1>1. /\ Kept' = Kept /\ Emitted(q)' = Emitted(q) /\ Packed(q)' = Packed(q)
      /\ SentTo(r)' = SentTo(r)
  BY DEF Kept, Emitted, Packed, SentTo
<1>2. Splitting(q)'
  BY <1>1 DEF ToPackets, Splitting
<1>3. SenderFlags(q)'
  BY DEF ToPackets, SenderFlags
<1> QED BY <1>1, <1>2, <1>3 DEF ToPackets

LEMMA SameToReceiver ==
  ASSUME NEW q, NEW z, ToReceiver(q, z), UNCHANGED <<job, tin, dq, net>>
  PROVE  ToReceiver(q, z)'
<1>1. Packed(q)' = Packed(q)
  BY DEF Kept, Emitted, Packed
<1>2. Arriving(z)'
  BY DEF ToReceiver, Arriving
<1> QED BY <1>1, <1>2 DEF ToReceiver

LEMMA SameEnds ==
  ASSUME NEW tk, NEW rk, Ends(tk, rk), UNCHANGED <<job, tin, re>>,
         fifo'.meta = fifo.meta, fifo'.tcpIn = fifo.tcpIn
  PROVE  Ends(tk, rk)'
<1>1. Metas(tk, rk)'
  BY DEF Ends, Metas
<1> QED BY <1>1 DEF Ends

LEMMA SameFromNetwork ==
  ASSUME NEW z, NEW u, FromNetwork(z, u), UNCHANGED <<job, tin, re>>,
         fifo'.tcpIn = fifo.tcpIn
  PROVE  FromNetwork(z, u)'
<1>1. Passing(u)' /\ Arrived(z)' = Arrived(z)
  BY DEF FromNetwork, Passing, Arrived
<1> QED BY <1>1 DEF FromNetwork

LEMMA SameToLines ==
  ASSUME NEW u, NEW s, ToLines(u, s), UNCHANGED <<job, dr, re>>,
         fifo'.rx = fifo.rx, fifo'.expLen = fifo.expLen, fifo'.recvDone = fifo.recvDone
  PROVE  ToLines(u, s)'
<1>1. Parting(s, u)' /\ Parted(s)' = Parted(s)
  BY DEF ToLines, Parting, Parted
<1>2. ReceiverFlags(s, u)'
  BY DEF ToLines, ReceiverFlags
<1> QED BY <1>1, <1>2 DEF ToLines

LEMMA SameToWrapper ==
  ASSUME NEW s, NEW f, ToWrapper(s, f), UNCHANGED <<job, dr, rw, dst>>,
         fifo'.app = fifo.app
  PROVE  ToWrapper(s, f)'
<1>1. Receiving(f)' /\ Parted(s)' = Parted(s)
  BY DEF ToWrapper, Receiving, Parted
<1>2. SmallMessage' = SmallMessage
  BY DEF SmallMessage
<1>3. Held(f)'
  BY <1>2 DEF ToWrapper, Held, RightMemory
<1> QED BY <1>1, <1>3 DEF ToWrapper

LEMMA SameAnswers ==
  ASSUME Answers, UNCHANGED se, UNCHANGED re,
         sw'.state = "SEND_DONE" <=> sw.state = "SEND_DONE",
         rw'.state = "RECV_DONE" <=> rw.state = "RECV_DONE",
         fifo'.ack = fifo.ack, fifo'.sendFeedback = fifo.sendFeedback,
         fifo'.recvFeedback = fifo.recvFeedback
  PROVE  Answers'
BY DEF Answers

-----------------------------------------------------------------------------
(* The steps of the whole way. *)

LEMMA WrapperSendsFlow ==
  ASSUME FlowInv, Lossless', SendWriteData \/ SendFinish \/ EnqMpiData
  PROVE  FlowInv'
<1>1. PICK w, e, r, q, z, u, s, f \in Int, tk, rk \in Nat :
        Flow(w, e, r, q, z, tk, rk, u, s, f)
  BY DEF FlowInv
<1>2. /\ Lossless /\ Answers /\ FromWrapper(w) /\ ToBeats(w, e) /\ ToEngine(e, r)
      /\ ToPackets(r, q) /\ ToReceiver(q, z) /\ Ends(tk, rk) /\ FromNetwork(z, u)
      /\ ToLines(u, s) /\ ToWrapper(s, f)
  BY <1>1 DEF Flow
<1>3. UNCHANGED <<job, se, dq, net, tin, re, dr, rw, dst>>
  BY DEF SendWriteData, SendFinish, EnqMpiData
<1>4. /\ fifo'.tx = fifo.tx /\ fifo'.destId = fifo.destId /\ fifo'.sendDone = fifo.sendDone
      /\ fifo'.meta = fifo.meta /\ fifo'.tcpIn = fifo.tcpIn /\ fifo'.rx = fifo.rx
      /\ fifo'.expLen = fifo.expLen /\ fifo'.recvDone = fifo.recvDone
      /\ fifo'.app = fifo.app /\ fifo'.ack = fifo.ack
      /\ fifo'.recvFeedback = fifo.recvFeedback
  <2>1. CASE SendWriteData
    BY <1>2, <2>1 DEF SendWriteData, Put, Lossless, Streamed
  <2>2. CASE SendFinish
    BY <1>2, <2>2 DEF SendFinish, Lossless, Streamed
  <2>3. CASE EnqMpiData
    <3> DEFINE line == Head(fifo.mpiData).line
               last == Head(fifo.mpiData).last
    <3>1. CASE Move("mpiData", "mpiIn", [lines |-> <<line>>, last |-> TRUE])
      <4> HIDE DEF line
      <4> QED BY <1>2, <3>1 DEF Move, Lossless, Streamed
    <3>2. CASE fifo' = [fifo EXCEPT !.mpiData = Tail(@)]
      BY <1>2, <3>2 DEF Lossless, Streamed
    <3>3. CASE Move("mpiData", "mpiIn", [lines |-> <<enq.first, line>>, last |-> last])
      <4>1. PICK x : fifo' = [fifo EXCEPT !.mpiData = Tail(@), !.mpiIn = Append(@, x)]
        BY <3>3 DEF Move
      <4>2. Streamed
        BY <1>2 DEF Lossless
      <4> QED BY <4>1, <4>2 DEF Streamed
    <3> QED BY <2>3, <3>1, <3>2, <3>3 DEF EnqMpiData
  <2> QED BY <2>1, <2>2, <2>3
<1>5. ToPackets(r, q)' /\ ToReceiver(q, z)' /\ Ends(tk, rk)' /\ FromNetwork(z, u)'
  BY <1>2, <1>3, <1>4, SameToPackets, SameToReceiver, SameEnds, SameFromNetwork
<1>6. ToLines(u, s)' /\ ToWrapper(s, f)'
  BY <1>2, <1>3, <1>4, SameToLines, SameToWrapper
<1>7. CASE SendWriteData
  <2>1. PICK d \in Int : /\ d = w + 1 /\ FromWrapper(d)' /\ ToBeats(d, e)'
                         /\ sw.state # "SEND_DONE" /\ sw'.state # "SEND_DONE"
    BY <1>2, <1>7, SendWriteDataStep
  <2>2. UNCHANGED enq /\ fifo'.mpiIn = fifo.mpiIn /\ fifo'.sendFeedback = fifo.sendFeedback
    BY <1>2, <1>7 DEF SendWriteData, Put, Lossless, Streamed
  <2>3. ToEngine(e, r)'
    BY <1>2, <1>3, <2>2, SameToEngine
  <2>5. Answers'
    BY <1>2, <1>3, <1>4, <2>1, <2>2, SameAnswers
  <2>6. Flow(d, e, r, q, z, tk, rk, u, s, f)'
    BY <1>5, <1>6, <2>1, <2>3, <2>5 DEF Flow
  <2> QED BY <2>6 DEF FlowInv
<1>8. CASE SendFinish
  <2>1. FromWrapper(w)' /\ Answers'
    BY <1>2, <1>8, SendFinishStep
  <2>2. UNCHANGED enq /\ fifo'.mpiIn = fifo.mpiIn /\ fifo'.mpiData = fifo.mpiData
    BY <1>2, <1>8 DEF SendFinish, Lossless, Streamed
  <2>3. ToBeats(w, e)' /\ ToEngine(e, r)'
    BY <1>2, <1>3, <2>2, SameToBeats, SameToEngine
  <2>4. Flow(w, e, r, q, z, tk, rk, u, s, f)'
    BY <1>5, <1>6, <2>1, <2>3 DEF Flow
  <2> QED BY <2>4 DEF FlowInv
<1>9. CASE EnqMpiData
  <2>1. PICK d \in Int : ToBeats(w, d)' /\ ToEngine(d, r)'
    BY <1>2, <1>9, EnqMpiDataStep
  <2>2. UNCHANGED sw /\ fifo'.sendFeedback = fifo.sendFeedback
    BY <1>2, <1>9 DEF EnqMpiData, Move, Lossless, Streamed
  <2>3. FromWrapper(w)' /\ Answers'
    BY <1>2, <1>3, <1>4, <2>2, SameFromWrapper, SameAnswers
  <2>4. Flow(w, d, r, q, z, tk, rk, u, s, f)'
    BY <1>5, <1>6, <2>1, <2>3 DEF Flow
  <2> QED BY <2>4 DEF FlowInv
<1> QED BY <1>7, <1>8, <1>9

(* Steps of pMpeGlobal of the sender *)
LEMMA EngineSendsFlow ==
  ASSUME FlowInv, PacketInv, Lossless',
         \/ SendDataStart \/ SendDataStart1 \/ SendDataRd
         \/ SendDataWrd \/ Wait4Ack
  PROVE  FlowInv'
<1>1. PICK w, e, r, q, z, u, s, f \in Int, tk, rk \in Nat :
        Flow(w, e, r, q, z, tk, rk, u, s, f)
  BY DEF FlowInv
<1>2. /\ Lossless /\ Answers /\ FromWrapper(w) /\ ToBeats(w, e) /\ ToEngine(e, r)
      /\ ToPackets(r, q) /\ ToReceiver(q, z) /\ Ends(tk, rk) /\ FromNetwork(z, u)
      /\ ToLines(u, s) /\ ToWrapper(s, f)
  BY <1>1 DEF Flow
<1>3. UNCHANGED <<job, sw, enq, dq, net, tin, re, dr, rw, dst>>
  BY DEF SendDataStart, SendDataStart1, SendDataRd, SendDataWrd, Wait4Ack
<1>4. /\ fifo'.mpiData = fifo.mpiData /\ fifo'.meta = fifo.meta
      /\ fifo'.tcpIn = fifo.tcpIn /\ fifo'.rx = fifo.rx
      /\ fifo'.expLen = fifo.expLen /\ fifo'.recvDone = fifo.recvDone
      /\ fifo'.app = fifo.app
  <2>1. CASE SendDataStart
    BY <1>2, <2>1 DEF SendDataStart, Put, Move, Lossless, Streamed
  <2>2. CASE SendDataStart1
    BY <1>2, <2>2 DEF SendDataStart1, Put, Move, Lossless, Streamed
  <2>3. CASE SendDataRd
    BY <1>2, <2>3 DEF SendDataRd, Put, Move, Lossless, Streamed
  <2>4. CASE SendDataWrd
    BY <1>2, <2>4 DEF SendDataWrd, Put, Move, Lossless, Streamed
  <2>5. CASE Wait4Ack
    BY <1>2, <2>5 DEF Wait4Ack, Put, Move, Lossless, Streamed
  <2> QED BY <2>1, <2>2, <2>3, <2>4, <2>5
<1>5. /\ FromWrapper(w)' /\ ToBeats(w, e)' /\ ToReceiver(q, z)' /\ Ends(tk, rk)'
      /\ FromNetwork(z, u)' /\ ToLines(u, s)' /\ ToWrapper(s, f)'
  BY <1>2, <1>3, <1>4, SameFromWrapper, SameToBeats, SameToReceiver, SameEnds, SameFromNetwork,
     SameToLines, SameToWrapper
<1>6. CASE SendDataStart
  <2>1. ToEngine(e, r)' /\ ToPackets(r, q)' /\ Answers'
    BY <1>2, <1>6, SendDataStartStep
  <2>2. Flow(w, e, r, q, z, tk, rk, u, s, f)'
    BY <1>5, <2>1 DEF Flow
  <2> QED BY <2>2 DEF FlowInv
<1>7. CASE SendDataStart1
  <2>1. ToEngine(e, r)' /\ ToPackets(r, q)' /\ Answers'
    BY <1>2, <1>7, SendDataStart1Step
  <2>2. Flow(w, e, r, q, z, tk, rk, u, s, f)'
    BY <1>5, <2>1 DEF Flow
  <2> QED BY <2>2 DEF FlowInv
<1>8. CASE SendDataRd
  <2>1. PICK d \in Int :
          ToEngine(e, d)' /\ ToPackets(d, q)' /\ Answers'
    BY <1>2, <1>8, SendDataRdStep
  <2>2. Flow(w, e, d, q, z, tk, rk, u, s, f)'
    BY <1>5, <2>1 DEF Flow
  <2> QED BY <2>2 DEF FlowInv
<1>9. CASE SendDataWrd
  <2>1. ToEngine(e, r)' /\ ToPackets(r, q)' /\ Answers'
    BY <1>2, <1>9, SendDataWrdStep
  <2>2. Flow(w, e, r, q, z, tk, rk, u, s, f)'
    BY <1>5, <2>1 DEF Flow
  <2> QED BY <2>2 DEF FlowInv
<1>10. CASE Wait4Ack
  <2>1. ToEngine(e, r)' /\ ToPackets(r, q)' /\ Answers'
    BY <1>2, <1>10, Wait4AckStep
  <2>2. Flow(w, e, r, q, z, tk, rk, u, s, f)'
    BY <1>5, <2>1 DEF Flow
  <2> QED BY <2>2 DEF FlowInv
<1> QED BY <1>6, <1>7, <1>8, <1>9, <1>10


(* Steps of pDeqSend *)
LEMMA PacketsFlow ==
  ASSUME FlowInv, PacketInv, Lossless',
         \/ DeqIdle \/ DeqStart \/ DeqStartWithSecond
         \/ DeqWrite \/ DeqWrite2 \/ DeqDone
  PROVE  FlowInv'
<1>1. PICK w, e, r, q, z, u, s, f \in Int, tk, rk \in Nat :
        Flow(w, e, r, q, z, tk, rk, u, s, f)
  BY DEF FlowInv
<1>2. /\ Lossless /\ Answers /\ FromWrapper(w) /\ ToBeats(w, e) /\ ToEngine(e, r)
      /\ ToPackets(r, q) /\ ToReceiver(q, z) /\ Ends(tk, rk) /\ FromNetwork(z, u)
      /\ ToLines(u, s) /\ ToWrapper(s, f)
  BY <1>1 DEF Flow
<1>3. UNCHANGED <<job, sw, enq, se, tin, re, dr, rw, dst>>
  BY DEF DeqIdle, DeqStart, DeqStartWithSecond, DeqWrite, DeqWrite2, DeqDone
<1>4. /\ fifo'.mpiData = fifo.mpiData /\ fifo'.mpiIn = fifo.mpiIn
      /\ fifo'.meta = fifo.meta /\ fifo'.tcpIn = fifo.tcpIn /\ fifo'.rx = fifo.rx
      /\ fifo'.expLen = fifo.expLen /\ fifo'.recvDone = fifo.recvDone
      /\ fifo'.app = fifo.app /\ fifo'.ack = fifo.ack
      /\ fifo'.sendFeedback = fifo.sendFeedback
      /\ fifo'.recvFeedback = fifo.recvFeedback
  <2>1. CASE DeqIdle
    BY <1>2, <2>1 DEF DeqIdle, Put, Move, Lossless, Streamed
  <2>2. CASE DeqStart
    BY <1>2, <2>2 DEF DeqStart, Put, Move, Lossless, Streamed
  <2>3. CASE DeqStartWithSecond
    BY <1>2, <2>3 DEF DeqStartWithSecond, Put, Move, Lossless, Streamed
  <2>4. CASE DeqWrite
    BY <1>2, <2>4 DEF DeqWrite, Put, Move, Lossless, Streamed
  <2>5. CASE DeqWrite2
    BY <1>2, <2>5 DEF DeqWrite2, Put, Move, Lossless, Streamed
  <2>6. CASE DeqDone
    BY <1>2, <2>6 DEF DeqDone, Put, Move, Lossless, Streamed
  <2> QED BY <2>1, <2>2, <2>3, <2>4, <2>5, <2>6
<1>5. /\ FromWrapper(w)' /\ ToBeats(w, e)' /\ ToEngine(e, r)' /\ Ends(tk, rk)'
      /\ FromNetwork(z, u)' /\ ToLines(u, s)' /\ ToWrapper(s, f)' /\ Answers'
  BY <1>2, <1>3, <1>4, SameFromWrapper, SameToBeats, SameToEngine, SameEnds, SameFromNetwork,
     SameToLines, SameToWrapper, SameAnswers
<1>6. CASE DeqIdle
  <2>1. ToPackets(r, q)' /\ ToReceiver(q, z)'
    BY <1>2, <1>6, DeqIdleStep
  <2>2. Flow(w, e, r, q, z, tk, rk, u, s, f)'
    BY <1>5, <2>1 DEF Flow
  <2> QED BY <2>2 DEF FlowInv
<1>7. CASE DeqStart
  <2>1. PICK d \in Int :
          ToPackets(r, d)' /\ ToReceiver(d, z)'
    BY <1>2, <1>7, DeqStartStep
  <2>2. Flow(w, e, r, d, z, tk, rk, u, s, f)'
    BY <1>5, <2>1 DEF Flow
  <2> QED BY <2>2 DEF FlowInv
<1>8. CASE DeqStartWithSecond
  <2>1. ToPackets(r, q)' /\ ToReceiver(q, z)'
    BY <1>2, <1>8, DeqStartWithSecondStep
  <2>2. Flow(w, e, r, q, z, tk, rk, u, s, f)'
    BY <1>5, <2>1 DEF Flow
  <2> QED BY <2>2 DEF FlowInv
<1>9. CASE DeqWrite
  <2>1. PICK d \in Int :
          ToPackets(r, d)' /\ ToReceiver(d, z)'
    BY <1>2, <1>9, DeqStartStep
  <2>2. Flow(w, e, r, d, z, tk, rk, u, s, f)'
    BY <1>5, <2>1 DEF Flow
  <2> QED BY <2>2 DEF FlowInv
<1>10. CASE DeqWrite2
  <2>1. ToPackets(r, q)' /\ ToReceiver(q, z)'
    BY <1>2, <1>10, DeqWrite2Step
  <2>2. Flow(w, e, r, q, z, tk, rk, u, s, f)'
    BY <1>5, <2>1 DEF Flow
  <2> QED BY <2>2 DEF FlowInv
<1>11. CASE DeqDone
  <2>1. ToPackets(r, q)' /\ ToReceiver(q, z)'
    BY <1>2, <1>11, DeqDoneStep
  <2>2. Flow(w, e, r, q, z, tk, rk, u, s, f)'
    BY <1>5, <2>1 DEF Flow
  <2> QED BY <2>2 DEF FlowInv
<1> QED BY <1>6, <1>7, <1>8, <1>9, <1>10, <1>11


(* Steps of pEnqTcpIn *)
LEMMA ArrivalFlow ==
  ASSUME FlowInv, PacketInv, Lossless', EnqTcpIn
  PROVE  FlowInv'
<1>1. PICK w, e, r, q, z, u, s, f \in Int, tk, rk \in Nat :
        Flow(w, e, r, q, z, tk, rk, u, s, f)
  BY DEF FlowInv
<1>2. /\ Lossless /\ Answers /\ FromWrapper(w) /\ ToBeats(w, e) /\ ToEngine(e, r)
      /\ ToPackets(r, q) /\ ToReceiver(q, z) /\ Ends(tk, rk) /\ FromNetwork(z, u)
      /\ ToLines(u, s) /\ ToWrapper(s, f)
  BY <1>1 DEF Flow
<1>3. UNCHANGED <<job, sw, enq, se, dq, re, dr, rw, dst>>
  BY DEF EnqTcpIn
<1>4. /\ fifo'.mpiData = fifo.mpiData /\ fifo'.mpiIn = fifo.mpiIn
      /\ fifo'.tx = fifo.tx /\ fifo'.destId = fifo.destId
      /\ fifo'.sendDone = fifo.sendDone /\ fifo'.rx = fifo.rx
      /\ fifo'.expLen = fifo.expLen /\ fifo'.recvDone = fifo.recvDone
      /\ fifo'.app = fifo.app /\ fifo'.ack = fifo.ack
      /\ fifo'.sendFeedback = fifo.sendFeedback
      /\ fifo'.recvFeedback = fifo.recvFeedback
  <2> DEFINE line == Head(Head(net.packets))
             last == Tail(Head(net.packets)) = << >>
             meta == IF tin.state = "DEQ_START" THEN fifo.meta + 1 ELSE fifo.meta
             To(lines) == [fifo EXCEPT !.meta = meta,
                             !.tcpIn = Append(@, [lines |-> lines, last |-> last])]
  <2>1. fifo' = To(<<line>>) \/ fifo' = [fifo EXCEPT !.meta = meta]
        \/ fifo' = To(<<tin.first, line>>)
    BY DEF EnqTcpIn
  <2> HIDE DEF meta, last, line
  <2>2. CASE fifo' = To(<<line>>)
    BY <1>2, <2>2 DEF Lossless, Streamed
  <2>3. CASE fifo' = [fifo EXCEPT !.meta = meta]
    BY <1>2, <2>3 DEF Lossless, Streamed
  <2>4. CASE fifo' = To(<<tin.first, line>>)
    BY <1>2, <2>4 DEF Lossless, Streamed
  <2> QED BY <2>1, <2>2, <2>3, <2>4
<1>5. /\ FromWrapper(w)' /\ ToBeats(w, e)' /\ ToEngine(e, r)' /\ ToPackets(r, q)'
      /\ ToLines(u, s)' /\ ToWrapper(s, f)' /\ Answers'
  BY <1>2, <1>3, <1>4, SameFromWrapper, SameToBeats, SameToEngine, SameToPackets, SameToLines,
     SameToWrapper, SameAnswers
<1>6. CASE EnqTcpIn
  <2>1. PICK d \in Int, k \in Nat :
          d = z + 1 /\ ToReceiver(q, d)' /\ Ends(k, rk)' /\ FromNetwork(d, u)'
    BY <1>2, <1>6, EnqTcpInStep
  <2>2. Flow(w, e, r, q, d, k, rk, u, s, f)'
    BY <1>5, <2>1 DEF Flow
  <2> QED BY <2>2 DEF FlowInv
<1> QED BY <1>6


(* Steps of pMpeGlobal of the receiver *)
LEMMA EngineReceivesFlow ==
  ASSUME FlowInv, PacketInv, Lossless',
         \/ RecvDataMore \/ RecvDataStart \/ RecvDataStart1
         \/ RecvDataRd \/ RecvDataWrd
  PROVE  FlowInv'
<1>1. PICK w, e, r, q, z, u, s, f \in Int, tk, rk \in Nat :
        Flow(w, e, r, q, z, tk, rk, u, s, f)
  BY DEF FlowInv
<1>2. /\ Lossless /\ Answers /\ FromWrapper(w) /\ ToBeats(w, e) /\ ToEngine(e, r)
      /\ ToPackets(r, q) /\ ToReceiver(q, z) /\ Ends(tk, rk) /\ FromNetwork(z, u)
      /\ ToLines(u, s) /\ ToWrapper(s, f)
  BY <1>1 DEF Flow
<1>3. UNCHANGED <<job, sw, enq, se, dq, net, tin, dr, rw, dst>>
  BY DEF RecvDataMore, RecvDataStart, RecvDataStart1, RecvDataRd, RecvDataWrd
<1>4. /\ fifo'.mpiData = fifo.mpiData /\ fifo'.mpiIn = fifo.mpiIn
      /\ fifo'.tx = fifo.tx /\ fifo'.destId = fifo.destId
      /\ fifo'.sendDone = fifo.sendDone /\ fifo'.app = fifo.app
  <2>1. CASE RecvDataMore
    BY <1>2, <2>1 DEF RecvDataMore, Put, Move, Lossless, Streamed
  <2>2. CASE RecvDataStart
    BY <1>2, <2>2 DEF RecvDataStart, Put, Move, Lossless, Streamed
  <2>3. CASE RecvDataStart1
    BY <1>2, <2>3 DEF RecvDataStart1, Put, Move, Lossless, Streamed
  <2>4. CASE RecvDataRd
    BY <1>2, <2>4 DEF RecvDataRd, Put, Move, Lossless, Streamed
  <2>5. CASE RecvDataWrd
    BY <1>2, <2>5 DEF RecvDataWrd, Put, Move, Lossless, Streamed
  <2> QED BY <2>1, <2>2, <2>3, <2>4, <2>5
<1>5. /\ FromWrapper(w)' /\ ToBeats(w, e)' /\ ToEngine(e, r)' /\ ToPackets(r, q)'
      /\ ToReceiver(q, z)' /\ ToWrapper(s, f)'
  BY <1>2, <1>3, <1>4, SameFromWrapper, SameToBeats, SameToEngine, SameToPackets, SameToReceiver,
     SameToWrapper
<1>6. CASE RecvDataMore
  <2>1. Ends(tk, rk)' /\ FromNetwork(z, u)' /\ ToLines(u, s)' /\ Answers'
    BY <1>2, <1>6, RecvDataMoreStep
  <2>2. Flow(w, e, r, q, z, tk, rk, u, s, f)'
    BY <1>5, <2>1 DEF Flow
  <2> QED BY <2>2 DEF FlowInv
<1>7. CASE RecvDataStart
  <2>1. PICK d \in Int :
          /\ d = -1 /\ Ends(tk, rk)' /\ FromNetwork(z, d)' /\ ToLines(d, s)'
          /\ Answers'
    BY <1>2, <1>7, RecvDataStartStep
  <2>2. Flow(w, e, r, q, z, tk, rk, d, s, f)'
    BY <1>5, <2>1 DEF Flow
  <2> QED BY <2>2 DEF FlowInv
<1>8. CASE RecvDataStart1
  <2>1. PICK d \in Int :
          /\ d = 1 /\ Ends(tk, rk)' /\ FromNetwork(z, d)' /\ ToLines(d, s)'
          /\ Answers'
    BY <1>2, <1>8, RecvDataStart1Step
  <2>2. Flow(w, e, r, q, z, tk, rk, d, s, f)'
    BY <1>5, <2>1 DEF Flow
  <2> QED BY <2>2 DEF FlowInv
<1>9. CASE RecvDataRd
  <2>1. PICK d \in Int, k \in Nat :
          Ends(tk, k)' /\ FromNetwork(z, d)' /\ ToLines(d, s)' /\ Answers'
    BY <1>2, <1>9, RecvDataRdStep
  <2>2. Flow(w, e, r, q, z, tk, k, d, s, f)'
    BY <1>5, <2>1 DEF Flow
  <2> QED BY <2>2 DEF FlowInv
<1>10. CASE RecvDataWrd
  <2>1. Ends(tk, rk)' /\ FromNetwork(z, u)' /\ ToLines(u, s)' /\ Answers'
    BY <1>2, <1>10, RecvDataWrdStep
  <2>2. Flow(w, e, r, q, z, tk, rk, u, s, f)'
    BY <1>5, <2>1 DEF Flow
  <2> QED BY <2>2 DEF FlowInv
<1> QED BY <1>6, <1>7, <1>8, <1>9, <1>10


(* Steps of pDeqRecv *)
LEMMA LinesFlow ==
  ASSUME FlowInv, PacketInv, Lossless',
         \/ DeqRecvIdle \/ DeqRecvWrite \/ DeqRecvWrite2
         \/ DeqRecvDone
  PROVE  FlowInv'
<1>1. PICK w, e, r, q, z, u, s, f \in Int, tk, rk \in Nat :
        Flow(w, e, r, q, z, tk, rk, u, s, f)
  BY DEF FlowInv
<1>2. /\ Lossless /\ Answers /\ FromWrapper(w) /\ ToBeats(w, e) /\ ToEngine(e, r)
      /\ ToPackets(r, q) /\ ToReceiver(q, z) /\ Ends(tk, rk) /\ FromNetwork(z, u)
      /\ ToLines(u, s) /\ ToWrapper(s, f)
  BY <1>1 DEF Flow
<1>3. UNCHANGED <<job, sw, enq, se, dq, net, tin, re, rw, dst>>
  BY DEF DeqRecvIdle, DeqRecvWrite, DeqRecvWrite2, DeqRecvDone
<1>4. /\ fifo'.mpiData = fifo.mpiData /\ fifo'.mpiIn = fifo.mpiIn
      /\ fifo'.tx = fifo.tx /\ fifo'.destId = fifo.destId
      /\ fifo'.sendDone = fifo.sendDone /\ fifo'.meta = fifo.meta
      /\ fifo'.tcpIn = fifo.tcpIn /\ fifo'.ack = fifo.ack
      /\ fifo'.sendFeedback = fifo.sendFeedback
      /\ fifo'.recvFeedback = fifo.recvFeedback
  <2>1. CASE DeqRecvIdle
    BY <1>2, <2>1 DEF DeqRecvIdle, Put, Move, Lossless, Streamed
  <2>2. CASE DeqRecvWrite
    <3>1. PICK y : fifo' = [fifo EXCEPT !.rx = Tail(@), !.app = Append(@, y)]
      BY <2>2 DEF DeqRecvWrite, Move
    <3>2. Streamed
      BY <1>2 DEF Lossless
    <3> QED BY <3>1, <3>2 DEF Streamed
  <2>3. CASE DeqRecvWrite2
    BY <1>2, <2>3 DEF DeqRecvWrite2, Put, Move, Lossless, Streamed
  <2>4. CASE DeqRecvDone
    BY <1>2, <2>4 DEF DeqRecvDone, Put, Move, Lossless, Streamed
  <2> QED BY <2>1, <2>2, <2>3, <2>4
<1>5. /\ FromWrapper(w)' /\ ToBeats(w, e)' /\ ToEngine(e, r)' /\ ToPackets(r, q)'
      /\ ToReceiver(q, z)' /\ Ends(tk, rk)' /\ FromNetwork(z, u)' /\ Answers'
  BY <1>2, <1>3, <1>4, SameFromWrapper, SameToBeats, SameToEngine, SameToPackets, SameToReceiver,
     SameEnds, SameFromNetwork, SameAnswers
<1>6. CASE DeqRecvIdle
  <2>1. ToLines(u, s)' /\ ToWrapper(s, f)'
    BY <1>2, <1>6, DeqRecvIdleStep
  <2>2. Flow(w, e, r, q, z, tk, rk, u, s, f)'
    BY <1>5, <2>1 DEF Flow
  <2> QED BY <2>2 DEF FlowInv
<1>7. CASE DeqRecvWrite
  <2>1. PICK d \in Int :
          ToLines(u, d)' /\ ToWrapper(d, f)'
    BY <1>2, <1>7, DeqRecvWriteStep
  <2>2. Flow(w, e, r, q, z, tk, rk, u, d, f)'
    BY <1>5, <2>1 DEF Flow
  <2> QED BY <2>2 DEF FlowInv
<1>8. CASE DeqRecvWrite2
  <2>1. ToLines(u, s)' /\ ToWrapper(s, f)'
    BY <1>2, <1>8, DeqRecvWrite2Step
  <2>2. Flow(w, e, r, q, z, tk, rk, u, s, f)'
    BY <1>5, <2>1 DEF Flow
  <2> QED BY <2>2 DEF FlowInv
<1>9. CASE DeqRecvDone
  <2>1. ToLines(u, s)' /\ ToWrapper(s, f)'
    BY <1>2, <1>9, DeqRecvDoneStep
  <2>2. Flow(w, e, r, q, z, tk, rk, u, s, f)'
    BY <1>5, <2>1 DEF Flow
  <2> QED BY <2>2 DEF FlowInv
<1> QED BY <1>6, <1>7, <1>8, <1>9


(* Steps of the wrapper that receives *)
LEMMA WrapperReceivesFlow ==
  ASSUME FlowInv, PacketInv, Lossless', RecvReadDram \/ RecvReadData \/ RecvFinish
  PROVE  FlowInv'
<1>1. PICK w, e, r, q, z, u, s, f \in Int, tk, rk \in Nat :
        Flow(w, e, r, q, z, tk, rk, u, s, f)
  BY DEF FlowInv
<1>2. /\ Lossless /\ Answers /\ FromWrapper(w) /\ ToBeats(w, e) /\ ToEngine(e, r)
      /\ ToPackets(r, q) /\ ToReceiver(q, z) /\ Ends(tk, rk) /\ FromNetwork(z, u)
      /\ ToLines(u, s) /\ ToWrapper(s, f)
  BY <1>1 DEF Flow
<1>3. UNCHANGED <<job, sw, enq, se, dq, net, tin, re, dr>>
  BY DEF RecvReadDram, RecvReadData, RecvFinish
<1>4. /\ fifo'.mpiData = fifo.mpiData /\ fifo'.mpiIn = fifo.mpiIn
      /\ fifo'.tx = fifo.tx /\ fifo'.destId = fifo.destId
      /\ fifo'.sendDone = fifo.sendDone /\ fifo'.meta = fifo.meta
      /\ fifo'.tcpIn = fifo.tcpIn /\ fifo'.rx = fifo.rx
      /\ fifo'.expLen = fifo.expLen /\ fifo'.recvDone = fifo.recvDone
  <2>1. CASE RecvReadDram
    BY <1>2, <2>1 DEF RecvReadDram, Put, Move, Lossless, Streamed
  <2>2. CASE RecvReadData
    BY <1>2, <2>2 DEF RecvReadData, Put, Move, Lossless, Streamed
  <2>3. CASE RecvFinish
    BY <1>2, <2>3 DEF RecvFinish, Put, Move, Lossless, Streamed
  <2> QED BY <2>1, <2>2, <2>3
<1>5. /\ FromWrapper(w)' /\ ToBeats(w, e)' /\ ToEngine(e, r)' /\ ToPackets(r, q)'
      /\ ToReceiver(q, z)' /\ Ends(tk, rk)' /\ FromNetwork(z, u)' /\ ToLines(u, s)'
  BY <1>2, <1>3, <1>4, SameFromWrapper, SameToBeats, SameToEngine, SameToPackets, SameToReceiver,
     SameEnds, SameFromNetwork, SameToLines
<1>6. CASE RecvReadDram
  <2>1. PICK d \in Int :
          /\ d = f + 1 /\ ToWrapper(s, d)'
          /\ rw.state # "RECV_DONE" /\ rw'.state # "RECV_DONE"
    BY <1>2, <1>6, RecvReadDramStep
  <2>2. fifo'.ack = fifo.ack /\ fifo'.sendFeedback = fifo.sendFeedback
        /\ fifo'.recvFeedback = fifo.recvFeedback
    BY <1>2, <1>6 DEF RecvReadDram, Put, Move, Lossless, Streamed
  <2>3. Answers'
    BY <1>2, <1>3, <2>1, <2>2, SameAnswers
  <2>4. Flow(w, e, r, q, z, tk, rk, u, s, d)'
    BY <1>5, <2>1, <2>3 DEF Flow
  <2> QED BY <2>4 DEF FlowInv
<1>7. CASE RecvReadData
  <2>1. PICK d \in Int :
          /\ d = f + 1 /\ ToWrapper(s, d)'
          /\ rw.state # "RECV_DONE" /\ rw'.state # "RECV_DONE"
    BY <1>2, <1>7, RecvReadDataStep
  <2>2. fifo'.ack = fifo.ack /\ fifo'.sendFeedback = fifo.sendFeedback
        /\ fifo'.recvFeedback = fifo.recvFeedback
    BY <1>2, <1>7 DEF RecvReadData, Put, Move, Lossless, Streamed
  <2>3. Answers'
    BY <1>2, <1>3, <2>1, <2>2, SameAnswers
  <2>4. Flow(w, e, r, q, z, tk, rk, u, s, d)'
    BY <1>5, <2>1, <2>3 DEF Flow
  <2> QED BY <2>4 DEF FlowInv
<1>8. CASE RecvFinish
  <2>1. ToWrapper(s, f)' /\ Answers'
    BY <1>2, <1>8, RecvFinishStep
  <2>2. Flow(w, e, r, q, z, tk, rk, u, s, f)'
    BY <1>5, <2>1 DEF Flow
  <2> QED BY <2>2 DEF FlowInv
<1> QED BY <1>6, <1>7, <1>8

-----------------------------------------------------------------------------
(* No timer expires: as long as nothing is lost, some process can go on.   *)

(* Every step leads to a later line. *)
LEMMA StepsLead ==
  ASSUME Lossless
  PROVE  /\ \A x, a, b : <<x, a, b>> \in LineSteps(job.count) => a < b
         /\ \A x, a, b : <<x, a, b>> \in BeatSteps(job.count) => a < b
         /\ \A x, a, b : <<x, a, b>> \in PacketSteps(job.count) => a < b
         /\ \A x, a, b : <<x, a, b>> \in ArrivedSteps(job.count) => a < b
<1> DEFINE c == job.count
           F == Final(c)
<1>1. F \in Nat
  BY CountType
<1> HIDE DEF F, c
<1>2. ASSUME NEW x, NEW a, NEW b, <<x, a, b>> \in LineSteps(c) PROVE a < b
  <2>1. a \in 1 .. F /\ b = a + 1
    BY <1>2, LineStep DEF F
  <2> QED BY <1>1, <2>1
<1>3. ASSUME NEW x, NEW a, NEW b, <<x, a, b>> \in BeatSteps(c) PROVE a < b
  <2>1. \/ a \in -3 .. Final(c) - 1 /\ b = a + 2
        \/ a = Final(c) /\ b = a + 1
    BY <1>3, BeatStep, Zenon
  <2> QED BY <1>1, <2>1 DEF F
<1>4. ASSUME NEW x, NEW a, NEW b, <<x, a, b>> \in PacketSteps(c) PROVE a < b
  BY <1>4, PacketStep
<1>5. ASSUME NEW x, NEW a, NEW b, <<x, a, b>> \in ArrivedSteps(c) PROVE a < b
  <2>1. \/ a \in {-3, -1} /\ b = a + 2
        \/ a \in 1 .. F - 1 /\ b = a + 2
        \/ a \in 1 .. F /\ b = a + 1
    BY <1>5, ArrivedStep DEF F
  <2> QED BY <1>1, <2>1
<1> QED BY <1>2, <1>3, <1>4, <1>5 DEF c

(* The engine of the sender waits for the acknowledgement, or is done:     *)
(* everything it was given has been cut into packets.                      *)
LEMMA AllPacked ==
  ASSUME Lossless, PacketInv, NEW e \in Int, NEW r \in Int, NEW q \in Int,
         ToEngine(e, r), ToPackets(r, q), se.state \in {"WAIT4ACK", "IDLE"}
  PROVE  /\ q = Final(job.count) + 1 /\ r = Final(job.count) + 1
         /\ Packed(q) = Final(job.count) + 1
         /\ dq.state = "DEQ_IDLE" /\ dq.packet = << >> /\ SentTo(r) = r
<1>1. dq.state = "DEQ_IDLE" /\ q = Final(job.count) + 1
  BY DEF ToPackets, SenderFlags
<1>2. dq.packet = << >>
  BY <1>1 DEF PacketInv, Counted
<1>3. r = Final(job.count) + 1
  BY DEF ToEngine, Reading
<1>4. Emitted(q) = q /\ Len(dq.packet) = 0
  BY <1>1, <1>2, EmptyIsSeq DEF Emitted, Kept
<1>5. Packed(q) = q
  BY <1>4 DEF Packed
<1>6. SentTo(r) = r
  BY DEF SentTo
<1> QED BY <1>1, <1>2, <1>3, <1>5, <1>6

(* If all waited, each would wait for the next one, and the last for nobody. *)
LEMMA NotQuiet ==
  ASSUME FlowInv, PacketInv, Quiet
  PROVE  FALSE
<1>1. PICK w, e, r, q, z, u, s, f \in Int, tk, rk \in Nat :
        Flow(w, e, r, q, z, tk, rk, u, s, f)
  BY DEF FlowInv
<1>2. /\ Lossless /\ Answers /\ FromWrapper(w) /\ ToBeats(w, e) /\ ToEngine(e, r)
      /\ ToPackets(r, q) /\ ToReceiver(q, z) /\ Ends(tk, rk) /\ FromNetwork(z, u)
      /\ ToLines(u, s) /\ ToWrapper(s, f)
  BY <1>1 DEF Flow
<1> DEFINE c == job.count
           F == Final(job.count)
<1>3. /\ F \in Nat /\ F >= 1
      /\ Depth \in Nat /\ Depth > 0
  BY <1>2, CountType, DataPathAssumption
<1>4. /\ se.state = "WAIT4ACK" /\ fifo.ack = 0
      /\ net.packets = << >> \/ ~Room("tcpIn")
      /\ \/ re.state = "RECV_DATA_START" /\ (~Some("tcpIn") \/ fifo.meta = 0)
         \/ re.state \in {"RECV_DATA_START_1", "MPE_DRAIN_DATA_STREAM"} /\ ~Some("tcpIn")
         \/ re.state = "RECV_DATA_RD" /\ (~Some("tcpIn") \/ ~Room("rx"))
         \/ re.state = "RECV_DATA_WRD" /\ fifo.recvDone = 0
         \/ re.state = "IDLE"
      /\ \/ dr.state = "DEQ_IDLE" /\ fifo.expLen = << >>
         \/ dr.state = "DEQ_WRITE" /\ (~Some("rx") \/ ~Room("app"))
         \/ dr.state = "DEQ_WRITE_2" /\ ~Room("app")
      /\ \/ rw.state = "RECV_READ_DATA" /\ ~Some("app")
         \/ rw.state = "RECV_FINISH" /\ fifo.recvFeedback = << >>
         \/ rw.state = "RECV_DONE"
  BY DEF Quiet
<1>5. Packed(q) = F + 1
  BY <1>2, <1>4, AllPacked
<1>6. re.state # "IDLE" /\ rw.state # "RECV_DONE"
  BY <1>2, <1>4 DEF Answers
<1>7. /\ s \in 1 .. F + 1 /\ Parted(s) <= s /\ f \in 1 .. F + 1 /\ u \in Int
      /\ Passed(u) <= F + 1
  <2>1. s \in 1 .. F + 1 /\ Parted(s) <= s
    BY <1>2 DEF ToLines, Parting, Parted
  <2>2. f \in 1 .. F + 1
    BY <1>2 DEF ToWrapper, Receiving
  <2>3. u <= F + 1
    <3>1. u = -3 \/ u = -1 \/ u \in 1 .. F \/ u = F + 1
      BY <1>2 DEF FromNetwork, Passing
    <3> QED BY <1>3, <3>1
  <2>4. Passed(u) <= F + 1
    BY <1>3, <2>3 DEF Passed
  <2> QED BY <2>1, <2>2, <2>4
<1> HIDE DEF F
<1>8. fifo.app = << >>
  <2>1. CASE rw.state = "RECV_FINISH"
    <3>1. ~(f <= F)
      BY <1>2, <2>1 DEF ToWrapper, Receiving, F
    <3>2. Carries(fifo.app, LineSteps(c), f, Parted(s))
      BY <1>2 DEF ToWrapper
    <3>3. f <= Parted(s) /\ Parted(s) \in Int /\ f \in Int
      BY <3>2, CarriesRange
    <3>4. Parted(s) = f
      BY <1>3, <1>7, <3>1, <3>3
    <3> QED BY <1>2, <3>2, <3>4, CarriesNothing, StepsLead
  <2>2. CASE rw.state # "RECV_FINISH"
    BY <1>4, <1>6, <2>2 DEF Some
  <2> QED BY <2>1, <2>2
<1>9. Room("app")
  BY <1>3, <1>8, EmptyIsSeq DEF Room
<1>10. /\ fifo.rx = << >> /\ s = Passed(u)
       /\ s = F + 1 => fifo.recvDone = 1
  <2>1. Carries(fifo.rx, ArrivedSteps(c), s, Passed(u))
    BY <1>2 DEF ToLines
  <2>2. s <= Passed(u) /\ s \in Int /\ Passed(u) \in Int
    BY <2>1, CarriesRange
  <2>3. CASE dr.state = "DEQ_IDLE"
    <3>1. fifo.expLen = << >>
      BY <1>4, <2>3
    <3>2. s \in {1, F + 1}
      BY <1>2, <2>3 DEF ToLines, Parting, F
    <3>3. s = 1 => ~(u >= 1)
      <4>1. s = 1 /\ u >= 1 => fifo.expLen = <<LineCnt(c)>>
        BY <1>2, <2>3 DEF ToLines, ReceiverFlags
      <4> QED BY <3>1, <4>1
    <3>4. s = Passed(u)
      <4>1. CASE s = 1
        BY <3>3, <4>1 DEF Passed
      <4>2. CASE s = F + 1
        BY <1>3, <1>7, <2>2, <4>2
      <4> QED BY <3>2, <4>1, <4>2
    <3>5. s = F + 1 => fifo.recvDone = 1
      BY <1>2, <1>6, <2>3 DEF ToLines, ReceiverFlags, F
    <3>6. fifo.rx = << >>
      BY <1>2, <2>1, <3>4, CarriesNothing, StepsLead
    <3> QED BY <3>4, <3>5, <3>6
  <2>4. CASE dr.state = "DEQ_WRITE"
    <3>1. fifo.rx = << >>
      BY <1>4, <1>9, <2>4 DEF Some
    <3>2. s = Passed(u)
      BY <2>1, <3>1, CarriesEmpty
    <3>3. s <= F
      BY <1>2, <2>4 DEF ToLines, Parting, F
    <3> QED BY <1>3, <2>2, <3>1, <3>2, <3>3
  <2> QED BY <1>4, <1>9, <2>3, <2>4
<1>11. Room("rx")
  BY <1>3, <1>10, EmptyIsSeq DEF Room
<1>12. /\ u < F + 1
       /\ fifo.tcpIn = << >> \/ (re.state = "RECV_DATA_START" /\ fifo.meta = 0)
  <2>1. re.state # "MPE_DRAIN_DATA_STREAM"
    BY <1>2 DEF FromNetwork, Passing
  <2>2. re.state # "RECV_DATA_WRD"
    <3> SUFFICES ASSUME re.state = "RECV_DATA_WRD" PROVE FALSE
      OBVIOUS
    <3>1. u = F + 1
      BY <1>2 DEF FromNetwork, Passing, F
    <3>2. Passed(u) = F + 1
      BY <1>3, <3>1 DEF Passed
    <3>3. fifo.recvDone = 1
      BY <1>10, <3>2
    <3> QED BY <1>4, <3>3
  <2>3. u = -3 \/ u = -1 \/ u \in 1 .. F
    BY <1>2, <1>6, <2>2 DEF FromNetwork, Passing, F
  <2>4. u < F + 1
    BY <1>3, <2>3
  <2>5. fifo.tcpIn = << >> \/ (re.state = "RECV_DATA_START" /\ fifo.meta = 0)
    BY <1>4, <1>6, <1>11, <2>1, <2>2 DEF Some
  <2> QED BY <2>4, <2>5
<1>13. CASE fifo.tcpIn = << >>
  <2>1. Room("tcpIn")
    BY <1>3, <1>13, EmptyIsSeq DEF Room
  <2>2. net.packets = << >>
    BY <1>4, <2>1
  <2>3. tin.state = "DEQ_START" /\ Carries(net.packets, PacketSteps(c), z, Packed(q))
    BY <1>2, <2>2 DEF ToReceiver, Arriving
  <2>4. z = F + 1
    BY <1>5, <2>2, <2>3, CarriesEmpty
  <2>5. Arrived(z) = z /\ Carries(fifo.tcpIn, ArrivedSteps(c), u, Arrived(z))
    BY <1>2, <2>3 DEF FromNetwork, Arrived
  <2>6. u = F + 1
    BY <1>13, <2>4, <2>5, CarriesEmpty
  <2> QED BY <1>3, <1>12, <2>6
<1>14. CASE fifo.tcpIn # << >>
  <2>1. re.state = "RECV_DATA_START" /\ fifo.meta = 0
    BY <1>12, <1>14
  <2>2. Metas(tk, rk) /\ Carries(fifo.tcpIn, EndSteps(c), rk, tk)
    BY <1>2 DEF Ends
  <2>3. rk <= tk
    BY <2>2, CarriesRange
  <2>4. tk = rk /\ tin.state = "DEQ_START"
    <3>1. 0 = tk + (IF tin.state # "DEQ_START" THEN 1 ELSE 0) - rk
      <4>1. fifo.meta = tk + (IF tin.state # "DEQ_START" THEN 1 ELSE 0)
                        - rk - (IF re.state \in {"RECV_DATA_START_1", "RECV_DATA_RD"} THEN 1 ELSE 0)
        BY <2>2 DEF Metas
      <4>2. ~(re.state \in {"RECV_DATA_START_1", "RECV_DATA_RD"})
        BY <2>1
      <4> QED BY <2>1, <4>1, <4>2
    <3> QED BY <2>3, <3>1
  <2>5. fifo.tcpIn[Len(fifo.tcpIn)].last
    BY <1>14, <2>2, <2>4 DEF Metas
  <2>6. PICK b \in Int : <<fifo.tcpIn[Len(fifo.tcpIn)], b, tk>> \in EndSteps(c) /\ rk <= b
    BY <1>14, <2>2, CarriesLast
  <2>7. tk = b + 1
    BY <2>5, <2>6, EndStepLeads
  <2> QED BY <2>4, <2>6, <2>7
<1> QED BY <1>13, <1>14

-----------------------------------------------------------------------------
(* Before the first step everything is at its first line. *)
LEMMA InitFlow == Init => FlowInv
<1> SUFFICES ASSUME Init PROVE FlowInv
  OBVIOUS
<1> DEFINE c == job.count
           F == Final(job.count)
<1>1. /\ job \in Job
      /\ sw = FirstWindow(Blank)
      /\ enq = [state |-> "DEQ_WRITE", first |-> NoLine]
      /\ se = [state |-> "SEND_DATA_START", total |-> 0, inc |-> 0, timer |-> "running"]
      /\ dq = [state |-> "DEQ_IDLE", cnt |-> 0, second |-> NoLine, goToDone |-> FALSE,
               startWithSecond |-> FALSE, packet |-> << >>]
      /\ net = [packets |-> << >>, losses |-> 0]
      /\ tin = [state |-> "DEQ_START", first |-> NoLine]
      /\ re = [state |-> "RECV_DATA_START", first |-> << >>, total |-> 0, more |-> FALSE,
               started |-> FALSE, inc |-> 0, timer |-> "running"]
      /\ dr = [state |-> "DEQ_IDLE", exp |-> 0, total |-> 0, second |-> NoLine]
      /\ rw = RecvWindow(Blank)
      /\ dst = [k \in 0 .. job.count + 1 |-> Old]
  BY DEF Init
<1>2. fifo = [mpiData |-> << >>, mpiIn |-> << >>, tx |-> << >>, tcpIn |-> << >>,
              rx |-> << >>, app |-> << >>, destId |-> 0, sendDone |-> 0, meta |-> 0,
              expLen |-> << >>, recvDone |-> 0, ack |-> 0,
              sendFeedback |-> << >>, recvFeedback |-> << >>]
  BY DEF Init
<1>3. /\ fifo.mpiData = << >> /\ fifo.mpiIn = << >> /\ fifo.tx = << >> /\ fifo.tcpIn = << >>
      /\ fifo.rx = << >> /\ fifo.app = << >> /\ fifo.destId = 0 /\ fifo.sendDone = 0
      /\ fifo.meta = 0 /\ fifo.expLen = << >> /\ fifo.recvDone = 0 /\ fifo.ack = 0
      /\ fifo.sendFeedback = << >> /\ fifo.recvFeedback = << >>
  BY <1>2
<1>4. Lossless
  <2>1. net.losses = 0
    BY <1>1
  <2>2. Streamed
    BY <1>2 DEF Streamed
  <2> QED BY <1>1, <2>1, <2>2 DEF Lossless
<1>5. /\ c \in Nat /\ F \in Nat /\ F >= 1 /\ Depth \in Nat /\ Len(<< >>) <= Depth
      /\ Window \in Nat /\ Window >= 2
  BY <1>4, CountType, WindowIsEven, DataPathAssumption, EmptyIsSeq
<1>6. /\ sw.state = "SEND_WRITE_DATA" /\ rw.state = "RECV_READ_DATA"
      /\ sw.i = 0 /\ sw.start = 0
      /\ sw = [state |-> sw.state, i |-> sw.i, start |-> sw.start, copied |-> sw.copied,
               words |-> sw.words]
      /\ sw.copied = IF job.sendDram THEN Lesser(Window, c) ELSE 0
      /\ sw.words = Copied(Blank, 0, IF job.sendDram THEN Lesser(Window, c)
                                     ELSE IF SmallMessage THEN 1 ELSE 0)
  <2>1. CASE job.sendDram
    BY <1>1, <2>1 DEF FirstWindow, RecvWindow
  <2>2. CASE ~job.sendDram
    BY <1>1, <2>2 DEF FirstWindow, RecvWindow
  <2> QED BY <2>1, <2>2
<1>7. Answers
  <2>1. se.state = "SEND_DATA_START" /\ re.state = "RECV_DATA_START"
    BY <1>1
  <2> QED BY <1>3, <1>6, <2>1 DEF Answers
<1>8. FromWrapper(1)
  <2>1. Sending(1)
    BY <1>5, <1>6 DEF Sending
  <2>2. Buffers(sw)
    <3> DEFINE n == IF job.sendDram THEN Lesser(Window, c) ELSE IF SmallMessage THEN 1 ELSE 0
    <3>1. sw.words = [k \in 0 .. Window - 1 |-> IF k < n THEN Data(0 + k) ELSE Old]
      <4>1. \A k \in 0 .. Window - 1 : Blank[k] = Old
        BY DEF Blank
      <4> HIDE DEF n
      <4> QED BY <1>6, <4>1 DEF Copied, n
    <3>2. sw.words = [k \in 0 .. Window - 1 |-> sw.words[k]]
      BY <3>1
    <3>3. ASSUME job.sendDram \/ SmallMessage, NEW k \in 0 .. Window - 1, k < Filled(sw)
          PROVE  sw.words[k] = WordAt(c, k)
      <4>1. CASE c = 0
        <5>1. Data(0 + k) = Old /\ WordAt(c, k) = Old
          BY <4>1 DEF Data, WordAt
        <5> QED BY <3>1, <5>1
      <4>2. CASE c # 0
        <5>1. k < n
          BY <1>6, <3>3, <4>2 DEF Filled
        <5>2. 0 + k = k /\ Data(0 + k) = WordAt(c, k)
          BY DEF Data, WordAt
        <5> QED BY <3>1, <5>1, <5>2
      <4> QED BY <4>1, <4>2
    <3>4. sw.start \in Nat /\ sw.start % 2 = 0 /\ sw.start <= c
      BY <1>5, <1>6
    <3>5. job.sendDram => sw.copied = Lesser(sw.start + Window, c)
      <4>1. sw.start + Window = Window
        BY <1>5, <1>6
      <4> QED BY <1>6, <4>1
    <3>6. ~job.sendDram => sw.start = 0 /\ sw.copied = 0
      BY <1>6
    <3>7. job.sendDram \/ SmallMessage =>
            \A k \in 0 .. Window - 1 : sw.start + k < Filled(sw) => sw.words[sw.start + k] = WordAt(c, sw.start + k)
      <4>1. \A k \in 0 .. Window - 1 : sw.start + k = k
        BY <1>5, <1>6
      <4> QED BY <3>3, <4>1
    <3>8. \A k \in 0 .. Window - 1 : sw.words[sw.start + k] = sw.words[k]
      BY <1>5, <1>6
    <3>9. job.sendDram \/ SmallMessage =>
            \A k \in 0 .. Window - 1 : sw.start + k < Filled(sw) => sw.words[k] = WordAt(c, sw.start + k)
      BY <3>7, <3>8
    <3> QED BY <3>2, <3>4, <3>5, <3>6, <3>9 DEF Buffers
  <2>3. job.sendDram => sw.start <= sw.i /\ sw.i <= sw.copied
    BY <1>5, <1>6 DEF Lesser
  <2> QED BY <2>1, <2>2, <2>3 DEF FromWrapper, Buffered
<1>9. ToBeats(1, 1)
  <2>1. NoLine \in Line
    BY DEF NoLine, Line, Word
  <2>2. Joining(1)
    BY <1>1, <1>5, <2>1 DEF Joining
  <2>3. Joined(1) = 1
    BY <1>1 DEF Joined
  <2> QED BY <1>3, <1>5, <2>2, <2>3, CarriesNone DEF ToBeats
<1>10. ToEngine(1, 1)
  <2>1. Reading(1)
    BY <1>1, <1>5 DEF Reading
  <2> QED BY <1>3, <1>5, <2>1, CarriesNone DEF ToEngine
<1>11. Packed(-3) = -3 /\ Emitted(-3) = -3
  <2>1. ~Kept
    BY <1>1 DEF Kept
  <2>2. Emitted(-3) = -3 /\ Len(dq.packet) = 0
    BY <1>1, <2>1, EmptyIsSeq DEF Emitted
  <2> QED BY <2>2 DEF Packed
<1>12. ToPackets(1, -3)
  <2>1. NoLine \in Line
    BY DEF NoLine, Line, Word
  <2>2. LinesFrom(c, -3, -3) = << >>
    BY LinesNone
  <2>3. -3 \in -3 .. F + 1 /\ -3 <= F
    BY <1>5
  <2>4. ~Kept
    BY <1>1 DEF Kept
  <2>5. Splitting(-3)
    BY <1>1, <1>11, <2>1, <2>2, <2>3, <2>4 DEF Splitting
  <2>6. SenderFlags(-3)
    BY <1>1, <1>3 DEF SenderFlags
  <2>7. SentTo(1) = -3
    BY <1>1 DEF SentTo
  <2>8. Carries(<< >>, BeatSteps(c), -3, -3)
    BY CarriesNone
  <2> QED BY <1>3, <1>5, <2>5, <2>6, <2>7, <2>8 DEF ToPackets
<1>13. ToReceiver(-3, -3)
  <2>1. NoLine \in Line
    BY DEF NoLine, Line, Word
  <2>2. -3 \in -3 .. F + 1
    BY <1>5
  <2>3. tin = [state |-> tin.state, first |-> tin.first] /\ tin.state = "DEQ_START"
        /\ tin.first = NoLine
    BY <1>1
  <2>4. Arriving(-3)
    BY <2>1, <2>2, <2>3 DEF Arriving
  <2>5. Carries(net.packets, PacketSteps(c), -3, -3)
    <3>1. net.packets = << >>
      BY <1>1
    <3> QED BY <3>1, CarriesNone
  <2> QED BY <1>11, <2>4, <2>5 DEF ToReceiver
<1>14. Ends(0, 0)
  <2>1. tin.state = "DEQ_START" /\ re.state = "RECV_DATA_START"
    BY <1>1
  <2>2. Metas(0, 0)
    <3>1. /\ 0 + (IF tin.state # "DEQ_START" THEN 1 ELSE 0) = 0
          /\ (IF re.state \in {"RECV_DATA_START_1", "RECV_DATA_RD"} THEN 1 ELSE 0) = 0
      BY <2>1
    <3>2. fifo.meta = 0 + (IF tin.state # "DEQ_START" THEN 1 ELSE 0)
                      - 0 - (IF re.state \in {"RECV_DATA_START_1", "RECV_DATA_RD"} THEN 1 ELSE 0)
      BY <1>3, <3>1
    <3> QED BY <1>3, <3>2 DEF Metas
  <2> QED BY <1>3, <2>2, CarriesNone DEF Ends
<1>15. FromNetwork(-3, -3)
  <2>1. Passing(-3)
    <3>1. Passed(-3) = 1
      BY DEF Passed
    <3> QED BY <1>1, <3>1 DEF Passing
  <2>2. Arrived(-3) = -3
    BY <1>1 DEF Arrived
  <2>3. Carries(<< >>, ArrivedSteps(c), -3, -3)
    BY CarriesNone
  <2> QED BY <1>3, <1>5, <2>1, <2>2, <2>3 DEF FromNetwork
<1>16. Parted(1) = 1
  BY <1>1 DEF Parted
<1>17. ToLines(-3, 1)
  <2>1. NoLine \in Line
    BY DEF NoLine, Line, Word
  <2>2. Parting(1, -3)
    BY <1>1, <1>5, <1>16, <2>1 DEF Parting
  <2>3. ReceiverFlags(1, -3)
    BY <1>1, <1>3, <1>5 DEF ReceiverFlags
  <2>4. Passed(-3) = 1
    BY DEF Passed
  <2> QED BY <1>3, <1>5, <2>2, <2>3, <2>4, CarriesNone DEF ToLines
<1>18. ToWrapper(1, 1)
  <2>1. /\ rw = [state |-> "RECV_READ_DATA", i |-> 0, start |-> 0, max |-> Window,
                 words |-> Blank]
    BY <1>1 DEF RecvWindow
  <2>2. Receiving(1)
    BY <1>5, <2>1 DEF Receiving
  <2>3. Held(1)
    <3>1. Blank \in [0 .. Window - 1 -> Word] /\ dst \in [0 .. c + 1 -> Word]
      BY <1>1 DEF Blank, Word
    <3>2. rw.words = Blank /\ rw.start = 0 /\ rw.i = 0 /\ rw.state # "RECV_DONE"
      BY <2>1
    <3>3. /\ \A k \in 0 .. c - 1 : ~(k < 0)
          /\ \A k \in 0 .. Window - 1 : ~(0 + k < 0)
          /\ ~(1 > F)
      BY <1>5
    <3> QED BY <3>1, <3>2, <3>3 DEF Held, RightMemory
  <2> QED BY <1>3, <1>5, <1>16, <2>2, <2>3, CarriesNone DEF ToWrapper
<1>19. Flow(1, 1, 1, -3, -3, 0, 0, -3, 1, 1)
  BY <1>4, <1>7, <1>8, <1>9, <1>10, <1>12, <1>13, <1>14, <1>15, <1>17, <1>18 DEF Flow
<1>20. PICK n \in Int : n = -3
  OBVIOUS
<1>21. Flow(1, 1, 1, n, n, 0, 0, n, 1, 1) /\ 1 \in Int /\ 0 \in Nat
  BY <1>19, <1>20
<1> QED BY <1>21 DEF FlowInv

(* A step with which nothing is lost. *)
LEMMA NextFlow ==
  ASSUME PacketInv, Lossless', FlowInv, [Next]_vars, ~Lose
  PROVE  FlowInv'
<1>1. CASE SendWriteData \/ SendFinish \/ EnqMpiData
  BY <1>1, WrapperSendsFlow
<1>2. CASE SendDataStart \/ SendDataStart1 \/ SendDataRd \/ SendDataWrd \/ Wait4Ack
  BY <1>2, EngineSendsFlow
<1>3. CASE DeqIdle \/ DeqStart \/ DeqStartWithSecond \/ DeqWrite \/ DeqWrite2 \/ DeqDone
  BY <1>3, PacketsFlow
<1>4. CASE EnqTcpIn
  BY <1>4, ArrivalFlow
<1>5. CASE RecvDataMore \/ RecvDataStart \/ RecvDataStart1 \/ RecvDataRd \/ RecvDataWrd
  BY <1>5, EngineReceivesFlow
<1>6. CASE DrainDataStream
  <2>1. PICK z, u \in Int : FromNetwork(z, u)
    BY DEF FlowInv, Flow
  <2>2. re.state # "MPE_DRAIN_DATA_STREAM"
    BY <2>1 DEF FromNetwork, Passing
  <2> QED BY <1>6, <2>2 DEF DrainDataStream
<1>7. CASE DeqRecvIdle \/ DeqRecvWrite \/ DeqRecvWrite2 \/ DeqRecvDone
  BY <1>7, LinesFlow
<1>8. CASE RecvReadDram \/ RecvReadData \/ RecvFinish
  BY <1>8, WrapperReceivesFlow
<1>9. CASE RecvTimeout \/ SendTimeout
  BY <1>9, NotQuiet DEF RecvTimeout, SendTimeout
<1>10. CASE Terminated \/ UNCHANGED vars
  <2>1. UNCHANGED <<job, sw, enq, se, dq, net, tin, re, dr, rw, dst, fifo>>
    BY <1>10 DEF Terminated, vars
  <2>2. PICK w, e, r, q, z, u, s, f \in Int, tk, rk \in Nat :
          Flow(w, e, r, q, z, tk, rk, u, s, f)
    BY DEF FlowInv
  <2>3. /\ Answers /\ FromWrapper(w) /\ ToBeats(w, e) /\ ToEngine(e, r)
        /\ ToPackets(r, q) /\ ToReceiver(q, z) /\ Ends(tk, rk) /\ FromNetwork(z, u)
        /\ ToLines(u, s) /\ ToWrapper(s, f)
    BY <2>2 DEF Flow
  <2>4. FromWrapper(w)' /\ ToBeats(w, e)' /\ ToEngine(e, r)' /\ ToPackets(r, q)'
    BY <2>1, <2>3, SameFromWrapper, SameToBeats, SameToEngine, SameToPackets
  <2>5. ToReceiver(q, z)' /\ Ends(tk, rk)' /\ FromNetwork(z, u)'
    BY <2>1, <2>3, SameToReceiver, SameEnds, SameFromNetwork
  <2>6. ToLines(u, s)' /\ ToWrapper(s, f)' /\ Answers'
    BY <2>1, <2>3, SameToLines, SameToWrapper, SameAnswers
  <2>7. Flow(w, e, r, q, z, tk, rk, u, s, f)'
    BY <2>4, <2>5, <2>6 DEF Flow
  <2> QED BY <2>7 DEF FlowInv
<1> QED
  BY <1>1, <1>2, <1>3, <1>4, <1>5, <1>6, <1>7, <1>8, <1>9, <1>10 DEF Next, TransferStep

(* What is lost stays lost. *)
LossesCounted == net.losses \in Nat

LEMMA NextLosses ==
  ASSUME PacketInv, LossesCounted, [Next]_vars
  PROVE  /\ LossesCounted' /\ job' = job
         /\ Lose => net'.losses # 0
         /\ ~Lose => net'.losses = net.losses
<1>1. CASE Lose
  <2>1. net'.losses = net.losses + 1 /\ job' = job
    BY <1>1 DEF Lose
  <2> QED BY <1>1, <2>1 DEF LossesCounted
<1>2. CASE ~Lose
  <2>0. net = [packets |-> net.packets, losses |-> net.losses]
    BY DEF PacketInv, Registers
  <2> SUFFICES job' = job /\ net'.losses = net.losses
    BY <1>2 DEF LossesCounted
  <2>1. CASE \/ SendWriteData \/ SendFinish \/ EnqMpiData
             \/ SendDataStart \/ SendDataStart1 \/ SendDataRd \/ SendDataWrd \/ Wait4Ack
    BY <2>1 DEF SendWriteData, SendFinish, EnqMpiData,
       SendDataStart, SendDataStart1, SendDataRd, SendDataWrd, Wait4Ack
  <2>2. CASE DeqIdle \/ DeqDone
    BY <2>2 DEF DeqIdle, DeqDone
  <2>3. CASE DeqStart \/ DeqWrite
    BY <2>0, <2>3 DEF DeqStart, DeqWrite, FirstLine, Emit
  <2>4. CASE DeqStartWithSecond \/ DeqWrite2
    BY <2>0, <2>4 DEF DeqStartWithSecond, DeqWrite2, Emit
  <2>5. CASE EnqTcpIn
    <3>1. net' = [net EXCEPT !.packets = IF Tail(Head(net.packets)) = << >> THEN Tail(@)
                                         ELSE <<Tail(Head(net.packets))>> \o Tail(@)]
          /\ job' = job
      BY <2>5 DEF EnqTcpIn
    <3> QED BY <2>0, <3>1
  <2>6. CASE \/ RecvDataMore \/ RecvDataStart \/ RecvDataStart1 \/ DrainDataStream
             \/ RecvDataRd \/ RecvDataWrd
    BY <2>6 DEF RecvDataMore, RecvDataStart, RecvDataStart1,
       DrainDataStream, RecvDataRd, RecvDataWrd
  <2>7. CASE \/ DeqRecvIdle \/ DeqRecvWrite \/ DeqRecvWrite2 \/ DeqRecvDone
             \/ RecvReadDram \/ RecvReadData \/ RecvFinish
    BY <2>7 DEF DeqRecvIdle, DeqRecvWrite, DeqRecvWrite2, DeqRecvDone,
       RecvReadDram, RecvReadData, RecvFinish
  <2>8. CASE RecvTimeout \/ SendTimeout
    BY <2>8 DEF RecvTimeout, SendTimeout
  <2>9. CASE Terminated \/ UNCHANGED vars
    BY <2>9 DEF Terminated, vars
  <2> QED
    BY <1>2, <2>1, <2>2, <2>3, <2>4, <2>5, <2>6, <2>7, <2>8, <2>9 DEF Next, TransferStep
<1> QED BY <1>1, <1>2

(* The inductive invariant. *)
SafeFlow ==
  PacketInv /\ BeyondInv /\ LossesCounted /\ (net.losses = 0 => FlowInv)

LEMMA SafeFlowInductive == Spec => []SafeFlow
<1>1. Init => SafeFlow
  <2>1. Init => LossesCounted
    BY DEF Init, LossesCounted
  <2> QED BY <2>1, InitPacketInv, InitBeyondInv, InitFlow DEF SafeFlow
<1>2. SafeFlow /\ [Next]_vars => SafeFlow'
  <2> SUFFICES ASSUME SafeFlow, [Next]_vars PROVE SafeFlow'
    OBVIOUS
  <2>1. PacketInv' /\ BeyondInv'
    BY NextPacketInv, NextBeyondInv DEF SafeFlow
  <2>2. /\ LossesCounted' /\ job' = job
        /\ Lose => net'.losses # 0
        /\ ~Lose => net'.losses = net.losses
    BY NextLosses DEF SafeFlow
  <2>3. ASSUME net'.losses = 0 PROVE FlowInv'
    <3>1. ~Lose /\ net.losses = 0
      BY <2>2, <2>3
    <3>2. FlowInv
      BY <3>1 DEF SafeFlow
    <3>3. job \in Job
      BY <3>2 DEF FlowInv, Flow, Lossless
    <3>4. Streamed'
      BY <2>1 DEF BeyondInv, ReceiverRegisters
    <3>5. Lossless'
      BY <2>2, <2>3, <3>3, <3>4 DEF Lossless
    <3> QED BY <3>1, <3>2, <3>5, NextFlow DEF SafeFlow
  <2> QED BY <2>1, <2>2, <2>3 DEF SafeFlow
<1> QED BY <1>1, <1>2, PTL DEF Spec

-----------------------------------------------------------------------------
(* What follows from every line being in its place. *)

LEMMA PacketsAreLines ==
  ASSUME Lossless, NEW p, NEW a, NEW b, Carries(p, PacketSteps(job.count), a, b)
  PROVE  p \in Seq(Seq(Line))
<1>1. IsSeq(p) /\ Len(p) \in Nat
  BY CarriesRange
<1>2. PICK at \in [1 .. Len(p) + 1 -> Int] :
        \A i \in 1 .. Len(p) : <<p[i], at[i], at[i + 1]>> \in PacketSteps(job.count)
  BY DEF Carries
<1>3. ASSUME NEW i \in 1 .. Len(p) PROVE p[i] \in Seq(Line)
  <2>1. /\ at[i] \in -3 .. Final(job.count) /\ at[i + 1] \in 2 .. Final(job.count) + 1
        /\ at[i] < at[i + 1] /\ p[i] = LinesFrom(job.count, at[i], at[i + 1])
    <3>1. <<p[i], at[i], at[i + 1]>> \in PacketSteps(job.count)
      BY <1>2
    <3> QED BY <3>1, PacketStep
  <2>2. job.count \in Counts /\ Final(job.count) \in Nat
    BY CountType
  <2>3. at[i] \in Int /\ at[i + 1] \in Int /\ at[i] >= -3 /\ at[i] <= at[i + 1]
    BY <2>1, <2>2
  <2> QED BY <2>1, <2>2, <2>3, LinesType
<1>4. PICK S : p \in Seq(S)
  BY <1>1 DEF IsSeq
<1>5. p \in [1 .. Len(p) -> S]
  BY <1>4, LenProperties
<1>6. p \in [1 .. Len(p) -> Seq(Line)]
  BY <1>3, <1>5
<1> QED BY <1>1, <1>6, SeqDef

(* The numbers bound the registers. *)
LEMMA FlowTypeOK ==
  ASSUME FlowInv, PacketInv
  PROVE  TypeOK
<1>1. PICK w, e, r, q, z, u, s, f \in Int, tk, rk \in Nat :
        Flow(w, e, r, q, z, tk, rk, u, s, f)
  BY DEF FlowInv
<1>2. /\ Lossless /\ Answers /\ FromWrapper(w) /\ ToBeats(w, e) /\ ToEngine(e, r)
      /\ ToPackets(r, q) /\ ToReceiver(q, z) /\ Ends(tk, rk) /\ FromNetwork(z, u)
      /\ ToLines(u, s) /\ ToWrapper(s, f)
  BY <1>1 DEF Flow
<1> DEFINE c == job.count
           F == Final(job.count)
<1>3. /\ c \in Counts /\ c \in Nat /\ F \in Nat /\ F >= 1 /\ (c = 0 => F = 1)
      /\ (c > 0 => 2 * F <= c + 1) /\ LineCnt(c) \in Nat
      /\ (c > 0 => LineCnt(c) = F) /\ (c = 0 => LineCnt(c) = 0)
  BY <1>2, CountType
<1>4. /\ Modulus \in Nat /\ Window \in Nat /\ 2 * c + 2 <= Modulus
      /\ 2 * Window <= Modulus /\ Window >= 2
  BY <1>2, CountType, WindowIsEven, DataPathAssumption
<1> HIDE DEF F, c
<1>5. \A n \in Int : n <= F + 1 /\ n >= 1 => n - 1 \in Uint /\ 2 * (n - 1) \in Uint
  BY <1>3, <1>4 DEF Uint
<1>6. /\ job \in Job
      /\ net.losses = 0
  BY <1>2 DEF Lossless
<1>7. /\ sw.state \in {"SEND_WRITE_DATA", "SEND_FINISH", "SEND_DONE"}
      /\ {sw.i, sw.start, sw.copied} \subseteq Uint
  <2>1. /\ sw.state \in {"SEND_WRITE_DATA", "SEND_FINISH", "SEND_DONE"}
        /\ w \in 1 .. F + 1 /\ sw.i = 2 * (w - 1)
    BY <1>2 DEF FromWrapper, Sending, F
  <2>2. sw.i \in Uint
    BY <1>3, <1>5, <2>1
  <2>3. /\ sw.start \in Nat /\ sw.start <= c
        /\ job.sendDram => sw.copied = Lesser(sw.start + Window, c)
        /\ ~job.sendDram => sw.copied = 0
    BY <1>2 DEF FromWrapper, Buffered, Buffers, c
  <2>4. sw.start \in Uint
    BY <1>3, <1>4, <2>3 DEF Uint
  <2>5. sw.copied \in Nat /\ sw.copied <= c
    BY <1>3, <1>4, <2>3 DEF Lesser
  <2>6. sw.copied \in Uint
    BY <1>3, <1>4, <2>5 DEF Uint
  <2> QED BY <2>1, <2>2, <2>4, <2>6
<1>8. enq \in [state : {"DEQ_WRITE", "DEQ_WRITE_2"}, first : Line]
  <2>1. /\ enq = [state |-> enq.state, first |-> enq.first]
        /\ enq.state \in {"DEQ_WRITE", "DEQ_WRITE_2"} /\ enq.first \in Line
    BY <1>2 DEF ToBeats, Joining
  <2> QED BY <2>1
<1>9. se \in [state : {"SEND_DATA_START", "SEND_DATA_START_1", "SEND_DATA_RD",
                       "SEND_DATA_WRD", "WAIT4ACK", "IDLE"},
              total : Uint, inc : 0 .. MaxInc, timer : {"running"}]
  <2>1. /\ se = [state |-> se.state, total |-> se.total, inc |-> se.inc, timer |-> se.timer]
        /\ se.inc = 0 /\ se.timer = "running"
        /\ se.state \in {"SEND_DATA_START", "SEND_DATA_START_1", "SEND_DATA_RD",
                         "SEND_DATA_WRD", "WAIT4ACK", "IDLE"}
        /\ r \in 1 .. F + 1 /\ se.total = 2 * (r - 1)
    BY <1>2 DEF ToEngine, Reading, F
  <2>2. se.total \in Uint
    BY <1>3, <1>5, <2>1
  <2>3. se.inc \in 0 .. MaxInc
    BY <2>1, DataPathAssumption
  <2> QED BY <2>1, <2>2, <2>3
<1>10. dq \in [state : {"DEQ_IDLE", "DEQ_START", "DEQ_WRITE", "DEQ_WRITE_2", "DEQ_DONE"},
               cnt : 0 .. MaxLines - 1, second : Line, goToDone : BOOLEAN,
               startWithSecond : BOOLEAN, packet : Seq(Line)]
  <2>1. /\ dq = [state |-> dq.state, cnt |-> dq.cnt, second |-> dq.second,
                 goToDone |-> dq.goToDone, startWithSecond |-> dq.startWithSecond,
                 packet |-> dq.packet]
        /\ dq.cnt \in 0 .. MaxLines - 1 /\ IsSeq(dq.packet)
        /\ dq.state \in {"DEQ_IDLE", "DEQ_START", "DEQ_WRITE", "DEQ_WRITE_2", "DEQ_DONE"}
    BY DEF PacketInv, Registers, Counted
  <2>2. /\ {dq.goToDone, dq.startWithSecond} \subseteq BOOLEAN /\ dq.second \in Line
        /\ q \in -3 .. F + 1
        /\ dq.packet = LinesFrom(c, Packed(q), Emitted(q)) /\ Packed(q) >= -3
    BY <1>2 DEF ToPackets, Splitting, F, c
  <2>3. /\ Emitted(q) \in Int /\ Packed(q) \in Int /\ Packed(q) <= Emitted(q)
    <3>1. Len(dq.packet) \in Nat
      BY <2>1, AppendAny
    <3>2. q \in Int
      OBVIOUS
    <3>3. Emitted(q) \in Int
      BY <3>2 DEF Emitted
    <3> QED BY <3>1, <3>3 DEF Packed
  <2>4. dq.packet \in Seq(Line)
    BY <1>3, <2>2, <2>3, LinesType
  <2> QED BY <2>1, <2>2, <2>4
<1>11. net \in [packets : Seq(Seq(Line)), losses : 0 .. MaxLoss]
  <2>1. net = [packets |-> net.packets, losses |-> net.losses]
    BY DEF PacketInv, Registers
  <2>2. net.packets \in Seq(Seq(Line))
    BY <1>2, PacketsAreLines DEF ToReceiver
  <2>3. net.losses \in 0 .. MaxLoss
    BY <1>6, DataPathAssumption
  <2> QED BY <2>1, <2>2, <2>3
<1>12. tin \in [state : {"DEQ_START", "DEQ_WRITE", "DEQ_WRITE_2"}, first : Line]
  <2>1. /\ tin = [state |-> tin.state, first |-> tin.first]
        /\ tin.state \in {"DEQ_START", "DEQ_WRITE", "DEQ_WRITE_2"} /\ tin.first \in Line
    BY <1>2 DEF ToReceiver, Arriving
  <2> QED BY <2>1
<1>13. re.total \in Uint /\ re.inc \in 0 .. MaxInc
  <2>1. /\ u = -3 \/ u = -1 \/ u \in 1 .. F \/ u = F + 1
        /\ re.total = 2 * (Passed(u) - 1) /\ re.inc = 0
    BY <1>2 DEF FromNetwork, Passing, F
  <2>2. Passed(u) \in Int /\ Passed(u) >= 1 /\ Passed(u) <= F + 1
    BY <1>3, <2>1 DEF Passed
  <2> QED BY <1>5, <2>1, <2>2, DataPathAssumption
<1>14. dr \in [state : {"DEQ_IDLE", "DEQ_WRITE", "DEQ_WRITE_2", "DEQ_DONE"},
               exp : Uint, total : Uint, second : Line]
  <2>1. /\ dr = [state |-> dr.state, exp |-> dr.exp, total |-> dr.total, second |-> dr.second]
        /\ dr.second \in Line /\ dr.exp \in {0, LineCnt(c)}
        /\ s \in 1 .. F + 1 /\ dr.total = Parted(s) - 1
        /\ dr.state \in {"DEQ_IDLE", "DEQ_WRITE", "DEQ_WRITE_2", "DEQ_DONE"}
        /\ dr.state = "DEQ_WRITE_2" => s > 1
    BY <1>2 DEF ToLines, Parting, F, c
  <2>2. Parted(s) \in Int /\ Parted(s) >= 1 /\ Parted(s) <= F + 1
    BY <1>3, <2>1 DEF Parted
  <2>3. dr.total \in Uint
    BY <1>5, <2>1, <2>2
  <2>4. dr.exp \in Uint
    <3>1. LineCnt(c) <= c
      BY <1>3
    <3> QED BY <1>3, <1>4, <2>1, <3>1 DEF Uint
  <2> QED BY <2>1, <2>3, <2>4
<1>15. /\ rw.state \in {"RECV_READ_DATA", "RECV_FINISH", "RECV_DONE"}
       /\ {rw.i, rw.start, rw.max} \subseteq Uint
  <2>1. /\ rw.state \in {"RECV_READ_DATA", "RECV_FINISH", "RECV_DONE"}
        /\ f \in 1 .. F + 1
        /\ rw.i = 2 * (f - 1) \/ rw.i \in c .. c + 2
        /\ rw.start \in Nat /\ rw.start <= c /\ rw.max = rw.start + Window
    <3>1. Receiving(f)
      BY <1>2 DEF ToWrapper
    <3>2. /\ rw.state \in {"RECV_READ_DATA", "RECV_FINISH", "RECV_DONE"}
          /\ f \in 1 .. F + 1
          /\ rw.start \in Nat /\ rw.start <= c /\ rw.max = rw.start + Window
      BY <3>1 DEF Receiving, F, c
    <3>3. /\ f <= F \/ ~job.recvDram => rw.i = 2 * (f - 1)
          /\ f > F /\ job.recvDram => rw.i \in c .. c + 2
      BY <3>1 DEF Receiving, F, c
    <3>4. f <= F \/ f > F
      BY <1>3, <3>2
    <3> QED BY <3>2, <3>3, <3>4
  <2>2. rw.i \in Uint
    <3>1. CASE rw.i = 2 * (f - 1)
      BY <1>3, <1>5, <2>1, <3>1
    <3>2. CASE rw.i \in c .. c + 2
      BY <1>3, <1>4, <3>2 DEF Uint
    <3> QED BY <2>1, <3>1, <3>2
  <2>3. rw.start \in Uint /\ rw.max \in Uint
    BY <1>3, <1>4, <2>1 DEF Uint
  <2> QED BY <2>1, <2>2, <2>3
<1>16. rw.words \in [0 .. Window - 1 -> Word] /\ dst \in [0 .. c + 1 -> Word]
  BY <1>2 DEF ToWrapper, Held, c
<1>17. \A x \in Streams : Len(fifo[x]) <= Depth
  <2>1. /\ Len(fifo.mpiData) <= Depth /\ Len(fifo.mpiIn) <= Depth /\ Len(fifo.tx) <= Depth
        /\ Len(fifo.tcpIn) <= Depth /\ Len(fifo.rx) <= Depth /\ Len(fifo.app) <= Depth
    BY <1>2 DEF ToBeats, ToEngine, ToPackets, FromNetwork, ToLines, ToWrapper
  <2> QED BY <2>1 DEF Streams
<1>18. {fifo.destId, fifo.sendDone, fifo.meta, fifo.recvDone, fifo.ack} \subseteq Nat
  <2>1. fifo.destId \in {0, 1} /\ fifo.sendDone \in {0, 1}
    BY <1>2 DEF ToPackets, SenderFlags
  <2>2. fifo.recvDone \in {0, 1} /\ fifo.ack \in {0, 1}
    BY <1>2 DEF ToLines, ReceiverFlags, Answers
  <2>3. fifo.meta \in Nat
    BY <1>2 DEF Ends, Metas
  <2> QED BY <2>1, <2>2, <2>3
<1> QED
  BY <1>6, <1>7, <1>8, <1>9, <1>10, <1>11, <1>12, <1>13, <1>14, <1>15, <1>16, <1>17, <1>18
  DEF TypeOK, c

(* Both wrappers are at the end, and so is everything between them. *)
LEMMA FlowIsClean ==
  ASSUME FlowInv, PacketInv
  PROVE  CleanAfterwards
<1> SUFFICES ASSUME sw.state = "SEND_DONE", rw.state = "RECV_DONE"
             PROVE  /\ enq.state = "DEQ_WRITE" /\ dq.state = "DEQ_IDLE" /\ tin.state = "DEQ_START"
                    /\ dr.state = "DEQ_IDLE" /\ fifo.recvDone = 0 /\ re.inc = 0
                    /\ dq.packet = << >> /\ net.packets = << >>
                    /\ \A x \in Streams : fifo[x] = << >>
                    /\ fifo.destId + fifo.sendDone + fifo.meta + fifo.ack = 0
                    /\ fifo.expLen = << >> /\ fifo.sendFeedback = << >>
                    /\ fifo.recvFeedback = << >>
  BY DEF CleanAfterwards, Returned, FlagsLeft
<1>1. PICK w, e, r, q, z, u, s, f \in Int, tk, rk \in Nat :
        Flow(w, e, r, q, z, tk, rk, u, s, f)
  BY DEF FlowInv
<1>2. /\ Lossless /\ Answers /\ FromWrapper(w) /\ ToBeats(w, e) /\ ToEngine(e, r)
      /\ ToPackets(r, q) /\ ToReceiver(q, z) /\ Ends(tk, rk) /\ FromNetwork(z, u)
      /\ ToLines(u, s) /\ ToWrapper(s, f)
  BY <1>1 DEF Flow
<1> DEFINE c == job.count
           F == Final(job.count)
<1>3. F \in Nat /\ F >= 1
  BY <1>2, CountType
<1>4. /\ se.state = "IDLE" /\ re.state = "IDLE"
      /\ fifo.ack = 0 /\ fifo.sendFeedback = << >> /\ fifo.recvFeedback = << >>
  BY <1>2 DEF Answers
<1>5. /\ q = F + 1 /\ r = F + 1 /\ Packed(q) = F + 1 /\ dq.state = "DEQ_IDLE"
      /\ dq.packet = << >> /\ SentTo(r) = r
  BY <1>2, <1>4, AllPacked
<1>6. /\ u = F + 1 /\ dr.state = "DEQ_IDLE" /\ s = F + 1 /\ re.inc = 0
  BY <1>2, <1>4 DEF FromNetwork, Passing, ToLines, ReceiverFlags
<1>7. w = F + 1 /\ f = F + 1
  <2>1. w \in 1 .. F + 1 /\ ~(w <= F)
    BY <1>2 DEF FromWrapper, Sending
  <2>2. f \in 1 .. F + 1 /\ ~(f <= F)
    BY <1>2 DEF ToWrapper, Receiving
  <2> HIDE DEF F
  <2> QED BY <1>3, <2>1, <2>2
<1>8. enq.state = "DEQ_WRITE" /\ fifo.mpiData = << >> /\ fifo.mpiIn = << >>
  <2>1. Carries(fifo.mpiIn, BeatSteps(c), r, e)
    BY <1>2 DEF ToEngine
  <2>2. r <= e
    BY <2>1, CarriesRange
  <2>3. e \in 1 .. F + 1 /\ (enq.state = "DEQ_WRITE_2" => e < F)
        /\ enq.state \in {"DEQ_WRITE", "DEQ_WRITE_2"}
    BY <1>2 DEF ToBeats, Joining
  <2> HIDE DEF F
  <2>4. e = F + 1
    BY <1>3, <1>5, <2>2, <2>3
  <2>5. enq.state = "DEQ_WRITE"
    BY <1>3, <2>3, <2>4
  <2>6. Joined(e) = e
    BY <2>5 DEF Joined
  <2>7. Carries(fifo.mpiData, LineSteps(c), Joined(e), w)
    BY <1>2 DEF ToBeats
  <2> QED BY <1>2, <1>5, <1>7, <2>1, <2>4, <2>5, <2>6, <2>7, CarriesNothing, StepsLead
<1>9. fifo.tx = << >>
  <2>1. Carries(fifo.tx, BeatSteps(c), q, SentTo(r))
    BY <1>2 DEF ToPackets
  <2> HIDE DEF F
  <2> QED BY <1>2, <1>5, <2>1, CarriesNothing, StepsLead
<1>10. /\ z = F + 1 /\ tin.state # "DEQ_WRITE_2" /\ fifo.tcpIn = << >>
  <2>1. Carries(fifo.tcpIn, ArrivedSteps(c), u, Arrived(z))
    BY <1>2 DEF FromNetwork
  <2>2. u <= Arrived(z)
    BY <2>1, CarriesRange
  <2>3. z \in -3 .. F + 1
    BY <1>2 DEF ToReceiver, Arriving
  <2> HIDE DEF F
  <2>4. tin.state # "DEQ_WRITE_2"
    BY <1>3, <1>6, <2>2, <2>3 DEF Arrived
  <2>5. Arrived(z) = z
    BY <2>4 DEF Arrived
  <2>6. z = F + 1
    BY <1>3, <1>6, <2>2, <2>3, <2>5
  <2> QED BY <1>2, <1>6, <2>1, <2>4, <2>5, <2>6, CarriesNothing, StepsLead
<1>11. net.packets = << >> /\ tin.state = "DEQ_START"
  <2>1. Carries(net.packets, PacketSteps(c), z, Packed(q))
    BY <1>2 DEF ToReceiver
  <2>2. net.packets = << >>
    <3> HIDE DEF F
    <3> QED BY <1>2, <1>5, <1>10, <2>1, CarriesNothing, StepsLead
  <2> QED BY <1>2, <2>2 DEF ToReceiver, Arriving
<1>12. fifo.meta = 0
  <2>1. rk = tk
    BY <1>2, <1>10, CarriesEmpty DEF Ends
  <2>2. fifo.meta = tk + (IF tin.state # "DEQ_START" THEN 1 ELSE 0)
                    - rk - (IF re.state \in {"RECV_DATA_START_1", "RECV_DATA_RD"} THEN 1 ELSE 0)
    BY <1>2 DEF Ends, Metas
  <2>3. /\ (IF tin.state # "DEQ_START" THEN 1 ELSE 0) = 0
        /\ (IF re.state \in {"RECV_DATA_START_1", "RECV_DATA_RD"} THEN 1 ELSE 0) = 0
    BY <1>4, <1>11
  <2> QED BY <2>1, <2>2, <2>3
<1>13. fifo.rx = << >> /\ fifo.app = << >>
  <2>1. Carries(fifo.rx, ArrivedSteps(c), s, Passed(u))
    BY <1>2 DEF ToLines
  <2>2. Carries(fifo.app, LineSteps(c), f, Parted(s))
    BY <1>2 DEF ToWrapper
  <2> HIDE DEF F
  <2>3. Passed(u) = F + 1 /\ Parted(s) = F + 1
    BY <1>3, <1>6 DEF Passed, Parted
  <2> QED BY <1>2, <1>6, <1>7, <2>1, <2>2, <2>3, CarriesNothing, StepsLead
<1>14. fifo.destId = 0 /\ fifo.sendDone = 0
  <2>1. q # -3
    BY <1>3, <1>5
  <2> QED BY <1>2, <1>4, <2>1 DEF ToPackets, SenderFlags
<1>15. fifo.expLen = << >> /\ fifo.recvDone = 0
  <2>1. s # 1
    BY <1>3, <1>6
  <2> QED BY <1>2, <1>4, <2>1 DEF ToLines, ReceiverFlags
<1>16. \A x \in Streams : fifo[x] = << >>
  BY <1>8, <1>9, <1>10, <1>13 DEF Streams
<1> QED BY <1>4, <1>5, <1>6, <1>8, <1>11, <1>12, <1>14, <1>15, <1>16

-----------------------------------------------------------------------------
(* As long as no packet is lost, the memory of the receiver holds the      *)
(* message when MPI_Recv returns: for every length, every window, every    *)
(* limit of a packet and every depth of the FIFOs, with each variant of    *)
(* the calls.                                                              *)
THEOREM MessageArrives == Spec => [](net.losses = 0 => RightMemory)
<1>1. SafeFlow => (net.losses = 0 => RightMemory)
  BY DEF SafeFlow, FlowInv, Flow, ToWrapper, Held
<1> QED BY <1>1, SafeFlowInductive, PTL

(* And when both calls have returned, nothing of it is left on the way:    *)
(* the next message finds every FSM and every stream as this one did.      *)
THEOREM NothingIsLeft == Spec => [](net.losses = 0 => CleanAfterwards)
<1>1. SafeFlow => (net.losses = 0 => CleanAfterwards)
  BY FlowIsClean DEF SafeFlow
<1> QED BY <1>1, SafeFlowInductive, PTL

(* No register leaves its range: the counts of words stay below 2^32 also  *)
(* where a window begins, and no FIFO is overrun.                          *)
THEOREM RegistersInRange == Spec => [](net.losses = 0 => TypeOK)
<1>1. SafeFlow => (net.losses = 0 => TypeOK)
  BY FlowTypeOK DEF SafeFlow
<1> QED BY <1>1, SafeFlowInductive, PTL

(* As long as no packet is lost, no timer expires: they come when every    *)
(* process waits (Quiet), and some process that is waited for can go on.   *)
THEOREM NoTimeoutWithoutLoss == Spec => [](net.losses = 0 => ~Quiet)
<1>1. SafeFlow => (net.losses = 0 => ~Quiet)
  BY NotQuiet DEF SafeFlow
<1> QED BY <1>1, SafeFlowInductive, PTL

=============================================================================
