-------------------------- MODULE Handshake_proofs --------------------------
(***************************************************************************)
(* The hand-shake of a message, as both kinds of ranks follow it when no   *)
(* timer expires and no packet is lost: request, clear to send, data and   *)
(* acknowledgement.                                                        *)
(*                                                                         *)
(* Stage, Moved, Result, Kept and Way say how far the call of a rank is,   *)
(* which units it has sent or received, what its calls have completed,     *)
(* which headers it has put aside, and which packets are on their way;     *)
(* nothing else of an engine or of the library matters to the others.  In  *)
(* these terms there are ten steps of the protocol (HsStep), and HsInv, an *)
(* invariant of theirs, ties what is on its way between two ranks to how   *)
(* far both of them are.                                                   *)
(*                                                                         *)
(* At the end: every step of a CPU rank is one of the ten, or none.        *)
(***************************************************************************)
EXTENDS Cluster_proofs, FiniteSetTheorems, SequenceTheorems

(* How far the current call of a rank is.                                  *)
Stages == {"out", "asked", "sending", "clear", "receiving"}

StageF(n) ==
  CASE mpe[n].fsm \in {"SEND_REQ", "WAIT4CLEAR"} -> "asked"
    [] mpe[n].fsm \in {"SEND_DATA_START", "SEND_DATA_RD", "SEND_DATA_WRD", "WAIT4ACK"}
         -> "sending"
    [] mpe[n].fsm = "ASSEMBLE_CLEAR" -> "clear"
    [] mpe[n].fsm \in {"SEND_CLEAR", "RECV_DATA_START", "RECV_DATA_WRD"} -> "receiving"
    [] OTHER -> "out"

StageC(n) ==
  CASE At(n, "WAIT_CLEAR") -> "asked"
    [] cpu[n].pc \in {"SEND_DATA", "WAIT_ACK"} -> "sending"
    [] At(n, "SEND_CLEAR") -> "clear"
    [] cpu[n].pc \in {"WAIT_DATA", "SEND_ACK"} -> "receiving"
    [] OTHER -> "out"

Stage(n) == IF n \in Fpga THEN StageF(n) ELSE StageC(n)

(* What a receive has taken from the engine and what is still on its way   *)
(* through pDeqRecv to the wrapper.                                        *)
Incoming(n) ==
  wrap[n].data \o [i \in 1 .. Len(fifo[n].appData) |-> fifo[n].appData[i].unit]
    \o fifo[n].rx

(* The first k units of the m-th call of rank s.                           *)
Units(s, m, k) == [p \in 1 .. k |-> <<s, m, p>>]

(* The units that the current call of a rank has sent or received so far.  *)
MovedF(n) ==
  IF mpe[n].fsm \in {"SEND_DATA_RD", "SEND_DATA_WRD", "WAIT4ACK"}
  THEN Units(n, Position(n), mpe[n].sent)
  ELSE IF StageF(n) = "receiving" THEN Incoming(n)
  ELSE << >>

MovedC(n) ==
  CASE At(n, "SEND_DATA") -> Units(n, Position(n), cpu[n].sent)
    [] At(n, "WAIT_ACK") -> Payload(n, Position(n))
    [] cpu[n].pc \in {"WAIT_DATA", "SEND_ACK"} -> cpu[n].buffer
    [] OTHER -> << >>

Moved(n) == IF n \in Fpga THEN MovedF(n) ELSE MovedC(n)

(* What the calls return that are complete for the engine, also the one    *)
(* that the wrapper has not yet finished.                                  *)
Finished(n) ==
  \/ mpe[n].fsm = "SEND_ACK"
  \/ mpe[n].fsm = "IDLE" /\ wrap[n].state # "READY" /\ fifo[n].mpiif = << >>

Result(n) ==
  IF n \in Fpga /\ Finished(n)
  THEN Append(got[n], IF CurrentOp(n).call \in SendCalls THEN << >> ELSE Incoming(n))
  ELSE got[n]

(* The header of s that d has put aside.                                   *)
Kept(d, s) ==
  IF d \in Fpga
  THEN IF mpe[d].fsm = "ASSEMBLE_CLEAR" /\ s = mpe[d].rank THEN NoHeader ELSE mpe[d].cache[s]
  ELSE cpu[d].cache[s]

(* The packets from s to d, also those in the FIFO of the engine of s.     *)
Queue(s, d) ==
  IF s \in Fpga /\ d = mpe[s].rank
  THEN [i \in 1 .. Len(fifo[s].tx) |-> fifo[s].tx[i].pkt]
  ELSE << >>

Way(s, d) == net[<<s, d>>] \o Queue(s, d)

-----------------------------------------------------------------------------
(* The call of rank n that the protocol is at.                             *)
Place(n) == Len(Result(n)) + 1
Now(n)   == Program[n][Place(n)]

(* Rank n is that far in a call with p.                                    *)
Busy(n, p, stages) == Stage(n) \in stages /\ Now(n).peer = p

Asks(s, d)    == Busy(s, d, {"asked"})
Streams(s, d) == Busy(s, d, {"sending"})
Hears(d, s)   == Busy(d, s, {"receiving"})
Engaged(d, s) == Busy(d, s, {"clear", "receiving"})

IntCall == [MPI_SEND_INT   |-> "MPI_SEND_INT", MPI_RECV_INT   |-> "MPI_RECV_INT",
            MPI_SEND_FLOAT |-> "MPI_SEND_INT", MPI_RECV_FLOAT |-> "MPI_RECV_INT"]

(* How rank n names a call in its headers: the library knows INT only.     *)
Named(n, call) == IF n \in Cpu THEN IntCall[call] ELSE call

(* The k-th packet of the m-th call of s, and those from a + 1 to b.       *)
Part(s, m, k) ==
  LET op == Program[s][m]
  IN  IF k = 1
      THEN DataPacket(s, op.peer, Named(s, op.call), op.count, <<s, m, k>>)
      ELSE ContPacket(s, op.peer, Named(s, op.call), <<s, m, k>>)

Parts(s, m, a, b) == [i \in 1 .. b - a |-> Part(s, m, a + i)]

Request(s, m) == Control("SEND_REQUEST", s, Program[s][m].peer, Named(s, Program[s][m].call))

(* What the receiver d answers to the m-th call of s.                      *)
Answer(type, d, s, m) == Control(type, d, s, Named(d, PeerCall[Program[s][m].call]))

(* What is on its way to d of a message from s to d, and back to s.        *)
Forward(s, d) ==
  IF Asks(s, d) /\ ~Engaged(d, s) /\ Kept(d, s) = NoHeader
  THEN <<Request(s, Place(s))>>
  ELSE IF Streams(s, d) /\ Hears(d, s)
  THEN Parts(s, Place(s), Len(Moved(d)), Len(Moved(s)))
  ELSE << >>

Back(d, s) ==
  IF Asks(s, d) /\ Hears(d, s) THEN <<Answer("CLEAR_TO_SEND", d, s, Place(s))>>
  ELSE IF Streams(s, d) /\ ~Hears(d, s) THEN <<Answer("ACK", d, s, Place(s))>>
  ELSE << >>

(* Both directions share a channel: first the answer to d, then what s     *)
(* sends.                                                                  *)
OnItsWay(s, d) == Way(s, d) = Back(s, d) \o Forward(s, d)

(* How many of the calls in S come before the k-th.                        *)
Done(S, k) == Cardinality({i \in S : i < k})

(* The receiver has completed as many receives from s as s has sends to    *)
(* him, or one more, which s has not yet heard of.                         *)
InStep(s, d) ==
  Done(Recvs(d, s), Place(d)) =
    Done(Sends(s, d), Place(s)) + (IF Streams(s, d) /\ ~Hears(d, s) THEN 1 ELSE 0)

(* How far the sender and the receiver of a message can be at the same     *)
(* time, and what the receiver has put aside.                              *)
InTurn(s, d) ==
  /\ Kept(d, s) # NoHeader =>
       /\ Asks(s, d) /\ ~Engaged(d, s)
       /\ Kept(d, s) = HeaderOf(Request(s, Place(s)))
  /\ Engaged(d, s) => Asks(s, d) \/ Streams(s, d)
  /\ Streams(s, d) => ~Busy(d, s, {"clear"})
  /\ Streams(s, d) /\ Hears(d, s) => Len(Moved(d)) <= Len(Moved(s))
  /\ Asks(s, d) /\ Hears(d, s) => Moved(d) = << >>
  /\ Hears(d, s) => Moved(d) = Units(s, Place(s), Len(Moved(d)))
  /\ Streams(s, d) /\ ~Hears(d, s) => Len(Moved(s)) = Now(s).count

(* What a rank has sent or received agrees with its call.                  *)
Own(n) ==
  /\ Stage(n) # "out" => Place(n) <= Len(Program[n])
  /\ Stage(n) \in {"asked", "sending"} => Now(n).call \in SendCalls
  /\ Stage(n) \in {"clear", "receiving"} => Now(n).call \in RecvCalls
  /\ Stage(n) \in {"out", "asked", "clear"} => Moved(n) = << >>
  /\ Stage(n) = "sending" =>
       /\ Len(Moved(n)) <= Now(n).count
       /\ Moved(n) = Units(n, Place(n), Len(Moved(n)))

Fine(n) == Stage(n) \in Stages /\ Moved(n) \in Seq(Unit) /\ Result(n) \in Seq(Seq(Unit))

(* What the calls of a rank have completed is what was sent to them.       *)
RightSoFar(n) == \A k \in 1 .. Len(Result(n)) : Result(n)[k] = Expected(n, k)

Link(s, d) == InTurn(s, d) /\ InStep(s, d) /\ OnItsWay(s, d)

(* The invariant of the hand-shake.                                        *)
HsInv ==
  /\ \A n \in Rank : Fine(n) /\ Own(n) /\ RightSoFar(n)
  /\ \A s, d \in Rank : s # d => Link(s, d)

-----------------------------------------------------------------------------
(* Counting calls.                                                         *)

(* The calls of a program with one peer are finitely many.                 *)
LEMMA CallsFinite ==
  ASSUME NEW s \in Rank, NEW d \in Rank
  PROVE  /\ Sends(s, d) \subseteq 1 .. Len(Program[s]) /\ IsFiniteSet(Sends(s, d))
         /\ Recvs(s, d) \subseteq 1 .. Len(Program[s]) /\ IsFiniteSet(Recvs(s, d))
         /\ Len(Program[s]) \in Nat
<1>1. Program[s] \in Seq(Op) /\ DOMAIN Program[s] = 1 .. Len(Program[s])
      /\ Len(Program[s]) \in Nat
  BY ProgramAssumption
<1>2. IsFiniteSet(1 .. Len(Program[s]))
  BY <1>1, FS_Interval
<1>3. Sends(s, d) \subseteq 1 .. Len(Program[s]) /\ Recvs(s, d) \subseteq 1 .. Len(Program[s])
  BY <1>1 DEF Sends, Recvs, CallsOf
<1> QED BY <1>1, <1>2, <1>3, FS_Subset

(* An ordinal names one member of a set of calls.                          *)
LEMMA OrdinalIsUnique ==
  ASSUME NEW S \in SUBSET Nat, IsFiniteSet(S), NEW i \in S, NEW j \in S,
         Ordinal(S, i) = Ordinal(S, j)
  PROVE  i = j
<1>1. ASSUME NEW a \in S, NEW b \in S, a < b PROVE Ordinal(S, a) # Ordinal(S, b)
  <2> DEFINE A == {x \in S : x <= a}
             B == {x \in S : x <= b}
  <2>0. a \in Nat /\ b \in Nat /\ \A x \in S : x \in Nat
    OBVIOUS
  <2>1. A \subseteq B /\ b \in B /\ b \notin A /\ B \in SUBSET S
    <3>1. \A x \in S : x <= a => x <= b
      BY <1>1, <2>0
    <3>2. b <= b /\ ~(b <= a)
      BY <1>1, <2>0
    <3> QED BY <3>1, <3>2
  <2>2. IsFiniteSet(B)
    BY <2>1, FS_Subset
  <2>3. Cardinality(A) # Cardinality(B)
    BY <2>1, <2>2, FS_Subset
  <2> QED BY <2>3 DEF Ordinal
<1>2. i < j \/ j < i \/ i = j
  OBVIOUS
<1> QED BY <1>1, <1>2

(* Ordinals count what was done, and the call itself.                      *)
LEMMA OrdinalCounts ==
  ASSUME NEW S \in SUBSET Nat, IsFiniteSet(S), NEW i \in Nat
  PROVE  /\ Done(S, i) \in Nat
         /\ i \in S => Ordinal(S, i) = Done(S, i) + 1
         /\ Done(S, i + 1) = Done(S, i) + (IF i \in S THEN 1 ELSE 0)
<1> DEFINE D == {x \in S : x < i}
<1>1. D \in SUBSET S /\ i \notin D
  OBVIOUS
<1>2. IsFiniteSet(D) /\ Cardinality(D) \in Nat
  BY <1>1, FS_Subset, FS_CardinalityType
<1>3. Cardinality(D \cup {i}) = Cardinality(D) + 1
  BY <1>1, <1>2, FS_AddElement
<1>0. \A x \in S : x \in Nat /\ (x < i + 1 <=> x <= i) /\ (x <= i <=> x < i \/ x = i)
  OBVIOUS
<1>4. i \in S => {x \in S : x <= i} = D \cup {i} /\ {x \in S : x < i + 1} = D \cup {i}
  BY <1>0
<1>5. i \notin S => {x \in S : x < i + 1} = D
  BY <1>0
<1> QED BY <1>2, <1>3, <1>4, <1>5 DEF Done, Ordinal

(* A send and a receive with the same ordinal are paired.                  *)
LEMMA Paired ==
  ASSUME WellPaired, NEW s \in Rank, NEW d \in Rank,
         NEW m \in Sends(s, d), NEW k \in Recvs(d, s),
         Done(Sends(s, d), m) = Done(Recvs(d, s), k)
  PROVE  /\ MatchingSend(d, k) = m
         /\ Program[d][k].count = Program[s][m].count
         /\ Program[d][k].call = PeerCall[Program[s][m].call]
<1>1. /\ Sends(s, d) \in SUBSET Nat /\ IsFiniteSet(Sends(s, d))
      /\ Recvs(d, s) \in SUBSET Nat /\ IsFiniteSet(Recvs(d, s))
  BY CallsFinite
<1>2. Ordinal(Sends(s, d), m) = Ordinal(Recvs(d, s), k)
  BY <1>1, OrdinalCounts
<1>3. Program[d][k].peer = s /\ Program[s][m].peer = d
  BY DEF Sends, Recvs, CallsOf
<1>4. MatchingSend(d, k) = m
  <2>1. \A x \in Sends(s, d) : Ordinal(Sends(s, d), x) = Ordinal(Recvs(d, s), k) => x = m
    BY <1>1, <1>2, OrdinalIsUnique
  <2> QED BY <1>2, <1>3, <2>1 DEF MatchingSend
<1>5. MatchingRecv(s, m) = k
  <2>1. \A x \in Recvs(d, s) : Ordinal(Recvs(d, s), x) = Ordinal(Sends(s, d), m) => x = k
    BY <1>1, <1>2, OrdinalIsUnique
  <2> QED BY <1>2, <1>3, <2>1 DEF MatchingRecv
<1> QED BY <1>4, <1>5 DEF WellPaired

-----------------------------------------------------------------------------
(* Packets.                                                                *)

(* How a rank names a call is the name of a call.                          *)
LEMMA NamedType == \A n \in Rank : \A c \in Calls : Named(n, c) \in Calls
BY DEF Named, IntCall, Calls, SendCalls, RecvCalls

(* What a call of a program consists of.                                   *)
LEMMA CallType ==
  ASSUME NEW s \in Rank, NEW m \in 1 .. Len(Program[s])
  PROVE  /\ Program[s][m] \in Op /\ Program[s][m].peer \in Rank /\ Program[s][m].peer # s
         /\ Program[s][m].call \in Calls /\ Program[s][m].count \in Nat \ {0}
         /\ m \in Nat /\ s \in Nat
<1>1. Program[s] \in Seq(Op) /\ m \in Nat /\ s \in Nat
  BY ProgramAssumption, RankAssumption
<1>2. Program[s][m] \in Op /\ m \in DOMAIN Program[s]
  BY <1>1
<1> QED BY <1>1, <1>2, ProgramAssumption DEF Op

(* The packets of the protocol are packets.                                *)
LEMMA PacketTypes ==
  ASSUME NEW s \in Rank, NEW m \in 1 .. Len(Program[s])
  PROVE  /\ \A k \in Nat : Part(s, m, k) \in Packet
         /\ Request(s, m) \in Packet
         /\ \A d \in Rank : \A type \in HeaderTypes : Answer(type, d, s, m) \in Packet
<1> DEFINE op == Program[s][m]
           call == Named(s, op.call)
<1>1. op.peer \in Rank /\ op.call \in Calls /\ op.count \in Nat /\ m \in Nat /\ s \in Nat
  BY CallType
<1>2. call \in Calls /\ PeerCall[op.call] \in Calls
  BY <1>1, NamedType, PeerCallType
<1> HIDE DEF call
<1>3. ASSUME NEW k \in Nat PROVE Part(s, m, k) \in Packet
  <2>1. <<s, m, k>> \in Unit
    BY <1>1 DEF Unit
  <2>2. /\ DataPacket(s, op.peer, call, op.count, <<s, m, k>>) \in Packet
        /\ ContPacket(s, op.peer, call, <<s, m, k>>) \in Packet
    BY <1>1, <1>2, <2>1, MessageType
  <2> QED BY <2>2 DEF Part, call
<1>4. Request(s, m) \in Packet
  BY <1>1, <1>2, ControlType DEF Request, HeaderTypes, call
<1>5. ASSUME NEW d \in Rank, NEW type \in HeaderTypes PROVE Answer(type, d, s, m) \in Packet
  BY <1>2, <1>5, NamedType, ControlType DEF Answer
<1> QED BY <1>3, <1>4, <1>5

(* One more unit is sent, or the first one on its way has arrived.         *)
LEMMA PartsChange ==
  ASSUME NEW s \in Rank, NEW m \in 1 .. Len(Program[s]), NEW a \in Nat, NEW b \in Nat,
         a <= b
  PROVE  /\ Parts(s, m, a, b) \in Seq(Packet)
         /\ Parts(s, m, a, a) = << >>
         /\ Parts(s, m, a, b + 1) = Append(Parts(s, m, a, b), Part(s, m, b + 1))
         /\ a < b => /\ Parts(s, m, a, b) # << >>
                     /\ Head(Parts(s, m, a, b)) = Part(s, m, a + 1)
                     /\ Tail(Parts(s, m, a, b)) = Parts(s, m, a + 1, b)
<1>1. \A k \in Nat : Part(s, m, k) \in Packet
  BY PacketTypes
<1>2. ASSUME NEW x \in Nat, NEW y \in Nat, x <= y
      PROVE  /\ Parts(s, m, x, y) \in Seq(Packet) /\ Len(Parts(s, m, x, y)) = y - x
             /\ \A i \in 1 .. y - x : Parts(s, m, x, y)[i] = Part(s, m, x + i)
  BY <1>1, <1>2 DEF Parts
<1>3. Parts(s, m, a, a) = << >>
  BY <1>2
<1>4. Parts(s, m, a, b + 1) = Append(Parts(s, m, a, b), Part(s, m, b + 1))
  <2> DEFINE p == Parts(s, m, a, b)
             q == Append(p, Part(s, m, b + 1))
             r == Parts(s, m, a, b + 1)
  <2>0. b + 1 \in Nat /\ a <= b + 1
    OBVIOUS
  <2>1. p \in Seq(Packet) /\ Len(p) = b - a
        /\ \A i \in 1 .. b - a : p[i] = Part(s, m, a + i)
    BY <1>2
  <2>2. r \in Seq(Packet) /\ Len(r) = b + 1 - a
        /\ \A i \in 1 .. b + 1 - a : r[i] = Part(s, m, a + i)
    <3>1. \A e \in Nat : a <= e =>
            /\ Parts(s, m, a, e) \in Seq(Packet) /\ Len(Parts(s, m, a, e)) = e - a
            /\ \A i \in 1 .. e - a : Parts(s, m, a, e)[i] = Part(s, m, a + i)
      BY <1>2
    <3> QED BY <2>0, <3>1
  <2> HIDE DEF p, r
  <2>3. /\ q \in Seq(Packet) /\ Len(q) = b - a + 1 /\ q[b - a + 1] = Part(s, m, b + 1)
        /\ \A i \in 1 .. b - a : q[i] = p[i]
    BY <1>1, <2>1, AppendOf
  <2> HIDE DEF q
  <2>4. ASSUME NEW i \in 1 .. Len(r) PROVE r[i] = q[i]
    <3>1. i \in 1 .. b - a \/ (i = b - a + 1 /\ a + i = b + 1)
      BY <2>2
    <3> QED BY <2>1, <2>2, <2>3, <3>1
  <2>5. Len(r) = Len(q)
    BY <2>2, <2>3
  <2> QED BY <2>2, <2>3, <2>4, <2>5, SeqEqual DEF p, q, r
<1>5. ASSUME a < b
      PROVE  /\ Parts(s, m, a, b) # << >>
             /\ Head(Parts(s, m, a, b)) = Part(s, m, a + 1)
             /\ Tail(Parts(s, m, a, b)) = Parts(s, m, a + 1, b)
  <2> DEFINE p == Parts(s, m, a, b)
             r == Parts(s, m, a + 1, b)
  <2>0. a + 1 \in Nat /\ a + 1 <= b
    BY <1>5
  <2>1. p \in Seq(Packet) /\ Len(p) = b - a
        /\ \A i \in 1 .. b - a : p[i] = Part(s, m, a + i)
    BY <1>2
  <2>2. r \in Seq(Packet) /\ Len(r) = b - (a + 1)
        /\ \A i \in 1 .. b - (a + 1) : r[i] = Part(s, m, a + 1 + i)
    BY <1>2, <2>0
  <2> HIDE DEF p, r
  <2>3. p # << >>
    BY <1>5, <2>1
  <2>4. /\ Head(p) = p[1] /\ Tail(p) \in Seq(Packet) /\ Len(Tail(p)) = Len(p) - 1
        /\ \A j \in 1 .. Len(Tail(p)) : Tail(p)[j] = p[j + 1]
    BY <2>1, <2>3, TailOf
  <2>5. Head(p) = Part(s, m, a + 1)
    BY <1>5, <2>1, <2>4
  <2>6. ASSUME NEW i \in 1 .. Len(r) PROVE r[i] = Tail(p)[i]
    <3>1. i \in 1 .. b - (a + 1) /\ i + 1 \in 1 .. b - a /\ a + 1 + i = a + (i + 1)
          /\ i \in 1 .. Len(Tail(p))
      BY <2>1, <2>2, <2>4
    <3> QED BY <2>1, <2>2, <2>4, <3>1
  <2>7. Len(r) = Len(Tail(p))
    BY <2>1, <2>2, <2>4
  <2>8. Tail(p) = r
    BY <2>2, <2>4, <2>6, <2>7, SeqEqual
  <2> QED BY <2>3, <2>5, <2>8 DEF p, r
<1> QED BY <1>2, <1>3, <1>4, <1>5

(* What is on its way consists of an answer and what follows it: how such  *)
(* a chain grows and shrinks.                                              *)
LEMMA Chained ==
  ASSUME NEW S, NEW b \in Seq(S), NEW f \in Seq(S), NEW x \in S
  PROVE  /\ Append(b \o f, x) = b \o Append(f, x)
         /\ Append(<< >>, x) = <<x>>
         /\ << >> \o f = f /\ f \o << >> = f
         /\ <<x>> \o f # << >> /\ Head(<<x>> \o f) = x /\ Tail(<<x>> \o f) = f
         /\ Head(<<x>>) = x /\ Tail(<<x>>) = << >> /\ <<x>> # << >> /\ <<x>> \in Seq(S)
         /\ << >> \in Seq(S)
<1>1. << >> \in Seq(S) /\ <<x>> \in Seq(S) /\ Len(<<x>>) = 1 /\ <<x>>[1] = x
  OBVIOUS
<1>2. Append(b \o f, x) = b \o Append(f, x)
  <2>1. b \o f \in Seq(S) /\ Append(f, x) = f \o <<x>>
        /\ Append(b \o f, x) = (b \o f) \o <<x>>
    BY <1>1, ConcatProperties, AppendIsConcat
  <2> QED BY <1>1, <2>1, ConcatAssociative
<1>3. Append(<< >>, x) = <<x>>
  <2>1. Append(<< >>, x) = << >> \o <<x>>
    BY <1>1, AppendIsConcat
  <2> QED BY <1>1, <2>1, ConcatEmptySeq
<1>4. << >> \o f = f /\ f \o << >> = f
  BY ConcatEmptySeq
<1>5. <<x>> \o f # << >> /\ Head(<<x>> \o f) = x /\ Tail(<<x>> \o f) = f
  <2> DEFINE c == <<x>> \o f
  <2>1. /\ c \in Seq(S) /\ Len(c) = 1 + Len(f) /\ Len(f) \in Nat
        /\ \A i \in 1 .. 1 + Len(f) : c[i] = IF i <= 1 THEN <<x>>[i] ELSE f[i - 1]
    BY <1>1, ConcatProperties
  <2> HIDE DEF c
  <2>2. c # << >>
    BY <2>1
  <2>3. /\ Head(c) = c[1] /\ Tail(c) \in Seq(S) /\ Len(Tail(c)) = Len(c) - 1
        /\ \A j \in 1 .. Len(Tail(c)) : Tail(c)[j] = c[j + 1]
    BY <2>1, <2>2, TailOf
  <2>4. Head(c) = x
    BY <1>1, <2>1, <2>3
  <2>5. ASSUME NEW i \in 1 .. Len(f) PROVE f[i] = Tail(c)[i]
    <3>1. i \in 1 .. Len(Tail(c)) /\ i + 1 \in 1 .. 1 + Len(f) /\ ~(i + 1 <= 1) /\ i + 1 - 1 = i
      BY <2>1, <2>3
    <3> QED BY <2>1, <2>3, <3>1
  <2>6. Len(f) = Len(Tail(c))
    BY <2>1, <2>3
  <2>7. Tail(c) = f
    BY <2>3, <2>5, <2>6, SeqEqual
  <2> QED BY <2>2, <2>4, <2>7 DEF c
<1>6. Head(<<x>>) = x /\ Tail(<<x>>) = << >> /\ <<x>> # << >>
  BY <1>1
<1> QED BY <1>1, <1>2, <1>3, <1>4, <1>5, <1>6

-----------------------------------------------------------------------------
(* What a step of rank n leaves alone.                                     *)

OthersStay(n) ==
  \A m \in Rank \ {n} : Stage(m)' = Stage(m) /\ Moved(m)' = Moved(m) /\ Result(m)' = Result(m)

(* A step that leaves both ends of a message alone leaves alone what is on *)
(* its way.                                                                *)
LEMMA SameTransfer ==
  ASSUME NEW s \in Rank, NEW d \in Rank, InTurn(s, d),
         Asks(s, d)' <=> Asks(s, d), Streams(s, d)' <=> Streams(s, d),
         Hears(d, s)' <=> Hears(d, s), Engaged(d, s)' <=> Engaged(d, s),
         Busy(d, s, {"clear"})' <=> Busy(d, s, {"clear"}),
         Asks(s, d) \/ Streams(s, d) => Place(s)' = Place(s) /\ Moved(s)' = Moved(s),
         Hears(d, s) => Moved(d)' = Moved(d),
         Kept(d, s)' = Kept(d, s)
  PROVE  InTurn(s, d)' /\ Forward(s, d)' = Forward(s, d) /\ Back(d, s)' = Back(d, s)
<1>1. Hears(d, s) => Asks(s, d) \/ Streams(s, d)
  BY DEF InTurn, Hears, Engaged, Busy
<1>2. Place(s)' = Place(s) => Now(s)' = Now(s)
  BY DEF Now
<1>3. InTurn(s, d)'
  BY <1>1, <1>2 DEF InTurn
<1>4. Forward(s, d)' = Forward(s, d)
  BY <1>1 DEF Forward
<1>5. Back(d, s)' = Back(d, s)
  BY <1>1 DEF Back
<1> QED BY <1>3, <1>4, <1>5

(* The links between other ranks.                                          *)
LEMMA OtherLinks ==
  ASSUME HsInv, NEW n \in Rank, NEW q \in Rank, OthersStay(n),
         Stage(n) = "out" \/ Now(n).peer = q,
         Stage(n)' = "out" \/ (Now(n)').peer = q,
         \/ Place(n)' = Place(n)
         \/ /\ Place(n)' = Place(n) + 1 /\ Now(n).peer = q
            /\ Place(n) \in 1 .. Len(Program[n]),
         NEW s \in Rank, NEW d \in Rank, s # d, ~(s = n /\ d = q), ~(s = q /\ d = n),
         Way(s, d)' = Way(s, d), Kept(d, s)' = Kept(d, s), Kept(s, d)' = Kept(s, d)
  PROVE  Link(s, d)'
<1>1. Link(s, d) /\ Link(d, s)
  BY DEF HsInv
<1>2. ASSUME NEW m \in Rank, m # n
      PROVE  /\ Stage(m)' = Stage(m) /\ Moved(m)' = Moved(m) /\ Place(m)' = Place(m)
             /\ Now(m)' = Now(m)
  BY <1>2 DEF OthersStay, Place, Now
<1>3. ASSUME NEW x \in Rank, NEW y \in Rank, x # y, ~(x = n /\ y = q)
      PROVE  /\ Asks(x, y)' <=> Asks(x, y)
             /\ Streams(x, y)' <=> Streams(x, y)
             /\ Hears(x, y)' <=> Hears(x, y)
             /\ Engaged(x, y)' <=> Engaged(x, y)
             /\ Busy(x, y, {"clear"})' <=> Busy(x, y, {"clear"})
             /\ Asks(x, y) \/ Streams(x, y) \/ Hears(x, y) => x # n
  <2> USE DEF Asks, Streams, Hears, Engaged, Busy
  <2>1. CASE x = n
    BY <1>3, <2>1
  <2>2. CASE x # n
    BY <1>2, <2>2
  <2> QED BY <2>1, <2>2
<1>4. /\ InTurn(s, d)' /\ Forward(s, d)' = Forward(s, d) /\ Back(d, s)' = Back(d, s)
      /\ InTurn(d, s)' /\ Forward(d, s)' = Forward(d, s) /\ Back(s, d)' = Back(s, d)
  <2>1. InTurn(s, d) /\ InTurn(d, s)
    BY <1>1 DEF Link
  <2>2. /\ Asks(s, d) \/ Streams(s, d) => Place(s)' = Place(s) /\ Moved(s)' = Moved(s)
        /\ Asks(d, s) \/ Streams(d, s) => Place(d)' = Place(d) /\ Moved(d)' = Moved(d)
        /\ Hears(s, d) => Moved(s)' = Moved(s)
        /\ Hears(d, s) => Moved(d)' = Moved(d)
    BY <1>2, <1>3
  <2>3. InTurn(s, d)' /\ Forward(s, d)' = Forward(s, d) /\ Back(d, s)' = Back(d, s)
    BY <1>3, <2>1, <2>2, SameTransfer
  <2>4. InTurn(d, s)' /\ Forward(d, s)' = Forward(d, s) /\ Back(s, d)' = Back(s, d)
    BY <1>3, <2>1, <2>2, SameTransfer
  <2> QED BY <2>3, <2>4
<1>5. OnItsWay(s, d)'
  BY <1>1, <1>4 DEF OnItsWay, Link
<1>6. /\ Done(Sends(s, d), Place(s)') = Done(Sends(s, d), Place(s))
      /\ Done(Recvs(d, s), Place(d)') = Done(Recvs(d, s), Place(d))
  <2>1. ASSUME NEW x \in Rank, NEW y \in Rank, x # y, ~(x = n /\ y = q)
        PROVE  /\ Done(Sends(x, y), Place(x)') = Done(Sends(x, y), Place(x))
               /\ Done(Recvs(x, y), Place(x)') = Done(Recvs(x, y), Place(x))
    <3>1. CASE Place(x)' = Place(x)
      BY <3>1
    <3>2. CASE x = n /\ Place(n)' = Place(n) + 1 /\ Now(n).peer = q
               /\ Place(n) \in 1 .. Len(Program[n])
      <4>1. Place(n) \notin Sends(n, y) /\ Place(n) \notin Recvs(n, y)
        BY <2>1, <3>2 DEF Now, Sends, Recvs, CallsOf
      <4>2. /\ Sends(n, y) \in SUBSET Nat /\ IsFiniteSet(Sends(n, y))
            /\ Recvs(n, y) \in SUBSET Nat /\ IsFiniteSet(Recvs(n, y))
        BY CallsFinite
      <4>3. Place(n) \in Nat
        BY <3>2, CallsFinite
      <4>4. /\ Done(Sends(n, y), Place(n) + 1) = Done(Sends(n, y), Place(n)) + 0
            /\ Done(Recvs(n, y), Place(n) + 1) = Done(Recvs(n, y), Place(n)) + 0
            /\ Done(Sends(n, y), Place(n)) \in Nat /\ Done(Recvs(n, y), Place(n)) \in Nat
        BY <4>1, <4>2, <4>3, OrdinalCounts
      <4> QED BY <3>2, <4>4
    <3> QED BY <1>2, <3>1, <3>2
  <2> QED BY <2>1
<1>7. InStep(s, d)'
  BY <1>1, <1>3, <1>6 DEF InStep, Link
<1> QED BY <1>4, <1>5, <1>7 DEF Link

(* Rank n is no receiver for q, so nothing changes for a message of q.     *)
LEMMA ReceivingSide ==
  ASSUME HsInv, NEW n \in Rank, NEW q \in Rank, n # q, OthersStay(n),
         Stage(n) \notin {"clear", "receiving"}, Stage(n)' \notin {"clear", "receiving"},
         Place(n)' = Place(n) \/ (Place(n)' = Place(n) + 1 /\ Place(n) \in Sends(n, q)),
         Kept(n, q)' = Kept(n, q)
  PROVE  /\ InTurn(q, n)' /\ InStep(q, n)'
         /\ Forward(q, n)' = Forward(q, n) /\ Back(n, q)' = Back(n, q)
<1>1. InTurn(q, n) /\ InStep(q, n)
  BY DEF HsInv, Link
<1>2. /\ Stage(q)' = Stage(q) /\ Moved(q)' = Moved(q) /\ Place(q)' = Place(q)
      /\ Now(q)' = Now(q)
  BY DEF OthersStay, Place, Now
<1>3. /\ Asks(q, n)' <=> Asks(q, n)
      /\ Streams(q, n)' <=> Streams(q, n)
      /\ ~Hears(n, q) /\ ~Engaged(n, q) /\ ~Busy(n, q, {"clear"})
      /\ ~Hears(n, q)' /\ ~Engaged(n, q)' /\ ~Busy(n, q, {"clear"})'
  BY <1>2 DEF Asks, Streams, Hears, Engaged, Busy
<1>4. InTurn(q, n)' /\ Forward(q, n)' = Forward(q, n) /\ Back(n, q)' = Back(n, q)
  BY <1>1, <1>2, <1>3, SameTransfer
<1>5. Done(Recvs(n, q), Place(n)') = Done(Recvs(n, q), Place(n))
  <2>1. CASE Place(n)' = Place(n)
    BY <2>1
  <2>2. CASE Place(n)' = Place(n) + 1 /\ Place(n) \in Sends(n, q)
    <3>1. /\ Recvs(n, q) \in SUBSET Nat /\ IsFiniteSet(Recvs(n, q))
          /\ Place(n) \in Nat
      BY <2>2, CallsFinite
    <3>2. Place(n) \notin Recvs(n, q)
      BY <2>2 DEF Sends, Recvs, CallsOf, SendCalls, RecvCalls
    <3>3. /\ Done(Recvs(n, q), Place(n) + 1) = Done(Recvs(n, q), Place(n)) + 0
          /\ Done(Recvs(n, q), Place(n)) \in Nat
      BY <3>1, <3>2, OrdinalCounts
    <3> QED BY <2>2, <3>3
  <2> QED BY <2>1, <2>2
<1>6. InStep(q, n)'
  BY <1>1, <1>2, <1>3, <1>5 DEF InStep
<1> QED BY <1>4, <1>6

(* Rank n is no sender for q, so nothing changes for a message to q.       *)
LEMMA SendingSide ==
  ASSUME HsInv, NEW n \in Rank, NEW q \in Rank, n # q, OthersStay(n),
         Stage(n) \notin {"asked", "sending"}, Stage(n)' \notin {"asked", "sending"},
         Place(n)' = Place(n) \/ (Place(n)' = Place(n) + 1 /\ Place(n) \in Recvs(n, q)),
         Kept(q, n)' = Kept(q, n)
  PROVE  /\ InTurn(n, q)' /\ InStep(n, q)'
         /\ Forward(n, q) = << >> /\ Forward(n, q)' = << >>
         /\ Back(q, n) = << >> /\ Back(q, n)' = << >>
<1>1. InTurn(n, q) /\ InStep(n, q)
  BY DEF HsInv, Link
<1>2. /\ Stage(q)' = Stage(q) /\ Moved(q)' = Moved(q) /\ Place(q)' = Place(q)
      /\ Now(q)' = Now(q)
  BY DEF OthersStay, Place, Now
<1>3. /\ Hears(q, n)' <=> Hears(q, n)
      /\ Engaged(q, n)' <=> Engaged(q, n)
      /\ Busy(q, n, {"clear"})' <=> Busy(q, n, {"clear"})
      /\ ~Asks(n, q) /\ ~Streams(n, q) /\ ~Asks(n, q)' /\ ~Streams(n, q)'
  BY <1>2 DEF Asks, Streams, Hears, Engaged, Busy
<1>4. InTurn(n, q)' /\ Forward(n, q)' = Forward(n, q) /\ Back(q, n)' = Back(q, n)
  BY <1>1, <1>2, <1>3, SameTransfer
<1>5. Done(Sends(n, q), Place(n)') = Done(Sends(n, q), Place(n))
  <2>1. CASE Place(n)' = Place(n)
    BY <2>1
  <2>2. CASE Place(n)' = Place(n) + 1 /\ Place(n) \in Recvs(n, q)
    <3>1. /\ Sends(n, q) \in SUBSET Nat /\ IsFiniteSet(Sends(n, q))
          /\ Place(n) \in Nat
      BY <2>2, CallsFinite
    <3>2. Place(n) \notin Sends(n, q)
      BY <2>2 DEF Sends, Recvs, CallsOf, SendCalls, RecvCalls
    <3>3. /\ Done(Sends(n, q), Place(n) + 1) = Done(Sends(n, q), Place(n)) + 0
          /\ Done(Sends(n, q), Place(n)) \in Nat
      BY <3>1, <3>2, OrdinalCounts
    <3> QED BY <2>2, <3>3
  <2> QED BY <2>1, <2>2
<1>6. InStep(n, q)'
  BY <1>1, <1>2, <1>3, <1>5 DEF InStep
<1>7. Forward(n, q) = << >> /\ Back(q, n) = << >>
  BY <1>3 DEF Forward, Back
<1> QED BY <1>4, <1>6, <1>7

(* Where a rank is in its program, and with whom it has a call.            *)
LEMMA PositionOf ==
  ASSUME HsInv, NEW n \in Rank
  PROVE  /\ Place(n) \in Nat \ {0} /\ Result(n) \in Seq(Seq(Unit)) /\ Moved(n) \in Seq(Unit)
         /\ Stage(n) # "out" => Place(n) \in 1 .. Len(Program[n])
         /\ Stage(n) \in {"asked", "sending"} => Place(n) \in Sends(n, Now(n).peer)
         /\ Stage(n) \in {"clear", "receiving"} => Place(n) \in Recvs(n, Now(n).peer)
<1>1. Fine(n) /\ Own(n) /\ Len(Program[n]) \in Nat /\ DOMAIN Program[n] = 1 .. Len(Program[n])
  BY ProgramAssumption DEF HsInv
<1>2. Place(n) \in Nat \ {0}
  BY <1>1 DEF Fine, Place
<1>3. Stage(n) # "out" => Place(n) \in 1 .. Len(Program[n])
  BY <1>1, <1>2 DEF Own
<1> QED BY <1>1, <1>2, <1>3 DEF Own, Fine, Sends, Recvs, CallsOf, Now

(* What is on its way between two ranks are packets.                       *)
LEMMA WayTypes ==
  ASSUME HsInv, NEW s \in Rank, NEW d \in Rank, s # d
  PROVE  /\ Forward(s, d) \in Seq(Packet) /\ Back(d, s) \in Seq(Packet)
         /\ Way(s, d) = Back(s, d) \o Forward(s, d)
         /\ Streams(s, d) /\ Hears(d, s) =>
              Parts(s, Place(s), Len(Moved(d)), Len(Moved(s))) \in Seq(Packet)
<1>1. Asks(s, d) \/ Streams(s, d) => Place(s) \in 1 .. Len(Program[s])
  BY PositionOf DEF Asks, Streams, Busy
<1>2. Asks(s, d) \/ Streams(s, d) =>
        /\ Request(s, Place(s)) \in Packet
        /\ Answer("CLEAR_TO_SEND", d, s, Place(s)) \in Packet
        /\ Answer("ACK", d, s, Place(s)) \in Packet
  BY <1>1, PacketTypes DEF HeaderTypes
<1>3. Streams(s, d) /\ Hears(d, s) =>
        Parts(s, Place(s), Len(Moved(d)), Len(Moved(s))) \in Seq(Packet)
  <2>1. Streams(s, d) /\ Hears(d, s) => Len(Moved(d)) <= Len(Moved(s))
    BY DEF HsInv, Link, InTurn
  <2>2. Len(Moved(d)) \in Nat /\ Len(Moved(s)) \in Nat
    BY PositionOf
  <2> QED BY <1>1, <2>1, <2>2, PartsChange
<1>4. Forward(s, d) \in Seq(Packet)
  BY <1>2, <1>3, Chained DEF Forward
<1>5. Back(d, s) \in Seq(Packet)
  BY <1>2, Chained DEF Back
<1> QED BY <1>3, <1>4, <1>5 DEF HsInv, Link, OnItsWay

(* What the first packet on a way says of the two ranks.                   *)
LEMMA Arrival ==
  ASSUME HsInv, NEW s \in Rank, NEW d \in Rank, s # d, Way(s, d) # << >>
  PROVE  LET p == Head(Way(s, d))
             a == Len(Moved(d))
         IN  \/ /\ p.type = "SEND_REQUEST" /\ p = Request(s, Place(s))
                /\ Asks(s, d) /\ ~Engaged(d, s) /\ Kept(d, s) = NoHeader
                /\ Tail(Way(s, d)) = << >> /\ Back(s, d) = << >>
             \/ /\ p.type = "CLEAR_TO_SEND" /\ p = Answer("CLEAR_TO_SEND", s, d, Place(d))
                /\ Asks(d, s) /\ Hears(s, d)
                /\ Tail(Way(s, d)) = Forward(s, d)
             \/ /\ p.type = "ACK" /\ p = Answer("ACK", s, d, Place(d))
                /\ Streams(d, s) /\ ~Hears(s, d)
                /\ Tail(Way(s, d)) = Forward(s, d)
             \/ /\ p.type \in {"DATA", "CONT"} /\ p = Part(s, Place(s), a + 1)
                /\ Streams(s, d) /\ Hears(d, s) /\ a < Len(Moved(s))
                /\ Tail(Way(s, d)) = Parts(s, Place(s), a + 1, Len(Moved(s)))
                /\ Back(s, d) = << >>
<1> DEFINE p == Head(Way(s, d))
           a == Len(Moved(d))
           b == Len(Moved(s))
<1>1. /\ Way(s, d) = Back(s, d) \o Forward(s, d)
      /\ Forward(s, d) \in Seq(Packet) /\ Back(s, d) \in Seq(Packet)
  BY WayTypes
<1>2. /\ Asks(s, d) \/ Streams(s, d) => Place(s) \in 1 .. Len(Program[s])
      /\ Asks(d, s) \/ Streams(d, s) => Place(d) \in 1 .. Len(Program[d])
  BY PositionOf DEF Asks, Streams, Busy
<1>3. ASSUME NEW x \in Packet, Back(s, d) = <<x>>
      PROVE  p = x /\ Tail(Way(s, d)) = Forward(s, d)
  BY <1>1, <1>3, Chained
<1>4. CASE Asks(d, s) /\ Hears(s, d)
  <2>1. Answer("CLEAR_TO_SEND", s, d, Place(d)) \in Packet
    BY <1>2, <1>4, PacketTypes DEF HeaderTypes
  <2>2. Back(s, d) = <<Answer("CLEAR_TO_SEND", s, d, Place(d))>>
    BY <1>4 DEF Back
  <2>3. Answer("CLEAR_TO_SEND", s, d, Place(d)).type = "CLEAR_TO_SEND"
    BY DEF Answer, Control
  <2> QED BY <1>3, <1>4, <2>1, <2>2, <2>3
<1>5. CASE Streams(d, s) /\ ~Hears(s, d)
  <2>1. Answer("ACK", s, d, Place(d)) \in Packet
    BY <1>2, <1>5, PacketTypes DEF HeaderTypes
  <2>2. Back(s, d) = <<Answer("ACK", s, d, Place(d))>>
    BY <1>5 DEF Back
  <2>3. Answer("ACK", s, d, Place(d)).type = "ACK"
    BY DEF Answer, Control
  <2> QED BY <1>3, <1>5, <2>1, <2>2, <2>3
<1>6. CASE Back(s, d) = << >>
  <2>1. Way(s, d) = Forward(s, d)
    BY <1>1, <1>6, ConcatEmptySeq
  <2>2. CASE Asks(s, d) /\ ~Engaged(d, s) /\ Kept(d, s) = NoHeader
    <3>1. Request(s, Place(s)) \in Packet
      BY <1>2, <2>2, PacketTypes
    <3>2. Way(s, d) = <<Request(s, Place(s))>>
      BY <2>1, <2>2 DEF Forward
    <3>3. p = Request(s, Place(s)) /\ Tail(Way(s, d)) = << >>
      BY <3>1, <3>2, Chained
    <3>4. Request(s, Place(s)).type = "SEND_REQUEST"
      BY DEF Request, Control
    <3> QED BY <1>6, <2>2, <3>3, <3>4
  <2>3. CASE Streams(s, d) /\ Hears(d, s)
    <3>1. a \in Nat /\ b \in Nat /\ a <= b
      BY <2>3, PositionOf DEF HsInv, Link, InTurn
    <3>2. Way(s, d) = Parts(s, Place(s), a, b)
      BY <2>1, <2>3 DEF Forward, Asks, Streams, Busy
    <3>3. a < b
      <4>1. a = b => Way(s, d) = << >>
        BY <1>2, <2>3, <3>1, <3>2, PartsChange
      <4> QED BY <3>1, <4>1
    <3>4. p = Part(s, Place(s), a + 1) /\ Tail(Way(s, d)) = Parts(s, Place(s), a + 1, b)
      <4>1. Place(s) \in 1 .. Len(Program[s])
        BY <1>2, <2>3
      <4> HIDE DEF a, b
      <4>2. /\ Head(Parts(s, Place(s), a, b)) = Part(s, Place(s), a + 1)
            /\ Tail(Parts(s, Place(s), a, b)) = Parts(s, Place(s), a + 1, b)
        BY <3>1, <3>3, <4>1, PartsChange
      <4> QED BY <3>2, <4>2
    <3>5. Part(s, Place(s), a + 1).type \in {"DATA", "CONT"}
      BY DEF Part, DataPacket, ContPacket
    <3> QED BY <1>6, <2>3, <3>3, <3>4, <3>5
  <2> QED BY <2>1, <2>2, <2>3 DEF Forward
<1> QED BY <1>4, <1>5, <1>6 DEF Back

(* A receive that has begun is paired with the send of its partner.        *)
LEMMA Partners ==
  ASSUME HsInv, WellPaired, NEW s \in Rank, NEW d \in Rank, s # d, Engaged(d, s)
  PROVE  /\ Asks(s, d) \/ (Streams(s, d) /\ Hears(d, s))
         /\ Place(s) \in Sends(s, d) /\ Place(d) \in Recvs(d, s)
         /\ MatchingSend(d, Place(d)) = Place(s)
         /\ Now(d).count = Now(s).count /\ Now(d).call = PeerCall[Now(s).call]
         /\ \A type : Answer(type, d, s, Place(s)) = Control(type, d, s, Named(d, Now(d).call))
<1>1. InTurn(s, d) /\ InStep(s, d)
  BY DEF HsInv, Link
<1>2. Asks(s, d) \/ (Streams(s, d) /\ Hears(d, s))
  BY <1>1 DEF InTurn, Engaged, Hears, Busy
<1>3. Place(s) \in Sends(s, d) /\ Place(d) \in Recvs(d, s)
  BY <1>2, PositionOf DEF Engaged, Asks, Streams, Busy
<1>4. Done(Sends(s, d), Place(s)) = Done(Recvs(d, s), Place(d))
  <2>1. Done(Sends(s, d), Place(s)) \in Nat
    <3>1. Sends(s, d) \in SUBSET Nat /\ IsFiniteSet(Sends(s, d)) /\ Place(s) \in Nat
      BY CallsFinite, PositionOf
    <3> QED BY <3>1, OrdinalCounts
  <2>2. ~(Streams(s, d) /\ ~Hears(d, s))
    BY <1>2 DEF Asks, Streams, Busy
  <2> QED BY <1>1, <2>1, <2>2 DEF InStep
<1>5. /\ MatchingSend(d, Place(d)) = Place(s)
      /\ Now(d).count = Now(s).count /\ Now(d).call = PeerCall[Now(s).call]
  BY <1>3, <1>4, Paired DEF Now
<1> QED BY <1>2, <1>3, <1>5 DEF Answer, Now

-----------------------------------------------------------------------------
(* The protocol: what the ranks do as long as no timer expires and nothing *)
(* is lost.                                                                *)

(* Packets join and leave what is on its way, headers are put aside.       *)
Gives(n, q, p) ==
  \A s, d \in Rank :
    Way(s, d)' = IF s = n /\ d = q THEN Append(Way(s, d), p) ELSE Way(s, d)

Takes(n, q) ==
  \A s, d \in Rank :
    Way(s, d)' = IF s = q /\ d = n THEN Tail(Way(s, d)) ELSE Way(s, d)

WaysStay == \A s, d \in Rank : Way(s, d)' = Way(s, d)

Puts(n, q, line) ==
  \A d, s \in Rank : Kept(d, s)' = IF d = n /\ s = q THEN line ELSE Kept(d, s)

KeptStays == \A d, s \in Rank : Kept(d, s)' = Kept(d, s)

Comes(n, q, types) == Way(q, n) # << >> /\ Head(Way(q, n)).type \in types

Executes(n, q, calls) ==
  Place(n) <= Len(Program[n]) /\ Now(n).call \in calls /\ Now(n).peer = q

(* The call of rank n goes on from one stage to the next.                  *)
GoesOn(n, from, to) ==
  /\ Stage(n) = from /\ Stage(n)' = to
  /\ Moved(n)' = Moved(n) /\ Result(n)' = Result(n) /\ OthersStay(n)

Transfers(n, unit) ==
  /\ Stage(n)' = Stage(n) /\ Result(n)' = Result(n) /\ OthersStay(n)
  /\ Moved(n)' = Append(Moved(n), unit)

Completes(n, data) ==
  /\ Stage(n)' = "out" /\ Moved(n)' = << >> /\ Result(n)' = Append(Result(n), data)
  /\ OthersStay(n)

(* The ten steps of the protocol, of rank n with rank q.                   *)
Ask(n, q) ==
  /\ Executes(n, q, SendCalls) /\ GoesOn(n, "out", "asked")
  /\ Gives(n, q, Request(n, Place(n))) /\ KeptStays

Keep(n, q) ==
  /\ Comes(n, q, {"SEND_REQUEST"}) /\ Takes(n, q)
  /\ Puts(n, q, HeaderOf(Head(Way(q, n))))
  /\ GoesOn(n, Stage(n), Stage(n))

HearRequest(n, q) ==
  /\ Executes(n, q, RecvCalls) /\ GoesOn(n, "out", "clear")
  /\ Comes(n, q, {"SEND_REQUEST"}) /\ Takes(n, q) /\ KeptStays

FindRequest(n, q) ==
  /\ Executes(n, q, RecvCalls) /\ GoesOn(n, "out", "clear")
  /\ Kept(n, q) # NoHeader /\ Puts(n, q, NoHeader) /\ WaysStay

Clear(n, q) ==
  /\ Now(n).peer = q /\ GoesOn(n, "clear", "receiving")
  /\ Gives(n, q, Answer("CLEAR_TO_SEND", n, q, Place(q))) /\ KeptStays

HearClear(n, q) ==
  /\ Now(n).peer = q /\ GoesOn(n, "asked", "sending")
  /\ Comes(n, q, {"CLEAR_TO_SEND"}) /\ Takes(n, q) /\ KeptStays

SendPart(n, q) ==
  /\ Now(n).peer = q /\ Stage(n) = "sending" /\ Len(Moved(n)) < Now(n).count
  /\ Transfers(n, <<n, Place(n), Len(Moved(n)) + 1>>)
  /\ Gives(n, q, Part(n, Place(n), Len(Moved(n)) + 1)) /\ KeptStays

HearPart(n, q) ==
  /\ Now(n).peer = q /\ Stage(n) = "receiving"
  /\ Comes(n, q, {"DATA", "CONT"})
  /\ Transfers(n, Head(Way(q, n)).unit)
  /\ Takes(n, q) /\ KeptStays

Acknowledge(n, q) ==
  /\ Now(n).peer = q /\ Stage(n) = "receiving" /\ Len(Moved(n)) = Now(n).count
  /\ Gives(n, q, Answer("ACK", n, q, Place(q))) /\ KeptStays
  /\ Completes(n, Moved(n))

HearAck(n, q) ==
  /\ Now(n).peer = q /\ Stage(n) = "sending"
  /\ Comes(n, q, {"ACK"}) /\ Takes(n, q) /\ KeptStays
  /\ Completes(n, << >>)

HsStep(n, q) ==
  \/ Ask(n, q) \/ Keep(n, q) \/ HearRequest(n, q) \/ FindRequest(n, q) \/ Clear(n, q)
  \/ HearClear(n, q) \/ SendPart(n, q) \/ HearPart(n, q) \/ Acknowledge(n, q)
  \/ HearAck(n, q)

(* No step of the protocol.                                                *)
HsStays ==
  /\ \A n \in Rank : Stage(n)' = Stage(n) /\ Moved(n)' = Moved(n) /\ Result(n)' = Result(n)
  /\ WaysStay /\ KeptStays

(* The whole invariant, from what a step of n with q has to establish.     *)
LEMMA Together ==
  ASSUME HsInv, NEW n \in Rank, NEW q \in Rank, n # q, OthersStay(n),
         Fine(n)', Own(n)', RightSoFar(n)', Link(n, q)', Link(q, n)',
         \A s, d \in Rank :
           s # d /\ ~(s = n /\ d = q) /\ ~(s = q /\ d = n) => Link(s, d)'
  PROVE  HsInv'
<1>1. ASSUME NEW m \in Rank, m # n PROVE Fine(m)' /\ Own(m)' /\ RightSoFar(m)'
  <2>1. /\ Stage(m)' = Stage(m) /\ Moved(m)' = Moved(m) /\ Result(m)' = Result(m)
        /\ Place(m)' = Place(m) /\ Now(m)' = Now(m)
    BY <1>1 DEF OthersStay, Place, Now
  <2>2. Fine(m) /\ Own(m) /\ RightSoFar(m)
    BY DEF HsInv
  <2> QED BY <2>1, <2>2 DEF Fine, Own, RightSoFar
<1> QED BY <1>1 DEF HsInv

(* A send begins: it writes its request.                                   *)
LEMMA AskKeepsInv ==
  ASSUME HsInv, NEW n \in Rank, NEW q \in Rank, n # q, Ask(n, q)
  PROVE  HsInv'
<1> USE DEF Ask, Executes, GoesOn
<1>1. /\ OthersStay(n) /\ Stage(n) = "out" /\ Stage(n)' = "asked" /\ Moved(n)' = Moved(n)
      /\ Result(n)' = Result(n) /\ Place(n)' = Place(n) /\ Now(n)' = Now(n)
      /\ Place(n) <= Len(Program[n]) /\ Now(n).call \in SendCalls /\ Now(n).peer = q
  BY DEF Place, Now
<1>2. Fine(n)' /\ Own(n)' /\ RightSoFar(n)'
  <2>1. Fine(n) /\ Own(n) /\ RightSoFar(n)
    BY DEF HsInv
  <2> QED BY <1>1, <2>1 DEF Fine, Stages, Own, RightSoFar
<1>3. ASSUME NEW s \in Rank, NEW d \in Rank, s # d, ~(s = n /\ d = q), ~(s = q /\ d = n)
      PROVE  Link(s, d)'
  BY <1>1, <1>3, OtherLinks DEF Gives, KeptStays
<1>4. /\ InTurn(q, n)' /\ InStep(q, n)'
      /\ Forward(q, n)' = Forward(q, n) /\ Back(n, q)' = Back(n, q)
  BY <1>1, ReceivingSide DEF KeptStays
<1>5. InTurn(n, q) /\ InStep(n, q)
  BY DEF HsInv, Link
<1>6. /\ ~Asks(n, q) /\ ~Streams(n, q) /\ Asks(n, q)' /\ ~Streams(n, q)'
      /\ ~Engaged(q, n) /\ ~Hears(q, n) /\ ~Engaged(q, n)' /\ ~Hears(q, n)'
      /\ Kept(q, n) = NoHeader /\ Kept(q, n)' = NoHeader
  <2>1. ~Asks(n, q) /\ ~Streams(n, q) /\ Asks(n, q)' /\ ~Streams(n, q)'
    BY <1>1 DEF Asks, Streams, Busy
  <2>2. ~Engaged(q, n) /\ Kept(q, n) = NoHeader
    BY <1>5, <2>1 DEF InTurn
  <2>3. ~Hears(q, n)
    BY <2>2 DEF Engaged, Hears, Busy
  <2>4. Stage(q)' = Stage(q) /\ Now(q)' = Now(q)
    BY <1>1 DEF OthersStay, Place, Now
  <2>5. ~Engaged(q, n)' /\ ~Hears(q, n)'
    BY <2>2, <2>3, <2>4 DEF Engaged, Hears, Busy
  <2> QED BY <2>1, <2>2, <2>3, <2>5 DEF KeptStays
<1>7. InTurn(n, q)'
  BY <1>6 DEF InTurn
<1>8. InStep(n, q)'
  <2>1. Place(q)' = Place(q)
    BY <1>1 DEF OthersStay, Place
  <2> QED BY <1>1, <1>5, <1>6, <2>1 DEF InStep
<1>9. /\ Forward(n, q) = << >> /\ Back(q, n)' = Back(q, n)
      /\ Forward(n, q)' = <<Request(n, Place(n))>>
  BY <1>1, <1>6 DEF Forward, Back
<1>10. OnItsWay(n, q)' /\ OnItsWay(q, n)'
  <2> DEFINE x == Request(n, Place(n))
  <2>1. x \in Packet
    <3>1. Place(n) \in 1 .. Len(Program[n])
      BY <1>1, PositionOf, CallsFinite
    <3> QED BY <3>1, PacketTypes
  <2>2. /\ Way(n, q) = Back(n, q) \o << >> /\ Back(n, q) \in Seq(Packet)
        /\ Way(q, n) = Back(q, n) \o Forward(q, n)
    BY <1>9, WayTypes
  <2>3. Way(n, q)' = Append(Way(n, q), x) /\ Way(q, n)' = Way(q, n)
    BY DEF Gives
  <2> HIDE DEF x
  <2>4. Append(Back(n, q) \o << >>, x) = Back(n, q) \o <<x>>
    BY <2>1, <2>2, Chained
  <2>5. Way(n, q)' = Back(n, q)' \o Forward(n, q)'
    BY <1>4, <1>9, <2>2, <2>3, <2>4 DEF x
  <2>6. Way(q, n)' = Back(q, n)' \o Forward(q, n)'
    BY <1>4, <1>9, <2>2, <2>3
  <2> QED BY <2>5, <2>6 DEF OnItsWay
<1>11. Link(n, q)' /\ Link(q, n)'
  BY <1>4, <1>7, <1>8, <1>10 DEF Link
<1> QED BY <1>1, <1>2, <1>3, <1>11, Together

(* A request that is not waited for is put aside.                          *)
LEMMA KeepKeepsInv ==
  ASSUME HsInv, NEW n \in Rank, NEW q \in Rank, n # q, Keep(n, q)
  PROVE  HsInv'
<1> USE DEF Keep, GoesOn
<1> DEFINE p == Head(Way(q, n))
<1>1. /\ OthersStay(n) /\ Stage(n)' = Stage(n) /\ Moved(n)' = Moved(n)
      /\ Result(n)' = Result(n) /\ Place(n)' = Place(n) /\ Now(n)' = Now(n)
  BY DEF Place, Now
<1>2. ASSUME NEW m \in Rank
      PROVE  /\ Stage(m)' = Stage(m) /\ Moved(m)' = Moved(m) /\ Result(m)' = Result(m)
             /\ Place(m)' = Place(m) /\ Now(m)' = Now(m)
  BY <1>1 DEF OthersStay, Place, Now
<1>3. Fine(n)' /\ Own(n)' /\ RightSoFar(n)'
  <2>1. Fine(n) /\ Own(n) /\ RightSoFar(n)
    BY DEF HsInv
  <2> QED BY <1>1, <2>1 DEF Fine, Own, RightSoFar
<1>4. /\ p = Request(q, Place(q)) /\ Asks(q, n) /\ ~Engaged(n, q) /\ Kept(n, q) = NoHeader
      /\ Tail(Way(q, n)) = << >> /\ Back(q, n) = << >>
  BY Arrival DEF Comes
<1>5. ASSUME NEW x \in Rank, NEW y \in Rank
      PROVE  /\ Asks(x, y)' <=> Asks(x, y)
             /\ Streams(x, y)' <=> Streams(x, y)
             /\ Hears(x, y)' <=> Hears(x, y)
             /\ Engaged(x, y)' <=> Engaged(x, y)
             /\ Busy(x, y, {"clear"})' <=> Busy(x, y, {"clear"})
  BY <1>2 DEF Asks, Streams, Hears, Engaged, Busy
<1>6. ASSUME NEW s \in Rank, NEW d \in Rank, s # d, ~(s = q /\ d = n)
      PROVE  InTurn(s, d)' /\ Forward(s, d)' = Forward(s, d) /\ Back(d, s)' = Back(d, s)
  <2>1. InTurn(s, d) /\ Kept(d, s)' = Kept(d, s)
    BY <1>6 DEF HsInv, Link, Puts
  <2> QED BY <1>2, <1>5, <2>1, SameTransfer
<1>7. Kept(n, q)' = HeaderOf(p) /\ Kept(n, q)' # NoHeader
  <2>1. Place(q) \in 1 .. Len(Program[q])
    BY <1>4, PositionOf DEF Asks, Busy
  <2>2. Request(q, Place(q)) \in Packet /\ HasHeader(Request(q, Place(q)))
    BY <2>1, PacketTypes DEF Request, Control, HasHeader
  <2> QED BY <1>4, <2>2, HeaderOfType DEF Puts
<1>8. InTurn(q, n)' /\ Forward(q, n)' = << >> /\ Back(n, q)' = Back(n, q)
  <2>1. ~Hears(n, q) /\ ~Streams(q, n) /\ InTurn(q, n)
    BY <1>4 DEF HsInv, Link, Engaged, Hears, Asks, Streams, Busy
  <2>2. InTurn(q, n)'
    BY <1>2, <1>4, <1>5, <1>7, <2>1 DEF InTurn
  <2>3. Forward(q, n)' = << >>
    BY <1>4, <1>5, <1>7, <2>1 DEF Forward
  <2>4. Back(n, q)' = Back(n, q)
    BY <1>4, <1>5, <2>1 DEF Back
  <2> QED BY <2>2, <2>3, <2>4
<1>9. ASSUME NEW s \in Rank, NEW d \in Rank, s # d PROVE Link(s, d)'
  <2>1. InTurn(s, d)'
    BY <1>6, <1>8, <1>9
  <2>2. InStep(s, d)'
    BY <1>2, <1>5, <1>9 DEF InStep, HsInv, Link
  <2>3. OnItsWay(s, d)'
    <3>1. CASE s = q /\ d = n
      <4>0. << >> = << >> \o << >>
        OBVIOUS
      <4>1. Way(q, n)' = << >>
        BY <1>4 DEF Takes
      <4>2. Back(q, n)' = << >>
        BY <1>4, <1>6
      <4> QED BY <1>8, <3>1, <4>0, <4>1, <4>2 DEF OnItsWay
    <3>2. CASE ~(s = q /\ d = n)
      <4>1. Way(s, d)' = Way(s, d) /\ OnItsWay(s, d)
        BY <1>9, <3>2 DEF Takes, HsInv, Link
      <4>2. Forward(s, d)' = Forward(s, d)
        BY <1>6, <1>9, <3>2
      <4>3. Back(s, d)' = Back(s, d)
        BY <1>6, <1>8, <1>9
      <4> QED BY <4>1, <4>2, <4>3 DEF OnItsWay
    <3> QED BY <3>1, <3>2
  <2> QED BY <2>1, <2>2, <2>3 DEF Link
<1> QED BY <1>1, <1>3, <1>9, Together

(* The receiver takes the request from the network or from its cache.      *)
LEMMA AcceptKeepsInv ==
  ASSUME HsInv, NEW n \in Rank, NEW q \in Rank, n # q,
         Executes(n, q, RecvCalls), GoesOn(n, "out", "clear"),
         \/ Comes(n, q, {"SEND_REQUEST"}) /\ Takes(n, q) /\ KeptStays
         \/ Kept(n, q) # NoHeader /\ Puts(n, q, NoHeader) /\ WaysStay
  PROVE  HsInv'
<1> USE DEF Executes, GoesOn
<1>1. /\ OthersStay(n) /\ Stage(n) = "out" /\ Stage(n)' = "clear" /\ Moved(n)' = Moved(n)
      /\ Result(n)' = Result(n) /\ Place(n)' = Place(n) /\ Now(n)' = Now(n)
      /\ Place(n) <= Len(Program[n]) /\ Now(n).call \in RecvCalls /\ Now(n).peer = q
  BY DEF Place, Now
<1>2. Fine(n)' /\ Own(n)' /\ RightSoFar(n)'
  <2>1. Fine(n) /\ Own(n) /\ RightSoFar(n)
    BY DEF HsInv
  <2> QED BY <1>1, <2>1 DEF Fine, Stages, Own, RightSoFar
<1>3. ASSUME NEW s \in Rank, NEW d \in Rank, s # d, ~(s = n /\ d = q), ~(s = q /\ d = n)
      PROVE  Link(s, d)'
  <2>1. Way(s, d)' = Way(s, d) /\ Kept(d, s)' = Kept(d, s) /\ Kept(s, d)' = Kept(s, d)
    BY <1>3 DEF Takes, KeptStays, Puts, WaysStay
  <2> QED BY <1>1, <1>3, <2>1, OtherLinks
<1>4. /\ InTurn(n, q)' /\ InStep(n, q)'
      /\ Forward(n, q) = << >> /\ Forward(n, q)' = << >>
      /\ Back(q, n) = << >> /\ Back(q, n)' = << >>
  <2>1. Kept(q, n)' = Kept(q, n)
    BY DEF KeptStays, Puts
  <2> QED BY <1>1, <2>1, SendingSide
<1>5. /\ Asks(q, n) /\ ~Engaged(n, q) /\ Way(q, n)' = << >> /\ Kept(n, q)' = NoHeader
  <2>1. CASE Comes(n, q, {"SEND_REQUEST"}) /\ Takes(n, q) /\ KeptStays
    BY <2>1, Arrival DEF Comes, Takes, KeptStays
  <2>2. CASE Kept(n, q) # NoHeader /\ Puts(n, q, NoHeader) /\ WaysStay
    <3>1. InTurn(q, n)
      BY DEF HsInv, Link
    <3>2. Asks(q, n) /\ ~Engaged(n, q)
      BY <2>2, <3>1 DEF InTurn
    <3>3. Forward(q, n) = << >>
      BY <2>2, <3>2 DEF Forward, Asks, Streams, Busy
    <3>4. Way(q, n) = Back(q, n) \o Forward(q, n)
      BY WayTypes
    <3>5. Way(q, n) = << >>
      BY <1>4, <3>3, <3>4
    <3> QED BY <2>2, <3>2, <3>5 DEF Puts, WaysStay
  <2> QED BY <2>1, <2>2
<1>6. /\ Asks(q, n)' /\ ~Streams(q, n) /\ ~Streams(q, n)' /\ ~Hears(n, q) /\ ~Hears(n, q)'
      /\ Engaged(n, q)' /\ Place(q)' = Place(q)
  <2>1. Stage(q)' = Stage(q) /\ Place(q)' = Place(q) /\ Now(q)' = Now(q)
    BY <1>1 DEF OthersStay, Place, Now
  <2> QED BY <1>1, <1>5, <2>1 DEF Asks, Streams, Hears, Engaged, Busy
<1>7. InTurn(q, n)' /\ InStep(q, n)'
  <2>1. InTurn(q, n) /\ InStep(q, n)
    BY DEF HsInv, Link
  <2> QED BY <1>1, <1>5, <1>6, <2>1 DEF InTurn, InStep
<1>8. Forward(q, n)' = << >> /\ Back(n, q)' = << >> /\ Back(n, q) = << >>
  BY <1>5, <1>6 DEF Forward, Back
<1>9. OnItsWay(n, q)' /\ OnItsWay(q, n)'
  <2>1. << >> = << >> \o << >>
    OBVIOUS
  <2>2. Way(n, q)' = Way(n, q)
    BY DEF Takes, WaysStay
  <2>3. Way(n, q) = Back(n, q) \o Forward(n, q)
    BY WayTypes
  <2> QED BY <1>4, <1>5, <1>8, <2>1, <2>2, <2>3 DEF OnItsWay
<1>10. Link(n, q)' /\ Link(q, n)'
  BY <1>4, <1>7, <1>9 DEF Link
<1> QED BY <1>1, <1>2, <1>3, <1>10, Together

(* The receiver clears the sender to send.                                 *)
LEMMA ClearKeepsInv ==
  ASSUME HsInv, NEW n \in Rank, NEW q \in Rank, n # q, Clear(n, q)
  PROVE  HsInv'
<1> USE DEF Clear, GoesOn
<1>1. /\ OthersStay(n) /\ Stage(n) = "clear" /\ Stage(n)' = "receiving"
      /\ Moved(n)' = Moved(n)
      /\ Result(n)' = Result(n) /\ Place(n)' = Place(n) /\ Now(n)' = Now(n)
      /\ Now(n).peer = q
  BY DEF Place, Now
<1>2. Fine(n)' /\ Own(n)' /\ RightSoFar(n)' /\ Moved(n) = << >>
  <2>1. Fine(n) /\ Own(n) /\ RightSoFar(n)
    BY DEF HsInv
  <2> QED BY <1>1, <2>1 DEF Fine, Stages, Own, RightSoFar
<1>3. ASSUME NEW s \in Rank, NEW d \in Rank, s # d, ~(s = n /\ d = q), ~(s = q /\ d = n)
      PROVE  Link(s, d)'
  BY <1>1, <1>3, OtherLinks DEF Gives, KeptStays
<1>4. /\ InTurn(n, q)' /\ InStep(n, q)'
      /\ Forward(n, q) = << >> /\ Forward(n, q)' = << >>
      /\ Back(q, n) = << >> /\ Back(q, n)' = << >>
  BY <1>1, SendingSide DEF KeptStays
<1>5. InTurn(q, n) /\ InStep(q, n)
  BY DEF HsInv, Link
<1>6. /\ Asks(q, n) /\ ~Streams(q, n) /\ Engaged(n, q) /\ ~Hears(n, q)
      /\ Kept(n, q) = NoHeader
  BY <1>1, <1>5 DEF InTurn, Asks, Streams, Hears, Engaged, Busy
<1>7. /\ Asks(q, n)' /\ ~Streams(q, n)' /\ Hears(n, q)' /\ Engaged(n, q)'
      /\ ~Busy(n, q, {"clear"})' /\ Kept(n, q)' = NoHeader
      /\ Place(q)' = Place(q)
  <2>1. Stage(q)' = Stage(q) /\ Place(q)' = Place(q) /\ Now(q)' = Now(q)
    BY <1>1 DEF OthersStay, Place, Now
  <2> QED BY <1>1, <1>6, <2>1 DEF Asks, Streams, Hears, Engaged, Busy, KeptStays
<1>8. InTurn(q, n)'
  <2>1. Moved(n)' = << >> /\ << >> = Units(q, Place(q)', Len(<< >>))
    BY <1>1, <1>2 DEF Units
  <2> QED BY <1>7, <2>1 DEF InTurn
<1>9. InStep(q, n)'
  BY <1>1, <1>5, <1>6, <1>7 DEF InStep
<1>10. /\ Forward(q, n) = << >> /\ Forward(q, n)' = << >>
       /\ Back(n, q) = << >> /\ Back(n, q)' = <<Answer("CLEAR_TO_SEND", n, q, Place(q))>>
  BY <1>6, <1>7 DEF Forward, Back
<1>11. OnItsWay(n, q)' /\ OnItsWay(q, n)'
  <2> DEFINE x == Answer("CLEAR_TO_SEND", n, q, Place(q))
  <2>1. x \in Packet
    <3>1. Place(q) \in 1 .. Len(Program[q])
      BY <1>6, PositionOf DEF Asks, Busy
    <3> QED BY <3>1, PacketTypes DEF HeaderTypes
  <2>2. Way(n, q) = << >> \o << >> /\ Way(q, n) = << >> \o << >>
    BY <1>4, <1>10, WayTypes
  <2>3. Way(n, q)' = Append(Way(n, q), x) /\ Way(q, n)' = Way(q, n)
    BY DEF Gives
  <2> HIDE DEF x
  <2>4. Append(<< >> \o << >>, x) = <<x>> \o << >>
    BY <2>1, Chained
  <2> QED BY <1>4, <1>10, <2>2, <2>3, <2>4 DEF OnItsWay, x
<1>12. Link(n, q)' /\ Link(q, n)'
  BY <1>4, <1>8, <1>9, <1>11 DEF Link
<1> QED BY <1>1, <1>2, <1>3, <1>12, Together

(* One more unit of a message.                                             *)
LEMMA UnitsGrow ==
  ASSUME NEW s \in Nat, NEW m \in Nat, NEW k \in Nat
  PROVE  /\ Units(s, m, k) \in Seq(Unit) /\ Len(Units(s, m, k)) = k
         /\ Append(Units(s, m, k), <<s, m, k + 1>>) = Units(s, m, k + 1)
<1>1. \A j \in Nat : Units(s, m, j) \in Seq(Unit) /\ Len(Units(s, m, j)) = j
        /\ \A i \in 1 .. j : Units(s, m, j)[i] = <<s, m, i>>
  BY DEF Units, Unit
<1> DEFINE u == Units(s, m, k)
           v == Units(s, m, k + 1)
           w == Append(u, <<s, m, k + 1>>)
<1>2. /\ u \in Seq(Unit) /\ Len(u) = k /\ \A i \in 1 .. k : u[i] = <<s, m, i>>
      /\ v \in Seq(Unit) /\ Len(v) = k + 1 /\ \A i \in 1 .. k + 1 : v[i] = <<s, m, i>>
  BY <1>1
<1>3. <<s, m, k + 1>> \in Unit
  BY DEF Unit
<1> HIDE DEF u, v
<1>4. /\ w \in Seq(Unit) /\ Len(w) = k + 1 /\ w[k + 1] = <<s, m, k + 1>>
      /\ \A i \in 1 .. k : w[i] = u[i]
  BY <1>2, <1>3, AppendOf
<1> HIDE DEF w
<1>5. ASSUME NEW i \in 1 .. Len(w) PROVE w[i] = v[i]
  <2>1. i \in 1 .. k \/ i = k + 1
    BY <1>4
  <2> QED BY <1>2, <1>4, <2>1
<1>6. w = v
  BY <1>2, <1>4, <1>5, SeqEqual
<1> QED BY <1>2, <1>6 DEF u, v, w

(* The sender hears that he may send.                                      *)
LEMMA HearClearKeepsInv ==
  ASSUME HsInv, NEW n \in Rank, NEW q \in Rank, n # q, HearClear(n, q)
  PROVE  HsInv'
<1> USE DEF HearClear, GoesOn
<1>1. /\ OthersStay(n) /\ Stage(n) = "asked" /\ Stage(n)' = "sending"
      /\ Moved(n)' = Moved(n)
      /\ Result(n)' = Result(n) /\ Place(n)' = Place(n) /\ Now(n)' = Now(n)
      /\ Now(n).peer = q
  BY DEF Place, Now
<1>2. Fine(n)' /\ Own(n)' /\ RightSoFar(n)' /\ Moved(n) = << >>
  <2>1. Fine(n) /\ Own(n) /\ RightSoFar(n)
    BY DEF HsInv
  <2>2. Moved(n) = << >> /\ Len(<< >>) = 0 /\ << >> = Units(n, Place(n), 0)
    BY <1>1, <2>1 DEF Own, Units
  <2>3. Now(n).count \in Nat
    <3>1. Place(n) \in 1 .. Len(Program[n])
      BY <1>1, PositionOf
    <3> QED BY <3>1, CallType DEF Now
  <2> QED BY <1>1, <2>1, <2>2, <2>3 DEF Fine, Stages, Own, RightSoFar
<1>3. ASSUME NEW s \in Rank, NEW d \in Rank, s # d, ~(s = n /\ d = q), ~(s = q /\ d = n)
      PROVE  Link(s, d)'
  BY <1>1, <1>3, OtherLinks DEF Takes, KeptStays
<1>4. /\ InTurn(q, n)' /\ InStep(q, n)'
      /\ Forward(q, n)' = Forward(q, n) /\ Back(n, q)' = Back(n, q)
  BY <1>1, ReceivingSide DEF KeptStays
<1>5. InTurn(n, q) /\ InStep(n, q)
  BY DEF HsInv, Link
<1>6. Asks(n, q) /\ Hears(q, n) /\ Tail(Way(q, n)) = Forward(q, n)
  BY <1>1, Arrival DEF Comes, Streams, Busy
<1>7. /\ ~Streams(n, q) /\ Engaged(q, n) /\ Kept(q, n) = NoHeader /\ Moved(q) = << >>
      /\ Moved(q) = Units(n, Place(n), Len(Moved(q)))
  BY <1>1, <1>5, <1>6 DEF InTurn, Asks, Streams, Hears, Engaged, Busy
<1>8. /\ ~Asks(n, q)' /\ Streams(n, q)' /\ Hears(q, n)' /\ Engaged(q, n)'
      /\ ~Busy(q, n, {"clear"})' /\ Kept(q, n)' = NoHeader
      /\ Place(q)' = Place(q) /\ Moved(q)' = << >>
  <2>1. Stage(q)' = Stage(q) /\ Place(q)' = Place(q) /\ Now(q)' = Now(q) /\ Moved(q)' = Moved(q)
    BY <1>1 DEF OthersStay, Place, Now
  <2> QED BY <1>1, <1>6, <1>7, <2>1 DEF Asks, Streams, Hears, Engaged, Busy, KeptStays
<1>9. InTurn(n, q)'
  BY <1>1, <1>2, <1>7, <1>8 DEF InTurn
<1>10. InStep(n, q)'
  BY <1>1, <1>5, <1>6, <1>7, <1>8 DEF InStep
<1>11. /\ Forward(n, q) = << >> /\ Forward(n, q)' = << >> /\ Back(q, n)' = << >>
  <2>1. Parts(n, Place(n), 0, 0) = << >>
    <3>1. Place(n) \in 1 .. Len(Program[n])
      BY <1>1, PositionOf
    <3> QED BY <3>1, PartsChange
  <2>2. Len(<< >>) = 0
    OBVIOUS
  <2> QED BY <1>1, <1>2, <1>6, <1>7, <1>8, <2>1, <2>2 DEF Forward, Back
<1>12. OnItsWay(n, q)' /\ OnItsWay(q, n)'
  <2>1. Way(n, q)' = Way(n, q) /\ Way(q, n)' = Forward(q, n)
    BY <1>6 DEF Takes
  <2>2. Way(n, q) = Back(n, q) \o Forward(n, q) /\ Forward(q, n) \in Seq(Packet)
    BY WayTypes
  <2>3. << >> \o Forward(q, n) = Forward(q, n)
    BY <2>2, ConcatEmptySeq
  <2> QED BY <1>4, <1>11, <2>1, <2>2, <2>3 DEF OnItsWay
<1>13. Link(n, q)' /\ Link(q, n)'
  BY <1>4, <1>9, <1>10, <1>12 DEF Link
<1> QED BY <1>1, <1>2, <1>3, <1>13, Together

(* A packet joins the end of what is on its way.                           *)
LEMMA AppendChain ==
  ASSUME NEW b \in Seq(Packet), NEW f \in Seq(Packet), NEW x \in Packet
  PROVE  Append(b \o f, x) = b \o Append(f, x)
BY Chained

(* One more unit of a message joins those on their way.                    *)
LEMMA PartsGrow ==
  ASSUME NEW s \in Rank, NEW m \in 1 .. Len(Program[s]), NEW a \in Nat, NEW b \in Nat,
         a <= b
  PROVE  Parts(s, m, a, b + 1) = Append(Parts(s, m, a, b), Part(s, m, b + 1))
BY PartsChange

(* The sender writes the next unit.                                        *)
LEMMA SendPartKeepsInv ==
  ASSUME HsInv, NEW n \in Rank, NEW q \in Rank, n # q, SendPart(n, q)
  PROVE  HsInv'
<1> DEFINE a == Len(Moved(q))
           b == Len(Moved(n))
           unit == <<n, Place(n), b + 1>>
<1>1. /\ OthersStay(n) /\ Stage(n) = "sending" /\ Stage(n)' = "sending"
      /\ Moved(n)' = Append(Moved(n), unit) /\ b < Now(n).count
      /\ Result(n)' = Result(n) /\ Place(n)' = Place(n) /\ Now(n)' = Now(n)
      /\ Now(n).peer = q
  BY DEF SendPart, Transfers, Place, Now
<1>2. /\ Place(n) \in 1 .. Len(Program[n]) /\ n \in Nat /\ Place(n) \in Nat
      /\ Moved(n) \in Seq(Unit) /\ Moved(q) \in Seq(Unit) /\ a \in Nat /\ b \in Nat
      /\ Now(n).count \in Nat
  <2>1. /\ Place(n) \in 1 .. Len(Program[n]) /\ Place(n) \in Nat
        /\ Moved(n) \in Seq(Unit) /\ Moved(q) \in Seq(Unit)
    BY <1>1, PositionOf
  <2> QED BY <2>1, CallType DEF Now
<1>3. Fine(n)' /\ Own(n)' /\ RightSoFar(n)' /\ Len(Moved(n)') = b + 1
  <2>1. Fine(n) /\ Own(n) /\ RightSoFar(n)
    BY DEF HsInv
  <2>2. unit \in Unit
    BY <1>2 DEF Unit
  <2>3. Append(Moved(n), unit) \in Seq(Unit) /\ Len(Append(Moved(n), unit)) = b + 1
    BY <1>2, <2>2, AppendOf
  <2>4. Append(Moved(n), unit) = Units(n, Place(n), b + 1)
    <3>1. Moved(n) = Units(n, Place(n), b)
      BY <1>1, <2>1 DEF Own
    <3> HIDE DEF b
    <3>2. Append(Units(n, Place(n), b), <<n, Place(n), b + 1>>) = Units(n, Place(n), b + 1)
      BY <1>2, UnitsGrow, Zenon
    <3> QED BY <3>1, <3>2, Zenon
  <2>5. b + 1 <= Now(n).count
    BY <1>1, <1>2
  <2> HIDE DEF a, b, unit
  <2>6. Own(n)'
    BY <1>1, <2>1, <2>3, <2>4, <2>5 DEF Own
  <2>7. Fine(n)' /\ RightSoFar(n)'
    BY <1>1, <2>1, <2>3 DEF Fine, RightSoFar
  <2> QED BY <1>1, <2>3, <2>6, <2>7
<1>4. ASSUME NEW s \in Rank, NEW d \in Rank, s # d, ~(s = n /\ d = q), ~(s = q /\ d = n)
      PROVE  Link(s, d)'
  BY <1>1, <1>4, OtherLinks DEF SendPart, Gives, KeptStays
<1>5. /\ InTurn(q, n)' /\ InStep(q, n)'
      /\ Forward(q, n)' = Forward(q, n) /\ Back(n, q)' = Back(n, q)
  BY <1>1, ReceivingSide DEF SendPart, KeptStays
<1>6. InTurn(n, q) /\ InStep(n, q)
  BY DEF HsInv, Link
<1>7. /\ ~Asks(n, q) /\ Streams(n, q) /\ Hears(q, n) /\ Engaged(q, n)
      /\ ~Busy(q, n, {"clear"}) /\ Kept(q, n) = NoHeader /\ a <= b
      /\ Moved(q) = Units(n, Place(n), a)
  <2>1. ~Asks(n, q) /\ Streams(n, q)
    BY <1>1 DEF Asks, Streams, Busy
  <2>2. Hears(q, n)
    BY <1>1, <1>2, <1>6, <2>1 DEF InTurn
  <2> QED BY <1>6, <2>1, <2>2 DEF InTurn, Hears, Engaged, Busy
<1>8. /\ ~Asks(n, q)' /\ Streams(n, q)' /\ Hears(q, n)' /\ Engaged(q, n)'
      /\ ~Busy(q, n, {"clear"})' /\ Kept(q, n)' = NoHeader
      /\ Place(q)' = Place(q) /\ Moved(q)' = Moved(q)
  <2>1. Stage(q)' = Stage(q) /\ Place(q)' = Place(q) /\ Now(q)' = Now(q) /\ Moved(q)' = Moved(q)
    BY <1>1 DEF OthersStay, Place, Now
  <2> QED BY <1>1, <1>7, <2>1 DEF Asks, Streams, Hears, Engaged, Busy, SendPart, KeptStays
<1>9. InTurn(n, q)'
  <2>1. a <= b + 1
    BY <1>2, <1>7
  <2> QED BY <1>1, <1>3, <1>7, <1>8, <2>1 DEF InTurn
<1>10. InStep(n, q)'
  BY <1>1, <1>6, <1>7, <1>8 DEF InStep
<1>11. /\ Forward(n, q) = Parts(n, Place(n), a, b)
       /\ Forward(n, q)' = Parts(n, Place(n), a, b + 1)
       /\ Back(q, n) = << >> /\ Back(q, n)' = << >>
  <2> HIDE DEF unit
  <2> QED BY <1>1, <1>3, <1>7, <1>8 DEF Forward, Back
<1>12. OnItsWay(n, q)' /\ OnItsWay(q, n)'
  <2> DEFINE x == Part(n, Place(n), b + 1)
             f == Parts(n, Place(n), a, b)
  <2>1. /\ Way(n, q) = Back(n, q) \o f /\ Back(n, q) \in Seq(Packet) /\ f \in Seq(Packet)
        /\ Way(q, n) = Back(q, n) \o Forward(q, n)
    BY <1>11, WayTypes
  <2>2. x \in Packet
    BY <1>2, PacketTypes
  <2>3. Parts(n, Place(n), a, b + 1) = Append(f, x)
    <3> HIDE DEF a, b
    <3> QED BY <1>2, <1>7, PartsGrow
  <2>4. Way(n, q)' = Append(Way(n, q), x) /\ Way(q, n)' = Way(q, n)
    BY DEF SendPart, Gives
  <2> HIDE DEF x, f
  <2>5. Append(Back(n, q) \o f, x) = Back(n, q) \o Append(f, x)
    BY <2>1, <2>2, AppendChain
  <2> QED BY <1>5, <1>11, <2>1, <2>3, <2>4, <2>5 DEF OnItsWay
<1>13. Link(n, q)' /\ Link(q, n)'
  BY <1>5, <1>9, <1>10, <1>12 DEF Link
<1> QED BY <1>1, <1>3, <1>4, <1>13, Together

(* The receiver takes the next unit.                                       *)
LEMMA HearPartKeepsInv ==
  ASSUME HsInv, NEW n \in Rank, NEW q \in Rank, n # q, HearPart(n, q)
  PROVE  HsInv'
<1> DEFINE a == Len(Moved(n))
           b == Len(Moved(q))
           unit == <<q, Place(q), a + 1>>
<1>1. /\ OthersStay(n) /\ Stage(n) = "receiving" /\ Stage(n)' = "receiving"
      /\ Moved(n)' = Append(Moved(n), Head(Way(q, n)).unit)
      /\ Result(n)' = Result(n) /\ Place(n)' = Place(n) /\ Now(n)' = Now(n)
      /\ Now(n).peer = q
  BY DEF HearPart, Transfers, Place, Now
<1>2. /\ Head(Way(q, n)) = Part(q, Place(q), a + 1) /\ Streams(q, n) /\ Hears(n, q) /\ a < b
      /\ Tail(Way(q, n)) = Parts(q, Place(q), a + 1, b) /\ Back(n, q) = << >>
      /\ Back(q, n) = << >>
  <2>1. Stage(n) # "asked" /\ Stage(n) # "sending"
    BY <1>1
  <2>2. ~Asks(n, q) /\ ~Streams(n, q)
    BY <2>1 DEF Asks, Streams, Busy
  <2>3. Way(q, n) # << >> /\ Head(Way(q, n)).type \in {"DATA", "CONT"}
    BY DEF HearPart, Comes
  <2>4. /\ Head(Way(q, n)) = Part(q, Place(q), a + 1) /\ Streams(q, n) /\ Hears(n, q) /\ a < b
        /\ Tail(Way(q, n)) = Parts(q, Place(q), a + 1, b)
    BY <2>2, <2>3, Arrival
  <2>5. Back(n, q) = << >>
    BY <2>4 DEF Back, Asks, Streams, Busy
  <2>6. Back(q, n) = << >>
    BY <2>2 DEF Back
  <2> QED BY <2>4, <2>5, <2>6
<1>3. /\ Place(q) \in 1 .. Len(Program[q]) /\ q \in Nat /\ Place(q) \in Nat
      /\ Moved(n) \in Seq(Unit) /\ Moved(q) \in Seq(Unit) /\ a \in Nat /\ b \in Nat
  <2>1. /\ Place(q) \in 1 .. Len(Program[q]) /\ Moved(n) \in Seq(Unit) /\ Moved(q) \in Seq(Unit)
    BY <1>2, PositionOf DEF Streams, Busy
  <2> QED BY <2>1, CallType
<1>4. Head(Way(q, n)).unit = unit
  <2>1. Part(q, Place(q), a + 1).unit = unit
    BY DEF Part, DataPacket, ContPacket
  <2> QED BY <1>2, <2>1
<1>5. Fine(n)' /\ Own(n)' /\ RightSoFar(n)' /\ Len(Moved(n)') = a + 1
  <2>1. Fine(n) /\ Own(n) /\ RightSoFar(n)
    BY DEF HsInv
  <2>2. unit \in Unit
    BY <1>3 DEF Unit
  <2> HIDE DEF a, b, unit
  <2>3. Append(Moved(n), unit) \in Seq(Unit) /\ Len(Append(Moved(n), unit)) = a + 1
    BY <1>3, <2>2, AppendOf DEF a
  <2> QED BY <1>1, <1>4, <2>1, <2>3 DEF Own, Fine, RightSoFar
<1>6. ASSUME NEW s \in Rank, NEW d \in Rank, s # d, ~(s = n /\ d = q), ~(s = q /\ d = n)
      PROVE  Link(s, d)'
  BY <1>1, <1>6, OtherLinks DEF HearPart, Takes, KeptStays
<1>7. /\ InTurn(n, q)' /\ InStep(n, q)'
      /\ Forward(n, q) = << >> /\ Forward(n, q)' = << >>
      /\ Back(q, n) = << >> /\ Back(q, n)' = << >>
  BY <1>1, SendingSide DEF HearPart, KeptStays
<1>8. InTurn(q, n) /\ InStep(q, n)
  BY DEF HsInv, Link
<1>9. /\ ~Asks(q, n) /\ Engaged(n, q) /\ ~Busy(n, q, {"clear"})
      /\ Kept(n, q) = NoHeader /\ Moved(n) = Units(q, Place(q), a)
  BY <1>2, <1>8 DEF InTurn, Asks, Streams, Hears, Engaged, Busy
<1>10. /\ ~Asks(q, n)' /\ Streams(q, n)' /\ Hears(n, q)' /\ Engaged(n, q)'
       /\ ~Busy(n, q, {"clear"})' /\ Kept(n, q)' = NoHeader
       /\ Place(q)' = Place(q) /\ Moved(q)' = Moved(q)
  <2>1. Stage(q)' = Stage(q) /\ Place(q)' = Place(q) /\ Now(q)' = Now(q) /\ Moved(q)' = Moved(q)
    BY <1>1 DEF OthersStay, Place, Now
  <2> QED BY <1>1, <1>2, <1>9, <2>1
          DEF Asks, Streams, Hears, Engaged, Busy, HearPart, KeptStays
<1>11. InTurn(q, n)'
  <2>1. a + 1 <= b
    BY <1>2, <1>3
  <2>2. Moved(n)' = Units(q, Place(q), a + 1)
    <3>1. Append(Units(q, Place(q), a), <<q, Place(q), a + 1>>) = Units(q, Place(q), a + 1)
      <4> HIDE DEF a
      <4> QED BY <1>3, UnitsGrow, Zenon
    <3> QED BY <1>1, <1>4, <1>9, <3>1, Zenon
  <2> HIDE DEF a, b, unit
  <2>3. Len(Moved(q)') = b
    BY <1>10 DEF b
  <2> QED BY <1>5, <1>10, <2>1, <2>2, <2>3 DEF InTurn
<1>12. InStep(q, n)'
  BY <1>1, <1>2, <1>8, <1>10 DEF InStep
<1>13. Forward(q, n)' = Parts(q, Place(q), a + 1, b) /\ Back(n, q)' = << >>
  <2> HIDE DEF unit
  <2> QED BY <1>5, <1>10 DEF Forward, Back
<1>14. OnItsWay(n, q)' /\ OnItsWay(q, n)'
  <2>1. /\ Way(n, q)' = Way(n, q) /\ Way(n, q) = << >> \o << >>
        /\ Way(q, n)' = Parts(q, Place(q), a + 1, b)
    BY <1>2, <1>7, WayTypes DEF HearPart, Takes
  <2>2. Parts(q, Place(q), a + 1, b) \in Seq(Packet)
    <3>1. a + 1 \in Nat /\ a + 1 <= b
      BY <1>2, <1>3
    <3> HIDE DEF a, b
    <3> QED BY <1>3, <3>1, PartsChange
  <2>3. << >> \o Parts(q, Place(q), a + 1, b) = Parts(q, Place(q), a + 1, b)
    BY <2>2, ConcatEmptySeq
  <2> HIDE DEF a, b, unit
  <2> QED BY <1>7, <1>13, <2>1, <2>3 DEF OnItsWay
<1>15. Link(n, q)' /\ Link(q, n)'
  BY <1>7, <1>11, <1>12, <1>14 DEF Link
<1> QED BY <1>1, <1>5, <1>6, <1>15, Together

(* What one more call of rank n does to its results.                       *)
LEMMA CompletesOf ==
  ASSUME HsInv, NEW n \in Rank, NEW data \in Seq(Unit), Completes(n, data),
         Stage(n) # "out", data = Expected(n, Place(n))
  PROVE  /\ Fine(n)' /\ Own(n)' /\ RightSoFar(n)'
         /\ Place(n)' = Place(n) + 1 /\ Stage(n)' = "out" /\ OthersStay(n)
<1>1. Fine(n) /\ Own(n) /\ RightSoFar(n) /\ Result(n) \in Seq(Seq(Unit))
  BY DEF HsInv, Fine
<1>2. /\ Stage(n)' = "out" /\ Moved(n)' = << >> /\ Result(n)' = Append(Result(n), data)
      /\ OthersStay(n)
  BY DEF Completes
<1>3. /\ Append(Result(n), data) \in Seq(Seq(Unit))
      /\ Len(Append(Result(n), data)) = Len(Result(n)) + 1 /\ Len(Result(n)) \in Nat
      /\ \A k \in 1 .. Len(Result(n)) : Append(Result(n), data)[k] = Result(n)[k]
      /\ Append(Result(n), data)[Len(Result(n)) + 1] = data
  BY <1>1, AppendOf
<1>4. Place(n)' = Place(n) + 1
  BY <1>2, <1>3 DEF Place
<1>5. Fine(n)' /\ Own(n)'
  BY <1>2, <1>3 DEF Fine, Own, Stages
<1>6. RightSoFar(n)'
  <2> DEFINE r == Append(Result(n), data)
  <2>1. ASSUME NEW k \in 1 .. Len(Result(n)) + 1 PROVE r[k] = Expected(n, k)
    <3>1. k \in 1 .. Len(Result(n)) \/ k = Place(n)
      BY <1>3 DEF Place
    <3> QED BY <1>1, <1>3, <3>1 DEF RightSoFar, Place
  <2>2. Result(n)' = r /\ Len(r) = Len(Result(n)) + 1
    BY <1>2, <1>3
  <2> HIDE DEF r
  <2> QED BY <2>1, <2>2 DEF RightSoFar
<1> QED BY <1>2, <1>4, <1>5, <1>6

(* The receiver has all units: it acknowledges them, and its call is       *)
(* complete.                                                               *)
LEMMA AcknowledgeKeepsInv ==
  ASSUME HsInv, WellPaired, NEW n \in Rank, NEW q \in Rank, n # q, Acknowledge(n, q)
  PROVE  HsInv'
<1> DEFINE a == Len(Moved(n))
           b == Len(Moved(q))
           c == Now(q).count
<1>1. /\ Completes(n, Moved(n)) /\ OthersStay(n) /\ Stage(n) = "receiving"
      /\ Now(n).peer = q /\ a = Now(n).count
  BY DEF Acknowledge, Completes
<1>2. Engaged(n, q) /\ Hears(n, q)
  BY <1>1 DEF Engaged, Hears, Busy
<1>3. InTurn(q, n) /\ InStep(q, n)
  BY DEF HsInv, Link
<1>4. /\ Place(q) \in Sends(q, n) /\ Place(n) \in Recvs(n, q)
      /\ MatchingSend(n, Place(n)) = Place(q) /\ a = c
      /\ Asks(q, n) \/ Streams(q, n)
  BY <1>1, <1>2, Partners
<1>5. /\ Place(q) \in 1 .. Len(Program[q]) /\ Place(n) \in 1 .. Len(Program[n])
      /\ Place(n) \in Nat
      /\ c \in Nat \ {0} /\ Moved(n) \in Seq(Unit) /\ Moved(q) \in Seq(Unit)
      /\ a \in Nat /\ b \in Nat
  <2>1. Place(q) \in 1 .. Len(Program[q]) /\ Place(n) \in 1 .. Len(Program[n])
    BY <1>4, CallsFinite
  <2>2. Moved(n) \in Seq(Unit) /\ Moved(q) \in Seq(Unit)
    BY PositionOf
  <2> QED BY <2>1, <2>2, CallType DEF Now
<1>6. Streams(q, n) /\ ~Asks(q, n) /\ b = c
  <2>1. Asks(q, n) => a = 0
    <3>1. Len(<< >>) = 0
      OBVIOUS
    <3> QED BY <1>2, <1>3, <3>1 DEF InTurn
  <2>2. Streams(q, n) /\ ~Asks(q, n)
    BY <1>4, <1>5, <2>1 DEF Streams, Asks, Busy
  <2>3. a <= b
    BY <1>2, <1>3, <2>2 DEF InTurn
  <2>4. b <= c
    BY <2>2 DEF HsInv, Own, Streams, Busy
  <2> QED BY <1>4, <1>5, <2>2, <2>3, <2>4
<1>7. Moved(n) = Expected(n, Place(n))
  <2>1. Now(n).call \in RecvCalls
    BY <1>1 DEF HsInv, Own
  <2>2. Moved(n) = Units(q, Place(q), c)
    BY <1>2, <1>3, <1>4 DEF InTurn
  <2>3. Moved(n) = Payload(q, Place(q))
    BY <2>2 DEF Units, Payload, Now
  <2>4. Program[n][Place(n)].call \notin SendCalls
    BY <2>1 DEF Now, SendCalls, RecvCalls
  <2>5. Program[n][Place(n)].peer = q
    BY <1>1 DEF Now
  <2> QED BY <1>4, <2>3, <2>4, <2>5 DEF Expected
<1>8. /\ Fine(n)' /\ Own(n)' /\ RightSoFar(n)'
      /\ Place(n)' = Place(n) + 1 /\ Stage(n)' = "out"
  BY <1>1, <1>5, <1>7, CompletesOf
<1>9. ASSUME NEW s \in Rank, NEW d \in Rank, s # d, ~(s = n /\ d = q), ~(s = q /\ d = n)
      PROVE  Link(s, d)'
  BY <1>1, <1>5, <1>8, <1>9, OtherLinks DEF Acknowledge, Gives, KeptStays
<1>10. /\ InTurn(n, q)' /\ InStep(n, q)'
       /\ Forward(n, q) = << >> /\ Forward(n, q)' = << >>
       /\ Back(q, n) = << >> /\ Back(q, n)' = << >>
  BY <1>1, <1>4, <1>8, SendingSide DEF Acknowledge, KeptStays
<1>11. /\ ~Asks(q, n)' /\ Streams(q, n)' /\ ~Hears(n, q)' /\ ~Engaged(n, q)'
       /\ ~Busy(n, q, {"clear"})' /\ Kept(n, q)' = NoHeader
       /\ Place(q)' = Place(q) /\ Moved(q)' = Moved(q) /\ Now(q)' = Now(q)
  <2>1. Stage(q)' = Stage(q) /\ Place(q)' = Place(q) /\ Now(q)' = Now(q) /\ Moved(q)' = Moved(q)
    BY <1>1 DEF OthersStay, Place, Now
  <2>2. Kept(n, q) = NoHeader
    BY <1>3, <1>6 DEF InTurn
  <2> QED BY <1>6, <1>8, <2>1, <2>2
          DEF Asks, Streams, Hears, Engaged, Busy, Acknowledge, KeptStays
<1>12. InTurn(q, n)'
  BY <1>6, <1>11 DEF InTurn
<1>13. InStep(q, n)'
  <2>1. Recvs(n, q) \in SUBSET Nat /\ IsFiniteSet(Recvs(n, q))
        /\ Sends(q, n) \in SUBSET Nat /\ IsFiniteSet(Sends(q, n))
    BY CallsFinite
  <2>2. Done(Recvs(n, q), Place(n) + 1) = Done(Recvs(n, q), Place(n)) + 1
        /\ Done(Recvs(n, q), Place(n)) \in Nat
    BY <1>4, <1>5, <2>1, OrdinalCounts
  <2>3. Done(Sends(q, n), Place(q)) \in Nat
    BY <2>1, PositionOf, OrdinalCounts
  <2> QED BY <1>2, <1>3, <1>6, <1>8, <1>11, <2>2, <2>3 DEF InStep
<1>14. /\ Forward(q, n) = << >> /\ Forward(q, n)' = << >>
       /\ Back(n, q) = << >> /\ Back(n, q)' = <<Answer("ACK", n, q, Place(q))>>
  <2>1. Parts(q, Place(q), a, a) = << >>
    <3> HIDE DEF a
    <3> QED BY <1>5, PartsChange
  <2>2. Forward(q, n) = Parts(q, Place(q), a, b)
    BY <1>2, <1>6 DEF Forward
  <2>3. a = b
    BY <1>4, <1>6
  <2> HIDE DEF a, b, c
  <2>4. Back(n, q) = << >>
    BY <1>2, <1>6 DEF Back
  <2>5. Forward(q, n)' = << >> /\ Back(n, q)' = <<Answer("ACK", n, q, Place(q))>>
    BY <1>11 DEF Forward, Back
  <2> QED BY <2>1, <2>2, <2>3, <2>4, <2>5
<1>15. OnItsWay(n, q)' /\ OnItsWay(q, n)'
  <2> DEFINE x == Answer("ACK", n, q, Place(q))
  <2>1. x \in Packet
    BY <1>5, PacketTypes DEF HeaderTypes
  <2>2. Way(n, q) = << >> \o << >> /\ Way(q, n) = << >> \o << >>
    BY <1>10, <1>14, WayTypes
  <2>3. Way(n, q)' = Append(Way(n, q), x) /\ Way(q, n)' = Way(q, n)
    BY DEF Acknowledge, Gives
  <2> HIDE DEF x
  <2>4. Append(<< >> \o << >>, x) = <<x>> \o << >>
    BY <2>1, Chained
  <2> QED BY <1>10, <1>14, <2>2, <2>3, <2>4 DEF OnItsWay, x
<1>16. Link(n, q)' /\ Link(q, n)'
  BY <1>10, <1>12, <1>13, <1>15 DEF Link
<1> QED BY <1>1, <1>8, <1>9, <1>16, Together

(* The sender hears the acknowledgement: its call is complete.             *)
LEMMA HearAckKeepsInv ==
  ASSUME HsInv, NEW n \in Rank, NEW q \in Rank, n # q, HearAck(n, q)
  PROVE  HsInv'
<1>1. /\ Completes(n, << >>) /\ OthersStay(n) /\ Stage(n) = "sending"
      /\ Now(n).peer = q
  BY DEF HearAck, Completes
<1>2. /\ Place(n) \in 1 .. Len(Program[n]) /\ Place(n) \in Sends(n, q) /\ Place(n) \in Nat
  BY <1>1, PositionOf
<1>3. << >> \in Seq(Unit) /\ << >> = Expected(n, Place(n))
  <2>1. Program[n][Place(n)].call \in SendCalls
    BY <1>1 DEF HsInv, Own, Now
  <2> QED BY <2>1 DEF Expected
<1>4. /\ Fine(n)' /\ Own(n)' /\ RightSoFar(n)'
      /\ Place(n)' = Place(n) + 1 /\ Stage(n)' = "out"
  BY <1>1, <1>3, CompletesOf
<1>5. ASSUME NEW s \in Rank, NEW d \in Rank, s # d, ~(s = n /\ d = q), ~(s = q /\ d = n)
      PROVE  Link(s, d)'
  BY <1>1, <1>2, <1>4, <1>5, OtherLinks DEF HearAck, Takes, KeptStays
<1>6. /\ InTurn(q, n)' /\ InStep(q, n)'
      /\ Forward(q, n)' = Forward(q, n) /\ Back(n, q)' = Back(n, q)
  BY <1>1, <1>2, <1>4, ReceivingSide DEF HearAck, KeptStays
<1>7. InTurn(n, q) /\ InStep(n, q)
  BY DEF HsInv, Link
<1>8. Streams(n, q) /\ ~Hears(q, n) /\ Tail(Way(q, n)) = Forward(q, n)
  <2>1. Way(q, n) # << >> /\ Head(Way(q, n)).type = "ACK"
    BY DEF HearAck, Comes
  <2> QED BY <2>1, Arrival
<1>9. /\ ~Asks(n, q) /\ ~Engaged(q, n) /\ Kept(q, n) = NoHeader
  BY <1>7, <1>8 DEF InTurn, Asks, Streams, Hears, Engaged, Busy
<1>10. /\ ~Asks(n, q)' /\ ~Streams(n, q)' /\ ~Hears(q, n)' /\ ~Engaged(q, n)'
       /\ Kept(q, n)' = NoHeader /\ Place(q)' = Place(q)
  <2>1. Stage(q)' = Stage(q) /\ Place(q)' = Place(q) /\ Now(q)' = Now(q)
    BY <1>1 DEF OthersStay, Place, Now
  <2> QED BY <1>4, <1>8, <1>9, <2>1 DEF Asks, Streams, Hears, Engaged, Busy, HearAck, KeptStays
<1>11. InTurn(n, q)'
  BY <1>10 DEF InTurn
<1>12. InStep(n, q)'
  <2>1. Recvs(q, n) \in SUBSET Nat /\ IsFiniteSet(Recvs(q, n))
        /\ Sends(n, q) \in SUBSET Nat /\ IsFiniteSet(Sends(n, q))
    BY CallsFinite
  <2>2. Done(Sends(n, q), Place(n) + 1) = Done(Sends(n, q), Place(n)) + 1
        /\ Done(Sends(n, q), Place(n)) \in Nat
    BY <1>2, <2>1, OrdinalCounts
  <2> QED BY <1>4, <1>7, <1>8, <1>10, <2>2 DEF InStep
<1>13. Forward(n, q) = << >> /\ Forward(n, q)' = << >> /\ Back(q, n)' = << >>
  BY <1>8, <1>9, <1>10 DEF Forward, Back
<1>14. OnItsWay(n, q)' /\ OnItsWay(q, n)'
  <2>1. Way(n, q)' = Way(n, q) /\ Way(q, n)' = Forward(q, n)
    BY <1>8 DEF HearAck, Takes
  <2>2. Way(n, q) = Back(n, q) \o Forward(n, q) /\ Forward(q, n) \in Seq(Packet)
    BY WayTypes
  <2>3. << >> \o Forward(q, n) = Forward(q, n)
    BY <2>2, ConcatEmptySeq
  <2> QED BY <1>6, <1>13, <2>1, <2>2, <2>3 DEF OnItsWay
<1>15. Link(n, q)' /\ Link(q, n)'
  BY <1>6, <1>11, <1>12, <1>14 DEF Link
<1> QED BY <1>1, <1>4, <1>5, <1>15, Together

(* Every step of the protocol keeps the invariant.                         *)
LEMMA HsStepKeepsInv ==
  ASSUME HsInv, WellPaired, NEW n \in Rank, NEW q \in Rank, n # q, HsStep(n, q)
  PROVE  HsInv'
<1>1. HearRequest(n, q) \/ FindRequest(n, q) => HsInv'
  BY AcceptKeepsInv DEF HearRequest, FindRequest
<1> QED BY <1>1, AskKeepsInv, KeepKeepsInv, ClearKeepsInv, HearClearKeepsInv,
           SendPartKeepsInv, HearPartKeepsInv, AcknowledgeKeepsInv, HearAckKeepsInv
        DEF HsStep

(* A step that is none of the protocol.                                    *)
LEMMA HsStaysKeepsInv ==
  ASSUME HsInv, HsStays
  PROVE  HsInv'
<1>1. ASSUME NEW n \in Rank
      PROVE  /\ Stage(n)' = Stage(n) /\ Moved(n)' = Moved(n) /\ Result(n)' = Result(n)
             /\ Place(n)' = Place(n) /\ Now(n)' = Now(n)
  BY DEF HsStays, Place, Now
<1>2. ASSUME NEW n \in Rank PROVE Fine(n)' /\ Own(n)' /\ RightSoFar(n)'
  <2>1. Fine(n) /\ Own(n) /\ RightSoFar(n)
    BY DEF HsInv
  <2> QED BY <1>1, <2>1 DEF Fine, Own, RightSoFar
<1>3. ASSUME NEW s \in Rank, NEW d \in Rank, s # d PROVE Link(s, d)'
  <2>1. InTurn(s, d) /\ InStep(s, d) /\ OnItsWay(s, d) /\ InTurn(d, s)
    BY <1>3 DEF HsInv, Link
  <2>2. ASSUME NEW x \in Rank, NEW y \in Rank
        PROVE  /\ Asks(x, y)' <=> Asks(x, y)
               /\ Streams(x, y)' <=> Streams(x, y)
               /\ Hears(x, y)' <=> Hears(x, y)
               /\ Engaged(x, y)' <=> Engaged(x, y)
               /\ Busy(x, y, {"clear"})' <=> Busy(x, y, {"clear"})
               /\ Kept(x, y)' = Kept(x, y) /\ Way(x, y)' = Way(x, y)
    BY <1>1 DEF Asks, Streams, Hears, Engaged, Busy, HsStays, KeptStays, WaysStay
  <2>3. /\ InTurn(s, d)' /\ Forward(s, d)' = Forward(s, d) /\ Back(d, s)' = Back(d, s)
        /\ Back(s, d)' = Back(s, d)
    BY <1>1, <2>1, <2>2, SameTransfer
  <2>4. InStep(s, d)'
    BY <1>1, <2>1, <2>2 DEF InStep
  <2>5. OnItsWay(s, d)'
    BY <2>1, <2>2, <2>3 DEF OnItsWay
  <2> QED BY <2>3, <2>4, <2>5 DEF Link
<1> QED BY <1>2, <1>3 DEF HsInv

-----------------------------------------------------------------------------
(* How the steps of the ranks change what is on its way.                   *)

(* Nobody sends packets to himself.                                        *)
Unlooped == \A n \in Rank : net[<<n, n>>] = << >>

(* Both ends of a message name its calls alike.                            *)
LEMMA Understood ==
  ASSUME NamesAgree, NEW s \in Rank, NEW m \in 1 .. Len(Program[s])
  PROVE  Named(Program[s][m].peer, PeerCall[Program[s][m].call])
           = PeerCall[Named(s, Program[s][m].call)]
<1> DEFINE op == Program[s][m]
<1>1. op.call \in Calls /\ op.peer \in Rank /\ m \in DOMAIN Program[s]
  BY CallType, ProgramAssumption
<1>2. op.call \in {"MPI_SEND_FLOAT", "MPI_RECV_FLOAT"} => (s \in Cpu <=> op.peer \in Cpu)
  BY <1>1, ClusterAssumption DEF NamesAgree
<1> HIDE DEF op
<1> QED BY <1>1, <1>2 DEF Named, IntCall, PeerCall, Calls, SendCalls, RecvCalls, op

(* What is left when the first packet of a channel is read.                *)
LEMMA DropFirst ==
  ASSUME NEW S, NEW c \in Seq(S), c # << >>
  PROVE  DropAt(c, 1) = Tail(c)
<1>1. Len(c) \in Nat /\ Len(c) >= 1 /\ 1 - 1 = 0 /\ 1 + 1 = 2
  OBVIOUS
<1>2. SubSeq(c, 1, 0) = << >>
  OBVIOUS
<1>3. SubSeq(c, 2, Len(c)) = Tail(c) /\ Tail(c) \in Seq(S)
  OBVIOUS
<1>4. << >> \o Tail(c) = Tail(c)
  BY <1>3, ConcatEmptySeq
<1> QED BY <1>1, <1>2, <1>3, <1>4 DEF DropAt

(* The first packet of what is on its way.                                 *)
LEMMA TailOfChain ==
  ASSUME NEW S, NEW c \in Seq(S), NEW e \in Seq(S), c # << >>
  PROVE  c \o e # << >> /\ Head(c \o e) = c[1] /\ Tail(c \o e) = Tail(c) \o e
<1> DEFINE b == c \o e
           r == Tail(c) \o e
<1>1. /\ b \in Seq(S) /\ Len(b) = Len(c) + Len(e) /\ Len(c) \in Nat \ {0} /\ Len(e) \in Nat
      /\ \A i \in 1 .. Len(c) + Len(e) : b[i] = IF i <= Len(c) THEN c[i] ELSE e[i - Len(c)]
  BY ConcatProperties
<1>2. /\ Tail(c) \in Seq(S) /\ Len(Tail(c)) = Len(c) - 1
      /\ \A j \in 1 .. Len(Tail(c)) : Tail(c)[j] = c[j + 1]
  BY TailOf
<1>3. /\ r \in Seq(S) /\ Len(r) = Len(c) - 1 + Len(e)
      /\ \A i \in 1 .. Len(c) - 1 + Len(e) :
           r[i] = IF i <= Len(c) - 1 THEN Tail(c)[i] ELSE e[i - (Len(c) - 1)]
  <2> DEFINE u == Tail(c)
  <2>1. /\ u \o e \in Seq(S) /\ Len(u \o e) = Len(u) + Len(e)
        /\ \A i \in 1 .. Len(u) + Len(e) :
             (u \o e)[i] = IF i <= Len(u) THEN u[i] ELSE e[i - Len(u)]
    <3>1. u \in Seq(S)
      BY <1>2
    <3> HIDE DEF u
    <3> QED BY <3>1, ConcatProperties
  <2> QED BY <1>2, <2>1
<1> HIDE DEF b, r
<1>4. b # << >>
  BY <1>1
<1>5. /\ Head(b) = b[1] /\ Tail(b) \in Seq(S) /\ Len(Tail(b)) = Len(b) - 1
      /\ \A j \in 1 .. Len(Tail(b)) : Tail(b)[j] = b[j + 1]
  BY <1>1, <1>4, TailOf
<1>6. Head(b) = c[1]
  BY <1>1, <1>5
<1>7. ASSUME NEW i \in 1 .. Len(r) PROVE r[i] = Tail(b)[i]
  <2>1. i \in 1 .. Len(Tail(b)) /\ i + 1 \in 1 .. Len(c) + Len(e)
    BY <1>1, <1>3, <1>5
  <2>2. CASE i <= Len(c) - 1
    BY <1>1, <1>2, <1>3, <1>5, <2>1, <2>2
  <2>3. CASE ~(i <= Len(c) - 1)
    <3>1. ~(i + 1 <= Len(c)) /\ i + 1 - Len(c) = i - (Len(c) - 1)
      BY <1>1, <2>3, <1>3
    <3>2. i \in 1 .. Len(c) - 1 + Len(e)
      BY <1>3
    <3>3. r[i] = e[i - (Len(c) - 1)]
      BY <1>3, <2>3, <3>2
    <3>4. b[i + 1] = e[i + 1 - Len(c)]
      BY <1>1, <2>1, <3>1
    <3>5. Tail(b)[i] = b[i + 1]
      BY <1>5, <2>1
    <3> QED BY <3>1, <3>3, <3>4, <3>5
  <2> QED BY <2>2, <2>3
<1>8. Len(r) = Len(Tail(b))
  BY <1>1, <1>3, <1>5
<1>9. Tail(b) = r
  BY <1>3, <1>5, <1>7, <1>8, SeqEqual
<1> QED BY <1>4, <1>6, <1>9 DEF b, r

(* What waits at the engine and what is in the network are packets.        *)
LEMMA QueueType ==
  ASSUME IInv, NEW s \in Rank, NEW d \in Rank
  PROVE  Queue(s, d) \in Seq(Packet) /\ net[<<s, d>>] \in Seq(Packet)
<1>1. net[<<s, d>>] \in Seq(Packet)
  BY DEF IInv, FpgaInv, FpgaTypeOK, NetworkTypeOK
<1>2. Queue(s, d) \in Seq(Packet)
  <2>1. CASE s \in Fpga
    <3>1. fifo[s].tx \in Seq(TxEntry)
      BY <2>1, Local DEF IInv, FpgaInv, FpgaTypeOK, Fifos
    <3>2. ASSUME NEW i \in 1 .. Len(fifo[s].tx) PROVE fifo[s].tx[i].pkt \in Packet
      <4>1. fifo[s].tx[i] \in TxEntry
        BY <3>1
      <4> QED BY <4>1 DEF TxEntry
    <3>3. [i \in 1 .. Len(fifo[s].tx) |-> fifo[s].tx[i].pkt] \in Seq(Packet)
      BY <3>1, <3>2
    <3>4. << >> \in Seq(Packet)
      OBVIOUS
    <3> QED BY <3>3, <3>4 DEF Queue
  <2>2. CASE s \notin Fpga
    BY <2>2 DEF Queue
  <2> QED BY <2>1, <2>2
<1> QED BY <1>1, <1>2

QueuesStay == \A s, d \in Rank : Queue(s, d)' = Queue(s, d)

(* A packet is read: without reordering it is the first on its way.        *)
LEMMA Reading ==
  ASSUME IInv, HsInv, Unlooped, Window = 1, QueuesStay,
         NEW n \in Rank, NEW s \in Rank, NEW i \in Arriving(<<s, n>>), Consume(s, n, i)
  PROVE  /\ s # n /\ Way(s, n) # << >> /\ net[<<s, n>>][i] = Head(Way(s, n))
         /\ net[<<s, n>>][i] \in Packet
         /\ Takes(n, s) /\ Unlooped'
<1> DEFINE c == net[<<s, n>>]
<1>1. c \in Seq(Packet) /\ net \in [Rank \X Rank -> Seq(Packet)]
  BY DEF IInv, FpgaInv, FpgaTypeOK, NetworkTypeOK
<1>2. i = 1 /\ c # << >> /\ c[1] \in Packet
  BY <1>1 DEF Arriving
<1>3. net' = [net EXCEPT ![<<s, n>>] = Tail(c)]
  BY <1>1, <1>2, DropFirst DEF Consume
<1>4. s # n
  BY <1>2 DEF Unlooped
<1>5. Queue(s, n) \in Seq(Packet)
  BY QueueType
<1> HIDE DEF c
<1>6. c \o Queue(s, n) # << >> /\ Head(c \o Queue(s, n)) = c[1]
      /\ Tail(c \o Queue(s, n)) = Tail(c) \o Queue(s, n)
  BY <1>1, <1>2, <1>5, TailOfChain
<1>7. ASSUME NEW a \in Rank, NEW b \in Rank
      PROVE  net'[<<a, b>>] = IF a = s /\ b = n THEN Tail(c) ELSE net[<<a, b>>]
  BY <1>1, <1>3
<1>8. ASSUME NEW a \in Rank, NEW b \in Rank
      PROVE  Way(a, b)' = IF a = s /\ b = n THEN Tail(Way(a, b)) ELSE Way(a, b)
  BY <1>6, <1>7 DEF Way, QueuesStay, c
<1> QED BY <1>2, <1>4, <1>6, <1>7, <1>8 DEF Way, c, Takes, Unlooped

(* What the packet can be.                                                 *)
LEMMA ReadPacket ==
  ASSUME HsInv, NEW n \in Rank, NEW s \in Rank, s # n, Way(s, n) # << >>
  PROVE  LET p == Head(Way(s, n))
         IN  \/ /\ p.type = "SEND_REQUEST" /\ Comes(n, s, {"SEND_REQUEST"})
                /\ p = Request(s, Place(s)) /\ Asks(s, n) /\ ~Engaged(n, s)
                /\ p.src = s /\ p.unit = NoUnit
             \/ /\ p.type = "CLEAR_TO_SEND" /\ Comes(n, s, {"CLEAR_TO_SEND"})
                /\ p = Answer("CLEAR_TO_SEND", s, n, Place(n)) /\ Asks(n, s)
                /\ p.src = s /\ p.unit = NoUnit
             \/ /\ p.type = "ACK" /\ Comes(n, s, {"ACK"})
                /\ p = Answer("ACK", s, n, Place(n)) /\ Streams(n, s)
                /\ p.src = s /\ p.unit = NoUnit
             \/ /\ p.type \in {"DATA", "CONT"} /\ Comes(n, s, {"DATA", "CONT"})
                /\ p = Part(s, Place(s), Len(Moved(n)) + 1)
                /\ Streams(s, n) /\ Hears(n, s)
                /\ p.src = s /\ p.unit = <<s, Place(s), Len(Moved(n)) + 1>>
<1> USE DEF Comes
<1>1. /\ Request(s, Place(s)).src = s /\ Request(s, Place(s)).unit = NoUnit
  BY DEF Request, Control
<1>2. \A type : Answer(type, s, n, Place(n)).src = s /\ Answer(type, s, n, Place(n)).unit = NoUnit
  BY DEF Answer, Control
<1>3. \A k : Part(s, Place(s), k).src = s /\ Part(s, Place(s), k).unit = <<s, Place(s), k>>
  BY DEF Part, DataPacket, ContPacket
<1> QED BY <1>1, <1>2, <1>3, Arrival

(* A packet is sent.                                                       *)
LEMMA Writing ==
  ASSUME IInv, QueuesStay, NEW n \in Rank, NEW q \in Rank, NEW p \in Packet,
         n # q, Transmit(n, q, p), Queue(n, q) = << >>, Unlooped
  PROVE  Gives(n, q, p) /\ Unlooped'
<1> DEFINE c == net[<<n, q>>]
<1>1. c \in Seq(Packet) /\ net \in [Rank \X Rank -> Seq(Packet)]
  BY DEF IInv, FpgaInv, FpgaTypeOK, NetworkTypeOK
<1>2. net' = [net EXCEPT ![<<n, q>>] = Append(c, p)]
  BY DEF Transmit
<1> HIDE DEF c
<1>3. Append(c, p) \o << >> = Append(c, p) /\ c \o << >> = c
  <2>1. Append(c, p) \in Seq(Packet)
    BY <1>1
  <2> QED BY <1>1, <2>1, ConcatEmptySeq
<1>4. ASSUME NEW a \in Rank, NEW b \in Rank
      PROVE  net'[<<a, b>>] = IF a = n /\ b = q THEN Append(c, p) ELSE net[<<a, b>>]
  BY <1>1, <1>2
<1>5. ASSUME NEW a \in Rank, NEW b \in Rank
      PROVE  Way(a, b)' = IF a = n /\ b = q THEN Append(Way(a, b), p) ELSE Way(a, b)
  BY <1>3, <1>4 DEF Way, QueuesStay, c
<1> QED BY <1>4, <1>5 DEF Gives, Unlooped

(* A step that writes and reads no packet.                                 *)
LEMMA SameNet ==
  ASSUME UNCHANGED net, QueuesStay, Unlooped
  PROVE  WaysStay /\ Unlooped'
BY DEF WaysStay, Way, QueuesStay, Unlooped

-----------------------------------------------------------------------------
(* The CPU ranks.                                                          *)

CpuSends    == {"SEND_REQUEST", "WAIT_CLEAR", "SEND_DATA", "WAIT_ACK"}
CpuReceives == {"WAIT_REQUEST", "SEND_CLEAR", "WAIT_DATA", "SEND_ACK"}

(* What a CPU rank knows of its own call when no timer has expired.        *)
CpuCalm(n) ==
  /\ cpu[n].pc \in CpuSends => CurrentOp(n).call \in SendCalls
  /\ cpu[n].pc \in CpuReceives => CurrentOp(n).call \in RecvCalls
  /\ At(n, "WAIT_CLEAR") => cpu[n].sent = 0
  /\ At(n, "SEND_DATA") => cpu[n].sent < CurrentOp(n).count
  /\ At(n, "WAIT_DATA") => Len(cpu[n].buffer) < CurrentOp(n).count
  /\ At(n, "SEND_ACK") => Len(cpu[n].buffer) = CurrentOp(n).count

(* What the protocol sees of a CPU rank.                                   *)
LEMMA CpuView ==
  ASSUME NEW n \in Cpu
  PROVE  /\ n \in Rank /\ n \notin Fpga
         /\ Stage(n) = StageC(n) /\ Moved(n) = MovedC(n) /\ Result(n) = got[n]
         /\ Stage(n)' = StageC(n)' /\ Moved(n)' = MovedC(n)' /\ Result(n)' = got'[n]
         /\ \A s : Kept(n, s) = cpu[n].cache[s] /\ Kept(n, s)' = cpu'[n].cache[s]
         /\ Place(n) = Position(n) /\ Now(n) = CurrentOp(n) /\ Now(n).peer = Peer(n)
<1>1. n \in Rank /\ n \notin Fpga
  BY CpuAssumption, ClusterAssumption
<1> QED BY <1>1 DEF Stage, Moved, Result, Kept, Place, Now, Position, CurrentOp, Peer

(* What a CPU rank cannot change.                                          *)
LEMMA CpuFrame ==
  ASSUME IInv, NEW n \in Cpu, CpuStep(n), UNCHANGED mpeVars
  PROVE  /\ OthersStay(n) /\ QueuesStay
         /\ \A d \in Rank \ {n} : \A s \in Rank : Kept(d, s)' = Kept(d, s)
         /\ \A m \in Cpu \ {n} : cpu'[m] = cpu[m] /\ got'[m] = got[m]
         /\ \A s \in Rank : Queue(n, s) = << >>
<1>1. ASSUME NEW m \in Rank, m # n PROVE got'[m] = got[m]
  BY <1>1, CpuReturns DEF IInv, CpuInv
<1>2. ASSUME NEW m \in Cpu, m # n PROVE cpu'[m] = cpu[m]
  <2>1. PICK l : MovesTo(n, l)
    BY CpuStepMoves DEF IInv, Moves
  <2> QED BY <1>2, <2>1 DEF MovesTo, IInv, CpuInv, CpuTypeOK
<1>3. mpe' = mpe /\ fifo' = fifo /\ deq' = deq /\ wrap' = wrap
  BY DEF mpeVars
<1>4. ASSUME NEW m \in Rank, m # n
      PROVE  Stage(m)' = Stage(m) /\ Moved(m)' = Moved(m) /\ Result(m)' = Result(m)
             /\ \A s \in Rank : Kept(m, s)' = Kept(m, s)
  <2>1. got'[m] = got[m] /\ Position(m)' = Position(m) /\ CurrentOp(m)' = CurrentOp(m)
    BY <1>1, <1>4 DEF Position, CurrentOp
  <2>2. CASE m \in Fpga
    BY <1>3, <2>1, <2>2 DEF Stage, StageF, Moved, MovedF, Result, Finished, Incoming, Kept
  <2>3. CASE m \in Cpu
    <3>1. cpu'[m] = cpu[m]
      BY <1>2, <1>4, <2>3
    <3>2. StageC(m)' = StageC(m) /\ MovedC(m)' = MovedC(m)
      BY <2>1, <3>1 DEF StageC, MovedC, At
    <3> QED BY <2>1, <2>3, <3>1, <3>2, CpuView
  <2> QED BY <2>2, <2>3, ClusterAssumption
<1>5. QueuesStay
  BY <1>3 DEF QueuesStay, Queue
<1>6. \A s \in Rank : Queue(n, s) = << >>
  BY ClusterAssumption DEF Queue
<1>7. OthersStay(n)
  BY <1>4 DEF OthersStay
<1>8. \A d \in Rank \ {n} : \A s \in Rank : Kept(d, s)' = Kept(d, s)
  BY <1>4
<1>9. \A m \in Cpu \ {n} : cpu'[m] = cpu[m] /\ got'[m] = got[m]
  BY <1>1, <1>2, CpuAssumption
<1> QED BY <1>5, <1>6, <1>7, <1>8, <1>9

(* The cache of a CPU rank.                                                *)
LEMMA CpuKeeps ==
  ASSUME IInv, NEW n \in Cpu, CpuStep(n), UNCHANGED mpeVars
  PROVE  /\ cpu'[n].cache = cpu[n].cache => KeptStays
         /\ \A q \in Rank : \A line :
              cpu'[n].cache = [cpu[n].cache EXCEPT ![q] = line] => Puts(n, q, line)
<1>1. cpu[n].cache \in [Rank -> CacheLine]
  BY LibraryOf DEF IInv, Library
<1> QED BY <1>1, CpuFrame, CpuView DEF KeptStays, Puts

(* Where a CPU rank is in its call.                                        *)
LEMMA CpuCallOf ==
  ASSUME IInv, NEW n \in Cpu, Running(n)
  PROVE  /\ Place(n) \in 1 .. Len(Program[n]) /\ Place(n) <= Len(Program[n])
         /\ Peer(n) \in Rank /\ Peer(n) # n /\ Now(n).count \in Nat \ {0}
         /\ Now(n).call \in Calls /\ n \in Nat /\ Place(n) \in Nat
<1>1. Position(n) \in DOMAIN Program[n] /\ n \in Rank
  BY OpOf, LibraryOf DEF IInv
<1>2. Position(n) \in 1 .. Len(Program[n])
  BY <1>1, ProgramAssumption
<1> QED BY <1>1, <1>2, CpuView, CallType, ProgramAssumption DEF Now

(* MPI_Send is called: nothing is sent yet.                                *)
LEMMA SendCallHs ==
  ASSUME IInv, Unlooped, NEW n \in Cpu, CpuCalm(n), SendCall(n), UNCHANGED mpeVars
  PROVE  HsStays /\ CpuCalm(n)' /\ Unlooped'
<1>1. cpu[n] \in Library /\ CpuStep(n) /\ got' = got /\ UNCHANGED net /\ cpu[n].pc = "READY"
  BY LibraryOf DEF IInv, CpuStep, SendCall, netVars, At
<1>2. /\ cpu'[n].pc = "SEND_REQUEST" /\ cpu'[n].cache = cpu[n].cache
      /\ CurrentOp(n).call \in SendCalls
  BY <1>1 DEF SendCall, IInv, CpuInv, CpuTypeOK, Library
<1>3. Stage(n)' = Stage(n) /\ Moved(n)' = Moved(n) /\ Result(n)' = Result(n)
  BY <1>1, <1>2, CpuView DEF StageC, MovedC, At
<1>4. OthersStay(n) /\ QueuesStay /\ KeptStays
  BY <1>1, <1>2, CpuFrame, CpuKeeps
<1>5. CpuCalm(n)'
  BY <1>1, <1>2 DEF CpuCalm, CpuSends, CpuReceives, CurrentOp, Position, At
<1>6. WaysStay /\ Unlooped'
  BY <1>1, <1>4, SameNet
<1> QED BY <1>3, <1>4, <1>5, <1>6 DEF HsStays, OthersStay

(* getPosInCache finds a header, and the library deletes it, or it does    *)
(* not.                                                                    *)
LEMMA LookupOf ==
  ASSUME IInv, NEW n \in Cpu, Peer(n) \in Rank, NEW l \in Library, l.cache = cpu[n].cache,
         NEW type, NEW call, NEW found, NEW wait, Lookup(n, l, type, call, found, wait)
  PROVE  /\ cpu'[n].sent = l.sent /\ cpu'[n].buffer = l.buffer
         /\ Cached(n, type, call) =>
              /\ cpu'[n].pc = found
              /\ cpu'[n].cache = [cpu[n].cache EXCEPT ![Peer(n)] = NoHeader]
              /\ Kept(n, Peer(n)) # NoHeader /\ Kept(n, Peer(n)).type = type
         /\ ~Cached(n, type, call) =>
              cpu'[n].pc = wait /\ cpu'[n].cache = cpu[n].cache
<1>1. \A k : cpu' = [cpu EXCEPT ![n] = k] => cpu'[n] = k
  BY DEF IInv, CpuInv, CpuTypeOK
<1>2. CASE Cached(n, type, call)
  <2> DEFINE k == [l EXCEPT !.pc = found, !.cache = [@ EXCEPT ![Peer(n)] = NoHeader],
                            !.cacheNum = @ - 1]
  <2>1. cpu'[n] = k
    BY <1>1, <1>2 DEF Lookup
  <2>2. /\ k.sent = l.sent /\ k.buffer = l.buffer /\ k.pc = found
        /\ k.cache = [l.cache EXCEPT ![Peer(n)] = NoHeader]
    BY DEF Library
  <2>3. Kept(n, Peer(n)) # NoHeader /\ Kept(n, Peer(n)).type = type
    BY <1>2, CpuView DEF Cached, CachedMatch, Matches
  <2> QED BY <1>2, <2>1, <2>2, <2>3
<1>3. CASE ~Cached(n, type, call)
  <2>1. cpu'[n] = [l EXCEPT !.pc = wait]
    BY <1>1, <1>3 DEF Lookup
  <2> QED BY <1>3, <2>1 DEF Library
<1> QED BY <1>2, <1>3

(* Only requests are put aside.                                            *)
LEMMA KeptRequests ==
  ASSUME HsInv, NEW n \in Rank, NEW q \in Rank, n # q, Kept(n, q) # NoHeader
  PROVE  /\ Kept(n, q) = HeaderOf(Request(q, Place(q))) /\ Kept(n, q).type = "SEND_REQUEST"
         /\ Asks(q, n) /\ ~Engaged(n, q)
<1>1. InTurn(q, n)
  BY DEF HsInv, Link
<1>2. HeaderOf(Request(q, Place(q))).type = "SEND_REQUEST"
  BY DEF HeaderOf, Request, Control
<1> QED BY <1>1, <1>2 DEF InTurn

(* An answer is never found in the cache.                                  *)
LEMMA LookupFails ==
  ASSUME IInv, HsInv, NEW n \in Cpu, Peer(n) \in Rank, Peer(n) # n,
         NEW l \in Library, l.cache = cpu[n].cache,
         NEW type, type # "SEND_REQUEST", NEW call, NEW found, NEW wait,
         Lookup(n, l, type, call, found, wait)
  PROVE  /\ ~Cached(n, type, call)
         /\ cpu'[n].sent = l.sent /\ cpu'[n].buffer = l.buffer
         /\ cpu'[n].pc = wait /\ cpu'[n].cache = cpu[n].cache
<1>1. ASSUME Cached(n, type, call) PROVE FALSE
  <2>1. Kept(n, Peer(n)) # NoHeader /\ Kept(n, Peer(n)).type = type /\ n \in Rank
    BY <1>1, CpuView DEF Cached, CachedMatch, Matches
  <2> QED BY <2>1, KeptRequests
<1>2. cpu'[n] = [l EXCEPT !.pc = wait]
  BY <1>1 DEF Lookup, IInv, CpuInv, CpuTypeOK
<1> QED BY <1>1, <1>2 DEF Library

(* MPI_Recv is called: the request is in the cache, or it has to be waited *)
(* for.                                                                    *)
LEMMA RecvCallHs ==
  ASSUME IInv, Unlooped, NEW n \in Cpu, CpuCalm(n), RecvCall(n), UNCHANGED mpeVars
  PROVE  /\ HsStays \/ FindRequest(n, Peer(n))
         /\ CpuCalm(n)' /\ Unlooped'
<1>1. /\ cpu[n] \in Library /\ CpuStep(n) /\ got' = got /\ UNCHANGED net /\ cpu[n].pc = "READY"
      /\ Running(n) /\ CurrentOp(n).call \in RecvCalls
  BY LibraryOf DEF IInv, CpuStep, RecvCall, netVars, At
<1>2. /\ Place(n) <= Len(Program[n]) /\ Peer(n) \in Rank
      /\ Now(n).call \in RecvCalls /\ Now(n).peer = Peer(n)
  BY <1>1, CpuCallOf, CpuView
<1> DEFINE l == [cpu[n] EXCEPT !.inc = 0]
           hit == Cached(n, "SEND_REQUEST", "MPI_SEND_INT")
<1>3. l \in Library /\ l.cache = cpu[n].cache
  <2>1. ASSUME NEW c \in Library
        PROVE  [c EXCEPT !.inc = 0] \in Library /\ [c EXCEPT !.inc = 0].cache = c.cache
    BY RankAssumption DEF Library
  <2> QED BY <1>1, <2>1
<1>4. Lookup(n, l, "SEND_REQUEST", "MPI_SEND_INT", "SEND_CLEAR", "WAIT_REQUEST")
  BY DEF RecvCall
<1> HIDE DEF l, hit
<1>5. OthersStay(n) /\ QueuesStay
  BY <1>1, CpuFrame
<1>6. WaysStay /\ Unlooped'
  BY <1>1, <1>5, SameNet
<1>7. CASE hit
  <2>1. /\ cpu'[n].pc = "SEND_CLEAR" /\ Kept(n, Peer(n)) # NoHeader
        /\ cpu'[n].cache = [cpu[n].cache EXCEPT ![Peer(n)] = NoHeader]
    <3>1. Cached(n, "SEND_REQUEST", "MPI_SEND_INT") /\ Peer(n) \in Rank
      BY <1>2, <1>7 DEF hit
    <3> QED BY <1>3, <1>4, <3>1, LookupOf
  <2>2. /\ Stage(n) = "out" /\ Stage(n)' = "clear" /\ Moved(n)' = Moved(n)
        /\ Result(n)' = Result(n)
    BY <1>1, <2>1, CpuView DEF StageC, MovedC, At
  <2>3. Puts(n, Peer(n), NoHeader)
    BY <1>1, <1>2, <2>1, CpuKeeps
  <2>4. FindRequest(n, Peer(n))
    BY <1>2, <1>5, <1>6, <2>1, <2>2, <2>3 DEF FindRequest, Executes, GoesOn
  <2>5. CpuCalm(n)'
    BY <1>1, <2>1 DEF CpuCalm, CpuSends, CpuReceives, CurrentOp, Position, At
  <2> QED BY <1>6, <2>4, <2>5
<1>8. CASE ~hit
  <2>1. cpu'[n].pc = "WAIT_REQUEST" /\ cpu'[n].cache = cpu[n].cache
    BY <1>2, <1>3, <1>4, <1>8, LookupOf DEF hit
  <2>2. Stage(n)' = Stage(n) /\ Moved(n)' = Moved(n) /\ Result(n)' = Result(n)
    BY <1>1, <2>1, CpuView DEF StageC, MovedC, At
  <2>3. KeptStays
    BY <1>1, <2>1, CpuKeeps
  <2>4. CpuCalm(n)'
    BY <1>1, <2>1 DEF CpuCalm, CpuSends, CpuReceives, CurrentOp, Position, At
  <2> QED BY <1>5, <1>6, <2>2, <2>3, <2>4 DEF HsStays, OthersStay
<1> QED BY <1>7, <1>8

(* The library writes the request.                                         *)
LEMMA CpuSendRequestHs ==
  ASSUME IInv, HsInv, Unlooped, NEW n \in Cpu, CpuCalm(n), CpuSendRequest(n), UNCHANGED mpeVars
  PROVE  Ask(n, Peer(n)) /\ CpuCalm(n)' /\ Unlooped'
<1>1. /\ cpu[n] \in Library /\ CpuStep(n) /\ got' = got /\ cpu[n].pc = "SEND_REQUEST"
      /\ Running(n) /\ CurrentOp(n).call \in SendCalls /\ n \in Rank
  BY LibraryOf DEF IInv, CpuInv, CpuBusy, CpuStep, CpuSendRequest, CpuCalm, CpuSends, At
<1>2. /\ Place(n) <= Len(Program[n]) /\ Place(n) \in 1 .. Len(Program[n])
      /\ Peer(n) \in Rank /\ Peer(n) # n
      /\ Now(n).call \in SendCalls /\ Now(n).peer = Peer(n)
  BY <1>1, CpuCallOf, CpuView
<1> DEFINE l == [cpu[n] EXCEPT !.sent = 0]
<1>3. l \in Library /\ l.cache = cpu[n].cache
  BY <1>1 DEF Library
<1>4. l.sent = 0
  BY <1>1 DEF Library
<1>5. Lookup(n, l, "CLEAR_TO_SEND", "MPI_RECV_INT", "SEND_DATA", "WAIT_CLEAR")
  BY DEF CpuSendRequest
<1> HIDE DEF l
<1>6. cpu'[n].pc = "WAIT_CLEAR" /\ cpu'[n].cache = cpu[n].cache /\ cpu'[n].sent = 0
  BY <1>2, <1>3, <1>4, <1>5, LookupFails
<1>7. /\ Stage(n) = "out" /\ Stage(n)' = "asked" /\ Moved(n)' = Moved(n)
      /\ Result(n)' = Result(n)
  BY <1>1, <1>6, CpuView DEF StageC, MovedC, At
<1>8. OthersStay(n) /\ QueuesStay /\ KeptStays /\ Queue(n, Peer(n)) = << >>
  BY <1>1, <1>2, <1>6, CpuFrame, CpuKeeps
<1>9. Control("SEND_REQUEST", n, Peer(n), "MPI_SEND_INT") = Request(n, Place(n))
  BY <1>2 DEF Request, Named, IntCall, SendCalls, Now
<1>10. Gives(n, Peer(n), Request(n, Place(n))) /\ Unlooped'
  <2>1. Request(n, Place(n)) \in Packet
    BY <1>1, <1>2, PacketTypes
  <2>2. Transmit(n, Peer(n), Request(n, Place(n)))
    BY <1>9 DEF CpuSendRequest
  <2> QED BY <1>1, <1>2, <1>8, <2>1, <2>2, Writing
<1>11. Ask(n, Peer(n))
  BY <1>2, <1>7, <1>8, <1>10 DEF Ask, Executes, GoesOn
<1>12. CpuCalm(n)'
  BY <1>1, <1>6 DEF CpuCalm, CpuSends, CpuReceives, CurrentOp, Position, At
<1> QED BY <1>10, <1>11, <1>12

(* What a CPU rank reads in the headers of its partner.                    *)
LEMMA CpuReadsNames ==
  ASSUME NamesAgree, NEW n \in Cpu, NEW s \in Rank, NEW m \in 1 .. Len(Program[s]),
         Program[s][m].call \in SendCalls
  PROVE  /\ s = n => Named(Program[s][m].peer, PeerCall[Program[s][m].call]) = "MPI_RECV_INT"
         /\ Program[s][m].peer = n => Named(s, Program[s][m].call) = "MPI_SEND_INT"
<1> DEFINE call == Program[s][m].call
           peer == Program[s][m].peer
<1>1. call \in SendCalls /\ Named(s, call) \in Calls /\ s \in Rank
  BY CallType, NamedType
<1>2. Named(peer, PeerCall[call]) = PeerCall[Named(s, call)]
  BY Understood
<1> HIDE DEF call, peer
<1>3. s = n => Named(s, call) = "MPI_SEND_INT"
  BY <1>1 DEF Named, IntCall, SendCalls
<1>4. peer = n => PeerCall[Named(s, call)] = "MPI_RECV_INT"
  <2>1. PeerCall[call] \in {"MPI_RECV_INT", "MPI_RECV_FLOAT"}
    BY <1>1 DEF PeerCall, SendCalls
  <2> QED BY <1>2, <2>1 DEF Named, IntCall
<1>5. PeerCall[Named(s, call)] = "MPI_RECV_INT" <=> Named(s, call) = "MPI_SEND_INT"
  BY <1>1 DEF PeerCall, Calls, SendCalls, RecvCalls
<1> QED BY <1>2, <1>3, <1>4, <1>5 DEF call, peer

(* A CPU rank reads a packet: what all those steps have in common.         *)
LEMMA CpuReading ==
  ASSUME IInv, HsInv, Unlooped, Window = 1, NEW n \in Cpu, CpuStep(n), UNCHANGED mpeVars,
         NEW s \in Rank, NEW i \in Arriving(<<s, n>>), Consume(s, n, i)
  PROVE  /\ n \in Rank /\ s # n /\ Way(s, n) # << >> /\ net[<<s, n>>][i] = Head(Way(s, n))
         /\ net[<<s, n>>][i] \in Packet
         /\ Takes(n, s) /\ Unlooped' /\ OthersStay(n) /\ cpu[n] \in Library
<1>1. n \in Rank /\ QueuesStay /\ OthersStay(n) /\ cpu[n] \in Library
  BY CpuFrame, LibraryOf DEF IInv
<1> QED BY <1>1, Reading

(* What changes when a header is put into the cache.                       *)
LEMMA PutFields ==
  ASSUME NEW l \in Library, NEW p
  PROVE  /\ PutIntoCache(l, p).pc = l.pc /\ PutIntoCache(l, p).sent = l.sent
         /\ PutIntoCache(l, p).buffer = l.buffer
         /\ PutIntoCache(l, p).cache = [l.cache EXCEPT ![p.src] = HeaderOf(p)]
<1> DEFINE cache == [l.cache EXCEPT ![p.src] = HeaderOf(p)]
           num == l.cacheNum + 1
<1>1. PutIntoCache(l, p) = [l EXCEPT !.cache = cache, !.cacheNum = num]
  BY DEF PutIntoCache
<1> HIDE DEF cache, num
<1>2. /\ PutIntoCache(l, p).pc = l.pc /\ PutIntoCache(l, p).sent = l.sent
      /\ PutIntoCache(l, p).buffer = l.buffer /\ PutIntoCache(l, p).cache = cache
  BY <1>1 DEF Library
<1> QED BY <1>2 DEF cache

(* A request that is not waited for is put into the cache.                 *)
LEMMA CpuPutsAside ==
  ASSUME IInv, HsInv, Unlooped, Window = 1, NEW n \in Cpu, CpuCalm(n), CpuStep(n),
         UNCHANGED mpeVars, UNCHANGED got,
         NEW s \in Rank, NEW i \in Arriving(<<s, n>>), Consume(s, n, i),
         net[<<s, n>>][i].type = "SEND_REQUEST",
         cpu' = [cpu EXCEPT ![n] = PutIntoCache(@, net[<<s, n>>][i])]
  PROVE  Keep(n, s) /\ CpuCalm(n)' /\ Unlooped'
<1> DEFINE p == net[<<s, n>>][i]
<1>1. /\ n \in Rank /\ s # n /\ Way(s, n) # << >> /\ p = Head(Way(s, n)) /\ p \in Packet
      /\ Takes(n, s) /\ Unlooped' /\ OthersStay(n) /\ cpu[n] \in Library
  BY CpuReading
<1>2. p.src = s /\ Comes(n, s, {"SEND_REQUEST"})
  BY <1>1, ReadPacket
<1> HIDE DEF p
<1>3. cpu'[n] = PutIntoCache(cpu[n], p)
  BY DEF p, IInv, CpuInv, CpuTypeOK
<1>4. /\ cpu'[n].pc = cpu[n].pc /\ cpu'[n].sent = cpu[n].sent
      /\ cpu'[n].buffer = cpu[n].buffer
      /\ cpu'[n].cache = [cpu[n].cache EXCEPT ![s] = HeaderOf(p)]
  <2> DEFINE l == cpu[n]
  <2>1. l \in Library
    BY <1>1
  <2> HIDE DEF l
  <2>2. /\ PutIntoCache(l, p).pc = l.pc /\ PutIntoCache(l, p).sent = l.sent
        /\ PutIntoCache(l, p).buffer = l.buffer
        /\ PutIntoCache(l, p).cache = [l.cache EXCEPT ![p.src] = HeaderOf(p)]
    BY <2>1, PutFields
  <2> QED BY <1>2, <1>3, <2>2, Zenon DEF l
<1>5. Stage(n)' = Stage(n) /\ Moved(n)' = Moved(n) /\ Result(n)' = Result(n)
  <2>1. StageC(n)' = StageC(n) /\ MovedC(n)' = MovedC(n)
    BY <1>4 DEF StageC, MovedC, At, Position
  <2> QED BY <2>1, CpuView
<1>6. Puts(n, s, HeaderOf(Head(Way(s, n))))
  BY <1>1, <1>4, CpuKeeps
<1>7. CpuCalm(n)'
  BY <1>4 DEF CpuCalm, CurrentOp, Position, At
<1> QED BY <1>1, <1>2, <1>5, <1>6, <1>7 DEF Keep, GoesOn

(* The library reads a packet while it waits for the clear to send.        *)
LEMMA WaitClearHs ==
  ASSUME IInv, HsInv, Unlooped, Window = 1, NamesAgree, NEW n \in Cpu, CpuCalm(n),
         NEW s \in Rank, NEW i \in Arriving(<<s, n>>), WaitClear(n, s, i), UNCHANGED mpeVars
  PROVE  /\ s # n /\ (HearClear(n, s) \/ Keep(n, s))
         /\ CpuCalm(n)' /\ Unlooped'
<1> DEFINE p == net[<<s, n>>][i]
<1>1. /\ CpuStep(n) /\ got' = got /\ cpu[n].pc = "WAIT_CLEAR" /\ Consume(s, n, i)
      /\ CurrentOp(n).call \in SendCalls /\ cpu[n].sent = 0 /\ Running(n)
  BY DEF CpuStep, WaitClear, WaitControl, At, CpuCalm, CpuSends, IInv, CpuInv, CpuBusy
<1>2. /\ n \in Rank /\ s # n /\ Way(s, n) # << >> /\ p = Head(Way(s, n)) /\ p \in Packet
      /\ Takes(n, s) /\ Unlooped' /\ OthersStay(n) /\ cpu[n] \in Library
  BY <1>1, CpuReading
<1>3. /\ Place(n) \in 1 .. Len(Program[n]) /\ Now(n).call \in SendCalls
      /\ Now(n).peer = Peer(n) /\ Now(n).count \in Nat \ {0} /\ Stage(n) = "asked"
  BY <1>1, CpuCallOf, CpuView DEF StageC, At
<1> HIDE DEF p
<1>4. \/ /\ p.type = "CLEAR_TO_SEND" /\ Comes(n, s, {"CLEAR_TO_SEND"})
         /\ p = Answer("CLEAR_TO_SEND", s, n, Place(n)) /\ Asks(n, s)
      \/ p.type = "SEND_REQUEST"
  BY <1>2, <1>3, ReadPacket DEF Streams, Hears, Busy
<1>5. CASE /\ p.type = "CLEAR_TO_SEND" /\ Comes(n, s, {"CLEAR_TO_SEND"})
           /\ p = Answer("CLEAR_TO_SEND", s, n, Place(n)) /\ Asks(n, s)
  <2>1. s = Peer(n)
    BY <1>3, <1>5 DEF Asks, Busy
  <2>2. p.src = s /\ p.call = "MPI_RECV_INT"
    <3>1. p.src = s /\ p.call = Named(s, PeerCall[Program[n][Place(n)].call])
      BY <1>5 DEF Answer, Control
    <3> QED BY <1>2, <1>3, <2>1, <3>1, CpuReadsNames DEF Now
  <2>3. HasHeader(p) /\ Matches(HeaderOf(p), "CLEAR_TO_SEND", "MPI_RECV_INT", Peer(n))
    BY <1>5, <2>1, <2>2 DEF HasHeader, Matches, HeaderOf
  <2>4. cpu' = [cpu EXCEPT ![n].pc = "SEND_DATA"]
    BY <2>1, <2>3 DEF WaitClear, WaitControl, p
  <2>5. cpu'[n].pc = "SEND_DATA" /\ cpu'[n].sent = 0 /\ cpu'[n].cache = cpu[n].cache
    BY <1>1, <1>2, <2>4 DEF IInv, CpuInv, CpuTypeOK, Library
  <2>6. Stage(n)' = "sending" /\ Moved(n)' = Moved(n) /\ Result(n)' = Result(n)
    <3>1. Units(n, Position(n), 0) = << >>
      BY DEF Units
    <3>2. StageC(n)' = "sending" /\ MovedC(n)' = << >> /\ MovedC(n) = << >>
      BY <1>1, <2>5, <3>1 DEF StageC, MovedC, At, Position
    <3> QED BY <1>1, <3>2, CpuView
  <2>7. KeptStays
    BY <1>1, <2>5, CpuKeeps
  <2>8. CpuCalm(n)'
    <3>1. CurrentOp(n)' = CurrentOp(n) /\ CurrentOp(n) = Now(n)
      BY <1>1, CpuView DEF CurrentOp, Position
    <3> QED BY <1>1, <1>3, <2>5, <3>1 DEF CpuCalm, CpuSends, CpuReceives, At
  <2> QED BY <1>2, <1>3, <1>5, <2>1, <2>6, <2>7, <2>8 DEF HearClear, GoesOn
<1>6. CASE p.type = "SEND_REQUEST"
  <2>1. HasHeader(p) /\ ~Matches(HeaderOf(p), "CLEAR_TO_SEND", "MPI_RECV_INT", Peer(n))
    BY <1>6 DEF HasHeader, Matches, HeaderOf
  <2>2. cpu' = [cpu EXCEPT ![n] = PutIntoCache(@, p)]
    BY <2>1 DEF WaitClear, WaitControl, p
  <2> QED BY <1>1, <1>2, <1>6, <2>2, CpuPutsAside DEF p
<1> QED BY <1>4, <1>5, <1>6

(* The library reads a packet while it waits for a request.                *)
LEMMA WaitRequestHs ==
  ASSUME IInv, HsInv, Unlooped, Window = 1, NEW n \in Cpu, CpuCalm(n),
         NEW s \in Rank, NEW i \in Arriving(<<s, n>>), WaitRequest(n, s, i), UNCHANGED mpeVars
  PROVE  /\ s # n /\ (HearRequest(n, s) \/ Keep(n, s))
         /\ CpuCalm(n)' /\ Unlooped'
<1> DEFINE p == net[<<s, n>>][i]
<1>1. /\ CpuStep(n) /\ got' = got /\ cpu[n].pc = "WAIT_REQUEST" /\ Consume(s, n, i)
      /\ CurrentOp(n).call \in RecvCalls /\ Running(n)
  BY DEF CpuStep, WaitRequest, WaitControl, At, CpuCalm, CpuReceives, IInv, CpuInv, CpuBusy
<1>2. /\ n \in Rank /\ s # n /\ Way(s, n) # << >> /\ p = Head(Way(s, n)) /\ p \in Packet
      /\ Takes(n, s) /\ Unlooped' /\ OthersStay(n) /\ cpu[n] \in Library
  BY <1>1, CpuReading
<1>3. /\ Place(n) <= Len(Program[n]) /\ Now(n).call \in RecvCalls
      /\ Now(n).peer = Peer(n) /\ Stage(n) = "out"
  BY <1>1, CpuCallOf, CpuView DEF StageC, At
<1> HIDE DEF p
<1>4. p.type = "SEND_REQUEST" /\ Comes(n, s, {"SEND_REQUEST"}) /\ HasHeader(p)
  BY <1>2, <1>3, ReadPacket DEF Asks, Streams, Hears, Busy, HasHeader
<1>5. CASE s = Peer(n) /\ Matches(HeaderOf(p), "SEND_REQUEST", "MPI_SEND_INT", Peer(n))
  <2>1. cpu' = [cpu EXCEPT ![n].pc = "SEND_CLEAR"]
    BY <1>4, <1>5 DEF WaitRequest, WaitControl, p
  <2>2. cpu'[n].pc = "SEND_CLEAR" /\ cpu'[n].cache = cpu[n].cache
    BY <1>1, <1>2, <2>1 DEF IInv, CpuInv, CpuTypeOK, Library
  <2>3. Stage(n)' = "clear" /\ Moved(n)' = Moved(n) /\ Result(n)' = Result(n)
    <3>1. StageC(n)' = "clear" /\ MovedC(n)' = << >> /\ MovedC(n) = << >>
      BY <1>1, <2>2 DEF StageC, MovedC, At
    <3> QED BY <1>1, <3>1, CpuView
  <2>4. KeptStays
    BY <1>1, <2>2, CpuKeeps
  <2>5. CpuCalm(n)'
    BY <1>1, <2>2 DEF CpuCalm, CpuSends, CpuReceives, CurrentOp, Position, At
  <2> QED BY <1>2, <1>3, <1>4, <1>5, <2>3, <2>4, <2>5 DEF HearRequest, Executes, GoesOn
<1>6. CASE ~(s = Peer(n) /\ Matches(HeaderOf(p), "SEND_REQUEST", "MPI_SEND_INT", Peer(n)))
  <2>1. cpu' = [cpu EXCEPT ![n] = PutIntoCache(@, p)]
    BY <1>4, <1>6 DEF WaitRequest, WaitControl, p
  <2> QED BY <1>1, <1>2, <1>4, <2>1, CpuPutsAside DEF p
<1> QED BY <1>5, <1>6

(* The library reads a packet while it waits for the acknowledgement.      *)
LEMMA WaitAckHs ==
  ASSUME IInv, HsInv, Unlooped, Window = 1, NamesAgree, NEW n \in Cpu, CpuCalm(n),
         NEW s \in Rank, NEW i \in Arriving(<<s, n>>), WaitAck(n, s, i), UNCHANGED mpeVars
  PROVE  /\ s # n /\ (HearAck(n, s) \/ Keep(n, s))
         /\ CpuCalm(n)' /\ Unlooped'
<1> DEFINE p == net[<<s, n>>][i]
<1>1. /\ CpuStep(n) /\ cpu[n].pc = "WAIT_ACK" /\ Consume(s, n, i)
      /\ CurrentOp(n).call \in SendCalls /\ Running(n)
  BY DEF CpuStep, WaitAck, At, CpuCalm, CpuSends, IInv, CpuInv, CpuBusy
<1>2. /\ n \in Rank /\ s # n /\ Way(s, n) # << >> /\ p = Head(Way(s, n)) /\ p \in Packet
      /\ Takes(n, s) /\ Unlooped' /\ OthersStay(n) /\ cpu[n] \in Library
  BY <1>1, CpuReading
<1>3. /\ Place(n) \in 1 .. Len(Program[n]) /\ Now(n).call \in SendCalls
      /\ Now(n).peer = Peer(n) /\ Stage(n) = "sending"
  BY <1>1, CpuCallOf, CpuView DEF StageC, At
<1> HIDE DEF p
<1>4. \/ /\ p.type = "ACK" /\ Comes(n, s, {"ACK"})
         /\ p = Answer("ACK", s, n, Place(n)) /\ Streams(n, s)
      \/ p.type = "SEND_REQUEST"
  BY <1>2, <1>3, ReadPacket DEF Asks, Hears, Busy
<1>5. CASE /\ p.type = "ACK" /\ Comes(n, s, {"ACK"})
           /\ p = Answer("ACK", s, n, Place(n)) /\ Streams(n, s)
  <2>1. s = Peer(n)
    BY <1>3, <1>5 DEF Streams, Busy
  <2>2. p.src = s /\ p.call = "MPI_RECV_INT"
    <3>1. p.src = s /\ p.call = Named(s, PeerCall[Program[n][Place(n)].call])
      BY <1>5 DEF Answer, Control
    <3> QED BY <1>2, <1>3, <2>1, <3>1, CpuReadsNames DEF Now
  <2>3. HasHeader(p) /\ Matches(HeaderOf(p), "ACK", "MPI_RECV_INT", Peer(n))
    BY <1>5, <2>1, <2>2 DEF HasHeader, Matches, HeaderOf
  <2>4. cpu' = [cpu EXCEPT ![n].pc = "READY"] /\ Return(n, << >>)
    BY <2>1, <2>3 DEF WaitAck, p
  <2>5. cpu'[n].pc = "READY" /\ cpu'[n].cache = cpu[n].cache
    BY <1>1, <1>2, <2>4 DEF IInv, CpuInv, CpuTypeOK, Library
  <2>6. Stage(n)' = "out" /\ Moved(n)' = << >> /\ Result(n)' = Append(Result(n), << >>)
    <3>1. StageC(n)' = "out" /\ MovedC(n)' = << >>
      BY <2>5 DEF StageC, MovedC, At
    <3>2. got'[n] = Append(got[n], << >>)
      BY <1>2, <2>4 DEF Return, IInv, CpuInv, ApplicationTypeOK
    <3> QED BY <3>1, <3>2, CpuView
  <2>7. KeptStays
    BY <1>1, <2>5, CpuKeeps
  <2>8. CpuCalm(n)'
    BY <2>5 DEF CpuCalm, CpuSends, CpuReceives, At
  <2> QED BY <1>2, <1>3, <1>5, <2>1, <2>6, <2>7, <2>8 DEF HearAck, Completes
<1>6. CASE p.type = "SEND_REQUEST"
  <2>1. HasHeader(p) /\ ~Matches(HeaderOf(p), "ACK", "MPI_RECV_INT", Peer(n))
    BY <1>6 DEF HasHeader, Matches, HeaderOf
  <2>2. cpu' = [cpu EXCEPT ![n] = PutIntoCache(@, p)] /\ UNCHANGED got
    BY <2>1 DEF WaitAck, p
  <2> QED BY <1>1, <1>2, <1>6, <2>2, CpuPutsAside DEF p
<1> QED BY <1>4, <1>5, <1>6

(* The answers of a CPU rank to its partner.                               *)
LEMMA CpuAnswers ==
  ASSUME HsInv, WellPaired, NEW n \in Cpu, NEW type \in HeaderTypes,
         Peer(n) \in Rank, Peer(n) # n, Engaged(n, Peer(n)), Now(n).call \in RecvCalls
  PROVE  /\ Control(type, n, Peer(n), "MPI_RECV_INT") = Answer(type, n, Peer(n), Place(Peer(n)))
         /\ Control(type, n, Peer(n), "MPI_RECV_INT") \in Packet
<1>1. n \in Rank /\ Named(n, Now(n).call) = "MPI_RECV_INT"
  BY CpuView DEF Named, IntCall, RecvCalls
<1>2. Answer(type, n, Peer(n), Place(Peer(n))) = Control(type, n, Peer(n), Named(n, Now(n).call))
  BY <1>1, Partners
<1>3. Control(type, n, Peer(n), "MPI_RECV_INT") \in Packet
  BY <1>1, ControlType DEF Calls, RecvCalls
<1> QED BY <1>1, <1>2, <1>3

(* The library writes the clear to send.                                   *)
LEMMA CpuSendClearHs ==
  ASSUME IInv, HsInv, Unlooped, WellPaired, NEW n \in Cpu, CpuCalm(n), CpuSendClear(n),
         UNCHANGED mpeVars
  PROVE  /\ Peer(n) \in Rank /\ Peer(n) # n /\ Clear(n, Peer(n))
         /\ CpuCalm(n)' /\ Unlooped'
<1> DEFINE q == Peer(n)
           p == Control("CLEAR_TO_SEND", n, Peer(n), "MPI_RECV_INT")
<1>1. /\ cpu[n] \in Library /\ CpuStep(n) /\ got' = got /\ cpu[n].pc = "SEND_CLEAR"
      /\ Running(n) /\ CurrentOp(n).call \in RecvCalls /\ n \in Rank
  BY LibraryOf DEF IInv, CpuInv, CpuBusy, CpuStep, CpuSendClear, CpuCalm, CpuReceives, At
<1>2. /\ q \in Rank /\ q # n /\ Now(n).call \in RecvCalls /\ Now(n).peer = q
      /\ Stage(n) = "clear" /\ Now(n).count \in Nat \ {0}
  BY <1>1, CpuCallOf, CpuView DEF StageC, At
<1>3. Engaged(n, q)
  BY <1>2 DEF Engaged, Busy
<1>4. p = Answer("CLEAR_TO_SEND", n, q, Place(q)) /\ p \in Packet
  BY <1>2, <1>3, CpuAnswers DEF HeaderTypes
<1>5. cpu'[n].pc = "WAIT_DATA" /\ cpu'[n].buffer = << >> /\ cpu'[n].cache = cpu[n].cache
  BY <1>1 DEF CpuSendClear, EnterForData, IInv, CpuInv, CpuTypeOK, Library
<1>6. Stage(n)' = "receiving" /\ Moved(n)' = Moved(n) /\ Result(n)' = Result(n)
  <2>1. StageC(n)' = "receiving" /\ MovedC(n)' = << >> /\ MovedC(n) = << >>
    BY <1>1, <1>5 DEF StageC, MovedC, At
  <2> QED BY <1>1, <2>1, CpuView
<1>7. OthersStay(n) /\ QueuesStay /\ KeptStays /\ Queue(n, q) = << >>
  BY <1>1, <1>2, <1>5, CpuFrame, CpuKeeps
<1>8. Transmit(n, q, p)
  BY DEF CpuSendClear
<1>9. CpuCalm(n)'
  <2>1. CurrentOp(n)' = CurrentOp(n) /\ CurrentOp(n) = Now(n)
    BY <1>1, CpuView DEF CurrentOp, Position
  <2>2. Len(<< >>) = 0
    OBVIOUS
  <2> QED BY <1>1, <1>2, <1>5, <2>1, <2>2 DEF CpuCalm, CpuSends, CpuReceives, At
<1> HIDE DEF p, q
<1>10. Gives(n, q, p) /\ Unlooped'
  BY <1>1, <1>2, <1>4, <1>7, <1>8, Writing
<1> QED BY <1>2, <1>4, <1>6, <1>7, <1>9, <1>10 DEF Clear, GoesOn, q

(* The library writes the acknowledgement and returns the data.            *)
LEMMA CpuSendAckHs ==
  ASSUME IInv, HsInv, Unlooped, WellPaired, NEW n \in Cpu, CpuCalm(n), CpuSendAck(n),
         UNCHANGED mpeVars
  PROVE  /\ Peer(n) \in Rank /\ Peer(n) # n /\ Acknowledge(n, Peer(n))
         /\ CpuCalm(n)' /\ Unlooped'
<1> DEFINE q == Peer(n)
           p == Control("ACK", n, Peer(n), "MPI_RECV_INT")
<1>1. /\ cpu[n] \in Library /\ CpuStep(n) /\ cpu[n].pc = "SEND_ACK"
      /\ Running(n) /\ CurrentOp(n).call \in RecvCalls /\ n \in Rank
      /\ Len(cpu[n].buffer) = CurrentOp(n).count
  BY LibraryOf DEF IInv, CpuInv, CpuBusy, CpuStep, CpuSendAck, CpuCalm, CpuReceives, At
<1>2. /\ q \in Rank /\ q # n /\ Now(n).call \in RecvCalls /\ Now(n).peer = q
      /\ Stage(n) = "receiving" /\ Moved(n) = cpu[n].buffer
      /\ Len(Moved(n)) = Now(n).count
  BY <1>1, CpuCallOf, CpuView DEF StageC, MovedC, At
<1>3. Engaged(n, q)
  BY <1>2 DEF Engaged, Busy
<1>4. p = Answer("ACK", n, q, Place(q)) /\ p \in Packet
  BY <1>2, <1>3, CpuAnswers DEF HeaderTypes
<1>5. cpu'[n].pc = "READY" /\ cpu'[n].cache = cpu[n].cache
  BY <1>1 DEF CpuSendAck, IInv, CpuInv, CpuTypeOK, Library
<1>6. Stage(n)' = "out" /\ Moved(n)' = << >> /\ Result(n)' = Append(Result(n), Moved(n))
  <2>1. StageC(n)' = "out" /\ MovedC(n)' = << >>
    BY <1>5 DEF StageC, MovedC, At
  <2>2. got'[n] = Append(got[n], cpu[n].buffer)
    BY <1>1 DEF CpuSendAck, Return, IInv, CpuInv, ApplicationTypeOK
  <2> QED BY <1>2, <2>1, <2>2, CpuView
<1>7. OthersStay(n) /\ QueuesStay /\ KeptStays /\ Queue(n, q) = << >>
  BY <1>1, <1>2, <1>5, CpuFrame, CpuKeeps
<1>8. Transmit(n, q, p)
  BY DEF CpuSendAck
<1>9. CpuCalm(n)'
  BY <1>5 DEF CpuCalm, CpuSends, CpuReceives, At
<1> HIDE DEF p, q
<1>10. Gives(n, q, p) /\ Unlooped'
  BY <1>1, <1>2, <1>4, <1>7, <1>8, Writing
<1> QED BY <1>2, <1>4, <1>6, <1>7, <1>9, <1>10 DEF Acknowledge, Completes, q

(* The library writes a packet of data.                                    *)
LEMMA CpuSendDataHs ==
  ASSUME IInv, HsInv, Unlooped, NEW n \in Cpu, CpuCalm(n), CpuSendData(n), UNCHANGED mpeVars
  PROVE  /\ Peer(n) \in Rank /\ Peer(n) # n /\ SendPart(n, Peer(n))
         /\ CpuCalm(n)' /\ Unlooped'
<1> DEFINE q == Peer(n)
           k == cpu[n].sent + 1
           p == Part(n, Place(n), k)
           l == [cpu[n] EXCEPT !.sent = 0]
<1>1. /\ cpu[n] \in Library /\ CpuStep(n) /\ cpu[n].pc = "SEND_DATA"
      /\ Running(n) /\ CurrentOp(n).call \in SendCalls /\ n \in Rank
      /\ cpu[n].sent < CurrentOp(n).count /\ cpu[n].sent \in Nat
  BY LibraryOf DEF IInv, CpuInv, CpuBusy, CpuStep, CpuSendData, CpuCalm, CpuSends, At, Library
<1>2. /\ q \in Rank /\ q # n /\ Now(n).call \in SendCalls /\ Now(n).peer = q
      /\ Place(n) \in 1 .. Len(Program[n]) /\ Place(n) \in Nat /\ n \in Nat
      /\ Stage(n) = "sending" /\ Now(n).count \in Nat \ {0} /\ k \in Nat \ {0}
      /\ CurrentOp(n) = Now(n) /\ Position(n) = Place(n)
      /\ Moved(n) = Units(n, Place(n), cpu[n].sent)
  BY <1>1, CpuCallOf, CpuView DEF StageC, MovedC, At
<1>3. /\ Len(Moved(n)) = cpu[n].sent
      /\ Append(Moved(n), <<n, Place(n), k>>) = Units(n, Place(n), k)
  <2> DEFINE sent == cpu[n].sent
             place == Place(n)
  <2>1. sent \in Nat /\ place \in Nat /\ n \in Nat /\ Moved(n) = Units(n, place, sent)
    BY <1>1, <1>2
  <2> HIDE DEF sent, place
  <2>2. /\ Len(Units(n, place, sent)) = sent
        /\ Append(Units(n, place, sent), <<n, place, sent + 1>>) = Units(n, place, sent + 1)
    BY <2>1, UnitsGrow
  <2> QED BY <2>1, <2>2 DEF sent, place
<1>4. Transmit(n, q, p) /\ p \in Packet
  <2>1. Named(n, Now(n).call) = "MPI_SEND_INT"
    BY <1>2 DEF Named, IntCall, SendCalls
  <2>2. p = IF k = 1 THEN DataPacket(n, q, "MPI_SEND_INT", Now(n).count, <<n, Place(n), k>>)
            ELSE ContPacket(n, q, "MPI_SEND_INT", <<n, Place(n), k>>)
    BY <1>2, <2>1 DEF Part, Now
  <2>3. Transmit(n, q, p)
    BY <1>2, <2>2 DEF CpuSendData
  <2> QED BY <1>1, <1>2, <2>3, PacketTypes
<1> DEFINE sends == /\ cpu'[n].cache = cpu[n].cache /\ CpuCalm(n)' /\ Stage(n)' = "sending"
                    /\ Moved(n)' = Units(n, Place(n), k) /\ Result(n)' = Result(n)
<1>5. ASSUME k < Now(n).count PROVE sends
  <2>1. cpu' = [cpu EXCEPT ![n].sent = k] /\ got' = got
    BY <1>2, <1>5 DEF CpuSendData
  <2>2. cpu'[n].pc = "SEND_DATA" /\ cpu'[n].sent = k /\ cpu'[n].cache = cpu[n].cache
    BY <1>1, <2>1 DEF IInv, CpuInv, CpuTypeOK, Library
  <2>3. Stage(n)' = "sending" /\ Moved(n)' = Units(n, Place(n), k) /\ Result(n)' = Result(n)
    <3>1. StageC(n)' = "sending" /\ MovedC(n)' = Units(n, Place(n), k)
      BY <1>2, <2>1, <2>2 DEF StageC, MovedC, At, Position
    <3> QED BY <2>1, <3>1, CpuView
  <2>4. CpuCalm(n)'
    <3>1. CurrentOp(n)' = CurrentOp(n)
      BY <2>1 DEF CurrentOp, Position
    <3> QED BY <1>1, <1>2, <1>5, <2>2, <3>1 DEF CpuCalm, CpuSends, CpuReceives, At
  <2> QED BY <2>2, <2>3, <2>4
<1>6. ASSUME ~(k < Now(n).count) PROVE sends
  <2>1. /\ Lookup(n, l, "ACK", "MPI_RECV_INT", "READY", "WAIT_ACK")
        /\ ~Cached(n, "ACK", "MPI_RECV_INT") => got' = got
    BY <1>2, <1>6 DEF CpuSendData
  <2>2. l \in Library /\ l.cache = cpu[n].cache
    BY <1>1 DEF Library
  <2> HIDE DEF l
  <2>3. /\ cpu'[n].pc = "WAIT_ACK" /\ cpu'[n].cache = cpu[n].cache
        /\ ~Cached(n, "ACK", "MPI_RECV_INT")
    BY <1>2, <2>1, <2>2, LookupFails
  <2>4. got' = got /\ k = Now(n).count
    BY <1>1, <1>2, <1>6, <2>1, <2>3
  <2>5. Stage(n)' = "sending" /\ Moved(n)' = Units(n, Place(n), k) /\ Result(n)' = Result(n)
    <3>1. StageC(n)' = "sending" /\ MovedC(n)' = Payload(n, Place(n))
      BY <1>2, <2>3, <2>4 DEF StageC, MovedC, At, Position
    <3>2. Payload(n, Place(n)) = Units(n, Place(n), k)
      BY <2>4 DEF Payload, Units, Now
    <3> QED BY <2>4, <3>1, <3>2, CpuView
  <2>6. CpuCalm(n)'
    BY <1>1, <2>3, <2>4 DEF CpuCalm, CpuSends, CpuReceives, CurrentOp, Position, At
  <2> QED BY <2>3, <2>5, <2>6
<1>11. sends
  BY <1>5, <1>6
<1>7. OthersStay(n) /\ QueuesStay /\ KeptStays /\ Queue(n, q) = << >>
  BY <1>1, <1>2, <1>11, CpuFrame, CpuKeeps
<1> HIDE DEF p, q
<1>8. Gives(n, q, p) /\ Unlooped'
  BY <1>1, <1>2, <1>4, <1>7, Writing
<1>9. Len(Moved(n)) < Now(n).count /\ p = Part(n, Place(n), Len(Moved(n)) + 1)
      /\ k = Len(Moved(n)) + 1
  BY <1>1, <1>2, <1>3 DEF p
<1> HIDE DEF k
<1>10. Transfers(n, <<n, Place(n), Len(Moved(n)) + 1>>)
  BY <1>2, <1>3, <1>7, <1>9, <1>11 DEF Transfers
<1> QED BY <1>2, <1>7, <1>8, <1>9, <1>10, <1>11 DEF SendPart, q

(* The library reads a packet while it waits for data.                     *)
LEMMA WaitDataHs ==
  ASSUME IInv, HsInv, Unlooped, Window = 1, NamesAgree, WellPaired, NEW n \in Cpu, CpuCalm(n),
         NEW s \in Rank, NEW i \in Arriving(<<s, n>>), WaitData(n, s, i), UNCHANGED mpeVars
  PROVE  /\ s # n /\ (HearPart(n, s) \/ Keep(n, s))
         /\ CpuCalm(n)' /\ Unlooped'
<1> DEFINE p == net[<<s, n>>][i]
           b == cpu[n].buffer
<1>1. /\ CpuStep(n) /\ got' = got /\ cpu[n].pc = "WAIT_DATA" /\ Consume(s, n, i)
      /\ CurrentOp(n).call \in RecvCalls /\ Running(n) /\ Len(b) < CurrentOp(n).count
  BY DEF CpuStep, WaitData, At, CpuCalm, CpuReceives, IInv, CpuInv, CpuBusy
<1>2. /\ n \in Rank /\ s # n /\ Way(s, n) # << >> /\ p = Head(Way(s, n)) /\ p \in Packet
      /\ Takes(n, s) /\ Unlooped' /\ OthersStay(n) /\ cpu[n] \in Library
  BY <1>1, CpuReading
<1>3. /\ Now(n).peer = Peer(n) /\ Stage(n) = "receiving" /\ Moved(n) = b
      /\ CurrentOp(n) = Now(n) /\ Now(n).count \in Nat
      /\ b \in Seq(Unit) /\ Len(b) \in Nat
  BY <1>1, <1>2, CpuCallOf, CpuView DEF StageC, MovedC, At, Library
<1> HIDE DEF p, b
<1>4. \/ /\ p.type \in {"DATA", "CONT"} /\ Comes(n, s, {"DATA", "CONT"})
         /\ p = Part(s, Place(s), Len(b) + 1) /\ Streams(s, n) /\ Hears(n, s)
         /\ p.src = s
      \/ p.type = "SEND_REQUEST"
  BY <1>2, <1>3, ReadPacket DEF Asks, Streams, Busy
<1>5. CASE /\ p.type \in {"DATA", "CONT"} /\ Comes(n, s, {"DATA", "CONT"})
           /\ p = Part(s, Place(s), Len(b) + 1) /\ Streams(s, n) /\ Hears(n, s)
           /\ p.src = s
  <2> DEFINE buffer == Append(b, p.unit)
             place == IF Len(b) + 1 >= Now(n).count THEN "SEND_ACK" ELSE "WAIT_DATA"
  <2>1. s = Peer(n)
    BY <1>3, <1>5 DEF Hears, Busy
  <2>2. b = << >> => p.type = "DATA" /\ p.call = "MPI_SEND_INT"
    <3>1. /\ Place(s) \in 1 .. Len(Program[s]) /\ Program[s][Place(s)].call \in SendCalls
          /\ Program[s][Place(s)].peer = n
      BY <1>5, PositionOf DEF Streams, Busy, HsInv, Own, Now
    <3>2. Named(s, Program[s][Place(s)].call) = "MPI_SEND_INT"
      BY <3>1, CpuReadsNames
    <3>3. b = << >> => Len(b) + 1 = 1
      OBVIOUS
    <3> QED BY <1>5, <3>2, <3>3 DEF Part, DataPacket
  <2>3. b # << >> => p.type = "CONT"
    <3>1. b # << >> => Len(b) + 1 # 1
      BY <1>3
    <3> QED BY <1>5, <3>1 DEF Part, ContPacket
  <2>4. \/ b = << >> /\ HasHeader(p) /\ Matches(HeaderOf(p), "DATA", "MPI_SEND_INT", Peer(n))
        \/ b # << >> /\ ~HasHeader(p)
    BY <1>5, <2>1, <2>2, <2>3 DEF HasHeader, Matches, HeaderOf
  <2>5. cpu' = [cpu EXCEPT ![n] = [@ EXCEPT !.buffer = buffer, !.pc = place]]
    BY <1>3, <2>1, <2>4 DEF WaitData, Complete, p, b
  <2>6. cpu'[n] = [cpu[n] EXCEPT !.buffer = buffer, !.pc = place]
    BY <2>5 DEF IInv, CpuInv, CpuTypeOK
  <2>7. /\ cpu'[n].pc = place /\ cpu'[n].buffer = buffer /\ cpu'[n].cache = cpu[n].cache
        /\ cpu'[n].sent = cpu[n].sent
    <3> HIDE DEF place, buffer
    <3> QED BY <1>2, <2>6 DEF Library
  <2>8. Stage(n)' = "receiving" /\ Moved(n)' = Append(Moved(n), p.unit) /\ Result(n)' = Result(n)
    <3>1. StageC(n)' = "receiving" /\ MovedC(n)' = buffer
      <4> HIDE DEF buffer
      <4> QED BY <2>7 DEF StageC, MovedC, At
    <3> QED BY <1>1, <1>3, <3>1, CpuView
  <2>9. KeptStays
    BY <1>1, <2>7, CpuKeeps
  <2>10. CpuCalm(n)'
    <3>1. CurrentOp(n)' = Now(n)
      BY <1>1, <1>3 DEF CurrentOp, Position
    <3>2. Len(buffer) = Len(b) + 1
      <4>1. p.unit \in Unit
        BY <1>2 DEF Packet
      <4> QED BY <1>3, <4>1
    <3>3. Len(b) < Now(n).count /\ Now(n).call \in RecvCalls
      BY <1>1, <1>3
    <3> HIDE DEF buffer
    <3>4. CASE place = "SEND_ACK"
      BY <1>3, <2>7, <3>1, <3>2, <3>3, <3>4 DEF CpuCalm, CpuSends, CpuReceives, At
    <3>5. CASE place # "SEND_ACK"
      BY <1>3, <2>7, <3>1, <3>2, <3>3, <3>5 DEF CpuCalm, CpuSends, CpuReceives, At
    <3> QED BY <3>4, <3>5
  <2>11. Transfers(n, Head(Way(s, n)).unit)
    BY <1>2, <1>3, <2>8 DEF Transfers
  <2> QED BY <1>2, <1>3, <1>5, <2>1, <2>9, <2>10, <2>11 DEF HearPart
<1>6. CASE p.type = "SEND_REQUEST"
  <2>1. HasHeader(p) /\ ~Matches(HeaderOf(p), "DATA", "MPI_SEND_INT", Peer(n))
    BY <1>6 DEF HasHeader, Matches, HeaderOf
  <2>2. cpu' = [cpu EXCEPT ![n] = PutIntoCache(@, p)]
    BY <2>1 DEF WaitData, p
  <2> QED BY <1>1, <1>2, <1>6, <2>2, CpuPutsAside DEF p
<1> QED BY <1>4, <1>5, <1>6

(* Every step of a CPU rank is a step of the protocol.                     *)
LEMMA CpuStepHs ==
  ASSUME IInv, HsInv, Unlooped, Window = 1, NamesAgree, WellPaired, NEW n \in Cpu, CpuCalm(n),
         CpuStep(n), UNCHANGED mpeVars
  PROVE  /\ HsStays \/ \E q \in Rank : q # n /\ HsStep(n, q)
         /\ CpuCalm(n)' /\ Unlooped'
<1>1. n \in Rank /\ (RecvCall(n) => Peer(n) \in Rank /\ Peer(n) # n)
      /\ (CpuSendRequest(n) => Peer(n) \in Rank /\ Peer(n) # n)
  BY CpuView, CpuCallOf DEF RecvCall, CpuSendRequest, At, IInv, CpuInv, CpuBusy
<1>2. CASE SendCall(n)
  BY <1>2, SendCallHs
<1>3. CASE RecvCall(n)
  BY <1>1, <1>3, RecvCallHs DEF HsStep
<1>4. CASE CpuSendRequest(n)
  BY <1>1, <1>4, CpuSendRequestHs DEF HsStep
<1>5. CASE CpuSendData(n)
  BY <1>1, <1>5, CpuSendDataHs DEF HsStep
<1>6. CASE CpuSendClear(n)
  BY <1>1, <1>6, CpuSendClearHs DEF HsStep
<1>7. CASE CpuSendAck(n)
  BY <1>1, <1>7, CpuSendAckHs DEF HsStep
<1>8. ASSUME NEW s \in Rank, NEW i \in Arriving(<<s, n>>), WaitClear(n, s, i)
      PROVE  s # n /\ HsStep(n, s) /\ CpuCalm(n)' /\ Unlooped'
  BY <1>8, WaitClearHs DEF HsStep
<1>9. ASSUME NEW s \in Rank, NEW i \in Arriving(<<s, n>>), WaitAck(n, s, i)
      PROVE  s # n /\ HsStep(n, s) /\ CpuCalm(n)' /\ Unlooped'
  BY <1>9, WaitAckHs DEF HsStep
<1>10. ASSUME NEW s \in Rank, NEW i \in Arriving(<<s, n>>), WaitRequest(n, s, i)
       PROVE  s # n /\ HsStep(n, s) /\ CpuCalm(n)' /\ Unlooped'
  BY <1>10, WaitRequestHs DEF HsStep
<1>11. ASSUME NEW s \in Rank, NEW i \in Arriving(<<s, n>>), WaitData(n, s, i)
       PROVE  s # n /\ HsStep(n, s) /\ CpuCalm(n)' /\ Unlooped'
  BY <1>11, WaitDataHs DEF HsStep
<1> QED BY <1>2, <1>3, <1>4, <1>5, <1>6, <1>7, <1>8, <1>9, <1>10, <1>11 DEF CpuStep

=============================================================================
