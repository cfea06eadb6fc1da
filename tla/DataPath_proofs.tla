--------------------------- MODULE DataPath_proofs ---------------------------
(***************************************************************************)
(* What holds of the data path for all values of its constants, and with   *)
(* every loss: packets are bounded, and the receiver's memory is kept.     *)
(*                                                                         *)
(* First the bound.  pDeqSend keeps no length of the packet it writes: it  *)
(* keeps `cnt`, and resets it in some of the branches that complete a      *)
(* packet but not in all.  The invariant ties `cnt` to the length, state   *)
(* by state.                                                               *)
(***************************************************************************)
EXTENDS DataPath, SequenceTheorems, TLAPS

IsSeq(s) == \E S : s \in Seq(S)

(* A packet in flight. *)
Fits(p) == IsSeq(p) /\ p # << >> /\ Len(p) <= MaxLines + 1

NetFits(packets) == \E S : packets \in Seq(S) /\ \A p \in S : Fits(p)

(* The registers of pDeqSend that decide where a packet ends. *)
Registers ==
  /\ dq = [state |-> dq.state, cnt |-> dq.cnt, second |-> dq.second,
           goToDone |-> dq.goToDone, startWithSecond |-> dq.startWithSecond,
           packet |-> dq.packet]
  /\ net = [packets |-> net.packets, losses |-> net.losses]

Counted ==
  /\ dq.cnt \in 0 .. MaxLines - 1
  /\ IsSeq(dq.packet)
  /\ dq.state \in {"DEQ_IDLE", "DEQ_START", "DEQ_WRITE", "DEQ_WRITE_2", "DEQ_DONE"}
  /\ dq.state \in {"DEQ_IDLE", "DEQ_START", "DEQ_DONE"} => dq.packet = << >>
  /\ dq.state = "DEQ_START" => dq.cnt = 0
  /\ dq.state = "DEQ_WRITE" => Len(dq.packet) = dq.cnt
  /\ dq.state = "DEQ_WRITE_2" =>
       Len(dq.packet) = IF dq.goToDone THEN dq.cnt + 1 ELSE dq.cnt

PacketInv == Registers /\ Counted /\ NetFits(net.packets)

-----------------------------------------------------------------------------
(* Appending to a sequence makes it one longer, whatever is appended. *)
LEMMA AppendAny ==
  ASSUME NEW s, NEW e, IsSeq(s)
  PROVE  /\ IsSeq(Append(s, e)) /\ Append(s, e) # << >>
         /\ Len(s) \in Nat /\ Len(Append(s, e)) = Len(s) + 1
<1>1. PICK S : s \in Seq(S)
  BY DEF IsSeq
<1>2. s \in Seq(S \cup {e})
  BY <1>1, SeqMonotonic
<1>3. e \in S \cup {e}
  OBVIOUS
<1> QED BY <1>2, <1>3, AppendProperties, LenProperties DEF IsSeq

LEMMA EmptyIsSeq == IsSeq(<< >>) /\ Len(<< >>) = 0
BY EmptySeq DEF IsSeq

(* A packet that is complete joins the ones in flight. *)
LEMMA SendFits ==
  ASSUME NEW packets, NEW p, NetFits(packets), Fits(p)
  PROVE  NetFits(Append(packets, p))
<1>1. PICK S : packets \in Seq(S) /\ \A q \in S : Fits(q)
  BY DEF NetFits
<1>2. packets \in Seq(S \cup {p}) /\ \A q \in S \cup {p} : Fits(q)
  BY <1>1, SeqMonotonic
<1>3. Append(packets, p) \in Seq(S \cup {p})
  BY <1>2, AppendProperties
<1> QED BY <1>2, <1>3 DEF NetFits

(* A packet is lost. *)
LEMMA LoseFits ==
  ASSUME NEW packets, NetFits(packets), NEW i \in DOMAIN packets
  PROVE  NetFits(SubSeq(packets, 1, i - 1) \o SubSeq(packets, i + 1, Len(packets)))
<1>1. PICK S : packets \in Seq(S) /\ \A q \in S : Fits(q)
  BY DEF NetFits
<1>2. i \in 1 .. Len(packets) /\ Len(packets) \in Nat
  BY <1>1, LenProperties
<1>3. \A j \in 1 .. Len(packets) : packets[j] \in S
  BY <1>1, ElementOfSeq
<1>4. SubSeq(packets, 1, i - 1) \in Seq(S)
  <2>1. \A j \in 1 .. i - 1 : packets[j] \in S
    BY <1>2, <1>3
  <2> QED BY <2>1, <1>2, SubSeqProperties
<1>5. SubSeq(packets, i + 1, Len(packets)) \in Seq(S)
  <2>1. \A j \in i + 1 .. Len(packets) : packets[j] \in S
    BY <1>2, <1>3
  <2> QED BY <2>1, <1>2, SubSeqProperties
<1>6. SubSeq(packets, 1, i - 1) \o SubSeq(packets, i + 1, Len(packets)) \in Seq(S)
  BY <1>4, <1>5, ConcatProperties
<1> QED BY <1>1, <1>6 DEF NetFits

(* The receiver takes the first line of a packet. *)
LEMMA TakeFits ==
  ASSUME NEW packets, NetFits(packets), packets # << >>
  PROVE  /\ NetFits(Tail(packets))
         /\ Tail(Head(packets)) # << >> =>
              NetFits(<<Tail(Head(packets))>> \o Tail(packets))
<1> DEFINE p == Head(packets)
           rest == Tail(p)
<1>1. PICK S : packets \in Seq(S) /\ \A q \in S : Fits(q)
  BY DEF NetFits
<1>2. p \in S /\ Tail(packets) \in Seq(S)
  BY <1>1, HeadTailProperties
<1>3. NetFits(Tail(packets))
  BY <1>1, <1>2 DEF NetFits
<1>4. ASSUME rest # << >> PROVE NetFits(<<rest>> \o Tail(packets))
  <2>1. PICK T : p \in Seq(T)
    BY <1>1, <1>2 DEF Fits, IsSeq
  <2>2. p # << >> /\ Len(p) <= MaxLines + 1
    BY <1>1, <1>2 DEF Fits
  <2>3. rest \in Seq(T) /\ Len(rest) = Len(p) - 1 /\ Len(p) \in Nat
    BY <2>1, <2>2, HeadTailProperties, LenProperties
  <2>4. Fits(rest)
    BY <2>2, <2>3, <1>4, DataPathAssumption DEF Fits, IsSeq
  <2>5. \A q \in S \cup {rest} : Fits(q)
    BY <1>1, <2>4
  <2>6. Tail(packets) \in Seq(S \cup {rest})
    BY <1>2, SeqMonotonic
  <2>7. <<rest>> \in Seq(S \cup {rest})
    OBVIOUS
  <2>8. <<rest>> \o Tail(packets) \in Seq(S \cup {rest})
    BY <2>6, <2>7, ConcatProperties
  <2> QED BY <2>5, <2>8 DEF NetFits
<1> QED BY <1>3, <1>4

-----------------------------------------------------------------------------
LEMMA InitPacketInv == Init => PacketInv
<1> SUFFICES ASSUME Init PROVE PacketInv
  OBVIOUS
<1>1. Registers
  BY DEF Init, Registers
<1>2. Counted
  BY EmptyIsSeq, DataPathAssumption DEF Init, Counted
<1>3. NetFits(net.packets)
  <2>1. net.packets = << >>
    BY DEF Init
  <2>2. << >> \in Seq({})
    BY EmptySeq
  <2> QED BY <2>1, <2>2 DEF NetFits
<1> QED BY <1>1, <1>2, <1>3 DEF PacketInv

(* A line is written, and the packet goes on. *)
LEMMA EmitGoesOn ==
  ASSUME PacketInv, NEW STATE regs, NEW STATE line, Emit(regs, line, FALSE)
  PROVE  /\ dq' = [regs EXCEPT !.packet = Append(@, line)]
         /\ NetFits(net'.packets)
BY DEF Emit, PacketInv

(* A line is written, and completes the packet. *)
LEMMA EmitCompletes ==
  ASSUME PacketInv, Len(dq.packet) <= MaxLines,
         NEW STATE regs, NEW STATE line, Emit(regs, line, TRUE)
  PROVE  /\ dq' = [regs EXCEPT !.packet = << >>]
         /\ NetFits(net'.packets)
<1> DEFINE p == Append(dq.packet, line)
<1>1. IsSeq(dq.packet) /\ NetFits(net.packets)
  BY DEF PacketInv, Counted
<1>2. Fits(p)
  <2>1. IsSeq(p) /\ p # << >> /\ Len(dq.packet) \in Nat /\ Len(p) = Len(dq.packet) + 1
    BY <1>1, AppendAny
  <2> HIDE DEF p
  <2>2. Len(p) <= MaxLines + 1
    BY <2>1, DataPathAssumption
  <2> QED BY <2>1, <2>2 DEF Fits
<1>3. NetFits(Append(net.packets, p))
  BY <1>1, <1>2, SendFits
<1>4. net'.packets = Append(net.packets, p) /\ dq' = [regs EXCEPT !.packet = << >>]
  <2>1. net' = [net EXCEPT !.packets = Append(@, p)] /\ dq' = [regs EXCEPT !.packet = << >>]
    BY DEF Emit
  <2>2. net = [packets |-> net.packets, losses |-> net.losses]
    BY DEF PacketInv, Registers
  <2> HIDE DEF p
  <2> QED BY <2>1, <2>2
<1> QED BY <1>3, <1>4

-----------------------------------------------------------------------------
(* The steps of pDeqSend. *)

LEMMA DeqIdlePacketInv == PacketInv /\ DeqIdle => PacketInv'
<1> SUFFICES ASSUME PacketInv, DeqIdle PROVE PacketInv'
  OBVIOUS
<1>1. dq' = [dq EXCEPT !.state = "DEQ_START", !.cnt = 0, !.startWithSecond = FALSE]
      /\ net' = net /\ dq.state = "DEQ_IDLE"
  BY DEF DeqIdle
<1>2. Registers'
  BY <1>1 DEF PacketInv, Registers
<1>3. Counted'
  BY <1>1, EmptyIsSeq, DataPathAssumption DEF PacketInv, Registers, Counted
<1> QED BY <1>1, <1>2, <1>3 DEF PacketInv

(* The first line of a beat: a packet is cut or goes on, the message ends  *)
(* or does not.                                                            *)
LEMMA FirstLinePacketInv ==
  ASSUME PacketInv, NEW STATE b, dq.state \in {"DEQ_START", "DEQ_WRITE"}, FirstLine(b)
  PROVE  PacketInv'
<1> DEFINE regs == [dq EXCEPT !.second = Second(b), !.goToDone = b.last]
<1>1. Registers /\ Counted /\ Len(dq.packet) = dq.cnt
  BY EmptyIsSeq DEF PacketInv, Counted
<1>2. Len(dq.packet) <= MaxLines /\ Len(dq.packet) \in Nat /\ MaxLines \in Nat
  BY <1>1, DataPathAssumption DEF Counted
<1>3. ASSUME NEW STATE line
      PROVE  IsSeq(Append(dq.packet, line)) /\ Len(Append(dq.packet, line)) = dq.cnt + 1
  BY <1>1, AppendAny DEF Counted
<1>4. CASE b.last /\ Len(b.lines) = 2
  <2>1. Emit([regs EXCEPT !.state = "DEQ_WRITE_2"], b.lines[1], FALSE)
    BY <1>4 DEF FirstLine
  <2>2. /\ dq' = [[regs EXCEPT !.state = "DEQ_WRITE_2"] EXCEPT !.packet = Append(@, b.lines[1])]
        /\ NetFits(net'.packets)
    BY <2>1, EmitGoesOn
  <2>3. /\ dq'.state = "DEQ_WRITE_2" /\ dq'.cnt = dq.cnt /\ dq'.packet = Append(dq.packet, b.lines[1])
        /\ dq'.goToDone = b.last
    BY <1>1, <2>2 DEF Registers
  <2>4. Registers'
    BY <1>1, <2>1, <2>2 DEF Registers, Emit
  <2>5. Counted'
    BY <1>1, <1>2, <1>3, <1>4, <2>3, EmptyIsSeq, DataPathAssumption DEF Counted, PacketFull
  <2> QED BY <2>2, <2>4, <2>5 DEF PacketInv
<1>5. CASE b.last /\ Len(b.lines) # 2
  <2>1. Emit([regs EXCEPT !.state = "DEQ_DONE"], b.lines[1], TRUE)
    BY <1>5 DEF FirstLine
  <2>2. /\ dq' = [[regs EXCEPT !.state = "DEQ_DONE"] EXCEPT !.packet = << >>]
        /\ NetFits(net'.packets)
    BY <2>1, <1>2, EmitCompletes
  <2>3. /\ dq'.state = "DEQ_DONE" /\ dq'.cnt = dq.cnt /\ dq'.packet = << >>
        /\ dq'.goToDone = b.last
    BY <1>1, <2>2 DEF Registers
  <2>4. Registers'
    BY <1>1, <2>1, <2>2 DEF Registers, Emit
  <2>5. Counted'
    BY <1>1, <1>2, <1>3, <1>5, <2>3, EmptyIsSeq, DataPathAssumption DEF Counted, PacketFull
  <2> QED BY <2>2, <2>4, <2>5 DEF PacketInv
<1>6. CASE ~b.last /\ PacketFull
  <2>1. Emit([regs EXCEPT !.state = "DEQ_START", !.cnt = 0, !.startWithSecond = Len(b.lines) = 2], b.lines[1], TRUE)
    BY <1>6 DEF FirstLine
  <2>2. /\ dq' = [[regs EXCEPT !.state = "DEQ_START", !.cnt = 0, !.startWithSecond = Len(b.lines) = 2] EXCEPT !.packet = << >>]
        /\ NetFits(net'.packets)
    BY <2>1, <1>2, EmitCompletes
  <2>3. /\ dq'.state = "DEQ_START" /\ dq'.cnt = 0 /\ dq'.packet = << >>
        /\ dq'.goToDone = b.last
    BY <1>1, <2>2 DEF Registers
  <2>4. Registers'
    BY <1>1, <2>1, <2>2 DEF Registers, Emit
  <2>5. Counted'
    BY <1>1, <1>2, <1>3, <1>6, <2>3, EmptyIsSeq, DataPathAssumption DEF Counted, PacketFull
  <2> QED BY <2>2, <2>4, <2>5 DEF PacketInv
<1>7. CASE ~b.last /\ ~PacketFull
  <2>1. Emit([regs EXCEPT !.state = "DEQ_WRITE_2", !.cnt = @ + 1], b.lines[1], FALSE)
    BY <1>7 DEF FirstLine
  <2>2. /\ dq' = [[regs EXCEPT !.state = "DEQ_WRITE_2", !.cnt = @ + 1] EXCEPT !.packet = Append(@, b.lines[1])]
        /\ NetFits(net'.packets)
    BY <2>1, EmitGoesOn
  <2>3. /\ dq'.state = "DEQ_WRITE_2" /\ dq'.cnt = dq.cnt + 1 /\ dq'.packet = Append(dq.packet, b.lines[1])
        /\ dq'.goToDone = b.last
    BY <1>1, <2>2 DEF Registers
  <2>4. Registers'
    BY <1>1, <2>1, <2>2 DEF Registers, Emit
  <2>5. Counted'
    BY <1>1, <1>2, <1>3, <1>7, <2>3, EmptyIsSeq, DataPathAssumption DEF Counted, PacketFull
  <2> QED BY <2>2, <2>4, <2>5 DEF PacketInv
<1> QED BY <1>4, <1>5, <1>6, <1>7

(* The line that is kept from the last packet starts the next one. *)
LEMMA DeqStartWithSecondPacketInv == PacketInv /\ DeqStartWithSecond => PacketInv'
<1> DEFINE regs == [dq EXCEPT !.state = "DEQ_WRITE", !.cnt = @ + 1, !.goToDone = FALSE,
                              !.startWithSecond = FALSE]
<1> SUFFICES ASSUME PacketInv, DeqStartWithSecond PROVE PacketInv'
  OBVIOUS
<1>1. Registers /\ Counted /\ dq.packet = << >> /\ dq.cnt = 0
  BY DEF PacketInv, Counted, DeqStartWithSecond
<1>2. Emit(regs, dq.second, FALSE)
  BY DEF DeqStartWithSecond
<1>3. dq' = [regs EXCEPT !.packet = Append(@, dq.second)] /\ NetFits(net'.packets)
  BY <1>2, EmitGoesOn
<1>4. dq'.state = "DEQ_WRITE" /\ dq'.cnt = 1 /\ dq'.packet = Append(dq.packet, dq.second)
  <2>1. Registers /\ dq.cnt = 0
    BY <1>1
  <2>2. dq'.cnt = dq.cnt + 1 /\ dq'.packet = Append(dq.packet, dq.second)
    BY <1>3, <2>1 DEF Registers
  <2>3. dq'.state = "DEQ_WRITE"
    BY <1>3, <2>1 DEF Registers
  <2> QED BY <2>1, <2>2, <2>3
<1>5. IsSeq(Append(dq.packet, dq.second)) /\ Len(Append(dq.packet, dq.second)) = 1
  <2>1. Len(dq.packet) = 0 /\ IsSeq(dq.packet)
    BY <1>1, EmptyIsSeq
  <2> QED BY <2>1, AppendAny
<1>6. Registers'
  BY <1>1, <1>2, <1>3 DEF Registers, Emit
<1>7. Counted'
  BY <1>4, <1>5, DataPathAssumption DEF Counted
<1> QED BY <1>3, <1>6, <1>7 DEF PacketInv

(* The second line of a beat.  If the message ends here, the length of the *)
(* packet is not looked at: this is where it gets one line too long.       *)
LEMMA DeqWrite2PacketInv == PacketInv /\ DeqWrite2 => PacketInv'
<1> SUFFICES ASSUME PacketInv, DeqWrite2 PROVE PacketInv'
  OBVIOUS
<1>1. /\ Registers /\ Counted
      /\ Len(dq.packet) = IF dq.goToDone THEN dq.cnt + 1 ELSE dq.cnt
  BY DEF PacketInv, Counted, DeqWrite2
<1>2. Len(dq.packet) <= MaxLines /\ Len(dq.packet) \in Nat /\ MaxLines \in Nat
  BY <1>1, DataPathAssumption DEF Counted
<1>3. /\ IsSeq(Append(dq.packet, dq.second))
      /\ Len(Append(dq.packet, dq.second)) = Len(dq.packet) + 1
  BY <1>1, AppendAny DEF Counted
<1>4. CASE dq.goToDone
  <2>1. Emit([dq EXCEPT !.state = "DEQ_DONE"], dq.second, TRUE)
    BY <1>4 DEF DeqWrite2
  <2>2. /\ dq' = [[dq EXCEPT !.state = "DEQ_DONE"] EXCEPT !.packet = << >>]
        /\ NetFits(net'.packets)
    BY <2>1, <1>2, <1>4, EmitCompletes DEF PacketFull
  <2>3. /\ dq'.state = "DEQ_DONE" /\ dq'.cnt = dq.cnt /\ dq'.packet = << >>
    BY <1>1, <2>2 DEF Registers
  <2>4. Registers'
    BY <1>1, <2>1, <2>2 DEF Registers, Emit
  <2>5. Counted'
    BY <1>1, <1>2, <1>3, <1>4, <2>3, EmptyIsSeq, DataPathAssumption DEF Counted, PacketFull
  <2> QED BY <2>2, <2>4, <2>5 DEF PacketInv
<1>5. CASE ~dq.goToDone /\ PacketFull
  <2>1. Emit([dq EXCEPT !.state = "DEQ_START", !.cnt = 0], dq.second, TRUE)
    BY <1>5 DEF DeqWrite2
  <2>2. /\ dq' = [[dq EXCEPT !.state = "DEQ_START", !.cnt = 0] EXCEPT !.packet = << >>]
        /\ NetFits(net'.packets)
    BY <2>1, <1>2, <1>5, EmitCompletes DEF PacketFull
  <2>3. /\ dq'.state = "DEQ_START" /\ dq'.cnt = 0 /\ dq'.packet = << >>
    BY <1>1, <2>2 DEF Registers
  <2>4. Registers'
    BY <1>1, <2>1, <2>2 DEF Registers, Emit
  <2>5. Counted'
    BY <1>1, <1>2, <1>3, <1>5, <2>3, EmptyIsSeq, DataPathAssumption DEF Counted, PacketFull
  <2> QED BY <2>2, <2>4, <2>5 DEF PacketInv
<1>6. CASE ~dq.goToDone /\ ~PacketFull
  <2>1. Emit([dq EXCEPT !.state = "DEQ_WRITE", !.cnt = @ + 1], dq.second, FALSE)
    BY <1>6 DEF DeqWrite2
  <2>2. /\ dq' = [[dq EXCEPT !.state = "DEQ_WRITE", !.cnt = @ + 1] EXCEPT !.packet = Append(@, dq.second)]
        /\ NetFits(net'.packets)
    BY <2>1, EmitGoesOn
  <2>3. /\ dq'.state = "DEQ_WRITE" /\ dq'.cnt = dq.cnt + 1 /\ dq'.packet = Append(dq.packet, dq.second)
    BY <1>1, <2>2 DEF Registers
  <2>4. Registers'
    BY <1>1, <2>1, <2>2 DEF Registers, Emit
  <2>5. Counted'
    BY <1>1, <1>2, <1>3, <1>6, <2>3, EmptyIsSeq, DataPathAssumption DEF Counted, PacketFull
  <2> QED BY <2>2, <2>4, <2>5 DEF PacketInv
<1> QED BY <1>4, <1>5, <1>6

LEMMA DeqDonePacketInv == PacketInv /\ DeqDone => PacketInv'
<1> SUFFICES ASSUME PacketInv, DeqDone PROVE PacketInv'
  OBVIOUS
<1>1. dq' = [dq EXCEPT !.state = "DEQ_IDLE", !.goToDone = FALSE] /\ net' = net
  BY DEF DeqDone
<1>2. Registers'
  BY <1>1 DEF PacketInv, Registers
<1>3. Counted'
  BY <1>1 DEF PacketInv, Registers, Counted, DeqDone
<1> QED BY <1>1, <1>2, <1>3 DEF PacketInv

-----------------------------------------------------------------------------
(* The steps that take packets from the network, and all others. *)

LEMMA LosePacketInv == PacketInv /\ Lose => PacketInv'
<1> SUFFICES ASSUME PacketInv, Lose PROVE PacketInv'
  OBVIOUS
<1>1. PICK i \in DOMAIN net.packets :
        net' = [packets |-> SubSeq(net.packets, 1, i - 1)
                              \o SubSeq(net.packets, i + 1, Len(net.packets)),
                losses |-> net.losses + 1]
  BY DEF Lose
<1>2. dq' = dq
  BY DEF Lose
<1>3. NetFits(net'.packets)
  BY <1>1, LoseFits DEF PacketInv
<1>4. Registers'
  BY <1>1, <1>2 DEF PacketInv, Registers
<1>5. Counted'
  BY <1>2 DEF PacketInv, Counted
<1> QED BY <1>3, <1>4, <1>5 DEF PacketInv

LEMMA EnqTcpInPacketInv == PacketInv /\ EnqTcpIn => PacketInv'
<1> DEFINE rest == Tail(Head(net.packets))
<1> SUFFICES ASSUME PacketInv, EnqTcpIn PROVE PacketInv'
  OBVIOUS
<1>1. /\ dq' = dq
      /\ net' = [net EXCEPT !.packets = IF rest = << >> THEN Tail(@) ELSE <<rest>> \o Tail(@)]
      /\ net.packets # << >>
  BY DEF EnqTcpIn
<1>2. Registers
  BY DEF PacketInv
<1>3. net'.packets = IF rest = << >> THEN Tail(net.packets) ELSE <<rest>> \o Tail(net.packets)
  BY <1>1, <1>2 DEF Registers
<1>4. NetFits(net'.packets)
  BY <1>1, <1>3, TakeFits DEF PacketInv
<1>5. Registers'
  BY <1>1, <1>2 DEF Registers
<1>6. Counted'
  BY <1>1 DEF PacketInv, Counted
<1> QED BY <1>4, <1>5, <1>6 DEF PacketInv

LEMMA OtherPacketInv == PacketInv /\ UNCHANGED <<dq, net>> => PacketInv'
BY DEF PacketInv, Registers, Counted

LEMMA NextPacketInv == PacketInv /\ [Next]_vars => PacketInv'
<1> SUFFICES ASSUME PacketInv, [Next]_vars PROVE PacketInv'
  OBVIOUS
<1>1. CASE DeqIdle
  BY <1>1, DeqIdlePacketInv
<1>2. CASE DeqStart
  BY <1>2, FirstLinePacketInv DEF DeqStart
<1>3. CASE DeqStartWithSecond
  BY <1>3, DeqStartWithSecondPacketInv
<1>4. CASE DeqWrite
  BY <1>4, FirstLinePacketInv DEF DeqWrite
<1>5. CASE DeqWrite2
  BY <1>5, DeqWrite2PacketInv
<1>6. CASE DeqDone
  BY <1>6, DeqDonePacketInv
<1>7. CASE Lose
  BY <1>7, LosePacketInv
<1>8. CASE EnqTcpIn
  BY <1>8, EnqTcpInPacketInv
<1>9. CASE \/ SendWriteData \/ SendFinish \/ EnqMpiData
           \/ SendDataStart \/ SendDataStart1 \/ SendDataRd \/ SendDataWrd \/ Wait4Ack
  BY <1>9, OtherPacketInv DEF SendWriteData, SendFinish, EnqMpiData,
     SendDataStart, SendDataStart1, SendDataRd, SendDataWrd, Wait4Ack
<1>10. CASE \/ RecvDataMore \/ RecvDataStart \/ RecvDataStart1 \/ DrainDataStream
            \/ RecvDataRd \/ RecvDataWrd
  BY <1>10, OtherPacketInv DEF RecvDataMore, RecvDataStart, RecvDataStart1,
     DrainDataStream, RecvDataRd, RecvDataWrd
<1>11. CASE \/ DeqRecvIdle \/ DeqRecvWrite \/ DeqRecvWrite2 \/ DeqRecvDone
            \/ RecvReadDram \/ RecvReadData \/ RecvFinish
  BY <1>11, OtherPacketInv DEF DeqRecvIdle, DeqRecvWrite, DeqRecvWrite2, DeqRecvDone,
     RecvReadDram, RecvReadData, RecvFinish
<1>12. CASE RecvTimeout \/ SendTimeout
  BY <1>12, OtherPacketInv DEF RecvTimeout, SendTimeout
<1>13. CASE Terminated \/ UNCHANGED vars
  BY <1>13, OtherPacketInv DEF Terminated, vars
<1> QED
  BY <1>1, <1>2, <1>3, <1>4, <1>5, <1>6, <1>7, <1>8, <1>9, <1>10, <1>11, <1>12, <1>13
  DEF Next, TransferStep

LEMMA PacketInductive == Spec => []PacketInv
BY InitPacketInv, NextPacketInv, PTL DEF Spec

-----------------------------------------------------------------------------
(* No packet pDeqSend writes has more than MaxLines + 1 lines, whatever    *)
(* the length of the message: the one line too many of the run `oversize`  *)
(* is the worst that the order of the tests in DEQ_WRITE and DEQ_WRITE_2   *)
(* can do.                                                                 *)
THEOREM PacketsAreBounded == Spec => []PacketBound
<1>1. PacketInv => PacketBound
  <2> SUFFICES ASSUME PacketInv PROVE PacketBound
    OBVIOUS
  <2>1. Len(dq.packet) <= MaxLines + 1
    BY EmptyIsSeq, DataPathAssumption DEF PacketInv, Counted
  <2>2. \A i \in DOMAIN net.packets : Len(net.packets[i]) <= MaxLines + 1
    <3>1. PICK S : net.packets \in Seq(S) /\ \A p \in S : Fits(p)
      BY DEF PacketInv, NetFits
    <3> QED BY <3>1, LenProperties, ElementOfSeq DEF Fits
  <2> QED BY <2>1, <2>2 DEF PacketBound, AtMost
<1> QED BY <1>1, PacketInductive, PTL

-----------------------------------------------------------------------------
(***************************************************************************)
(* The memory of the receiver, for every length of a message, every window,*)
(* every loss and however often both calls begin again.                    *)
(*                                                                         *)
(* The wrapper stops where a line is marked as the last one, and stores    *)
(* words at the place it counted itself to.  pDeqRecv marks lines by a     *)
(* count of its own.  The invariant numbers the lines between the two: the *)
(* counts agree, whatever the lines hold, although a message may be cut by *)
(* a poison pill and its rest be taken for a part of the next attempt.     *)
(***************************************************************************)

(* The streams and flags are those that Init lists. *)
Streamed ==
  fifo = [mpiData |-> fifo.mpiData, mpiIn |-> fifo.mpiIn, tx |-> fifo.tx,
          tcpIn |-> fifo.tcpIn, rx |-> fifo.rx, app |-> fifo.app,
          destId |-> fifo.destId, sendDone |-> fifo.sendDone, meta |-> fifo.meta,
          expLen |-> fifo.expLen, recvDone |-> fifo.recvDone, ack |-> fifo.ack,
          sendFeedback |-> fifo.sendFeedback, recvFeedback |-> fifo.recvFeedback]

(* The lines of `s`, numbered from a within a message of e lines, and the  *)
(* number b of the line that comes next.                                   *)
Numbered(s, a, b, e) ==
  /\ IsSeq(s)
  /\ \E number \in [1 .. Len(s) + 1 -> Nat] :
       /\ number[1] = a /\ number[Len(s) + 1] = b
       /\ \A i \in 1 .. Len(s) :
            /\ s[i].last = (number[i] + 1 >= e)
            /\ number[i + 1] = IF number[i] + 1 >= e THEN 0 ELSE number[i] + 1

(* How many lines the wrapper holds of the message it receives. *)
Received == IF rw.state = "RECV_READ_DATA" THEN rw.i \div 2 ELSE 0

(* How many lines pDeqRecv has written of the message it is in. *)
Written == IF dr.state \in {"DEQ_WRITE", "DEQ_WRITE_2"} THEN dr.total ELSE 0

ReceiverRegisters ==
  /\ Streamed
  /\ dr = [state |-> dr.state, exp |-> dr.exp, total |-> dr.total, second |-> dr.second]
  /\ rw = [state |-> rw.state, i |-> rw.i, start |-> rw.start, max |-> rw.max,
           words |-> rw.words]
  /\ dr.state \in {"DEQ_IDLE", "DEQ_WRITE", "DEQ_WRITE_2", "DEQ_DONE"}
  /\ rw.state \in {"RECV_READ_DATA", "RECV_FINISH", "RECV_DONE"}

LinesCounted ==
  /\ fifo.expLen \in Seq({LineCnt(job.count)})
  /\ dr.state \in {"DEQ_WRITE", "DEQ_WRITE_2"} => dr.exp = LineCnt(job.count)
  /\ dr.total \in Nat
  /\ Numbered(fifo.app, Received, Written, LineCnt(job.count))

WordsInRange ==
  /\ rw.i \in Nat /\ rw.start \in Nat /\ rw.max = rw.start + Window
  /\ rw.start % 2 = 0
  /\ rw.state = "RECV_READ_DATA" => rw.i % 2 = 0 /\ rw.i < job.count
  /\ job.recvDram => rw.start <= rw.i /\ rw.i <= job.count
  /\ ~job.recvDram => rw.start = 0

(* A memory that holds nothing from word c on. *)
OnlyBelow(c, memory) ==
  /\ memory = [k \in 0 .. c + 1 |-> memory[k]]
  /\ \A k \in 0 .. c + 1 : k >= c => memory[k] = Old

MemoryAfter == OnlyBelow(job.count, dst)

BeyondInv ==
  /\ job.count \in Counts /\ ReceiverRegisters
  /\ job.count > 0 => LinesCounted /\ WordsInRange /\ MemoryAfter

-----------------------------------------------------------------------------
LEMMA NumberedNone ==
  ASSUME NEW e, NEW a \in Nat
  PROVE  Numbered(<< >>, a, a, e)
<1> DEFINE number == [i \in 1 .. 1 |-> a]
<1>1. number \in [1 .. Len(<< >>) + 1 -> Nat] /\ number[1] = a
  BY EmptyIsSeq
<1> HIDE DEF number
<1> QED BY <1>1, EmptyIsSeq DEF Numbered

(* pDeqRecv writes a line. *)
LEMMA NumberedPut ==
  ASSUME NEW s, NEW a, NEW b, NEW e \in Nat, Numbered(s, a, b, e),
         NEW x, x.last = (b + 1 >= e)
  PROVE  Numbered(Append(s, x), a, IF b + 1 >= e THEN 0 ELSE b + 1, e)
<1>1. IsSeq(s) /\ Len(s) \in Nat
  BY AppendAny DEF Numbered
<1>2. PICK number \in [1 .. Len(s) + 1 -> Nat] :
        /\ number[1] = a /\ number[Len(s) + 1] = b
        /\ \A i \in 1 .. Len(s) :
             /\ s[i].last = (number[i] + 1 >= e)
             /\ number[i + 1] = IF number[i] + 1 >= e THEN 0 ELSE number[i] + 1
  BY DEF Numbered
<1> DEFINE n == Len(s)
           c == IF b + 1 >= e THEN 0 ELSE b + 1
           t == Append(s, x)
           more == [i \in 1 .. n + 2 |-> IF i = n + 2 THEN c ELSE number[i]]
<1>3. b \in Nat /\ c \in Nat
  BY <1>1, <1>2
<1>4. IsSeq(t) /\ Len(t) = n + 1
  BY <1>1, AppendAny
<1>5. \A i \in 1 .. n : t[i] = s[i]
  BY <1>1, AppendProperties DEF IsSeq
<1>6. t[n + 1] = x
  BY <1>1, AppendProperties DEF IsSeq
<1>7. n \in Nat
  BY <1>1
<1> HIDE DEF n, c, t
<1>8. more \in [1 .. n + 1 + 1 -> Nat] /\ more[1] = a /\ more[n + 2] = c
  BY <1>2, <1>3, <1>7 DEF n
<1>9. \A i \in 1 .. n + 1 : more[i] = number[i]
  BY <1>7
<1>10. ASSUME NEW i \in 1 .. n + 1
       PROVE  /\ t[i].last = (more[i] + 1 >= e)
              /\ more[i + 1] = IF more[i] + 1 >= e THEN 0 ELSE more[i] + 1
  <2>1. CASE i \in 1 .. n
    <3>1. more[i] = number[i] /\ more[i + 1] = number[i + 1] /\ t[i] = s[i]
      BY <1>5, <1>7, <1>9, <2>1
    <3> HIDE DEF more
    <3> QED BY <1>2, <2>1, <3>1 DEF n
  <2>2. CASE i = n + 1
    <3>1. more[i] = b /\ more[i + 1] = c /\ t[i] = x
      BY <1>2, <1>6, <1>7, <1>8, <1>9, <2>2 DEF n
    <3> HIDE DEF more
    <3> QED BY <3>1 DEF c
  <2> QED BY <1>7, <2>1, <2>2
<1> HIDE DEF more
<1>11. Numbered(t, a, c, e)
  <2>1. /\ more \in [1 .. Len(t) + 1 -> Nat] /\ more[1] = a /\ more[Len(t) + 1] = c
        /\ 1 .. Len(t) = 1 .. n + 1
    BY <1>4, <1>7, <1>8
  <2> QED BY <1>4, <1>10, <2>1 DEF Numbered
<1> QED BY <1>11 DEF t, c

(* The wrapper takes a line. *)
LEMMA NumberedTake ==
  ASSUME NEW s, NEW a, NEW b, NEW e \in Nat, Numbered(s, a, b, e), s # << >>
  PROVE  /\ a \in Nat /\ Head(s).last = (a + 1 >= e)
         /\ Numbered(Tail(s), IF a + 1 >= e THEN 0 ELSE a + 1, b, e)
<1>1. PICK S : s \in Seq(S)
  BY DEF Numbered, IsSeq
<1>2. PICK number \in [1 .. Len(s) + 1 -> Nat] :
        /\ number[1] = a /\ number[Len(s) + 1] = b
        /\ \A i \in 1 .. Len(s) :
             /\ s[i].last = (number[i] + 1 >= e)
             /\ number[i + 1] = IF number[i] + 1 >= e THEN 0 ELSE number[i] + 1
  BY DEF Numbered
<1> DEFINE n == Len(s)
           t == Tail(s)
           less == [i \in 1 .. n |-> number[i + 1]]
           c == IF a + 1 >= e THEN 0 ELSE a + 1
<1>3. n \in Nat /\ n > 0 /\ Head(s) = s[1]
  BY <1>1, LenProperties, EmptySeq, HeadTailProperties
<1>4. t \in Seq(S) /\ Len(t) = n - 1 /\ \A i \in 1 .. n - 1 : t[i] = s[i + 1]
  BY <1>1, <1>3, HeadTailProperties
<1> HIDE DEF n, t
<1>5. a \in Nat /\ s[1].last = (a + 1 >= e) /\ number[2] = c
  BY <1>2, <1>3 DEF n
<1>6. less \in [1 .. (n - 1) + 1 -> Nat] /\ less[1] = c /\ less[(n - 1) + 1] = b
  BY <1>2, <1>3, <1>5 DEF n
<1>7. ASSUME NEW i \in 1 .. n - 1
      PROVE  /\ t[i].last = (less[i] + 1 >= e)
             /\ less[i + 1] = IF less[i] + 1 >= e THEN 0 ELSE less[i] + 1
  <2>1. less[i] = number[i + 1] /\ less[i + 1] = number[i + 1 + 1] /\ t[i] = s[i + 1]
    BY <1>3, <1>4
  <2>2. i + 1 \in 1 .. n
    BY <1>3
  <2> HIDE DEF less
  <2> QED BY <1>2, <2>1, <2>2 DEF n
<1> HIDE DEF less, c
<1>8. Numbered(t, c, b, e)
  BY <1>4, <1>6, <1>7 DEF Numbered, IsSeq
<1> QED BY <1>3, <1>5, <1>8 DEF t, c

-----------------------------------------------------------------------------
(* What the code's types say of the constants. *)
LEMMA CountIsInt ==
  ASSUME NEW c \in Counts
  PROVE  c \in Nat /\ 2 * c + 2 <= Modulus /\ Modulus \in Nat
<1>1. Modulus \in Nat
  BY DataPathAssumption
<1>2. (Modulus \div 2) \in Nat /\ 2 * (Modulus \div 2) <= Modulus
  BY <1>1
<1>3. Counts \subseteq 0 .. (Modulus \div 2) - 1
  BY DataPathAssumption
<1>4. c \in 0 .. (Modulus \div 2) - 1
  BY <1>3
<1> QED BY <1>1, <1>2, <1>4

(* A line that is not the last one of c words. *)
LEMMA MoreWords ==
  ASSUME NEW c \in Nat, NEW n \in Nat, ~(n + 1 >= LineCnt(c))
  PROVE  2 * n + 2 < c
BY DEF LineCnt

LEMMA WindowIsEven ==
  Window \in Nat /\ Window >= 2 /\ Window % 2 = 0 /\ 2 * Window <= Modulus
<1>1. Modulus \in Nat /\ Window \in Nat \ {0} /\ Window % 2 = 0 /\ Window <= Modulus \div 2
  BY DataPathAssumption
<1>2. (Modulus \div 2) \in Nat /\ 2 * (Modulus \div 2) <= Modulus
  BY <1>1
<1> QED BY <1>1, <1>2

(* What is written below the end of the message leaves the rest alone. *)
LEMMA FlushedBelow ==
  ASSUME NEW c \in Nat, NEW memory, OnlyBelow(c, memory),
         NEW w, NEW len \in Int, w.start \in Nat, w.start + len <= c
  PROVE  OnlyBelow(c, Flushed(memory, w, len))
<1>1. /\ memory = [k \in 0 .. c + 1 |-> memory[k]] /\ DOMAIN memory = 0 .. c + 1
      /\ \A k \in 0 .. c + 1 : k >= c => memory[k] = Old
  BY DEF OnlyBelow
<1>2. Flushed(memory, w, len) =
        [k \in 0 .. c + 1 |-> IF k \in w.start .. w.start + len - 1
                              THEN w.words[k - w.start] ELSE memory[k]]
  BY <1>1 DEF Flushed
<1>3. \A k \in 0 .. c + 1 : k >= c => ~(k \in w.start .. w.start + len - 1)
  OBVIOUS
<1> QED BY <1>1, <1>2, <1>3 DEF OnlyBelow

LEMMA StoredBelow ==
  ASSUME NEW c \in Nat, NEW memory, OnlyBelow(c, memory),
         NEW line, rw.i \in Nat, rw.i < c, LastWord = c - 1
  PROVE  OnlyBelow(c, StoredAt(memory, 0, line))
<1>1. /\ memory = [k \in 0 .. c + 1 |-> memory[k]] /\ DOMAIN memory = 0 .. c + 1
      /\ \A k \in 0 .. c + 1 : k >= c => memory[k] = Old
      /\ rw.i - 0 = rw.i
  BY DEF OnlyBelow
<1>2. CASE rw.i < LastWord
  <2>1. StoredAt(memory, 0, line) =
          [k \in 0 .. c + 1 |-> IF k = rw.i THEN line[1]
                                ELSE IF k = rw.i + 1 THEN line[2] ELSE memory[k]]
    BY <1>1, <1>2 DEF StoredAt, Stored
  <2>2. \A k \in 0 .. c + 1 : k >= c => k # rw.i /\ k # rw.i + 1
    BY <1>2
  <2> QED BY <1>1, <2>1, <2>2 DEF OnlyBelow
<1>3. CASE ~(rw.i < LastWord)
  <2>1. StoredAt(memory, 0, line) =
          [k \in 0 .. c + 1 |-> IF k = rw.i THEN line[1] ELSE memory[k]]
    BY <1>1, <1>3 DEF StoredAt
  <2>2. \A k \in 0 .. c + 1 : k >= c => k # rw.i
    OBVIOUS
  <2> QED BY <1>1, <2>1, <2>2 DEF OnlyBelow
<1> QED BY <1>2, <1>3

LEMMA InitBeyondInv == Init => BeyondInv
<1> SUFFICES ASSUME Init PROVE BeyondInv
  OBVIOUS
<1>1. job.count \in Counts /\ job.count \in Nat
  <2>1. job.count \in Counts
    BY DEF Init, Job
  <2> QED BY <2>1, CountIsInt
<1>2. ReceiverRegisters
  <2>1. Streamed
    BY DEF Init, Streamed
  <2>2. rw = [state |-> "RECV_READ_DATA", i |-> 0, start |-> 0, max |-> Window, words |-> Blank]
    BY DEF Init, RecvWindow
  <2>3. dr = [state |-> "DEQ_IDLE", exp |-> 0, total |-> 0, second |-> NoLine]
    BY DEF Init
  <2> QED BY <2>1, <2>2, <2>3 DEF ReceiverRegisters
<1>3. LinesCounted
  <2>1. fifo.expLen = << >> /\ fifo.app = << >> /\ dr.total = 0 /\ dr.state = "DEQ_IDLE"
    BY DEF Init
  <2>2. Received = 0 /\ Written = 0
    BY <2>1 DEF Init, RecvWindow, Received, Written
  <2> QED BY <2>1, <2>2, NumberedNone, EmptySeq DEF LinesCounted
<1>4. job.count > 0 => WordsInRange
  BY <1>1, WindowIsEven DEF Init, RecvWindow, WordsInRange
<1>5. MemoryAfter
  BY <1>1 DEF Init, MemoryAfter, OnlyBelow
<1> QED BY <1>1, <1>2, <1>3, <1>4, <1>5 DEF BeyondInv

(* The steps of the others leave the end of the way alone. *)
LEMMA ElsewhereBeyondInv ==
  ASSUME BeyondInv, UNCHANGED <<job, dr, rw, dst>>, Streamed', fifo'.app = fifo.app,
         \/ fifo'.expLen = fifo.expLen
         \/ fifo'.expLen = Append(fifo.expLen, LineCnt(job.count))
  PROVE  BeyondInv'
<1>1. job'.count \in Counts /\ ReceiverRegisters'
  BY DEF BeyondInv, ReceiverRegisters
<1>2. Received' = Received /\ Written' = Written
  BY DEF Received, Written
<1>3. ASSUME job.count > 0 PROVE LinesCounted'
  <2>1. fifo'.expLen \in Seq({LineCnt(job.count)})
    BY <1>3, AppendProperties DEF BeyondInv, LinesCounted
  <2> QED BY <1>2, <1>3, <2>1 DEF BeyondInv, LinesCounted
<1>4. job.count > 0 => WordsInRange' /\ MemoryAfter'
  BY DEF BeyondInv, WordsInRange, MemoryAfter
<1> QED BY <1>1, <1>3, <1>4 DEF BeyondInv

LEMMA SenderBeyondInv ==
  ASSUME BeyondInv,
         \/ SendWriteData \/ SendFinish \/ EnqMpiData
         \/ SendDataStart \/ SendDataStart1 \/ SendDataRd \/ SendDataWrd \/ Wait4Ack
         \/ DeqIdle \/ DeqStart \/ DeqStartWithSecond \/ DeqWrite \/ DeqWrite2 \/ DeqDone
         \/ SendTimeout \/ Lose
  PROVE  BeyondInv'
<1>0. Streamed
  BY DEF BeyondInv, ReceiverRegisters
<1> DEFINE Same == /\ UNCHANGED <<job, dr, rw, dst>> /\ Streamed'
                   /\ fifo'.app = fifo.app /\ fifo'.expLen = fifo.expLen
<1>1. SendWriteData \/ SendFinish \/ EnqMpiData => Same
  BY <1>0 DEF SendWriteData, SendFinish, EnqMpiData, Streamed, Put, Move
<1>2. SendDataStart \/ SendDataStart1 \/ SendDataRd \/ SendDataWrd \/ Wait4Ack => Same
  BY <1>0 DEF SendDataStart, SendDataStart1, SendDataRd, SendDataWrd, Wait4Ack,
              Streamed, Put, Move
<1>3. DeqIdle \/ DeqStart \/ DeqWrite \/ DeqDone \/ SendTimeout => Same
  BY <1>0 DEF DeqIdle, DeqStart, DeqWrite, DeqDone, SendTimeout, Streamed
<1>4. DeqStartWithSecond \/ DeqWrite2 \/ Lose => Same
  BY <1>0 DEF DeqStartWithSecond, DeqWrite2, Lose, Streamed
<1>5. Same
  BY <1>1, <1>2, <1>3, <1>4
<1> QED BY <1>5, ElsewhereBeyondInv

LEMMA EngineBeyondInv ==
  ASSUME BeyondInv,
         \/ EnqTcpIn \/ RecvDataMore \/ RecvDataStart \/ RecvDataStart1 \/ DrainDataStream
         \/ RecvDataRd \/ RecvDataWrd \/ RecvTimeout
  PROVE  BeyondInv'
<1>0. Streamed
  BY DEF BeyondInv, ReceiverRegisters
<1> DEFINE Same == /\ UNCHANGED <<job, dr, rw, dst>> /\ Streamed' /\ fifo'.app = fifo.app
                   /\ \/ fifo'.expLen = fifo.expLen
                      \/ fifo'.expLen = Append(fifo.expLen, LineCnt(job.count))
<1>1. EnqTcpIn \/ RecvDataMore \/ RecvDataStart => Same
  BY <1>0 DEF EnqTcpIn, RecvDataMore, RecvDataStart, Streamed
<1>2. RecvDataStart1 \/ DrainDataStream => Same
  BY <1>0 DEF RecvDataStart1, DrainDataStream, Streamed
<1>3. RecvDataRd \/ RecvDataWrd \/ RecvTimeout => Same
  BY <1>0 DEF RecvDataRd, RecvDataWrd, RecvTimeout, Streamed, Move
<1>4. Same
  BY <1>1, <1>2, <1>3
<1> QED BY <1>4, ElsewhereBeyondInv

-----------------------------------------------------------------------------
(* pDeqRecv *)

LEMMA DeqRecvBeyondInv ==
  ASSUME BeyondInv, DeqRecvIdle \/ DeqRecvWrite \/ DeqRecvWrite2 \/ DeqRecvDone
  PROVE  BeyondInv'
<1> DEFINE e == LineCnt(job.count)
<1>0. /\ ReceiverRegisters /\ Streamed /\ job.count \in Nat /\ e \in Nat
      /\ UNCHANGED <<job, rw, dst>> /\ Received' = Received
  BY SMTT(30), DataPathAssumption DEF BeyondInv, ReceiverRegisters, DeqRecvIdle, DeqRecvWrite,
     DeqRecvWrite2, DeqRecvDone, LineCnt, Received
<1>1. ReceiverRegisters'
  <2>1. DeqRecvIdle => ReceiverRegisters'
    BY <1>0 DEF DeqRecvIdle, ReceiverRegisters, Streamed
  <2>2. DeqRecvWrite => ReceiverRegisters'
    BY <1>0 DEF DeqRecvWrite, ReceiverRegisters, Streamed, Move
  <2>3. DeqRecvWrite2 => ReceiverRegisters'
    BY <1>0 DEF DeqRecvWrite2, ReceiverRegisters, Streamed, Put
  <2>4. DeqRecvDone => ReceiverRegisters'
    BY <1>0 DEF DeqRecvDone, ReceiverRegisters, Streamed
  <2> QED BY <2>1, <2>2, <2>3, <2>4
<1> SUFFICES ASSUME job.count > 0 PROVE LinesCounted'
  BY <1>0, <1>1 DEF BeyondInv, WordsInRange, MemoryAfter
<1>2. LinesCounted
  BY DEF BeyondInv
<1> HIDE DEF e
<1>3. CASE DeqRecvIdle
  <2>1. /\ dr' = [dr EXCEPT !.state = "DEQ_WRITE", !.exp = Head(fifo.expLen), !.total = 0]
        /\ fifo' = [fifo EXCEPT !.expLen = Tail(@)]
        /\ dr.state = "DEQ_IDLE" /\ fifo.expLen # << >>
    BY <1>3 DEF DeqRecvIdle
  <2>2. dr'.state = "DEQ_WRITE" /\ dr'.total = 0 /\ dr'.exp = Head(fifo.expLen)
    BY <1>0, <2>1 DEF ReceiverRegisters
  <2>3. fifo'.app = fifo.app /\ fifo'.expLen = Tail(fifo.expLen)
    BY <1>0, <2>1 DEF Streamed
  <2>4. Head(fifo.expLen) = e /\ Tail(fifo.expLen) \in Seq({e})
    BY <1>2, <2>1, HeadTailProperties DEF LinesCounted, e
  <2>5. Written' = Written
    BY <2>1, <2>2 DEF Written
  <2> QED BY <1>0, <1>2, <2>2, <2>3, <2>4, <2>5 DEF LinesCounted, e
<1>4. CASE DeqRecvWrite \/ DeqRecvWrite2
  <2> DEFINE reached == dr.total + 1 >= e
  <2>1. PICK line : /\ fifo'.app = Append(fifo.app, [line |-> line, last |-> LineReached])
                    /\ fifo'.expLen = fifo.expLen
    <3>1. CASE DeqRecvWrite
      BY <1>0, <3>1 DEF DeqRecvWrite, Streamed, Move
    <3>2. CASE DeqRecvWrite2
      BY <1>0, <3>2 DEF DeqRecvWrite2, Streamed, Put
    <3> QED BY <1>4, <3>1, <3>2
  <2>2. /\ dr'.total = dr.total + 1 /\ dr'.exp = dr.exp
        /\ dr'.state = "DEQ_DONE" <=> LineReached
        /\ dr'.state \in {"DEQ_DONE", "DEQ_WRITE", "DEQ_WRITE_2"}
        /\ dr.state \in {"DEQ_WRITE", "DEQ_WRITE_2"}
    <3>1. CASE DeqRecvWrite
      BY <1>0, <3>1 DEF DeqRecvWrite, ReceiverRegisters
    <3>2. CASE DeqRecvWrite2
      BY <1>0, <3>2 DEF DeqRecvWrite2, ReceiverRegisters
    <3> QED BY <1>4, <3>1, <3>2
  <2>3. dr.exp = e /\ dr.total \in Nat /\ Written = dr.total
    BY <1>2, <2>2 DEF LinesCounted, Written, e
  <2>4. LineReached = reached
    BY <2>3 DEF LineReached
  <2>5. Written' = IF reached THEN 0 ELSE dr.total + 1
    BY <2>2, <2>4 DEF Written
  <2>6. Numbered(fifo.app, Received, dr.total, e)
    BY <1>2, <2>3 DEF LinesCounted, e
  <2> DEFINE x == [line |-> line, last |-> LineReached]
  <2>7. x.last = (dr.total + 1 >= e)
    BY <2>4
  <2> HIDE DEF x
  <2>8. Numbered(Append(fifo.app, x), Received, IF reached THEN 0 ELSE dr.total + 1, e)
    BY <1>0, <2>6, <2>7, NumberedPut
  <2>9. Numbered(fifo'.app, Received', Written', e)
    BY <1>0, <2>1, <2>5, <2>8 DEF x
  <2> QED BY <1>0, <1>2, <2>1, <2>2, <2>3, <2>9 DEF LinesCounted, e
<1>5. CASE DeqRecvDone
  <2>1. dr' = [dr EXCEPT !.state = "DEQ_IDLE"] /\ dr.state = "DEQ_DONE"
        /\ fifo' = [fifo EXCEPT !.recvDone = @ + 1]
    BY <1>5 DEF DeqRecvDone
  <2>2. dr'.state = "DEQ_IDLE" /\ dr'.total = dr.total
    BY <1>0, <2>1 DEF ReceiverRegisters
  <2>3. fifo'.app = fifo.app /\ fifo'.expLen = fifo.expLen
    BY <1>0, <2>1 DEF Streamed
  <2>4. Written' = Written
    BY <2>1, <2>2 DEF Written
  <2> QED BY <1>0, <1>2, <2>2, <2>3, <2>4 DEF LinesCounted
<1> QED BY <1>3, <1>4, <1>5

-----------------------------------------------------------------------------
(* The wrapper that receives *)

(* A line goes to the buffer or to the memory. *)
LEMMA RecvReadBeyondInv ==
  ASSUME BeyondInv, RecvReadDram \/ RecvReadData
  PROVE  BeyondInv'
<1> DEFINE e == LineCnt(job.count)
           n == rw.i \div 2
<1>0. /\ ReceiverRegisters /\ Streamed /\ job.count \in Nat /\ e \in Nat
      /\ UNCHANGED <<job, dr>> /\ Written' = Written
      /\ rw.state = "RECV_READ_DATA" /\ fifo.app # << >>
      /\ fifo' = [fifo EXCEPT !.app = Tail(@)]
  BY CountIsInt DEF BeyondInv, ReceiverRegisters, RecvReadDram, RecvReadData,
     LineCnt, Written, Some
<1>1. Streamed' /\ fifo'.app = Tail(fifo.app) /\ fifo'.expLen = fifo.expLen
  BY <1>0 DEF Streamed
<1> DEFINE in == Head(fifo.app)
<1>2. ReceiverRegisters' /\ rw'.state = IF in.last THEN "RECV_FINISH" ELSE "RECV_READ_DATA"
  <2>1. CASE RecvReadDram
    BY <1>0, <1>1, <2>1 DEF RecvReadDram, ReceiverRegisters
  <2>2. CASE RecvReadData
    BY <1>0, <1>1, <2>2 DEF RecvReadData, ReceiverRegisters
  <2> QED BY <2>1, <2>2
<1> SUFFICES ASSUME job.count > 0 PROVE LinesCounted' /\ WordsInRange' /\ MemoryAfter'
  BY <1>0, <1>2 DEF BeyondInv
<1>3. LinesCounted /\ WordsInRange /\ MemoryAfter
  BY DEF BeyondInv
<1>4. /\ rw.i \in Nat /\ rw.i = 2 * n /\ n \in Nat /\ Received = n /\ rw.i < job.count
      /\ rw.start \in Nat /\ rw.max = rw.start + Window
  BY <1>0, <1>3 DEF WordsInRange, Received
<1>5. LastWord = job.count - 1
  <2>1. job.count \in Nat /\ 2 * job.count + 2 <= Modulus /\ Modulus \in Nat
    BY CountIsInt DEF BeyondInv
  <2>2. job.count - 1 \in 0 .. Modulus - 1 /\ Modulus \in Nat
    BY <2>1
  <2> QED BY <2>2 DEF LastWord
<1> HIDE DEF e, n, in
<1>6. in.last = (n + 1 >= e) /\ Numbered(Tail(fifo.app), IF n + 1 >= e THEN 0 ELSE n + 1, Written, e)
  BY <1>0, <1>3, <1>4, NumberedTake DEF LinesCounted, e, in
<1>7. ~in.last => rw.i + 2 < job.count
  <2> SUFFICES ASSUME ~in.last PROVE rw.i + 2 < job.count
    OBVIOUS
  <2>1. ~(n + 1 >= LineCnt(job.count))
    BY <1>6 DEF e
  <2>2. 2 * n + 2 < job.count
    BY <1>0, <1>4, <2>1, MoreWords
  <2> QED BY <1>4, <2>2
<1>8. LinesCounted'
  <2>1. Received' = IF n + 1 >= e THEN 0 ELSE n + 1
    <3>1. CASE in.last
      BY <1>2, <1>6, <3>1 DEF Received
    <3>2. CASE ~in.last
      <4>1. rw'.i = rw.i + 2
        <5>1. CASE RecvReadDram
          BY <1>0, <1>4, <1>5, <1>7, <3>2, <5>1 DEF RecvReadDram, ReceiverRegisters
        <5>2. CASE RecvReadData
          BY <1>0, <1>4, <5>2 DEF RecvReadData, ReceiverRegisters
        <5> QED BY <5>1, <5>2
      <4>2. rw'.i \div 2 = n + 1
        BY <1>4, <4>1
      <4> QED BY <1>2, <1>6, <3>2, <4>2 DEF Received
    <3> QED BY <3>1, <3>2
  <2> QED BY <1>0, <1>1, <1>3, <1>6, <2>1 DEF LinesCounted, e
<1>9. CASE RecvReadDram
  <2> DEFINE full == rw.i >= rw.max
             start == IF full THEN rw.start + Window ELSE rw.start
  <2>1. /\ rw'.start = start /\ rw'.max = start + Window
        /\ rw'.i = IF rw.i < LastWord THEN rw.i + 2 ELSE rw.i + 1
        /\ dst' = IF full THEN Flushed(dst, rw, Window) ELSE dst
        /\ job.recvDram
    BY <1>0, <1>4, <1>9, WindowIsEven DEF RecvReadDram, ReceiverRegisters
  <2>2. start \in Nat /\ start % 2 = 0 /\ start <= rw.i
    BY <1>3, <1>4, <2>1, WindowIsEven DEF WordsInRange
  <2> HIDE DEF start
  <2>3. rw'.i \in Nat /\ start <= rw'.i /\ rw'.i <= job.count
    <3>1. (rw'.i = rw.i + 2 /\ rw.i < job.count - 1) \/ rw'.i = rw.i + 1
      BY <1>5, <2>1
    <3>2. job.count \in Nat /\ rw.i \in Nat /\ rw.i < job.count
      BY <1>0, <1>4
    <3> QED BY <2>2, <3>1, <3>2
  <2>4. ~in.last => rw'.i = rw.i + 2
    BY <1>0, <1>4, <1>5, <1>7, <2>1
  <2>5. rw'.state = "RECV_READ_DATA" => rw'.i % 2 = 0 /\ rw'.i < job.count
    BY <1>2, <1>4, <1>7, <2>4
  <2>6. WordsInRange'
    BY <1>0, <2>1, <2>2, <2>3, <2>5 DEF WordsInRange
  <2>7. MemoryAfter'
    <3>1. CASE ~full
      BY <1>0, <1>3, <2>1, <3>1 DEF MemoryAfter
    <3>2. CASE full
      <4>0. Window \in Nat /\ job.count \in Nat
        BY <1>0, WindowIsEven
      <4>1. rw.start + Window <= job.count
        BY <1>4, <3>2, <4>0
      <4>2. dst' = Flushed(dst, rw, Window) /\ job' = job
        BY <1>0, <2>1, <3>2
      <4>3. OnlyBelow(job.count, Flushed(dst, rw, Window))
        BY <1>3, <1>4, <4>0, <4>1, FlushedBelow DEF MemoryAfter
      <4> QED BY <4>2, <4>3 DEF MemoryAfter
    <3> QED BY <3>1, <3>2
  <2> QED BY <1>8, <2>6, <2>7
<1>10. CASE RecvReadData
  <2>1. /\ rw'.i = rw.i + 2 /\ rw'.start = rw.start /\ rw'.max = rw.max /\ ~job.recvDram
        /\ dst' = dst \/ dst' = StoredAt(dst, 0, in.line)
    BY <1>0, <1>4, <1>10 DEF RecvReadData, ReceiverRegisters, in
  <2>2. WordsInRange'
    <3>1. rw'.i \in Nat /\ rw'.i % 2 = 0 /\ (~in.last => rw'.i < job.count)
      BY <1>4, <1>7, <2>1
    <3>2. rw'.state = "RECV_READ_DATA" => ~in.last
      BY <1>2
    <3>3. rw'.start \in Nat /\ rw'.max = rw'.start + Window /\ rw'.start % 2 = 0 /\ rw'.start = 0
      BY <1>3, <1>4, <2>1 DEF WordsInRange
    <3>4. job' = job
      BY <1>0
    <3> QED BY <2>1, <3>1, <3>2, <3>3, <3>4 DEF WordsInRange
  <2>3. MemoryAfter'
    BY <1>0, <1>3, <1>4, <1>5, <2>1, StoredBelow DEF MemoryAfter
  <2> QED BY <1>8, <2>2, <2>3
<1> QED BY <1>9, <1>10

(* The feedback: the call returns, or begins again. *)
LEMMA RecvFinishBeyondInv ==
  ASSUME BeyondInv, RecvFinish
  PROVE  BeyondInv'
<1>0. /\ ReceiverRegisters /\ Streamed /\ job.count \in Nat
      /\ UNCHANGED <<job, dr>> /\ Written' = Written
      /\ rw.state = "RECV_FINISH"
      /\ fifo' = [fifo EXCEPT !.recvFeedback = Tail(@)]
      /\ \/ rw' = [rw EXCEPT !.state = "RECV_DONE"]
         \/ rw' = RecvWindow(rw.words)
  BY CountIsInt DEF BeyondInv, ReceiverRegisters, RecvFinish, Written
<1>1. Streamed' /\ fifo'.app = fifo.app /\ fifo'.expLen = fifo.expLen
  BY <1>0 DEF Streamed
<1>2. /\ rw' = [state |-> rw'.state, i |-> rw'.i, start |-> rw'.start, max |-> rw'.max,
                words |-> rw'.words]
      /\ \/ /\ rw'.state = "RECV_DONE"
            /\ rw'.i = rw.i /\ rw'.start = rw.start /\ rw'.max = rw.max
         \/ /\ rw'.state = "RECV_READ_DATA" /\ rw'.i = 0 /\ rw'.start = 0 /\ rw'.max = Window
  BY <1>0 DEF ReceiverRegisters, RecvWindow
<1>3. ReceiverRegisters'
  BY <1>0, <1>1, <1>2 DEF ReceiverRegisters
<1> SUFFICES ASSUME job.count > 0 PROVE LinesCounted' /\ WordsInRange' /\ MemoryAfter'
  BY <1>0, <1>3 DEF BeyondInv
<1>4. LinesCounted /\ WordsInRange /\ MemoryAfter
  BY DEF BeyondInv
<1>5. Received' = Received
  BY <1>0, <1>2 DEF Received
<1>6. LinesCounted'
  BY <1>0, <1>1, <1>4, <1>5 DEF LinesCounted
<1>7. WordsInRange'
  <2>1. Window \in Nat
    BY WindowIsEven
  <2>2. job.count \in Nat /\ job' = job
    BY <1>0
  <2>3. CASE rw'.state = "RECV_DONE"
    BY <1>2, <1>4, <2>2, <2>3 DEF WordsInRange
  <2>4. CASE rw'.state = "RECV_READ_DATA"
    BY <1>2, <1>4, <2>1, <2>2, <2>4 DEF WordsInRange
  <2> QED BY <1>2, <2>3, <2>4
<1>8. MemoryAfter'
  <2>1. \/ job.recvDram /\ dst' = Flushed(dst, rw, rw.i - rw.start)
        \/ ~job.recvDram /\ dst' = Flushed(dst, rw, 1)
        \/ dst' = dst
    BY DEF RecvFinish
  <2>2. /\ rw.i \in Nat /\ rw.start \in Nat
        /\ job.recvDram => rw.start + (rw.i - rw.start) <= job.count
        /\ ~job.recvDram => rw.start + 1 <= job.count
    BY <1>0, <1>4 DEF WordsInRange
  <2>3. OnlyBelow(job.count, dst')
    <3>1. CASE job.recvDram /\ dst' = Flushed(dst, rw, rw.i - rw.start)
      BY <1>0, <1>4, <2>2, <3>1, FlushedBelow DEF MemoryAfter
    <3>2. CASE ~job.recvDram /\ dst' = Flushed(dst, rw, 1)
      BY <1>0, <1>4, <2>2, <3>2, FlushedBelow DEF MemoryAfter
    <3>3. CASE dst' = dst
      BY <1>4, <3>3 DEF MemoryAfter
    <3> QED BY <2>1, <3>1, <3>2, <3>3
  <2> QED BY <1>0, <2>3 DEF MemoryAfter
<1> QED BY <1>6, <1>7, <1>8

LEMMA NextBeyondInv == BeyondInv /\ [Next]_vars => BeyondInv'
<1>1. BeyondInv /\ (Terminated \/ UNCHANGED vars) => BeyondInv'
  <2> SUFFICES ASSUME BeyondInv, UNCHANGED vars PROVE BeyondInv'
    BY DEF Terminated
  <2> QED BY ElsewhereBeyondInv DEF vars, Streamed, BeyondInv, ReceiverRegisters
<1> QED
  BY <1>1, SenderBeyondInv, EngineBeyondInv, DeqRecvBeyondInv, RecvReadBeyondInv,
     RecvFinishBeyondInv DEF Next, TransferStep

(* Whatever is lost and however often the two calls start again, nothing   *)
(* but the message is written to the receiver's memory.                    *)
THEOREM MemoryIsKept == Spec => []NothingBeyond
<1>1. BeyondInv => NothingBeyond
  <2> SUFFICES ASSUME BeyondInv, job.count > 0 PROVE \A k \in DOMAIN dst : k >= job.count => dst[k] = Old
    BY DEF NothingBeyond
  <2>1. OnlyBelow(job.count, dst)
    BY DEF BeyondInv, MemoryAfter
  <2>2. DOMAIN dst = 0 .. job.count + 1
    BY <2>1 DEF OnlyBelow
  <2> QED BY <2>1, <2>2 DEF OnlyBelow
<1> QED BY <1>1, InitBeyondInv, NextBeyondInv, PTL DEF Spec

=============================================================================
