---------------------------- MODULE Startup_proofs ----------------------------
(***************************************************************************)
(* The ranks find each other in every cluster, with any number of ranks on *)
(* any host, in whatever order they start.                                 *)
(*                                                                         *)
(* Each rank counts addresses in its own list, rank_ip_addrs.  The         *)
(* invariant says that after n rounds this list holds the addresses of the *)
(* first n ranks, for every rank: so all count the same, and the port of a *)
(* rank depends on the ranks before it, not on the one that computes it.   *)
(* At the end, the applications on FPGAs (Role) in the same cluster.       *)
(***************************************************************************)
EXTENDS Launch, FiniteSetTheorems, SequenceTheorems, TLAPS

(* rank_ip_addrs after n rounds *)
Prefix(n) == [k \in 1 .. n |-> Addr(k - 1)]

Before(r) == {k \in 1 .. r : Addr(k - 1) = Addr(r)}
Port(r)   == MpiPort + Cardinality(Before(r))
Socket(r) == <<Addr(r), Port(r)>>

RankInv(r) ==
  /\ addrs[r] = Prefix(i[r])
  /\ offset[r] = IF i[r] > r THEN -1 ELSE 0
  /\ i[r] > r => ownPort[r] = Port(r)
  /\ \A s \in Rank \ {r} : s < i[r] => socks[r][s] = Socket(s)
  /\ at[r] # "exited"
  /\ r \in Cpu /\ at[r] \in {"running", "finished"} => i[r] = Size
  /\ bound[r] = IF at[r] = "running" THEN Socket(r) ELSE NoSocket
  /\ app[r] \in {<< >>, AppArguments(r)}

IInv == TypeOK /\ \A r \in Rank : RankInv(r)

-----------------------------------------------------------------------------
(* Ports. *)

LEMMA RankFacts ==
  ASSUME NEW r \in Rank
  PROVE  r \in Nat /\ r < Size /\ Size \in Nat /\ 1 .. r \subseteq Nat
BY StartupAssumption DEF Rank

LEMMA PortIsNat ==
  ASSUME NEW r \in Rank
  PROVE  IsFiniteSet(Before(r)) /\ Cardinality(Before(r)) \in Nat /\ Port(r) \in Nat
<1>1. IsFiniteSet(1 .. r)
  BY RankFacts, FS_Interval
<1>2. IsFiniteSet(Before(r))
  BY <1>1, FS_Subset DEF Before
<1>3. Cardinality(Before(r)) \in Nat
  BY <1>2, FS_CardinalityType
<1> QED BY <1>2, <1>3, StartupAssumption DEF Port

LEMMA CountsBefore ==
  ASSUME NEW r \in Rank
  PROVE  Occurrences(Addr(r), Prefix(r)) = Cardinality(Before(r))
<1>1. {k \in DOMAIN Prefix(r) : Prefix(r)[k] = Addr(r)} = Before(r)
  BY DEF Prefix, Before
<1> QED BY <1>1 DEF Occurrences

(* Of two ranks on one host the later one has the higher port. *)
LEMMA LaterIsHigher ==
  ASSUME NEW r \in Rank, NEW s \in Rank, r < s, Addr(r) = Addr(s)
  PROVE  Port(r) < Port(s)
<1>1. Before(r) \subseteq Before(s)
  BY RankFacts DEF Before
<1>2. r + 1 \in Before(s)
  BY RankFacts DEF Before
<1>3. r + 1 \notin Before(r)
  BY RankFacts DEF Before
<1>4. Cardinality(Before(r)) < Cardinality(Before(s))
  <2>1. Before(r) # Before(s)
    BY <1>2, <1>3
  <2>2. IsFiniteSet(Before(s)) /\ Cardinality(Before(s)) \in Nat /\ Cardinality(Before(r)) \in Nat
    BY PortIsNat
  <2>3. Cardinality(Before(r)) <= Cardinality(Before(s))
    BY <1>1, <2>2, FS_Subset
  <2>4. Cardinality(Before(r)) # Cardinality(Before(s))
    BY <1>1, <2>1, <2>2, FS_Subset
  <2> QED BY <2>2, <2>3, <2>4
<1> QED BY <1>4, PortIsNat, StartupAssumption DEF Port

LEMMA SocketsDiffer ==
  ASSUME NEW r \in Rank, NEW s \in Rank, r # s
  PROVE  Socket(r) # Socket(s)
<1> SUFFICES ASSUME Socket(r) = Socket(s) PROVE FALSE
  OBVIOUS
<1>1. Addr(r) = Addr(s) /\ Port(r) = Port(s)
  BY DEF Socket
<1>2. r < s \/ s < r
  BY RankFacts
<1>3. Port(r) \in Nat /\ Port(s) \in Nat
  BY PortIsNat
<1> QED BY <1>1, <1>2, <1>3, LaterIsHigher

(* The first rank on its host, and with it every FPGA, has the default     *)
(* port.                                                                   *)
LEMMA FirstHasDefault ==
  ASSUME NEW r \in Rank, First(r)
  PROVE  Port(r) = MpiPort
<1>1. Before(r) = {}
  BY RankFacts DEF Before, First
<1> QED BY <1>1, FS_EmptySet, StartupAssumption DEF Port

LEMMA FpgaIsFirst ==
  ASSUME cluster \in Cluster, NEW r \in Rank, r \notin Cpu
  PROVE  First(r) /\ Socket(r) = <<Addr(r), MpiPort>>
<1>1. cluster[r].fpga
  BY DEF Cpu
<1>2. \A s \in Rank : s # r => Addr(s) # Addr(r)
  BY <1>1 DEF Cluster, Addr
<1>3. \A s \in 0 .. r - 1 : s \in Rank /\ s # r
  BY RankFacts, StartupAssumption DEF Rank
<1>4. First(r)
  BY <1>2, <1>3 DEF First
<1> QED BY <1>4, FirstHasDefault DEF Socket

LEMMA SocketType ==
  ASSUME cluster \in Cluster, NEW r \in Rank
  PROVE  Addr(r) \in Host /\ Socket(r) \in Host \X Nat /\ Socket(r) # NoSocket
BY PortIsNat, StartupAssumption DEF Socket, Cluster, Addr

-----------------------------------------------------------------------------
LEMMA InitIInv == Init => IInv
<1> SUFFICES ASSUME Init PROVE IInv
  OBVIOUS
<1>1. cluster \in Cluster
  BY DEF Init
<1>2. TypeOK
  <2>1. \A r \in Rank : cluster[r].addr \in Host
    BY <1>1 DEF Cluster
  <2>2. /\ << >> \in Seq(Host) /\ 0 \in 0 .. Size
        /\ << >> \in Seq(Host \cup Text \cup {ProgramName})
    BY StartupAssumption
  <2>3. bound \in [Rank -> (Host \X Nat) \cup {NoSocket}]
    BY <2>1, StartupAssumption DEF Init
  <2> QED BY <1>1, <2>2, <2>3, StartupAssumption DEF Init, TypeOK
<1>3. ASSUME NEW r \in Rank PROVE RankInv(r)
  <2>1. addrs[r] = Prefix(i[r])
    BY DEF Init, Prefix
  <2>2. offset[r] = IF i[r] > r THEN -1 ELSE 0
    BY RankFacts DEF Init
  <2>3. ~(i[r] > r) /\ \A s \in Rank : ~(s < i[r])
    BY RankFacts DEF Init
  <2>4. /\ at[r] \in {"starting", "running"}
        /\ r \in Cpu => at[r] # "running"
        /\ r \notin Cpu => at[r] = "running"
    BY DEF Init, Cpu
  <2>5. bound[r] = IF at[r] = "running" THEN Socket(r) ELSE NoSocket
    BY <1>1, <2>4, FpgaIsFirst DEF Init, Cpu, Addr
  <2>6. app[r] = << >>
    BY DEF Init
  <2> QED BY <2>1, <2>2, <2>3, <2>4, <2>5, <2>6 DEF RankInv
<1> QED BY <1>2, <1>3 DEF IInv

(* The arguments are fixed when the processes are started. *)
LEMMA SameAppArguments ==
  ASSUME NEW r \in Rank, UNCHANGED <<cluster, extra>>
  PROVE  AppArguments(r)' = AppArguments(r)
<1>1. Arguments(r)' = Arguments(r)
  BY DEF Arguments, Addr
<1> QED BY <1>1 DEF AppArguments, Argc, Larger

(* Where nothing of rank r changes, nothing changes for it. *)
LEMMA RankUntouched ==
  ASSUME NEW r \in Rank, RankInv(r), UNCHANGED <<cluster, extra>>,
         at'[r] = at[r], i'[r] = i[r], offset'[r] = offset[r], ownPort'[r] = ownPort[r],
         addrs'[r] = addrs[r], socks'[r] = socks[r], bound'[r] = bound[r],
         app'[r] = app[r]
  PROVE  RankInv(r)'
<1>1. AppArguments(r)' = AppArguments(r)
  BY SameAppArguments
<1> QED BY <1>1 DEF RankInv, Prefix, Socket, Port, Before, Addr, Cpu

(* Ranks before r have their address at the next place of the list, ranks  *)
(* after it at their own.                                                  *)
LEMMA ArgumentsFacts ==
  ASSUME TypeOK, NEW r \in Rank, NEW n \in Rank, n # r
  PROVE  /\ Len(Arguments(r)) = Size - 1 + Len(extra) /\ Len(extra) \in Nat
         /\ n < r => n < Size - 1 /\ Arguments(r)[n + 1] = Addr(n)
         /\ r < n => Arguments(r)[n] = Addr(n)
<1>1. Size - 1 \in Nat /\ Size \in Nat
  BY StartupAssumption
<1>2. n \in Nat /\ r \in Nat /\ n < Size /\ r < Size
  BY RankFacts
<1> DEFINE Argument(k) == IF k <= r THEN Addr(k - 1)
                          ELSE IF k < Size THEN Addr(k) ELSE extra[k - Size + 1]
<1>0. Len(extra) \in Nat
  BY StartupAssumption, LenProperties DEF TypeOK
<1>3. Arguments(r) = [k \in 1 .. Size - 1 + Len(extra) |-> Argument(k)]
  BY DEF Arguments
<1> HIDE DEF Argument
<1>4. /\ Len(Arguments(r)) = Size - 1 + Len(extra) /\ Len(extra) \in Nat
      /\ \A k \in 1 .. Size - 1 : Arguments(r)[k] = Argument(k)
  BY <1>0, <1>1, <1>3
<1>5. ASSUME n < r PROVE n < Size - 1 /\ Arguments(r)[n + 1] = Addr(n)
  <2> DEFINE m == n + 1
  <2>1. m \in 1 .. Size - 1 /\ m <= r /\ m - 1 = n /\ n < Size - 1
    BY <1>1, <1>2, <1>5
  <2> HIDE DEF m
  <2>2. Arguments(r)[m] = Argument(m)
    BY <1>4, <2>1
  <2>3. Argument(m) = Addr(n)
    BY <2>1 DEF Argument
  <2>4. Arguments(r)[m] = Addr(n)
    BY <2>2, <2>3
  <2> QED BY <2>1, <2>4 DEF m
<1>6. ASSUME r < n PROVE Arguments(r)[n] = Addr(n)
  <2>1. n \in 1 .. Size - 1 /\ ~(n <= r) /\ n < Size
    BY <1>1, <1>2, <1>6
  <2>2. Arguments(r)[n] = Argument(n)
    BY <1>4, <2>1
  <2>3. Argument(n) = Addr(n)
    BY <2>1 DEF Argument
  <2> QED BY <2>2, <2>3
<1> QED BY <1>4, <1>5, <1>6

(* The argument that is read in round s is the address of rank s. *)
LEMMA ArgumentIsAddress ==
  ASSUME TypeOK, NEW r \in Rank, RankInv(r), i[r] < Size, i[r] # r
  PROVE  /\ i[r] \in Rank
         /\ i[r] + offset[r] < Len(Arguments(r))
         /\ Arguments(r)[i[r] + offset[r] + 1] = Addr(i[r])
<1> DEFINE n == i[r]
           o == offset[r]
<1>1. n \in 0 .. Size
  BY DEF TypeOK
<1>2. o = IF n > r THEN -1 ELSE 0
  BY DEF RankInv
<1>3. n < Size /\ n # r
  OBVIOUS
<1> SUFFICES n \in Rank /\ n + o < Len(Arguments(r)) /\ Arguments(r)[n + o + 1] = Addr(n)
  OBVIOUS
<1> HIDE DEF n, o
<1>4. Size \in Nat /\ r \in Nat /\ r < Size
  BY RankFacts
<1>5. n \in Nat /\ n \in Rank
  BY <1>1, <1>3, <1>4 DEF Rank
<1>6. CASE n > r
  <2>1. o = -1
    BY <1>2, <1>6
  <2>2. n + o + 1 = n /\ n + o < Size - 1
    BY <1>3, <1>4, <1>5, <2>1
  <2>3. /\ Len(Arguments(r)) = Size - 1 + Len(extra) /\ Len(extra) \in Nat
        /\ Arguments(r)[n] = Addr(n)
    BY <1>3, <1>4, <1>5, <1>6, ArgumentsFacts
  <2>4. n + o < Size - 1 + Len(extra)
    BY <1>4, <1>5, <2>1, <2>2, <2>3
  <2> QED BY <1>5, <2>2, <2>3, <2>4
<1>7. CASE n < r
  <2>1. o = 0
    BY <1>2, <1>4, <1>5, <1>7
  <2>2. n + o + 1 = n + 1 /\ n + o = n
    BY <1>5, <2>1
  <2>3. /\ Len(Arguments(r)) = Size - 1 + Len(extra) /\ Len(extra) \in Nat
        /\ n < Size - 1 /\ Arguments(r)[n + 1] = Addr(n)
    BY <1>3, <1>5, <1>7, ArgumentsFacts
  <2>4. n + o < Size - 1 + Len(extra)
    BY <1>4, <1>5, <2>2, <2>3
  <2> QED BY <1>5, <2>2, <2>3, <2>4
<1> QED BY <1>3, <1>4, <1>5, <1>6, <1>7

LEMMA PrefixGrows ==
  ASSUME TypeOK, NEW n \in Rank
  PROVE  /\ Prefix(n) \in Seq(Host)
         /\ Append(Prefix(n), Addr(n)) = Prefix(n + 1)
         /\ Append(Prefix(n), Addr(n)) \in Seq(Host)
<1>1. n \in Nat
  BY RankFacts
<1>2. \A m \in 0 .. n : m \in Rank /\ Addr(m) \in Host
  BY RankFacts, SocketType DEF TypeOK, Rank
<1>3. Prefix(n) \in Seq(Host) /\ Len(Prefix(n)) = n
  BY <1>1, <1>2 DEF Prefix
<1>4. Append(Prefix(n), Addr(n)) = Prefix(n + 1)
  <2>1. \A k \in 1 .. n + 1 : k # n + 1 => k \in 1 .. n
    BY <1>1
  <2>2. n + 1 - 1 = n
    BY <1>1
  <2> QED BY <1>1, <1>3, <2>1, <2>2 DEF Prefix
<1> QED BY <1>2, <1>3, <1>4, <1>1

-----------------------------------------------------------------------------
LEMMA OwnRoundIInv ==
  ASSUME IInv, NEW r \in Cpu, OwnRound(r)
  PROVE  IInv'
<1> r \in Rank
  BY DEF Cpu
<1>1. TypeOK /\ RankInv(r) /\ i[r] = r /\ i[r] \in Nat
  BY RankFacts DEF IInv, OwnRound
<1>2. Occurrences(Addr(r), addrs[r]) = Cardinality(Before(r))
  BY <1>1, CountsBefore DEF RankInv
<1>3. MpiPort + Occurrences(Addr(r), addrs[r]) = Port(r) /\ Port(r) \in Nat
  BY <1>2, PortIsNat DEF Port
<1>4. Append(addrs[r], Addr(r)) = Prefix(r + 1) /\ Append(addrs[r], Addr(r)) \in Seq(Host)
  BY <1>1, PrefixGrows DEF RankInv
<1>5. r + 1 \in 0 .. Size
  BY RankFacts
<1>6. TypeOK'
  BY <1>1, <1>3, <1>4, <1>5 DEF TypeOK, OwnRound, Cluster
<1>7. RankInv(r)'
  <2>1. /\ at'[r] = "resolving" /\ i'[r] = r + 1 /\ offset'[r] = -1
        /\ ownPort'[r] = Port(r) /\ addrs'[r] = Prefix(r + 1)
        /\ socks' = socks /\ bound' = bound /\ cluster' = cluster
        /\ app' = app /\ extra' = extra
    BY <1>1, <1>3, <1>4 DEF TypeOK, OwnRound
  <2>2. \A s \in Rank \ {r} : s < r + 1 => s < r
    BY RankFacts
  <2>3. \A s \in Rank \ {r} : s < r + 1 => socks[r][s] = Socket(s)
    BY <1>1, <2>2 DEF RankInv
  <2>4. bound[r] = NoSocket
    BY <1>1 DEF RankInv, OwnRound
  <2>5. r + 1 > r
    BY RankFacts
  <2>6. (Prefix(r + 1))' = Prefix(r + 1) /\ Port(r)' = Port(r)
    BY <2>1 DEF Prefix, Port, Before, Addr
  <2>7. \A s \in Rank : Socket(s)' = Socket(s)
    BY <2>1 DEF Socket, Port, Before, Addr
  <2>8. Prefix(i[r])' = Prefix(r + 1)
    BY <2>1 DEF Prefix, Addr
  <2>9. AppArguments(r)' = AppArguments(r)
    BY <2>1, SameAppArguments
  <2> QED BY <1>1, <2>1, <2>3, <2>4, <2>5, <2>6, <2>7, <2>8, <2>9 DEF RankInv
<1>8. ASSUME NEW q \in Rank, q # r PROVE RankInv(q)'
  BY <1>1, <1>8, RankUntouched DEF IInv, TypeOK, OwnRound
<1> QED BY <1>6, <1>7, <1>8 DEF IInv

LEMMA PeerRoundIInv ==
  ASSUME IInv, NEW r \in Cpu, PeerRound(r)
  PROVE  IInv'
<1> DEFINE n == i[r]
<1> r \in Rank
  BY DEF Cpu
<1>1. TypeOK /\ RankInv(r) /\ n < Size /\ n # r
  BY DEF IInv, PeerRound, Goes
<1>2. n \in Rank /\ n \in Nat /\ Arguments(r)[n + offset[r] + 1] = Addr(n)
  BY <1>1, ArgumentIsAddress, RankFacts
<1>3. <<Addr(n), MpiPort + Occurrences(Addr(n), addrs[r])>> = Socket(n)
  BY <1>1, <1>2, CountsBefore DEF RankInv, Socket, Port
<1>4. Append(addrs[r], Addr(n)) = Prefix(n + 1) /\ Append(addrs[r], Addr(n)) \in Seq(Host)
  BY <1>1, <1>2, PrefixGrows DEF RankInv
<1>5. n + 1 \in 0 .. Size /\ Socket(n) \in Host \X Nat
  BY <1>1, <1>2, SocketType, RankFacts DEF TypeOK
<1>6. /\ socks' = [socks EXCEPT ![r][n] = Socket(n)]
      /\ addrs' = [addrs EXCEPT ![r] = Prefix(n + 1)]
      /\ i' = [i EXCEPT ![r] = n + 1]
      /\ UNCHANGED <<cluster, extra, at, offset, ownPort, bound, app>>
  BY <1>2, <1>3, <1>4 DEF PeerRound, Resolved
<1>7. TypeOK'
  <2>1. Prefix(n + 1) \in Seq(Host)
    BY <1>4
  <2>2. socks' \in [Rank -> [Rank -> (Host \X Nat) \cup {NoSocket}]]
    BY <1>1, <1>2, <1>5, <1>6 DEF TypeOK
  <2> HIDE DEF n
  <2> QED BY <1>1, <1>5, <1>6, <2>1, <2>2 DEF TypeOK, Cluster
<1>8. RankInv(r)'
  <2>1. /\ i'[r] = n + 1 /\ addrs'[r] = Prefix(n + 1)
        /\ socks'[r] = [socks[r] EXCEPT ![n] = Socket(n)]
        /\ at' = at /\ offset' = offset /\ ownPort' = ownPort /\ bound' = bound
        /\ cluster' = cluster /\ extra' = extra /\ app' = app
    BY <1>1, <1>6 DEF TypeOK
  <2>2. (n + 1 > r) <=> (n > r)
    BY <1>1, <1>2, RankFacts
  <2>3. \A s \in Rank \ {r} : s < n + 1 => socks'[r][s] = Socket(s)
    <3>1. \A s \in Rank : s < n + 1 /\ s # n => s < n
      BY <1>2, RankFacts
    <3>2. \A s \in Rank \ {r} : s < n => socks[r][s] = Socket(s)
      BY <1>1 DEF RankInv
    <3>3. DOMAIN socks[r] = Rank
      BY <1>1 DEF TypeOK
    <3> HIDE DEF n
    <3> QED BY <1>2, <2>1, <3>1, <3>2, <3>3
  <2>4. at[r] = "resolving" /\ bound[r] = NoSocket
    BY <1>1 DEF RankInv, PeerRound
  <2>5. /\ Prefix(i[r])' = Prefix(n + 1) /\ Port(r)' = Port(r)
        /\ \A s \in Rank : Socket(s)' = Socket(s)
    BY <2>1 DEF Prefix, Socket, Port, Before, Addr
  <2>6. offset[r] = (IF n > r THEN -1 ELSE 0) /\ (n > r => ownPort[r] = Port(r))
    BY <1>1 DEF RankInv
  <2>7. AppArguments(r)' = AppArguments(r) /\ app[r] \in {<< >>, AppArguments(r)}
    BY <1>1, <2>1, SameAppArguments DEF RankInv
  <2> HIDE DEF n
  <2> QED BY <2>1, <2>2, <2>3, <2>4, <2>5, <2>6, <2>7 DEF RankInv
<1>9. ASSUME NEW q \in Rank, q # r PROVE RankInv(q)'
  BY <1>1, <1>6, <1>9, RankUntouched DEF IInv, TypeOK
<1> QED BY <1>7, <1>8, <1>9 DEF IInv

LEMMA BindIInv ==
  ASSUME IInv, NEW r \in Cpu, Bind(r)
  PROVE  IInv'
<1> r \in Rank
  BY DEF Cpu
<1>1. TypeOK /\ RankInv(r) /\ at[r] = "resolving" /\ i[r] \in 0 .. Size
  BY DEF IInv, Bind, TypeOK
<1>2. i[r] = Size
  <2>1. ~Goes(r)
    BY DEF Bind
  <2>2. i[r] < Size => i[r] # r /\ i[r] + offset[r] < Len(Arguments(r))
    BY <1>1, <2>1, ArgumentIsAddress DEF Goes
  <2>3. ~(i[r] < Size)
    BY <2>1, <2>2 DEF Goes
  <2> QED BY <1>1, <2>3, RankFacts
<1>3. <<Addr(r), ownPort[r]>> = Socket(r)
  BY <1>1, <1>2, RankFacts DEF RankInv, Socket
<1>4. \A s \in Rank : bound[s] # Socket(r)
  <2> TAKE s \in Rank
  <2>1. bound[s] \in {Socket(s), NoSocket} /\ bound[r] = NoSocket
    BY <1>1 DEF IInv, RankInv
  <2>2. Socket(r) # NoSocket
    BY <1>1, SocketType DEF TypeOK
  <2> QED BY <2>1, <2>2, SocketsDiffer
<1>5. /\ at' = [at EXCEPT ![r] = "running"] /\ bound' = [bound EXCEPT ![r] = Socket(r)]
      /\ UNCHANGED <<cluster, extra, i, offset, ownPort, addrs, socks, app>>
  BY <1>3, <1>4 DEF Bind
<1>6. TypeOK'
  BY <1>1, <1>5, SocketType DEF TypeOK, Cluster
<1>7. RankInv(r)'
  <2>1. at'[r] = "running" /\ bound'[r] = Socket(r)
    BY <1>1, <1>5 DEF TypeOK
  <2>2. /\ Prefix(i[r])' = Prefix(i[r]) /\ Port(r)' = Port(r)
        /\ \A s \in Rank : Socket(s)' = Socket(s)
    BY <1>5 DEF Prefix, Socket, Port, Before, Addr
  <2>3. AppArguments(r)' = AppArguments(r)
    BY <1>5, SameAppArguments
  <2> QED BY <1>1, <1>2, <1>5, <2>1, <2>2, <2>3 DEF RankInv
<1>8. ASSUME NEW q \in Rank, q # r PROVE RankInv(q)'
  BY <1>1, <1>5, <1>8, RankUntouched DEF IInv, TypeOK
<1> QED BY <1>6, <1>7, <1>8 DEF IInv

LEMMA CheckArgumentsIInv ==
  ASSUME IInv, NEW r \in Cpu, CheckArguments(r)
  PROVE  IInv'
<1> r \in Rank
  BY DEF Cpu
<1>1. PICK how \in {"resolving", "refused"} : at' = [at EXCEPT ![r] = how]
  BY DEF CheckArguments
<1>2. /\ at[r] = "starting"
      /\ UNCHANGED <<cluster, extra, i, offset, ownPort, addrs, socks, bound, app>>
  BY DEF CheckArguments
<1>3. TypeOK'
  BY <1>1, <1>2 DEF IInv, TypeOK, Cluster
<1>4. RankInv(r)'
  <2>1. at'[r] = how /\ RankInv(r)
    BY <1>1 DEF IInv, TypeOK
  <2>2. /\ Prefix(i[r])' = Prefix(i[r]) /\ Port(r)' = Port(r)
        /\ \A s \in Rank : Socket(s)' = Socket(s)
    BY <1>2 DEF Prefix, Socket, Port, Before, Addr
  <2>3. AppArguments(r)' = AppArguments(r)
    BY <1>2, SameAppArguments
  <2> QED BY <1>1, <1>2, <2>1, <2>2, <2>3 DEF RankInv
<1>5. ASSUME NEW q \in Rank, q # r PROVE RankInv(q)'
  BY <1>1, <1>2, <1>5, RankUntouched DEF IInv, TypeOK
<1> QED BY <1>3, <1>4, <1>5 DEF IInv

(* The arguments of the user program: the index is within the list. *)
LEMMA AppArgumentsFacts ==
  ASSUME TypeOK, NEW r \in Rank
  PROVE  /\ AppArguments(r) \in Seq(Host \cup Text \cup {ProgramName})
         /\ Len(AppArguments(r)) = Len(extra) + 1 /\ AppArguments(r)[1] = ProgramName
         /\ \A a \in 2 .. Len(extra) + 1 : AppArguments(r)[a] = extra[1]
<1> DEFINE m == Len(extra)
           L == Size - 1 + m
           Argument(k) == IF k <= r THEN Addr(k - 1)
                          ELSE IF k < Size THEN Addr(k) ELSE extra[k - Size + 1]
<1>1. Size \in Nat /\ Size > 1 /\ r \in Nat /\ r < Size
  BY StartupAssumption DEF Rank
<1>2. extra \in Seq(Text) /\ m \in Nat /\ \A k \in 1 .. m : extra[k] \in Text
  BY StartupAssumption, LenProperties, ElementOfSeq DEF TypeOK
<1>3. Arguments(r) = [k \in 1 .. L |-> Argument(k)]
  BY DEF Arguments
<1>4. m > 0 => Argument(Size) = extra[1]
  BY <1>1, <1>2
<1> HIDE DEF Argument, m
<1>5. Len(Arguments(r)) = L /\ L \in Nat
  BY <1>1, <1>2, <1>3
<1>6. m > 0 => Arguments(r)[Size] = extra[1] /\ extra[1] \in Text
  BY <1>1, <1>2, <1>3, <1>4
<1>7. Larger(Argc(r) - Size - 4 + 1, 1) = m + 1
  BY <1>1, <1>2, <1>5 DEF Argc, Larger
<1> DEFINE arg(a) == IF a = 1 THEN ProgramName ELSE Arguments(r)[Size]
<1>8. AppArguments(r) = [a \in 1 .. m + 1 |-> arg(a)]
  BY <1>7 DEF AppArguments
<1>9. \A a \in 2 .. m + 1 : m > 0 /\ a # 1 /\ a \in 1 .. m + 1
  BY <1>2
<1>10. \A a \in 1 .. m + 1 : arg(a) \in Host \cup Text \cup {ProgramName}
  BY <1>2, <1>6, <1>9
<1>11. \A a \in 2 .. m + 1 : AppArguments(r)[a] = extra[1]
  BY <1>6, <1>8, <1>9
<1>12. 1 \in 1 .. m + 1 /\ m + 1 \in Nat
  BY <1>2
<1>13. AppArguments(r)[1] = ProgramName
  BY <1>8, <1>12
<1> HIDE DEF arg
<1>14. /\ AppArguments(r) \in Seq(Host \cup Text \cup {ProgramName})
       /\ Len(AppArguments(r)) = m + 1
  BY <1>8, <1>10, <1>12
<1> QED BY <1>11, <1>13, <1>14 DEF m

LEMMA CallAppIInv ==
  ASSUME IInv, NEW r \in Cpu, CallApp(r)
  PROVE  IInv'
<1> r \in Rank
  BY DEF Cpu
<1>1. /\ app' = [app EXCEPT ![r] = AppArguments(r)]
      /\ UNCHANGED <<cluster, extra, at, i, offset, ownPort, addrs, socks, bound>>
  BY DEF CallApp
<1>2. TypeOK /\ AppArguments(r) \in Seq(Host \cup Text \cup {ProgramName})
  BY AppArgumentsFacts DEF IInv
<1>3. TypeOK'
  BY <1>1, <1>2 DEF TypeOK, Cluster
<1>4. RankInv(r)'
  <2>1. app'[r] = AppArguments(r) /\ RankInv(r)
    BY <1>1, <1>2 DEF IInv, TypeOK
  <2>2. /\ Prefix(i[r])' = Prefix(i[r]) /\ Port(r)' = Port(r)
        /\ \A s \in Rank : Socket(s)' = Socket(s)
    BY <1>1 DEF Prefix, Socket, Port, Before, Addr
  <2>3. AppArguments(r)' = AppArguments(r)
    BY <1>1, SameAppArguments
  <2> QED BY <1>1, <2>1, <2>2, <2>3 DEF RankInv
<1>5. ASSUME NEW q \in Rank, q # r PROVE RankInv(q)'
  BY <1>1, <1>2, <1>5, RankUntouched DEF IInv, TypeOK
<1> QED BY <1>3, <1>4, <1>5 DEF IInv

LEMMA FinalizeIInv ==
  ASSUME IInv, NEW r \in Cpu, Finalize(r)
  PROVE  IInv'
<1> r \in Rank
  BY DEF Cpu
<1>1. /\ at[r] = "running" /\ at' = [at EXCEPT ![r] = "finished"]
      /\ bound' = [bound EXCEPT ![r] = NoSocket]
      /\ UNCHANGED <<cluster, extra, i, offset, ownPort, addrs, socks, app>>
  BY DEF Finalize
<1>2. TypeOK'
  BY <1>1 DEF IInv, TypeOK, Cluster
<1>3. RankInv(r)'
  <2>1. at'[r] = "finished" /\ bound'[r] = NoSocket /\ RankInv(r)
    BY <1>1 DEF IInv, TypeOK
  <2>2. /\ Prefix(i[r])' = Prefix(i[r]) /\ Port(r)' = Port(r)
        /\ \A s \in Rank : Socket(s)' = Socket(s)
    BY <1>1 DEF Prefix, Socket, Port, Before, Addr
  <2>3. AppArguments(r)' = AppArguments(r)
    BY <1>1, SameAppArguments
  <2> QED BY <1>1, <2>1, <2>2, <2>3 DEF RankInv
<1>4. ASSUME NEW q \in Rank, q # r PROVE RankInv(q)'
  BY <1>1, <1>4, RankUntouched DEF IInv, TypeOK
<1> QED BY <1>2, <1>3, <1>4 DEF IInv

LEMMA NextIInv == IInv /\ [CpuRankStep]_vars => IInv'
<1> SUFFICES ASSUME IInv, [CpuRankStep]_vars PROVE IInv'
  OBVIOUS
<1>1. ASSUME NEW r \in Cpu, OwnRound(r) PROVE IInv'
  BY <1>1, OwnRoundIInv
<1>2. ASSUME NEW r \in Cpu, PeerRound(r) PROVE IInv'
  BY <1>2, PeerRoundIInv
<1>3. ASSUME NEW r \in Cpu, Bind(r) PROVE IInv'
  BY <1>3, BindIInv
<1>4. CASE UNCHANGED vars
  <2>1. TypeOK'
    BY <1>4 DEF IInv, TypeOK, vars, Cluster
  <2>2. ASSUME NEW r \in Rank PROVE RankInv(r)'
    BY <1>4, RankUntouched DEF IInv, vars
  <2> QED BY <2>1, <2>2 DEF IInv
<1>5. ASSUME NEW r \in Cpu, CheckArguments(r) PROVE IInv'
  BY <1>5, CheckArgumentsIInv
<1>6. ASSUME NEW r \in Cpu, CallApp(r) PROVE IInv'
  BY <1>6, CallAppIInv
<1>7. ASSUME NEW r \in Cpu, Finalize(r) PROVE IInv'
  BY <1>7, FinalizeIInv
<1> QED BY <1>1, <1>2, <1>3, <1>4, <1>5, <1>6, <1>7 DEF CpuRankStep

LEMMA Inductive == Spec => []IInv
BY InitIInv, NextIInv, PTL DEF Spec

-----------------------------------------------------------------------------
(* Every CPU rank that leaves MPI_Init knows the sockets of all others, in *)
(* every cluster with complete argument lists.                             *)
THEOREM RanksReachEachOther == Spec => []Reaches
<1>1. IInv => Reaches
  <2> SUFFICES ASSUME IInv, NEW r \in Cpu, at[r] = "running", NEW s \in Rank \ {r}
               PROVE  /\ socks[r][s] # NoSocket
                      /\ bound[s] # NoSocket => socks[r][s] = bound[s]
    BY DEF Reaches
  <2>1. r \in Rank /\ RankInv(r) /\ RankInv(s) /\ cluster \in Cluster
    BY DEF Cpu, IInv, TypeOK
  <2>2. s < i[r]
    BY <2>1, RankFacts DEF RankInv
  <2>3. socks[r][s] = Socket(s)
    BY <2>1, <2>2 DEF RankInv
  <2> QED BY <2>1, <2>3, SocketType DEF RankInv
<1> QED BY <1>1, Inductive, PTL

(* No rank finds its port taken, whoever starts first. *)
THEOREM PortsAreFree == Spec => []NobodyExits
<1>1. IInv => NobodyExits
  BY DEF IInv, RankInv, NobodyExits
<1> QED BY <1>1, Inductive, PTL

(* A user program with at most one argument gets it. *)
THEOREM ArgumentsArrive == Spec => []GivenArguments
<1>1. IInv => GivenArguments
  <2> SUFFICES ASSUME IInv, NEW r \in Cpu, app[r] # << >>
               PROVE  /\ Len(app[r]) = Len(extra) + 1
                      /\ Len(extra) <= 1 => app[r] = <<ProgramName>> \o extra
    BY DEF GivenArguments
  <2>1. r \in Rank /\ TypeOK /\ app[r] = AppArguments(r)
    BY DEF Cpu, IInv, RankInv
  <2>2. extra \in Seq(Text) /\ Len(extra) \in Nat
    BY <2>1, StartupAssumption, LenProperties DEF TypeOK
  <2>3. /\ app[r] \in Seq(Host \cup Text \cup {ProgramName})
        /\ Len(app[r]) = Len(extra) + 1 /\ app[r][1] = ProgramName
        /\ \A a \in 2 .. Len(extra) + 1 : app[r][a] = extra[1]
    BY <2>1, AppArgumentsFacts
  <2>4. ASSUME Len(extra) <= 1 PROVE app[r] = <<ProgramName>> \o extra
    <3> DEFINE S == Host \cup Text \cup {ProgramName}
               given == <<ProgramName>> \o extra
    <3>1. extra \in Seq(S) /\ <<ProgramName>> \in Seq(S)
      BY <2>2, SeqMonotonic
    <3>2. /\ given \in Seq(S) /\ Len(given) = 1 + Len(extra)
          /\ \A k \in 1 .. 1 + Len(extra) :
               given[k] = IF k <= 1 THEN <<ProgramName>>[k] ELSE extra[k - 1]
      BY <3>1, ConcatProperties
    <3>3. \A k \in 1 .. Len(app[r]) : k = 1 \/ (k = 2 /\ k \in 2 .. Len(extra) + 1)
      BY <2>2, <2>3, <2>4
    <3>4. \A k \in 1 .. Len(app[r]) : app[r][k] = given[k]
      BY <2>2, <2>3, <3>2, <3>3
    <3> HIDE DEF given, S
    <3>5. app[r] = given
      BY <2>2, <2>3, <3>2, <3>4, SeqEqual DEF S
    <3> QED BY <3>5 DEF given
  <2> QED BY <2>3, <2>4
<1> QED BY <1>1, Inductive, PTL

(* The first rank of every host listens where the FPGAs send to. *)
THEOREM DefaultPortReaches == Spec => []FpgasReach
<1>1. IInv => FpgasReach
  <2> SUFFICES ASSUME IInv, NEW r \in Rank, First(r), bound[r] # NoSocket
               PROVE  bound[r] = <<Addr(r), MpiPort>>
    BY DEF FpgasReach
  <2>1. bound[r] = Socket(r)
    BY DEF IInv, RankInv
  <2> QED BY <2>1, FirstHasDefault DEF Socket
<1> QED BY <1>1, Inductive, PTL

-----------------------------------------------------------------------------
(* Launch. *)

(* The ranks on CPUs start in a cluster with FPGAs as they do alone.       *)
THEOREM LaunchImplementsStartup == LaunchSpec => Spec
<1>1. LaunchInit => Init
  BY DEF LaunchInit
<1>2. [LaunchNext]_launchVars => [CpuRankStep]_vars
  BY DEF LaunchNext, launchVars, Terminated
<1> QED BY <1>1, <1>2, PTL DEF LaunchSpec, Spec

(* The wrapper latches both registers at once, in any invocation up to the *)
(* end of the memory test; the size in it tells that the rank was there.   *)
SlotInv(s) ==
  /\ fmc[s] \in [rank : {0, s}, size : {0, Size}]
  /\ fmc[s].size # 0 => fmc[s].rank = s
  /\ role[s] \in [written : BOOLEAN, read : BOOLEAN, tested : BOOLEAN, init : BOOLEAN,
                  rank : {0, s}, size : {0, Size}, inApp : BOOLEAN, done : BOOLEAN]
  /\ role[s].init => role[s].rank = s /\ role[s].size = Size
  /\ role[s].inApp => Ready(role[s])
  /\ ~role[s].inApp => mmio[s] = Display(role[s])

RoleInv ==
  /\ DOMAIN fmc = Rank /\ DOMAIN role = Rank /\ DOMAIN mmio = Rank
  /\ \A s \in Rank : SlotInv(s)

LEMMA InitRoleInv == LaunchInit => RoleInv
BY StartupAssumption DEF LaunchInit, RoleInit, RoleInv, SlotInv, Nothing, Statics, Ready

(* What one slot does leaves the others alone. *)
LEMMA SlotUntouched ==
  ASSUME NEW s \in Rank, SlotInv(s), fmc'[s] = fmc[s], role'[s] = role[s], mmio'[s] = mmio[s]
  PROVE  SlotInv(s)'
BY DEF SlotInv, Ready, Display

LEMMA MemoryTestKeeps ==
  ASSUME NEW s \in Rank, SlotInv(s), NEW intact \in BOOLEAN
  PROVE  LET w == MemoryTest(role[s], intact)
         IN  /\ w \in [written : BOOLEAN, read : BOOLEAN, tested : BOOLEAN, init : BOOLEAN,
                       rank : {0, s}, size : {0, Size}, inApp : BOOLEAN, done : BOOLEAN]
             /\ w.init = role[s].init /\ w.rank = role[s].rank /\ w.size = role[s].size
             /\ w.inApp = role[s].inApp
BY DEF MemoryTest, SlotInv

LEMMA WaitForInitRoleInv ==
  ASSUME RoleInv, NEW s \in Rank, WaitForInit(s)
  PROVE  RoleInv'
<1>1. PICK intact \in BOOLEAN : role' = [role EXCEPT ![s] = Latch(s, MemoryTest(@, intact))]
  BY DEF WaitForInit
<1> DEFINE w == MemoryTest(role[s], intact)
<1>2. /\ w \in [written : BOOLEAN, read : BOOLEAN, tested : BOOLEAN, init : BOOLEAN,
                rank : {0, s}, size : {0, Size}, inApp : BOOLEAN, done : BOOLEAN]
      /\ w.init = role[s].init /\ w.rank = role[s].rank /\ w.size = role[s].size
      /\ w.inApp = role[s].inApp
  BY MemoryTestKeeps DEF RoleInv
<1>3. role'[s] = Latch(s, w) /\ fmc' = fmc /\ ~role[s].inApp
      /\ mmio' = [mmio EXCEPT ![s] = Display(role'[s])]
  BY <1>1 DEF WaitForInit, RoleInv
<1> HIDE DEF w
<1>4. SlotInv(s)
  BY DEF RoleInv
<1>5. SlotInv(s)'
  <2>1. CASE fmc[s].size = 0
    BY <1>2, <1>3, <1>4, <2>1 DEF SlotInv, Latch, RoleInv
  <2>2. CASE fmc[s].size # 0
    BY <1>2, <1>3, <1>4, <2>2 DEF SlotInv, Latch, RoleInv
  <2> QED BY <2>1, <2>2
<1>6. ASSUME NEW q \in Rank, q # s PROVE SlotInv(q)'
  BY <1>1, <1>3, <1>6, SlotUntouched DEF RoleInv
<1> QED BY <1>1, <1>3, <1>5, <1>6 DEF RoleInv

LEMMA RoleStepRoleInv ==
  ASSUME RoleInv, NEW s \in Rank, RoleStep(s)
  PROVE  RoleInv'
<1>0. SlotInv(s) /\ s \in Nat /\ Size \in Nat /\ Size # 0
  BY StartupAssumption DEF RoleInv, Rank
<1>1. CASE SetRank(s)
  <2>1. SlotInv(s)'
    BY <1>0, <1>1 DEF SetRank, SlotInv, RoleInv, Nothing
  <2>2. ASSUME NEW q \in Rank, q # s PROVE SlotInv(q)'
    BY <1>1, <2>2, SlotUntouched DEF SetRank, RoleInv
  <2> QED BY <1>1, <2>1, <2>2 DEF SetRank, RoleInv
<1>2. CASE SetSize(s)
  <2>1. SlotInv(s)'
    BY <1>0, <1>2 DEF SetSize, SlotInv, RoleInv
  <2>2. ASSUME NEW q \in Rank, q # s PROVE SlotInv(q)'
    BY <1>2, <2>2, SlotUntouched DEF SetSize, RoleInv
  <2> QED BY <1>2, <2>1, <2>2 DEF SetSize, RoleInv
<1>3. CASE WaitForInit(s)
  BY <1>3, WaitForInitRoleInv
<1>4. CASE AppMain(s)
  <2>1. SlotInv(s)'
    BY <1>0, <1>4 DEF AppMain, SlotInv, RoleInv, Ready
  <2>2. ASSUME NEW q \in Rank, q # s PROVE SlotInv(q)'
    BY <1>4, <2>2, SlotUntouched DEF AppMain, RoleInv
  <2> QED BY <1>4, <2>1, <2>2 DEF AppMain, RoleInv
<1>5. CASE AppFinalize(s)
  <2>1. SlotInv(s)'
    BY <1>0, <1>5 DEF AppFinalize, SlotInv, RoleInv, Ready
  <2>2. ASSUME NEW q \in Rank, q # s PROVE SlotInv(q)'
    BY <1>5, <2>2, SlotUntouched DEF AppFinalize, RoleInv
  <2> QED BY <1>5, <2>1, <2>2 DEF AppFinalize, RoleInv
<1>6. CASE AppReturns(s)
  <2>1. SlotInv(s)'
    BY <1>0, <1>6 DEF AppReturns, SlotInv, RoleInv
  <2>2. ASSUME NEW q \in Rank, q # s PROVE SlotInv(q)'
    BY <1>6, <2>2, SlotUntouched DEF AppReturns, RoleInv
  <2> QED BY <1>6, <2>1, <2>2 DEF AppReturns, RoleInv
<1> QED BY <1>1, <1>2, <1>3, <1>4, <1>5, <1>6 DEF RoleStep

LEMMA RoleInductive == LaunchSpec => []RoleInv
<1>1. RoleInv /\ [LaunchNext]_launchVars => RoleInv'
  <2> SUFFICES ASSUME RoleInv, [LaunchNext]_launchVars PROVE RoleInv'
    OBVIOUS
  <2>1. ASSUME NEW r \in Rank \ Cpu, RoleStep(r) PROVE RoleInv'
    BY <2>1, RoleStepRoleInv
  <2>2. CASE UNCHANGED <<fmc, role, mmio>>
    BY <2>2, SlotUntouched DEF RoleInv
  <2> QED BY <2>1, <2>2 DEF LaunchNext, launchVars, Terminated
<1> QED BY <1>1, InitRoleInv, PTL DEF LaunchSpec

(* An FPGA application is told its own rank and the right size, whenever   *)
(* the two registers are written and whatever the memory test finds.       *)
THEOREM ApplicationsKnowTheirPlace == LaunchSpec => []KnowsItsPlace
<1>1. RoleInv => KnowsItsPlace
  BY DEF RoleInv, SlotInv, KnowsItsPlace, Ready, CommRank, CommSize
<1> QED BY <1>1, RoleInductive, PTL

(* No return of the wrapper leaves an old display. *)
THEOREM DisplayIsCurrent == LaunchSpec => []DisplayIsTrue
<1>1. RoleInv => DisplayIsTrue
  BY DEF RoleInv, SlotInv, DisplayIsTrue
<1> QED BY <1>1, RoleInductive, PTL

=============================================================================
