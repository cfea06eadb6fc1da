------------------------ MODULE CollectiveRun_proofs ------------------------
(***************************************************************************)
(* Theorems about the code that the transpiler emits for a collective      *)
(* call, for every size of the cluster, every order of its lists, every    *)
(* size of a group and every root; those about the data in the buffers are *)
(* at the end.                                                             *)
(*                                                                         *)
(* The first ones are about the statements alone, whatever the order in    *)
(* which the ranks execute them, so that the only invariant of the run is  *)
(* that pc counts statements.  The arithmetic of the groups is where it    *)
(* could go wrong: the last one is shorter, and their number is a quotient *)
(* rounded up.                                                             *)
(***************************************************************************)
EXTENDS CollectiveRun, SequenceTheorems, WellFoundedInduction, TLAPS

(* A tree needs a root outside of it: the root sends to all replicators.   *)
RootsOnCpu == \A c \in Cases : UsesTree(c) => c.root \in Range(c.cpu)

-----------------------------------------------------------------------------
(* Arithmetic. *)

LEMMA Least ==
  ASSUME NEW T, T \subseteq Nat, T # {}
  PROVE  \E x \in T : \A y \in T : x <= y
<1>1. IsWellFoundedOn(OpToRel(<, Nat), Nat)
  BY NatLessThanWellFounded
<1>2. PICK x \in T : \A y \in T : ~(<<y, x>> \in OpToRel(<, Nat))
  BY <1>1, WFMin
<1>3. ASSUME NEW y \in T PROVE x <= y
  <2>1. x \in Nat /\ y \in Nat
    OBVIOUS
  <2>2. ~(y < x)
    BY <1>2, <2>1 DEF OpToRel
  <2> QED BY <2>1, <2>2
<1> QED BY <1>3

LEMMA TimesMonotonic ==
  ASSUME NEW a \in Nat, NEW b \in Nat, NEW n \in Nat, a <= b
  PROVE  a * n <= b * n
OBVIOUS

LEMMA TimesInjective ==
  ASSUME NEW a \in Nat, NEW b \in Nat, NEW n \in Nat \ {0}, a * n = b * n
  PROVE  a = b
OBVIOUS

(* A quotient that is rounded up. *)
LEMMA RoundedUp ==
  ASSUME NEW n \in Nat, NEW d \in Nat \ {0}
  PROVE  LET q == (n + d - 1) \div d
         IN  q \in Nat /\ q * d >= n /\ q * d <= n + d - 1
OBVIOUS

(* The last element of a group: p elements fill all groups, h those up to  *)
(* this one.                                                               *)
LEMMA EndOfGroup ==
  ASSUME NEW l \in Nat, NEW s \in Nat \ {0}, NEW p \in Nat, NEW h \in Nat,
         p >= l, p <= l + s - 1, h >= s
  PROVE  /\ h - s + 1 \in Nat \ {0}
         /\ h = p => h - s + 1 <= l /\ l - (h - s + 1) + 1 <= s
         /\ h <= p - s => h - s + 1 <= h /\ h <= l /\ h - (h - s + 1) + 1 <= s
OBVIOUS

-----------------------------------------------------------------------------
(* The groups. *)

LEMMA CaseFacts ==
  ASSUME NEW c \in Cases
  PROVE  /\ c \in Case /\ c.cpu \in Seq(Rank) /\ c.fpga \in Seq(Rank)
         /\ Len(c.cpu) \in Nat /\ Len(c.fpga) \in Nat /\ Size(c) \in Nat
         /\ c.root \in Ranks(c) /\ Ranks(c) \subseteq Rank /\ Size(c) >= 1
         /\ c.kind \in Kinds /\ c.inPlace \in BOOLEAN
         /\ Range(c.fpga) \subseteq Ranks(c)
<1>1. /\ c \in Case /\ c.cpu \in Seq(Rank) /\ c.fpga \in Seq(Rank)
      /\ c.kind \in Kinds /\ c.inPlace \in BOOLEAN
  BY CollectivesAssumption DEF Case
<1>2. Len(c.cpu) \in Nat /\ Len(c.fpga) \in Nat /\ Size(c) \in Nat
  <2>1. Len(c.cpu) \in Nat /\ Len(c.fpga) \in Nat
    BY <1>1, LenProperties
  <2>2. Size(c) = Len(c.cpu) + Len(c.fpga)
    BY DEF Size
  <2>3. \A m, n \in Nat : m + n \in Nat
    OBVIOUS
  <2> QED BY <2>1, <2>2, <2>3
<1>3. /\ Range(c.cpu) \cup Range(c.fpga) = 0 .. Len(c.cpu) + Len(c.fpga) - 1
      /\ c.root \in Range(c.cpu) \cup Range(c.fpga)
  BY CollectivesAssumption
<1> DEFINE n == Len(c.cpu) + Len(c.fpga)
           all == Range(c.cpu) \cup Range(c.fpga)
<1>4. c.root \in Ranks(c) /\ Ranks(c) \subseteq Rank /\ Range(c.fpga) \subseteq Ranks(c)
  <2>1. all \subseteq Rank
    BY <1>1, RangeOfSeq
  <2>2. Size(c) = n
    BY DEF Size
  <2>3. all = 0 .. n - 1 /\ c.root \in all
    <3>1. n - 1 = Len(c.cpu) + Len(c.fpga) - 1
      BY <1>2
    <3> HIDE DEF all
    <3>2. all = 0 .. Len(c.cpu) + Len(c.fpga) - 1 /\ c.root \in all
      BY <1>3 DEF all
    <3> HIDE DEF n
    <3> QED BY <3>1, <3>2
  <2>4. Range(c.fpga) \subseteq all
    OBVIOUS
  <2> HIDE DEF n, all
  <2>5. Ranks(c) = all
    BY <2>2, <2>3 DEF Ranks
  <2> QED BY <2>1, <2>3, <2>4, <2>5
<1>5. Size(c) >= 1
  BY <1>2, <1>4 DEF Ranks
<1> QED BY <1>1, <1>2, <1>4, <1>5

(* What there is to know of the bounds of a group: the last element of     *)
(* group g is element First(g) + Extent(c, g) - 1 of the list.             *)
LEMMA GroupFacts ==
  ASSUME NEW c \in Cases, Len(c.fpga) >= 2, NEW g \in Groups(c)
  PROVE  /\ GroupCnt(c) \in Nat \ {0}
         /\ First(g) \in 1 .. Len(c.fpga)
         /\ Members(c, g) \in Seq(Rank)
         /\ Extent(c, g) \in 1 .. GroupSize
         /\ First(g) + Extent(c, g) <= Len(c.fpga) + 1
         /\ Len(Members(c, g)) \in Nat
         /\ Extent(c, g) = Len(Members(c, g)) + 1
         /\ Replicator(c, g) \in Range(c.fpga)
         /\ \A k \in 1 .. Len(Members(c, g)) :
              /\ First(g) + k \in 1 .. Len(c.fpga)
              /\ Members(c, g)[k] = c.fpga[First(g) + k]
<1> DEFINE L == Len(c.fpga)
           q == GroupCnt(c)
           e == IF g = q THEN L ELSE First(g + 1) - 1
<1>1. L \in Nat /\ c.fpga \in Seq(Rank) /\ GroupSize \in Nat \ {0}
  BY CaseFacts, CollectivesAssumption
<1>2. q \in Nat /\ q * GroupSize >= L /\ q * GroupSize <= L + GroupSize - 1
  BY <1>1, RoundedUp DEF GroupCnt
<1>3. g \in Nat \ {0} /\ g <= q
  BY <1>2 DEF Groups
<1>4. First(g) = g * GroupSize - GroupSize + 1 /\ First(g + 1) = g * GroupSize + 1
  BY <1>1, <1>3 DEF First
<1>5. g * GroupSize \in Nat /\ g * GroupSize >= GroupSize
  BY <1>1, <1>3, TimesMonotonic
<1>6. g * GroupSize <= q * GroupSize
  BY <1>1, <1>2, <1>3, TimesMonotonic
<1>7. g # q => g * GroupSize <= q * GroupSize - GroupSize
  <2>1. SUFFICES ASSUME g # q PROVE g * GroupSize <= q * GroupSize - GroupSize
    OBVIOUS
  <2>2. (g + 1) * GroupSize <= q * GroupSize
    BY <1>1, <1>2, <1>3, <2>1, TimesMonotonic
  <2>3. (g + 1) * GroupSize = g * GroupSize + GroupSize
    BY <1>1, <1>3
  <2> QED BY <1>1, <1>2, <1>5, <2>2, <2>3
<1>8. /\ First(g) \in Nat \ {0} /\ e \in Nat /\ First(g) <= e /\ e <= L
      /\ e - First(g) + 1 <= GroupSize
  <2> DEFINE p == q * GroupSize
             h == g * GroupSize
  <2>1. p \in Nat /\ p >= L /\ p <= L + GroupSize - 1
    BY <1>1, <1>2
  <2>2. h \in Nat /\ h >= GroupSize /\ First(g) = h - GroupSize + 1 /\ First(g + 1) = h + 1
    BY <1>4, <1>5
  <2>3. g = q => h = p
    OBVIOUS
  <2>4. g # q => h <= p - GroupSize
    BY <1>7
  <2>5. e = IF g = q THEN L ELSE First(g + 1) - 1
    OBVIOUS
  <2> HIDE DEF p, h, e, q, L
  <2>6. g # q => e = h
    BY <2>2, <2>5
  <2>7. h - GroupSize + 1 \in Nat \ {0}
    BY <1>1, <2>1, <2>2, EndOfGroup
  <2>8. CASE g = q
    <3>1. h - GroupSize + 1 <= L /\ L - (h - GroupSize + 1) + 1 <= GroupSize
      BY <1>1, <2>1, <2>2, <2>3, <2>8, EndOfGroup
    <3> QED BY <1>1, <2>2, <2>5, <2>7, <2>8, <3>1
  <2>9. CASE g # q
    <3>1. h - GroupSize + 1 <= h /\ h <= L /\ h - (h - GroupSize + 1) + 1 <= GroupSize
      BY <1>1, <2>1, <2>2, <2>4, <2>9, EndOfGroup
    <3> QED BY <1>1, <2>2, <2>6, <2>7, <2>9, <3>1
  <2> QED BY <2>8, <2>9
<1>9. \A i \in First(g) + 1 .. e : c.fpga[i] \in Rank
  BY <1>1, <1>8, ElementOfSeq
<1>10. Members(c, g) = SubSeq(c.fpga, First(g) + 1, e)
  BY DEF Members
<1> HIDE DEF e, q, L
<1>11. /\ Members(c, g) \in Seq(Rank)
       /\ Len(Members(c, g)) = e - First(g)
       /\ \A k \in 1 .. e - First(g) : Members(c, g)[k] = c.fpga[First(g) + 1 + k - 1]
  <2>1. e - (First(g) + 1) + 1 = e - First(g)
    BY <1>8
  <2>2. First(g) + 1 \in Int /\ e \in Int
    BY <1>8
  <2>3. Len(SubSeq(c.fpga, First(g) + 1, e)) = e - First(g)
    BY <1>8, <1>9, <2>1, <2>2, SubSeqProperties
  <2> QED BY <1>9, <1>10, <2>1, <2>2, <2>3, SubSeqProperties
<1>12. Replicator(c, g) \in Range(c.fpga)
  BY <1>1, <1>8, LenProperties DEF Replicator, Range, L
<1>13. \A k \in 1 .. e - First(g) : First(g) + 1 + k - 1 = First(g) + k /\ First(g) + k \in 1 .. L
  BY <1>8, <1>1
<1>14. Extent(c, g) = e - First(g) + 1
  BY <1>8, <1>11 DEF Extent
<1>15. First(g) \in 1 .. L /\ First(g) + Extent(c, g) <= L + 1 /\ Extent(c, g) \in 1 .. GroupSize
  BY <1>1, <1>8, <1>14 DEF L
<1>16. q \in Nat \ {0} /\ Len(Members(c, g)) \in Nat
  BY <1>2, <1>3, <1>8, <1>11
<1>17. \A k \in 1 .. Len(Members(c, g)) :
         First(g) + k \in 1 .. L /\ Members(c, g)[k] = c.fpga[First(g) + k]
  <2> TAKE k \in 1 .. Len(Members(c, g))
  <2>1. k \in 1 .. e - First(g)
    BY <1>11
  <2>2. Members(c, g)[k] = c.fpga[First(g) + 1 + k - 1]
    BY <1>11, <2>1
  <2> QED BY <1>13, <2>1, <2>2
<1> QED BY <1>11, <1>12, <1>15, <1>16, <1>17 DEF L, q, Extent

(* The chain of else-branches always ends in a group. *)
LEMMA BranchFacts ==
  ASSUME NEW c \in Cases, Len(c.fpga) >= 2, NEW r
  PROVE  /\ Branch(c, r) \in Groups(c)
         /\ IsOf(c, Branch(c, r), r) \/ Branch(c, r) = GroupCnt(c)
         /\ \A h \in 1 .. Branch(c, r) - 1 : ~IsOf(c, h, r)
<1> DEFINE T == {g \in Groups(c) : IsOf(c, g, r) \/ g = GroupCnt(c)}
<1>1. GroupCnt(c) \in Nat /\ GroupCnt(c) \in Groups(c)
  <2>1. Len(c.fpga) \in Nat /\ GroupSize \in Nat \ {0}
    BY CaseFacts, CollectivesAssumption
  <2>2. GroupCnt(c) \in Nat /\ GroupCnt(c) * GroupSize >= Len(c.fpga)
    BY <2>1, RoundedUp DEF GroupCnt
  <2>3. GroupCnt(c) # 0
    <3>1. 0 * GroupSize = 0
      BY <2>1
    <3> QED BY <2>1, <2>2, <3>1
  <2> QED BY <2>2, <2>3 DEF Groups
<1>2. T \subseteq Nat /\ T # {}
  BY <1>1 DEF Groups
<1>3. PICK g \in T : \A h \in T : g <= h
  BY <1>2, Least
<1>4. \A h \in 1 .. g - 1 : ~IsOf(c, h, r)
  BY <1>1, <1>3 DEF Groups
<1>5. /\ Branch(c, r) \in Groups(c)
      /\ IsOf(c, Branch(c, r), r) \/ Branch(c, r) = GroupCnt(c)
      /\ \A h \in 1 .. Branch(c, r) - 1 : ~IsOf(c, h, r)
  BY <1>3, <1>4 DEF Branch
<1> QED BY <1>5

(* The groups follow each other in the list. *)
LEMMA GroupsAreDisjoint ==
  ASSUME NEW c \in Cases, Len(c.fpga) >= 2, NEW g \in Groups(c), NEW h \in Groups(c), g < h
  PROVE  First(g) + Extent(c, g) <= First(h)
<1>1. /\ GroupCnt(c) \in Nat /\ GroupSize \in Nat /\ Len(c.fpga) \in Nat
      /\ c.fpga \in Seq(Rank)
  BY GroupFacts, CaseFacts, CollectivesAssumption
<1>2. g \in Nat \ {0} /\ h \in Nat \ {0} /\ g # GroupCnt(c) /\ g + 1 <= h
  BY <1>1 DEF Groups
<1>3. First(g + 1) <= First(h)
  <2>1. First(g + 1) = g * GroupSize + 1 /\ First(h) = (h - 1) * GroupSize + 1
    BY <1>1, <1>2 DEF First
  <2>2. g * GroupSize <= (h - 1) * GroupSize
    BY <1>1, <1>2, TimesMonotonic
  <2>3. g * GroupSize \in Nat /\ (h - 1) * GroupSize \in Nat
    BY <1>1, <1>2
  <2> QED BY <2>1, <2>2, <2>3
<1>4. First(g) + Extent(c, g) = First(g + 1)
  <2>1. Members(c, g) = SubSeq(c.fpga, First(g) + 1, First(g + 1) - 1)
    BY <1>2 DEF Members
  <2>2. First(g + 1) = First(g) + GroupSize /\ First(g) \in Nat \ {0}
    <3>1. First(g) = g * GroupSize - GroupSize + 1 /\ First(g + 1) = g * GroupSize + 1
      BY <1>1, <1>2 DEF First
    <3>2. First(g) \in 1 .. Len(c.fpga)
      BY GroupFacts
    <3>3. g * GroupSize \in Nat
      BY <1>1, <1>2
    <3> QED BY <1>1, <3>1, <3>2, <3>3
  <2>3. Extent(c, g) \in 1 .. GroupSize /\ Extent(c, g) = Len(Members(c, g)) + 1
        /\ First(g) + Extent(c, g) <= Len(c.fpga) + 1
    BY GroupFacts
  <2>4. First(h) \in 1 .. Len(c.fpga)
    BY GroupFacts
  <2>5. \A i \in First(g) + 1 .. First(g + 1) - 1 : c.fpga[i] \in Rank
    BY <1>1, <1>3, <2>2, <2>4, ElementOfSeq
  <2>6. Len(Members(c, g)) = GroupSize - 1
    <3>1. First(g) + 1 \in Int /\ First(g + 1) - 1 \in Int
      BY <1>1, <2>2
    <3>2. Len(Members(c, g)) = IF First(g) + 1 <= First(g + 1) - 1
                               THEN First(g + 1) - 1 - (First(g) + 1) + 1 ELSE 0
      BY <2>1, <2>5, <3>1, SubSeqProperties
    <3> QED BY <1>1, <2>2, <3>2, CollectivesAssumption
  <2> QED BY <1>1, <2>2, <2>3, <2>6
<1> QED BY <1>3, <1>4

(* A replicator is found in its own group. *)
LEMMA BranchOfReplicator ==
  ASSUME NEW c \in Cases, Len(c.fpga) >= 2, NEW g \in Groups(c)
  PROVE  Branch(c, Replicator(c, g)) = g
<1> DEFINE r == Replicator(c, g)
           b == Branch(c, r)
<1>1. /\ b \in Groups(c) /\ (IsOf(c, b, r) \/ b = GroupCnt(c))
      /\ \A h \in 1 .. b - 1 : ~IsOf(c, h, r)
  BY BranchFacts
<1>2. GroupCnt(c) \in Nat /\ g \in 1 .. GroupCnt(c) /\ b \in 1 .. GroupCnt(c)
  BY <1>1, GroupFacts DEF Groups
<1>3. ~(g < b)
  <2>1. IsOf(c, g, r)
    BY DEF IsOf
  <2> HIDE DEF b, r
  <2> QED BY <1>1, <1>2, <2>1
<1>4. ~(b < g)
  <2> SUFFICES ASSUME b < g PROVE FALSE
    OBVIOUS
  <2>1. IsOf(c, b, r)
    BY <1>1, <1>2
  <2>2. /\ First(b) \in 1 .. Len(c.fpga) /\ First(g) \in 1 .. Len(c.fpga)
        /\ First(b) + Extent(c, b) <= First(g)
        /\ Extent(c, b) = Len(Members(c, b)) + 1 /\ Len(Members(c, b)) \in Nat
        /\ Members(c, b) \in Seq(Rank)
        /\ \A k \in 1 .. Len(Members(c, b)) :
             First(b) + k \in 1 .. Len(c.fpga) /\ Members(c, b)[k] = c.fpga[First(b) + k]
    BY <1>1, GroupFacts, GroupsAreDisjoint
  <2>3. \A i, j \in 1 .. Len(c.fpga) : c.fpga[i] = c.fpga[j] => i = j
    BY CaseFacts, LenProperties, CollectivesAssumption DEF IsInjective
  <2>4. Len(c.fpga) \in Nat /\ r = c.fpga[First(g)]
    BY CaseFacts DEF Replicator
  <2> HIDE DEF b, r
  <2>5. CASE r = Replicator(c, b)
    <3>1. c.fpga[First(b)] = c.fpga[First(g)]
      BY <2>4, <2>5 DEF Replicator
    <3>2. First(b) = First(g)
      BY <2>2, <2>3, <3>1
    <3> QED BY <2>2, <2>4, <3>2
  <2>6. CASE r \in Range(Members(c, b))
    <3>1. PICK k \in 1 .. Len(Members(c, b)) : r = Members(c, b)[k]
      BY <2>2, <2>6, RangeEquality
    <3>2. First(b) + k = First(g)
      BY <2>2, <2>3, <2>4, <3>1
    <3> QED BY <2>2, <2>4, <3>2
  <2> QED BY <2>1, <2>5, <2>6 DEF IsOf
<1> HIDE DEF b, r
<1> QED BY <1>2, <1>3, <1>4 DEF b, r

-----------------------------------------------------------------------------
(* Statements that stay in their buffers, and whose length is the one that *)
(* the two ranks agree on.                                                 *)

(* The chunks two ranks exchange at a time: in a tree the root gives the   *)
(* data of a group to the replicator, or gets it.                          *)
GroupWise(c) == UsesTree(c) /\ c.kind \in {"scatter", "gather"}

Agreed(c, a, b) ==
  IF GroupWise(c) /\ c.root \in {a, b}
  THEN Extent(c, Branch(c, IF a = c.root THEN b ELSE a))
  ELSE 1

Fitting(c, r, s) ==
  s.op # "skip" =>
    /\ s.op \in {"send", "recv", "add", "copy"}
    /\ s.buf \in Buffers /\ s.off \in Nat /\ s.cnt \in Nat
    /\ s.off + s.cnt <= Length(c, r, s.buf)
    /\ s.op # "copy" => s.peer \in Ranks(c) /\ s.cnt = Agreed(c, r, s.peer)
    /\ s.op = "copy" => /\ s.from \in Buffers /\ s.cnt = 1
                        /\ s.fromOff \in 0 .. Length(c, r, s.from) - 1

FittingCode(c, r, code) == \E S : code \in Seq(S) /\ \A s \in S : Fitting(c, r, s)

LEMMA FittingStatement ==
  ASSUME NEW c, NEW r, NEW code, FittingCode(c, r, code), NEW k \in 1 .. Len(code)
  PROVE  Fitting(c, r, code[k])
BY ElementOfSeq DEF FittingCode

LEMMA FittingConcat ==
  ASSUME NEW c, NEW r, NEW a, NEW b, FittingCode(c, r, a), FittingCode(c, r, b)
  PROVE  FittingCode(c, r, a \o b)
<1>1. PICK S : a \in Seq(S) /\ \A s \in S : Fitting(c, r, s)
  BY DEF FittingCode
<1>2. PICK T : b \in Seq(T) /\ \A s \in T : Fitting(c, r, s)
  BY DEF FittingCode
<1>3. a \in Seq(S \cup T) /\ b \in Seq(S \cup T)
  BY <1>1, <1>2, SeqMonotonic
<1>4. a \o b \in Seq(S \cup T)
  BY <1>3, ConcatProperties
<1> QED BY <1>1, <1>2, <1>4 DEF FittingCode

LEMMA FittingLoop ==
  ASSUME NEW c, NEW r, NEW n \in Nat, NEW f, f = [k \in 1 .. n |-> f[k]],
         \A k \in 1 .. n : Fitting(c, r, f[k])
  PROVE  FittingCode(c, r, f)
<1> DEFINE S == {f[k] : k \in 1 .. n}
<1>1. f \in [1 .. n -> S]
  OBVIOUS
<1>2. f \in Seq(S)
  BY <1>1, SeqDef
<1>3. \A s \in S : Fitting(c, r, s)
  OBVIOUS
<1> QED BY <1>2, <1>3 DEF FittingCode

LEMMA FittingOne ==
  ASSUME NEW c, NEW r, NEW s, Fitting(c, r, s)
  PROVE  FittingCode(c, r, <<s>>)
<1> DEFINE S == {s}
           code == <<s>>
<1>1. code \in Seq(S)
  OBVIOUS
<1>2. \A u \in S : Fitting(c, r, u)
  OBVIOUS
<1> HIDE DEF S, code
<1>3. FittingCode(c, r, code)
  BY <1>1, <1>2 DEF FittingCode
<1> QED BY <1>3 DEF code

LEMMA FittingTwo ==
  ASSUME NEW c, NEW r, NEW s, NEW t, Fitting(c, r, s), Fitting(c, r, t)
  PROVE  FittingCode(c, r, <<s, t>>)
<1> DEFINE S == {s, t}
           code == <<s, t>>
<1>1. code \in Seq(S)
  OBVIOUS
<1>2. \A u \in S : Fitting(c, r, u)
  OBVIOUS
<1> HIDE DEF S, code
<1>3. FittingCode(c, r, code)
  BY <1>1, <1>2 DEF FittingCode
<1> QED BY <1>3 DEF code

LEMMA LengthFacts ==
  ASSUME NEW c \in Cases, NEW r
  PROVE  /\ \A b \in Buffers : Length(c, r, b) \in Nat \ {0}
         /\ Length(c, r, "all") = GroupSize
         /\ c.kind = "scatter" /\ r = c.root => Length(c, r, "send") = Size(c)
         /\ c.kind = "gather" /\ r = c.root => Length(c, r, Result(c)) = Size(c)
         /\ Result(c) \in Buffers
<1>1. Size(c) \in Nat \ {0} /\ GroupSize \in Nat \ {0} /\ c.inPlace \in BOOLEAN
  BY CaseFacts, CollectivesAssumption
<1>2. \A b \in Buffers : Length(c, r, b) \in Nat \ {0}
  BY <1>1 DEF Length, Buffers
<1>3. Length(c, r, "all") = GroupSize
  BY DEF Length
<1>4. c.kind = "scatter" /\ r = c.root => Length(c, r, "send") = Size(c)
  BY DEF Length
<1>5. c.kind = "gather" /\ r = c.root => Length(c, r, Result(c)) = Size(c)
  BY <1>1 DEF Length, Result
<1>6. Result(c) \in Buffers
  BY DEF Result, Buffers
<1> QED BY <1>2, <1>3, <1>4, <1>5, <1>6

-----------------------------------------------------------------------------
(* The loops. *)

LEMMA RootLoopFits ==
  ASSUME NEW c \in Cases, ~UsesTree(c)
  PROVE  FittingCode(c, c.root, RootLoop(c))
<1> DEFINE f == RootLoop(c)
<1>1. Size(c) \in Nat /\ c.kind \in Kinds /\ c.inPlace \in BOOLEAN
  BY CaseFacts
<1>2. f = [k \in 1 .. Size(c) |-> f[k]]
  <2> DEFINE e(k) == CASE c.kind = "scatter" -> ScatterRound(c, k - 1)
                       [] c.kind = "gather"  -> GatherRound(c, k - 1)
                       [] c.kind = "bcast"   -> BcastRound(c, k - 1)
                       [] c.kind = "reduce"  -> ReduceRound(c, k - 1)
  <2>1. f = [k \in 1 .. Size(c) |-> e(k)]
    BY DEF RootLoop
  <2> HIDE DEF f, e
  <2> QED BY <2>1
<1>3. \A peer : Agreed(c, c.root, peer) = 1
  BY DEF Agreed, GroupWise
<1>4. ASSUME NEW k \in 1 .. Size(c) PROVE Fitting(c, c.root, f[k])
  <2>1. k - 1 \in Nat /\ k - 1 < Size(c) /\ k - 1 \in Ranks(c)
    BY <1>1 DEF Ranks
  <2>2. CASE c.kind = "scatter"
    <3>1. f[k] = ScatterRound(c, k - 1)
      BY <2>2 DEF RootLoop
    <3>2. Length(c, c.root, "send") = Size(c)
      BY <2>2, LengthFacts
    <3>3. Length(c, c.root, "recv") \in Nat \ {0}
      BY LengthFacts DEF Buffers
    <3> QED
      BY <1>3, <1>1, <2>1, <3>1, <3>2, <3>3 DEF ScatterRound, CopyOwn, Copy, Skip, Send, Fitting, Buffers
  <2>3. CASE c.kind = "gather"
    <3>1. f[k] = GatherRound(c, k - 1)
      BY <2>3 DEF RootLoop
    <3>2. Length(c, c.root, Result(c)) = Size(c) /\ Result(c) \in Buffers
      BY <2>3, LengthFacts
    <3>3. Length(c, c.root, "send") \in Nat \ {0}
      BY LengthFacts DEF Buffers
    <3>4. CASE k - 1 = c.root /\ c.inPlace
      BY <3>1, <3>4 DEF GatherRound, CopyOwn, Skip, Fitting
    <3>5. CASE k - 1 = c.root /\ ~c.inPlace
      <4>1. f[k] = Copy("recv", k - 1, "send", 0) /\ Result(c) = "recv"
        BY <3>1, <3>5 DEF GatherRound, CopyOwn, Result
      <4> QED BY <1>1, <2>1, <3>2, <3>3, <4>1 DEF Copy, Fitting, Buffers
    <3>6. CASE k - 1 # c.root
      <4>1. f[k] = Recv(Result(c), k - 1, 1, k - 1)
        BY <3>1, <3>6 DEF GatherRound
      <4> QED BY <1>3, <1>1, <2>1, <3>2, <4>1 DEF Recv, Fitting
    <3> QED BY <3>4, <3>5, <3>6
  <2>4. CASE c.kind = "bcast"
    <3>1. f[k] = BcastRound(c, k - 1)
      BY <2>4 DEF RootLoop
    <3>2. Length(c, c.root, "buf") \in Nat \ {0}
      BY LengthFacts DEF Buffers
    <3> QED BY <1>3, <2>1, <3>1, <3>2 DEF BcastRound, Skip, Send, Fitting, Buffers
  <2>5. CASE c.kind = "reduce"
    <3>1. f[k] = ReduceRound(c, k - 1)
      BY <2>5 DEF RootLoop
    <3>2. Length(c, c.root, "recv") \in Nat \ {0} /\ Length(c, c.root, "send") \in Nat \ {0}
      BY LengthFacts DEF Buffers
    <3> QED BY <1>3, <2>1, <3>1, <3>2 DEF ReduceRound, Copy, Add, Fitting, Buffers
  <2> QED BY <1>1, <2>2, <2>3, <2>4, <2>5 DEF Kinds
<1> HIDE DEF f
<1>5. FittingCode(c, c.root, f)
  BY <1>1, <1>2, <1>4, FittingLoop
<1> QED BY <1>5 DEF f

LEMMA OtherThanRootFits ==
  ASSUME NEW c \in Cases, ~UsesTree(c), NEW r
  PROVE  FittingCode(c, r, OtherThanRoot(c))
<1>1. \A peer : Agreed(c, r, peer) = 1
  BY DEF Agreed, GroupWise
<1>2. \A b \in Buffers : Length(c, r, b) \in Nat \ {0}
  BY LengthFacts
<1>3. Result(c) \in Buffers /\ c.kind \in Kinds /\ c.root \in Ranks(c)
  BY LengthFacts, CaseFacts
<1>4. ASSUME NEW b \in Buffers, NEW peer \in Ranks(c)
      PROVE  Fitting(c, r, Send(b, 0, 1, peer)) /\ Fitting(c, r, Recv(b, 0, 1, peer))
  BY <1>1, <1>2 DEF Fitting, Send, Recv
<1>5. "send" \in Buffers /\ "buf" \in Buffers
  BY DEF Buffers
<1>6. CASE c.kind = "scatter"
  BY <1>3, <1>4, <1>6, FittingOne DEF OtherThanRoot
<1>7. CASE c.kind = "gather"
  BY <1>3, <1>4, <1>5, <1>7, FittingOne DEF OtherThanRoot
<1>8. CASE c.kind = "bcast"
  BY <1>3, <1>4, <1>5, <1>8, FittingOne DEF OtherThanRoot
<1>9. CASE c.kind = "reduce"
  BY <1>3, <1>4, <1>5, <1>9, FittingOne DEF OtherThanRoot
<1> QED BY <1>3, <1>6, <1>7, <1>8, <1>9 DEF Kinds

-----------------------------------------------------------------------------
(* The trees. *)

LEMMA TreeFacts ==
  ASSUME RootsOnCpu, NEW c \in Cases, UsesTree(c)
  PROVE  /\ Len(c.fpga) >= 2 /\ Len(c.fpga) + 1 <= Size(c)
         /\ c.root \in Range(c.cpu) /\ c.root \notin Range(c.fpga)
<1>1. Len(c.fpga) >= 2 /\ c.root \in Range(c.cpu)
  BY DEF UsesTree, RootsOnCpu
<1>2. c.root \notin Range(c.fpga)
  BY <1>1, CollectivesAssumption
<1>3. c.cpu \in Seq(Rank) /\ Len(c.cpu) \in Nat /\ Len(c.fpga) \in Nat
  BY CaseFacts
<1>4. Len(c.cpu) # 0
  <2>1. DOMAIN c.cpu # {} /\ DOMAIN c.cpu = 1 .. Len(c.cpu)
    BY <1>1, <1>3, LenProperties DEF Range
  <2> QED BY <1>3, <2>1
<1>5. Size(c) = Len(c.cpu) + Len(c.fpga)
  BY DEF Size
<1>6. Len(c.fpga) + 1 <= Size(c)
  BY <1>3, <1>4, <1>5
<1> QED BY <1>1, <1>2, <1>6

LEMMA TreeRootFits ==
  ASSUME RootsOnCpu, NEW c \in Cases, UsesTree(c)
  PROVE  FittingCode(c, c.root, TreeRoot(c))
<1> DEFINE r == c.root
           n == GroupCnt(c)
<1>1. /\ c.kind \in Kinds /\ c.inPlace \in BOOLEAN /\ Size(c) \in Nat
      /\ Len(c.fpga) \in Nat /\ Len(c.fpga) >= 2 /\ Len(c.fpga) + 1 <= Size(c)
  BY CaseFacts, TreeFacts
<1>2. n \in Nat /\ Groups(c) = 1 .. n
  BY <1>1, BranchFacts, GroupFacts DEF Groups
<1>3. \A b \in Buffers : Length(c, r, b) \in Nat \ {0}
  BY LengthFacts
<1>4. ASSUME NEW g \in 1 .. n
      PROVE  /\ First(g) \in Nat /\ Extent(c, g) \in Nat
             /\ First(g) + Extent(c, g) <= Size(c)
  <2>1. /\ First(g) \in 1 .. Len(c.fpga) /\ Extent(c, g) \in 1 .. GroupSize
        /\ First(g) + Extent(c, g) <= Len(c.fpga) + 1
    BY <1>1, <1>2, GroupFacts
  <2> QED BY <1>1, <2>1, CollectivesAssumption
<1>5. ASSUME NEW g \in 1 .. n
      PROVE  /\ Agreed(c, r, Replicator(c, g)) = IF GroupWise(c) THEN Extent(c, g) ELSE 1
             /\ Replicator(c, g) \in Ranks(c)
  <2>1. Replicator(c, g) \in Ranks(c)
    BY <1>1, <1>2, GroupFacts, CaseFacts
  <2> QED BY <1>1, <1>2, <2>1, BranchOfReplicator DEF Agreed
<1>6. ASSUME NEW b \in Buffers, NEW from \in Buffers
      PROVE  /\ Fitting(c, r, Copy(b, 0, from, 0))
             /\ Fitting(c, r, CopyOwn(c, b, 0, from, 0))
  BY <1>1, <1>3 DEF Fitting, Copy, CopyOwn, Skip
<1>7. \A b \in {"send", "recv", "buf"} : b \in Buffers
  BY DEF Buffers
<1>8. CASE c.kind = "scatter"
  <2> DEFINE e(g) == Send("send", First(g), Extent(c, g), Replicator(c, g))
             f == [g \in 1 .. n |-> e(g)]
  <2>1. Length(c, r, "send") = Size(c)
    BY <1>8, LengthFacts
  <2>2. \A g \in 1 .. n : Fitting(c, r, e(g))
    BY <1>5, <1>4, <1>7, <1>8, <2>1 DEF Fitting, Send, GroupWise
  <2>3. FittingCode(c, r, f)
    <3> HIDE DEF e
    <3> QED BY <1>2, <2>2, FittingLoop
  <2>4. FittingCode(c, r, <<CopyOwn(c, "recv", 0, "send", 0)>>)
    BY <1>6, <1>7, FittingOne
  <2>5. TreeRoot(c) = <<CopyOwn(c, "recv", 0, "send", 0)>> \o f
    BY <1>2, <1>8 DEF TreeRoot, ScatterTreeRoot, ToReplicators
  <2> QED BY <2>3, <2>4, <2>5, FittingConcat
<1>9. CASE c.kind = "gather"
  <2> DEFINE e(g) == Recv(Result(c), First(g), Extent(c, g), Replicator(c, g))
             f == [g \in 1 .. n |-> e(g)]
  <2>1. Length(c, r, Result(c)) = Size(c) /\ Result(c) \in Buffers
    BY <1>9, LengthFacts
  <2>2. \A g \in 1 .. n : Fitting(c, r, e(g))
    BY <1>5, <1>4, <1>9, <2>1 DEF Fitting, Recv, GroupWise
  <2>3. FittingCode(c, r, f)
    <3> HIDE DEF e
    <3> QED BY <1>2, <2>2, FittingLoop
  <2>4. FittingCode(c, r, <<CopyOwn(c, "recv", 0, "send", 0)>>)
    BY <1>6, <1>7, FittingOne
  <2>5. TreeRoot(c) = <<CopyOwn(c, "recv", 0, "send", 0)>> \o f
    BY <1>2, <1>9 DEF TreeRoot, GatherTreeRoot, ToReplicators
  <2> QED BY <2>3, <2>4, <2>5, FittingConcat
<1>10. CASE c.kind = "bcast"
  <2> DEFINE e(g) == Send("buf", 0, 1, Replicator(c, g))
             f == [g \in 1 .. n |-> e(g)]
  <2>1. \A g \in 1 .. n : Fitting(c, r, e(g))
    BY <1>5, <1>3, <1>7, <1>10 DEF Fitting, Send, GroupWise
  <2>2. FittingCode(c, r, f)
    <3> HIDE DEF e
    <3> QED BY <1>2, <2>1, FittingLoop
  <2>3. TreeRoot(c) = f
    BY <1>2, <1>10 DEF TreeRoot, BcastTreeRoot, ToReplicators
  <2> QED BY <2>2, <2>3
<1>11. CASE c.kind = "reduce"
  <2> DEFINE e(g) == Add("recv", Replicator(c, g))
             f == [g \in 1 .. n |-> e(g)]
  <2>1. \A g \in 1 .. n : Fitting(c, r, e(g))
    BY <1>5, <1>3, <1>7, <1>11 DEF Fitting, Add, GroupWise
  <2>2. FittingCode(c, r, f)
    <3> HIDE DEF e
    <3> QED BY <1>2, <2>1, FittingLoop
  <2>3. FittingCode(c, r, <<Copy("recv", 0, "send", 0)>>)
    BY <1>6, <1>7, FittingOne
  <2>4. TreeRoot(c) = <<Copy("recv", 0, "send", 0)>> \o f
    BY <1>2, <1>11 DEF TreeRoot, ReduceTreeRoot, ToReplicators
  <2> QED BY <2>2, <2>3, <2>4, FittingConcat
<1> QED BY <1>1, <1>8, <1>9, <1>10, <1>11 DEF Kinds

LEMMA TreeReplicatorFits ==
  ASSUME RootsOnCpu, NEW c \in Cases, UsesTree(c), NEW r, r # c.root,
         NEW g \in Groups(c), g = Branch(c, r)
  PROVE  FittingCode(c, r, TreeReplicator(c, g))
<1> DEFINE n == Len(Members(c, g))
           x == Extent(c, g)
<1>1. /\ c.kind \in Kinds /\ Len(c.fpga) >= 2
      /\ Length(c, r, "all") = GroupSize /\ Result(c) \in Buffers
  BY CaseFacts, TreeFacts, LengthFacts
<1>2. n \in Nat /\ x \in 1 .. GroupSize /\ x = n + 1
  BY <1>1, GroupFacts
<1>3. \A b \in Buffers : Length(c, r, b) \in Nat \ {0}
  BY LengthFacts
<1>4. \A b \in {"send", "buf", "all", "acc"} : b \in Buffers
  BY DEF Buffers
<1>5. /\ Agreed(c, r, c.root) = IF GroupWise(c) THEN x ELSE 1
      /\ \A k \in 1 .. n : Members(c, g)[k] \in Ranks(c) /\ Agreed(c, r, Members(c, g)[k]) = 1
      /\ c.root \in Ranks(c)
  <2>1. \A k \in 1 .. n : Members(c, g)[k] \in Range(c.fpga)
    <3>1. \A k \in 1 .. n : First(g) + k \in 1 .. Len(c.fpga)
                             /\ Members(c, g)[k] = c.fpga[First(g) + k]
      BY <1>1, GroupFacts
    <3>2. DOMAIN c.fpga = 1 .. Len(c.fpga)
      BY CaseFacts, LenProperties
    <3> HIDE DEF n
    <3> QED BY <3>1, <3>2 DEF Range
  <2>2. c.root \notin Range(c.fpga)
    BY TreeFacts
  <2>3. Range(c.fpga) \subseteq Ranks(c) /\ c.root \in Ranks(c)
    BY CaseFacts
  <2> HIDE DEF n
  <2> QED BY <2>1, <2>2, <2>3 DEF Agreed
<1>6. ASSUME NEW b \in Buffers, NEW peer \in Ranks(c), Agreed(c, r, peer) = 1
      PROVE  /\ Fitting(c, r, Send(b, 0, 1, peer))
             /\ Fitting(c, r, Recv(b, 0, 1, peer)) /\ Fitting(c, r, Add(b, peer))
  BY <1>3, <1>6 DEF Fitting, Send, Recv, Add
<1>7. ASSUME NEW b \in Buffers, NEW from \in Buffers
      PROVE  Fitting(c, r, Copy(b, 0, from, 0))
  BY <1>3 DEF Fitting, Copy
<1>8. ASSUME GroupWise(c)
      PROVE  /\ Fitting(c, r, Recv("all", 0, x, c.root))
             /\ Fitting(c, r, Send("all", 0, x, c.root))
  <2> HIDE DEF x
  <2> QED BY <1>5, <1>1, <1>8, <1>2, <1>4, CollectivesAssumption DEF Fitting, Recv, Send
<1>9. ASSUME NEW k \in 1 .. n, NEW peer \in Ranks(c), Agreed(c, r, peer) = 1
      PROVE  Fitting(c, r, Recv("all", k, 1, peer)) /\ Fitting(c, r, Send("all", k, 1, peer))
  <2> HIDE DEF x, n
  <2>1. k \in Nat /\ k + 1 <= GroupSize
    BY <1>2, CollectivesAssumption
  <2> QED BY <1>1, <1>4, <1>9, <2>1 DEF Fitting, Recv, Send
<1>10. CASE c.kind = "scatter"
  <2> DEFINE e(k) == Send("all", k, 1, Members(c, g)[k])
             f == [k \in 1 .. n |-> e(k)]
             start == <<Recv("all", 0, x, c.root), Copy(Result(c), 0, "all", 0)>>
  <2>1. FittingCode(c, r, f)
    <3>1. \A k \in 1 .. n : Fitting(c, r, e(k))
      BY <1>5, <1>9
    <3> HIDE DEF e, n
    <3> QED BY <1>2, <3>1, FittingLoop
  <2>2. FittingCode(c, r, start)
    BY <1>1, <1>4, <1>8, <1>10, <1>7, FittingTwo DEF GroupWise
  <2>3. TreeReplicator(c, g) = start \o f
    BY <1>10 DEF TreeReplicator, ScatterReplicator, ToMembers
  <2> QED BY <2>1, <2>2, <2>3, FittingConcat
<1>11. CASE c.kind = "gather"
  <2> DEFINE e(k) == Recv("all", k, 1, Members(c, g)[k])
             f == [k \in 1 .. n |-> e(k)]
             end == <<Copy("all", 0, "send", 0), Send("all", 0, x, c.root)>>
  <2>1. FittingCode(c, r, f)
    <3>1. \A k \in 1 .. n : Fitting(c, r, e(k))
      BY <1>5, <1>9
    <3> HIDE DEF e, n
    <3> QED BY <1>2, <3>1, FittingLoop
  <2>2. FittingCode(c, r, end)
    BY <1>4, <1>8, <1>11, <1>7, FittingTwo DEF GroupWise
  <2>3. TreeReplicator(c, g) = f \o end
    BY <1>11 DEF TreeReplicator, GatherReplicator, ToMembers
  <2> QED BY <2>1, <2>2, <2>3, FittingConcat
<1>12. CASE c.kind = "bcast"
  <2> DEFINE e(k) == Send("buf", 0, 1, Members(c, g)[k])
             f == [k \in 1 .. n |-> e(k)]
             start == <<Recv("buf", 0, 1, c.root)>>
  <2>1. FittingCode(c, r, f)
    <3>1. \A k \in 1 .. n : Fitting(c, r, e(k))
      BY <1>5, <1>4, <1>6
    <3> HIDE DEF e, n
    <3> QED BY <1>2, <3>1, FittingLoop
  <2>2. FittingCode(c, r, start)
    BY <1>5, <1>4, <1>6, <1>12, FittingOne DEF GroupWise
  <2>3. TreeReplicator(c, g) = start \o f
    BY <1>12 DEF TreeReplicator, BcastReplicator, ToMembers
  <2> QED BY <2>1, <2>2, <2>3, FittingConcat
<1>13. CASE c.kind = "reduce"
  <2> DEFINE e(k) == Add("acc", Members(c, g)[k])
             f == [k \in 1 .. n |-> e(k)]
             start == <<Copy("acc", 0, "send", 0)>>
             end == <<Send("acc", 0, 1, c.root)>>
  <2>1. FittingCode(c, r, f)
    <3>1. \A k \in 1 .. n : Fitting(c, r, e(k))
      BY <1>5, <1>4, <1>6
    <3> HIDE DEF e, n
    <3> QED BY <1>2, <3>1, FittingLoop
  <2>2. FittingCode(c, r, start) /\ FittingCode(c, r, end)
    BY <1>5, <1>4, <1>6, <1>13, <1>7, FittingOne DEF GroupWise
  <2>3. TreeReplicator(c, g) = start \o f \o end
    BY <1>13 DEF TreeReplicator, ReduceReplicator, ToMembers
  <2>4. FittingCode(c, r, start \o f)
    BY <2>1, <2>2, FittingConcat
  <2>5. FittingCode(c, r, (start \o f) \o end)
    <3> HIDE DEF start, f, end
    <3> QED BY <2>2, <2>4, FittingConcat
  <2> QED BY <2>3, <2>5
<1> QED BY <1>1, <1>10, <1>11, <1>12, <1>13 DEF Kinds

LEMMA TreeMemberFits ==
  ASSUME RootsOnCpu, NEW c \in Cases, UsesTree(c), NEW r, r # c.root, NEW g \in Groups(c)
  PROVE  FittingCode(c, r, TreeMember(c, g))
<1>1. Agreed(c, r, Replicator(c, g)) = 1 /\ Replicator(c, g) \in Ranks(c)
  <2>1. Replicator(c, g) # c.root
    BY TreeFacts, GroupFacts
  <2>2. Replicator(c, g) \in Ranks(c)
    BY TreeFacts, GroupFacts, CaseFacts
  <2> QED BY <2>1, <2>2 DEF Agreed
<1>2. \A b \in Buffers : Length(c, r, b) \in Nat \ {0}
  BY LengthFacts
<1>3. Result(c) \in Buffers /\ "send" \in Buffers /\ "buf" \in Buffers
  BY LengthFacts DEF Buffers
<1>4. ASSUME NEW b \in Buffers, NEW peer \in Ranks(c), Agreed(c, r, peer) = 1
      PROVE  Fitting(c, r, Send(b, 0, 1, peer)) /\ Fitting(c, r, Recv(b, 0, 1, peer))
  BY <1>2, <1>4 DEF Fitting, Send, Recv
<1>5. c.kind \in Kinds
  BY CaseFacts
<1>6. CASE c.kind = "scatter"
  BY <1>1, <1>3, <1>4, <1>6, FittingOne DEF TreeMember, ScatterMember
<1>7. CASE c.kind = "gather"
  BY <1>1, <1>3, <1>4, <1>7, FittingOne DEF TreeMember, GatherMember
<1>8. CASE c.kind = "bcast"
  BY <1>1, <1>3, <1>4, <1>8, FittingOne DEF TreeMember, BcastMember
<1>9. CASE c.kind = "reduce"
  BY <1>1, <1>3, <1>4, <1>9, FittingOne DEF TreeMember, ReduceMember
<1> QED BY <1>5, <1>6, <1>7, <1>8, <1>9 DEF Kinds

-----------------------------------------------------------------------------
(* The version of the code that all FPGAs run, with tests of the rank      *)
(* replaced by their common outcome, takes the branch of the root exactly  *)
(* where the test would have.                                              *)
LEMMA FoldingIsFaithful ==
  ASSUME NEW c, NEW r
  PROVE  TakesRootBranch(c, r) <=> r = c.root
BY DEF TakesRootBranch, FoldedForFpgas

(* Every statement that is emitted for any rank stays in its buffer. *)
LEMMA CodeFits ==
  ASSUME RootsOnCpu, NEW c \in Cases, NEW r
  PROVE  FittingCode(c, r, Code(c, r))
<1>1. TakesRootBranch(c, r) <=> r = c.root
  BY FoldingIsFaithful
<1>2. CASE ~UsesTree(c)
  BY <1>1, <1>2, RootLoopFits, OtherThanRootFits DEF Code, LoopCode
<1>3. CASE UsesTree(c) /\ r = c.root
  BY <1>1, <1>3, TreeRootFits DEF Code, TreeCode
<1>4. CASE UsesTree(c) /\ r # c.root
  <2> DEFINE g == Branch(c, r)
  <2>1. Len(c.fpga) >= 2
    BY <1>4, TreeFacts
  <2>2. g \in Groups(c)
    BY <2>1, BranchFacts
  <2>3. Code(c, r) = IF r = Replicator(c, g) THEN TreeReplicator(c, g) ELSE TreeMember(c, g)
    BY <1>1, <1>4 DEF Code, TreeCode
  <2> QED BY <1>4, <2>2, <2>3, TreeReplicatorFits, TreeMemberFits
<1> QED BY <1>2, <1>3, <1>4

-----------------------------------------------------------------------------
(* The runs. *)

Running == case \in Cases /\ pc \in [Ranks(case) -> Nat \ {0}]

LEMMA RunningInductive == Spec => []Running
<1>1. Init => Running
  BY DEF Init, Running
<1>2. Running /\ [Next]_vars => Running'
  <2> SUFFICES ASSUME Running, [Next]_vars PROVE Running'
    OBVIOUS
  <2>1. ASSUME NEW r \in Ranks(case), SkipRound(r) \/ CopyChunk(r) PROVE Running'
    BY <2>1 DEF Running, SkipRound, CopyChunk
  <2>2. ASSUME NEW s \in Ranks(case), NEW d, Transfer(s, d) PROVE Running'
    <3>1. case' = case /\ pc' = [pc EXCEPT ![s] = @ + 1, ![d] = @ + 1]
      BY <2>2 DEF Transfer
    <3>2. pc \in [Ranks(case) -> Nat \ {0}] /\ case \in Cases
      BY DEF Running
    <3>3. \A n \in Nat \ {0} : n + 1 \in Nat \ {0}
      OBVIOUS
    <3>4. pc' \in [Ranks(case) -> Nat \ {0}]
      <4>1. CASE d \in Ranks(case)
        BY <3>1, <3>2, <3>3, <4>1
      <4>2. CASE d \notin Ranks(case)
        BY <3>1, <3>2, <3>3, <4>2
      <4> QED BY <4>1, <4>2
    <3> QED BY <3>1, <3>2, <3>4 DEF Running
  <2>3. CASE Terminated \/ UNCHANGED vars
    BY <2>3 DEF Running, Terminated, vars
  <2> QED BY <2>1, <2>2, <2>3 DEF Next
<1> QED BY <1>1, <1>2, PTL DEF Spec

LEMMA StatementFits ==
  ASSUME RootsOnCpu, Running, NEW r \in Ranks(case), ~Done(r)
  PROVE  Fitting(case, r, Stmt(r))
<1> DEFINE code == Code(case, r)
<1>1. FittingCode(case, r, code)
  BY CodeFits DEF Running
<1>2. Len(code) \in Nat
  BY <1>1, LenProperties DEF FittingCode
<1>3. pc[r] \in 1 .. Len(code)
  <2>1. pc[r] \in Nat \ {0} /\ ~(pc[r] > Len(code))
    BY DEF Running, Done
  <2> HIDE DEF code
  <2> QED BY <1>2, <2>1
<1>4. Stmt(r) = code[pc[r]]
  BY DEF Stmt
<1> HIDE DEF code
<1> QED BY <1>1, <1>3, <1>4, FittingStatement

(* The length of what is sent depends on the pair of ranks only. *)
LEMMA AgreedIsSymmetric ==
  ASSUME NEW c, NEW a, NEW b
  PROVE  Agreed(c, a, b) = Agreed(c, b, a)
BY DEF Agreed

LEMMA SameLengthHolds ==
  ASSUME RootsOnCpu, Running, NEW s \in Ranks(case), At(s, "send"), Meet(s, Stmt(s).peer)
  PROVE  /\ Stmt(s).cnt = Stmt(Stmt(s).peer).cnt
         /\ Stmt(s).peer \in Ranks(case) /\ ~Done(s) /\ ~Done(Stmt(s).peer)
         /\ Stmt(Stmt(s).peer).op \in {"recv", "add"}
<1> DEFINE d == Stmt(s).peer
<1>1. ~Done(s) /\ Stmt(s).op = "send"
  BY DEF At
<1>2. ~Done(d) /\ Stmt(d).op \in {"recv", "add"} /\ Stmt(d).peer = s
  BY DEF Meet, At
<1>3. Fitting(case, s, Stmt(s)) /\ Fitting(case, d, Stmt(d)) /\ d \in Ranks(case)
  <2>1. Fitting(case, s, Stmt(s))
    BY <1>1, StatementFits
  <2>2. d \in Ranks(case)
    BY <1>1, <2>1 DEF Fitting
  <2> QED BY <1>2, <2>1, <2>2, StatementFits
<1> HIDE DEF d
<1>4. Stmt(s).cnt = Agreed(case, s, d)
  BY <1>1, <1>3 DEF Fitting, d
<1>5. Stmt(d).cnt = Agreed(case, d, s)
  BY <1>2, <1>3 DEF Fitting
<1> QED BY <1>1, <1>2, <1>3, <1>4, <1>5, AgreedIsSymmetric DEF d

-----------------------------------------------------------------------------
(* Types. *)

LEMMA ValueFacts ==
  /\ \A a \in Atom : Only(a) \in Value
  /\ \A v, w \in Value : Plus(v, w) \in Value
BY DEF Only, Plus, Value

LEMMA InitType == Init => TypeOK
<1> SUFFICES ASSUME Init PROVE TypeOK
  OBVIOUS
<1>1. case \in Cases /\ pc \in [Ranks(case) -> Nat \ {0}]
  BY DEF Init
<1>2. ASSUME NEW r \in Ranks(case), NEW b \in Buffers, NEW i \in 0 .. Length(case, r, b) - 1
      PROVE  Given(case, r, b, i) \in Value
  <2>1. r \in Atom /\ case.root \in Atom /\ Stale \in Atom
    BY <1>1, CaseFacts DEF Atom
  <2>2. CASE b = "send" /\ case.kind = "scatter" /\ r = case.root
    <3>1. Length(case, r, b) = Size(case)
      BY <1>1, <2>2, LengthFacts
    <3>2. i \in Ranks(case)
      BY <3>1 DEF Ranks
    <3>3. i \in Atom
      BY <1>1, <3>2, CaseFacts DEF Atom
    <3> QED BY <2>2, <3>3, ValueFacts DEF Given
  <2>3. CASE ~(b = "send" /\ case.kind = "scatter" /\ r = case.root)
    BY <2>1, <2>3, ValueFacts DEF Given
  <2> QED BY <2>2, <2>3
<1>3. mem = [r \in Ranks(case) |-> [b \in Buffers |->
               [i \in 0 .. Length(case, r, b) - 1 |-> Given(case, r, b, i)]]]
  BY DEF Init
<1>4. DOMAIN mem = Ranks(case)
  BY <1>3
<1>5. ASSUME NEW r \in Ranks(case)
      PROVE  /\ DOMAIN mem[r] = Buffers
             /\ \A b \in Buffers : mem[r][b] \in [0 .. Length(case, r, b) - 1 -> Value]
  <2>1. mem[r] = [b \in Buffers |->
                    [i \in 0 .. Length(case, r, b) - 1 |-> Given(case, r, b, i)]]
    BY <1>3
  <2> QED BY <1>2, <2>1
<1> QED BY <1>1, <1>4, <1>5 DEF TypeOK

(* One buffer of one rank changes. *)
LEMMA WriteType ==
  ASSUME TypeOK, case' = case, pc' \in [Ranks(case) -> Nat \ {0}],
         NEW r \in Ranks(case), NEW STATE buf, buf \in Buffers, NEW STATE new,
         new \in [0 .. Length(case, r, buf) - 1 -> Value],
         mem' = [mem EXCEPT ![r][buf] = new]
  PROVE  TypeOK'
<1>1. DOMAIN mem' = Ranks(case)
  BY DEF TypeOK
<1>2. ASSUME NEW x \in Ranks(case)
      PROVE  /\ DOMAIN mem'[x] = Buffers
             /\ \A b \in Buffers : mem'[x][b] \in [0 .. Length(case, x, b) - 1 -> Value]
  <2>1. CASE x = r
    <3>1. mem'[x] = [mem[r] EXCEPT ![buf] = new]
      BY <2>1 DEF TypeOK
    <3>2. DOMAIN mem[r] = Buffers
          /\ \A b \in Buffers : mem[r][b] \in [0 .. Length(case, r, b) - 1 -> Value]
      BY DEF TypeOK
    <3> QED BY <2>1, <3>1, <3>2
  <2>2. CASE x # r
    BY <2>2 DEF TypeOK
  <2> QED BY <2>1, <2>2
<1> QED BY <1>1, <1>2 DEF TypeOK

LEMMA NextType == RootsOnCpu /\ TypeOK /\ [Next]_vars => TypeOK'
<1> SUFFICES ASSUME RootsOnCpu, TypeOK, [Next]_vars PROVE TypeOK'
  OBVIOUS
<1>1. Running /\ \A n \in Nat \ {0} : n + 1 \in Nat \ {0}
  BY DEF TypeOK, Running
<1>2. ASSUME NEW r \in Ranks(case), SkipRound(r) PROVE TypeOK'
  BY <1>1, <1>2 DEF SkipRound, TypeOK
<1>3. ASSUME NEW r \in Ranks(case), CopyChunk(r) PROVE TypeOK'
  <2> DEFINE s == Stmt(r)
             new == [i \in DOMAIN mem[r][s.buf] |->
                       IF i \in s.off .. s.off + s.cnt - 1
                       THEN mem[r][s.from][s.fromOff + (i - s.off)] ELSE mem[r][s.buf][i]]
  <2>1. ~Done(r) /\ s.op = "copy"
    BY <1>3 DEF CopyChunk, At
  <2>2. Fitting(case, r, s)
    BY <1>1, <2>1, StatementFits
  <2>3. /\ s.buf \in Buffers /\ s.from \in Buffers /\ s.off \in Nat /\ s.cnt = 1
        /\ s.fromOff \in 0 .. Length(case, r, s.from) - 1
    BY <2>1, <2>2 DEF Fitting
  <2>4. mem' = [mem EXCEPT ![r][s.buf] = new]
    BY <1>3 DEF CopyChunk, Write
  <2>5. case' = case /\ pc' \in [Ranks(case) -> Nat \ {0}]
    BY <1>1, <1>3 DEF CopyChunk, TypeOK
  <2>6. new \in [0 .. Length(case, r, s.buf) - 1 -> Value]
    <3>1. /\ mem[r][s.buf] \in [0 .. Length(case, r, s.buf) - 1 -> Value]
          /\ mem[r][s.from] \in [0 .. Length(case, r, s.from) - 1 -> Value]
      BY <2>3 DEF TypeOK
    <3>2. \A i \in s.off .. s.off + s.cnt - 1 : s.fromOff + (i - s.off) = s.fromOff
      BY <2>3
    <3> HIDE DEF s
    <3> QED BY <2>3, <3>1, <3>2
  <2> HIDE DEF s, new
  <2> QED BY <2>3, <2>4, <2>5, <2>6, WriteType
<1>4. ASSUME NEW s \in Ranks(case), At(s, "send"), Transfer(s, Stmt(s).peer) PROVE TypeOK'
  <2> DEFINE d == Stmt(s).peer
             from == Stmt(s)
             to == Stmt(d)
             data(k) == mem[s][from.buf][from.off + k]
             value(k) == IF to.op = "recv" THEN data(k) ELSE Plus(mem[d][to.buf][k], data(k))
             new == [i \in DOMAIN mem[d][to.buf] |->
                       IF i \in to.off .. to.off + to.cnt - 1
                       THEN value(i - to.off) ELSE mem[d][to.buf][i]]
  <2>1. /\ from.cnt = to.cnt /\ d \in Ranks(case) /\ ~Done(s) /\ ~Done(d)
        /\ to.op \in {"recv", "add"} /\ from.op = "send"
    BY <1>1, <1>4, SameLengthHolds DEF Transfer, At
  <2>2. Fitting(case, s, from) /\ Fitting(case, d, to)
    BY <1>1, <2>1, StatementFits
  <2>3. /\ from.buf \in Buffers /\ from.off \in Nat /\ from.cnt \in Nat
        /\ from.off + from.cnt <= Length(case, s, from.buf)
        /\ to.buf \in Buffers /\ to.off \in Nat /\ to.cnt \in Nat
        /\ to.off + to.cnt <= Length(case, d, to.buf)
    BY <2>1, <2>2 DEF Fitting
  <2>4. mem' = [mem EXCEPT ![d][to.buf] = new]
    BY <1>4 DEF Transfer, Write
  <2>5. case' = case /\ pc' \in [Ranks(case) -> Nat \ {0}]
    <3>1. case' = case /\ pc' = [pc EXCEPT ![s] = @ + 1, ![d] = @ + 1]
      BY <1>4 DEF Transfer
    <3> HIDE DEF d
    <3> QED BY <1>1, <2>1, <3>1 DEF TypeOK
  <2>6. new \in [0 .. Length(case, d, to.buf) - 1 -> Value]
    <3>1. /\ mem[d][to.buf] \in [0 .. Length(case, d, to.buf) - 1 -> Value]
          /\ mem[s][from.buf] \in [0 .. Length(case, s, from.buf) - 1 -> Value]
      BY <2>1, <2>3 DEF TypeOK
    <3>2. Length(case, d, to.buf) \in Nat /\ Length(case, s, from.buf) \in Nat
      BY <1>1, <2>3, LengthFacts DEF Running
    <3>3. ASSUME NEW k \in 0 .. to.cnt - 1 PROVE value(k) \in Value
      <4>1. from.off + k \in 0 .. Length(case, s, from.buf) - 1
        <5> HIDE DEF from, to
        <5> QED BY <2>1, <2>3, <3>2
      <4>2. k \in 0 .. Length(case, d, to.buf) - 1
        <5> HIDE DEF from, to, d
        <5> QED BY <2>3, <3>2
      <4>3. data(k) \in Value /\ mem[d][to.buf][k] \in Value
        <5> HIDE DEF from, to, d
        <5> QED BY <3>1, <4>1, <4>2
      <4> HIDE DEF data, to, d
      <4> QED BY <4>3, ValueFacts
    <3>4. \A i \in to.off .. to.off + to.cnt - 1 : i - to.off \in 0 .. to.cnt - 1
      <4> HIDE DEF to
      <4> QED BY <2>3
    <3> HIDE DEF value, to, d
    <3> QED BY <3>1, <3>3, <3>4
  <2> HIDE DEF d, from, to, new
  <2> QED BY <2>1, <2>3, <2>4, <2>5, <2>6, WriteType
<1>5. CASE Terminated \/ UNCHANGED vars
  BY <1>5 DEF Terminated, vars, TypeOK
<1> QED BY <1>2, <1>3, <1>4, <1>5 DEF Next

-----------------------------------------------------------------------------
(* Every buffer keeps its length, and every chunk is a bag of              *)
(* contributions, whatever the cluster and the order of execution.         *)
THEOREM TypeCorrect ==
  ASSUME RootsOnCpu
  PROVE  Spec => []TypeOK
BY InitType, NextType, PTL DEF Spec

(* No statement that the transpiler emits leaves its buffer, whatever the  *)
(* number of FPGAs and the size of a group: neither the arrays of the user *)
(* nor the buffer of a replicator, which has room for one group.           *)
THEOREM BuffersSuffice ==
  ASSUME RootsOnCpu
  PROVE  Spec => []WithinBuffers
<1>1. Running => WithinBuffers
  BY StatementFits DEF WithinBuffers, Fitting
<1> QED BY <1>1, RunningInductive, PTL

(* A send and the receive that it meets have the same length, whatever the *)
(* number of FPGAs and the size of a group: root and replicator compute    *)
(* the size of a group independently of each other.                        *)
THEOREM LengthsAgree ==
  ASSUME RootsOnCpu
  PROVE  Spec => []SameLength
<1>1. Running => SameLength
  BY SameLengthHolds DEF SameLength
<1> QED BY <1>1, RunningInductive, PTL

-----------------------------------------------------------------------------
(***************************************************************************)
(* What the loops leave in the buffers, for every size of the cluster and  *)
(* every root.                                                             *)
(*                                                                         *)
(* The root serves the ranks one after the other, so that the order of the *)
(* steps is the order of its loop: in round i the data of rank i moves,    *)
(* and every other rank is either waiting or done.  The trees, where the   *)
(* groups proceed independently of each other, are left to TLC.            *)
(***************************************************************************)

(* Loops only, and the first rank is the root where the call needs it: a   *)
(* reduction to a later root is wrong (see the run later_root), and one    *)
(* array for both buffers has the root's own chunk in the first place.     *)
Loops(c) == ~UsesTree(c) /\ (c.kind = "reduce" \/ c.inPlace => c.root = 0)
LoopsOnly == \A c \in Cases : Loops(c)

-----------------------------------------------------------------------------
(* The invariant. *)

Root  == case.root
Round == pc[Root] - 1  \* the iteration of the root, from 0

(* A rank is done when the root has passed its round. *)
InOrder ==
  /\ Round \in 0 .. Size(case)
  /\ \A r \in Ranks(case) \ {Root} : pc[r] = IF r < Round THEN 2 ELSE 1

(* The ranks below m have contributed. *)
Partial(m) == [x \in Atom |-> IF x \in 0 .. m - 1 THEN 1 ELSE 0]

(* What has not been sent yet is what the call was given, and what has     *)
(* been received is what MPI promises.                                     *)
ScatterInv ==
  /\ \A i \in Ranks(case) : mem[Root]["send"][i] = Only(i)
  /\ \A r \in Ranks(case) : r < Round => mem[r][Result(case)][0] = Only(r)

GatherInv ==
  /\ \A r \in Ranks(case) : mem[r]["send"][0] = Only(r)
  /\ \A i \in Ranks(case) : i < Round => mem[Root][Result(case)][i] = Only(i)

BcastInv ==
  /\ mem[Root]["buf"][0] = Only(Root)
  /\ \A r \in Ranks(case) : r < Round => mem[r]["buf"][0] = Only(Root)

ReduceInv ==
  /\ \A r \in Ranks(case) : mem[r]["send"][0] = Only(r)
  /\ Round > 0 => mem[Root]["recv"][0] = Partial(Round)

DataInv ==
  /\ case.kind = "scatter" => ScatterInv
  /\ case.kind = "gather"  => GatherInv
  /\ case.kind = "bcast"   => BcastInv
  /\ case.kind = "reduce"  => ReduceInv

LoopInv == TypeOK /\ InOrder /\ DataInv

-----------------------------------------------------------------------------
(* One round of the root's loop as a step of the whole cluster. *)

(* Chunk i of buffer b at rank r becomes v, and nothing else changes. *)
Changes(r, b, i, v) ==
  \A x \in Ranks(case), buf \in Buffers : \A j \in 0 .. Length(case, x, buf) - 1 :
    mem'[x][buf][j] = IF x = r /\ buf = b /\ j = i THEN v ELSE mem[x][buf][j]

OwnInPlace == case.inPlace /\ Round = Root

RoundMoves ==
  /\ case.kind = "scatter" =>
       IF OwnInPlace THEN mem' = mem
       ELSE Changes(Round, Result(case), 0, mem[Root]["send"][Round])
  /\ case.kind = "gather" =>
       IF OwnInPlace THEN mem' = mem
       ELSE Changes(Root, Result(case), Round, mem[Round]["send"][0])
  /\ case.kind = "bcast" =>
       IF Round = Root THEN mem' = mem
       ELSE Changes(Round, "buf", 0, mem[Root]["buf"][0])
  /\ case.kind = "reduce" =>
       Changes(Root, "recv", 0,
               IF Round = Root THEN mem[Root]["send"][0]
               ELSE Plus(mem[Root]["recv"][0], mem[Round]["send"][0]))

RoundStep ==
  /\ Round < Size(case) /\ case' = case
  /\ pc' = [r \in Ranks(case) |-> IF r = Root THEN pc[r] + 1
                                 ELSE IF r = Round THEN 2 ELSE pc[r]]
  /\ RoundMoves

LEMMA CodeFacts ==
  ASSUME LoopsOnly, TypeOK, InOrder
  PROVE  /\ Root \in Ranks(case) /\ Size(case) \in Nat \ {0} /\ pc[Root] = Round + 1
         /\ case \in Cases /\ Loops(case) /\ Round \in Nat
         /\ Done(Root) <=> Round = Size(case)
         /\ \A r \in Ranks(case) \ {Root} : Done(r) <=> r < Round
<1>1. case \in Cases /\ Loops(case) /\ pc \in [Ranks(case) -> Nat \ {0}]
  BY DEF TypeOK, LoopsOnly
<1>2. Root \in Ranks(case) /\ Size(case) \in Nat \ {0} /\ case.kind \in Kinds
  BY <1>1, CaseFacts DEF Root
<1>3. pc[Root] = Round + 1 /\ Round \in Nat
  <2>1. pc[Root] \in Nat \ {0}
    BY <1>1, <1>2
  <2> QED BY <2>1 DEF Round
<1>4. Done(Root) <=> Round = Size(case)
  <2>1. Code(case, Root) = RootLoop(case)
    BY <1>1, FoldingIsFaithful DEF Loops, Code, LoopCode, Root
  <2>2. Len(RootLoop(case)) = Size(case)
    BY <1>2 DEF RootLoop
  <2>3. Done(Root) <=> Round + 1 > Size(case)
    BY <1>3, <2>1, <2>2 DEF Done
  <2>4. Round <= Size(case)
    BY <1>2 DEF InOrder
  <2> QED BY <1>2, <1>3, <2>3, <2>4
<1>5. ASSUME NEW r \in Ranks(case) \ {Root} PROVE Done(r) <=> r < Round
  <2>1. Code(case, r) = OtherThanRoot(case)
    BY <1>1, FoldingIsFaithful DEF Loops, Code, LoopCode, Root
  <2>2. Len(OtherThanRoot(case)) = 1
    BY <1>2 DEF OtherThanRoot, Kinds
  <2>3. Done(r) <=> pc[r] > 1
    BY <2>1, <2>2 DEF Done
  <2>4. pc[r] = IF r < Round THEN 2 ELSE 1
    BY DEF InOrder
  <2> QED BY <2>3, <2>4
<1> QED BY <1>1, <1>2, <1>3, <1>4, <1>5

(* The statements the ranks are about to execute. *)
LEMMA StatementFacts ==
  ASSUME LoopsOnly, TypeOK, InOrder
  PROVE  /\ ~Done(Root) =>
              /\ Round \in Ranks(case)
              /\ case.kind = "scatter" => Stmt(Root) = ScatterRound(case, Round)
              /\ case.kind = "gather"  => Stmt(Root) = GatherRound(case, Round)
              /\ case.kind = "bcast"   => Stmt(Root) = BcastRound(case, Round)
              /\ case.kind = "reduce"  => Stmt(Root) = ReduceRound(case, Round)
         /\ \A r \in Ranks(case) \ {Root} : ~Done(r) =>
              /\ pc[r] = 1
              /\ case.kind = "scatter" => Stmt(r) = Recv(Result(case), 0, 1, Root)
              /\ case.kind = "gather"  => Stmt(r) = Send("send", 0, 1, Root)
              /\ case.kind = "bcast"   => Stmt(r) = Recv("buf", 0, 1, Root)
              /\ case.kind = "reduce"  => Stmt(r) = Send("send", 0, 1, Root)
<1>1. /\ Root \in Ranks(case) /\ Size(case) \in Nat \ {0} /\ pc[Root] = Round + 1
      /\ ~UsesTree(case) /\ Round \in Nat
  BY CodeFacts DEF Loops
<1>2. ASSUME ~Done(Root)
      PROVE  /\ Round \in Ranks(case)
             /\ case.kind = "scatter" => Stmt(Root) = ScatterRound(case, Round)
             /\ case.kind = "gather"  => Stmt(Root) = GatherRound(case, Round)
             /\ case.kind = "bcast"   => Stmt(Root) = BcastRound(case, Round)
             /\ case.kind = "reduce"  => Stmt(Root) = ReduceRound(case, Round)
  <2>1. Round # Size(case) /\ Round \in 0 .. Size(case)
    BY <1>2, CodeFacts DEF InOrder
  <2>2. Round \in Ranks(case) /\ Round + 1 \in 1 .. Size(case) /\ Round + 1 - 1 = Round
    BY <1>1, <2>1 DEF Ranks
  <2>3. Stmt(Root) = RootLoop(case)[Round + 1]
    BY <1>1, FoldingIsFaithful DEF Stmt, Code, LoopCode, Root
  <2>4. ASSUME NEW k \in 1 .. Size(case)
        PROVE  /\ case.kind = "scatter" => RootLoop(case)[k] = ScatterRound(case, k - 1)
               /\ case.kind = "gather"  => RootLoop(case)[k] = GatherRound(case, k - 1)
               /\ case.kind = "bcast"   => RootLoop(case)[k] = BcastRound(case, k - 1)
               /\ case.kind = "reduce"  => RootLoop(case)[k] = ReduceRound(case, k - 1)
    BY DEF RootLoop
  <2> DEFINE k == Round + 1
  <2>5. k \in 1 .. Size(case) /\ k - 1 = Round
    BY <1>1, <2>2
  <2>6. Stmt(Root) = RootLoop(case)[k]
    BY <2>3
  <2> HIDE DEF k
  <2> QED BY <2>2, <2>4, <2>5, <2>6
<1>3. ASSUME NEW r \in Ranks(case) \ {Root}, ~Done(r)
      PROVE  /\ pc[r] = 1
             /\ case.kind = "scatter" => Stmt(r) = Recv(Result(case), 0, 1, Root)
             /\ case.kind = "gather"  => Stmt(r) = Send("send", 0, 1, Root)
             /\ case.kind = "bcast"   => Stmt(r) = Recv("buf", 0, 1, Root)
             /\ case.kind = "reduce"  => Stmt(r) = Send("send", 0, 1, Root)
  <2>1. pc[r] = 1
    BY <1>3, CodeFacts DEF InOrder
  <2>2. Stmt(r) = OtherThanRoot(case)[1]
    BY <1>1, <2>1, FoldingIsFaithful DEF Stmt, Code, LoopCode, Root
  <2> QED BY <2>1, <2>2 DEF OtherThanRoot, Root
<1> QED BY <1>2, <1>3

LEMMA OneChunk ==
  ASSUME TypeOK, NEW r \in Ranks(case), NEW STATE b, b \in Buffers, NEW STATE i, NEW STATE v,
         NEW STATE new,
         new = [j \in 0 .. Length(case, r, b) - 1 |-> IF j = i THEN v ELSE mem[r][b][j]],
         mem' = [mem EXCEPT ![r][b] = new]
  PROVE  Changes(r, b, i, v)
<1> SUFFICES ASSUME NEW x \in Ranks(case), NEW buf \in Buffers,
                    NEW j \in 0 .. Length(case, x, buf) - 1
             PROVE  mem'[x][buf][j] = IF x = r /\ buf = b /\ j = i THEN v ELSE mem[x][buf][j]
  BY DEF Changes
<1>1. DOMAIN mem = Ranks(case) /\ DOMAIN mem[r] = Buffers
  BY DEF TypeOK
<1>2. CASE x = r /\ buf = b
  <2>1. mem'[x][buf] = new
    BY <1>1, <1>2
  <2> QED BY <1>2, <2>1
<1>3. CASE ~(x = r /\ buf = b)
  <2>1. mem'[x][buf] = mem[x][buf]
    BY <1>1, <1>3
  <2> QED BY <1>3, <2>1
<1> QED BY <1>2, <1>3

(* The statements of the loops write one chunk each. *)
LEMMA CopyMoves ==
  ASSUME TypeOK, NEW r \in Ranks(case), CopyChunk(r),
         NEW STATE b, NEW STATE i, NEW STATE from, NEW STATE j,
         Stmt(r) = Copy(b, i, from, j), b \in Buffers, i \in Nat, j \in Nat
  PROVE  Changes(r, b, i, mem[r][from][j])
<1> DEFINE s == Stmt(r)
           v == mem[r][from][j]
           new == [k \in DOMAIN mem[r][s.buf] |->
                     IF k \in s.off .. s.off + s.cnt - 1
                     THEN mem[r][s.from][s.fromOff + (k - s.off)] ELSE mem[r][s.buf][k]]
<1>1. mem' = [mem EXCEPT ![r][s.buf] = new]
  BY DEF CopyChunk, Write
<1>2. s.buf = b /\ s.off = i /\ s.cnt = 1 /\ s.from = from /\ s.fromOff = j
  BY DEF Copy
<1>3. DOMAIN mem[r][b] = 0 .. Length(case, r, b) - 1
  BY DEF TypeOK
<1>4. new = [k \in 0 .. Length(case, r, b) - 1 |-> IF k = i THEN v ELSE mem[r][b][k]]
  <2>1. new = [k \in 0 .. Length(case, r, b) - 1 |->
                 IF k \in i .. i + 1 - 1 THEN mem[r][from][j + (k - i)] ELSE mem[r][b][k]]
    BY <1>2, <1>3
  <2>2. \A k \in 0 .. Length(case, r, b) - 1 :
          /\ k \in i .. i + 1 - 1 <=> k = i
          /\ k = i => j + (k - i) = j
    OBVIOUS
  <2> HIDE DEF new
  <2> QED BY <2>1, <2>2
<1> HIDE DEF s, v, new
<1>5. mem' = [mem EXCEPT ![r][b] = new]
  BY <1>1, <1>2
<1>6. Changes(r, b, i, v)
  BY <1>4, <1>5, OneChunk
<1> QED BY <1>6 DEF v

LEMMA TransferMoves ==
  ASSUME TypeOK, NEW s \in Ranks(case), NEW STATE d, d \in Ranks(case), Transfer(s, d),
         NEW STATE from, NEW STATE j, NEW STATE b, NEW STATE i,
         b \in Buffers, i \in Nat, j \in Nat,
         Stmt(s).buf = from, Stmt(s).off = j,
         Stmt(d).buf = b, Stmt(d).off = i, Stmt(d).cnt = 1,
         Stmt(d).op = "recv" \/ i = 0
  PROVE  Changes(d, b, i, IF Stmt(d).op = "recv" THEN mem[s][from][j]
                          ELSE Plus(mem[d][b][0], mem[s][from][j]))
<1> DEFINE to == Stmt(d)
           data(k) == mem[s][Stmt(s).buf][Stmt(s).off + k]
           value(k) == IF to.op = "recv" THEN data(k) ELSE Plus(mem[d][to.buf][k], data(k))
           new == [k \in DOMAIN mem[d][to.buf] |->
                     IF k \in to.off .. to.off + to.cnt - 1
                     THEN value(k - to.off) ELSE mem[d][to.buf][k]]
<1>1. mem' = [mem EXCEPT ![d][to.buf] = new]
  BY DEF Transfer, Write
<1>2. DOMAIN mem[d][b] = 0 .. Length(case, d, b) - 1
  BY DEF TypeOK
<1>3. value(0) = IF to.op = "recv" THEN mem[s][from][j]
                 ELSE Plus(mem[d][b][0], mem[s][from][j])
  <2>1. j + 0 = j
    OBVIOUS
  <2>2. data(0) = mem[s][from][j]
    BY <2>1
  <2> HIDE DEF data
  <2> QED BY <2>2
<1>4. new = [k \in 0 .. Length(case, d, b) - 1 |-> IF k = i THEN value(0) ELSE mem[d][b][k]]
  <2> HIDE DEF value
  <2>1. new = [k \in 0 .. Length(case, d, b) - 1 |->
                 IF k \in i .. i + 1 - 1 THEN value(k - i) ELSE mem[d][b][k]]
    BY <1>2
  <2>2. \A k \in 0 .. Length(case, d, b) - 1 :
          /\ k \in i .. i + 1 - 1 <=> k = i
          /\ k = i => k - i = 0
    OBVIOUS
  <2> HIDE DEF new, to
  <2> QED BY <2>1, <2>2
<1> HIDE DEF value, new
<1>5. mem' = [mem EXCEPT ![d][b] = new]
  BY <1>1
<1>6. Changes(d, b, i, value(0))
  BY <1>4, <1>5, OneChunk
<1> QED BY <1>3, <1>6

(* The root's statements by their operation. *)
LEMMA RootStatement ==
  ASSUME LoopsOnly, TypeOK, InOrder, ~Done(Root)
  PROVE  /\ Round = Root =>
              /\ Stmt(Root).op \in {"skip", "copy"}
              /\ Stmt(Root).op = "skip" =>
                   case.kind = "bcast" \/ (case.kind \in {"scatter", "gather"} /\ case.inPlace)
              /\ Stmt(Root).op = "copy" =>
                   \/ (case.kind \in {"scatter", "gather"} /\ ~case.inPlace)
                   \/ case.kind = "reduce"
         /\ Round # Root =>
              /\ Stmt(Root).op = (IF case.kind \in {"scatter", "bcast"} THEN "send"
                                  ELSE IF case.kind = "gather" THEN "recv" ELSE "add")
              /\ Stmt(Root).peer = Round
<1>1. case.kind \in Kinds /\ case.inPlace \in BOOLEAN
  BY CodeFacts, CaseFacts
<1> DEFINE s == Stmt(Root)
           i == Round
<1>2. /\ case.kind = "scatter" => s = ScatterRound(case, i)
      /\ case.kind = "gather"  => s = GatherRound(case, i)
      /\ case.kind = "bcast"   => s = BcastRound(case, i)
      /\ case.kind = "reduce"  => s = ReduceRound(case, i)
  BY StatementFacts
<1> HIDE DEF s, i
<1>3. CASE case.kind = "scatter"
  BY <1>1, <1>2, <1>3 DEF ScatterRound, CopyOwn, Skip, Copy, Send, Root, s, i
<1>4. CASE case.kind = "gather"
  BY <1>1, <1>2, <1>4 DEF GatherRound, CopyOwn, Skip, Copy, Recv, Root, s, i
<1>5. CASE case.kind = "bcast"
  <2>1. Round = Root => Stmt(Root) = Skip
    BY <1>2, <1>5 DEF BcastRound, Root, s, i
  <2>2. Round # Root => Stmt(Root) = Send("buf", 0, 1, Round)
    BY <1>2, <1>5 DEF BcastRound, Root, s, i
  <2>3. Skip.op = "skip" /\ Skip.op # "copy"
    BY DEF Skip
  <2>4. Send("buf", 0, 1, Round).op = "send" /\ Send("buf", 0, 1, Round).peer = Round
    BY DEF Send
  <2> QED BY <1>5, <2>1, <2>2, <2>3, <2>4
<1>6. CASE case.kind = "reduce"
  BY <1>2, <1>6 DEF ReduceRound, Copy, Add, Root, s, i
<1> QED BY <1>1, <1>3, <1>4, <1>5, <1>6 DEF Kinds

LEMMA OtherStatement ==
  ASSUME LoopsOnly, TypeOK, InOrder, NEW r \in Ranks(case), r # Root, ~Done(r)
  PROVE  /\ Stmt(r).op = (IF case.kind \in {"scatter", "bcast"} THEN "recv" ELSE "send")
         /\ Stmt(r).peer = Root
         /\ Stmt(r).off = 0 /\ Stmt(r).cnt = 1
         /\ Stmt(r).buf = (IF case.kind = "scatter" THEN Result(case)
                           ELSE IF case.kind = "bcast" THEN "buf" ELSE "send")
<1>1. case.kind \in Kinds
  BY CodeFacts, CaseFacts
<1> QED BY <1>1, StatementFacts DEF Kinds, Send, Recv

(* Every step is a round of the root. *)
LEMMA SkipIsRound ==
  ASSUME LoopsOnly, TypeOK, InOrder, NEW r \in Ranks(case), SkipRound(r)
  PROVE  RoundStep
<1>1. ~Done(r) /\ Stmt(r).op = "skip"
  BY DEF SkipRound, At
<1>2. r = Root
  BY <1>1, OtherStatement
<1>3. Round = Root /\ (case.kind = "bcast" \/ (case.kind \in {"scatter", "gather"} /\ case.inPlace))
  BY <1>1, <1>2, RootStatement
<1>4. RoundMoves
  BY <1>3 DEF SkipRound, RoundMoves, OwnInPlace
<1>5. Round \in 0 .. Size(case) /\ Round # Size(case) /\ Size(case) \in Nat
  BY <1>1, <1>2, CodeFacts DEF InOrder
<1>6. Round < Size(case)
  BY <1>5
<1>7. case' = case /\ pc' = [pc EXCEPT ![Root] = @ + 1] /\ pc \in [Ranks(case) -> Nat \ {0}]
  BY <1>2 DEF SkipRound, TypeOK
<1>8. pc' = [x \in Ranks(case) |-> IF x = Root THEN pc[x] + 1 ELSE IF x = Round THEN 2 ELSE pc[x]]
  BY <1>3, <1>7
<1> QED BY <1>4, <1>6, <1>7, <1>8 DEF RoundStep

LEMMA CopyIsRound ==
  ASSUME LoopsOnly, TypeOK, InOrder, NEW r \in Ranks(case), CopyChunk(r)
  PROVE  RoundStep
<1>1. ~Done(r) /\ Stmt(r).op = "copy"
  BY DEF CopyChunk, At
<1>2. r = Root
  BY <1>1, OtherStatement
<1>3. /\ Round = Root
      /\ (case.kind \in {"scatter", "gather"} /\ ~case.inPlace) \/ case.kind = "reduce"
  BY <1>1, <1>2, RootStatement
<1>4. Round \in Nat /\ Root \in Ranks(case)
  BY CodeFacts
<1>5. RoundMoves
  <2>1. CASE case.kind = "scatter"
    <3>1. Stmt(r) = Copy("recv", 0, "send", Round) /\ Result(case) = "recv" /\ ~case.inPlace
      BY <1>1, <1>2, <1>3, <2>1, StatementFacts DEF ScatterRound, CopyOwn, Result, Root
    <3>2. Changes(Root, "recv", 0, mem[Root]["send"][Round])
      BY <1>2, <1>4, <3>1, CopyMoves DEF Buffers
    <3> QED BY <1>3, <2>1, <3>1, <3>2 DEF RoundMoves, OwnInPlace
  <2>2. CASE case.kind = "gather"
    <3>1. Stmt(r) = Copy("recv", Round, "send", 0) /\ Result(case) = "recv" /\ ~case.inPlace
      BY <1>1, <1>2, <1>3, <2>2, StatementFacts DEF GatherRound, CopyOwn, Result, Root
    <3>2. Changes(Root, "recv", Round, mem[Root]["send"][0])
      BY <1>2, <1>4, <3>1, CopyMoves DEF Buffers
    <3> QED BY <1>3, <2>2, <3>1, <3>2 DEF RoundMoves, OwnInPlace
  <2>3. CASE case.kind = "reduce"
    <3>1. Stmt(r) = Copy("recv", 0, "send", 0)
      BY <1>1, <1>2, <1>3, <2>3, StatementFacts DEF ReduceRound, Root
    <3>2. Changes(Root, "recv", 0, mem[Root]["send"][0])
      BY <1>2, <1>4, <3>1, CopyMoves DEF Buffers
    <3> QED BY <1>3, <2>3, <3>2 DEF RoundMoves
  <2> QED BY <1>3, <2>1, <2>2, <2>3
<1>6. Round \in 0 .. Size(case) /\ Round # Size(case) /\ Size(case) \in Nat
  BY <1>1, <1>2, CodeFacts DEF InOrder
<1>7. Round < Size(case)
  BY <1>6
<1>8. case' = case /\ pc' = [pc EXCEPT ![Root] = @ + 1] /\ pc \in [Ranks(case) -> Nat \ {0}]
  BY <1>2 DEF CopyChunk, TypeOK
<1>9. pc' = [x \in Ranks(case) |-> IF x = Root THEN pc[x] + 1 ELSE IF x = Round THEN 2 ELSE pc[x]]
  BY <1>3, <1>8
<1> QED BY <1>5, <1>7, <1>8, <1>9 DEF RoundStep

LEMMA TransferIsRound ==
  ASSUME LoopsOnly, TypeOK, InOrder, NEW s \in Ranks(case), Transfer(s, Stmt(s).peer),
         At(s, "send")
  PROVE  RoundStep
<1> DEFINE d == Stmt(s).peer
<1>1. /\ ~Done(s) /\ Stmt(s).op = "send" /\ ~Done(d) /\ Stmt(d).peer = s
      /\ Stmt(d).op = "recv" \/ Stmt(d).op = "add"
  BY DEF Transfer, Meet, At
<1>2. /\ Root \in Ranks(case) /\ Round \in Nat /\ pc[Root] = Round + 1
      /\ case.kind \in Kinds /\ Result(case) \in Buffers
  BY CodeFacts, CaseFacts, LengthFacts
<1>3. case' = case /\ pc' = [pc EXCEPT ![s] = @ + 1, ![d] = @ + 1]
      /\ pc \in [Ranks(case) -> Nat \ {0}]
  BY DEF Transfer, TypeOK
<1>4. ~Done(Root) => Round \in Ranks(case) /\ Round < Size(case)
  <2>1. ~Done(Root) => Round \in Ranks(case)
    BY StatementFacts
  <2> QED BY <2>1, CodeFacts DEF InOrder
<1>5. CASE s = Root
  <2>1. Round # Root /\ d = Round /\ case.kind \in {"scatter", "bcast"}
    BY <1>1, <1>2, <1>5, RootStatement
  <2>2. Round \in Ranks(case) /\ Round < Size(case)
    BY <1>1, <1>4, <1>5
  <2>3. /\ Stmt(Round).op = "recv" /\ Stmt(Round).off = 0 /\ Stmt(Round).cnt = 1
        /\ Stmt(Round).buf = (IF case.kind = "scatter" THEN Result(case) ELSE "buf")
    BY <1>1, <2>1, <2>2, OtherStatement
  <2>4. Transfer(Root, Round)
    BY <1>5, <2>1
  <2>5. RoundMoves
    <3>1. CASE case.kind = "scatter"
      <4>1. Stmt(Root) = Send("send", Round, 1, Round)
        BY <1>1, <1>5, <2>1, <3>1, StatementFacts DEF ScatterRound, Root
      <4>2. Stmt(Root).buf = "send" /\ Stmt(Root).off = Round
        BY <4>1 DEF Send
      <4>3. Changes(Round, Result(case), 0, mem[Root]["send"][Round])
        BY <1>2, <2>2, <2>3, <2>4, <3>1, <4>2, TransferMoves
      <4> QED BY <2>1, <3>1, <4>3 DEF RoundMoves, OwnInPlace
    <3>2. CASE case.kind = "bcast"
      <4>1. Stmt(Root) = Send("buf", 0, 1, Round)
        BY <1>1, <1>5, <2>1, <3>2, StatementFacts DEF BcastRound, Root
      <4>2. Stmt(Root).buf = "buf" /\ Stmt(Root).off = 0
        BY <4>1 DEF Send
      <4>3. Stmt(Round).buf = "buf" /\ "buf" \in Buffers
        BY <2>3, <3>2 DEF Buffers
      <4>4. Changes(Round, "buf", 0, mem[Root]["buf"][0])
        BY <1>2, <2>2, <2>3, <2>4, <4>2, <4>3, TransferMoves
      <4> QED BY <2>1, <3>2, <4>4 DEF RoundMoves
    <3> QED BY <2>1, <3>1, <3>2
  <2>6. pc[Round] = 1
    BY <1>1, <2>1, <2>2, StatementFacts
  <2>7. pc' = [x \in Ranks(case) |-> IF x = Root THEN pc[x] + 1 ELSE IF x = Round THEN 2 ELSE pc[x]]
    <3>1. Root # Round /\ Root \in Ranks(case) /\ Round \in Ranks(case) /\ pc[Round] = 1
      BY <1>2, <1>5, <2>1, <2>2, <2>6
    <3>2. pc' = [pc EXCEPT ![Root] = @ + 1, ![Round] = @ + 1]
      BY <1>3, <1>5, <2>1
    <3>3. pc \in [Ranks(case) -> Nat \ {0}]
      BY <1>3
    <3>4. /\ pc'[Root] = pc[Root] + 1 /\ pc'[Round] = 2
          /\ \A x \in Ranks(case) \ {Root, Round} : pc'[x] = pc[x]
      BY <3>1, <3>2, <3>3
    <3>5. pc' = [x \in Ranks(case) |-> pc'[x]]
      BY <3>2, <3>3
    <3> QED BY <3>1, <3>4, <3>5
  <2> QED BY <1>3, <2>2, <2>5, <2>7 DEF RoundStep
<1>6. CASE s # Root
  <2>1. d = Root /\ case.kind \in {"gather", "reduce"} /\ Stmt(s).buf = "send" /\ Stmt(s).off = 0
    BY <1>1, <1>2, <1>6, OtherStatement DEF Kinds
  <2>2. Round # Root /\ Round = s
    BY <1>1, <2>1, RootStatement
  <2>3. Round \in Ranks(case) /\ Round < Size(case)
    BY <1>1, <1>4, <2>1
  <2>4. Transfer(s, Root)
    BY <2>1
  <2>5. RoundMoves
    <3>1. CASE case.kind = "gather"
      <4>1. Stmt(Root) = Recv(Result(case), Round, 1, Round)
        BY <1>1, <2>1, <2>2, <3>1, StatementFacts DEF GatherRound, Root
      <4>2. /\ Stmt(Root).buf = Result(case) /\ Stmt(Root).off = Round /\ Stmt(Root).cnt = 1
            /\ Stmt(Root).op = "recv"
        BY <4>1 DEF Recv
      <4>3. Changes(Root, Result(case), Round, mem[s]["send"][0])
        BY <1>2, <2>1, <2>4, <4>2, TransferMoves
      <4> QED BY <2>2, <3>1, <4>3 DEF RoundMoves, OwnInPlace
    <3>2. CASE case.kind = "reduce"
      <4>1. Stmt(Root) = Add("recv", Round)
        BY <1>1, <2>1, <2>2, <3>2, StatementFacts DEF ReduceRound, Root
      <4>2. /\ Stmt(Root).buf = "recv" /\ Stmt(Root).off = 0 /\ Stmt(Root).cnt = 1
            /\ Stmt(Root).op # "recv" /\ "recv" \in Buffers
        BY <4>1 DEF Add, Buffers
      <4>3. Changes(Root, "recv", 0, Plus(mem[Root]["recv"][0], mem[s]["send"][0]))
        BY <1>2, <2>1, <2>4, <4>2, TransferMoves
      <4> QED BY <2>2, <3>2, <4>3 DEF RoundMoves
    <3> QED BY <2>1, <3>1, <3>2
  <2>6. pc[Round] = 1
    BY <1>1, <2>2, <2>3, StatementFacts
  <2>7. pc' = [x \in Ranks(case) |-> IF x = Root THEN pc[x] + 1 ELSE IF x = Round THEN 2 ELSE pc[x]]
    <3>1. Root # Round /\ Root \in Ranks(case) /\ Round \in Ranks(case) /\ pc[Round] = 1
      BY <1>2, <2>1, <2>2, <2>3, <2>6
    <3>2. pc' = [pc EXCEPT ![Round] = @ + 1, ![Root] = @ + 1]
      BY <1>3, <2>1, <2>2
    <3>3. pc \in [Ranks(case) -> Nat \ {0}]
      BY <1>3
    <3>4. /\ pc'[Root] = pc[Root] + 1 /\ pc'[Round] = 2
          /\ \A x \in Ranks(case) \ {Root, Round} : pc'[x] = pc[x]
      BY <3>1, <3>2, <3>3
    <3>5. pc' = [x \in Ranks(case) |-> pc'[x]]
      BY <3>2, <3>3
    <3> QED BY <3>1, <3>4, <3>5
  <2> QED BY <1>3, <2>3, <2>5, <2>7 DEF RoundStep
<1> QED BY <1>5, <1>6

LEMMA NextIsRound ==
  ASSUME LoopsOnly, TypeOK, InOrder, [Next]_vars
  PROVE  RoundStep \/ UNCHANGED vars
BY SkipIsRound, CopyIsRound, TransferIsRound DEF Next, Terminated

-----------------------------------------------------------------------------
(* The invariant is inductive. *)

LEMMA ChunkFacts ==
  ASSUME LoopsOnly, case \in Cases
  PROVE  /\ Root \in Ranks(case) /\ Size(case) \in Nat \ {0} /\ Ranks(case) \subseteq Nat
         /\ case.kind \in Kinds /\ case.inPlace \in BOOLEAN /\ Result(case) \in Buffers
         /\ \A r \in Ranks(case), b \in Buffers : 0 \in 0 .. Length(case, r, b) - 1
         /\ case.kind = "scatter" =>
              \A i \in Ranks(case) : i \in 0 .. Length(case, Root, "send") - 1
         /\ case.kind = "gather" =>
              \A i \in Ranks(case) : i \in 0 .. Length(case, Root, Result(case)) - 1
         /\ case.kind = "reduce" \/ case.inPlace => Root = 0
<1>1. /\ Root \in Ranks(case) /\ Size(case) \in Nat \ {0} /\ Ranks(case) \subseteq Nat
      /\ case.kind \in Kinds /\ case.inPlace \in BOOLEAN /\ Result(case) \in Buffers
  BY CaseFacts, LengthFacts DEF Root, Ranks
<1>2. \A r \in Ranks(case), b \in Buffers : 0 \in 0 .. Length(case, r, b) - 1
  <2> TAKE r \in Ranks(case), b \in Buffers
  <2>1. Length(case, r, b) \in Nat \ {0}
    BY LengthFacts
  <2> QED BY <2>1
<1>3. case.kind = "scatter" => \A i \in Ranks(case) : i \in 0 .. Length(case, Root, "send") - 1
  BY LengthFacts DEF Root, Ranks
<1>4. case.kind = "gather" =>
        \A i \in Ranks(case) : i \in 0 .. Length(case, Root, Result(case)) - 1
  BY LengthFacts DEF Root, Ranks
<1>5. case.kind = "reduce" \/ case.inPlace => Root = 0
  BY DEF LoopsOnly, Loops, Root
<1> QED BY <1>1, <1>2, <1>3, <1>4, <1>5

LEMMA InitLoops == LoopsOnly /\ Init => InOrder /\ DataInv
<1> SUFFICES ASSUME LoopsOnly, Init PROVE InOrder /\ DataInv
  OBVIOUS
<1>1. case \in Cases /\ pc = [r \in Ranks(case) |-> 1]
  BY DEF Init
<1>2. Round = 0
  BY <1>1, ChunkFacts DEF Round
<1>3. InOrder
  BY <1>1, <1>2, ChunkFacts DEF InOrder
<1>4. ASSUME NEW r \in Ranks(case), NEW b \in Buffers, NEW i \in 0 .. Length(case, r, b) - 1
      PROVE  mem[r][b][i] = Given(case, r, b, i)
  <2>1. mem = [x \in Ranks(case) |-> [c \in Buffers |->
                [j \in 0 .. Length(case, x, c) - 1 |-> Given(case, x, c, j)]]]
    BY DEF Init
  <2> QED BY <2>1
<1>5. "send" \in Buffers /\ "buf" \in Buffers /\ \A r \in Ranks(case) : ~(r < 0)
  <2>1. Ranks(case) \subseteq Nat
    BY <1>1, ChunkFacts
  <2> QED BY <2>1 DEF Buffers
<1>6. case.kind = "scatter" => ScatterInv
  <2> SUFFICES ASSUME case.kind = "scatter" PROVE ScatterInv
    OBVIOUS
  <2>1. \A i \in Ranks(case) : mem[Root]["send"][i] = Given(case, Root, "send", i)
    BY <1>1, <1>4, <1>5, ChunkFacts
  <2> QED BY <1>2, <1>5, <2>1 DEF ScatterInv, Given, Root
<1>7. case.kind # "scatter" => \A r \in Ranks(case) : mem[r]["send"][0] = Only(r)
  <2> SUFFICES ASSUME case.kind # "scatter", NEW r \in Ranks(case) PROVE mem[r]["send"][0] = Only(r)
    OBVIOUS
  <2>1. mem[r]["send"][0] = Given(case, r, "send", 0)
    BY <1>1, <1>4, <1>5, ChunkFacts
  <2> QED BY <2>1 DEF Given
<1>8. mem[Root]["buf"][0] = Only(Root)
  <2>1. mem[Root]["buf"][0] = Given(case, Root, "buf", 0)
    BY <1>1, <1>4, <1>5, ChunkFacts
  <2> QED BY <2>1 DEF Given, Root
<1>9. case.kind = "gather" => GatherInv
  BY <1>2, <1>5, <1>7 DEF GatherInv
<1>10. case.kind = "bcast" => BcastInv
  BY <1>2, <1>5, <1>8 DEF BcastInv
<1>11. case.kind = "reduce" => ReduceInv
  BY <1>2, <1>7 DEF ReduceInv
<1> QED BY <1>3, <1>6, <1>9, <1>10, <1>11 DEF DataInv

LEMMA NextRound ==
  ASSUME LoopsOnly, TypeOK, InOrder, RoundStep
  PROVE  /\ Root' = Root /\ Round' = Round + 1 /\ InOrder'
         /\ Round \in Ranks(case) /\ Round \in Nat
         /\ \A r \in Ranks(case) : r < Round + 1 <=> r < Round \/ r = Round
<1>1. /\ case' = case /\ Round < Size(case)
      /\ pc' = [r \in Ranks(case) |-> IF r = Root THEN pc[r] + 1
                                    ELSE IF r = Round THEN 2 ELSE pc[r]]
  BY DEF RoundStep
<1>2. /\ Root \in Ranks(case) /\ Size(case) \in Nat \ {0} /\ pc[Root] = Round + 1
      /\ Round \in Nat /\ case \in Cases
  BY CodeFacts
<1>3. Root' = Root
  BY <1>1 DEF Root
<1>4. Round' = Round + 1
  <2>1. pc'[Root] = Round + 1 + 1
    BY <1>1, <1>2
  <2>2. Round' = pc'[Root] - 1
    BY <1>3 DEF Round
  <2>3. Round + 1 + 1 - 1 = Round + 1
    BY <1>2
  <2> QED BY <1>2, <2>1, <2>2, <2>3
<1>5. Round \in Ranks(case) /\ \A r \in Ranks(case) : r < Round + 1 <=> r < Round \/ r = Round
  BY <1>1, <1>2 DEF Ranks
<1>6. Round' \in 0 .. Size(case)
  BY <1>1, <1>2, <1>4
<1>7. ASSUME NEW r \in Ranks(case) \ {Root} PROVE pc'[r] = IF r < Round' THEN 2 ELSE 1
  <2>1. pc'[r] = IF r = Round THEN 2 ELSE pc[r]
    BY <1>1
  <2>2. pc[r] = IF r < Round THEN 2 ELSE 1
    BY DEF InOrder
  <2> QED BY <1>4, <1>5, <2>1, <2>2
<1>8. InOrder'
  BY <1>1, <1>3, <1>6, <1>7 DEF InOrder
<1> QED BY <1>2, <1>3, <1>4, <1>5, <1>8

(* Round i moves the data of rank i and leaves what the others need. *)
LEMMA ScatterRounds ==
  ASSUME LoopsOnly, TypeOK, InOrder, ScatterInv, RoundStep, case.kind = "scatter"
  PROVE  ScatterInv'
<1>1. case' = case /\ case \in Cases
  BY DEF RoundStep, TypeOK
<1>2. /\ Root' = Root /\ Round' = Round + 1 /\ Round \in Ranks(case)
      /\ \A r \in Ranks(case) : r < Round + 1 <=> r < Round \/ r = Round
  BY NextRound
<1>3. /\ Root \in Ranks(case) /\ Ranks(case) \subseteq Nat
      /\ Result(case) \in Buffers /\ "send" \in Buffers
      /\ \A i \in Ranks(case) : i \in 0 .. Length(case, Root, "send") - 1
      /\ \A r \in Ranks(case) : 0 \in 0 .. Length(case, r, Result(case)) - 1
  BY <1>1, ChunkFacts DEF Buffers
<1>4. CASE OwnInPlace
  <2>1. mem' = mem
    BY <1>4 DEF RoundStep, RoundMoves
  <2>2. Round = Root /\ Root = 0 /\ Result(case) = "send"
    BY <1>1, <1>4, ChunkFacts DEF OwnInPlace, Result
  <2>3. mem[Round][Result(case)][0] = Only(Round)
    BY <1>3, <2>2 DEF ScatterInv
  <2> QED BY <1>1, <1>2, <2>1, <2>3 DEF ScatterInv
<1>5. CASE ~OwnInPlace
  <2>1. Changes(Round, Result(case), 0, mem[Root]["send"][Round])
    BY <1>5 DEF RoundStep, RoundMoves
  <2>2. Round # Root \/ Result(case) # "send"
    BY <1>5 DEF OwnInPlace, Result
  <2>3. \A i \in Ranks(case) : mem'[Root]["send"][i] = Only(i)
    <3> TAKE i \in Ranks(case)
    <3>1. mem'[Root]["send"][i] = mem[Root]["send"][i]
      BY <1>3, <2>1, <2>2 DEF Changes
    <3> QED BY <3>1 DEF ScatterInv
  <2>4. mem'[Round][Result(case)][0] = Only(Round)
    <3>1. mem'[Round][Result(case)][0] = mem[Root]["send"][Round]
      BY <1>2, <1>3, <2>1 DEF Changes
    <3> QED BY <1>2, <3>1 DEF ScatterInv
  <2>5. ASSUME NEW r \in Ranks(case), r < Round PROVE mem'[r][Result(case)][0] = Only(r)
    <3>1. r # Round
      BY <1>2, <1>3, <2>5
    <3>2. mem'[r][Result(case)][0] = mem[r][Result(case)][0]
      BY <1>3, <2>1, <3>1 DEF Changes
    <3> QED BY <2>5, <3>2 DEF ScatterInv
  <2> QED BY <1>1, <1>2, <2>3, <2>4, <2>5 DEF ScatterInv
<1> QED BY <1>4, <1>5

LEMMA GatherRounds ==
  ASSUME LoopsOnly, TypeOK, InOrder, GatherInv, RoundStep, case.kind = "gather"
  PROVE  GatherInv'
<1>1. case' = case /\ case \in Cases
  BY DEF RoundStep, TypeOK
<1>2. /\ Root' = Root /\ Round' = Round + 1 /\ Round \in Ranks(case)
      /\ \A r \in Ranks(case) : r < Round + 1 <=> r < Round \/ r = Round
  BY NextRound
<1>3. /\ Root \in Ranks(case) /\ Ranks(case) \subseteq Nat
      /\ Result(case) \in Buffers /\ "send" \in Buffers
      /\ \A i \in Ranks(case) : i \in 0 .. Length(case, Root, Result(case)) - 1
      /\ \A r \in Ranks(case) : 0 \in 0 .. Length(case, r, "send") - 1
  BY <1>1, ChunkFacts DEF Buffers
<1>4. CASE OwnInPlace
  <2>1. mem' = mem
    BY <1>4 DEF RoundStep, RoundMoves
  <2>2. Round = Root /\ Root = 0 /\ Result(case) = "send"
    BY <1>1, <1>4, ChunkFacts DEF OwnInPlace, Result
  <2>3. mem[Root][Result(case)][Round] = Only(Round)
    BY <1>3, <2>2 DEF GatherInv
  <2> QED BY <1>1, <1>2, <2>1, <2>3 DEF GatherInv
<1>5. CASE ~OwnInPlace
  <2>1. Changes(Root, Result(case), Round, mem[Round]["send"][0])
    BY <1>5 DEF RoundStep, RoundMoves
  <2>2. Result(case) = "send" => Root = 0 /\ Round # 0
    <3>1. Result(case) = "send" => case.inPlace
      BY DEF Result
    <3> QED BY <1>1, <1>5, <3>1, ChunkFacts DEF OwnInPlace
  <2>3. \A r \in Ranks(case) : mem'[r]["send"][0] = Only(r)
    <3> TAKE r \in Ranks(case)
    <3>1. mem'[r]["send"][0] = mem[r]["send"][0]
      BY <1>3, <2>1, <2>2 DEF Changes
    <3> QED BY <3>1 DEF GatherInv
  <2>4. mem'[Root][Result(case)][Round] = Only(Round)
    <3>1. mem'[Root][Result(case)][Round] = mem[Round]["send"][0]
      BY <1>2, <1>3, <2>1 DEF Changes
    <3> QED BY <1>2, <3>1 DEF GatherInv
  <2>5. ASSUME NEW i \in Ranks(case), i < Round PROVE mem'[Root][Result(case)][i] = Only(i)
    <3>1. i # Round
      BY <1>2, <1>3, <2>5
    <3>2. mem'[Root][Result(case)][i] = mem[Root][Result(case)][i]
      BY <1>3, <2>1, <3>1 DEF Changes
    <3> QED BY <2>5, <3>2 DEF GatherInv
  <2> QED BY <1>1, <1>2, <2>3, <2>4, <2>5 DEF GatherInv
<1> QED BY <1>4, <1>5

LEMMA BcastRounds ==
  ASSUME LoopsOnly, TypeOK, InOrder, BcastInv, RoundStep, case.kind = "bcast"
  PROVE  BcastInv'
<1>1. case' = case /\ case \in Cases
  BY DEF RoundStep, TypeOK
<1>2. /\ Root' = Root /\ Round' = Round + 1 /\ Round \in Ranks(case)
      /\ \A r \in Ranks(case) : r < Round + 1 <=> r < Round \/ r = Round
  BY NextRound
<1>3. /\ Root \in Ranks(case) /\ Ranks(case) \subseteq Nat /\ "buf" \in Buffers
      /\ \A r \in Ranks(case) : 0 \in 0 .. Length(case, r, "buf") - 1
  BY <1>1, ChunkFacts DEF Buffers
<1>4. CASE Round = Root
  <2>1. mem' = mem
    BY <1>4 DEF RoundStep, RoundMoves
  <2> QED BY <1>1, <1>2, <1>4, <2>1 DEF BcastInv
<1>5. CASE Round # Root
  <2>1. Changes(Round, "buf", 0, mem[Root]["buf"][0])
    BY <1>5 DEF RoundStep, RoundMoves
  <2>2. mem'[Root]["buf"][0] = Only(Root)
    BY <1>3, <1>5, <2>1 DEF Changes, BcastInv
  <2>3. mem'[Round]["buf"][0] = Only(Root)
    BY <1>2, <1>3, <2>1 DEF Changes, BcastInv
  <2>4. ASSUME NEW r \in Ranks(case), r < Round PROVE mem'[r]["buf"][0] = Only(Root)
    <3>1. r # Round
      BY <1>2, <1>3, <2>4
    <3>2. mem'[r]["buf"][0] = mem[r]["buf"][0]
      BY <1>3, <2>1, <3>1 DEF Changes
    <3> QED BY <2>4, <3>2 DEF BcastInv
  <2> QED BY <1>1, <1>2, <2>2, <2>3, <2>4 DEF BcastInv
<1> QED BY <1>4, <1>5

(* The sum of the first ranks grows by one contribution. *)
LEMMA PartialFacts ==
  /\ Only(0) = Partial(1)
  /\ \A m \in Nat \ {0} : Plus(Partial(m), Only(m)) = Partial(m + 1)
<1>1. \A x \in Atom : x \in Int
  BY CollectivesAssumption DEF Atom, Stale
<1>2. Only(0) = Partial(1)
  <2>1. \A x \in Atom : x = 0 <=> x \in 0 .. 1 - 1
    BY <1>1
  <2> QED BY <2>1 DEF Only, Partial
<1>3. ASSUME NEW m \in Nat \ {0} PROVE Plus(Partial(m), Only(m)) = Partial(m + 1)
  <2>1. ASSUME NEW x \in Atom
        PROVE  (IF x \in 0 .. m - 1 THEN 1 ELSE 0) + (IF x = m THEN 1 ELSE 0)
               = IF x \in 0 .. m + 1 - 1 THEN 1 ELSE 0
    BY <1>1
  <2>2. Plus(Partial(m), Only(m)) =
          [x \in Atom |-> (IF x \in 0 .. m - 1 THEN 1 ELSE 0) + (IF x = m THEN 1 ELSE 0)]
    BY DEF Plus, Partial, Only
  <2> QED BY <2>1, <2>2 DEF Partial
<1> QED BY <1>2, <1>3

LEMMA ReduceRounds ==
  ASSUME LoopsOnly, TypeOK, InOrder, ReduceInv, RoundStep, case.kind = "reduce"
  PROVE  ReduceInv'
<1>1. case' = case /\ case \in Cases
  BY DEF RoundStep, TypeOK
<1>2. Root' = Root /\ Round' = Round + 1 /\ Round \in Ranks(case) /\ Round \in Nat
  BY NextRound
<1>3. /\ Root \in Ranks(case) /\ Root = 0 /\ "send" \in Buffers /\ "recv" \in Buffers
      /\ \A r \in Ranks(case), b \in Buffers : 0 \in 0 .. Length(case, r, b) - 1
  BY <1>1, ChunkFacts DEF Buffers
<1> DEFINE v == IF Round = Root THEN mem[Root]["send"][0]
                ELSE Plus(mem[Root]["recv"][0], mem[Round]["send"][0])
<1>4. Changes(Root, "recv", 0, v)
  BY DEF RoundStep, RoundMoves
<1>5. v = Partial(Round + 1)
  <2>1. CASE Round = 0
    BY <1>3, <2>1, PartialFacts DEF ReduceInv
  <2>2. CASE Round # 0
    <3>1. mem[Root]["recv"][0] = Partial(Round) /\ mem[Round]["send"][0] = Only(Round)
      BY <1>2, <2>2 DEF ReduceInv
    <3> QED BY <1>2, <1>3, <2>2, <3>1, PartialFacts
  <2> QED BY <2>1, <2>2
<1> HIDE DEF v
<1>6. mem'[Root]["recv"][0] = v
  BY <1>3, <1>4 DEF Changes
<1>7. \A r \in Ranks(case) : mem'[r]["send"][0] = Only(r)
  <2> TAKE r \in Ranks(case)
  <2>1. mem'[r]["send"][0] = mem[r]["send"][0]
    BY <1>3, <1>4 DEF Changes
  <2> QED BY <2>1 DEF ReduceInv
<1> QED BY <1>1, <1>2, <1>5, <1>6, <1>7 DEF ReduceInv

LEMMA LoopsInductive ==
  ASSUME LoopsOnly
  PROVE  Spec => []LoopInv
<1>1. RootsOnCpu
  BY DEF LoopsOnly, Loops, RootsOnCpu
<1>2. Init => LoopInv
  BY InitType, InitLoops DEF LoopInv
<1>3. LoopInv /\ [Next]_vars => LoopInv'
  <2> SUFFICES ASSUME LoopInv, [Next]_vars PROVE LoopInv'
    OBVIOUS
  <2>1. TypeOK /\ InOrder /\ DataInv
    BY DEF LoopInv
  <2>2. TypeOK'
    BY <1>1, <2>1, NextType
  <2>3. CASE RoundStep
    <3>1. InOrder' /\ case' = case
      BY <2>1, <2>3, NextRound DEF RoundStep
    <3>2. DataInv'
      BY <2>1, <2>3, <3>1, ScatterRounds, GatherRounds, BcastRounds, ReduceRounds DEF DataInv
    <3> QED BY <2>2, <3>1, <3>2 DEF LoopInv
  <2>4. CASE UNCHANGED vars
    <3>1. case' = case /\ pc' = pc /\ mem' = mem
      BY <2>4 DEF vars
    <3>2. InOrder'
      BY <2>1, <3>1 DEF InOrder, Round, Root
    <3>3. DataInv'
      BY <2>1, <3>1 DEF DataInv, ScatterInv, GatherInv, BcastInv, ReduceInv, Round, Root
    <3> QED BY <2>2, <3>2, <3>3 DEF LoopInv
  <2> QED BY <2>1, <2>3, <2>4, NextIsRound
<1> QED BY <1>2, <1>3, PTL DEF Spec

LEMMA LoopInvImpliesResult ==
  ASSUME LoopsOnly, LoopInv
  PROVE  RightResult
<1>1. TypeOK /\ InOrder /\ DataInv
  BY DEF LoopInv
<1>2. case \in Cases /\ Round \in Nat /\ Size(case) \in Nat
  BY <1>1, CodeFacts
<1>3. /\ case.kind \in Kinds
      /\ Root \in Ranks(case)
      /\ case.kind = "reduce" => Root = 0
  BY <1>2, ChunkFacts
<1>4. ASSUME NEW r \in Ranks(case), Done(r) PROVE Expected(case, r)
  <2>1. r < Round
    <3>1. CASE r = Root
      <4>1. Round = Size(case)
        BY <1>1, <1>4, <3>1, CodeFacts
      <4> QED BY <1>2, <4>1 DEF Ranks
    <3>2. CASE r # Root
      BY <1>1, <1>4, <3>2, CodeFacts
    <3> QED BY <3>1, <3>2
  <2>2. r = Root => Round = Size(case) /\ Round > 0
    <3>1. r = Root => Round = Size(case)
      BY <1>1, <1>4, CodeFacts
    <3> QED BY <1>1, <3>1, CodeFacts
  <2>3. r = Root => \A i \in Ranks(case) : i < Round
    BY <1>2, <2>2 DEF Ranks
  <2>4. CASE case.kind = "scatter"
    BY <1>1, <2>1, <2>4 DEF DataInv, ScatterInv, Expected
  <2>5. CASE case.kind = "gather"
    BY <1>1, <2>3, <2>5 DEF DataInv, GatherInv, Expected, Root
  <2>6. CASE case.kind = "bcast"
    BY <1>1, <2>1, <2>6 DEF DataInv, BcastInv, Expected, Root
  <2>7. CASE case.kind = "reduce"
    <3>1. r = Root => mem[r]["recv"][0] = Partial(Size(case))
      BY <1>1, <2>2, <2>7 DEF DataInv, ReduceInv
    <3>2. Partial(Size(case)) = Total(case)
      BY DEF Partial, Total, Ranks
    <3> QED BY <2>7, <3>1, <3>2 DEF Expected, Root
  <2> QED BY <1>3, <2>4, <2>5, <2>6, <2>7 DEF Kinds
<1> QED BY <1>4 DEF RightResult

-----------------------------------------------------------------------------
(* When a collective call that the transpiler turned into a loop returns   *)
(* at a rank, the rank has the right chunk in the right place, and a sum   *)
(* has every contribution exactly once: for every number of ranks, every   *)
(* distribution of them, and every root but those Loops excludes.          *)
THEOREM LoopsAreRight ==
  ASSUME LoopsOnly
  PROVE  Spec => []RightResult
BY LoopsInductive, LoopInvImpliesResult, PTL

=============================================================================
