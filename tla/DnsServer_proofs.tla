--------------------------- MODULE DnsServer_proofs ---------------------------
(***************************************************************************)
(* Theorems about DnsServer, for packets of every length and content:      *)
(* wherever the lengths and the compression pointers of a packet lead, the *)
(* decoder stays inside of it, and what it reads is the name the format    *)
(* gives the packet, so that a query is refused exactly when that name is  *)
(* blocked.                                                                *)
(***************************************************************************)
EXTENDS DnsServer, SequenceTheorems, WellFoundedInduction, TLAPS

LEMMA SizesInt ==
  HeaderSize \in Int /\ HeaderSize > 0 /\ TrailerSize \in Nat /\ MaxDepth \in Nat
BY SizesAssumption

LEMMA PacketOctets ==
  ASSUME NEW p \in Packets
  PROVE  /\ p \in Seq(0..255) /\ Len(p) \in Nat
         /\ \A i \in 1..Len(p) : p[i] \in 0..255
<1>1. p \in Seq(0..255)
  BY PacketsAssumption
<1>2. Len(p) \in Nat /\ \A i \in 1..Len(p) : p[i] \in 0..255
  BY <1>1, LenProperties, ElementOfSeq
<1>. QED BY <1>1, <1>2

LEMMA LeastNat ==
  ASSUME NEW T \in SUBSET Nat, T # {}
  PROVE  \E n \in T : \A m \in T : n <= m
<1>1. PICK n \in T : \A m \in T : ~(<<m, n>> \in OpToRel(<, Nat))
  BY NatLessThanWellFounded, WFMin
<1>2. \A m \in T : ~(m < n)
  BY <1>1 DEF OpToRel
<1>. QED BY <1>2

-----------------------------------------------------------------------------
(* The format of names *)
Places(p) == (0..Len(p)) \X (0..MaxDepth)
Found == [text : Seq(0..255), end : Int]
Rank(p, o, d) == (MaxDepth - d) * (Len(p) + 1) + (Len(p) - o)
RankOf(p, x) == Rank(p, x[1], x[2])

LEMMA Apart ==
  ASSUME NEW p \in Packets, NEW o \in 0..Len(p)
  PROVE  ~(IsEnd(p, o) /\ IsLabel(p, o)) /\ ~(IsEnd(p, o) /\ IsPointer(p, o))
         /\ ~(IsLabel(p, o) /\ IsPointer(p, o))
<1>. o \in Nat /\ Len(p) \in Nat
  BY PacketOctets
<1>1. CASE o < Len(p)
  <2>1. p[o + 1] \in 0..255
    BY <1>1, PacketOctets
  <2>2. \A n \in 0..255 : ~(n = 0 /\ n \in 1..63) /\ ~(n = 0 /\ n >= 192) /\ ~(n \in 1..63 /\ n >= 192)
    OBVIOUS
  <2>3. ~(p[o + 1] = 0 /\ p[o + 1] \in 1..63) /\ ~(p[o + 1] = 0 /\ p[o + 1] >= 192)
        /\ ~(p[o + 1] \in 1..63 /\ p[o + 1] >= 192)
    BY <2>1, <2>2
  <2>. QED BY <2>3 DEF IsEnd, IsLabel, IsPointer
<1>2. CASE ~(o < Len(p))
  <2>1. ~(o + 1 < Len(p))
    BY <1>2, PacketOctets
  <2>. QED BY <1>2, <2>1 DEF IsEnd, IsLabel, IsPointer
<1>. QED BY <1>1, <1>2

LEMMA AtEnd ==
  ASSUME NEW names, NEW p \in Packets, NEW o \in 0..Len(p), NEW d, IsEnd(p, o)
  PROVE  NamesAt(names, p, o, d) = {[text |-> <<>>, end |-> o + 1]}
BY Apart DEF NamesAt

LEMMA AtLabel ==
  ASSUME NEW names, NEW p \in Packets, NEW o \in 0..Len(p), NEW d, IsLabel(p, o)
  PROVE  NamesAt(names, p, o, d) =
           {[text |-> Before(Label(p, o), name.text), end |-> name.end] :
              name \in names[<<o + 1 + p[o + 1], d>>]}
BY Apart DEF NamesAt

LEMMA AtPointer ==
  ASSUME NEW names, NEW p \in Packets, NEW o \in 0..Len(p), NEW d, IsPointer(p, o), d < MaxDepth
  PROVE  NamesAt(names, p, o, d) =
           {[text |-> name.text, end |-> o + 2] : name \in names[<<Target(p, o), d + 1>>]}
BY Apart DEF NamesAt

LEMMA AtNothing ==
  ASSUME NEW names, NEW p, NEW o, NEW d,
         ~IsEnd(p, o), ~IsLabel(p, o), ~(IsPointer(p, o) /\ d < MaxDepth)
  PROVE  NamesAt(names, p, o, d) = {}
BY DEF NamesAt

LEMMA Products ==
  /\ \A a, k \in Nat : a * k \in Nat
  /\ \A a, k \in Nat : (a + 1) * k = a * k + k
  /\ \A a, b, k \in Nat : a <= b => a * k <= b * k
<1>1. \A a, k \in Nat : a * k \in Nat
  OBVIOUS
<1>2. \A a, k \in Nat : (a + 1) * k = a * k + k
  OBVIOUS
<1>3. \A a, b, k \in Nat : a <= b => a * k <= b * k
  OBVIOUS
<1>. QED BY <1>1, <1>2, <1>3

LEMMA RankBounds ==
  ASSUME NEW p \in Packets, NEW o \in 0..Len(p), NEW d \in 0..MaxDepth
  PROVE  Rank(p, o, d) \in Nat /\ Rank(p, o, d) <= Rank(p, 0, 0)
<1>1. Len(p) \in Nat /\ MaxDepth \in Nat
  BY PacketOctets, SizesInt
<1>. DEFINE a == MaxDepth - d
            k == Len(p) + 1
<1>2. a \in Nat /\ k \in Nat /\ a <= MaxDepth
  BY <1>1
<1>. HIDE DEF a, k
<1>3. a * k \in Nat /\ MaxDepth * k \in Nat /\ a * k <= MaxDepth * k
  BY <1>1, <1>2, Products
<1>. DEFINE u == a * k
            v == MaxDepth * k
<1>4. Rank(p, o, d) = u + (Len(p) - o)
  BY DEF Rank, a, k
<1>5. Rank(p, 0, 0) = v + (Len(p) - 0)
  <2>1. MaxDepth - 0 = MaxDepth
    BY <1>1
  <2>. QED BY <2>1 DEF Rank, k
<1>6. u \in Nat /\ v \in Nat /\ u <= v
  BY <1>3
<1>. HIDE DEF u, v
<1>. QED BY <1>1, <1>4, <1>5, <1>6

LEMMA LabelLeads ==
  ASSUME NEW p \in Packets, NEW o \in 0..Len(p), NEW d \in 0..MaxDepth, IsLabel(p, o)
  PROVE  /\ o + 1 + p[o + 1] \in 0..Len(p)
         /\ Rank(p, o + 1 + p[o + 1], d) < Rank(p, o, d)
<1>1. Len(p) \in Nat /\ MaxDepth \in Nat
  BY PacketOctets, SizesInt
<1>2. p[o + 1] \in 1..63 /\ o + p[o + 1] < Len(p)
  BY DEF IsLabel
<1>. DEFINE n == p[o + 1]
            u == (MaxDepth - d) * (Len(p) + 1)
<1>3. n \in Int /\ n >= 1 /\ o + n < Len(p)
  <2>1. \A m \in 1..63 : m \in Int /\ m >= 1
    OBVIOUS
  <2>. QED BY <1>2, <2>1
<1>4. u \in Int
  BY <1>1, RankBounds, Products
<1>5. Rank(p, o + 1 + n, d) = u + (Len(p) - (o + 1 + n)) /\ Rank(p, o, d) = u + (Len(p) - o)
  BY DEF Rank
<1>. HIDE DEF n, u
<1>6. o + 1 + n \in 0..Len(p) /\ Rank(p, o + 1 + n, d) < Rank(p, o, d)
  BY <1>1, <1>3, <1>4, <1>5
<1>. QED BY <1>6 DEF n

LEMMA PointerLeads ==
  ASSUME NEW p \in Packets, NEW o \in 0..Len(p), NEW d \in 0..MaxDepth,
         IsPointer(p, o), d < MaxDepth
  PROVE  /\ Target(p, o) \in 0..Len(p) /\ d + 1 \in 0..MaxDepth
         /\ Rank(p, Target(p, o), d + 1) < Rank(p, o, d)
<1>1. Len(p) \in Nat /\ MaxDepth \in Nat
  BY PacketOctets, SizesInt
<1>2. Target(p, o) \in Nat /\ Target(p, o) < Len(p)
  <2>1. o + 1 \in 1..Len(p) /\ o + 2 \in 1..Len(p)
    BY <1>1 DEF IsPointer
  <2>2. p[o + 1] \in 0..255 /\ p[o + 2] \in 0..255
    BY <2>1, PacketOctets
  <2>3. \A m \in 0..255, k \in 0..255 : m >= 192 => 256 * (m - 192) + k \in Nat
    OBVIOUS
  <2>4. p[o + 1] >= 192 /\ Target(p, o) < Len(p)
    BY DEF IsPointer
  <2>5. 256 * (p[o + 1] - 192) + p[o + 2] \in Nat
    BY <2>2, <2>3, <2>4
  <2>. QED BY <2>4, <2>5 DEF Target
<1>3. d + 1 \in 0..MaxDepth
  BY <1>1
<1>. DEFINE a == MaxDepth - (d + 1)
            k == Len(p) + 1
            t == Target(p, o)
            u == a * k
<1>4. a \in Nat /\ k \in Nat /\ MaxDepth - d = a + 1
  BY <1>1, <1>3
<1>. HIDE DEF a, k
<1>5. u \in Nat /\ (a + 1) * k = u + k
  BY <1>4, Products
<1>6. Rank(p, t, d + 1) = u + (Len(p) - t) /\ Rank(p, o, d) = (u + k) + (Len(p) - o)
  <2>1. Rank(p, t, d + 1) = u + (Len(p) - t)
    BY DEF Rank, a, k
  <2>2. Rank(p, o, d) = (MaxDepth - d) * k + (Len(p) - o)
    BY DEF Rank, k
  <2>3. (MaxDepth - d) * k = u + k
    BY <1>4, <1>5
  <2>. QED BY <2>1, <2>2, <2>3
<1>7. k = Len(p) + 1
  BY DEF k
<1>. HIDE DEF u, t
<1>8. t \in Nat /\ t < Len(p)
  BY <1>2 DEF t
<1>9. Rank(p, t, d + 1) < Rank(p, o, d)
  BY <1>1, <1>5, <1>6, <1>7, <1>8
<1>. QED BY <1>2, <1>3, <1>9, <1>1 DEF t

LEMMA TextsJoin ==
  ASSUME NEW label \in Seq(0..255), NEW text \in Seq(0..255)
  PROVE  Before(label, text) \in Seq(0..255) /\ <<Dot>> \o text \in Seq(0..255)
<1>1. <<Dot>> \in Seq(0..255)
  BY DEF Dot
<1>2. <<Dot>> \o text \in Seq(0..255)
  BY <1>1, ConcatProperties
<1>3. label \o (<<Dot>> \o text) \in Seq(0..255)
  BY <1>2, ConcatProperties
<1>4. label \o <<Dot>> \o text = label \o (<<Dot>> \o text)
  BY <1>1, ConcatAssociative
<1>. QED BY <1>2, <1>3, <1>4 DEF Before

LEMMA LabelOctets ==
  ASSUME NEW p \in Packets, NEW o \in 0..Len(p), IsLabel(p, o)
  PROVE  Label(p, o) \in Seq(0..255) /\ Label(p, o) # <<>>
<1>1. Len(p) \in Nat /\ p \in Seq(0..255)
  BY PacketOctets
<1>. DEFINE n == p[o + 1]
<1>2. n \in Int /\ n >= 1 /\ o + n < Len(p)
  <2>1. \A m \in 1..63 : m \in Int /\ m >= 1
    OBVIOUS
  <2>. QED BY <2>1 DEF IsLabel
<1>. HIDE DEF n
<1>3. /\ o + 2 \in Int /\ o + 1 + n \in Int /\ o + 2 <= o + 1 + n
      /\ \A i \in (o + 2)..(o + 1 + n) : i \in 1..Len(p)
  BY <1>1, <1>2
<1>4. \A i \in (o + 2)..(o + 1 + n) : p[i] \in 0..255
  BY <1>3, PacketOctets
<1>5. SubSeq(p, o + 2, o + 1 + n) \in Seq(0..255) /\ Len(SubSeq(p, o + 2, o + 1 + n)) # 0
  BY <1>2, <1>3, <1>4, SubSeqProperties
<1>. QED BY <1>5, EmptySeq DEF Label, n

\* What stands at an offset depends on nothing of a rank as high.
LEMMA NamesAtLocal ==
  ASSUME NEW p \in Packets, NEW o \in 0..Len(p), NEW d \in 0..MaxDepth, NEW f, NEW g,
         \A x \in Places(p) : RankOf(p, x) < Rank(p, o, d) => f[x] = g[x]
  PROVE  NamesAt(f, p, o, d) = NamesAt(g, p, o, d)
<1>1. ASSUME NEW a \in 0..Len(p), NEW b \in 0..MaxDepth, Rank(p, a, b) < Rank(p, o, d)
      PROVE  f[<<a, b>>] = g[<<a, b>>]
  BY <1>1 DEF Places, RankOf
<1>2. CASE IsEnd(p, o)
  <2>1. NamesAt(f, p, o, d) = {[text |-> <<>>, end |-> o + 1]}
    BY <1>2, AtEnd
  <2>2. NamesAt(g, p, o, d) = {[text |-> <<>>, end |-> o + 1]}
    BY <1>2, AtEnd
  <2>. QED BY <2>1, <2>2
<1>3. CASE IsLabel(p, o)
  <2>1. f[<<o + 1 + p[o + 1], d>>] = g[<<o + 1 + p[o + 1], d>>]
    BY <1>1, <1>3, LabelLeads
  <2>2. NamesAt(f, p, o, d) = {[text |-> Before(Label(p, o), name.text), end |-> name.end] :
                                name \in f[<<o + 1 + p[o + 1], d>>]}
    BY <1>3, AtLabel
  <2>3. NamesAt(g, p, o, d) = {[text |-> Before(Label(p, o), name.text), end |-> name.end] :
                                name \in g[<<o + 1 + p[o + 1], d>>]}
    BY <1>3, AtLabel
  <2>. QED BY <2>1, <2>2, <2>3
<1>4. CASE IsPointer(p, o) /\ d < MaxDepth
  <2>1. f[<<Target(p, o), d + 1>>] = g[<<Target(p, o), d + 1>>]
    BY <1>1, <1>4, PointerLeads
  <2>2. NamesAt(f, p, o, d) = {[text |-> name.text, end |-> o + 2] : name \in f[<<Target(p, o), d + 1>>]}
    BY <1>4, AtPointer
  <2>3. NamesAt(g, p, o, d) = {[text |-> name.text, end |-> o + 2] : name \in g[<<Target(p, o), d + 1>>]}
    BY <1>4, AtPointer
  <2>. QED BY <2>1, <2>2, <2>3
<1>. QED BY <1>2, <1>3, <1>4, AtNothing

LEMMA NamesAtType ==
  ASSUME NEW p \in Packets, NEW o \in 0..Len(p), NEW d \in 0..MaxDepth,
         NEW f \in [Places(p) -> SUBSET Found]
  PROVE  NamesAt(f, p, o, d) \in SUBSET Found
<1>1. ASSUME NEW a \in 0..Len(p), NEW b \in 0..MaxDepth, NEW name \in f[<<a, b>>]
      PROVE  name.text \in Seq(0..255) /\ name.end \in Int
  <2>1. f[<<a, b>>] \in SUBSET Found
    BY DEF Places
  <2>. QED BY <1>1, <2>1 DEF Found
<1>2. CASE IsEnd(p, o)
  <2>1. <<>> \in Seq(0..255) /\ o + 1 \in Int
    BY EmptySeq, PacketOctets
  <2>2. NamesAt(f, p, o, d) = {[text |-> <<>>, end |-> o + 1]}
    BY <1>2, AtEnd
  <2>3. [text |-> <<>>, end |-> o + 1] \in Found
    BY <2>1 DEF Found
  <2>. QED BY <2>2, <2>3
<1>3. CASE IsLabel(p, o)
  <2>1. ASSUME NEW name \in f[<<o + 1 + p[o + 1], d>>]
        PROVE  [text |-> Before(Label(p, o), name.text), end |-> name.end] \in Found
    <3>1. name.text \in Seq(0..255) /\ name.end \in Int
      BY <1>1, <1>3, LabelLeads
    <3>2. Before(Label(p, o), name.text) \in Seq(0..255)
      BY <1>3, <3>1, TextsJoin, LabelOctets
    <3>. QED BY <3>1, <3>2 DEF Found
  <2>. QED BY <1>3, <2>1, AtLabel
<1>4. CASE IsPointer(p, o) /\ d < MaxDepth
  <2>1. ASSUME NEW name \in f[<<Target(p, o), d + 1>>]
        PROVE  [text |-> name.text, end |-> o + 2] \in Found
    <3>1. name.text \in Seq(0..255)
      BY <1>1, <1>4, PointerLeads
    <3>. QED BY <3>1 DEF Found
  <2>. QED BY <1>4, <2>1, AtPointer
<1>. QED BY <1>2, <1>3, <1>4, AtNothing

\* A function that has the names it should at the places of a rank below n.
Solves(p, f, n) ==
  \A x \in Places(p) : RankOf(p, x) < n => f[x] = NamesAt(f, p, x[1], x[2])

LEMMA SolutionGrows ==
  ASSUME NEW p \in Packets, NEW n \in Nat,
         NEW f \in [Places(p) -> SUBSET Found], Solves(p, f, n)
  PROVE  \E g \in [Places(p) -> SUBSET Found] : Solves(p, g, n + 1)
<1>. DEFINE g == [x \in Places(p) |-> IF RankOf(p, x) < n THEN f[x] ELSE NamesAt(f, p, x[1], x[2])]
<1>1. ASSUME NEW x \in Places(p)
      PROVE  /\ x[1] \in 0..Len(p) /\ x[2] \in 0..MaxDepth /\ x = <<x[1], x[2]>>
             /\ RankOf(p, x) = Rank(p, x[1], x[2]) /\ RankOf(p, x) \in Nat
  <2>1. x[1] \in 0..Len(p) /\ x[2] \in 0..MaxDepth /\ x = <<x[1], x[2]>>
    BY DEF Places
  <2>. QED BY <2>1, RankBounds DEF RankOf
<1>2. g \in [Places(p) -> SUBSET Found]
  <2>1. ASSUME NEW x \in Places(p) PROVE NamesAt(f, p, x[1], x[2]) \in SUBSET Found
    BY <1>1, NamesAtType
  <2>. QED BY <2>1
<1>3. \A x \in Places(p) : RankOf(p, x) < n => g[x] = f[x]
  OBVIOUS
<1>4. \A x \in Places(p) : g[x] = NamesAt(f, p, x[1], x[2])
  BY DEF Solves
<1>. HIDE DEF g
<1>5. ASSUME NEW x \in Places(p), RankOf(p, x) < n + 1
      PROVE  g[x] = NamesAt(g, p, x[1], x[2])
  <2>1. \A y \in Places(p) : RankOf(p, y) < Rank(p, x[1], x[2]) => f[y] = g[y]
    <3>1. ASSUME NEW y \in Places(p), RankOf(p, y) < Rank(p, x[1], x[2]) PROVE RankOf(p, y) < n
      BY <1>1, <1>5, <3>1
    <3>. QED BY <1>3, <3>1
  <2>2. NamesAt(f, p, x[1], x[2]) = NamesAt(g, p, x[1], x[2])
    <3>. DEFINE o == x[1]
                d == x[2]
    <3>1. o \in 0..Len(p) /\ d \in 0..MaxDepth
      BY <1>1
    <3>2. \A y \in Places(p) : RankOf(p, y) < Rank(p, o, d) => f[y] = g[y]
      BY <2>1
    <3>. HIDE DEF o, d
    <3>3. NamesAt(f, p, o, d) = NamesAt(g, p, o, d)
      BY <3>1, <3>2, NamesAtLocal
    <3>. QED BY <3>3 DEF o, d
  <2>. QED BY <1>4, <2>2
<1>6. Solves(p, g, n + 1)
  BY <1>5 DEF Solves
<1>. QED BY <1>2, <1>6

LEMMA SolutionsExist ==
  ASSUME NEW p \in Packets, NEW n \in Nat
  PROVE  \E f \in [Places(p) -> SUBSET Found] : Solves(p, f, n)
<1>. DEFINE T == {m \in Nat : ~\E f \in [Places(p) -> SUBSET Found] : Solves(p, f, m)}
<1>1. ASSUME T # {} PROVE FALSE
  <2>1. PICK m \in T : \A k \in T : m <= k
    <3>1. T \in SUBSET Nat
      OBVIOUS
    <3>. HIDE DEF T
    <3>. QED BY <1>1, <3>1, LeastNat
  <2>2. CASE m = 0
    <3>. DEFINE f == [x \in Places(p) |-> {}]
    <3>1. f \in [Places(p) -> SUBSET Found]
      OBVIOUS
    <3>2. ASSUME NEW x \in Places(p) PROVE ~(RankOf(p, x) < 0)
      <4>1. x[1] \in 0..Len(p) /\ x[2] \in 0..MaxDepth
        BY DEF Places
      <4>2. RankOf(p, x) \in Nat
        BY <4>1, RankBounds DEF RankOf
      <4>. QED BY <4>2
    <3>3. Solves(p, f, 0)
      BY <3>2 DEF Solves
    <3>. QED BY <2>1, <2>2, <3>1, <3>3
  <2>3. CASE m # 0
    <3>1. m \in Nat /\ m - 1 \in Nat /\ (m - 1) + 1 = m /\ ~(m <= m - 1)
      BY <2>1, <2>3
    <3>2. m - 1 \notin T
      BY <2>1, <3>1
    <3>3. PICK f \in [Places(p) -> SUBSET Found] : Solves(p, f, m - 1)
      BY <3>1, <3>2
    <3>4. \E g \in [Places(p) -> SUBSET Found] : Solves(p, g, m)
      BY <3>1, <3>3, SolutionGrows
    <3>. QED BY <2>1, <3>4
  <2>. QED BY <2>2, <2>3
<1>. QED BY <1>1

\* The recursion has a solution, which the names of a packet therefore are.
LEMMA NamesUnfold ==
  ASSUME NEW p \in Packets
  PROVE  \A o \in 0..Len(p), d \in 0..MaxDepth :
           /\ Names(p)[<<o, d>>] = NamesAt(Names(p), p, o, d)
           /\ Names(p)[<<o, d>>] \in SUBSET Found
<1>1. Rank(p, 0, 0) \in Nat
  BY PacketOctets, SizesInt, RankBounds
<1>2. PICK f \in [Places(p) -> SUBSET Found] : Solves(p, f, Rank(p, 0, 0) + 1)
  BY <1>1, SolutionsExist
<1>3. ASSUME NEW x \in Places(p) PROVE f[x] = NamesAt(f, p, x[1], x[2])
  <2>1. x[1] \in 0..Len(p) /\ x[2] \in 0..MaxDepth
    BY DEF Places
  <2>2. RankOf(p, x) \in Nat /\ RankOf(p, x) <= Rank(p, 0, 0)
    BY <2>1, RankBounds DEF RankOf
  <2>3. RankOf(p, x) < Rank(p, 0, 0) + 1
    BY <1>1, <2>2
  <2>. QED BY <1>2, <2>3 DEF Solves
<1>4. f = [x \in (0..Len(p)) \X (0..MaxDepth) |-> NamesAt(f, p, x[1], x[2])]
  BY <1>2, <1>3 DEF Places
<1>5. Names(p) = [x \in (0..Len(p)) \X (0..MaxDepth) |-> NamesAt(Names(p), p, x[1], x[2])]
  BY <1>4, Zenon DEF Names
<1>6. ASSUME NEW x \in Places(p)
      PROVE  Names(p)[x] = NamesAt(Names(p), p, x[1], x[2])
  BY <1>5, Zenon DEF Places
<1>. DEFINE T == {n \in Nat : \E x \in Places(p) : RankOf(p, x) = n /\ f[x] # Names(p)[x]}
<1>7. ASSUME T # {} PROVE FALSE
  <2>1. PICK n \in T : \A m \in T : n <= m
    <3>1. T \in SUBSET Nat
      OBVIOUS
    <3>. HIDE DEF T
    <3>. QED BY <1>7, <3>1, LeastNat
  <2>2. PICK x \in Places(p) : RankOf(p, x) = n /\ f[x] # Names(p)[x]
    BY <2>1
  <2>3. x[1] \in 0..Len(p) /\ x[2] \in 0..MaxDepth /\ Rank(p, x[1], x[2]) = n
    BY <2>2 DEF Places, RankOf
  <2>4. ASSUME NEW y \in Places(p), RankOf(p, y) < Rank(p, x[1], x[2])
        PROVE  f[y] = Names(p)[y]
    <3>1. y[1] \in 0..Len(p) /\ y[2] \in 0..MaxDepth
      BY DEF Places
    <3>2. RankOf(p, y) \in Nat
      BY <3>1, RankBounds DEF RankOf
    <3>3. n \in Nat /\ RankOf(p, y) < n
      BY <2>1, <2>3, <2>4
    <3>4. RankOf(p, y) \notin T
      <4>. HIDE DEF T
      <4>. QED BY <2>1, <3>2, <3>3
    <3>. QED BY <3>2, <3>4
  <2>5. NamesAt(f, p, x[1], x[2]) = NamesAt(Names(p), p, x[1], x[2])
    BY <2>3, <2>4, NamesAtLocal
  <2>. QED BY <1>3, <1>6, <2>2, <2>5
<1>8. ASSUME NEW x \in Places(p) PROVE f[x] = Names(p)[x]
  <2>1. x[1] \in 0..Len(p) /\ x[2] \in 0..MaxDepth
    BY DEF Places
  <2>2. RankOf(p, x) \in Nat
    BY <2>1, RankBounds DEF RankOf
  <2>. QED BY <1>7, <2>2
<1>9. ASSUME NEW o \in 0..Len(p), NEW d \in 0..MaxDepth
      PROVE  /\ Names(p)[<<o, d>>] = NamesAt(Names(p), p, o, d)
             /\ Names(p)[<<o, d>>] \in SUBSET Found
  <2>1. <<o, d>> \in Places(p) /\ <<o, d>>[1] = o /\ <<o, d>>[2] = d
    BY DEF Places
  <2>2. Names(p)[<<o, d>>] = NamesAt(Names(p), p, o, d)
    BY <1>6, <2>1
  <2>3. Names(p)[<<o, d>>] \in SUBSET Found
    BY <1>8, <2>1
  <2>. QED BY <2>2, <2>3
<1>. QED BY <1>9

-----------------------------------------------------------------------------
(* Texts *)
LEMMA ReverseIs ==
  ASSUME NEW S, NEW s \in Seq(S)
  PROVE  /\ Reverse(s) \in Seq(S) /\ Len(Reverse(s)) = Len(s)
         /\ \A i \in 1..Len(s) : Reverse(s)[i] = s[Len(s) - i + 1]
<1>1. Len(s) \in Nat /\ \A i \in 1..Len(s) : s[i] \in S
  BY LenProperties, ElementOfSeq
<1>2. \A i \in 1..Len(s) : s[Len(s) - i + 1] \in S
  <2>1. \A i \in 1..Len(s) : Len(s) - i + 1 \in 1..Len(s)
    BY <1>1
  <2>. QED BY <1>1, <2>1
<1>3. Reverse(s) \in [1..Len(s) -> S]
  BY <1>2 DEF Reverse
<1>4. Reverse(s) \in Seq(S) /\ Len(Reverse(s)) = Len(s)
  BY <1>1, <1>3
<1>. QED BY <1>4 DEF Reverse

LEMMA SuffixMeans ==
  ASSUME NEW S, NEW s \in Seq(S), NEW t \in Seq(S)
  PROVE  IsSuffix(s, t) <=>
           Len(s) <= Len(t) /\ \A i \in 1..Len(s) : s[i] = t[Len(t) - Len(s) + i]
<1>. DEFINE a == Reverse(s)
            b == Reverse(t)
            k == Len(s)
            m == Len(t)
<1>1. k \in Nat /\ m \in Nat
  BY LenProperties
<1>2. /\ a \in Seq(S) /\ Len(a) = k /\ \A i \in 1..k : a[i] = s[k - i + 1]
      /\ b \in Seq(S) /\ Len(b) = m /\ \A i \in 1..m : b[i] = t[m - i + 1]
  BY ReverseIs
<1>3. IsSuffix(s, t) <=> k <= m /\ SubSeq(a, 1, k) = SubSeq(b, 1, k)
  BY <1>2 DEF IsSuffix, IsPrefix
<1>. HIDE DEF a, b, k, m
<1>4. ASSUME k <= m
      PROVE  SubSeq(a, 1, k) = SubSeq(b, 1, k) <=> \A i \in 1..k : a[i] = b[i]
  <2>1. /\ \A i \in 1..k : a[i] \in S
        /\ \A i \in 1..k : b[i] \in S
    BY <1>1, <1>2, <1>4, ElementOfSeq
  <2>2. /\ SubSeq(a, 1, k) \in Seq(S) /\ Len(SubSeq(a, 1, k)) = k
        /\ \A i \in 1..k : SubSeq(a, 1, k)[i] = a[i]
    BY <1>1, <2>1, SubSeqProperties
  <2>3. /\ SubSeq(b, 1, k) \in Seq(S) /\ Len(SubSeq(b, 1, k)) = k
        /\ \A i \in 1..k : SubSeq(b, 1, k)[i] = b[i]
    BY <1>1, <2>1, SubSeqProperties
  <2>4. (\A i \in 1..k : a[i] = b[i]) => SubSeq(a, 1, k) = SubSeq(b, 1, k)
    BY <2>2, <2>3, SeqEqual
  <2>. QED BY <2>2, <2>3, <2>4
<1>5. ASSUME k <= m
      PROVE  (\A i \in 1..k : a[i] = b[i]) <=> \A i \in 1..k : s[i] = t[m - k + i]
  <2>1. \A i \in 1..k : /\ k - i + 1 \in 1..k /\ k - (k - i + 1) + 1 = i
                        /\ m - i + 1 = m - k + (k - i + 1) /\ i \in 1..m
    BY <1>1, <1>5
  <2>2. ASSUME NEW i \in 1..k PROVE a[i] = s[k - i + 1] /\ b[i] = t[m - k + (k - i + 1)]
    <3>1. i \in 1..m /\ m - i + 1 = m - k + (k - i + 1)
      BY <2>1
    <3>2. a[i] = s[k - i + 1] /\ b[i] = t[m - i + 1]
      BY <1>2, <3>1
    <3>. QED BY <3>1, <3>2
  <2>3. \A i \in 1..k : a[k - i + 1] = s[i] /\ b[k - i + 1] = t[m - k + i]
    BY <2>1, <2>2
  <2>4. (\A i \in 1..k : a[i] = b[i]) => \A i \in 1..k : s[i] = t[m - k + i]
    BY <2>1, <2>3
  <2>5. (\A i \in 1..k : s[i] = t[m - k + i]) => \A i \in 1..k : a[i] = b[i]
    BY <2>1, <2>2
  <2>. QED BY <2>4, <2>5
<1>. QED BY <1>3, <1>4, <1>5 DEF k, m

\* A text ends with a dot and a name exactly when it can be cut after a dot before the name.
LEMMA CutBeforeName ==
  ASSUME NEW text \in Seq(0..255), NEW name \in Seq(0..255)
  PROVE  IsSuffix(<<Dot>> \o name, text) <=>
           \E cut \in 1..Len(text) : text[cut] = Dot /\ SubSeq(text, cut + 1, Len(text)) = name
<1>. DEFINE s == <<Dot>> \o name
            k == Len(name)
            m == Len(text)
<1>1. k \in Nat /\ m \in Nat
  BY LenProperties
<1>2. /\ s \in Seq(0..255) /\ Len(s) = k + 1
      /\ s[1] = Dot /\ \A i \in 1..k : s[i + 1] = name[i]
  <2>1. <<Dot>> \in Seq(0..255) /\ Len(<<Dot>>) = 1 /\ <<Dot>>[1] = Dot
    BY DEF Dot
  <2>2. /\ s \in Seq(0..255) /\ Len(s) = 1 + k
        /\ \A i \in 1..(1 + k) : s[i] = IF i <= 1 THEN <<Dot>>[i] ELSE name[i - 1]
    BY <2>1, ConcatProperties
  <2>. HIDE DEF s, k
  <2>3. s[1] = Dot
    BY <1>1, <2>1, <2>2
  <2>4. \A i \in 1..k : s[i + 1] = name[i]
    <3>1. \A i \in 1..k : i + 1 \in 1..(1 + k) /\ ~(i + 1 <= 1) /\ (i + 1) - 1 = i
      BY <1>1
    <3>. QED BY <2>2, <3>1
  <2>. QED BY <1>1, <2>2, <2>3, <2>4
<1>3. IsSuffix(s, text) <=> k + 1 <= m /\ \A i \in 1..(k + 1) : s[i] = text[m - (k + 1) + i]
  <2>. HIDE DEF s
  <2>1. IsSuffix(s, text) <=> Len(s) <= m /\ \A i \in 1..Len(s) : s[i] = text[m - Len(s) + i]
    BY <1>2, SuffixMeans
  <2>. QED BY <1>2, <2>1
<1>4. \A i \in 1..m : text[i] \in 0..255
  BY ElementOfSeq
<1>5. ASSUME NEW cut \in 1..m
      PROVE  /\ SubSeq(text, cut + 1, m) \in Seq(0..255) /\ Len(SubSeq(text, cut + 1, m)) = m - cut
             /\ \A i \in 1..(m - cut) : SubSeq(text, cut + 1, m)[i] = text[cut + i]
  <2>1. cut + 1 \in Int /\ \A i \in (cut + 1)..m : text[i] \in 0..255
    BY <1>1, <1>4
  <2>2. /\ SubSeq(text, cut + 1, m) \in Seq(0..255)
        /\ Len(SubSeq(text, cut + 1, m)) = IF cut + 1 <= m THEN m - (cut + 1) + 1 ELSE 0
        /\ \A i \in 1..(m - (cut + 1) + 1) : SubSeq(text, cut + 1, m)[i] = text[(cut + 1) + i - 1]
    BY <1>1, <2>1, SubSeqProperties
  <2>. HIDE DEF m
  <2>. QED BY <1>1, <2>2
<1>. HIDE DEF s, k, m
<1>6. ASSUME IsSuffix(s, text)
      PROVE  \E cut \in 1..m : text[cut] = Dot /\ SubSeq(text, cut + 1, m) = name
  <2>. DEFINE cut == m - k
  <2>1. cut \in 1..m /\ m - cut = k /\ m - (k + 1) + 1 = cut /\ 1 \in 1..(k + 1)
    BY <1>1, <1>3, <1>6
  <2>2. text[cut] = Dot
    BY <1>2, <1>3, <1>6, <2>1
  <2>3. \A i \in 1..k : name[i] = text[cut + i]
    <3>1. \A i \in 1..k : i + 1 \in 1..(k + 1) /\ m - (k + 1) + (i + 1) = cut + i
      BY <1>1
    <3>2. \A i \in 1..k : s[i + 1] = text[m - (k + 1) + (i + 1)]
      BY <1>3, <1>6, <3>1
    <3>. QED BY <1>2, <3>1, <3>2
  <2>. HIDE DEF cut
  <2>4. SubSeq(text, cut + 1, m) = name
    <3>1. /\ SubSeq(text, cut + 1, m) \in Seq(0..255) /\ Len(SubSeq(text, cut + 1, m)) = k
          /\ \A i \in 1..k : SubSeq(text, cut + 1, m)[i] = text[cut + i]
      BY <1>5, <2>1
    <3>2. \A i \in 1..k : SubSeq(text, cut + 1, m)[i] = name[i]
      BY <2>3, <3>1
    <3>. QED BY <3>1, <3>2, SeqEqual DEF k
  <2>. QED BY <2>1, <2>2, <2>4
<1>7. ASSUME NEW cut \in 1..m, text[cut] = Dot, SubSeq(text, cut + 1, m) = name
      PROVE  IsSuffix(s, text)
  <2>1. k = m - cut /\ \A i \in 1..k : name[i] = text[cut + i]
    <3>1. k = m - cut
      BY <1>5, <1>7 DEF k
    <3>. QED BY <1>5, <1>7, <3>1
  <2>2. k + 1 <= m
    BY <1>1, <2>1
  <2>3. ASSUME NEW i \in 1..(k + 1) PROVE s[i] = text[m - (k + 1) + i]
    <3>1. CASE i = 1
      <4>1. m - (k + 1) + 1 = cut
        BY <1>1, <2>1
      <4>. QED BY <1>2, <1>7, <3>1, <4>1
    <3>2. CASE i # 1
      <4>1. i - 1 \in 1..k /\ (i - 1) + 1 = i /\ m - (k + 1) + i = cut + (i - 1)
        <5>1. k = m - cut
          BY <2>1
        <5>. QED BY <1>1, <3>2, <5>1
      <4>2. s[(i - 1) + 1] = name[i - 1] /\ name[i - 1] = text[cut + (i - 1)]
        BY <1>2, <2>1, <4>1
      <4>. QED BY <4>1, <4>2
    <3>. QED BY <3>1, <3>2
  <2>. QED BY <1>3, <2>2, <2>3
<1>. QED BY <1>6, <1>7 DEF s, m

\* What matchesDomain finds by cutting: the name is blocked or below one that is.
LEMMA MatchesMeans ==
  ASSUME NEW text \in Seq(0..255)
  PROVE  Matches(text) <=> \E name \in Blocked : text = name \/ IsSuffix(<<Dot>> \o name, text)
<1>1. DOMAIN text = 1..Len(text) /\ Len(text) \in Nat /\ SubSeq(text, 1, Len(text)) = text
  BY LenProperties, SubSeqFull
<1>2. Matches(text) <=>
        \/ text \in Blocked
        \/ \E cut \in 1..Len(text) : text[cut] = Dot /\ SubSeq(text, cut + 1, Len(text)) \in Blocked
  <2>1. Matches(text) <=> \E cut \in {0} \cup {i \in 1..Len(text) : text[i] = Dot} :
                            SubSeq(text, cut + 1, Len(text)) \in Blocked
    BY <1>1 DEF Matches
  <2>2. SubSeq(text, 0 + 1, Len(text)) = text
    BY <1>1
  <2>. QED BY <2>1, <2>2
<1>3. ASSUME NEW name \in Blocked
      PROVE  IsSuffix(<<Dot>> \o name, text) <=>
               \E cut \in 1..Len(text) : text[cut] = Dot /\ SubSeq(text, cut + 1, Len(text)) = name
  BY CutBeforeName, NamesAssumption
<1>. QED BY <1>2, <1>3

LEMMA JoinBefore ==
  \A text, label, rest \in Seq(0..255) : label # <<>> =>
    Join(text, label) \in Seq(0..255) /\ Join(Join(text, label), rest) = Join(text, Before(label, rest))
<1>1. SUFFICES ASSUME NEW text, NEW label, NEW rest, label # <<>>,
                      text \in Seq(0..255), label \in Seq(0..255), rest \in Seq(0..255)
               PROVE  /\ Join(text, label) \in Seq(0..255)
                      /\ Join(Join(text, label), rest) = Join(text, Before(label, rest))
  OBVIOUS
<1>. DEFINE dot == <<Dot>>
            x == (text \o dot) \o label
            y == (label \o dot) \o rest
<1>2. dot \in Seq(0..255) /\ dot # <<>>
  BY DEF Dot
<1>3. label # <<>> /\ label \in Seq(0..255)
  BY <1>1
<1>4. x \in Seq(0..255) /\ x # <<>>
  <2>. HIDE DEF dot
  <2>1. text \o dot \in Seq(0..255)
    BY <1>1, <1>2, ConcatProperties
  <2>. QED BY <1>3, <2>1, ConcatProperties, ConcatEqualIffEmpty
<1>5. y # <<>>
  <2>. HIDE DEF dot
  <2>1. label \o dot \in Seq(0..255) /\ label \o dot # <<>>
    BY <1>2, <1>3, ConcatProperties, ConcatEqualIffEmpty
  <2>2. rest \in Seq(0..255)
    BY <1>1
  <2>. QED BY <2>1, <2>2, ConcatEqualIffEmpty
<1>6. (x \o dot) \o rest = (text \o dot) \o y
  <2>. DEFINE u == text \o dot
              z == dot \o rest
  <2>1. u \in Seq(0..255) /\ z \in Seq(0..255)
    <3>. HIDE DEF dot
    <3>. QED BY <1>1, <1>2, ConcatProperties
  <2>2. label \in Seq(0..255) /\ rest \in Seq(0..255) /\ dot \in Seq(0..255)
    BY <1>1, <1>2
  <2>3. (x \o dot) \o rest = x \o z
    <3>. HIDE DEF dot, x
    <3>. QED BY <1>4, <2>2, ConcatAssociative
  <2>4. x \o z = u \o (label \o z)
    <3>1. x = u \o label
      OBVIOUS
    <3>2. label \in Seq(0..255)
      BY <2>2
    <3>. HIDE DEF dot, u, z, x
    <3>3. (u \o label) \o z = u \o (label \o z)
      BY <2>1, <3>2, ConcatAssociative
    <3>. QED BY <3>1, <3>3
  <2>5. label \o z = y
    <3>. HIDE DEF dot, x, u
    <3>. QED BY <2>2, ConcatAssociative
  <2>. QED BY <2>3, <2>4, <2>5
<1>7. \A a, b : Join(a, b) = IF a = <<>> THEN b ELSE IF b = <<>> THEN a ELSE (a \o dot) \o b
  BY DEF Join
<1>8. Before(label, rest) = IF rest = <<>> THEN label ELSE y
  BY DEF Before
<1>9. Join(text, label) = IF text = <<>> THEN label ELSE x
  BY <1>3, <1>7
<1>. HIDE DEF x, y, dot
<1>10. Join(text, label) \in Seq(0..255) /\ Join(text, label) # <<>>
  BY <1>3, <1>4, <1>9
<1>11. CASE rest = <<>>
  <2>1. Join(Join(text, label), rest) = Join(text, label)
    BY <1>7, <1>10, <1>11
  <2>. QED BY <1>8, <1>10, <1>11, <2>1
<1>12. CASE rest # <<>> /\ text = <<>>
  <2>1. Join(Join(text, label), rest) = (label \o dot) \o rest
    BY <1>3, <1>7, <1>9, <1>12
  <2>2. Join(text, Before(label, rest)) = y
    BY <1>7, <1>8, <1>12
  <2>. QED BY <1>10, <2>1, <2>2 DEF y
<1>13. CASE rest # <<>> /\ text # <<>>
  <2>1. Join(Join(text, label), rest) = (x \o dot) \o rest
    BY <1>4, <1>7, <1>9, <1>13
  <2>2. Join(text, Before(label, rest)) = (text \o dot) \o y
    BY <1>5, <1>7, <1>8, <1>13
  <2>. QED BY <1>6, <1>10, <2>1, <2>2
<1>. QED BY <1>11, <1>12, <1>13

LEMMA LowerCaseOctets ==
  ASSUME NEW text \in Seq(0..255)
  PROVE  LowerCase(Trim(text)) \in Seq(0..255)
<1>1. ASSUME NEW s \in Seq(0..255) PROVE LowerCase(s) \in Seq(0..255)
  <2>1. Len(s) \in Nat /\ DOMAIN s = 1..Len(s) /\ \A i \in 1..Len(s) : s[i] \in 0..255
    BY LenProperties, ElementOfSeq
  <2>. DEFINE n == Len(s)
  <2>2. LowerCase(s) \in [1..n -> 0..255] /\ n \in Nat
    BY <2>1, LowerAssumption DEF LowerCase
  <2>. HIDE DEF n
  <2>3. LowerCase(s) \in UNION {[1..k -> 0..255] : k \in Nat}
    BY <2>2
  <2>. QED BY <2>3, SeqDef
<1>2. Trim(text) \in Seq(0..255)
  <2>1. Len(text) \in Nat /\ \A i \in 1..Len(text) : text[i] \in 0..255
    BY LenProperties, ElementOfSeq
  <2>2. 1 \in Int /\ Len(text) - 1 \in Int /\ \A i \in 1..(Len(text) - 1) : text[i] \in 0..255
    BY <2>1
  <2>3. Front(text) \in Seq(0..255)
    BY <2>2, SubSeqProperties DEF Front
  <2>. QED BY <2>3 DEF Trim
<1>. QED BY <1>1, <1>2

-----------------------------------------------------------------------------
(* The decoder stays inside the packet *)
Stages == {"none", "read", "decode", "refuse", "dial", "upstream"}

Transports == {"none", "udp", "tcp"}
Queries == Packets \cup {<<>>}
Texts == Seq(0..255)

Handlers == [stage : Stages, over : Transports, query : Queries, offset : Int,
             text : Texts, jumps : 0..MaxDepth, next : Int]

\* The decoder's offsets, that of the octet it reads and the one the question goes
\* on at, lie in the packet.
Within(h) == h.stage = "decode" => h.offset \in 0..Len(h.query) /\ h.next \in 0..Len(h.query)

DecoderInv ==
  /\ serving \subseteq {"udp", "tcp"}
  /\ buffer \in Queries
  /\ handler \in [Clients -> Handlers]
  /\ \A c \in Clients : Within(handler[c])

LEMMA Octets ==
  ASSUME NEW q \in Queries
  PROVE  /\ q \in Seq(0..255) /\ Len(q) \in Nat
         /\ \A i \in 1..Len(q) : q[i] \in 0..255
<1>1. q \in Seq(0..255)
  BY PacketsAssumption, EmptySeq DEF Queries
<1>2. Len(q) \in Nat /\ \A i \in 1..Len(q) : q[i] \in 0..255
  BY <1>1, LenProperties, ElementOfSeq
<1>. QED BY <1>1, <1>2

LEMMA IdleIsHandler == Idle \in Handlers /\ Within(Idle)
<1>1. <<>> \in Texts /\ <<>> \in Queries
  BY EmptySeq DEF Texts, Queries
<1>. QED BY <1>1, SizesInt DEF Idle, Handlers, Within, Stages, Transports

LEMMA MoveKeeps ==
  ASSUME DecoderInv, NEW c \in Clients, NEW h \in Handlers, Within(h), Move(c, h),
         serving' \subseteq serving, buffer' \in Queries
  PROVE  DecoderInv'
BY DEF DecoderInv, Move, Within

\* A step of a handler that ends it or brings it out of the decoder.
LEMMA GoKeeps ==
  ASSUME DecoderInv, NEW c \in Clients, NEW stage \in Stages \ {"decode"}, Go(c, stage),
         serving' = serving, buffer' = buffer
  PROVE  DecoderInv'
<1>. DEFINE h == [handler[c] EXCEPT !.stage = stage]
<1>1. handler[c] \in Handlers
  BY DEF DecoderInv
<1>2. h \in Handlers /\ h.stage = stage
  BY <1>1 DEF Handlers
<1>3. Within(h)
  BY <1>2 DEF Within
<1>4. buffer' \in Queries /\ Move(c, h)
  BY DEF DecoderInv, Go
<1>. HIDE DEF h
<1>. QED BY <1>2, <1>3, <1>4, MoveKeeps

LEMMA BeginKeeps ==
  ASSUME DecoderInv, NEW c \in Clients, NEW over \in {"udp", "tcp"}, NEW p \in Packets,
         Begin(c, over, p), serving' = serving, buffer' \in Queries
  PROVE  DecoderInv'
<1>. DEFINE stage == IF Len(p) >= HeaderSize /\ p[1] = 1 THEN "decode" ELSE "dial"
            h == [Idle EXCEPT !.over = over, !.query = p, !.offset = HeaderSize, !.next = HeaderSize,
                    !.stage = stage]
<1>1. Idle \in Handlers
  BY IdleIsHandler
<1>2. /\ stage \in Stages /\ over \in Transports /\ p \in Queries
      /\ Len(p) \in Nat /\ (stage = "decode" => Len(p) >= HeaderSize)
  BY Octets DEF Stages, Transports, Queries
<1>3. Move(c, h) /\ HeaderSize \in Int
  BY SizesInt DEF Begin
<1>. HIDE DEF stage
<1>4. h \in Handlers
  BY <1>1, <1>2, <1>3 DEF Handlers
<1>5. /\ h.stage = stage /\ h.query = p
      /\ h.offset = HeaderSize /\ h.next = HeaderSize
  BY <1>1, <1>2, <1>3 DEF Handlers
<1>. HIDE DEF h
<1>6. Within(h)
  BY <1>2, <1>5, SizesInt DEF Within
<1>. QED BY <1>3, <1>4, <1>6, MoveKeeps

\* What the decoder reads are octets, and a pointer's target is not negative.
LEMMA ReadsOctets ==
  ASSUME NEW h \in Handlers, Within(h), h.stage = "decode", WellFormed(h)
  PROVE  /\ h.query \in Seq(0..255) /\ Len(h.query) \in Nat
         /\ h.offset \in Nat /\ h.offset < Len(h.query) /\ h.next \in 0..Len(h.query)
         /\ h.query \in Packets
         /\ Octet(h) \in 0..255
         /\ Octet(h) >= 192 => h.offset + 1 < Len(h.query) /\ Pointer(h) \in Nat
<1>1. /\ h.query \in Seq(0..255) /\ Len(h.query) \in Nat
      /\ \A i \in 1..Len(h.query) : h.query[i] \in 0..255
  BY Octets DEF Handlers
<1>2. h.offset \in 0..Len(h.query) /\ h.next \in 0..Len(h.query)
  BY DEF Within
<1>3. h.offset < Len(h.query)
  BY DEF WellFormed, Inside, Query
<1>4. Octet(h) \in 0..255
  <2>1. h.offset + 1 \in 1..Len(h.query)
    BY <1>1, <1>2, <1>3
  <2>. QED BY <1>1, <2>1 DEF Octet, Query
<1>5. ASSUME Octet(h) >= 192 PROVE h.offset + 1 < Len(h.query) /\ Pointer(h) \in Nat
  <2>1. h.offset + 1 < Len(h.query)
    BY <1>5 DEF WellFormed, Inside, Query
  <2>2. h.query[h.offset + 2] \in 0..255
    <3>1. h.offset + 2 \in 1..Len(h.query)
      BY <1>1, <1>2, <2>1
    <3>. QED BY <1>1, <3>1
  <2>3. Pointer(h) = (Octet(h) - 192) * 256 + h.query[h.offset + 2]
    BY DEF Pointer, Query
  <2>4. \A m \in 0..255, k \in 0..255 : m >= 192 => (m - 192) * 256 + k \in Nat
    OBVIOUS
  <2>5. (Octet(h) - 192) * 256 + h.query[h.offset + 2] \in Nat
    BY <1>4, <1>5, <2>2, <2>4
  <2>6. Pointer(h) \in Nat
    BY <2>3, <2>5
  <2>. QED BY <2>1, <2>6
<1>6. h.query \in Packets
  <2>1. h.query # <<>>
    BY <1>2, <1>3, EmptySeq
  <2>. QED BY <2>1 DEF Handlers, Queries
<1>. QED BY <1>1, <1>2, <1>3, <1>4, <1>5, <1>6

\* The decoder goes on exactly where the format does, up to the type and class.
LEMMA DecodesFormat ==
  ASSUME NEW h \in Handlers, Within(h), h.stage = "decode", h.query \in Packets
  PROVE  /\ WellFormed(h) => h.offset \in Nat /\ h.offset < Len(h.query)
         /\ WellFormed(h) /\ Octet(h) \in 1..63 => IsLabel(h.query, h.offset)
         /\ WellFormed(h) /\ Octet(h) >= 192 =>
              IsPointer(h.query, h.offset) /\ h.jumps < MaxDepth /\ Pointer(h) = Target(h.query, h.offset)
         /\ WellFormed(h) /\ Octet(h) = 0 =>
              IsEnd(h.query, h.offset) /\ After(h, 1) + TrailerSize <= Len(h.query)
         /\ ~WellFormed(h) =>
              \/ IsEnd(h.query, h.offset) /\ ~(After(h, 1) + TrailerSize <= Len(h.query))
              \/ /\ ~IsEnd(h.query, h.offset) /\ ~IsLabel(h.query, h.offset)
                 /\ ~(IsPointer(h.query, h.offset) /\ h.jumps < MaxDepth)
<1>. DEFINE p == h.query
            o == h.offset
            n == p[o + 1]
<1>1. Octet(h) = n /\ Query(h) = p
  BY DEF Octet, Query
<1>2. Len(p) \in Nat /\ o \in 0..Len(p) /\ h.jumps \in Int /\ MaxDepth \in Int
  BY PacketOctets, SizesInt DEF Within, Handlers
<1>3. ASSUME o < Len(p) PROVE n \in 0..255
  <2>1. o + 1 \in 1..Len(p)
    <3>. HIDE DEF p, o
    <3>. QED BY <1>2, <1>3
  <2>. QED BY <2>1, PacketOctets
<1>4. ASSUME o + 1 < Len(p), n >= 192 PROVE Pointer(h) = Target(p, o)
  <2>1. o + 1 \in 1..Len(p) /\ o + 2 \in 1..Len(p)
    <3>. HIDE DEF p, o
    <3>. QED BY <1>2, <1>4
  <2>2. n \in 0..255 /\ p[o + 2] \in 0..255
    BY <2>1, PacketOctets
  <2>3. Pointer(h) = (n - 192) * 256 + p[o + 2] /\ Target(p, o) = 256 * (n - 192) + p[o + 2]
    BY <1>1 DEF Pointer, Target
  <2>4. \A m \in 0..255 : (m - 192) * 256 = 256 * (m - 192)
    OBVIOUS
  <2>. HIDE DEF n, p, o
  <2>. QED BY <2>2, <2>3, <2>4
<1>5. TooDeep(h) <=> ~(h.jumps < MaxDepth)
  BY <1>2 DEF TooDeep
<1>6. WellFormed(h) <=>
        /\ o < Len(p)
        /\ n \notin 64..191
        /\ n \in 1..63 => o + n < Len(p)
        /\ n >= 192 => o + 1 < Len(p) /\ Target(p, o) < Len(p) /\ h.jumps < MaxDepth
        /\ n = 0 => After(h, 1) + TrailerSize <= Len(p)
  BY <1>1, <1>4, <1>5 DEF WellFormed, Inside
<1>7. \A m \in 0..255 : m = 0 \/ m \in 1..63 \/ m \in 64..191 \/ m >= 192
  OBVIOUS
<1>. HIDE DEF p, o, n
<1>8. IsEnd(p, o) <=> o < Len(p) /\ n = 0
  BY DEF IsEnd, n
<1>9. IsLabel(p, o) <=> o < Len(p) /\ n \in 1..63 /\ o + n < Len(p)
  BY DEF IsLabel, n
<1>10. IsPointer(p, o) <=> o + 1 < Len(p) /\ n >= 192 /\ Target(p, o) < Len(p)
  BY DEF IsPointer, n
<1>11. o \in Nat /\ (o + 1 < Len(p) => o < Len(p))
  BY <1>2
<1>12. \A m \in 0..255 : /\ m = 0 => m \notin 1..63 /\ m \notin 64..191 /\ ~(m >= 192)
                         /\ m \in 1..63 => m \notin 64..191 /\ ~(m >= 192)
                         /\ m >= 192 => m \notin 64..191
  OBVIOUS
<1>13. /\ WellFormed(h) => o \in Nat /\ o < Len(p)
       /\ WellFormed(h) /\ n \in 1..63 => IsLabel(p, o)
       /\ WellFormed(h) /\ n >= 192 => IsPointer(p, o) /\ h.jumps < MaxDepth
       /\ WellFormed(h) /\ n = 0 => IsEnd(p, o) /\ After(h, 1) + TrailerSize <= Len(p)
  BY <1>6, <1>8, <1>9, <1>10, <1>11
<1>14. WellFormed(h) /\ n >= 192 => Pointer(h) = Target(p, o)
  BY <1>4, <1>6
<1>15. ASSUME ~WellFormed(h)
       PROVE  \/ IsEnd(p, o) /\ ~(After(h, 1) + TrailerSize <= Len(p))
              \/ ~IsEnd(p, o) /\ ~IsLabel(p, o) /\ ~(IsPointer(p, o) /\ h.jumps < MaxDepth)
  <2>1. CASE ~(o < Len(p))
    BY <1>8, <1>9, <1>10, <1>11, <2>1
  <2>2. CASE o < Len(p)
    <3>1. n \in 0..255
      BY <1>3, <2>2
    <3>2. \/ n \in 64..191
          \/ n \in 1..63 /\ ~(o + n < Len(p))
          \/ n >= 192 /\ ~(o + 1 < Len(p) /\ Target(p, o) < Len(p) /\ h.jumps < MaxDepth)
          \/ n = 0 /\ ~(After(h, 1) + TrailerSize <= Len(p))
      BY <1>6, <1>15, <2>2
    <3>. QED BY <1>8, <1>9, <1>10, <1>12, <2>2, <3>1, <3>2
  <2>. QED BY <2>1, <2>2
<1>. QED BY <1>1, <1>13, <1>14, <1>15 DEF p, o, n

LEMMA LabelKeeps ==
  ASSUME DecoderInv, NEW c \in Clients, DecodeLabel(c)
  PROVE  DecoderInv'
<1>. DEFINE h == handler[c]
            n == Octet(h)
            label == SubSeq(Query(h), h.offset + 2, h.offset + 1 + n)
            text == Join(h.text, label)
            g == [h EXCEPT !.offset = @ + 1 + n, !.next = After(h, 1 + n), !.text = text]
<1>1. /\ h \in Handlers /\ Within(h) /\ h.stage = "decode" /\ WellFormed(h) /\ n \in 1..63
      /\ Move(c, g) /\ serving' = serving /\ buffer' = buffer
  BY DEF DecodeLabel, DecoderInv
<1>2. /\ h.query \in Packets /\ Len(h.query) \in Nat
      /\ h.offset \in Nat /\ h.next \in 0..Len(h.query)
  BY <1>1, ReadsOctets
<1>3. h.offset + n < Len(h.query) /\ n \in Int /\ n >= 1
  <2>1. h.offset + n < Len(h.query)
    BY <1>1 DEF WellFormed, Inside, Query
  <2>2. \A m \in 1..63 : m \in Int /\ m >= 1
    OBVIOUS
  <2>. QED BY <1>1, <2>1, <2>2
<1>4. text \in Texts
  <2>1. label \in Texts /\ label # <<>>
    <3>1. IsLabel(h.query, h.offset) /\ h.offset \in 0..Len(h.query)
      BY <1>1, <1>2, DecodesFormat DEF Within
    <3>2. label = Label(h.query, h.offset)
      BY DEF Label, Query, Octet
    <3>. QED BY <1>2, <3>1, <3>2, LabelOctets DEF Texts
  <2>2. h.text \in Texts
    BY <1>1 DEF Handlers
  <2>. QED BY <2>1, <2>2, JoinBefore, EmptySeq DEF Texts
<1>. HIDE DEF n, text
<1>. HIDE DEF h
<1>5. After(h, 1 + n) \in 0..Len(h.query)
  <2>1. After(h, 1 + n) = h.offset + (1 + n) \/ After(h, 1 + n) = h.next
    BY DEF After
  <2>. QED BY <1>2, <1>3, <2>1
<1>6. h.offset + 1 + n \in Int /\ After(h, 1 + n) \in Int
  BY <1>2, <1>3, <1>5
<1>7. g \in Handlers
  BY <1>1, <1>4, <1>6 DEF Handlers
<1>8. /\ g.stage = "decode" /\ g.query = h.query
      /\ g.offset = h.offset + 1 + n /\ g.next = After(h, 1 + n)
  BY <1>1, <1>4, <1>6 DEF Handlers
<1>. HIDE DEF g
<1>9. Within(g)
  BY <1>2, <1>3, <1>5, <1>8 DEF Within
<1>10. buffer' \in Queries
  BY <1>1 DEF DecoderInv
<1>. QED BY <1>1, <1>7, <1>9, <1>10, MoveKeeps

LEMMA PointerKeeps ==
  ASSUME DecoderInv, NEW c \in Clients, DecodePointer(c)
  PROVE  DecoderInv'
<1>. DEFINE h == handler[c]
            g == [h EXCEPT !.offset = Pointer(h), !.next = After(h, 2), !.jumps = @ + 1]
<1>1. /\ h \in Handlers /\ Within(h) /\ h.stage = "decode" /\ WellFormed(h) /\ Octet(h) >= 192
      /\ Move(c, g) /\ serving' = serving /\ buffer' = buffer
  BY DEF DecodePointer, DecoderInv
<1>2. /\ Len(h.query) \in Nat /\ h.offset \in Nat /\ h.next \in 0..Len(h.query)
      /\ h.offset + 1 < Len(h.query) /\ Pointer(h) \in Nat
  BY <1>1, ReadsOctets
<1>. HIDE DEF h
<1>3. Pointer(h) < Len(h.query) /\ h.jumps < MaxDepth /\ h.jumps \in 0..MaxDepth
  <2>1. h.jumps \in 0..MaxDepth
    BY <1>1 DEF Handlers
  <2>2. Pointer(h) < Len(h.query) /\ ~(h.jumps >= MaxDepth)
    BY <1>1 DEF WellFormed, Inside, Query, TooDeep
  <2>. QED BY <2>1, <2>2, SizesInt
<1>4. After(h, 2) \in 0..Len(h.query)
  BY <1>2 DEF After
<1>5. Pointer(h) \in Int /\ After(h, 2) \in Int /\ h.jumps + 1 \in 0..MaxDepth
  BY <1>2, <1>3, <1>4, SizesInt
<1>6. g \in Handlers
  BY <1>1, <1>5 DEF Handlers
<1>7. /\ g.stage = "decode" /\ g.query = h.query
      /\ g.offset = Pointer(h) /\ g.next = After(h, 2)
  BY <1>1, <1>5 DEF Handlers
<1>. HIDE DEF g
<1>8. Within(g)
  BY <1>2, <1>3, <1>4, <1>7 DEF Within
<1>9. buffer' \in Queries
  BY <1>1 DEF DecoderInv
<1>. QED BY <1>1, <1>6, <1>8, <1>9, MoveKeeps

LEMMA DecodeKeeps ==
  ASSUME DecoderInv, NEW c \in Clients, Decode(c)
  PROVE  DecoderInv'
<1>1. CASE DecodeFails(c)
  BY <1>1, GoKeeps DEF DecodeFails, Stages
<1>2. CASE DecodeEnds(c)
  <2>1. PICK stage \in {"refuse", "dial"} : Go(c, stage)
    BY <1>2 DEF DecodeEnds
  <2>2. serving' = serving /\ buffer' = buffer /\ stage \in Stages \ {"decode"}
    BY <1>2 DEF DecodeEnds, Stages
  <2>. QED BY <2>1, <2>2, GoKeeps
<1>. QED BY <1>1, <1>2, LabelKeeps, PointerKeeps DEF Decode

LEMMA ReceiveKeeps ==
  ASSUME DecoderInv, NEW c \in Clients, ReceiveUDP(c) \/ AcceptTCP(c) \/ ReadTCP(c)
  PROVE  DecoderInv'
<1>1. CASE ReceiveUDP(c)
  <2>1. PICK p \in Packets :
          /\ buffer' = p
          /\ IF handler[c] = Idle /\ Free THEN Begin(c, "udp", p) ELSE UNCHANGED handler
    BY <1>1 DEF ReceiveUDP
  <2>2. serving' = serving /\ buffer' \in Queries
    BY <1>1, <2>1 DEF ReceiveUDP, Queries
  <2>3. CASE UNCHANGED handler
    BY <2>1, <2>2, <2>3 DEF DecoderInv, Within
  <2>4. CASE Begin(c, "udp", p)
    BY <2>1, <2>2, <2>4, BeginKeeps
  <2>. QED BY <2>1, <2>3, <2>4
<1>2. CASE AcceptTCP(c)
  <2>. DEFINE h == [Idle EXCEPT !.stage = "read", !.over = "tcp"]
  <2>1. h \in Handlers /\ Within(h)
    BY IdleIsHandler DEF Handlers, Stages, Transports, Within
  <2>2. Move(c, h) /\ serving' = serving /\ buffer' \in Queries
    BY <1>2 DEF AcceptTCP, DecoderInv
  <2>. HIDE DEF h
  <2>. QED BY <2>1, <2>2, MoveKeeps
<1>3. CASE ReadTCP(c)
  <2>1. PICK p \in Packets : Begin(c, "tcp", p)
    BY <1>3 DEF ReadTCP
  <2>2. serving' = serving /\ buffer' \in Queries
    BY <1>3 DEF ReadTCP, DecoderInv
  <2>. QED BY <2>1, <2>2, BeginKeeps
<1>. QED BY <1>1, <1>2, <1>3

LEMMA DecoderInvHolds == Spec => []DecoderInv
<1>1. Init => DecoderInv
  <2>. SUFFICES ASSUME Init PROVE DecoderInv
    OBVIOUS
  <2>1. handler = [c \in Clients |-> Idle] /\ buffer = <<>> /\ serving = {"udp", "tcp"}
    BY DEF Init
  <2>2. buffer \in Queries
    BY <2>1 DEF Queries
  <2>. HIDE DEF Idle
  <2>. QED BY <2>1, <2>2, IdleIsHandler DEF DecoderInv
<1>2. DecoderInv /\ [Next]_vars => DecoderInv'
  <2>. SUFFICES ASSUME DecoderInv, [Next]_vars PROVE DecoderInv'
    OBVIOUS
  <2>1. ASSUME NEW c \in Clients, Done(c) PROVE DecoderInv'
    <3>1. Move(c, Idle) /\ serving' = serving /\ buffer' \in Queries
      BY <2>1 DEF Done, DecoderInv
    <3>. QED BY <3>1, IdleIsHandler, MoveKeeps
  <2>2. ASSUME NEW c \in Clients, Dialled(c) PROVE DecoderInv'
    BY <2>2, GoKeeps DEF Dialled, Stages
  <2>3. ASSUME NEW over \in serving, LoopEnds(over) PROVE DecoderInv'
    BY <2>3 DEF LoopEnds, DecoderInv, Within
  <2>4. CASE UNCHANGED vars
    BY <2>4 DEF vars, DecoderInv, Within
  <2>. QED BY <2>1, <2>2, <2>3, <2>4, DecodeKeeps, ReceiveKeeps DEF Next
<1>. QED BY <1>1, <1>2, PTL DEF Spec

\* Every variable has its type: the offsets of decodeName stay inside the packet and
\* it follows no more pointers than it may, for every packet of every client.
THEOREM DecoderStaysInside == Spec => []TypeOK
<1>1. DecoderInv => TypeOK
  <2>. SUFFICES ASSUME DecoderInv PROVE TypeOK
    OBVIOUS
  <2>1. ASSUME NEW c \in Clients PROVE handler[c] \in Handlers /\ Within(handler[c])
    BY DEF DecoderInv
  <2>. QED BY <2>1 DEF DecoderInv, TypeOK, Handlers, Stages, Transports, Queries, Within
<1>. QED BY <1>1, DecoderInvHolds, PTL

-----------------------------------------------------------------------------
(* What the decoder reads *)

\* The name of the packet when a name stands where the decoder is.
Completed(h, name) ==
  [text |-> Join(h.text, name.text), end |-> IF h.jumps = 0 THEN name.end ELSE h.next]

\* What was read and what is still to be read are the name that the packet's format
\* gives it; nothing is to be read when the packet has no name.
Reading(h) ==
  h.stage = "decode" =>
    /\ h.query \in Packets /\ Len(h.query) >= HeaderSize /\ h.query[1] = 1
    /\ Names(h.query)[<<HeaderSize, 0>>]
         = {Completed(h, name) : name \in Names(h.query)[<<h.offset, h.jumps>>]}

Decided(h) ==
  /\ h.stage \in {"dial", "upstream"} => ~AsksBlocked(h.query)
  /\ h.stage = "refuse" => AsksBlocked(h.query)

AnswerInv == \A c \in Clients : Reading(handler[c]) /\ Decided(handler[c])

LEMMA FoundNames ==
  ASSUME NEW p \in Packets, NEW o \in 0..Len(p), NEW d \in 0..MaxDepth,
         NEW name \in Names(p)[<<o, d>>]
  PROVE  /\ name \in Found /\ name.text \in Seq(0..255) /\ name.end \in Int
         /\ name = [text |-> name.text, end |-> name.end]
<1>1. name \in Found
  BY NamesUnfold
<1>. QED BY <1>1 DEF Found

\* A packet asks for nothing unless it has a name with the type and class after it.
LEMMA AsksOne ==
  ASSUME NEW p \in Packets, Len(p) >= HeaderSize, p[1] = 1, NEW text, NEW end,
         Names(p)[<<HeaderSize, 0>>] = {[text |-> text, end |-> end]}
  PROVE  Asks(p) = IF end + TrailerSize <= Len(p) THEN {text} ELSE {}
<1>. DEFINE name == [text |-> text, end |-> end]
<1>1. name.text = text /\ name.end = end
  OBVIOUS
<1>. HIDE DEF name
<1>2. Asks(p) = {m.text : m \in {k \in {name} : k.end + TrailerSize <= Len(p)}}
  BY DEF Asks, name
<1>. QED BY <1>1, <1>2

LEMMA AsksNone ==
  ASSUME NEW p, Names(p)[<<HeaderSize, 0>>] = {}
  PROVE  Asks(p) = {}
BY DEF Asks

LEMMA BeginReads ==
  ASSUME NEW p \in Packets, NEW h, h.query = p, h.offset = HeaderSize, h.jumps = 0, h.text = <<>>,
         Len(p) >= HeaderSize /\ p[1] = 1
  PROVE  Reading(h)
<1>1. HeaderSize \in 0..Len(p) /\ 0 \in 0..MaxDepth
  BY SizesInt, PacketOctets
<1>2. ASSUME NEW name \in Names(p)[<<HeaderSize, 0>>] PROVE Completed(h, name) = name
  <2>1. name = [text |-> name.text, end |-> name.end]
    BY <1>1, FoundNames
  <2>2. Join(h.text, name.text) = name.text
    BY DEF Join
  <2>. QED BY <2>1, <2>2 DEF Completed
<1>3. Names(p)[<<HeaderSize, 0>>] = {Completed(h, name) : name \in Names(p)[<<HeaderSize, 0>>]}
  BY <1>2
<1>. QED BY <1>3 DEF Reading

\* The facts about a handler that the steps of the decoder start from.
LEMMA DecoderAt ==
  ASSUME NEW h \in Handlers, Within(h), h.stage = "decode", Reading(h)
  PROVE  /\ h.query \in Packets /\ h.offset \in 0..Len(h.query) /\ h.jumps \in 0..MaxDepth
         /\ h.text \in Seq(0..255)
         /\ Len(h.query) >= HeaderSize /\ h.query[1] = 1
         /\ Names(h.query)[<<HeaderSize, 0>>]
              = {Completed(h, name) : name \in Names(h.query)[<<h.offset, h.jumps>>]}
         /\ Names(h.query)[<<h.offset, h.jumps>>]
              = NamesAt(Names(h.query), h.query, h.offset, h.jumps)
<1>1. h.query \in Packets /\ h.offset \in 0..Len(h.query) /\ h.jumps \in 0..MaxDepth
  BY DEF Reading, Within, Handlers
<1>2. Names(h.query)[<<h.offset, h.jumps>>] = NamesAt(Names(h.query), h.query, h.offset, h.jumps)
  BY <1>1, NamesUnfold
<1>3. h.text \in Seq(0..255)
  BY DEF Handlers, Texts
<1>. QED BY <1>1, <1>2, <1>3 DEF Reading

LEMMA LabelReads ==
  ASSUME NEW h \in Handlers, Within(h), h.stage = "decode", Reading(h),
         WellFormed(h), Octet(h) \in 1..63,
         NEW g, g.query = h.query, g.jumps = h.jumps, g.offset = h.offset + 1 + Octet(h),
         g.next = After(h, 1 + Octet(h)), g.text = Join(h.text, Label(h.query, h.offset))
  PROVE  Reading(g)
<1>. DEFINE p == h.query
            o == h.offset
            d == h.jumps
            label == Label(p, o)
            rest == Names(p)[<<o + 1 + p[o + 1], d>>]
<1>1. /\ p \in Packets /\ o \in 0..Len(p) /\ d \in 0..MaxDepth /\ h.text \in Seq(0..255)
      /\ Len(p) >= HeaderSize /\ p[1] = 1
      /\ Names(p)[<<HeaderSize, 0>>] = {Completed(h, name) : name \in Names(p)[<<o, d>>]}
      /\ Names(p)[<<o, d>>] = NamesAt(Names(p), p, o, d)
  BY DecoderAt
<1>2. IsLabel(p, o) /\ Octet(h) = p[o + 1]
  BY <1>1, DecodesFormat DEF Octet, Query
<1>. HIDE DEF p, o, d
<1>3. label \in Seq(0..255) /\ label # <<>>
  BY <1>1, <1>2, LabelOctets
<1>4. o + 1 + p[o + 1] \in 0..Len(p)
  BY <1>1, <1>2, LabelLeads
<1>5. Names(p)[<<o, d>>] = {[text |-> Before(label, name.text), end |-> name.end] : name \in rest}
  <2>1. NamesAt(Names(p), p, o, d) =
          {[text |-> Before(Label(p, o), name.text), end |-> name.end] :
             name \in Names(p)[<<o + 1 + p[o + 1], d>>]}
    BY <1>1, <1>2, AtLabel
  <2>. QED BY <1>1, <2>1
<1>. HIDE DEF label
<1>. DEFINE longer(name) == [text |-> Before(label, name.text), end |-> name.end]
<1>6. Names(p)[<<HeaderSize, 0>>] = {Completed(h, longer(name)) : name \in rest}
  BY <1>1, <1>5
<1>7. ASSUME NEW name \in rest PROVE Completed(h, longer(name)) = Completed(g, name)
  <2>1. name.text \in Seq(0..255)
    BY <1>1, <1>4, <1>7, FoundNames
  <2>2. Join(g.text, name.text) = Join(h.text, Before(label, name.text))
    BY <1>1, <1>3, <2>1, JoinBefore DEF label, p, o
  <2>3. longer(name).text = Before(label, name.text) /\ longer(name).end = name.end
    OBVIOUS
  <2>4. g.jumps = d /\ h.jumps = d /\ (d # 0 => g.next = h.next)
    BY DEF After, d
  <2>. HIDE DEF longer
  <2>. QED BY <2>2, <2>3, <2>4 DEF Completed
<1>8. g.offset = o + 1 + p[o + 1] /\ g.query = p /\ g.jumps = d
  BY <1>2 DEF p, o, d
<1>. HIDE DEF longer
<1>9. Names(p)[<<HeaderSize, 0>>] = {Completed(g, name) : name \in rest}
  BY <1>6, <1>7
<1>. QED BY <1>1, <1>8, <1>9 DEF Reading

LEMMA PointerReads ==
  ASSUME NEW h \in Handlers, Within(h), h.stage = "decode", Reading(h),
         WellFormed(h), Octet(h) >= 192,
         NEW g, g.query = h.query, g.jumps = h.jumps + 1, g.offset = Pointer(h),
         g.next = After(h, 2), g.text = h.text
  PROVE  Reading(g)
<1>. DEFINE p == h.query
            o == h.offset
            d == h.jumps
            rest == Names(p)[<<Target(p, o), d + 1>>]
            shorter(name) == [text |-> name.text, end |-> o + 2]
<1>1. /\ p \in Packets /\ o \in 0..Len(p) /\ d \in 0..MaxDepth
      /\ Len(p) >= HeaderSize /\ p[1] = 1
      /\ Names(p)[<<HeaderSize, 0>>] = {Completed(h, name) : name \in Names(p)[<<o, d>>]}
      /\ Names(p)[<<o, d>>] = NamesAt(Names(p), p, o, d)
  BY DecoderAt
<1>2. IsPointer(p, o) /\ d < MaxDepth /\ Pointer(h) = Target(p, o)
  BY <1>1, DecodesFormat
<1>3. g.offset = Target(p, o) /\ g.query = p /\ g.jumps = d + 1 /\ g.text = h.text
  BY <1>2
<1>4. g.jumps # 0 /\ g.next = (IF h.jumps = 0 THEN o + 2 ELSE h.next)
  <2>1. d + 1 # 0
    <3>. HIDE DEF d
    <3>. QED BY <1>1, SizesInt
  <2>. QED BY <1>3, <2>1 DEF After
<1>. HIDE DEF p, o, d
<1>5. Names(p)[<<o, d>>] = {shorter(name) : name \in rest}
  BY <1>1, <1>2, AtPointer
<1>6. Names(p)[<<HeaderSize, 0>>] = {Completed(h, shorter(name)) : name \in rest}
  BY <1>1, <1>5
<1>7. ASSUME NEW name \in rest PROVE Completed(h, shorter(name)) = Completed(g, name)
  <2>1. shorter(name).text = name.text /\ shorter(name).end = o + 2
    OBVIOUS
  <2>. HIDE DEF shorter
  <2>. QED BY <1>3, <1>4, <2>1 DEF Completed
<1>. HIDE DEF shorter
<1>8. Names(p)[<<HeaderSize, 0>>] = {Completed(g, name) : name \in rest}
  BY <1>6, <1>7
<1>. QED BY <1>1, <1>3, <1>8 DEF Reading

\* At an octet 0, the text that was read is the name, and the question ends after it.
LEMMA EndReads ==
  ASSUME NEW h \in Handlers, Within(h), h.stage = "decode", Reading(h), IsEnd(h.query, h.offset)
  PROVE  Asks(h.query) = IF After(h, 1) + TrailerSize <= Len(h.query) THEN {h.text} ELSE {}
<1>. DEFINE p == h.query
            name == [text |-> <<>>, end |-> h.offset + 1]
<1>1. /\ p \in Packets /\ h.offset \in 0..Len(p) /\ h.text \in Seq(0..255)
      /\ Len(p) >= HeaderSize /\ p[1] = 1
      /\ Names(p)[<<HeaderSize, 0>>] = {Completed(h, m) : m \in Names(p)[<<h.offset, h.jumps>>]}
      /\ Names(p)[<<h.offset, h.jumps>>] = NamesAt(Names(p), p, h.offset, h.jumps)
  BY DecoderAt
<1>2. Names(p)[<<h.offset, h.jumps>>] = {name}
  BY <1>1, AtEnd
<1>3. name.text = <<>> /\ name.end = h.offset + 1
  OBVIOUS
<1>. HIDE DEF name
<1>4. Completed(h, name) = [text |-> h.text, end |-> After(h, 1)]
  <2>1. Join(h.text, <<>>) = h.text
    BY DEF Join
  <2>. QED BY <1>3, <2>1 DEF Completed, After
<1>5. Names(p)[<<HeaderSize, 0>>] = {[text |-> h.text, end |-> After(h, 1)]}
  BY <1>1, <1>2, <1>4
<1>. QED BY <1>1, <1>5, AsksOne

LEMMA EndDecides ==
  ASSUME NEW h \in Handlers, Within(h), h.stage = "decode", Reading(h), WellFormed(h), Octet(h) = 0
  PROVE  AsksBlocked(h.query) <=> Matches(LowerCase(Trim(h.text)))
<1>1. h.query \in Packets /\ h.text \in Seq(0..255)
  BY DecoderAt
<1>2. Asks(h.query) = {h.text}
  BY <1>1, DecodesFormat, EndReads
<1>. DEFINE text == LowerCase(Trim(h.text))
<1>3. text \in Seq(0..255)
  BY <1>1, LowerCaseOctets
<1>4. AsksBlocked(h.query) <=> \E name \in Blocked : text = name \/ IsSuffix(<<Dot>> \o name, text)
  BY <1>2 DEF AsksBlocked
<1>. HIDE DEF text
<1>5. AsksBlocked(h.query) <=> Matches(text)
  BY <1>3, <1>4, MatchesMeans
<1>. QED BY <1>5 DEF text

LEMMA FailDecides ==
  ASSUME NEW h \in Handlers, Within(h), h.stage = "decode", Reading(h), ~WellFormed(h)
  PROVE  ~AsksBlocked(h.query)
<1>1. /\ h.query \in Packets /\ h.offset \in 0..Len(h.query)
      /\ Names(h.query)[<<HeaderSize, 0>>]
           = {Completed(h, name) : name \in Names(h.query)[<<h.offset, h.jumps>>]}
      /\ Names(h.query)[<<h.offset, h.jumps>>]
           = NamesAt(Names(h.query), h.query, h.offset, h.jumps)
  BY DecoderAt
<1>2. Asks(h.query) = {}
  <2>1. CASE IsEnd(h.query, h.offset) /\ ~(After(h, 1) + TrailerSize <= Len(h.query))
    BY <2>1, EndReads
  <2>2. CASE /\ ~IsEnd(h.query, h.offset) /\ ~IsLabel(h.query, h.offset)
             /\ ~(IsPointer(h.query, h.offset) /\ h.jumps < MaxDepth)
    <3>1. Names(h.query)[<<h.offset, h.jumps>>] = {}
      BY <1>1, <2>2, AtNothing
    <3>2. Names(h.query)[<<HeaderSize, 0>>] = {}
      BY <1>1, <3>1
    <3>. QED BY <3>2, AsksNone
  <2>. QED BY <1>1, <2>1, <2>2, DecodesFormat
<1>. QED BY <1>2 DEF AsksBlocked

LEMMA AnswerMoves ==
  ASSUME DecoderInv, AnswerInv, NEW c \in Clients, NEW h, Move(c, h), Reading(h), Decided(h)
  PROVE  AnswerInv'
<1>1. handler' = [handler EXCEPT ![c] = h] /\ handler \in [Clients -> Handlers]
  BY DEF Move, DecoderInv
<1>2. ASSUME NEW k \in Clients PROVE Reading(handler'[k]) /\ Decided(handler'[k])
  <2>1. handler'[k] = h \/ handler'[k] = handler[k]
    BY <1>1
  <2>. QED BY <2>1 DEF AnswerInv
<1>. QED BY <1>2 DEF AnswerInv

LEMMA BeginAnswers ==
  ASSUME DecoderInv, AnswerInv, NEW c \in Clients, NEW over \in {"udp", "tcp"}, NEW p \in Packets,
         Begin(c, over, p)
  PROVE  AnswerInv'
<1>. DEFINE stage == IF Len(p) >= HeaderSize /\ p[1] = 1 THEN "decode" ELSE "dial"
            h == [Idle EXCEPT !.over = over, !.query = p, !.offset = HeaderSize, !.next = HeaderSize,
                    !.stage = stage]
<1>1. Move(c, h)
  BY DEF Begin
<1>2. h.stage = stage /\ h.query = p /\ h.offset = HeaderSize /\ h.jumps = 0 /\ h.text = <<>>
  BY DEF Idle
<1>. HIDE DEF h
<1>3. CASE Len(p) >= HeaderSize /\ p[1] = 1
  <2>1. Reading(h) /\ h.stage = "decode"
    BY <1>2, <1>3, BeginReads
  <2>2. Decided(h)
    BY <2>1 DEF Decided
  <2>. QED BY <1>1, <2>1, <2>2, AnswerMoves
<1>4. CASE ~(Len(p) >= HeaderSize /\ p[1] = 1)
  <2>1. Asks(p) = {} /\ h.stage = "dial"
    BY <1>2, <1>4 DEF Asks
  <2>2. Reading(h) /\ Decided(h)
    BY <1>2, <2>1 DEF Reading, Decided, AsksBlocked
  <2>. QED BY <1>1, <2>2, AnswerMoves
<1>. QED BY <1>3, <1>4

\* A step of a handler that leaves its query alone and decides on it, or keeps the decision.
LEMMA GoAnswers ==
  ASSUME DecoderInv, AnswerInv, NEW c \in Clients, NEW stage \in {"refuse", "dial", "upstream"},
         Go(c, stage), stage = "refuse" <=> AsksBlocked(handler[c].query)
  PROVE  AnswerInv'
<1>. DEFINE h == [handler[c] EXCEPT !.stage = stage]
<1>1. Move(c, h) /\ handler[c] \in Handlers
  BY DEF Go, DecoderInv
<1>2. h.stage = stage /\ h.query = handler[c].query
  BY <1>1 DEF Handlers
<1>. HIDE DEF h
<1>3. Reading(h) /\ Decided(h)
  BY <1>2 DEF Reading, Decided
<1>. QED BY <1>1, <1>3, AnswerMoves

LEMMA DecodeAnswers ==
  ASSUME DecoderInv, AnswerInv, NEW c \in Clients, Decode(c)
  PROVE  AnswerInv'
<1>. DEFINE h == handler[c]
<1>1. h \in Handlers /\ Within(h) /\ h.stage = "decode" /\ Reading(h)
  BY DEF DecoderInv, AnswerInv, Decode, DecodeFails, DecodeLabel, DecodePointer, DecodeEnds
<1>2. CASE DecodeFails(c)
  <2>1. ~AsksBlocked(h.query) /\ Go(c, "dial")
    BY <1>1, <1>2, FailDecides DEF DecodeFails
  <2>. QED BY <2>1, GoAnswers
<1>3. CASE DecodeEnds(c)
  <2>1. WellFormed(h) /\ Octet(h) = 0
        /\ Go(c, IF Matches(LowerCase(Trim(h.text))) THEN "refuse" ELSE "dial")
    BY <1>3 DEF DecodeEnds
  <2>2. AsksBlocked(h.query) <=> Matches(LowerCase(Trim(h.text)))
    BY <1>1, <2>1, EndDecides
  <2>3. CASE AsksBlocked(h.query)
    <3>1. Go(c, "refuse")
      BY <2>1, <2>2, <2>3
    <3>. QED BY <2>3, <3>1, GoAnswers
  <2>4. CASE ~AsksBlocked(h.query)
    <3>1. Go(c, "dial")
      BY <2>1, <2>2, <2>4
    <3>. QED BY <2>4, <3>1, GoAnswers
  <2>. QED BY <2>3, <2>4
<1>4. CASE DecodeLabel(c)
  <2>. DEFINE n == Octet(h)
              label == SubSeq(Query(h), h.offset + 2, h.offset + 1 + n)
              g == [h EXCEPT !.offset = @ + 1 + n, !.next = After(h, 1 + n), !.text = Join(@, label)]
  <2>1. WellFormed(h) /\ n \in 1..63 /\ Move(c, g)
    BY <1>4 DEF DecodeLabel
  <2>2. label = Label(h.query, h.offset)
    BY DEF Label, Query, Octet
  <2>. HIDE DEF label
  <2>3. /\ g.query = h.query /\ g.jumps = h.jumps /\ g.offset = h.offset + 1 + n
        /\ g.next = After(h, 1 + n) /\ g.text = Join(h.text, label) /\ g.stage = "decode"
    BY <1>1 DEF Handlers
  <2>. HIDE DEF g, h
  <2>4. Reading(g)
    BY <1>1, <2>1, <2>2, <2>3, LabelReads
  <2>5. Decided(g)
    BY <2>3 DEF Decided
  <2>. QED BY <2>1, <2>4, <2>5, AnswerMoves
<1>5. CASE DecodePointer(c)
  <2>. DEFINE g == [h EXCEPT !.offset = Pointer(h), !.next = After(h, 2), !.jumps = @ + 1]
  <2>1. WellFormed(h) /\ Octet(h) >= 192 /\ Move(c, g)
    BY <1>5 DEF DecodePointer
  <2>2. /\ g.query = h.query /\ g.jumps = h.jumps + 1 /\ g.offset = Pointer(h)
        /\ g.next = After(h, 2) /\ g.text = h.text /\ g.stage = "decode"
    BY <1>1 DEF Handlers
  <2>. HIDE DEF g, h
  <2>3. Reading(g)
    BY <1>1, <2>1, <2>2, PointerReads
  <2>4. Decided(g)
    BY <2>2 DEF Decided
  <2>. QED BY <2>1, <2>3, <2>4, AnswerMoves
<1>. QED BY <1>2, <1>3, <1>4, <1>5 DEF Decode

\* A query is refused exactly when the name that the format gives its packet is blocked
\* or below a blocked one, wherever its pointers lead, however labels and case spell it
\* and whatever other datagrams pass through the buffer meanwhile.
THEOREM RefusedExactlyWhenBlocked == Spec => []BlockedIsRefused
<1>1. Init => AnswerInv
  BY DEF Init, AnswerInv, Reading, Decided, Idle
<1>2. DecoderInv /\ AnswerInv /\ [Next]_vars => AnswerInv'
  <2>. SUFFICES ASSUME DecoderInv, AnswerInv, [Next]_vars PROVE AnswerInv'
    OBVIOUS
  <2>1. ASSUME UNCHANGED handler PROVE AnswerInv'
    BY <2>1 DEF AnswerInv
  <2>2. ASSUME NEW c \in Clients, ReceiveUDP(c) PROVE AnswerInv'
    BY <2>1, <2>2, BeginAnswers DEF ReceiveUDP
  <2>3. ASSUME NEW c \in Clients, AcceptTCP(c) PROVE AnswerInv'
    <3>. DEFINE h == [Idle EXCEPT !.stage = "read", !.over = "tcp"]
    <3>1. Move(c, h)
      BY <2>3 DEF AcceptTCP
    <3>2. Reading(h) /\ Decided(h)
      BY DEF Idle, Reading, Decided
    <3>. HIDE DEF h
    <3>. QED BY <3>1, <3>2, AnswerMoves
  <2>4. ASSUME NEW c \in Clients, ReadTCP(c) PROVE AnswerInv'
    BY <2>4, BeginAnswers DEF ReadTCP
  <2>5. ASSUME NEW c \in Clients, Done(c) PROVE AnswerInv'
    <3>1. Reading(Idle) /\ Decided(Idle)
      BY DEF Idle, Reading, Decided
    <3>. QED BY <2>5, <3>1, AnswerMoves DEF Done
  <2>6. ASSUME NEW c \in Clients, Dialled(c) PROVE AnswerInv'
    <3>1. handler[c].stage = "dial" /\ Go(c, "upstream")
      BY <2>6 DEF Dialled
    <3>2. ~AsksBlocked(handler[c].query)
      BY <3>1 DEF AnswerInv, Decided
    <3>. QED BY <3>1, <3>2, GoAnswers
  <2>7. ASSUME NEW over \in serving, LoopEnds(over) PROVE AnswerInv'
    BY <2>1, <2>7 DEF LoopEnds
  <2>8. CASE UNCHANGED vars
    BY <2>1, <2>8 DEF vars
  <2>. QED BY <2>2, <2>3, <2>4, <2>5, <2>6, <2>7, <2>8, DecodeAnswers DEF Next
<1>3. AnswerInv => BlockedIsRefused
  BY DEF AnswerInv, Decided, BlockedIsRefused
<1>. QED BY <1>1, <1>2, <1>3, DecoderInvHolds, PTL DEF Spec

-----------------------------------------------------------------------------
(* The decoder ends *)

\* What a handler in the decoder has before it: labels use up the packet, and each
\* pointer one of those it may follow.
Remaining(h) == Rank(h.query, h.offset, h.jumps)

\* A step that a handler takes in the decoder ends the decoding or brings it nearer
\* to its end.
DecodingAdvances ==
  \A c \in Clients :
    handler[c].stage = "decode" =>
      \/ handler'[c] = handler[c]
      \/ handler'[c].stage # "decode"
      \/ Remaining(handler'[c]) \in Nat /\ Remaining(handler'[c]) < Remaining(handler[c])

LEMMA DecodeAdvances ==
  ASSUME DecoderInv, NEW c \in Clients, Decode(c)
  PROVE  \/ handler'[c].stage # "decode"
         \/ Remaining(handler'[c]) \in Nat /\ Remaining(handler'[c]) < Remaining(handler[c])
<1>. DEFINE h == handler[c]
            p == h.query
            o == h.offset
            d == h.jumps
<1>1. handler \in [Clients -> Handlers] /\ h \in Handlers /\ Within(h) /\ d \in 0..MaxDepth
  BY DEF DecoderInv, Handlers
<1>2. ASSUME NEW g, Move(c, g) PROVE handler'[c] = g
  BY <1>1, <1>2 DEF Move
<1>3. ASSUME NEW stage, Go(c, stage) PROVE handler'[c].stage = stage
  <2>1. handler'[c] = [h EXCEPT !.stage = stage]
    BY <1>2, <1>3 DEF Go
  <2>. QED BY <1>1, <2>1 DEF Handlers
<1>4. CASE DecodeFails(c)
  BY <1>3, <1>4 DEF DecodeFails
<1>5. CASE DecodeEnds(c)
  <2>1. Go(c, "refuse") \/ Go(c, "dial")
    BY <1>5 DEF DecodeEnds
  <2>. QED BY <1>3, <2>1
<1>6. CASE DecodeLabel(c)
  <2>1. h.stage = "decode" /\ WellFormed(h) /\ Octet(h) \in 1..63
    BY <1>6 DEF DecodeLabel
  <2>2. p \in Packets /\ o \in 0..Len(p)
    BY <1>1, <2>1, ReadsOctets DEF Within
  <2>3. IsLabel(p, o) /\ Octet(h) = p[o + 1]
    BY <1>1, <2>1, <2>2, DecodesFormat DEF Octet, Query
  <2>4. /\ o + 1 + p[o + 1] \in 0..Len(p)
        /\ Rank(p, o + 1 + p[o + 1], d) < Rank(p, o, d)
    BY <1>1, <2>2, <2>3, LabelLeads
  <2>5. Rank(p, o + 1 + p[o + 1], d) \in Nat
    BY <1>1, <2>2, <2>4, RankBounds
  <2>6. /\ handler'[c].query = p /\ handler'[c].jumps = d
        /\ handler'[c].offset = o + 1 + Octet(h)
    <3>1. PICK text, next :
            Move(c, [h EXCEPT !.offset = @ + 1 + Octet(h), !.next = next, !.text = text])
      BY <1>6 DEF DecodeLabel
    <3>2. handler'[c] = [h EXCEPT !.offset = @ + 1 + Octet(h), !.next = next, !.text = text]
      BY <1>2, <3>1
    <3>. QED BY <1>1, <3>2 DEF Handlers
  <2>. QED BY <2>3, <2>4, <2>5, <2>6 DEF Remaining
<1>7. CASE DecodePointer(c)
  <2>1. h.stage = "decode" /\ WellFormed(h) /\ Octet(h) >= 192
    BY <1>7 DEF DecodePointer
  <2>2. p \in Packets /\ o \in 0..Len(p)
    BY <1>1, <2>1, ReadsOctets DEF Within
  <2>3. IsPointer(p, o) /\ d < MaxDepth /\ Pointer(h) = Target(p, o)
    BY <1>1, <2>1, <2>2, DecodesFormat
  <2>4. /\ Target(p, o) \in 0..Len(p) /\ d + 1 \in 0..MaxDepth
        /\ Rank(p, Target(p, o), d + 1) < Rank(p, o, d)
    BY <1>1, <2>2, <2>3, PointerLeads
  <2>5. Rank(p, Target(p, o), d + 1) \in Nat
    BY <2>2, <2>4, RankBounds
  <2>6. /\ handler'[c].query = p /\ handler'[c].jumps = d + 1
        /\ handler'[c].offset = Pointer(h)
    <3>1. PICK next : Move(c, [h EXCEPT !.offset = Pointer(h), !.next = next, !.jumps = @ + 1])
      BY <1>7 DEF DecodePointer
    <3>2. handler'[c] = [h EXCEPT !.offset = Pointer(h), !.next = next, !.jumps = @ + 1]
      BY <1>2, <3>1
    <3>. QED BY <1>1, <3>2 DEF Handlers
  <2>. QED BY <2>3, <2>4, <2>5, <2>6 DEF Remaining
<1>. QED BY <1>4, <1>5, <1>6, <1>7 DEF Decode

\* A step of another handler leaves this one alone.
LEMMA OthersStay ==
  ASSUME DecoderInv, NEW c \in Clients, NEW other \in Clients, c # other, NEW g, Move(other, g)
  PROVE  handler'[c] = handler[c]
BY DEF DecoderInv, Move

\* Wherever the lengths and pointers of a packet lead, forward, back or to themselves,
\* no step of decodeName goes in a circle: what is before it decreases with each.
THEOREM DecoderAlwaysAdvances == Spec => [][DecodingAdvances]_vars
<1>1. DecoderInv /\ [Next]_vars => [DecodingAdvances]_vars
  <2>. SUFFICES ASSUME DecoderInv, Next, NEW c \in Clients, handler[c].stage = "decode"
                PROVE  \/ handler'[c] = handler[c]
                       \/ handler'[c].stage # "decode"
                       \/ /\ Remaining(handler'[c]) \in Nat
                          /\ Remaining(handler'[c]) < Remaining(handler[c])
    BY DEF DecodingAdvances
  <2>1. ASSUME NEW other \in Clients, NEW g, c # other, Move(other, g)
        PROVE  handler'[c] = handler[c]
    BY <2>1, OthersStay
  <2>2. ASSUME NEW other \in Clients, c # other,
               \/ ReceiveUDP(other) \/ AcceptTCP(other) \/ ReadTCP(other)
               \/ Done(other) \/ Dialled(other) \/ Decode(other)
        PROVE  handler'[c] = handler[c]
    <3>1. UNCHANGED handler \/ \E g : Move(other, g)
      BY <2>2 DEF ReceiveUDP, AcceptTCP, ReadTCP, Begin, Done, Dialled, Decode, DecodeFails,
                  DecodeEnds, DecodeLabel, DecodePointer, Go
    <3>. QED BY <2>1, <2>2, <3>1
  <2>3. ASSUME ReceiveUDP(c) PROVE handler'[c] = handler[c]
    BY <2>3 DEF ReceiveUDP, Idle
  <2>4. ~AcceptTCP(c) /\ ~ReadTCP(c) /\ ~Done(c) /\ ~Dialled(c)
    BY DEF AcceptTCP, ReadTCP, Done, Expires, Dialled, Idle
  <2>5. ASSUME NEW over \in serving, LoopEnds(over) PROVE handler'[c] = handler[c]
    BY <2>5 DEF LoopEnds
  <2>6. CASE \E other \in Clients :
               \/ ReceiveUDP(other) \/ AcceptTCP(other) \/ ReadTCP(other)
               \/ Done(other) \/ Dialled(other) \/ Decode(other)
    BY <2>2, <2>3, <2>4, <2>6, DecodeAdvances
  <2>. QED BY <2>5, <2>6 DEF Next
<1>. QED BY <1>1, DecoderInvHolds, PTL DEF Spec
=============================================================================
