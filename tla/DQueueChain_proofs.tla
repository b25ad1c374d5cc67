------------------------- MODULE DQueueChain_proofs -------------------------
(***************************************************************************)
(* What can be reached from the head of a channel: no block is lost, and   *)
(* the chains are first-in first-out queues.                               *)
(***************************************************************************)
EXTENDS DQueueFifo, DQueueOrder_proofs, SequenceTheorems, FiniteSetTheorems,
        WellFoundedInduction

(* A set of numbers has a least one: induction by the least counterexample. *)
LEMMA NatMin ==
  ASSUME NEW T \in SUBSET Nat, T # {}
  PROVE  \E x \in T : \A y \in T : x <= y
<1>1. IsWellFoundedOn(OpToRel(<, Nat), Nat)
  BY NatLessThanWellFounded
<1>2. PICK x \in T : \A y \in T : ~ (<<y, x>> \in OpToRel(<, Nat))
  BY <1>1, WFMin
<1>3. ASSUME NEW y \in T, y < x PROVE FALSE
  <2>1. <<y, x>> \in Nat \X Nat
    OBVIOUS
  <2>2. <<y, x>> \in OpToRel(<, Nat)
    BY <1>3, <2>1 DEF OpToRel
  <2> QED
    BY <1>2, <2>2
<1>4. \A y \in T : x <= y
  BY <1>3
<1> QED
  BY <1>4

(* A function on Nat is defined by its first value and the step to the next.*)
Iterate(f, S, A, G) ==
    f \in [Nat -> S] /\ f = [n \in Nat |-> IF n = 0 THEN A ELSE G[f[n - 1]]]

LEMMA Iterates ==
  ASSUME NEW S, NEW A \in S, NEW G \in [S -> S]
  PROVE  \E f : Iterate(f, S, A, G)
<1> DEFINE
           Goes(g, n) == g \in [0 .. n -> S] /\ g[0] = A /\ \A i \in 1 .. n : g[i] = G[g[i - 1]]
<1>1. ASSUME NEW n \in Nat PROVE \E g : Goes(g, n)
  <2> DEFINE T == {i \in Nat : ~ \E g : Goes(g, i)}
  <2> SUFFICES ASSUME T # {} PROVE FALSE
    OBVIOUS
  <2>1. PICK m \in T : \A i \in T : m <= i
    <3>1. T \in SUBSET Nat
      OBVIOUS
    <3> QED
      BY <3>1, NatMin
  <2>2. Goes([i \in 0 .. 0 |-> A], 0)
    OBVIOUS
  <2>3. m # 0 /\ m \in Nat
    BY <2>2
  <2>4. PICK g : Goes(g, m - 1)
    <3>1. m - 1 \in Nat /\ ~ (m <= m - 1)
      BY <2>3
    <3>2. m - 1 \notin T
      BY <2>1, <3>1
    <3> HIDE DEF Goes
    <3> QED
      BY <3>1, <3>2
  <2> DEFINE h == [i \in 0 .. m |-> IF i = m THEN G[g[m - 1]] ELSE g[i]]
  <2>5. Goes(h, m)
    <3>1. g[m - 1] \in S /\ \A i \in 0 .. m - 1 : g[i] \in S
      BY <2>3, <2>4
    <3>2. h \in [0 .. m -> S] /\ h[0] = A
      BY <2>3, <2>4, <3>1
    <3>3. ASSUME NEW i \in 1 .. m PROVE h[i] = G[h[i - 1]]
      <4>1. i - 1 \in 0 .. m /\ i - 1 # m /\ i \in 0 .. m
        BY <2>3
      <4>2. h[i - 1] = g[i - 1]
        BY <4>1
      <4>3. CASE i = m
        BY <4>1, <4>2, <4>3
      <4>4. CASE i # m
        <5>1. i \in 1 .. m - 1
          BY <2>3, <4>4
        <5> QED
          BY <2>4, <4>1, <4>2, <4>4, <5>1
      <4> QED
        BY <4>3, <4>4
    <3> QED
      BY <3>2, <3>3
  <2> QED
    BY <2>1, <2>5
<1>2. ASSUME NEW n \in Nat, NEW m \in Nat, NEW g, NEW h, Goes(g, n), Goes(h, m)
      PROVE  \A i \in 0 .. n : i <= m => g[i] = h[i]
  <2> DEFINE T == {i \in 0 .. n : i <= m /\ g[i] # h[i]}
  <2> SUFFICES ASSUME T # {} PROVE FALSE
    OBVIOUS
  <2>1. PICK k \in T : \A i \in T : k <= i
    <3>1. T \in SUBSET Nat
      OBVIOUS
    <3> QED
      BY <3>1, NatMin
  <2>2. k # 0
    BY <1>2, <2>1
  <2>3. k - 1 \in 0 .. n /\ k - 1 <= m /\ k \in 1 .. n /\ k \in 1 .. m
    BY <2>1, <2>2
  <2>4. g[k - 1] = h[k - 1]
    BY <2>1, <2>3
  <2>5. g[k] = G[g[k - 1]] /\ h[k] = G[h[k - 1]]
    BY <1>2, <2>3
  <2> QED
    BY <2>1, <2>4, <2>5
<1> DEFINE f == [n \in Nat |-> (CHOOSE g : Goes(g, n))[n]]
<1>3. ASSUME NEW n \in Nat PROVE Goes(CHOOSE g : Goes(g, n), n)
  <2> HIDE DEF Goes
  <2> QED
    BY <1>1, <1>3
<1>4. ASSUME NEW n \in Nat PROVE f[n] \in S /\ f[n] = IF n = 0 THEN A ELSE G[f[n - 1]]
  <2> PICK g : g = CHOOSE h : Goes(h, n)
    OBVIOUS
  <2>1. Goes(g, n) /\ f[n] = g[n]
    BY <1>3
  <2>2. f[n] \in S
    BY <2>1
  <2>3. CASE n = 0
    BY <2>1, <2>2, <2>3
  <2>4. CASE n # 0
    <3> PICK k \in Nat : k = n - 1
      BY <2>4
    <3> PICK h : h = CHOOSE e : Goes(e, k)
      OBVIOUS
    <3>1. Goes(h, k) /\ f[k] = h[k]
      <4>1. f[k] = h[k]
        OBVIOUS
      <4> HIDE DEF Goes, f
      <4>2. Goes(h, k)
        BY <1>3
      <4> QED
        BY <4>1, <4>2
    <3>2. h[k] = g[k]
      <4>1. k \in 0 .. k /\ k <= n
        OBVIOUS
      <4> HIDE DEF Goes
      <4> QED
        BY <1>2, <2>1, <3>1, <4>1
    <3>3. g[n] = G[g[n - 1]]
      <4>1. n \in 1 .. n
        BY <2>4
      <4> QED
        BY <2>1, <4>1
    <3> HIDE DEF Goes, f
    <3>4. f[n] = G[f[n - 1]]
      BY <2>1, <3>1, <3>2, <3>3
    <3> QED
      BY <2>2, <2>4, <3>4
  <2> QED
    BY <2>3, <2>4
<1>5. f \in [Nat -> S]
  BY <1>4
<1>6. f = [n \in Nat |-> IF n = 0 THEN A ELSE G[f[n - 1]]]
  <2> HIDE DEF f
  <2> QED
    BY <1>4, <1>5
<1> HIDE DEF f
<1> QED
  BY <1>5, <1>6 DEF Iterate

-----------------------------------------------------------------------------
LEMMA UnreadIs ==
  ASSUME PoolType, NEW b \in Blocks
  PROVE  /\ Unread(b) \in Seq(AnyChars)
         /\ in[b] \in 0 .. BLK /\ out[b] \in 0 .. BLK
         /\ out[b] <= in[b] => /\ Len(Unread(b)) = in[b] - out[b]
                               /\ \A i \in 1 .. in[b] - out[b] : Unread(b)[i] = data[b][out[b] + i - 1]
         /\ out[b] >= in[b] => Unread(b) = <<>>
<1>1. in[b] \in 0 .. BLK /\ out[b] \in 0 .. BLK /\ data[b] \in [0 .. BLK - 1 -> AnyChars]
  BY DEF PoolType
<1>2. \A i \in 1 .. in[b] - out[b] : data[b][out[b] + i - 1] \in AnyChars
  <2> SUFFICES ASSUME NEW i \in 1 .. in[b] - out[b]
               PROVE  data[b][out[b] + i - 1] \in AnyChars
    OBVIOUS
  <2>1. out[b] + i - 1 \in 0 .. BLK - 1
    BY <1>1, Facts
  <2> QED
    BY <1>1, <2>1
<1>3. CASE out[b] <= in[b]
  <2>1. in[b] - out[b] \in Nat
    BY <1>1, <1>3, Facts
  <2>2. Unread(b) \in [1 .. in[b] - out[b] -> AnyChars]
    BY <1>2 DEF Unread
  <2>3. Unread(b) \in Seq(AnyChars) /\ Len(Unread(b)) = in[b] - out[b]
    BY <2>1, <2>2
  <2>4. \A i \in 1 .. in[b] - out[b] : Unread(b)[i] = data[b][out[b] + i - 1]
    BY DEF Unread
  <2>5. out[b] >= in[b] => Unread(b) = <<>>
    <3> SUFFICES ASSUME out[b] >= in[b] PROVE Unread(b) = <<>>
      OBVIOUS
    <3>1. Len(Unread(b)) = 0
      BY <1>1, <1>3, <2>3, Facts
    <3> QED
      BY <2>3, <3>1, EmptySeq
  <2> QED
    BY <1>1, <2>3, <2>4, <2>5
<1>4. CASE ~ (out[b] <= in[b])
  <2>1. 1 .. in[b] - out[b] = 1 .. 0
    BY <1>1, <1>4, Facts
  <2>2. Unread(b) \in [1 .. 0 -> AnyChars]
    BY <1>2, <2>1 DEF Unread
  <2>3. Unread(b) \in Seq(AnyChars) /\ Len(Unread(b)) = 0
    BY <2>2
  <2> QED
    BY <1>1, <1>4, <2>3, EmptySeq
<1> QED
  BY <1>3, <1>4

(* The equations of the recursive definition.                               *)
LEMMA ChainIs ==
  ASSUME PoolType
  PROVE  /\ Chain \in [Nat -> [Blocks \union {NULL} -> Seq(AnyChars)]]
         /\ \A n \in Nat : Chain[n] =
               IF n = 0 THEN [b \in Blocks \union {NULL} |-> <<>>]
               ELSE [b \in Blocks \union {NULL} |->
                       IF b = NULL THEN <<>> ELSE Unread(b) \o Chain[n - 1][next[b]]]
<1> DEFINE S == [Blocks \union {NULL} -> Seq(AnyChars)]
           A == [b \in Blocks \union {NULL} |-> <<>>]
           G == [g \in S |-> [b \in Blocks \union {NULL} |->
                               IF b = NULL THEN <<>> ELSE Unread(b) \o g[next[b]]]]
<1>1. A \in S /\ G \in [S -> S]
  <2>1. <<>> \in Seq(AnyChars)
    BY EmptySeq
  <2>2. ASSUME NEW g \in S, NEW b \in Blocks PROVE Unread(b) \o g[next[b]] \in Seq(AnyChars)
    <3>1. Unread(b) \in Seq(AnyChars)
      BY UnreadIs
    <3>2. g[next[b]] \in Seq(AnyChars)
      BY DEF PoolType
    <3> QED
      BY <3>1, <3>2, ConcatProperties
  <2> QED
    BY <2>1, <2>2
<1>2. PICK f : f \in [Nat -> S] /\ f = [n \in Nat |-> IF n = 0 THEN A ELSE G[f[n - 1]]]
  <2> HIDE DEF S, A, G
  <2>1. \E f : Iterate(f, S, A, G)
    BY <1>1, Iterates
  <2> QED
    BY <2>1 DEF Iterate
<1>3. ASSUME NEW n \in Nat, n # 0
      PROVE  G[f[n - 1]] = [b \in Blocks \union {NULL} |->
                              IF b = NULL THEN <<>> ELSE Unread(b) \o f[n - 1][next[b]]]
  <2>1. f[n - 1] \in S
    <3> HIDE DEF S, A, G
    <3>1. n - 1 \in Nat
      BY <1>3
    <3> QED
      BY <1>2, <3>1
  <2> QED
    BY <2>1
<1>4. f = [n \in Nat |-> IF n = 0 THEN A
             ELSE [b \in Blocks \union {NULL} |->
                     IF b = NULL THEN <<>> ELSE Unread(b) \o f[n - 1][next[b]]]]
  <2> HIDE DEF G, S
  <2> QED
    BY <1>2, <1>3
<1>5. Chain = [n \in Nat |-> IF n = 0 THEN A
                 ELSE [b \in Blocks \union {NULL} |->
                         IF b = NULL THEN <<>> ELSE Unread(b) \o Chain[n - 1][next[b]]]]
  BY <1>4 DEF Chain
<1>6. ASSUME NEW n \in Nat
      PROVE  Chain[n] = IF n = 0 THEN A
                        ELSE [b \in Blocks \union {NULL} |->
                                IF b = NULL THEN <<>> ELSE Unread(b) \o Chain[n - 1][next[b]]]
  <2> HIDE DEF A
  <2> QED
    BY <1>5
<1>7. ASSUME NEW n \in Nat, n # 0, Chain[n - 1] \in S PROVE Chain[n] = G[Chain[n - 1]]
  BY <1>6, <1>7
<1>8. \A n \in Nat : Chain[n] \in S
  <2> DEFINE T == {n \in Nat : Chain[n] \notin S}
  <2> SUFFICES ASSUME T # {} PROVE FALSE
    OBVIOUS
  <2>1. PICK m \in T : \A n \in T : m <= n
    <3>1. T \in SUBSET Nat
      OBVIOUS
    <3> HIDE DEF T
    <3> QED
      BY <3>1, NatMin
  <2>2. m \in Nat /\ Chain[m] \notin S
    BY <2>1
  <2> HIDE DEF A, G, S
  <2>4. Chain[0] = A
    BY <1>6
  <2>5. m # 0 /\ m - 1 \in Nat /\ ~ (m <= m - 1)
    BY <1>1, <2>2, <2>4
  <2>3. Chain[m - 1] \in S
    BY <2>1, <2>5
  <2> QED
    BY <1>1, <1>7, <2>2, <2>3, <2>5
<1>9. Chain \in [Nat -> S]
  <2> HIDE DEF A, S
  <2> QED
    BY <1>5, <1>8
<1> QED
  BY <1>6, <1>9

LEMMA ChainAt ==
  ASSUME PoolType, NEW n \in Nat
  PROVE  /\ \A p \in Blocks \union {NULL} : Chain[n][p] \in Seq(AnyChars)
         /\ Chain[n][NULL] = <<>>
         /\ \A b \in Blocks : Chain[n + 1][b] = Unread(b) \o Chain[n][next[b]]
<1>1. Chain[n] \in [Blocks \union {NULL} -> Seq(AnyChars)]
  BY ChainIs
<1>2. ASSUME NEW k \in Nat, k # 0
      PROVE  Chain[k] = [b \in Blocks \union {NULL} |->
                           IF b = NULL THEN <<>> ELSE Unread(b) \o Chain[k - 1][next[b]]]
  BY <1>2, ChainIs
<1>3. Chain[n][NULL] = <<>>
  <2>1. CASE n = 0
    <3>1. Chain[n] = [b \in Blocks \union {NULL} |-> <<>>]
      BY <2>1, ChainIs
    <3> QED
      BY <3>1
  <2>2. CASE n # 0
    BY <1>2, <2>2
  <2> QED
    BY <2>1, <2>2
<1>4. \A b \in Blocks : Chain[n + 1][b] = Unread(b) \o Chain[n][next[b]]
  <2> PICK k \in Nat : k = n + 1
    OBVIOUS
  <2>1. k # 0 /\ k - 1 = n
    OBVIOUS
  <2>2. \A b \in Blocks : b # NULL
    BY Facts
  <2>3. Chain[k] = [b \in Blocks \union {NULL} |->
                      IF b = NULL THEN <<>> ELSE Unread(b) \o Chain[n][next[b]]]
    BY <1>2, <2>1
  <2> QED
    BY <2>2, <2>3
<1> QED
  BY <1>1, <1>3, <1>4

-----------------------------------------------------------------------------
(* What PoolInv says of every block, whatever the insider has in hand.      *)
LEMMA ChainFacts ==
  ASSUME IInv
  PROVE  /\ \A b \in Blocks : Used(b) => out[b] <= in[b] /\ Own(b) \in Channels
         /\ \A b \in Blocks : Used(b) /\ next[b] # NULL =>
               /\ next[b] \in Blocks /\ Used(next[b]) /\ Own(next[b]) = Own(b)
               /\ in[b] = BLK /\ Before(b, next[b])
         /\ \A a, b \in Blocks : next[a] = next[b] /\ next[a] # NULL => a = b
         /\ \A b \in Blocks : chl[b] # NoChl => Used(b) /\ Own(b) = chl[b]
<1>1. PICK v, g, f, h : PoolOK(v, g, f, h) /\ (g \in Blocks => ~ Used(g))
  <2>1. CASE \A t \in Actors : ~ Inside(t)
    <3>1. PoolOK(NULL, NULL, NULL, NoChl)
      BY <2>1 DEF IInv, PoolInv
    <3> QED
      BY <3>1, Facts
  <2>2. CASE \E t \in Actors : Inside(t)
    <3> PICK t \in Actors : Inside(t)
      BY <2>2
    <3>1. PoolAt(t)
      BY DEF IInv, PoolInv
    <3>2. Gutted(t) \in Blocks => ~ Used(Gutted(t))
      BY <3>1, Facts DEF PoolAt, Holds, Gutted
    <3> QED
      BY <3>1, <3>2 DEF PoolAt
  <2> QED
    BY <2>1, <2>2
<1>2. \A b \in Blocks : Used(b) => out[b] <= in[b] /\ Own(b) \in Channels
  BY <1>1 DEF PoolOK, ReadOK, IInv, PoolInv, CharsOK
<1>3. \A b \in Blocks : Used(b) /\ next[b] # NULL =>
               /\ next[b] \in Blocks /\ Used(next[b]) /\ Own(next[b]) = Own(b)
               /\ in[b] = BLK /\ Before(b, next[b])
  BY <1>1 DEF PoolOK, LinkOK, IInv, TypeOK, PoolType
<1>4. \A a, b \in Blocks : next[a] = next[b] /\ next[a] # NULL => a = b
  BY <1>1 DEF PoolOK, LinkOK
<1>5. \A b \in Blocks : chl[b] # NoChl => Used(b) /\ Own(b) = chl[b]
  BY <1>1 DEF PoolOK, FreeOK, HeadOK
<1> QED
  BY <1>2, <1>3, <1>4, <1>5

LEMMA BeforeTransitive ==
  ASSUME PoolType, NEW a \in Blocks, NEW b \in Blocks, NEW c \in Blocks,
         Used(b), Before(a, b), Before(b, c)
  PROVE  Before(a, c)
<1> SUFFICES ASSUME NEW k \in 0 .. in[a] - 1, NEW l \in 0 .. in[c] - 1
             PROVE  Ser(a, k) < Ser(c, l)
  BY DEF Before
<1>1. /\ in[a] \in 0 .. BLK /\ in[b] \in 0 .. BLK /\ in[c] \in 0 .. BLK
      /\ \A x \in Blocks : data[x] \in [0 .. BLK - 1 -> AnyChars]
  BY DEF PoolType
<1>2. 0 \in 0 .. in[b] - 1 /\ k \in 0 .. BLK - 1 /\ l \in 0 .. BLK - 1 /\ 0 \in 0 .. BLK - 1
  BY <1>1, Facts DEF Used
<1>3. Ser(a, k) \in Nat /\ Ser(b, 0) \in Nat /\ Ser(c, l) \in Nat
  BY <1>1, <1>2 DEF Ser, AnyChars
<1>4. Ser(a, k) < Ser(b, 0) /\ Ser(b, 0) < Ser(c, l)
  BY <1>2 DEF Before
<1> QED
  BY <1>3, <1>4

(* The blocks of a channel that do not precede b: the measure of every      *)
(* induction along a chain.                                                 *)
After(b)  == {a \in Blocks : Used(a) /\ Own(a) = Own(b) /\ ~ Before(a, b)}
Behind(b) == Cardinality(After(b))

LEMMA BlocksFinite ==
  /\ IsFiniteSet(Blocks) /\ Cardinality(Blocks) = QTY
  /\ \A S \in SUBSET Blocks : IsFiniteSet(S) /\ Cardinality(S) \in 0 .. QTY
<1>1. QTY \in Nat \ {0}
  BY DQueueAssumption DEF DQueueAssumption
<1>2. IsFiniteSet(Blocks) /\ Cardinality(Blocks) = QTY
  BY <1>1, FS_Interval DEF Blocks
<1>3. ASSUME NEW S \in SUBSET Blocks PROVE IsFiniteSet(S) /\ Cardinality(S) \in 0 .. QTY
  <2>1. IsFiniteSet(S) /\ Cardinality(S) <= QTY
    BY <1>2, FS_Subset
  <2> QED
    BY <1>1, <2>1, FS_CardinalityType
<1> QED
  BY <1>2, <1>3

LEMMA BehindFacts ==
  ASSUME IInv, NEW b \in Blocks, Used(b)
  PROVE  /\ Behind(b) \in 1 .. QTY
         /\ next[b] # NULL => Behind(next[b]) < Behind(b)
<1> USE DEF IInv, TypeOK
<1>1. After(b) \in SUBSET Blocks /\ b \in After(b)
  BY Antisymmetric DEF After
<1>2. IsFiniteSet(After(b)) /\ Behind(b) \in 0 .. QTY
  BY <1>1, BlocksFinite DEF Behind
<1>3. Behind(b) # 0
  BY <1>1, <1>2, FS_EmptySet DEF Behind
<1>4. ASSUME next[b] # NULL PROVE Behind(next[b]) < Behind(b)
  <2> PICK n : n = next[b]
    OBVIOUS
  <2>1. n \in Blocks /\ Used(n) /\ Own(n) = Own(b) /\ Before(b, n)
    BY <1>4, ChainFacts
  <2>2. After(n) \subseteq After(b) \ {b}
    BY <2>1, BeforeTransitive DEF After
  <2>3. IsFiniteSet(After(b) \ {b}) /\ Cardinality(After(b) \ {b}) = Behind(b) - 1
    BY <1>1, <1>2, FS_RemoveElement DEF Behind
  <2>4. Behind(n) <= Behind(b) - 1
    BY <2>2, <2>3, FS_Subset DEF Behind
  <2>5. Behind(n) \in Nat
    BY BlocksFinite DEF Behind, After
  <2> QED
    BY <1>2, <2>4, <2>5
<1> QED
  BY <1>2, <1>3, <1>4

(* A chain has no more than QTY blocks, so that ChainFrom sees it to its end.*)
LEMMA FuelSuffices ==
  ASSUME IInv, NEW n \in Nat
  PROVE  \A b \in Blocks : Used(b) /\ Behind(b) <= n => Chain[n + 1][b] = Chain[n][b]
<1> DEFINE P(m) == \A b \in Blocks : Used(b) /\ Behind(b) <= m => Chain[m + 1][b] = Chain[m][b]
           T == {m \in Nat : ~ P(m)}
<1> SUFFICES ASSUME T # {} PROVE FALSE
  OBVIOUS
<1>1. PICK m \in T : \A k \in T : m <= k
  <2>1. T \in SUBSET Nat
    OBVIOUS
  <2> HIDE DEF T
  <2> QED
    BY <2>1, NatMin
<1>2. m \in Nat /\ ~ P(m)
  BY <1>1
<1>3. PICK b \in Blocks : Used(b) /\ Behind(b) <= m /\ Chain[m + 1][b] # Chain[m][b]
  BY <1>2
<1>4. m # 0 /\ m - 1 \in Nat /\ (m - 1) + 1 = m
  BY <1>2, <1>3, BehindFacts
<1>5. P(m - 1)
  <2>1. ~ (m <= m - 1) /\ m - 1 \in Nat
    BY <1>4
  <2> HIDE DEF P
  <2> QED
    BY <1>1, <2>1
<1>6. /\ Chain[m + 1][b] = Unread(b) \o Chain[m][next[b]]
      /\ Chain[m][b] = Unread(b) \o Chain[m - 1][next[b]]
  <2>1. Chain[m + 1][b] = Unread(b) \o Chain[m][next[b]]
    BY <1>2, ChainAt DEF IInv, TypeOK
  <2>2. Chain[(m - 1) + 1][b] = Unread(b) \o Chain[m - 1][next[b]]
    BY <1>4, ChainAt DEF IInv, TypeOK
  <2> QED
    BY <1>4, <2>1, <2>2
<1>7. CASE next[b] = NULL
  <2>1. \A k \in Nat : Chain[k][NULL] = <<>>
    BY ChainAt DEF IInv, TypeOK
  <2> QED
    BY <1>2, <1>3, <1>4, <1>6, <1>7, <2>1
<1>8. CASE next[b] # NULL
  <2>1. /\ next[b] \in Blocks /\ Used(next[b])
        /\ Behind(next[b]) < Behind(b) /\ Behind(b) \in Nat
    BY <1>3, <1>8, ChainFacts, BehindFacts
  <2>2. Behind(next[b]) <= m - 1
    BY <1>2, <1>3, <2>1, BehindFacts
  <2>3. Chain[m][next[b]] = Chain[m - 1][next[b]]
    BY <1>4, <1>5, <2>1, <2>2
  <2> QED
    BY <1>3, <1>6, <2>3
<1> QED
  BY <1>7, <1>8

LEMMA Unfold ==
  IInv => /\ \A p \in Blocks \union {NULL} : ChainFrom(p) \in Seq(AnyChars)
          /\ ChainFrom(NULL) = <<>>
          /\ \A b \in Blocks, n \in Blocks \union {NULL} : Used(b) /\ n = next[b] =>
                ChainFrom(b) = Unread(b) \o ChainFrom(n)
<1> SUFFICES ASSUME IInv
             PROVE  /\ \A p \in Blocks \union {NULL} : ChainFrom(p) \in Seq(AnyChars)
                    /\ ChainFrom(NULL) = <<>>
                    /\ \A b \in Blocks, n \in Blocks \union {NULL} : Used(b) /\ n = next[b] =>
                          ChainFrom(b) = Unread(b) \o ChainFrom(n)
  OBVIOUS
<1>1. QTY \in Nat
  BY DQueueAssumption DEF DQueueAssumption
<1>2. \A p \in Blocks \union {NULL} : ChainFrom(p) \in Seq(AnyChars)
  BY <1>1, ChainAt DEF ChainFrom, IInv, TypeOK
<1>3. ChainFrom(NULL) = <<>>
  BY <1>1, ChainAt DEF ChainFrom, IInv, TypeOK
<1>4. ASSUME NEW b \in Blocks, Used(b)
      PROVE  ChainFrom(b) = Unread(b) \o ChainFrom(next[b])
  <2>1. Chain[QTY + 1][b] = Unread(b) \o Chain[QTY][next[b]]
    BY <1>1, ChainAt DEF IInv, TypeOK
  <2>2. Behind(b) <= QTY
    BY <1>1, <1>4, BehindFacts
  <2>3. Chain[QTY + 1][b] = Chain[QTY][b]
    BY <1>1, <1>4, <2>2, FuelSuffices
  <2> QED
    BY <2>1, <2>3 DEF ChainFrom
<1> QED
  BY <1>2, <1>3, <1>4

LEMMA UnfoldNext ==
  IInv' => /\ \A p \in Blocks \union {NULL} : ChainFrom(p)' \in Seq(AnyChars)
           /\ ChainFrom(NULL)' = <<>>
           /\ \A b \in Blocks, n \in Blocks \union {NULL} : Used(b)' /\ n = next'[b] =>
                 ChainFrom(b)' = Unread(b)' \o ChainFrom(n)'
<1>1. (IInv => /\ \A p \in Blocks \union {NULL} : ChainFrom(p) \in Seq(AnyChars)
               /\ ChainFrom(NULL) = <<>>
               /\ \A b \in Blocks, n \in Blocks \union {NULL} : Used(b) /\ n = next[b] =>
                     ChainFrom(b) = Unread(b) \o ChainFrom(n))'
  BY Unfold, PTL
<1> QED
  BY <1>1

LEMMA Associative ==
  \A u, v, w \in Seq(AnyChars) : u \o (v \o w) = (u \o v) \o w
<1> PICK S : S = AnyChars
  OBVIOUS
<1> SUFFICES ASSUME NEW u \in Seq(S), NEW v \in Seq(S), NEW w \in Seq(S)
             PROVE  u \o (v \o w) = (u \o v) \o w
  OBVIOUS
<1> QED
  OBVIOUS

(* Blocks that stay as they are and lead to one another, down to some whose *)
(* chain has grown by w, start chains that have grown by w.                 *)
LEMMA ChainsGrow ==
  ASSUME IInv, IInv', NEW S \in SUBSET Blocks, NEW w \in Seq(AnyChars),
         \A b \in S : Used(b) /\ Used(b)',
         \A b \in S : \/ ChainFrom(b)' = ChainFrom(b) \o w
                      \/ next[b] \in S /\ next'[b] = next[b] /\ Unread(b)' = Unread(b)
  PROVE  \A b \in S : ChainFrom(b)' = ChainFrom(b) \o w
<1> DEFINE Bad == {b \in S : ChainFrom(b)' # ChainFrom(b) \o w}
           T == {Behind(b) : b \in Bad}
<1> SUFFICES ASSUME Bad # {} PROVE FALSE
  OBVIOUS
<1>1. \A b \in S : Behind(b) \in Nat
  BY BehindFacts
<1>2. PICK m \in T : \A k \in T : m <= k
  <2>1. T \in SUBSET Nat /\ T # {}
    BY <1>1
  <2> HIDE DEF T
  <2> QED
    BY <2>1, NatMin
<1>3. PICK b \in Bad : m = Behind(b)
  BY <1>2
<1>4. /\ b \in S /\ Used(b) /\ Used(b)'
      /\ next[b] \in S /\ next'[b] = next[b] /\ Unread(b)' = Unread(b)
  BY <1>3
<1> PICK n \in Blocks : n = next[b]
  BY <1>4
<1>5. n # NULL /\ n \in S
  BY <1>4, Facts
<1>6. ChainFrom(n)' = ChainFrom(n) \o w
  <2>1. Behind(n) < Behind(b)
    BY <1>4, <1>5, BehindFacts
  <2>2. ~ (m <= Behind(n))
    BY <1>1, <1>3, <1>4, <1>5, <2>1
  <2>3. n \notin Bad
    BY <1>2, <2>2
  <2> QED
    BY <1>5, <2>3
<1>7. ChainFrom(b) = Unread(b) \o ChainFrom(n)
  BY <1>4, Unfold
<1>8. ChainFrom(b)' = Unread(b) \o ChainFrom(n)'
  <2>1. b \in Blocks /\ n \in Blocks \union {NULL} /\ Used(b)' /\ n = next'[b]
    BY <1>4
  <2>2. ChainFrom(b)' = Unread(b)' \o ChainFrom(n)'
    BY <2>1, UnfoldNext
  <2> QED
    BY <1>4, <2>2
<1>9. Unread(b) \in Seq(AnyChars) /\ ChainFrom(n) \in Seq(AnyChars)
  BY <1>4, UnreadIs, Unfold DEF IInv, TypeOK
<1>10. Unread(b) \o (ChainFrom(n) \o w) = (Unread(b) \o ChainFrom(n)) \o w
  <2> DEFINE Cat(u, v) == u \o v
             Strings == Seq(AnyChars)
  <2>1. \A u, v, z \in Strings : Cat(u, Cat(v, z)) = Cat(Cat(u, v), z)
    BY Associative
  <2>2. Unread(b) \in Strings /\ ChainFrom(n) \in Strings /\ w \in Strings
    BY <1>9
  <2>3. Cat(Unread(b), Cat(ChainFrom(n), w)) = Cat(Cat(Unread(b), ChainFrom(n)), w)
    <3> HIDE DEF Cat, Strings
    <3> QED
      BY <2>1, <2>2
  <2> QED
    BY <2>3
<1> QED
  BY <1>3, <1>6, <1>7, <1>8, <1>10

LEMMA ChainsSame ==
  ASSUME IInv, IInv', NEW S \in SUBSET Blocks,
         \A b \in S : /\ Used(b) /\ Used(b)'
                      /\ next[b] \in S \union {NULL} /\ next'[b] = next[b]
                      /\ Unread(b)' = Unread(b)
  PROVE  \A b \in S : ChainFrom(b)' = ChainFrom(b)
<1>1. <<>> \in Seq(AnyChars)
  BY EmptySeq
<1>2. \A b \in S : ChainFrom(b) \o <<>> = ChainFrom(b)
  BY Unfold, ConcatEmptySeq
<1>3. ASSUME NEW b \in S, next[b] = NULL PROVE ChainFrom(b)' = ChainFrom(b) \o <<>>
  <2>1. ChainFrom(b) = Unread(b) \o ChainFrom(NULL) /\ ChainFrom(NULL) = <<>>
    BY <1>3, Unfold
  <2>2. ChainFrom(b)' = Unread(b)' \o ChainFrom(NULL)' /\ ChainFrom(NULL)' = <<>>
    BY <1>3, UnfoldNext
  <2> QED
    BY <1>2, <2>1, <2>2
<1>4. \A b \in S : \/ ChainFrom(b)' = ChainFrom(b) \o <<>>
                   \/ next[b] \in S /\ next'[b] = next[b] /\ Unread(b)' = Unread(b)
  BY <1>3
<1>5. \A b \in S : ChainFrom(b)' = ChainFrom(b) \o <<>>
  BY <1>1, <1>4, ChainsGrow
<1> QED
  BY <1>2, <1>5

-----------------------------------------------------------------------------
(* Where the chain of a channel begins.                                     *)
LEMMA FirstExists ==
  ASSUME NEW c
  PROVE  \E p \in Blocks \union {NULL} : IsFirst(p, c)
<1> DEFINE T == {b \in Blocks : chl[b] = c}
<1>1. CASE T = {}
  BY <1>1 DEF IsFirst
<1>2. CASE T # {}
  <2>1. T \in SUBSET Nat
    BY DEF Blocks
  <2>2. PICK p \in T : \A b \in T : p <= b
    <3> HIDE DEF T
    <3> QED
      BY <1>2, <2>1, NatMin
  <2>3. \A b \in 1 .. p - 1 : chl[b] # c
    <3> SUFFICES ASSUME NEW b \in 1 .. p - 1, chl[b] = c PROVE FALSE
      OBVIOUS
    <3>1. b \in Blocks /\ ~ (p <= b)
      BY <2>1, DQueueAssumption DEF Blocks, DQueueAssumption
    <3> QED
      BY <2>2, <3>1
  <2> QED
    BY <2>2, <2>3 DEF IsFirst
<1> QED
  BY <1>1, <1>2

LEMMA FirstUnique ==
  ASSUME NEW c, NEW p \in Blocks \union {NULL}, NEW q \in Blocks \union {NULL},
         IsFirst(p, c), IsFirst(q, c)
  PROVE  p = q
<1>1. CASE p = NULL \/ q = NULL
  BY <1>1, Facts DEF IsFirst
<1>2. CASE p # NULL /\ q # NULL
  BY <1>2, DQueueAssumption DEF IsFirst, Blocks, DQueueAssumption
<1> QED
  BY <1>1, <1>2

Moving(t) == Clearing(t) \/ ReleasingHead(t) \/ HeadTakenAway(t)

LEMMA StartIs ==
  IInv => \A c \in Channels :
            /\ \A t \in Actors : Inside(t) /\ arg[t] = c =>
                  /\ Clearing(t) => Start(c) = NULL
                  /\ ReleasingHead(t) => Start(c) = cur[t]
                  /\ HeadTakenAway(t) => Start(c) = aux[t]
            /\ (\A t \in Actors : Inside(t) /\ arg[t] = c => ~ Moving(t)) =>
                  Start(c) \in Blocks \union {NULL} /\ IsFirst(Start(c), c)
<1> SUFFICES ASSUME IInv, NEW c \in Channels
             PROVE  /\ \A t \in Actors : Inside(t) /\ arg[t] = c =>
                          /\ Clearing(t) => Start(c) = NULL
                          /\ ReleasingHead(t) => Start(c) = cur[t]
                          /\ HeadTakenAway(t) => Start(c) = aux[t]
                    /\ (\A t \in Actors : Inside(t) /\ arg[t] = c => ~ Moving(t)) =>
                          Start(c) \in Blocks \union {NULL} /\ IsFirst(Start(c), c)
  OBVIOUS
<1>1. \A s, t \in Actors : Inside(s) /\ Inside(t) => s = t
  BY DEF IInv, LockInv, MutualExclusion
<1> DEFINE insiders == {t \in Actors : Inside(t) /\ arg[t] = c}
<1>2. ASSUME NEW t \in Actors, Inside(t), arg[t] = c PROVE insiders = {t}
  BY <1>1, <1>2
<1>3. ASSUME NEW t \in Actors, Inside(t), arg[t] = c, Clearing(t) PROVE Start(c) = NULL
  <2>1. insiders = {t} /\ ~ ReleasingHead(t) /\ ~ HeadTakenAway(t)
    BY <1>2, <1>3 DEF ReleasingHead, Clearing, HeadTakenAway
  <2>2. /\ \E s \in insiders : Clearing(s)
        /\ ~ \E s \in insiders : ReleasingHead(s)
        /\ ~ \E s \in insiders : HeadTakenAway(s)
    BY <1>3, <2>1
  <2> QED
    BY <2>2 DEF Start
<1>4. ASSUME NEW t \in Actors, Inside(t), arg[t] = c, ReleasingHead(t) PROVE Start(c) = cur[t]
  <2>1. insiders = {t} /\ ~ Clearing(t) /\ ~ HeadTakenAway(t)
    BY <1>2, <1>4 DEF ReleasingHead, Clearing, HeadTakenAway
  <2>2. (CHOOSE s \in insiders : ReleasingHead(s)) = t
    BY <1>4, <2>1
  <2>3. /\ ~ \E s \in insiders : Clearing(s)
        /\ \E s \in insiders : ReleasingHead(s)
        /\ ~ \E s \in insiders : HeadTakenAway(s)
    BY <1>4, <2>1
  <2> QED
    BY <2>2, <2>3 DEF Start
<1>5. ASSUME NEW t \in Actors, Inside(t), arg[t] = c, HeadTakenAway(t) PROVE Start(c) = aux[t]
  <2>1. insiders = {t} /\ ~ Clearing(t) /\ ~ ReleasingHead(t)
    BY <1>2, <1>5 DEF ReleasingHead, Clearing, HeadTakenAway
  <2>2. (CHOOSE s \in insiders : HeadTakenAway(s)) = t
    BY <1>5, <2>1
  <2>3. /\ ~ \E s \in insiders : Clearing(s)
        /\ ~ \E s \in insiders : ReleasingHead(s)
        /\ \E s \in insiders : HeadTakenAway(s)
    BY <1>5, <2>1
  <2> QED
    BY <2>2, <2>3 DEF Start
<1>6. ASSUME \A t \in Actors : Inside(t) /\ arg[t] = c => ~ Moving(t)
      PROVE  Start(c) \in Blocks \union {NULL} /\ IsFirst(Start(c), c)
  <2>1. Start(c) = CHOOSE p \in Blocks \union {NULL} : IsFirst(p, c)
    BY <1>6 DEF Start, Moving
  <2> QED
    BY <2>1, FirstExists
<1> QED
  BY <1>3, <1>4, <1>5, <1>6

LEMMA StartNext ==
  IInv' => \A c \in Channels :
            /\ \A t \in Actors : Inside(t)' /\ arg'[t] = c =>
                  /\ Clearing(t)' => Start(c)' = NULL
                  /\ ReleasingHead(t)' => Start(c)' = cur'[t]
                  /\ HeadTakenAway(t)' => Start(c)' = aux'[t]
            /\ (\A t \in Actors : Inside(t)' /\ arg'[t] = c => ~ Moving(t)') =>
                  Start(c)' \in Blocks \union {NULL} /\ IsFirst(Start(c), c)'
<1>1. (IInv => \A c \in Channels :
            /\ \A t \in Actors : Inside(t) /\ arg[t] = c =>
                  /\ Clearing(t) => Start(c) = NULL
                  /\ ReleasingHead(t) => Start(c) = cur[t]
                  /\ HeadTakenAway(t) => Start(c) = aux[t]
            /\ (\A t \in Actors : Inside(t) /\ arg[t] = c => ~ Moving(t)) =>
                  Start(c) \in Blocks \union {NULL} /\ IsFirst(Start(c), c))'
  BY StartIs, PTL
<1> QED
  BY <1>1

-----------------------------------------------------------------------------
(* The equations of Reach.                                                  *)
LEMMA ReachIs ==
  ASSUME PoolType, NEW S \in SUBSET Blocks
  PROVE  \E f \in [Nat -> SUBSET (Blocks \union {NULL})] :
            /\ f[0] = S /\ Reach(S) = f[QTY] \ {NULL}
            /\ \A n \in Nat : f[n + 1] = f[n] \union {next[b] : b \in f[n] \ {NULL}}
<1> DEFINE X == SUBSET (Blocks \union {NULL})
           G == [s \in X |-> s \union {next[b] : b \in s \ {NULL}}]
           r[n \in Nat] == IF n = 0 THEN S
                           ELSE r[n - 1] \union {next[b] : b \in r[n - 1] \ {NULL}}
<1>1. S \in X /\ G \in [X -> X]
  <2>1. \A b \in Blocks : next[b] \in Blocks \union {NULL}
    BY DEF PoolType
  <2>2. ASSUME NEW s \in X PROVE s \union {next[b] : b \in s \ {NULL}} \in X
    BY <2>1
  <2> QED
    BY <2>2
<1>2. PICK f : f \in [Nat -> X] /\ f = [n \in Nat |-> IF n = 0 THEN S ELSE G[f[n - 1]]]
  <2> HIDE DEF X, G
  <2>1. \E f : Iterate(f, X, S, G)
    BY <1>1, Iterates
  <2> QED
    BY <2>1 DEF Iterate
<1>3. \A n \in Nat : n # 0 => f[n - 1] \in X
  <2> HIDE DEF X
  <2> SUFFICES ASSUME NEW n \in Nat, n # 0 PROVE f[n - 1] \in X
    OBVIOUS
  <2>1. n - 1 \in Nat
    OBVIOUS
  <2> QED
    BY <1>2, <2>1
<1>4. f = [n \in Nat |-> IF n = 0 THEN S
                          ELSE f[n - 1] \union {next[b] : b \in f[n - 1] \ {NULL}}]
  <2>1. \A n \in Nat : n # 0 =>
          G[f[n - 1]] = f[n - 1] \union {next[b] : b \in f[n - 1] \ {NULL}}
    BY <1>3
  <2> HIDE DEF X, G
  <2> QED
    BY <1>2, <2>1
<1>5. r = [n \in Nat |-> IF n = 0 THEN S
                          ELSE r[n - 1] \union {next[b] : b \in r[n - 1] \ {NULL}}]
  BY <1>4
<1>6. Reach(S) = r[QTY] \ {NULL}
  BY DEF Reach
<1> HIDE DEF r
<1>7. r[0] = S
  BY <1>5
<1>8. \A n \in Nat : r[n + 1] = r[n] \union {next[b] : b \in r[n] \ {NULL}}
  <2> SUFFICES ASSUME NEW n \in Nat
               PROVE  r[n + 1] = r[n] \union {next[b] : b \in r[n] \ {NULL}}
    OBVIOUS
  <2> PICK k \in Nat : k = n + 1
    OBVIOUS
  <2>1. k # 0 /\ k - 1 = n
    OBVIOUS
  <2> QED
    BY <1>5, <2>1
<1>9. ASSUME NEW n \in Nat, r[n] \in X PROVE r[n + 1] \in X
  <2>1. \A b \in Blocks : next[b] \in Blocks \union {NULL}
    BY DEF PoolType
  <2> QED
    BY <1>8, <1>9, <2>1
<1>10. \A n \in Nat : r[n] \in X
  <2> DEFINE T == {n \in Nat : r[n] \notin X}
  <2> SUFFICES ASSUME T # {} PROVE FALSE
    OBVIOUS
  <2>1. PICK m \in T : \A n \in T : m <= n
    <3>1. T \in SUBSET Nat
      OBVIOUS
    <3> HIDE DEF T
    <3> QED
      BY <3>1, NatMin
  <2>2. m \in Nat /\ r[m] \notin X /\ m # 0
    BY <1>7, <2>1
  <2> PICK k \in Nat : k + 1 = m
    BY <2>2
  <2>3. k \notin T
    BY <2>1
  <2> QED
    BY <1>9, <2>2, <2>3
<1>11. r \in [Nat -> X]
  <2> HIDE DEF X
  <2> QED
    BY <1>5, <1>10
<1> QED
  BY <1>6, <1>7, <1>8, <1>11

LEMMA ReachClosed ==
  ASSUME PoolType, NEW P \in SUBSET Blocks, NEW S \in SUBSET P,
         \A b \in P : next[b] \in P \union {NULL}
  PROVE  Reach(S) \subseteq P
<1>1. PICK f \in [Nat -> SUBSET (Blocks \union {NULL})] :
         /\ f[0] = S /\ Reach(S) = f[QTY] \ {NULL}
         /\ \A n \in Nat : f[n + 1] = f[n] \union {next[b] : b \in f[n] \ {NULL}}
  BY ReachIs
<1> DEFINE T == {n \in Nat : ~ (f[n] \subseteq P \union {NULL})}
<1>2. T = {}
  <2> SUFFICES ASSUME T # {} PROVE FALSE
    OBVIOUS
  <2>1. PICK m \in T : \A n \in T : m <= n
    <3>1. T \in SUBSET Nat
      OBVIOUS
    <3> HIDE DEF T
    <3> QED
      BY <3>1, NatMin
  <2>2. m \in Nat /\ m # 0
    BY <1>1, <2>1
  <2> PICK k \in Nat : k + 1 = m
    BY <2>2
  <2>3. f[k] \subseteq P \union {NULL}
    BY <2>1
  <2>4. f[k + 1] \subseteq P \union {NULL}
    BY <1>1, <2>3
  <2> QED
    BY <2>1, <2>4
<1>3. QTY \in Nat
  BY DQueueAssumption DEF DQueueAssumption
<1> QED
  BY <1>1, <1>2, <1>3

LEMMA ReachGrows ==
  ASSUME NEW f \in [Nat -> SUBSET (Blocks \union {NULL})],
         \A n \in Nat : f[n + 1] = f[n] \union {next[b] : b \in f[n] \ {NULL}},
         NEW i \in Nat
  PROVE  \A n \in Nat : i <= n => f[i] \subseteq f[n]
<1> DEFINE T == {n \in Nat : i <= n /\ ~ (f[i] \subseteq f[n])}
<1> SUFFICES ASSUME T # {} PROVE FALSE
  OBVIOUS
<1>1. PICK m \in T : \A n \in T : m <= n
  <2>1. T \in SUBSET Nat
    OBVIOUS
  <2> HIDE DEF T
  <2> QED
    BY <2>1, NatMin
<1>2. m \in Nat /\ i < m
  BY <1>1
<1> PICK k \in Nat : k + 1 = m
  BY <1>2
<1>3. f[i] \subseteq f[k]
  BY <1>1, <1>2
<1>4. f[k] \subseteq f[k + 1]
  OBVIOUS
<1> QED
  BY <1>1, <1>3, <1>4

(* Unless it is the head of its channel, a block of a whole pool is the     *)
(* next one of another: of the last block before it.                        *)
LEMMA HasPredecessor ==
  ASSUME IInv, PoolOK(NULL, NULL, NULL, NoChl), NEW b \in Blocks, Used(b), chl[b] = NoChl
  PROVE  \E a \in Blocks : Used(a) /\ next[a] = b
<1> USE DEF IInv, TypeOK
<1> DEFINE Pred == {a \in Blocks : Used(a) /\ Own(a) = Own(b) /\ Before(a, b)}
           T == {Behind(a) : a \in Pred}
<1>1. PICK h \in Blocks : chl[h] = Own(b) /\ Own(b) \in Channels
  BY ChainFacts, Facts DEF PoolOK, ReachOK
<1>2. h \in Pred
  <2>1. chl[h] # NoChl /\ h # b /\ Own(h) = Own(b) /\ Used(h)
    BY <1>1, Facts DEF PoolOK, HeadOK, FreeOK
  <2>2. Before(h, b)
    BY <2>1, Facts DEF PoolOK, HeadOK
  <2> QED
    BY <2>1, <2>2
<1>3. PICK m \in T : \A k \in T : m <= k
  <2>1. T \in SUBSET Nat /\ T # {}
    BY <1>2, BehindFacts
  <2> HIDE DEF T
  <2> QED
    BY <2>1, NatMin
<1>4. PICK a \in Pred : m = Behind(a)
  BY <1>3
<1>5. a # b /\ ~ Before(b, a)
  BY <1>4, Antisymmetric
<1>6. next[a] # NULL
  BY <1>4, <1>5, Facts DEF PoolOK, TailOK
<1> PICK n : n = next[a]
  OBVIOUS
<1>7. n \in Blocks /\ Used(n) /\ Own(n) = Own(a) /\ n # NULL
  BY <1>4, <1>6, ChainFacts
<1>8. Behind(n) < Behind(a) /\ Behind(n) \in Nat /\ Behind(a) \in Nat
  BY <1>4, <1>6, <1>7, BehindFacts
<1>9. ~ Before(n, b)
  <2> SUFFICES ASSUME Before(n, b) PROVE FALSE
    OBVIOUS
  <2>1. n \in Pred
    BY <1>4, <1>7
  <2> QED
    BY <1>3, <1>4, <1>8, <2>1
<1>10. n = b
  <2>1. OrderOK
    BY DEF PoolInv
  <2> QED
    BY <1>4, <1>5, <1>6, <1>7, <1>9, <2>1 DEF OrderOK
<1> QED
  BY <1>4, <1>10

LEMMA AllReached ==
  ASSUME IInv, PoolOK(NULL, NULL, NULL, NoChl)
  PROVE  \A b \in Blocks : Used(b) => b \in Reach({a \in Blocks : chl[a] # NoChl})
<1> DEFINE heads == {a \in Blocks : chl[a] # NoChl}
<1>1. PICK f \in [Nat -> SUBSET (Blocks \union {NULL})] :
         /\ f[0] = heads /\ Reach(heads) = f[QTY] \ {NULL}
         /\ \A n \in Nat : f[n + 1] = f[n] \union {next[b] : b \in f[n] \ {NULL}}
  <2>1. heads \in SUBSET Blocks
    OBVIOUS
  <2> HIDE DEF heads
  <2> QED
    BY <2>1, ReachIs DEF IInv, TypeOK
<1>2. QTY \in Nat
  BY DQueueAssumption DEF DQueueAssumption
<1>3. \A i, n \in Nat : i <= n => f[i] \subseteq f[n]
  BY <1>1, ReachGrows
<1> DEFINE Bad == {b \in Blocks : Used(b) /\ b \notin f[QTY - Behind(b)]}
           T == {QTY - Behind(b) : b \in Bad}
<1>4. \A b \in Blocks : Used(b) => Behind(b) \in 1 .. QTY
  BY BehindFacts
<1>5. Bad = {}
  <2> SUFFICES ASSUME Bad # {} PROVE FALSE
    OBVIOUS
  <2>1. PICK m \in T : \A k \in T : m <= k
    <3>1. T \in SUBSET Nat /\ T # {}
      BY <1>2, <1>4
    <3> HIDE DEF T
    <3> QED
      BY <3>1, NatMin
  <2>2. PICK b \in Bad : m = QTY - Behind(b)
    BY <2>1
  <2>3. m \in Nat /\ b \notin f[m] /\ Used(b) /\ b \in Blocks
    BY <1>2, <1>4, <2>2
  <2>4. b \notin heads
    BY <1>1, <1>3, <2>3
  <2>5. PICK a \in Blocks : Used(a) /\ next[a] = b
    BY <2>3, <2>4, HasPredecessor
  <2>6. Behind(b) < Behind(a)
    BY <2>3, <2>5, BehindFacts, Facts
  <2> PICK k : k = QTY - Behind(a)
    OBVIOUS
  <2>7. k \in Nat /\ k < m /\ ~ (m <= k)
    BY <1>2, <1>4, <2>2, <2>3, <2>5, <2>6
  <2>8. a \in f[k]
    BY <2>1, <2>5, <2>7
  <2>9. b \in f[k + 1]
    BY <1>1, <2>5, <2>7, <2>8, Facts
  <2>10. f[k + 1] \subseteq f[m]
    <3>1. k + 1 \in Nat /\ k + 1 <= m
      BY <2>3, <2>7
    <3> QED
      BY <1>3, <2>3, <3>1
  <2> QED
    BY <2>3, <2>9, <2>10
<1>6. ASSUME NEW b \in Blocks, Used(b) PROVE b \in f[QTY]
  <2>1. QTY - Behind(b) \in Nat /\ QTY - Behind(b) <= QTY
    BY <1>2, <1>4, <1>6
  <2>2. b \in f[QTY - Behind(b)]
    BY <1>5, <1>6
  <2> QED
    BY <1>2, <1>3, <2>1, <2>2
<1> QED
  BY <1>1, <1>6, Facts

LEMMA NothingLost == IInv => NoLeak
<1> SUFFICES ASSUME IInv, \A t \in Actors : ~ Inside(t)
             PROVE  LET heads == {b \in Blocks : chl[b] # NoChl} IN
                    /\ {b \in Blocks : in[b] > 0} = Reach(heads)
                    /\ \A a, b \in heads : a # b =>
                          chl[a] # chl[b] /\ Reach({a}) \cap Reach({b}) = {}
  BY DEF NoLeak
<1> USE DEF IInv, TypeOK
<1> DEFINE heads == {b \in Blocks : chl[b] # NoChl}
           used  == {b \in Blocks : in[b] > 0}
           of(c) == {b \in Blocks : Used(b) /\ Own(b) = c}
<1>1. PoolOK(NULL, NULL, NULL, NoChl)
  BY DEF PoolInv
<1>2. \A b \in heads : Used(b) /\ Own(b) = chl[b]
  BY ChainFacts
<1>3. Reach(heads) \subseteq used
  <2>1. heads \subseteq used /\ used \subseteq Blocks
    BY <1>2 DEF Used
  <2>2. \A b \in used : next[b] \in used \union {NULL}
    BY ChainFacts DEF Used
  <2> HIDE DEF heads, used
  <2> QED
    BY <2>1, <2>2, ReachClosed
<1>4. used \subseteq Reach(heads)
  BY <1>1, AllReached DEF Used
<1>5. ASSUME NEW a \in heads PROVE Reach({a}) \subseteq of(chl[a])
  <2> PICK c : c = chl[a]
    OBVIOUS
  <2>1. {a} \subseteq of(c) /\ of(c) \subseteq Blocks
    BY <1>2
  <2>2. \A b \in of(c) : next[b] \in of(c) \union {NULL}
    BY ChainFacts
  <2> HIDE DEF heads, of
  <2>3. Reach({a}) \subseteq of(c)
    BY <2>1, <2>2, ReachClosed
  <2> QED
    BY <2>3
<1>6. ASSUME NEW a \in heads, NEW b \in heads, a # b PROVE chl[a] # chl[b]
  <2> SUFFICES ASSUME chl[a] = chl[b] PROVE FALSE
    OBVIOUS
  <2>1. Before(a, b) /\ Before(b, a)
    BY <1>1, <1>2, <1>6, Facts DEF PoolOK, HeadOK
  <2> QED
    BY <1>2, <2>1, Antisymmetric
<1>7. ASSUME NEW a \in heads, NEW b \in heads, chl[a] # chl[b]
      PROVE  Reach({a}) \cap Reach({b}) = {}
  BY <1>5, <1>7
<1> QED
  BY <1>3, <1>4, <1>6, <1>7

(* No block is lost and none is in two chains, however DqueIo, readers and  *)
(* clears took turns, for a pool and a number of channels of any size.      *)
THEOREM NoBlockLost ==
  ASSUME IsrChannels = {}
  PROVE  Spec => []NoLeak
<1>1. IInv /\ [Next]_vars => IInv'
  BY IInvStep
<1>2. Spec => []IInv
  BY IInvInit, <1>1, PTL DEF Spec
<1> QED
  BY <1>2, NothingLost, PTL

-----------------------------------------------------------------------------
(* What the chains need besides IInv: threads make the calls they are       *)
(* declared to make, serial numbers count from 1, and the block DqueIo has  *)
(* filled and not linked holds the character it is storing.                 *)
UsesInv ==
    /\ op[Io] \in {"none", "push"}
    /\ \A t \in Threads : pc[t] # "idle" => <<op[t], arg[t]>> \in Uses[t]

SerialFromOne ==
    /\ \A c \in Channels : posted[c] <= Quota[c]
    /\ \A i \in 1 .. Len(mb) : mb[i][2] > 0
    /\ op[Io] = "push" => ch[2] > 0

FreshHolds == pc[Io] = "link" => data[cur[Io]][0] = ch

CInv == IInv /\ UsesInv /\ SerialFromOne /\ FreshHolds

LEMMA CInvInit == Init => CInv
<1> SUFFICES ASSUME Init PROVE CInv
  OBVIOUS
<1>1. IInv
  BY IInvInit
<1>2. /\ mb = <<>> /\ op[Io] = "none" /\ \A t \in Actors : pc[t] = "idle"
      /\ \A c \in Channels : posted[c] = 0
  BY Facts DEF Init
<1>3. UsesInv /\ FreshHolds
  BY <1>2, Facts DEF UsesInv, FreshHolds, Actors
<1>4. SerialFromOne
  <2>1. \A c \in Channels : Quota[c] \in Nat
    BY DQueueAssumption DEF DQueueAssumption
  <2>2. Len(mb) = 0
    BY <1>2
  <2> QED
    BY <1>2, <2>1, <2>2 DEF SerialFromOne
<1> QED
  BY <1>1, <1>3, <1>4 DEF CInv

LEMMA UsesStep ==
  ASSUME TypeOK, CallInv, UsesInv, [Next]_vars, IsrChannels = {}
  PROVE  UsesInv'
<1> USE DEF TypeOK, CallType
<1>1. Io \in Actors /\ Io \notin Threads /\ \A t \in Threads : t \in Actors
  BY DQueueAssumption DEF DQueueAssumption, Actors
<1>2. CASE UNCHANGED <<pc, op, arg>>
  BY <1>2 DEF UsesInv
<1>3. ASSUME NEW c \in Channels, Post(c) \/ IsrPopChar(c) \/ TxEnable(c) PROVE UsesInv'
  BY <1>2, <1>3 DEF Post, TxEnable, IsrPopChar
<1>4. CASE IoRecv
  BY <1>1, <1>4 DEF UsesInv, IoRecv
<1>5. ASSUME NEW t \in Threads, NEW o \in Ops, NEW c \in Channels, NEW n \in 0 .. MaxLen,
             Call(t, o, c, n)
      PROVE  UsesInv'
  BY <1>1, <1>5 DEF UsesInv, Call
<1>6. ASSUME NEW t \in Actors, Return(t), pc[t] # "idle" PROVE UsesInv'
  BY <1>1, <1>6 DEF UsesInv, Return
<1>7. ASSUME NEW t \in Actors, Step(t) PROVE UsesInv'
  <2>1. ASSUME op' = op, arg' = arg, pc[t] # "idle", \A s \in Actors \ {t} : pc'[s] = pc[s]
        PROVE  UsesInv'
    BY <1>1, <2>1 DEF UsesInv
  <2>2. CASE Lock(t)
    BY <2>1, <2>2 DEF Lock, Runs
  <2>3. CASE Unlock(t)
    BY <1>6, <2>3 DEF Unlock, Runs
  <2>4. CASE Inner(t)
    BY <2>1, <2>4, InnerStays DEF InCS
  <2>5. CASE LenReturn(t)
    BY <1>6, <2>5 DEF LenReturn, Runs
  <2>6. CASE LenFirst(t) \/ LenIn(t) \/ LenOut(t) \/ LenNext(t)
    BY <2>1, <2>6 DEF LenFirst, LenIn, LenOut, LenNext, Runs, local
  <2> QED
    BY <1>7, <2>2, <2>3, <2>4, <2>5, <2>6 DEF Step, Measure
<1> QED
  BY <1>2, <1>3, <1>4, <1>5, <1>7 DEF Next, vars

LEMMA SerialFromOneStep ==
  ASSUME TypeOK, CallInv, UsesInv, SerialFromOne, [Next]_vars, IsrChannels = {}
  PROVE  SerialFromOne'
<1> USE DEF TypeOK, CallType, QueueType
<1>1. CASE /\ UNCHANGED <<posted, mb>>
           /\ op'[Io] = "push" => op[Io] = "push" /\ ch' = ch
  BY <1>1 DEF SerialFromOne
<1>2. ASSUME NEW c \in Channels, Post(c) PROVE SerialFromOne'
  <2>1. /\ posted' = [posted EXCEPT ![c] = posted[c] + 1] /\ posted[c] < Quota[c]
        /\ op' = op /\ ch' = ch
        /\ mb' = mb \/ mb' = Append(mb, <<c, posted[c] + 1>>)
    BY <1>2 DEF Post
  <2>2. Quota[c] \in Nat /\ posted[c] \in Nat
    BY DQueueAssumption DEF DQueueAssumption
  <2>3. \A d \in Channels : posted'[d] <= Quota[d]
    BY <2>1, <2>2 DEF SerialFromOne
  <2>4. \A i \in 1 .. Len(mb') : mb'[i][2] > 0
    <3>1. CASE mb' = mb
      BY <3>1 DEF SerialFromOne
    <3>2. CASE mb' = Append(mb, <<c, posted[c] + 1>>)
      <4>1. /\ \A i \in 1 .. Len(mb) : mb'[i] = mb[i]
            /\ Len(mb') = Len(mb) + 1 /\ mb'[Len(mb) + 1] = <<c, posted[c] + 1>>
        BY <3>2
      <4>2. posted[c] + 1 > 0 /\ Len(mb) \in Nat
        BY <2>2
      <4>3. \A i \in 1 .. Len(mb') : i \in 1 .. Len(mb) \/ i = Len(mb) + 1
        BY <4>1, <4>2
      <4>4. \A i \in 1 .. Len(mb) : mb[i][2] > 0
        BY DEF SerialFromOne
      <4>5. mb'[Len(mb) + 1][2] > 0
        BY <4>1, <4>2
      <4> QED
        BY <4>1, <4>3, <4>4, <4>5
    <3> QED
      BY <2>1, <3>1, <3>2
  <2> QED
    BY <2>1, <2>3, <2>4 DEF SerialFromOne
<1>3. CASE IoRecv
  <2>1. /\ mb # <<>> /\ mb' = Tail(mb) /\ ch' = Head(mb) /\ posted' = posted
    BY <1>3 DEF IoRecv, posts
  <2>2. /\ Len(mb) \in Nat \ {0} /\ Head(mb) = mb[1] /\ Len(mb') = Len(mb) - 1
        /\ \A i \in 1 .. Len(mb') : mb'[i] = mb[i + 1] /\ i + 1 \in 1 .. Len(mb)
    BY <2>1
  <2> QED
    BY <2>1, <2>2 DEF SerialFromOne
<1>4. ASSUME NEW c \in Channels, IsrPopChar(c) \/ TxEnable(c) PROVE SerialFromOne'
  BY <1>1, <1>4 DEF IsrPopChar, TxEnable, QueueType
<1>5. ASSUME NEW t \in Threads, NEW o \in Ops, NEW c \in Channels, NEW n \in 0 .. MaxLen,
             Call(t, o, c, n)
      PROVE  SerialFromOne'
  <2>1. Io # t
    BY DQueueAssumption DEF DQueueAssumption
  <2> QED
    BY <1>1, <1>5, <2>1, Facts DEF Call, posts
<1>6. ASSUME NEW t \in Actors, Return(t), UNCHANGED <<posted, mb>> PROVE SerialFromOne'
  <2>1. op'[Io] = "push" => op[Io] = "push" /\ t # Io
    BY <1>6, Facts DEF Return
  <2> QED
    BY <1>1, <1>6, <2>1 DEF Return
<1>7. ASSUME NEW t \in Actors, Step(t) PROVE SerialFromOne'
  <2>1. CASE Lock(t)
    BY <1>1, <2>1 DEF Lock, posts
  <2>2. CASE Unlock(t) \/ LenReturn(t)
    BY <1>6, <2>2 DEF Unlock, LenReturn, posts
  <2>3. CASE Inner(t)
    BY <1>1, <2>3, InnerStays
  <2>4. CASE LenFirst(t) \/ LenIn(t) \/ LenOut(t) \/ LenNext(t)
    BY <1>1, <2>4 DEF LenFirst, LenIn, LenOut, LenNext, local, posts
  <2> QED
    BY <1>7, <2>1, <2>2, <2>3, <2>4 DEF Step, Measure
<1>8. CASE UNCHANGED vars
  BY <1>1, <1>8 DEF vars
<1> QED
  BY <1>2, <1>3, <1>4, <1>5, <1>7, <1>8 DEF Next

LEMMA FreshHoldsStep ==
  ASSUME TypeOK, CallInv, FreshHolds, [Next]_vars, IsrChannels = {}
  PROVE  FreshHolds'
<1> USE DEF TypeOK, CallType
<1>1. CASE /\ UNCHANGED data
           /\ pc'[Io] = "link" => pc[Io] = "link" /\ cur'[Io] = cur[Io] /\ ch' = ch
  BY <1>1 DEF FreshHolds
<1>2. ASSUME NEW c \in Channels, Post(c) \/ TxEnable(c) \/ IsrPopChar(c) PROVE FreshHolds'
  BY <1>1, <1>2 DEF Post, TxEnable, IsrPopChar, pool
<1>3. CASE IoRecv
  BY <1>1, <1>3, Facts DEF IoRecv, pool
<1>4. ASSUME NEW t \in Threads, NEW o \in Ops, NEW c \in Channels, NEW n \in 0 .. MaxLen,
             Call(t, o, c, n)
      PROVE  FreshHolds'
  <2>1. Io # t
    BY DQueueAssumption DEF DQueueAssumption
  <2> QED
    BY <1>1, <1>4, <2>1, Facts DEF Call, pool
<1>5. ASSUME NEW t \in Actors, Step(t) PROVE FreshHolds'
  <2>1. CASE Lock(t)
    BY <1>1, <2>1, Facts DEF Lock, pool
  <2>2. CASE Unlock(t) \/ LenReturn(t)
    <3>1. /\ pc' = [pc EXCEPT ![t] = "idle"] /\ cur' = [cur EXCEPT ![t] = NULL]
          /\ ch' = IF t = Io THEN <<NoChl, 0>> ELSE ch
          /\ data' = data
      BY <2>2 DEF Unlock, LenReturn, Return, pool
    <3> QED
      BY <1>1, <3>1, Facts
  <2>3. CASE Inner(t)
    <3>1. CASE t # Io
      <4>1. pc'[Io] = pc[Io] /\ cur'[Io] = cur[Io] /\ ch' = ch
        BY <2>3, <3>1, InnerStays, Facts
      <4>2. pc[t] \notin {"tail", "alloc"}
        BY <3>1 DEF CallInv
      <4>3. data' = data
        BY <2>3, <4>2 DEF Inner, First, TakeSome, TakeNone, RenameNext, Rehead, ReleaseIn,
           ReleaseOut, Clear, PushWalk, PushAppend, PushFull, PushAlloc, PushLink, Runs, pool
      <4> QED
        BY <1>1, <4>1, <4>3
    <3>2. CASE t = Io
      <4>1. CASE PushAlloc(t)
        <5>1. PICK p \in Blocks \union {NULL} :
                 /\ cur'[Io] = p /\ ch' = ch
                 /\ data' = IF p = NULL THEN data ELSE [data EXCEPT ![p][0] = ch]
                 /\ pc'[Io] = IF p = NULL THEN "unlock" ELSE "link"
          BY <3>2, <4>1, Facts DEF PushAlloc, FillBlock, local
        <5>2. 0 \in 0 .. BLK - 1
          BY Facts
        <5> QED
          BY <5>1, <5>2, Facts DEF FreshHolds, PoolType
      <4>2. CASE ~ PushAlloc(t)
        <5>1. pc'[Io] # "link"
          <6>1. First(t) => Entry[op[t]] # "link"
            BY DEF First, Runs, CallInv, InCS, Entry
          <6> QED
            BY <2>3, <3>2, <4>2, <6>1, Facts DEF Inner, First, TakeSome, TakeNone, RenameNext,
               Rehead, ReleaseIn, ReleaseOut, Clear, PushWalk, PushAppend, PushFull, PushLink, Runs
        <5> QED
          BY <5>1 DEF FreshHolds
      <4> QED
        BY <4>1, <4>2
    <3> QED
      BY <3>1, <3>2
  <2>4. CASE LenFirst(t) \/ LenIn(t) \/ LenOut(t) \/ LenNext(t)
    <3>1. /\ data' = data /\ ch' = ch
          /\ pc[t] # "link" /\ pc'[t] # "link"
          /\ \A s \in Actors \ {t} : pc'[s] = pc[s] /\ cur'[s] = cur[s]
      BY <2>4 DEF LenFirst, LenIn, LenOut, LenNext, local, pool, Runs
    <3> QED
      BY <1>1, <3>1, Facts
  <2> QED
    BY <1>5, <2>1, <2>2, <2>3, <2>4 DEF Step, Measure
<1>6. CASE UNCHANGED vars
  BY <1>1, <1>6 DEF vars
<1> QED
  BY <1>2, <1>3, <1>4, <1>5, <1>6 DEF Next

LEMMA CInvStep ==
  ASSUME CInv, [Next]_vars, IsrChannels = {}
  PROVE  CInv'
<1>1. TypeOK /\ CallInv
  BY DEF CInv, IInv
<1> QED
  BY <1>1, IInvStep, UsesStep, SerialFromOneStep, FreshHoldsStep DEF CInv

-----------------------------------------------------------------------------
(* The chain of a channel starts where the one insider has left it.         *)
LEMMA StartOf ==
  IInv => \A t \in Actors, c \in Channels : Inside(t) /\ c = arg[t] =>
            /\ Clearing(t) => Start(c) = NULL
            /\ ReleasingHead(t) => Start(c) = cur[t]
            /\ HeadTakenAway(t) => Start(c) = aux[t]
            /\ ~ Moving(t) => Start(c) \in Blocks \union {NULL} /\ IsFirst(Start(c), c)
            /\ \A d \in Channels \ {c} :
                  Start(d) \in Blocks \union {NULL} /\ IsFirst(Start(d), d)
<1> SUFFICES ASSUME IInv, NEW t \in Actors, NEW c \in Channels, Inside(t), c = arg[t]
             PROVE  /\ Clearing(t) => Start(c) = NULL
                    /\ ReleasingHead(t) => Start(c) = cur[t]
                    /\ HeadTakenAway(t) => Start(c) = aux[t]
                    /\ ~ Moving(t) =>
                          Start(c) \in Blocks \union {NULL} /\ IsFirst(Start(c), c)
                    /\ \A d \in Channels \ {c} :
                          Start(d) \in Blocks \union {NULL} /\ IsFirst(Start(d), d)
  OBVIOUS
<1>1. \A s \in Actors : Inside(s) => s = t
  BY DEF IInv, LockInv, MutualExclusion
<1>2. /\ Clearing(t) => Start(c) = NULL
      /\ ReleasingHead(t) => Start(c) = cur[t]
      /\ HeadTakenAway(t) => Start(c) = aux[t]
  BY StartIs
<1>3. ASSUME ~ Moving(t)
      PROVE  Start(c) \in Blocks \union {NULL} /\ IsFirst(Start(c), c)
  BY <1>1, <1>3, StartIs
<1>4. ASSUME NEW d \in Channels \ {c}
      PROVE  Start(d) \in Blocks \union {NULL} /\ IsFirst(Start(d), d)
  <2>1. \A s \in Actors : Inside(s) /\ arg[s] = d => ~ Moving(s)
    BY <1>1
  <2> QED
    BY <2>1, StartIs
<1> QED
  BY <1>2, <1>3, <1>4

LEMMA StartOfNext ==
  IInv' => \A t \in Actors, c \in Channels : Inside(t)' /\ c = arg'[t] =>
            /\ Clearing(t)' => Start(c)' = NULL
            /\ ReleasingHead(t)' => Start(c)' = cur'[t]
            /\ HeadTakenAway(t)' => Start(c)' = aux'[t]
            /\ ~ Moving(t)' => Start(c)' \in Blocks \union {NULL} /\ IsFirst(Start(c), c)'
            /\ \A d \in Channels \ {c} :
                  Start(d)' \in Blocks \union {NULL} /\ IsFirst(Start(d), d)'
<1>1. (IInv => \A t \in Actors, c \in Channels : Inside(t) /\ c = arg[t] =>
            /\ Clearing(t) => Start(c) = NULL
            /\ ReleasingHead(t) => Start(c) = cur[t]
            /\ HeadTakenAway(t) => Start(c) = aux[t]
            /\ ~ Moving(t) => Start(c) \in Blocks \union {NULL} /\ IsFirst(Start(c), c)
            /\ \A d \in Channels \ {c} :
                  Start(d) \in Blocks \union {NULL} /\ IsFirst(Start(d), d))'
  BY StartOf, PTL
<1> QED
  BY <1>1

(* The blocks of a channel that are in its chain: all but the one that      *)
(* DqueIo has filled and not linked.                                        *)
IsFresh(b) == pc[Io] = "link" /\ cur[Io] = b
Linked(c)  == {b \in Blocks : Used(b) /\ Own(b) = c /\ ~ IsFresh(b)}

LEMMA FreshFacts ==
  ASSUME IInv, NEW b \in Blocks, IsFresh(b)
  PROVE  /\ Inside(Io) /\ PoolAt(Io) /\ arg[Io] \in Channels /\ Own(b) = arg[Io]
         /\ chl[b] = NoChl /\ next[b] = NULL /\ \A a \in Blocks : next[a] # b
<1>1. pc[Io] = "link" /\ cur[Io] = b /\ b # NULL
  BY Facts DEF IsFresh
<1>2. Io \notin Suspended
  BY <1>1 DEF Suspended, IInv, LockInv
<1>3. Inside(Io) /\ arg[Io] \in Channels
  BY <1>1, <1>2, Facts DEF Inside, InCS, IInv, CallInv
<1>4. PoolAt(Io)
  BY <1>3, Facts DEF IInv, PoolInv
<1> QED
  BY <1>1, <1>3, <1>4 DEF PoolAt, Holds

LEMMA LinkedIs ==
  ASSUME IInv, NEW c \in Channels
  PROVE  /\ \A b \in Linked(c) : next[b] \in Linked(c) \union {NULL}
         /\ Start(c) \in Linked(c) \union {NULL}
         /\ \A b \in Blocks : chl[b] = c => b \in Linked(c)
<1>1. \A b \in Linked(c) : next[b] \in Linked(c) \union {NULL}
  BY ChainFacts, FreshFacts DEF Linked
<1>2. ASSUME NEW b \in Blocks, chl[b] = c PROVE b \in Linked(c)
  BY <1>2, ChainFacts, FreshFacts, Facts DEF Linked
<1> SUFFICES Start(c) \in Linked(c) \union {NULL}
  BY <1>1, <1>2
<1>3. ASSUME Start(c) \in Blocks \union {NULL}, IsFirst(Start(c), c)
      PROVE  Start(c) \in Linked(c) \union {NULL}
  BY <1>2, <1>3 DEF IsFirst
<1>4. CASE \A t \in Actors : ~ Inside(t)
  <2>1. \A t \in Actors : Inside(t) /\ arg[t] = c => ~ Moving(t)
    BY <1>4
  <2> QED
    BY <1>3, <2>1, StartIs
<1>5. ASSUME NEW t \in Actors, Inside(t), arg[t] # c
      PROVE  Start(c) \in Linked(c) \union {NULL}
  <2>1. arg[t] \in Channels
    BY <1>5 DEF CallInv, Inside, IInv
  <2> QED
    BY <1>3, <1>5, <2>1, StartOf
<1>6. ASSUME NEW t \in Actors, Inside(t), arg[t] = c
      PROVE  Start(c) \in Linked(c) \union {NULL}
  <2>1. PoolAt(t) /\ cur[t] \in Blocks \union {NULL} /\ aux[t] \in Blocks \union {NULL}
    BY <1>6 DEF PoolInv, IInv, TypeOK, CallType
  <2>2. Moving(t) => \A b \in Blocks : ~ IsFresh(b)
    <3>1. \A b \in Blocks : IsFresh(b) => t = Io
      BY <1>6, FreshFacts, Facts DEF LockInv, MutualExclusion, IInv
    <3> QED
      BY <3>1 DEF Moving, Clearing, ReleasingHead, HeadTakenAway, IsFresh
  <2>3. CASE Clearing(t)
    BY <1>6, <2>3, StartOf
  <2>4. CASE ReleasingHead(t)
    <3>1. Start(c) = cur[t] /\ cur[t] # NULL
      BY <1>6, <2>1, <2>4, StartOf DEF ReleasingHead, PoolAt, Holds
    <3>2. Used(cur[t]) /\ Own(cur[t]) = c
      BY <1>6, <2>1, <2>4, <3>1, ChainFacts, Facts DEF ReleasingHead, PoolAt, Holds
    <3> QED
      BY <2>1, <2>2, <2>4, <3>1, <3>2 DEF Linked, Moving
  <2>5. CASE HeadTakenAway(t)
    <3>1. Start(c) = aux[t] /\ IsLeast(aux[t], c)
      BY <1>6, <2>1, <2>5, StartOf DEF HeadTakenAway, PoolAt, Holds
    <3> QED
      BY <2>1, <2>2, <2>5, <3>1 DEF IsLeast, Linked, Moving
  <2>6. CASE ~ Moving(t)
    BY <1>3, <1>6, <2>6, StartOf
  <2> QED
    BY <2>3, <2>4, <2>5, <2>6 DEF Moving
<1> QED
  BY <1>4, <1>5, <1>6

(* Two heads of one channel there are only while PopChar moves the head.    *)
LEMMA HeadIs ==
  ASSUME IInv, HeadOK(NULL), NEW c \in Channels, NEW a \in Blocks, NEW b \in Blocks,
         chl[a] = c, chl[b] = c
  PROVE  a = b
<1> SUFFICES ASSUME a # b PROVE FALSE
  OBVIOUS
<1>1. Used(a) /\ Used(b) /\ Own(a) = c /\ Own(b) = c
  BY ChainFacts, Facts
<1>2. Before(a, b) /\ Before(b, a)
  BY <1>1, Facts DEF HeadOK
<1> QED
  BY <1>1, <1>2, Antisymmetric DEF IInv, TypeOK

LEMMA FirstIs ==
  ASSUME IInv, HeadOK(NULL), NEW c \in Channels, NEW p \in Blocks \union {NULL},
         NEW b \in Blocks, IsFirst(p, c), chl[b] = c
  PROVE  p = b
<1>1. p \in Blocks /\ chl[p] = c
  BY DEF IsFirst
<1> QED
  BY <1>1, HeadIs

(* What is the same of a channel before and after a step.                   *)
Kept(c) ==
    /\ Start(c)' = Start(c)
    /\ \A b \in Linked(c) : /\ b \in Linked(c)'
                            /\ in'[b] = in[b] /\ out'[b] = out[b] /\ next'[b] = next[b]
                            /\ ChainFrom(b)' = ChainFrom(b)

(* A step outside the locked operations leaves every channel as it is.      *)
LEMMA OutsideKeeps ==
  ASSUME IInv, IInv', UNCHANGED <<next, chl, in, out, data>>,
         \A s \in Actors : Inside(s) /\ Moving(s) =>
            /\ Inside(s)' /\ Moving(s)' /\ op'[s] = op[s] /\ pc'[s] = pc[s]
            /\ arg'[s] = arg[s] /\ cur'[s] = cur[s] /\ aux'[s] = aux[s],
         \A s \in Actors : Inside(s)' /\ Moving(s)' => Inside(s) /\ Moving(s),
         \A b \in Blocks : IsFresh(b)' <=> IsFresh(b)
  PROVE  \A c \in Channels : Kept(c)
<1> SUFFICES ASSUME NEW c \in Channels PROVE Kept(c)
  OBVIOUS
<1>1. \A b \in Blocks : b \in Linked(c) => b \in Linked(c)'
  BY DEF Linked, Used, Own
<1>2. \A b \in Linked(c) : ChainFrom(b)' = ChainFrom(b)
  <2>1. \A b \in Linked(c) : /\ Used(b) /\ Used(b)'
                             /\ next[b] \in Linked(c) \union {NULL} /\ next'[b] = next[b]
                             /\ Unread(b)' = Unread(b)
    BY LinkedIs DEF Linked, Used, Unread
  <2>2. Linked(c) \in SUBSET Blocks
    BY DEF Linked
  <2> QED
    BY <2>1, <2>2, ChainsSame
<1>3. Start(c)' = Start(c)
  <2>1. CASE \E t \in Actors : Inside(t) /\ arg[t] = c /\ Moving(t)
    <3> PICK t \in Actors : Inside(t) /\ arg[t] = c /\ Moving(t)
      BY <2>1
    <3>1. /\ Clearing(t)' <=> Clearing(t)
          /\ ReleasingHead(t)' <=> ReleasingHead(t)
          /\ HeadTakenAway(t)' <=> HeadTakenAway(t)
          /\ Inside(t)' /\ arg'[t] = c /\ cur'[t] = cur[t] /\ aux'[t] = aux[t]
      BY DEF Clearing, ReleasingHead, HeadTakenAway
    <3>2. CASE Clearing(t)
      BY <3>1, <3>2, StartOf, StartOfNext
    <3>3. CASE ReleasingHead(t)
      BY <3>1, <3>3, StartOf, StartOfNext
    <3>4. CASE HeadTakenAway(t)
      BY <3>1, <3>4, StartOf, StartOfNext
    <3> QED
      BY <3>2, <3>3, <3>4 DEF Moving
  <2>2. CASE \A t \in Actors : Inside(t) /\ arg[t] = c => ~ Moving(t)
    <3>1. Start(c) \in Blocks \union {NULL} /\ IsFirst(Start(c), c)
      BY <2>2, StartIs
    <3>2. \A t \in Actors : Inside(t)' /\ arg'[t] = c => ~ Moving(t)'
      BY <2>2
    <3>3. Start(c)' \in Blocks \union {NULL} /\ IsFirst(Start(c), c)'
      BY <3>2, StartNext
    <3>4. IsFirst(Start(c)', c)
      BY <3>3 DEF IsFirst
    <3> QED
      BY <3>1, <3>3, <3>4, FirstUnique
  <2> QED
    BY <2>1, <2>2
<1> QED
  BY <1>1, <1>2, <1>3 DEF Kept, Linked

-----------------------------------------------------------------------------
(* The insider writes blocks and head marks of its own channel only, and    *)
(* free blocks.                                                             *)
LEMMA InnerTouches ==
  ASSUME IInv, NEW t \in Actors, Inside(t), Inner(t)
  PROVE  /\ arg[t] \in Channels
         /\ \A b \in Blocks : Used(b) /\ Own(b) # arg[t] =>
               in'[b] = in[b] /\ out'[b] = out[b] /\ next'[b] = next[b] /\ data'[b] = data[b]
         /\ \A b \in Blocks, d \in Channels : d # arg[t] => (chl'[b] = d <=> chl[b] = d)
<1> PICK c : c = arg[t]
  OBVIOUS
<1> DEFINE Same(b) == /\ in'[b] = in[b] /\ out'[b] = out[b]
                      /\ next'[b] = next[b] /\ data'[b] = data[b]
           Only(p) == \A b \in Blocks \ {p} : Same(b)
           Mine(p) == p \in Blocks => ~ Used(p) \/ Own(p) = c
           Goal == /\ \A b \in Blocks : Used(b) /\ Own(b) # c => Same(b)
                   /\ \A b \in Blocks, d \in Channels : d # c => (chl'[b] = d <=> chl[b] = d)
<1>0. TypeOK /\ PoolType
  BY DEF IInv, TypeOK
<1>1. /\ PoolAt(t) /\ c \in Channels
      /\ cur[t] \in Blocks \union {NULL} /\ aux[t] \in Blocks \union {NULL}
  BY DEF IInv, PoolInv, CallInv, Inside, TypeOK, CallType
<1> SUFFICES Goal
  BY <1>1
<1>2. \A b \in Blocks : chl[b] = c => Mine(b)
  BY <1>1, ChainFacts, Facts
<1>3. ASSUME UNCHANGED <<next, chl, in, out, data>> PROVE Goal
  BY <1>3
<1>4. ASSUME NEW p, Mine(p), Only(p), chl' = chl PROVE Goal
  BY <1>4
<1>5. CASE First(t) \/ TakeNone(t) \/ Clear(t) \/ PushWalk(t) \/ PushFull(t)
  <2>1. UNCHANGED <<next, chl, in, out, data>>
    BY <1>5 DEF First, TakeNone, Clear, PushWalk, PushFull, pool
  <2> HIDE DEF Goal
  <2> QED
    BY <1>3, <2>1
<1>6. CASE TakeSome(t)
  <2>1. cur[t] \in Blocks /\ chl[cur[t]] = c
    BY <1>1, <1>6, TakeSomeCounts, <1>0, Facts DEF PoolAt, Holds, TakeSome, Runs
  <2>2. Only(cur[t]) /\ chl' = chl
    BY <1>0, <1>6 DEF TakeSome, PoolType
  <2>3. Mine(cur[t])
    BY <1>2, <2>1
  <2> HIDE DEF Mine, Only, Goal
  <2> QED
    BY <1>4, <2>2, <2>3
<1>7. CASE RenameNext(t) \/ Rehead(t)
  <2>1. \A b \in Blocks : Same(b)
    BY <1>7 DEF RenameNext, Rehead
  <2>2. aux[t] # NULL => Used(aux[t]) /\ Own(aux[t]) = c
    <3>1. CASE RenameNext(t)
      <4>1. cur[t] # NULL /\ chl[cur[t]] = c /\ aux[t] = next[cur[t]]
        BY <1>1, <3>1 DEF RenameNext, Runs, PoolAt, Holds
      <4>2. Used(cur[t]) /\ Own(cur[t]) = c
        BY <1>1, <4>1, ChainFacts, Facts
      <4> QED
        BY <1>1, <4>1, <4>2, ChainFacts
    <3>2. CASE Rehead(t)
      BY <1>1, <3>2 DEF Rehead, Runs, PoolAt, Holds, IsLeast
    <3> QED
      BY <1>7, <3>1, <3>2
  <2>3. chl' = IF aux[t] # NULL THEN [chl EXCEPT ![aux[t]] = c] ELSE chl
    BY <1>7 DEF RenameNext, Rehead
  <2>4. aux[t] # NULL => chl[aux[t]] \in {c, NoChl}
    BY <1>1, <2>2, ChainFacts
  <2> QED
    BY <1>0, <1>1, <2>1, <2>3, <2>4, Facts DEF PoolType
<1>8. CASE ReleaseIn(t)
  <2>1. cur[t] \in Blocks /\ Used(cur[t]) /\ Own(cur[t]) = c
    BY <1>1, <1>8 DEF ReleaseIn, Runs, PoolAt, Holds
  <2>2. Only(cur[t]) /\ chl' = [chl EXCEPT ![cur[t]] = NoChl]
    BY <1>0, <1>8 DEF ReleaseIn, PoolType
  <2>3. chl[cur[t]] \in {c, NoChl}
    BY <2>1, ChainFacts
  <2> QED
    BY <1>0, <2>1, <2>2, <2>3, Facts DEF PoolType
<1>9. CASE ReleaseOut(t)
  <2>1. Mine(cur[t])
    BY <1>1, <1>9 DEF ReleaseOut, Runs, PoolAt, Holds
  <2>2. Only(cur[t]) /\ chl' = chl
    BY <1>0, <1>9 DEF ReleaseOut, PoolType
  <2> HIDE DEF Mine, Only, Goal
  <2> QED
    BY <1>4, <2>1, <2>2
<1>10. CASE PushAppend(t)
  <2>1. Mine(cur[t])
    BY <1>1, <1>10 DEF PushAppend, Runs, PoolAt, Holds
  <2>2. Only(cur[t]) /\ chl' = chl
    BY <1>0, <1>10 DEF PushAppend, PoolType
  <2> HIDE DEF Mine, Only, Goal
  <2> QED
    BY <1>4, <2>1, <2>2
<1>11. CASE PushAlloc(t)
  <2>1. PICK p \in Blocks \union {NULL} :
           /\ IsUnused(p) /\ chl' = chl /\ next' = next /\ out' = out
           /\ data' = IF p = NULL THEN data ELSE [data EXCEPT ![p][0] = ch]
           /\ in' = IF p = NULL THEN in ELSE [in EXCEPT ![p] = 1]
    BY <1>11 DEF PushAlloc, FillBlock
  <2>2. Mine(p)
    BY <1>0, <2>1, Facts DEF IsUnused, Used
  <2>3. Only(p)
    BY <1>0, <2>1 DEF PoolType
  <2> HIDE DEF Mine, Only, Goal
  <2> QED
    BY <1>4, <2>1, <2>2, <2>3
<1>12. CASE PushLink(t)
  <2>1. /\ cur[t] \in Blocks /\ chl[cur[t]] = NoChl
        /\ aux[t] # NULL => Own(aux[t]) = c
    BY <1>1, <1>12 DEF PushLink, Runs, PoolAt, Holds
  <2>2. Only(aux[t])
    BY <1>0, <1>12 DEF PushLink, PoolType
  <2>3. chl' = IF aux[t] = NULL THEN [chl EXCEPT ![cur[t]] = c] ELSE chl
    BY <1>12 DEF PushLink
  <2> QED
    BY <1>0, <1>1, <2>1, <2>2, <2>3, Facts DEF PoolType
<1> HIDE DEF Goal
<1> QED
  BY <1>5, <1>6, <1>7, <1>8, <1>9, <1>10, <1>11, <1>12 DEF Inner

LEMMA FreshOwned ==
  IInv => \A b \in Blocks : IsFresh(b) => Inside(Io) /\ Own(b) = arg[Io]
  BY FreshFacts

LEMMA FreshOwnedNext ==
  IInv' => \A b \in Blocks : IsFresh(b)' => Inside(Io)' /\ Own(b)' = arg'[Io]
<1>1. (IInv => \A b \in Blocks : IsFresh(b) => Inside(Io) /\ Own(b) = arg[Io])'
  BY FreshOwned, PTL
<1> QED
  BY <1>1

LEMMA InsideStays ==
  ASSUME IInv, IInv', NEW t \in Actors, Inside(t), Inner(t)
  PROVE  Inside(t)' /\ arg' = arg /\ op' = op
         /\ \A b \in Blocks : IsFresh(b)' => t = Io /\ Own(b)' = arg[t]
<1>1. Inside(t)' /\ arg' = arg /\ op' = op
  BY InnerStays DEF Inside, Suspended, IInv
<1>2. \A b \in Blocks : IsFresh(b)' => Inside(Io)' /\ Own(b)' = arg'[Io]
  BY FreshOwnedNext
<1>3. Inside(Io)' => t = Io
  BY <1>1, Facts DEF IInv, LockInv, MutualExclusion
<1> QED
  BY <1>1, <1>2, <1>3

LEMMA OthersKept ==
  ASSUME IInv, IInv', NEW t \in Actors, Inside(t), Inner(t),
         NEW d \in Channels, d # arg[t]
  PROVE  Kept(d)
<1>1. \A b \in Linked(d) :
         in'[b] = in[b] /\ out'[b] = out[b] /\ next'[b] = next[b] /\ data'[b] = data[b]
  BY InnerTouches DEF Linked
<1>2. \A b \in Linked(d) : b \in Linked(d)'
  <2>1. \A b \in Linked(d) : ~ IsFresh(b)'
    BY <1>1, InsideStays DEF Linked, Own
  <2> QED
    BY <1>1, <2>1 DEF Linked, Used, Own
<1>3. \A b \in Linked(d) : ChainFrom(b)' = ChainFrom(b)
  <2>1. \A b \in Linked(d) : /\ Used(b) /\ Used(b)'
                             /\ next[b] \in Linked(d) \union {NULL} /\ next'[b] = next[b]
                             /\ Unread(b)' = Unread(b)
    BY <1>1, LinkedIs DEF Linked, Used, Unread
  <2>2. Linked(d) \in SUBSET Blocks
    BY DEF Linked
  <2> QED
    BY <2>1, <2>2, ChainsSame
<1>4. Start(d)' = Start(d)
  <2>1. arg[t] \in Channels /\ arg'[t] = arg[t] /\ Inside(t)'
    BY InnerTouches, InsideStays
  <2>2. Start(d) \in Blocks \union {NULL} /\ IsFirst(Start(d), d)
    BY <2>1, StartOf
  <2>3. Start(d)' \in Blocks \union {NULL} /\ IsFirst(Start(d), d)'
    BY <2>1, StartOfNext
  <2>4. \A b \in Blocks : chl'[b] = d <=> chl[b] = d
    BY InnerTouches
  <2>5. IsFirst(Start(d)', d)
    BY <2>3, <2>4, DQueueAssumption DEF IsFirst, Blocks, DQueueAssumption
  <2> QED
    BY <2>2, <2>3, <2>5, FirstUnique
<1> QED
  BY <1>1, <1>2, <1>3, <1>4 DEF Kept

-----------------------------------------------------------------------------
(* What a channel holds, and how it grows when DqueIo stores a character.   *)
Holding(c) == ChainFrom(Start(c))

LEMMA HoldingIs ==
  ASSUME IInv, NEW c \in Channels
  PROVE  Holding(c) \in Seq(AnyChars)
  BY Unfold, LinkedIs DEF Holding, Linked

LEMMA HoldingNext ==
  ASSUME NEW c, NEW p, p = Start(c)'
  PROVE  Holding(c)' = ChainFrom(p)'
  BY DEF Holding, ChainFrom

Grown(c, w) ==
    /\ Holding(c)' = Holding(c) \o w
    /\ \A b \in Linked(c) : /\ b \in Linked(c)' /\ ChainFrom(b)' = ChainFrom(b) \o w
                            /\ in'[b] >= in[b] /\ out'[b] = out[b]

LEMMA KeptIsGrown ==
  ASSUME IInv, IInv', NEW c \in Channels, Kept(c)
  PROVE  Grown(c, <<>>) /\ Holding(c)' = Holding(c)
<1> PICK p : p = Start(c)
  OBVIOUS
<1>1. p \in Linked(c) \union {NULL} /\ p = Start(c)'
  BY LinkedIs DEF Kept
<1>2. Holding(c) = ChainFrom(p) /\ Holding(c)' = ChainFrom(p)'
  BY <1>1, HoldingNext DEF Holding
<1>3. ChainFrom(p)' = ChainFrom(p)
  BY <1>1, Unfold, UnfoldNext DEF Kept
<1>4. \A s \in Seq(AnyChars) : s \o <<>> = s
  BY ConcatEmptySeq
<1>5. \A b \in Linked(c) : ChainFrom(b) \in Seq(AnyChars) /\ in[b] \in Nat
  BY Unfold DEF Linked, IInv, TypeOK, PoolType
<1> QED
  BY <1>2, <1>3, <1>4, <1>5, HoldingIs DEF Kept, Grown

LEMMA LinkedKept ==
  ASSUME IInv, IInv', NEW c \in Channels,
         \A b \in Linked(c) : /\ in'[b] = in[b] /\ out'[b] = out[b] /\ next'[b] = next[b]
                              /\ data'[b] = data[b] /\ ~ IsFresh(b)'
  PROVE  \A b \in Linked(c) : b \in Linked(c)' /\ ChainFrom(b)' = ChainFrom(b)
<1>1. \A b \in Linked(c) : b \in Linked(c)'
  BY DEF Linked, Used, Own
<1>2. \A b \in Linked(c) : /\ Used(b) /\ Used(b)'
                           /\ next[b] \in Linked(c) \union {NULL} /\ next'[b] = next[b]
                           /\ Unread(b)' = Unread(b)
  BY LinkedIs DEF Linked, Used, Unread
<1>3. Linked(c) \in SUBSET Blocks
  BY DEF Linked
<1> QED
  BY <1>1, <1>2, <1>3, ChainsSame

(* A step that writes nothing and moves no head leaves its channel too.     *)
LEMMA QuietKeeps ==
  ASSUME IInv, IInv', NEW t \in Actors, Inside(t), Inner(t), ~ Moving(t), ~ Moving(t)',
         UNCHANGED <<next, chl, in, out, data>>, pc[t] # "link", pc'[t] # "link",
         NEW c \in Channels
  PROVE  Kept(c)
<1>1. Inside(t)' /\ \A s \in Actors : (Inside(s) => s = t) /\ (Inside(s)' => s = t)
  BY InsideStays DEF IInv, LockInv, MutualExclusion
<1>2. \A b \in Blocks : ~ IsFresh(b)
  BY <1>1, FreshOwned, Facts DEF IsFresh
<1>3. \A b \in Blocks : ~ IsFresh(b)'
  BY <1>1, FreshOwnedNext, Facts DEF IsFresh
<1> QED
  BY <1>1, <1>2, <1>3, OutsideKeeps

(* A chain has one last block, and grows where that one does.               *)
LEMMA OneLast ==
  ASSUME IInv, NEW c \in Channels, NEW p \in Linked(c), next[p] = NULL,
         NEW f, TailOK(f), f \notin Linked(c)
  PROVE  \A b \in Linked(c) : b # p => next[b] \in Linked(c)
<1> SUFFICES ASSUME NEW b \in Linked(c), b # p, next[b] = NULL PROVE FALSE
  BY LinkedIs
<1>1. /\ b \in Blocks /\ Used(b) /\ Own(b) = c /\ p \in Blocks /\ Used(p) /\ Own(p) = c
      /\ b # f /\ p # f
  BY DEF Linked
<1>2. Before(p, b) /\ Before(b, p)
  BY <1>1 DEF TailOK
<1> QED
  BY <1>1, <1>2, Antisymmetric DEF IInv, TypeOK

LEMMA LastGrows ==
  ASSUME IInv, IInv', NEW c \in Channels, NEW p \in Linked(c), next[p] = NULL,
         NEW f, TailOK(f), f \notin Linked(c), NEW w \in Seq(AnyChars),
         \A b \in Linked(c) : b \in Linked(c)' /\ in'[b] >= in[b] /\ out'[b] = out[b],
         \A b \in Linked(c) : b # p => /\ in'[b] = in[b] /\ next'[b] = next[b]
                                       /\ data'[b] = data[b],
         ChainFrom(p)' = ChainFrom(p) \o w,
         Start(c)' = Start(c), Start(c) # NULL
  PROVE  Grown(c, w)
<1>1. Linked(c) \in SUBSET Blocks /\ \A b \in Linked(c) : Used(b) /\ Used(b)'
  BY DEF Linked
<1>2. \A b \in Linked(c) : b # p => next[b] \in Linked(c)
  BY OneLast
<1>3. \A b \in Linked(c) : b # p => Unread(b)' = Unread(b)
  BY DEF Unread
<1>4. \A b \in Linked(c) : \/ ChainFrom(b)' = ChainFrom(b) \o w
                           \/ next[b] \in Linked(c) /\ next'[b] = next[b]
                              /\ Unread(b)' = Unread(b)
  BY <1>2, <1>3
<1>5. \A b \in Linked(c) : ChainFrom(b)' = ChainFrom(b) \o w
  BY <1>1, <1>4, ChainsGrow
<1> PICK q : q = Start(c)
  OBVIOUS
<1>6. q \in Linked(c) /\ q = Start(c)'
  BY LinkedIs
<1>7. Holding(c) = ChainFrom(q) /\ Holding(c)' = ChainFrom(q)'
  BY <1>6, HoldingNext DEF Holding
<1> QED
  BY <1>5, <1>6, <1>7 DEF Grown

(* The character DqueIo stores is one that was posted.                      *)
LEMMA StoredIs ==
  ASSUME CInv, op[Io] = "push"
  PROVE  /\ ch \in AnyChars /\ <<ch>> \in Seq(AnyChars) /\ <<>> \in Seq(AnyChars)
         /\ ch \in {arg[Io]} \X (1 .. Quota[arg[Io]]) /\ arg[Io] \in Channels
<1>1. /\ ch \in AnyChars /\ ch[1] \in Channels /\ ch[2] <= posted[ch[1]] /\ ch[2] > 0
      /\ arg[Io] = ch[1] /\ \A c \in Channels : posted[c] <= Quota[c] /\ posted[c] \in Nat
  BY Facts DEF CInv, IInv, TypeOK, CallType, QueueType, CallInv, SerialInv, HandOK, SerialFromOne
<1>2. Quota[ch[1]] \in Nat /\ posted[ch[1]] \in Nat /\ ch[2] \in Nat
  BY <1>1, DQueueAssumption DEF DQueueAssumption, AnyChars
<1>3. ch[2] \in 1 .. Quota[ch[1]]
  BY <1>1, <1>2
<1>4. ch = <<ch[1], ch[2]>>
  BY <1>1 DEF AnyChars
<1> QED
  BY <1>1, <1>3, <1>4

LEMMA AppendGrows ==
  ASSUME CInv, CInv', NEW t \in Actors, Inside(t), PushAppend(t),
         NEW c \in Channels, c = arg[t]
  PROVE  Grown(c, <<ch>>)
<1> PICK p : p = cur[t]
  OBVIOUS
<1>0. IInv /\ IInv' /\ TypeOK /\ PoolType /\ Inner(t)
  BY DEF CInv, IInv, TypeOK, Inner
<1>1. PoolAt(t) /\ pc[t] = "tail" /\ op[t] = "push" /\ t = Io
  BY DEF CInv, IInv, PoolInv, CallInv, PushAppend, Runs
<1>2. /\ p \in Blocks /\ Used(p) /\ Own(p) = c /\ next[p] = NULL /\ in[p] < BLK
      /\ in[p] \in 1 .. BLK - 1
  <2>1. p \in Blocks /\ Used(p) /\ Own(p) = c /\ next[p] = NULL /\ in[p] < BLK
    BY <1>0, <1>1 DEF PushAppend, PoolAt, Holds, TypeOK, CallType
  <2> QED
    BY <1>0, <2>1, Facts DEF PoolType, Used
<1>3. /\ data' = [data EXCEPT ![p][in[p]] = ch] /\ in' = [in EXCEPT ![p] = in[p] + 1]
      /\ next' = next /\ chl' = chl /\ out' = out /\ pc'[t] = "unlock"
  BY <1>0 DEF PushAppend, TypeOK, CallType
<1>4. /\ in'[p] = in[p] + 1 /\ data'[p] = [data[p] EXCEPT ![in[p]] = ch]
      /\ \A b \in Blocks : b # p => in'[b] = in[b] /\ data'[b] = data[b]
  BY <1>0, <1>2, <1>3 DEF PoolType
<1>5. \A b \in Blocks : ~ IsFresh(b) /\ ~ IsFresh(b)'
  BY <1>1, <1>3 DEF IsFresh
<1>6. p \in Linked(c)
  BY <1>2, <1>5 DEF Linked
<1>7. \A b \in Linked(c) : b \in Linked(c)' /\ in'[b] >= in[b] /\ out'[b] = out[b]
  <2> SUFFICES ASSUME NEW b \in Linked(c)
               PROVE  b \in Linked(c)' /\ in'[b] >= in[b] /\ out'[b] = out[b]
    OBVIOUS
  <2>1. b \in Blocks /\ Used(b) /\ Own(b) = c /\ in[b] \in 0 .. BLK
    BY <1>0 DEF Linked, PoolType
  <2>2. in'[b] >= in[b] /\ in'[b] > 0
    BY <1>4, <2>1, Facts DEF Used
  <2>3. data'[b][0] = data[b][0]
    <3>1. in[p] # 0 /\ 0 \in DOMAIN data[p]
      BY <1>0, <1>2, Facts DEF PoolType
    <3> QED
      BY <1>4, <2>1, <3>1
  <2> QED
    BY <1>3, <1>5, <2>1, <2>2, <2>3 DEF Linked, Used, Own
<1>8. ChainFrom(p)' = ChainFrom(p) \o <<ch>>
  <2>1. ChainFrom(p) = Unread(p) \o ChainFrom(NULL) /\ ChainFrom(NULL) = <<>>
    BY <1>0, <1>2, Unfold
  <2>2. ChainFrom(p)' = Unread(p)' \o ChainFrom(NULL)' /\ ChainFrom(NULL)' = <<>>
    <3>1. Used(p)' /\ next'[p] = NULL
      BY <1>2, <1>3, <1>6, <1>7 DEF Linked
    <3> QED
      BY <1>0, <1>2, <3>1, UnfoldNext
  <2>3. Unread(p)' = Append(Unread(p), ch) /\ Unread(p) \in Seq(AnyChars)
    <3>1. out[p] <= in[p] /\ out[p] \in 0 .. BLK
      BY <1>0, <1>2, ChainFacts DEF PoolType
    <3>2. /\ Unread(p) \in Seq(AnyChars) /\ Len(Unread(p)) = in[p] - out[p]
          /\ \A i \in 1 .. in[p] - out[p] : Unread(p)[i] = data[p][out[p] + i - 1]
      BY <1>0, <1>2, <3>1, UnreadIs
    <3>3. Unread(p)' = [i \in 1 .. in[p] - out[p] + 1 |-> data'[p][out[p] + i - 1]]
      <4>1. in'[p] - out'[p] = in[p] - out[p] + 1 /\ out'[p] = out[p]
        BY <1>2, <1>3, <1>4, <3>1, Facts
      <4> QED
        BY <4>1 DEF Unread
    <3>4. ASSUME NEW i \in 1 .. in[p] - out[p] + 1
          PROVE  data'[p][out[p] + i - 1] = Append(Unread(p), ch)[i]
      <4>1. CASE i = in[p] - out[p] + 1
        <5>1. out[p] + i - 1 = in[p] /\ i = Len(Unread(p)) + 1
          BY <1>2, <3>1, <3>2, <4>1
        <5>2. in[p] \in 0 .. BLK - 1 /\ DOMAIN data[p] = 0 .. BLK - 1
          BY <1>0, <1>2, Facts DEF PoolType
        <5>3. data'[p][in[p]] = ch
          BY <1>4, <5>2
        <5> QED
          BY <3>2, <5>1, <5>3
      <4>2. CASE i # in[p] - out[p] + 1
        <5>1. i \in 1 .. in[p] - out[p] /\ out[p] + i - 1 # in[p] /\ out[p] + i - 1 \in 0 .. BLK - 1
          BY <1>2, <3>1, <4>2, Facts
        <5>2. data'[p][out[p] + i - 1] = data[p][out[p] + i - 1]
          BY <1>0, <1>2, <1>4, <5>1 DEF PoolType
        <5> QED
          BY <3>2, <5>1, <5>2
      <4> QED
        BY <4>1, <4>2
    <3>5. /\ Append(Unread(p), ch) \in Seq(AnyChars)
          /\ Len(Append(Unread(p), ch)) = in[p] - out[p] + 1
      BY <1>0, <1>1, <3>2, StoredIs
    <3> PICK u, v : u = Unread(p)' /\ v = Append(Unread(p), ch)
      OBVIOUS
    <3>6. v = [i \in 1 .. in[p] - out[p] + 1 |-> v[i]]
      BY <3>5
    <3> QED
      BY <3>2, <3>3, <3>4, <3>6
  <2>4. Append(Unread(p), ch) = Unread(p) \o <<ch>>
    BY <1>1, <2>3, StoredIs
  <2>5. Append(Unread(p), ch) \o <<>> = Append(Unread(p), ch) /\ Unread(p) \o <<>> = Unread(p)
    <3>1. Append(Unread(p), ch) \in Seq(AnyChars)
      BY <1>1, <2>3, StoredIs
    <3> QED
      BY <2>3, <3>1, ConcatEmptySeq
  <2> QED
    BY <2>1, <2>2, <2>3, <2>4, <2>5
<1>9. Start(c)' = Start(c) /\ Start(c) # NULL
  <2>1. ~ Moving(t) /\ ~ Moving(t)'
    BY <1>1, <1>3 DEF Moving, Clearing, ReleasingHead, HeadTakenAway
  <2>2. Start(c) \in Blocks \union {NULL} /\ IsFirst(Start(c), c)
    BY <1>0, <2>1, StartOf
  <2>3. Start(c)' \in Blocks \union {NULL} /\ IsFirst(Start(c), c)'
    BY <1>0, <2>1, InsideStays, StartOfNext
  <2>4. IsFirst(Start(c)', c)
    BY <1>3, <2>3 DEF IsFirst
  <2>5. \E a \in Blocks : chl[a] = c
    <3>1. Headless(t) = NoChl
      BY <1>1 DEF Headless
    <3> QED
      BY <1>1, <1>2, <3>1, Facts DEF PoolAt, PoolOK, ReachOK
  <2>6. Start(c)' = Start(c)
    BY <2>2, <2>3, <2>4, FirstUnique
  <2> QED
    BY <2>2, <2>5, <2>6, Facts DEF IsFirst
<1>10. TailOK(NULL) /\ NULL \notin Linked(c)
  BY <1>1, Facts DEF PoolAt, PoolOK, Fresh, Linked
<1>11. \A b \in Linked(c) : b # p => /\ in'[b] = in[b] /\ next'[b] = next[b]
                                     /\ data'[b] = data[b]
  BY <1>3, <1>4 DEF Linked
<1>12. <<ch>> \in Seq(AnyChars)
  BY <1>1, StoredIs
<1> QED
  BY <1>0, <1>2, <1>6, <1>7, <1>8, <1>9, <1>10, <1>11, <1>12, LastGrows

LEMMA LinkGrows ==
  ASSUME CInv, CInv', NEW t \in Actors, Inside(t), PushLink(t),
         NEW c \in Channels, c = arg[t]
  PROVE  Grown(c, <<ch>>)
<1> PICK p, n : p = cur[t] /\ n = aux[t]
  OBVIOUS
<1>0. IInv /\ IInv' /\ TypeOK /\ PoolType /\ Inner(t)
  BY DEF CInv, IInv, TypeOK, Inner
<1>1. PoolAt(t) /\ pc[t] = "link" /\ op[t] = "push" /\ t = Io
  BY DEF CInv, IInv, PoolInv, CallInv, PushLink, Runs
<1>2. /\ p \in Blocks /\ n \in Blocks \union {NULL} /\ p # n /\ in[p] = 1 /\ out[p] = 0
      /\ Own(p) = c /\ next[p] = NULL /\ chl[p] = NoChl /\ \A b \in Blocks : next[b] # p
      /\ n # NULL => Used(n) /\ Own(n) = c /\ next[n] = NULL
      /\ n = NULL => \A b \in Blocks \ {p} : Used(b) => Own(b) # c
  BY <1>0, <1>1 DEF PoolAt, Holds, TypeOK, CallType
<1>3. /\ next' = IF n # NULL THEN [next EXCEPT ![n] = p] ELSE next
      /\ chl' = IF n = NULL THEN [chl EXCEPT ![p] = c] ELSE chl
      /\ in' = in /\ out' = out /\ data' = data /\ pc'[t] = "unlock"
  BY <1>0 DEF PushLink, TypeOK, CallType
<1>4. /\ \A b \in Blocks : IsFresh(b) <=> b = p
      /\ \A b \in Blocks : ~ IsFresh(b)'
  BY <1>1, <1>3 DEF IsFresh
<1>5. \A b \in Linked(c) : b \in Linked(c)'
  BY <1>3, <1>4 DEF Linked, Used, Own
<1>6. ChainFrom(p)' = <<ch>>
  <2>1. Unread(p)' = <<ch>>
    <3>1. data[p][0] = ch
      BY <1>1 DEF CInv, FreshHolds
    <3>2. Unread(p)' = [i \in 1 .. 1 |-> data[p][0 + i - 1]]
      <4>1. in'[p] - out'[p] = 1 /\ out'[p] = 0 /\ data' = data
        BY <1>2, <1>3
      <4> QED
        BY <4>1 DEF Unread
    <3>3. [i \in 1 .. 1 |-> data[p][0 + i - 1]] = [i \in 1 .. 1 |-> ch]
      BY <3>1
    <3>4. [i \in 1 .. 1 |-> ch] = <<ch>>
      OBVIOUS
    <3> QED
      BY <3>2, <3>3, <3>4
  <2>2. Used(p)' /\ next'[p] = NULL
    BY <1>0, <1>2, <1>3 DEF Used, PoolType
  <2>3. ChainFrom(p)' = Unread(p)' \o ChainFrom(NULL)' /\ ChainFrom(NULL)' = <<>>
    BY <1>0, <1>2, <2>2, UnfoldNext
  <2> QED
    BY <1>1, <2>1, <2>3, StoredIs, ConcatEmptySeq
<1>7. ~ Moving(t) /\ ~ Moving(t)' /\ Inside(t)' /\ arg'[t] = c
  BY <1>0, <1>1, <1>3, InsideStays DEF Moving, Clearing, ReleasingHead, HeadTakenAway
<1>8. Start(c) \in Blocks \union {NULL} /\ IsFirst(Start(c), c)
  BY <1>0, <1>7, StartOf
<1>9. Start(c)' \in Blocks \union {NULL} /\ IsFirst(Start(c), c)'
  BY <1>0, <1>7, StartOfNext
<1>10. CASE n # NULL
  <2>1. n \in Linked(c) /\ next[n] = NULL
    BY <1>2, <1>4, <1>10 DEF Linked
  <2>2. TailOK(p) /\ p \notin Linked(c)
    BY <1>1, <1>2, <1>4 DEF PoolAt, PoolOK, Fresh, Linked
  <2>3. <<ch>> \in Seq(AnyChars)
    BY <1>1, StoredIs
  <2>4. \A b \in Linked(c) : b \in Linked(c)' /\ in'[b] >= in[b] /\ out'[b] = out[b]
    <3>1. \A b \in Linked(c) : in[b] >= in[b]
      BY <1>0 DEF PoolType, Linked
    <3> QED
      BY <1>3, <1>5, <3>1
  <2>5. \A b \in Linked(c) : b # n => /\ in'[b] = in[b] /\ next'[b] = next[b]
                                      /\ data'[b] = data[b]
    BY <1>0, <1>3 DEF PoolType, Linked
  <2>6. ChainFrom(n)' = ChainFrom(n) \o <<ch>>
    <3>1. ChainFrom(n) = Unread(n) \o ChainFrom(NULL) /\ ChainFrom(NULL) = <<>>
      BY <1>0, <1>2, <1>10, Unfold
    <3>2. ChainFrom(n)' = Unread(n)' \o ChainFrom(p)'
      <4>1. next'[n] = p /\ Used(n)' /\ n \in Blocks
        BY <1>0, <1>2, <1>3, <1>10 DEF PoolType, Used
      <4> QED
        BY <1>0, <1>2, <4>1, UnfoldNext
    <3>3. Unread(n)' = Unread(n) /\ Unread(n) \o <<>> = Unread(n)
      <4>1. Unread(n) \in Seq(AnyChars)
        BY <1>0, <1>2, <1>10, UnreadIs
      <4> QED
        BY <1>3, <4>1, ConcatEmptySeq DEF Unread
    <3> QED
      BY <1>6, <3>1, <3>2, <3>3
  <2>7. Start(c)' = Start(c) /\ Start(c) # NULL
    <3>1. IsFirst(Start(c)', c)
      BY <1>3, <1>9, <1>10 DEF IsFirst
    <3>2. Start(c)' = Start(c)
      BY <1>8, <1>9, <3>1, FirstUnique
    <3>3. Headless(t) = NoChl
      BY <1>1, <1>10 DEF Headless
    <3>4. \E a \in Blocks : chl[a] = c
      BY <1>1, <1>2, <1>10, <3>3, Facts DEF PoolAt, PoolOK, ReachOK
    <3> QED
      BY <1>8, <3>2, <3>4, Facts DEF IsFirst
  <2> QED
    BY <1>0, <2>1, <2>2, <2>3, <2>4, <2>5, <2>6, <2>7, LastGrows
<1>11. CASE n = NULL
  <2>1. Linked(c) = {}
    BY <1>2, <1>4, <1>11 DEF Linked
  <2>2. Holding(c) = <<>>
    BY <1>0, <2>1, LinkedIs, Unfold DEF Holding
  <2>3. \A b \in Blocks : chl'[b] = c <=> b = p
    <3>1. \A b \in Blocks : chl[b] # c
      BY <1>0, <2>1, LinkedIs
    <3> QED
      BY <1>0, <1>2, <1>3, <1>11, <3>1 DEF PoolType
  <2>4. p = Start(c)'
    BY <1>2, <1>9, <2>3 DEF IsFirst
  <2>5. Holding(c)' = <<ch>>
    BY <1>6, <2>4, HoldingNext
  <2> QED
    BY <1>1, <2>1, <2>2, <2>5, StoredIs, ConcatEmptySeq DEF Grown
<1> QED
  BY <1>10, <1>11

LEMMA AllocKeeps ==
  ASSUME CInv, CInv', NEW t \in Actors, Inside(t), PushAlloc(t),
         NEW c \in Channels, c = arg[t]
  PROVE  Kept(c)
<1>0. IInv /\ IInv' /\ TypeOK /\ PoolType /\ Inner(t)
  BY DEF CInv, IInv, TypeOK, Inner
<1>1. pc[t] = "alloc" /\ op[t] = "push" /\ t = Io
  BY DEF CInv, IInv, CallInv, PushAlloc, Runs
<1>2. PICK p \in Blocks \union {NULL} :
           /\ IsUnused(p) /\ chl' = chl /\ next' = next /\ out' = out /\ cur'[t] = p
           /\ data' = IF p = NULL THEN data ELSE [data EXCEPT ![p][0] = ch]
           /\ in' = IF p = NULL THEN in ELSE [in EXCEPT ![p] = 1]
           /\ pc'[t] = IF p = NULL THEN "unlock" ELSE "link"
  BY <1>0 DEF PushAlloc, FillBlock, TypeOK, CallType
<1>3. \A b \in Linked(c) : b # p /\ b \in Blocks /\ b # NULL
  BY <1>0, <1>2, Facts DEF IsUnused, Linked, Used
<1>4. \A b \in Linked(c) : /\ in'[b] = in[b] /\ out'[b] = out[b] /\ next'[b] = next[b]
                           /\ data'[b] = data[b] /\ ~ IsFresh(b)'
  BY <1>0, <1>1, <1>2, <1>3 DEF PoolType, IsFresh
<1>5. Start(c)' = Start(c)
  <2>1. ~ Moving(t) /\ ~ Moving(t)' /\ Inside(t)' /\ arg'[t] = c
    BY <1>0, <1>1, <1>2, InsideStays DEF Moving, Clearing, ReleasingHead, HeadTakenAway
  <2>2. Start(c) \in Blocks \union {NULL} /\ IsFirst(Start(c), c)
    BY <1>0, <2>1, StartOf
  <2>3. Start(c)' \in Blocks \union {NULL} /\ IsFirst(Start(c), c)'
    BY <1>0, <2>1, StartOfNext
  <2>4. IsFirst(Start(c)', c)
    BY <1>2, <2>3 DEF IsFirst
  <2> QED
    BY <2>2, <2>3, <2>4, FirstUnique
<1> QED
  BY <1>0, <1>4, <1>5, LinkedKept DEF Kept

(* What DqueIo does to its channel: nothing, or one character at the end.   *)
LEMMA PushGrows ==
  ASSUME CInv, CInv', NEW t \in Actors, Inside(t), Inner(t), op[t] = "push",
         NEW c \in Channels, c = arg[t]
  PROVE  Grown(c, <<>>) \/ Grown(c, <<ch>>)
<1>0. IInv /\ IInv' /\ TypeOK
  BY DEF CInv, IInv
<1>1. CASE PushAppend(t)
  BY <1>1, AppendGrows
<1>2. CASE PushLink(t)
  BY <1>2, LinkGrows
<1>3. CASE PushAlloc(t)
  BY <1>0, <1>3, AllocKeeps, KeptIsGrown
<1>4. CASE First(t) \/ PushWalk(t) \/ PushFull(t)
  <2>1. /\ UNCHANGED <<next, chl, in, out, data>>
        /\ pc[t] \in {"first", "tail"} /\ pc'[t] \in {"tail", "alloc"}
    BY <1>0, <1>4 DEF First, PushWalk, PushFull, pool, Runs, Entry, TypeOK, CallType
  <2>2. ~ Moving(t) /\ ~ Moving(t)'
    BY <2>1 DEF Moving, Clearing, ReleasingHead, HeadTakenAway
  <2>3. Kept(c)
    BY <1>0, <2>1, <2>2, QuietKeeps
  <2> QED
    BY <1>0, <2>3, KeptIsGrown
<1>5. pc[t] \in {"first", "tail", "alloc", "link", "unlock"}
  BY DEF CInv, IInv, CallInv, Inside, InCS
<1> QED
  BY <1>1, <1>2, <1>3, <1>4, <1>5 DEF Inner, TakeSome, TakeNone, RenameNext, Rehead, ReleaseIn,
     ReleaseOut, Clear, Runs

-----------------------------------------------------------------------------
(* What a reader does to its channel: nothing, or it takes a prefix, and    *)
(* that is received or, by a clear or a full buffer, lost.                  *)
LossyChannels == {c \in Channels : \E t \in Threads :
                                     {<<"clear", c>>, <<"pop2buf", c>>} \cap Uses[t] # {}}

PrefixTaken(c, n) ==
    /\ Holding(c)' = SubSeq(Holding(c), n + 1, Len(Holding(c)))
    /\ \/ rcvd' = [rcvd EXCEPT ![c] = SubSeq(Holding(c), 1, n)]
       \/ rcvd' = rcvd /\ c \in LossyChannels

ReadStep(c) == \/ Holding(c)' = Holding(c) /\ rcvd' = rcvd
               \/ \E n \in 1 .. Len(Holding(c)) : PrefixTaken(c, n)

LEMMA ReaderIs ==
  ASSUME CInv, CInv', NEW t \in Actors, Inside(t), Inner(t), op[t] # "push"
  PROVE  /\ t \in Threads /\ <<op[t], arg[t]>> \in Uses[t] /\ arg[t] \in Channels
         /\ op[t] \in {"pop", "pop2buf", "popchar", "clear"}
         /\ Inside(t)' /\ arg' = arg /\ op' = op
         /\ \A b \in Blocks : ~ IsFresh(b) /\ ~ IsFresh(b)'
<1>1. /\ t \in Threads /\ arg[t] \in Channels /\ pc[t] # "idle"
      /\ op[t] \in {"pop", "pop2buf", "popchar", "clear"}
  BY DEF CInv, IInv, CallInv, UsesInv, Inside, InCS, Actors, Entry
<1>2. Inside(t)' /\ arg' = arg /\ op' = op
  BY InsideStays DEF CInv
<1>3. t # Io
  BY <1>1, DQueueAssumption DEF DQueueAssumption
<1>4. \A b \in Blocks : ~ IsFresh(b)'
  BY <1>3, InsideStays DEF CInv
<1>5. \A b \in Blocks : ~ IsFresh(b)
  BY <1>3, FreshOwned, Facts DEF CInv, IInv, LockInv, MutualExclusion
<1> QED
  BY <1>1, <1>2, <1>4, <1>5 DEF CInv, UsesInv

LEMMA FirstReads ==
  ASSUME CInv, CInv', NEW t \in Actors, Inside(t), First(t), op[t] # "push",
         NEW c \in Channels, c = arg[t]
  PROVE  ReadStep(c)
<1>0. IInv /\ IInv' /\ TypeOK /\ Inner(t)
  BY DEF CInv, IInv, Inner
<1>1. /\ UNCHANGED <<next, chl, in, out, data, rcvd>>
      /\ pc[t] = "first" /\ pc'[t] = Entry[op[t]] /\ op' = op
  BY <1>0, ReaderIs DEF First, pool, Runs, TypeOK, CallType
<1>2. ~ Moving(t)
  BY <1>1 DEF Moving, Clearing, ReleasingHead, HeadTakenAway
<1>3. CASE op[t] = "clear"
  <2>1. Clearing(t)'
    BY <1>1, <1>3 DEF Clearing, Entry
  <2>2. NULL = Start(c)'
    BY <1>0, <2>1, ReaderIs, StartOfNext
  <2>3. Holding(c)' = <<>>
    BY <1>0, <2>2, HoldingNext, UnfoldNext
  <2>4. c \in LossyChannels
    BY <1>0, <1>3, ReaderIs DEF LossyChannels
  <2> PICK x : x = Holding(c)
    OBVIOUS
  <2>5. x \in Seq(AnyChars)
    BY <1>0, HoldingIs
  <2>6. CASE Len(x) = 0
    BY <1>1, <2>3, <2>5, <2>6, EmptySeq DEF ReadStep
  <2>7. CASE Len(x) # 0
    <3>1. Len(x) \in 1 .. Len(x) /\ SubSeq(x, Len(x) + 1, Len(x)) = <<>>
      BY <2>5, <2>7
    <3> QED
      BY <1>1, <2>3, <2>4, <3>1 DEF ReadStep, PrefixTaken
  <2> QED
    BY <2>6, <2>7
<1>4. CASE op[t] # "clear"
  <2>0. op[t] \in {"pop", "pop2buf", "popchar"}
    BY <1>0, <1>4, ReaderIs
  <2>1. pc'[t] = "take"
    BY <1>1, <2>0 DEF Entry
  <2>2. ~ Moving(t)'
    BY <2>1 DEF Moving, Clearing, ReleasingHead, HeadTakenAway
  <2>3. Kept(c)
    BY <1>0, <1>1, <1>2, <2>1, <2>2, QuietKeeps
  <2> QED
    BY <1>0, <1>1, <2>3, KeptIsGrown DEF ReadStep
<1> QED
  BY <1>3, <1>4

(* The chain behind a block does not depend on that block.                  *)
LEMMA TailsSame ==
  ASSUME IInv, IInv', NEW c \in Channels, NEW p \in Blocks, Used(p), Own(p) = c,
         NEW n \in Blocks \union {NULL}, n = next[p],
         \A b \in Blocks \ {p} : Used(b) /\ Own(b) = c =>
            in'[b] = in[b] /\ out'[b] = out[b] /\ next'[b] = next[b] /\ data'[b] = data[b]
  PROVE  ChainFrom(n)' = ChainFrom(n)
<1> DEFINE S == {b \in Blocks : Used(b) /\ Own(b) = c /\ Before(p, b)}
<1>1. p \notin S
  BY Antisymmetric DEF IInv, TypeOK
<1>2. \A b \in S : next[b] \in S \union {NULL}
  BY ChainFacts, BeforeTransitive DEF IInv, TypeOK
<1>3. \A b \in S : /\ Used(b) /\ Used(b)'
                   /\ next[b] \in S \union {NULL} /\ next'[b] = next[b]
                   /\ Unread(b)' = Unread(b)
  BY <1>1, <1>2 DEF Used, Unread
<1>4. n # NULL => n \in S
  BY ChainFacts
<1> HIDE DEF S
<1>5. \A b \in S : ChainFrom(b)' = ChainFrom(b)
  <2>1. S \in SUBSET Blocks
    BY DEF S
  <2> QED
    BY <1>3, <2>1, ChainsSame
<1> QED
  BY <1>4, <1>5, Unfold, UnfoldNext

(* To take n characters of the first of two sequences that are one.         *)
CutsFirst(u, r, n) ==
    /\ n \in 1 .. Len(u \o r)
    /\ SubSeq(u \o r, 1, n) = SubSeq(u, 1, n)
    /\ SubSeq(u \o r, n + 1, Len(u \o r)) = SubSeq(u, n + 1, Len(u)) \o r

(* What is behind the first n of a sequence.                               *)
LEMMA Rest ==
  ASSUME NEW S, NEW z \in Seq(S), NEW n \in 1 .. Len(z)
  PROVE  /\ SubSeq(z, n + 1, Len(z)) \in Seq(S)
         /\ Len(SubSeq(z, n + 1, Len(z))) = Len(z) - n
         /\ \A i \in 1 .. Len(z) - n : SubSeq(z, n + 1, Len(z))[i] = z[n + i]
<1> PICK v : v = SubSeq(z, n + 1, Len(z))
  OBVIOUS
<1>1. Len(z) \in Nat /\ n \in Nat /\ n <= Len(z)
  OBVIOUS
<1>2. v = [i \in 1 .. Len(z) - n |-> z[n + i]]
  BY <1>1
<1>3. Len(z) - n \in Nat /\ v \in Seq(S)
  BY <1>1
<1>4. Len(v) = Len(z) - n /\ \A i \in 1 .. Len(z) - n : v[i] = z[n + i]
  BY <1>2, <1>3
<1> QED
  BY <1>3, <1>4

LEMMA Prefix ==
  ASSUME NEW S, NEW u \in Seq(S), NEW r \in Seq(S), NEW n \in 1 .. Len(u)
  PROVE  CutsFirst(u, r, n)
<1>1. /\ u \o r \in Seq(S) /\ Len(u \o r) = Len(u) + Len(r)
      /\ Len(u) \in Nat /\ Len(r) \in Nat /\ n \in Nat
  OBVIOUS
<1>2. n \in 1 .. Len(u \o r)
  BY <1>1
<1>3. SubSeq(u \o r, 1, n) = SubSeq(u, 1, n)
  OBVIOUS
<1>4. SubSeq(u \o r, n + 1, Len(u \o r)) = SubSeq(u, n + 1, Len(u)) \o r
  <2> PICK v, w : /\ v = SubSeq(u \o r, n + 1, Len(u \o r))
                  /\ w = SubSeq(u, n + 1, Len(u)) \o r
    OBVIOUS
  <2> PICK z : z = u \o r
    OBVIOUS
  <2>1. /\ v \in Seq(S) /\ Len(v) = Len(u) - n + Len(r)
        /\ \A i \in 1 .. Len(v) : v[i] = (u \o r)[n + i]
    <3>1. z \in Seq(S) /\ Len(z) = Len(u) + Len(r) /\ v = SubSeq(z, n + 1, Len(z))
      BY <1>1
    <3>2. n \in 1 .. Len(z)
      BY <1>1, <3>1
    <3>3. /\ v \in Seq(S) /\ Len(v) = Len(z) - n
          /\ \A i \in 1 .. Len(v) : v[i] = z[n + i]
      BY <3>1, <3>2, Rest
    <3>4. Len(v) = Len(u) - n + Len(r)
      BY <1>1, <3>1, <3>3
    <3>5. \A i \in 1 .. Len(v) : v[i] = (u \o r)[n + i]
      BY <3>3
    <3> QED
      BY <3>3, <3>4, <3>5
  <2> PICK x : x = SubSeq(u, n + 1, Len(u))
    OBVIOUS
  <2>2. /\ x \in Seq(S) /\ Len(x) = Len(u) - n
        /\ \A i \in 1 .. Len(u) - n : x[i] = u[n + i]
    BY Rest
  <2>3. w = x \o r /\ w \in Seq(S) /\ Len(w) = Len(u) - n + Len(r)
    <3>1. w = x \o r
      OBVIOUS
    <3>2. x \o r \in Seq(S) /\ Len(x \o r) = Len(x) + Len(r)
      BY <2>2
    <3> QED
      BY <2>2, <3>1, <3>2
  <2>4. ASSUME NEW i \in 1 .. Len(v) PROVE v[i] = w[i]
    <3>1. CASE i \in 1 .. Len(u) - n
      <4>1. w[i] = u[n + i]
        BY <2>2, <2>3, <3>1
      <4>2. (u \o r)[n + i] = u[n + i]
        <5>1. n + i \in 1 .. Len(u)
          BY <1>1, <3>1
        <5> QED
          BY <5>1
      <4> QED
        BY <2>1, <4>1, <4>2
    <3>2. CASE i \notin 1 .. Len(u) - n
      <4>1. w[i] = r[i - (Len(u) - n)]
        <5>1. i \in Len(x) + 1 .. Len(x) + Len(r)
          BY <1>1, <2>1, <2>2, <3>2
        <5>2. (x \o r)[i] = r[i - Len(x)]
          BY <2>2, <5>1
        <5> QED
          BY <2>2, <2>3, <5>2
      <4>2. (u \o r)[n + i] = r[n + i - Len(u)]
        BY <1>1, <2>1, <3>2
      <4>3. n + i - Len(u) = i - (Len(u) - n)
        BY <1>1
      <4> QED
        BY <2>1, <4>1, <4>2, <4>3
    <3> QED
      BY <3>1, <3>2
  <2> QED
    BY <2>1, <2>3, <2>4, SeqEqual
<1> QED
  BY <1>2, <1>3, <1>4 DEF CutsFirst

LEMMA TakeReads ==
  ASSUME CInv, CInv', NEW t \in Actors, Inside(t), TakeSome(t),
         NEW c \in Channels, c = arg[t]
  PROVE  ReadStep(c)
<1> PICK p, n, m : p = cur[t] /\ n = Wanted(t, in[p] - out[p]) /\ m = next[p]
  OBVIOUS
<1>0. IInv /\ IInv' /\ TypeOK /\ PoolType /\ Inner(t)
  BY DEF CInv, IInv, TypeOK, Inner
<1>1. PoolAt(t) /\ pc[t] = "take" /\ op[t] \in {"pop", "pop2buf", "popchar"}
  BY DEF CInv, IInv, PoolInv, CallInv, TakeSome, Runs
<1>2. /\ p \in Blocks /\ Used(p) /\ Own(p) = c /\ chl[p] = c
      /\ n \in 1 .. in[p] - out[p] /\ m \in Blocks \union {NULL}
  <2>1. p \in Blocks /\ n \in 1 .. in[p] - out[p]
    BY <1>0, TakeSomeCounts
  <2>2. chl[p] = c
    BY <1>1, <2>1, Facts DEF PoolAt, Holds
  <2> QED
    BY <1>0, <2>1, <2>2, ChainFacts, Facts DEF PoolType
<1>3. /\ out' = [out EXCEPT ![p] = out[p] + n]
      /\ UNCHANGED <<next, chl, in, data>> /\ cur' = cur /\ op' = op
      /\ pc'[t] \in {"rehead1", "rel1", "unlock", "take"}
      /\ \/ rcvd' = [rcvd EXCEPT ![c] = [i \in 1 .. n |-> data[p][out[p] + i - 1]]]
         \/ op[t] = "pop2buf" /\ rcvd' = rcvd
  BY <1>0 DEF TakeSome, Delivered, TypeOK, CallType
<1>4. out'[p] = out[p] + n /\ \A b \in Blocks \ {p} : out'[b] = out[b]
  BY <1>0, <1>2, <1>3 DEF PoolType
<1>5. HeadOK(NULL)
  BY <1>1 DEF PoolAt, PoolOK, Victim
<1>6. Start(c) = p
  <2>1. ~ Moving(t)
    BY <1>1 DEF Moving, Clearing, ReleasingHead, HeadTakenAway
  <2>2. Start(c) \in Blocks \union {NULL} /\ IsFirst(Start(c), c)
    BY <1>0, <2>1, StartOf
  <2> QED
    BY <1>0, <1>2, <1>5, <2>2, FirstIs
<1>7. p = Start(c)'
  <2>1. Inside(t)' /\ arg'[t] = c
    BY <1>0, InsideStays
  <2>2. CASE pc'[t] \in {"rehead1", "rel1"}
    <3>1. ReleasingHead(t)'
      BY <1>1, <1>3, <2>2 DEF ReleasingHead
    <3> QED
      BY <1>0, <1>3, <2>1, <3>1, StartOfNext
  <2>3. CASE pc'[t] \in {"unlock", "take"}
    <3>1. ~ Moving(t)'
      BY <2>3 DEF Moving, Clearing, ReleasingHead, HeadTakenAway
    <3>2. Start(c)' \in Blocks \union {NULL} /\ IsFirst(Start(c), c)'
      BY <1>0, <2>1, <3>1, StartOfNext
    <3>3. IsFirst(Start(c)', c)
      BY <1>3, <3>2 DEF IsFirst
    <3> QED
      BY <1>0, <1>2, <1>5, <3>2, <3>3, FirstIs
  <2> QED
    BY <1>3, <2>2, <2>3
<1> PICK u, r : u = Unread(p) /\ r = ChainFrom(m)
  OBVIOUS
<1>8. /\ u \in Seq(AnyChars) /\ r \in Seq(AnyChars) /\ Len(u) = in[p] - out[p]
      /\ \A i \in 1 .. in[p] - out[p] : u[i] = data[p][out[p] + i - 1]
      /\ in[p] \in 0 .. BLK /\ out[p] \in 0 .. BLK /\ out[p] <= in[p]
  BY <1>0, <1>2, UnreadIs, Unfold, ChainFacts
<1>9. Holding(c) = u \o r
  <2>1. ChainFrom(p) = u \o r
    BY <1>0, <1>2, Unfold
  <2> QED
    BY <1>6, <2>1 DEF Holding
<1>10. Holding(c)' = Unread(p)' \o r
  <2>1. Used(p)' /\ next'[p] = m
    BY <1>2, <1>3 DEF Used
  <2>2. ChainFrom(p)' = Unread(p)' \o ChainFrom(m)'
    BY <1>0, <1>2, <2>1, UnfoldNext
  <2>3. ChainFrom(m)' = r
    <3>1. \A b \in Blocks \ {p} : Used(b) /\ Own(b) = c =>
             in'[b] = in[b] /\ out'[b] = out[b] /\ next'[b] = next[b] /\ data'[b] = data[b]
      BY <1>3, <1>4
    <3> QED
      BY <1>0, <1>2, <3>1, TailsSame
  <2> QED
    BY <1>7, <2>2, <2>3, HoldingNext
<1>11. Unread(p)' = SubSeq(u, n + 1, Len(u))
  <2>1. Unread(p)' = [i \in 1 .. in[p] - out[p] - n |-> data[p][out[p] + n + i - 1]]
    <3>1. in'[p] - out'[p] = in[p] - out[p] - n /\ out'[p] = out[p] + n /\ data' = data
      BY <1>2, <1>3, <1>4, <1>8
    <3> QED
      BY <3>1 DEF Unread
  <2>2. SubSeq(u, n + 1, Len(u)) = [i \in 1 .. in[p] - out[p] - n |-> u[n + i]]
    <3>1. SubSeq(u, n + 1, Len(u)) = [i \in 1 .. Len(u) - n |-> u[n + i]]
      BY <1>2, <1>8
    <3> QED
      BY <1>8, <3>1
  <2>3. ASSUME NEW i \in 1 .. in[p] - out[p] - n
        PROVE  data[p][out[p] + n + i - 1] = u[n + i]
    <3>1. n + i \in 1 .. in[p] - out[p] /\ out[p] + n + i - 1 = out[p] + (n + i) - 1
      BY <1>2, <1>8
    <3> QED
      BY <1>8, <3>1
  <2>4. [i \in 1 .. in[p] - out[p] - n |-> data[p][out[p] + n + i - 1]]
        = [i \in 1 .. in[p] - out[p] - n |-> u[n + i]]
    BY <2>3
  <2> QED
    BY <2>1, <2>2, <2>4
<1>12. [i \in 1 .. n |-> data[p][out[p] + i - 1]] = SubSeq(u, 1, n)
  <2>1. n \in Nat /\ n <= Len(u)
    BY <1>2, <1>8
  <2>2. SubSeq(u, 1, n) = [i \in 1 .. n |-> u[i]]
    BY <1>8, <2>1
  <2>3. \A i \in 1 .. n : u[i] = data[p][out[p] + i - 1]
    <3>1. \A i \in 1 .. n : i \in 1 .. in[p] - out[p]
      BY <1>2, <1>8
    <3> QED
      BY <1>8, <3>1
  <2> QED
    BY <2>2, <2>3
<1>13. n \in 1 .. Len(u)
  BY <1>2, <1>8
<1>14. /\ n \in 1 .. Len(u \o r)
       /\ SubSeq(u \o r, 1, n) = SubSeq(u, 1, n)
       /\ SubSeq(u \o r, n + 1, Len(u \o r)) = SubSeq(u, n + 1, Len(u)) \o r
  <2>1. u \in Seq(AnyChars) /\ r \in Seq(AnyChars)
    BY <1>8
  <2>2. CutsFirst(u, r, n)
    BY <1>13, <2>1, Prefix
  <2> QED
    BY <2>2 DEF CutsFirst
<1>15. op[t] = "pop2buf" => c \in LossyChannels
  BY <1>0, <1>1, ReaderIs DEF LossyChannels
<1>16. PrefixTaken(c, n)
  BY <1>3, <1>9, <1>10, <1>11, <1>12, <1>14, <1>15 DEF PrefixTaken
<1> QED
  BY <1>9, <1>14, <1>16 DEF ReadStep

(* What the chain holds stays if where it starts and its blocks stay.       *)
LEMMA HoldingStays ==
  ASSUME IInv, IInv', NEW c \in Channels, NEW p, p = Start(c), p = Start(c)',
         \A b \in Linked(c) : /\ in'[b] = in[b] /\ out'[b] = out[b] /\ next'[b] = next[b]
                              /\ data'[b] = data[b] /\ ~ IsFresh(b)'
  PROVE  Holding(c)' = Holding(c)
<1>1. p \in Linked(c) \union {NULL}
  BY LinkedIs
<1>2. Holding(c) = ChainFrom(p) /\ Holding(c)' = ChainFrom(p)'
  BY HoldingNext DEF Holding
<1>3. ChainFrom(p)' = ChainFrom(p)
  BY <1>1, LinkedKept, Unfold, UnfoldNext
<1> QED
  BY <1>2, <1>3

LEMMA HoldingNothing ==
  ASSUME IInv, IInv', NEW c \in Channels, NULL = Start(c), NULL = Start(c)'
  PROVE  Holding(c)' = Holding(c)
<1>1. Holding(c) = ChainFrom(NULL) /\ Holding(c)' = ChainFrom(NULL)'
  BY HoldingNext DEF Holding
<1> QED
  BY <1>1, Unfold, UnfoldNext

LEMMA RenameReads ==
  ASSUME CInv, CInv', NEW t \in Actors, Inside(t), RenameNext(t),
         NEW c \in Channels, c = arg[t]
  PROVE  Holding(c)' = Holding(c)
<1>0. IInv /\ IInv' /\ TypeOK /\ Inner(t)
  BY DEF CInv, IInv, Inner
<1>1. /\ pc[t] = "rehead1" /\ pc'[t] = "rel1" /\ op[t] = "popchar"
      /\ UNCHANGED <<next, in, out, data, cur>>
  BY <1>0 DEF RenameNext, Runs, TypeOK, CallType, IInv, CallInv
<1>2. Inside(t)' /\ arg'[t] = c /\ op'[t] = "popchar" /\ \A b \in Blocks : ~ IsFresh(b)'
  BY <1>0, <1>1, ReaderIs
<1>3. ReleasingHead(t) /\ ReleasingHead(t)'
  BY <1>1, <1>2 DEF ReleasingHead
<1> PICK p : p = cur[t]
  OBVIOUS
<1>4. p = Start(c) /\ p = Start(c)'
  BY <1>0, <1>1, <1>2, <1>3, StartOf, StartOfNext
<1> QED
  BY <1>0, <1>1, <1>2, <1>4, HoldingStays DEF Linked

LEMMA ReheadReads ==
  ASSUME CInv, CInv', NEW t \in Actors, Inside(t), Rehead(t),
         NEW c \in Channels, c = arg[t]
  PROVE  Holding(c)' = Holding(c)
<1>0. IInv /\ IInv' /\ TypeOK /\ PoolType /\ Inner(t)
  BY DEF CInv, IInv, TypeOK, Inner
<1> PICK n : n = aux[t]
  OBVIOUS
<1>1. /\ pc[t] = "rehead" /\ pc'[t] = "take" /\ op[t] \in {"pop", "pop2buf", "popchar"}
      /\ UNCHANGED <<next, in, out, data>> /\ n \in Blocks \union {NULL}
      /\ chl' = IF n # NULL THEN [chl EXCEPT ![n] = c] ELSE chl
  BY <1>0 DEF Rehead, Runs, TypeOK, CallType, IInv, CallInv
<1>2. Inside(t)' /\ arg'[t] = c /\ \A b \in Blocks : ~ IsFresh(b)'
  BY <1>0, <1>1, ReaderIs
<1>3. HeadTakenAway(t) /\ ~ Moving(t)'
  BY <1>1 DEF HeadTakenAway, Moving, Clearing, ReleasingHead
<1>4. n = Start(c)
  BY <1>0, <1>3, StartOf
<1>5. \A b \in Blocks : chl[b] # c
  BY <1>0, <1>1, Facts DEF IInv, PoolInv, PoolAt, Holds, NoOtherHead
<1>6. n = Start(c)'
  <2> PICK q : q = Start(c)'
    OBVIOUS
  <2>1. q \in Blocks \union {NULL} /\ IsFirst(q, c)'
    BY <1>0, <1>2, <1>3, StartOfNext DEF IsFirst
  <2>2. \A b \in Blocks : chl'[b] = c <=> b = n
    BY <1>0, <1>1, <1>5, Facts DEF PoolType
  <2>3. q # NULL => chl'[q] = c
    BY <2>1 DEF IsFirst
  <2>4. q = NULL => \A b \in Blocks : chl'[b] # c
    BY <2>1, Facts DEF IsFirst
  <2>5. q = n
    BY <1>1, <2>1, <2>2, <2>3, <2>4
  <2> QED
    BY <2>5
<1> QED
  BY <1>0, <1>1, <1>2, <1>4, <1>6, HoldingStays DEF Linked

LEMMA ReleaseInReads ==
  ASSUME CInv, CInv', NEW t \in Actors, Inside(t), ReleaseIn(t),
         NEW c \in Channels, c = arg[t]
  PROVE  Holding(c)' = Holding(c)
<1>0. IInv /\ IInv' /\ TypeOK /\ PoolType /\ Inner(t)
  BY DEF CInv, IInv, TypeOK, Inner
<1> PICK p, n : p = cur[t] /\ n = aux[t]
  OBVIOUS
<1>1. /\ pc[t] = "rel1" /\ pc'[t] = "rel2" /\ op[t] # "push" /\ PoolAt(t)
      /\ UNCHANGED <<next, out, data, cur, aux>> /\ in' = [in EXCEPT ![p] = 0]
  BY <1>0 DEF ReleaseIn, Runs, TypeOK, CallType, IInv, CallInv, PoolInv
<1>2. Inside(t)' /\ arg'[t] = c /\ op'[t] = op[t]
  BY <1>0, <1>1, ReaderIs
<1>3. CASE op[t] = "clear"
  <2>1. Clearing(t) /\ Clearing(t)'
    BY <1>1, <1>2, <1>3 DEF Clearing
  <2>2. NULL = Start(c) /\ NULL = Start(c)'
    BY <1>0, <1>2, <2>1, StartOf, StartOfNext
  <2> QED
    BY <1>0, <2>2, HoldingNothing
<1>4. CASE op[t] # "clear"
  <2>1. /\ p \in Blocks /\ n \in Blocks \union {NULL}
        /\ Used(p) /\ Own(p) = c /\ n = next[p] /\ out[p] = BLK
    BY <1>0, <1>1, <1>4 DEF PoolAt, Holds, TypeOK, CallType
  <2>2. ReleasingHead(t) /\ HeadTakenAway(t)'
    BY <1>1, <1>2, <1>4 DEF ReleasingHead, HeadTakenAway
  <2>3. p = Start(c) /\ n = Start(c)'
    BY <1>0, <1>1, <1>2, <2>2, StartOf, StartOfNext
  <2>4. Unread(p) = <<>>
    <3>1. out[p] >= in[p]
      BY <1>0, <2>1 DEF PoolType
    <3> QED
      BY <1>0, <2>1, <3>1, UnreadIs
  <2>5. ChainFrom(p) = ChainFrom(n)
    <3>1. ChainFrom(p) = Unread(p) \o ChainFrom(n) /\ ChainFrom(n) \in Seq(AnyChars)
      BY <1>0, <2>1, Unfold
    <3>2. \A s \in Seq(AnyChars) : <<>> \o s = s
      BY ConcatEmptySeq
    <3> QED
      BY <2>4, <3>1, <3>2
  <2>6. ChainFrom(n)' = ChainFrom(n)
    <3>1. \A b \in Blocks \ {p} : Used(b) /\ Own(b) = c =>
             in'[b] = in[b] /\ out'[b] = out[b] /\ next'[b] = next[b] /\ data'[b] = data[b]
      BY <1>0, <1>1 DEF PoolType
    <3> QED
      BY <1>0, <2>1, <3>1, TailsSame
  <2> QED
    BY <2>3, <2>5, <2>6, HoldingNext DEF Holding
<1> QED
  BY <1>3, <1>4

LEMMA ReleaseOutReads ==
  ASSUME CInv, CInv', NEW t \in Actors, Inside(t), ReleaseOut(t),
         NEW c \in Channels, c = arg[t]
  PROVE  Holding(c)' = Holding(c)
<1>0. IInv /\ IInv' /\ TypeOK /\ PoolType /\ Inner(t)
  BY DEF CInv, IInv, TypeOK, Inner
<1> PICK p, n : p = cur[t] /\ n = aux[t]
  OBVIOUS
<1>1. /\ pc[t] = "rel2" /\ op[t] # "push" /\ PoolAt(t) /\ UNCHANGED <<chl, in, data, aux>>
      /\ out' = [out EXCEPT ![p] = 0] /\ next' = [next EXCEPT ![p] = NULL]
      /\ pc'[t] = CASE op[t] = "clear"   -> "clr"
                    [] op[t] = "popchar" -> "unlock"
                    [] OTHER             -> "rehead"
  BY <1>0 DEF ReleaseOut, Runs, TypeOK, CallType, IInv, CallInv, PoolInv
<1>2. /\ Inside(t)' /\ arg'[t] = c /\ op'[t] = op[t] /\ \A b \in Blocks : ~ IsFresh(b)'
      /\ op[t] \in {"pop", "pop2buf", "popchar", "clear"}
  BY <1>0, <1>1, ReaderIs
<1>3. CASE op[t] = "clear"
  <2>1. Clearing(t) /\ Clearing(t)'
    BY <1>1, <1>2, <1>3 DEF Clearing
  <2>2. NULL = Start(c) /\ NULL = Start(c)'
    BY <1>0, <1>2, <2>1, StartOf, StartOfNext
  <2> QED
    BY <1>0, <2>2, HoldingNothing
<1>4. CASE op[t] # "clear"
  <2>1. n = Start(c)
    <3>1. HeadTakenAway(t)
      BY <1>1, <1>4 DEF HeadTakenAway
    <3> QED
      BY <1>0, <3>1, StartOf
  <2>2. n = Start(c)'
    <3>1. CASE op[t] # "popchar"
      <4>1. HeadTakenAway(t)'
        BY <1>1, <1>2, <1>4, <3>1 DEF HeadTakenAway
      <4> QED
        BY <1>0, <1>1, <1>2, <4>1, StartOfNext
    <3>2. CASE op[t] = "popchar"
      <4>1. ~ Moving(t)'
        BY <1>1, <3>2 DEF Moving, Clearing, ReleasingHead, HeadTakenAway
      <4> PICK q : q = Start(c)'
        OBVIOUS
      <4>2. q \in Blocks \union {NULL} /\ IsFirst(q, c)
        BY <1>0, <1>1, <1>2, <4>1, StartOfNext DEF IsFirst
      <4>3. HeadOK(NULL) /\ n \in Blocks \union {NULL} /\ IsLeast(n, c)
            /\ (n # NULL => chl[n] = c)
        BY <1>0, <1>1, <3>2 DEF PoolAt, PoolOK, Victim, Holds, TypeOK, CallType
      <4>4. CASE n # NULL
        <5>1. q = n
          BY <1>0, <4>2, <4>3, <4>4, FirstIs
        <5> QED
          BY <5>1
      <4>5. CASE n = NULL
        <5>1. \A b \in Blocks : chl[b] # c
          BY <1>0, <4>3, <4>5, ChainFacts, Facts DEF IsLeast
        <5>2. q = NULL
          BY <4>2, <5>1 DEF IsFirst
        <5> QED
          BY <4>5, <5>2
      <4> QED
        BY <4>4, <4>5
    <3> QED
      BY <3>1, <3>2
  <2>3. \A b \in Linked(c) : b # p
    BY <1>1 DEF PoolAt, Holds, Linked
  <2>4. \A b \in Linked(c) : /\ in'[b] = in[b] /\ out'[b] = out[b] /\ next'[b] = next[b]
                             /\ data'[b] = data[b] /\ ~ IsFresh(b)'
    BY <1>0, <1>1, <1>2, <2>3 DEF PoolType, Linked
  <2> QED
    BY <1>0, <2>1, <2>2, <2>4, HoldingStays
<1> QED
  BY <1>3, <1>4

LEMMA ClearReads ==
  ASSUME CInv, CInv', NEW t \in Actors, Inside(t), Clear(t),
         NEW c \in Channels, c = arg[t]
  PROVE  Holding(c)' = Holding(c)
<1>0. IInv /\ IInv' /\ TypeOK /\ Inner(t)
  BY DEF CInv, IInv, Inner
<1> PICK p : p = cur[t]
  OBVIOUS
<1>1. /\ pc[t] = "clr" /\ op[t] = "clear" /\ PoolAt(t) /\ chl' = chl
      /\ pc'[t] = IF p = NULL THEN "unlock" ELSE "rel1"
  BY <1>0 DEF Clear, Runs, TypeOK, CallType, IInv, CallInv, PoolInv, pool
<1>2. Inside(t)' /\ arg'[t] = c /\ op'[t] = op[t]
  BY <1>0, <1>1, ReaderIs
<1>3. NULL = Start(c)
  <2>1. Clearing(t)
    BY <1>1 DEF Clearing
  <2> QED
    BY <1>0, <2>1, StartOf
<1>4. NULL = Start(c)'
  <2>1. CASE p # NULL
    <3>1. Clearing(t)'
      BY <1>1, <1>2, <2>1 DEF Clearing
    <3> QED
      BY <1>0, <1>2, <3>1, StartOfNext
  <2>2. CASE p = NULL
    <3>1. ~ Moving(t)'
      BY <1>1, <2>2 DEF Moving, Clearing, ReleasingHead, HeadTakenAway
    <3> PICK q : q = Start(c)'
      OBVIOUS
    <3>2. q \in Blocks \union {NULL} /\ IsFirst(q, c)
      BY <1>0, <1>1, <1>2, <3>1, StartOfNext DEF IsFirst
    <3>3. \A b \in Blocks : chl[b] # c
      BY <1>1, <2>2, Facts DEF PoolAt, Holds, NoOtherHead
    <3>4. q = NULL
      BY <3>2, <3>3 DEF IsFirst
    <3> QED
      BY <3>4
  <2> QED
    BY <2>1, <2>2
<1> QED
  BY <1>0, <1>3, <1>4, HoldingNothing

(* What a reader does to its channel in one step.                           *)
LEMMA ReadsOwn ==
  ASSUME CInv, CInv', NEW t \in Actors, Inside(t), Inner(t), op[t] # "push",
         NEW c \in Channels, c = arg[t]
  PROVE  ReadStep(c)
<1>0. IInv /\ IInv' /\ TypeOK
  BY DEF CInv, IInv
<1>1. CASE First(t)
  BY <1>1, FirstReads
<1>2. CASE TakeSome(t)
  BY <1>2, TakeReads
<1>3. CASE TakeNone(t)
  <2>1. /\ UNCHANGED <<next, chl, in, out, data, rcvd>>
        /\ pc[t] = "take" /\ pc'[t] = "unlock" /\ op[t] # "clear"
    BY <1>0, <1>3 DEF TakeNone, pool, Runs, TypeOK, CallType, CInv, IInv, CallInv
  <2>2. ~ Moving(t) /\ ~ Moving(t)'
    BY <2>1 DEF Moving, Clearing, ReleasingHead, HeadTakenAway
  <2>3. Kept(c)
    BY <1>0, <2>1, <2>2, QuietKeeps
  <2> QED
    BY <1>0, <2>1, <2>3, KeptIsGrown DEF ReadStep
<1>4. CASE RenameNext(t)
  BY <1>4, RenameReads DEF ReadStep, RenameNext
<1>5. CASE Rehead(t)
  BY <1>5, ReheadReads DEF ReadStep, Rehead
<1>6. CASE ReleaseIn(t)
  BY <1>6, ReleaseInReads DEF ReadStep, ReleaseIn
<1>7. CASE ReleaseOut(t)
  BY <1>7, ReleaseOutReads DEF ReadStep, ReleaseOut
<1>8. CASE Clear(t)
  BY <1>8, ClearReads DEF ReadStep, Clear
<1>9. pc[t] \notin {"tail", "alloc", "link"}
  BY DEF CInv, IInv, CallInv
<1> QED
  BY <1>1, <1>2, <1>3, <1>4, <1>5, <1>6, <1>7, <1>8, <1>9
  DEF Inner, PushWalk, PushAppend, PushFull, PushAlloc, PushLink, Runs

-----------------------------------------------------------------------------
(* The steps outside the locked operations: those of interrupts and of      *)
(* callers on their way in and out, and the measuring of a length.          *)
Busy == {"rehead1", "rel1", "rel2", "rehead", "clr", "link"}

SameCall(s) == /\ pc'[s] = pc[s] /\ op'[s] = op[s] /\ arg'[s] = arg[s]
               /\ cur'[s] = cur[s] /\ aux'[s] = aux[s]

Outside == /\ UNCHANGED <<next, chl, in, out, data, rcvd>>
           /\ \A s \in Actors : SameCall(s) \/ (pc[s] \notin Busy /\ pc'[s] \notin Busy)

LEMMA BusyInside == IInv => \A s \in Actors : pc[s] \in Busy => Inside(s)
  BY DEF IInv, LockInv, Inside, InCS, Suspended, Busy

LEMMA BusyInsideNext == IInv' => \A s \in Actors : pc'[s] \in Busy => Inside(s)'
<1>1. (IInv => \A s \in Actors : pc[s] \in Busy => Inside(s))'
  BY BusyInside, PTL
<1> QED
  BY <1>1

LEMMA NextCases ==
  ASSUME CInv, [Next]_vars, IsrChannels = {}
  PROVE  Outside \/ (\E t \in Actors : Inside(t) /\ Inner(t))
<1> USE DEF pool, locks, posts, local
<1>0. IInv /\ TypeOK /\ CallType /\ txie = {}
  BY DEF CInv, IInv, TypeOK, QueueType
<1>1. ASSUME UNCHANGED <<next, chl, in, out, data, rcvd>>,
             NEW t \in Actors, pc[t] \notin Busy, pc'[t] \notin Busy,
             \A s \in Actors \ {t} : SameCall(s)
      PROVE  Outside
  BY <1>1 DEF Outside
<1>2. CASE UNCHANGED vars
  BY <1>2 DEF vars, Outside, SameCall
<1>3. ASSUME NEW c \in Channels, Post(c) PROVE Outside
  BY <1>3 DEF Post, Outside, SameCall
<1>4. CASE IoRecv
  BY <1>0, <1>1, <1>4, Facts DEF IoRecv, Runs, Busy, CallType, SameCall
<1>5. ASSUME NEW t \in Threads, NEW o \in Ops, NEW c \in Channels, NEW n \in 0 .. MaxLen,
             Call(t, o, c, n)
      PROVE  Outside
  <2>1. t \in Actors
    BY DEF Actors
  <2> QED
    BY <1>0, <1>1, <1>5, <2>1 DEF Call, Runs, Busy, CallType, SameCall
<1>6. ASSUME NEW t \in Actors, Measure(t) PROVE Outside
  <2>1. pc[t] \notin Busy /\ pc'[t] \notin Busy
    BY <1>0, <1>6 DEF Measure, LenFirst, LenIn, LenOut, LenNext, LenReturn, Return, Runs, Busy,
       CallType
  <2>2. \A s \in Actors \ {t} : SameCall(s)
    BY <1>0, <1>6 DEF Measure, LenFirst, LenIn, LenOut, LenNext, LenReturn, Return, CallType,
       SameCall
  <2>3. UNCHANGED <<next, chl, in, out, data, rcvd>>
    BY <1>6 DEF Measure, LenFirst, LenIn, LenOut, LenNext, LenReturn
  <2> QED
    BY <1>1, <2>1, <2>2, <2>3
<1>7. ASSUME NEW t \in Actors, Lock(t) PROVE Outside
  BY <1>0, <1>1, <1>7 DEF Lock, Runs, Busy, CallType, SameCall
<1>8. ASSUME NEW t \in Actors, Unlock(t) PROVE Outside
  BY <1>0, <1>1, <1>8 DEF Unlock, Return, Runs, Busy, CallType, SameCall
<1>9. ASSUME NEW t \in Actors, Inner(t) PROVE Inside(t)
  BY <1>9, InnerStays DEF Inside, CInv, IInv
<1> QED
  BY <1>0, <1>2, <1>3, <1>4, <1>5, <1>6, <1>7, <1>8, <1>9 DEF Next, Step, IsrPopChar, TxEnable

LEMMA OutsideKept ==
  ASSUME CInv, CInv', Outside
  PROVE  \A c \in Channels : Kept(c)
<1>0. IInv /\ IInv' /\ UNCHANGED <<next, chl, in, out, data>>
  BY DEF CInv, Outside
<1>1. \A s \in Actors : Moving(s) => pc[s] \in Busy
  BY DEF Moving, Clearing, ReleasingHead, HeadTakenAway, Busy
<1>2. \A s \in Actors : Moving(s)' => pc'[s] \in Busy
  BY DEF Moving, Clearing, ReleasingHead, HeadTakenAway, Busy
<1>3. \A s \in Actors : SameCall(s) => (Moving(s)' <=> Moving(s))
  BY DEF Moving, Clearing, ReleasingHead, HeadTakenAway, SameCall
<1>4. \A s \in Actors : Inside(s) /\ Moving(s) =>
            /\ Inside(s)' /\ Moving(s)' /\ op'[s] = op[s] /\ pc'[s] = pc[s]
            /\ arg'[s] = arg[s] /\ cur'[s] = cur[s] /\ aux'[s] = aux[s]
  BY <1>0, <1>1, <1>3, BusyInsideNext DEF Outside, SameCall
<1>5. \A s \in Actors : Inside(s)' /\ Moving(s)' => Inside(s) /\ Moving(s)
  BY <1>0, <1>2, <1>3, BusyInside DEF Outside, SameCall
<1>6. \A b \in Blocks : IsFresh(b)' <=> IsFresh(b)
  BY Facts DEF Outside, SameCall, IsFresh, Busy
<1> QED
  BY <1>0, <1>4, <1>5, <1>6, OutsideKeeps

-----------------------------------------------------------------------------
(* The queue of every channel, and what one step does to all of them.       *)
LEMMA StepOfQueues ==
  ASSUME CInv, CInv', [Next]_vars, IsrChannels = {}
  PROVE  \/ rcvd' = rcvd /\ \A d \in Channels : Holding(d)' = Holding(d)
         \/ \E c \in Channels :
               /\ \A d \in Channels \ {c} : Holding(d)' = Holding(d)
               /\ \/ ReadStep(c)
                  \/ /\ rcvd' = rcvd
                     /\ \E v \in {c} \X (1 .. Quota[c]) : Holding(c)' = Append(Holding(c), v)
<1>0. IInv /\ IInv'
  BY DEF CInv
<1>1. CASE Outside
  <2>1. \A d \in Channels : Holding(d)' = Holding(d)
    BY <1>0, <1>1, OutsideKept, KeptIsGrown
  <2> QED
    BY <1>1, <2>1 DEF Outside
<1>2. ASSUME NEW t \in Actors, Inside(t), Inner(t)
      PROVE  \E c \in Channels :
               /\ \A d \in Channels \ {c} : Holding(d)' = Holding(d)
               /\ \/ ReadStep(c)
                  \/ /\ rcvd' = rcvd
                     /\ \E v \in {c} \X (1 .. Quota[c]) : Holding(c)' = Append(Holding(c), v)
  <2> PICK c \in Channels : c = arg[t]
    BY <1>0, <1>2, InnerTouches
  <2>1. \A d \in Channels \ {c} : Holding(d)' = Holding(d)
    BY <1>0, <1>2, OthersKept, KeptIsGrown
  <2>2. CASE op[t] # "push"
    <3>1. ReadStep(c)
      BY <1>2, <2>2, ReadsOwn
    <3> QED
      BY <2>1, <3>1
  <2>3. CASE op[t] = "push"
    <3>1. rcvd' = rcvd
      <4>1. pc[t] \notin {"take"}
        BY <1>0, <2>3 DEF IInv, CallInv
      <4> QED
        BY <1>2, <4>1 DEF Inner, First, TakeSome, TakeNone, RenameNext, Rehead, ReleaseIn,
           ReleaseOut, Clear, PushWalk, PushAppend, PushFull, PushAlloc, FillBlock, PushLink, Runs
    <3> PICK x : x = Holding(c)
      OBVIOUS
    <3>2. x \in Seq(AnyChars)
      BY <1>0, HoldingIs
    <3>3. CASE Grown(c, <<>>)
      <4>1. Holding(c)' = x
        BY <3>2, <3>3, ConcatEmptySeq DEF Grown
      <4> QED
        BY <2>1, <3>1, <4>1 DEF ReadStep
    <3>4. CASE Grown(c, <<ch>>)
      <4>1. t = Io
        BY <1>0, <2>3 DEF IInv, CallInv
      <4>2. ch \in AnyChars /\ ch \in {c} \X (1 .. Quota[c])
        BY <2>3, <4>1, StoredIs
      <4>3. x \o <<ch>> = Append(x, ch)
        BY <3>2, <4>2, AppendIsConcat
      <4> QED
        BY <2>1, <3>1, <3>4, <4>2, <4>3 DEF Grown
    <3> QED
      BY <1>2, <2>3, <3>3, <3>4, PushGrows
  <2> QED
    BY <2>2, <2>3
<1> QED
  BY <1>1, <1>2, NextCases

-----------------------------------------------------------------------------
(* The pool implements ChannelFifo.                                         *)
Queues == [c \in Channels |-> Holding(c)]

LEMMA QueuesAre == Queues = [c \in Channels |-> ChainFrom(Start(c))]
  BY DEF Queues, Holding

LEMMA QueuesNext == Queues' = [c \in Channels |-> Holding(c)']
  BY DEF Queues

LEMMA FifoInit == Init => Fifo!Init
<1> SUFFICES ASSUME Init PROVE Fifo!Init
  OBVIOUS
<1>1. IInv /\ \A b \in Blocks : chl[b] = NoChl
  BY IInvInit DEF Init
<1>2. \A t \in Actors : ~ Moving(t)
  BY DEF Init, Moving, Clearing, ReleasingHead, HeadTakenAway
<1>3. ASSUME NEW c \in Channels PROVE Holding(c) = <<>>
  <2>1. IsFirst(Start(c), c)
    BY <1>1, <1>2, StartIs
  <2>2. Start(c) = NULL
    BY <1>1, <2>1, Facts DEF IsFirst
  <2> QED
    BY <1>1, <2>2, Unfold DEF Holding
<1>4. Queues = [c \in Channels |-> <<>>]
  BY <1>3 DEF Queues
<1> QED
  BY <1>4, QueuesAre DEF Init, Fifo!Init

LEMMA FifoStep ==
  ASSUME CInv, CInv', [Next]_vars, IsrChannels = {}
  PROVE  [Fifo!Next]_<<[c \in Channels |-> ChainFrom(Start(c))], rcvd>>
<1> PICK f, g : f = Queues /\ g = Queues'
  OBVIOUS
<1>1. /\ f = [c \in Channels |-> ChainFrom(Start(c))]
      /\ g = [c \in Channels |-> ChainFrom(Start(c))]'
  <2>1. (Queues = [c \in Channels |-> ChainFrom(Start(c))])'
    BY QueuesAre, PTL
  <2> QED
    BY <2>1, QueuesAre
<1>2. /\ f = [c \in Channels |-> Holding(c)]
      /\ g = [c \in Channels |-> Holding(c)']
  BY QueuesNext DEF Queues
<1>3. CASE rcvd' = rcvd /\ \A d \in Channels : Holding(d)' = Holding(d)
  <2>1. g = f
    BY <1>2, <1>3
  <2> QED
    BY <1>1, <1>3, <2>1
<1>4. ASSUME NEW c \in Channels, \A d \in Channels \ {c} : Holding(d)' = Holding(d),
             ReadStep(c)
      PROVE  [Fifo!Next]_<<[d \in Channels |-> ChainFrom(Start(d))], rcvd>>
  <2>1. CASE Holding(c)' = Holding(c) /\ rcvd' = rcvd
    BY <1>3, <1>4, <2>1
  <2>2. ASSUME NEW n \in 1 .. Len(Holding(c)), PrefixTaken(c, n)
        PROVE  Fifo!Next
    <3>1. f[c] = Holding(c) /\ n \in 1 .. Len(f[c])
      BY <1>2, <2>2
    <3>2. g = [f EXCEPT ![c] = SubSeq(f[c], n + 1, Len(f[c]))]
      <4>1. Holding(c)' = SubSeq(f[c], n + 1, Len(f[c]))
        BY <2>2, <3>1 DEF PrefixTaken
      <4> QED
        BY <1>2, <1>4, <4>1
    <3>3. \/ rcvd' = [rcvd EXCEPT ![c] = SubSeq(f[c], 1, n)]
          \/ rcvd' = rcvd /\ c \in LossyChannels
      BY <2>2, <3>1 DEF PrefixTaken
    <3>4. Fifo!Take(c, n) \/ Fifo!Drop(c, n)
      BY <1>1, <3>1, <3>2, <3>3 DEF Fifo!Take, Fifo!Drop, LossyChannels
    <3> QED
      BY <1>1, <3>1, <3>4 DEF Fifo!Next
  <2> QED
    BY <1>4, <2>1, <2>2 DEF ReadStep
<1>5. ASSUME NEW c \in Channels, \A d \in Channels \ {c} : Holding(d)' = Holding(d),
             rcvd' = rcvd, NEW v \in {c} \X (1 .. Quota[c]),
             Holding(c)' = Append(Holding(c), v)
      PROVE  Fifo!Next
  <2>1. f[c] = Holding(c)
    BY <1>2
  <2>2. g = [f EXCEPT ![c] = Append(f[c], v)]
    BY <1>2, <1>5, <2>1
  <2>3. Fifo!Put(c, v)
    BY <1>1, <1>5, <2>2 DEF Fifo!Put
  <2> QED
    BY <2>3 DEF Fifo!Next
<1> QED
  BY <1>3, <1>4, <1>5, StepOfQueues

(* Every channel is a queue of its own, however its blocks are shared:      *)
(* DqueIo adds one character at the end or none, a reader takes a prefix,   *)
(* and no operation on one channel shows in another.  For a pool and blocks *)
(* of any size, any number of threads, and any calls they make.             *)
THEOREM PoolIsFifo ==
  ASSUME IsrChannels = {}
  PROVE  Spec => ImplementsFifo
<1>1. CInv /\ [Next]_vars => CInv'
  BY CInvStep
<1>2. CInv /\ CInv' /\ [Next]_vars =>
         [Fifo!Next]_<<[c \in Channels |-> ChainFrom(Start(c))], rcvd>>
  BY FifoStep
<1> QED
  BY CInvInit, FifoInit, <1>1, <1>2, PTL DEF Spec, ImplementsFifo, Fifo!Spec

-----------------------------------------------------------------------------
(* What dque_GetLen has added up, at each of its reads: it has not passed   *)
(* what there is before the block it looks at, for while it measures only   *)
(* DqueIo works on the channel, and that only adds.                         *)
Measuring == {"lin", "lout", "lnext", "lret"}

Measured(t, c, p) ==
    LET x == Len(Holding(c))
        s == Len(ChainFrom(p)) IN
    /\ pc[t] \in {"lin", "lout", "lnext"} => p \in Linked(c)
    /\ pc[t] = "lin"   => 0 <= len[t] /\ len[t] <= x - s
    /\ pc[t] = "lout"  => out[p] <= len[t] /\ len[t] <= x - s + in[p]
    /\ pc[t] = "lnext" => 0 <= len[t] /\ len[t] <= x - s + in[p] - out[p]
    /\ pc[t] = "lret"  => 0 <= len[t] /\ len[t] <= x

LenInv ==
    \A t \in Threads, c \in Channels, p \in Blocks \union {NULL} :
        arg[t] = c /\ cur[t] = p /\ SoleReader(t, c) => Measured(t, c, p)

SameMeasure(t) == /\ pc'[t] = pc[t] /\ arg'[t] = arg[t] /\ cur'[t] = cur[t]
                  /\ len'[t] = len[t]

LEMMA LenInvInit == Init => LenInv
  BY DEF Init, LenInv, Measured, Actors

LEMMA Later ==
  \A d, l, i, j, k \in Int :
     i <= j => /\ l <= d + i     => l <= d + j
               /\ l <= d + i - k => l <= d + j - k
  OBVIOUS

LEMMA GrownKeepsMeasured ==
  ASSUME CInv, CInv', NEW t \in Threads, NEW c \in Channels, NEW p \in Blocks \union {NULL},
         Measured(t, c, p), SameMeasure(t), NEW w \in Seq(AnyChars), Grown(c, w)
  PROVE  Measured(t, c, p)'
<1>0. IInv /\ IInv' /\ TypeOK /\ t \in Actors
  BY DEF CInv, IInv, Actors
<1> PICK x, y : x = Len(Holding(c)) /\ y = Len(Holding(c))'
  OBVIOUS
<1> PICK r, s : r = Len(ChainFrom(p)) /\ s = Len(ChainFrom(p))'
  OBVIOUS
<1>1. x \in Nat /\ Len(w) \in Nat /\ y = x + Len(w) /\ len[t] \in Int
  <2>1. Holding(c) \in Seq(AnyChars) /\ Holding(c)' = Holding(c) \o w
    BY <1>0, HoldingIs DEF Grown
  <2> PICK h : h = Holding(c)
    OBVIOUS
  <2>2. h \in Seq(AnyChars) /\ y = Len(h \o w)
    BY <2>1
  <2>3. Len(h \o w) = Len(h) + Len(w) /\ Len(h) \in Nat /\ Len(w) \in Nat
    BY <2>2
  <2> QED
    BY <1>0, <2>2, <2>3 DEF TypeOK, CallType
<1>2. CASE p \in Linked(c)
  <2>1. /\ p \in Linked(c)' /\ in'[p] >= in[p] /\ out'[p] = out[p]
        /\ in[p] \in Nat /\ in'[p] \in Nat /\ out[p] \in Nat
    <3>1. in[p] \in Nat /\ in'[p] \in Nat /\ out[p] \in Nat
      BY <1>0, <1>2, DQueueAssumption DEF Linked, IInv, TypeOK, PoolType
    <3> QED
      BY <1>2, <3>1 DEF Grown
  <2>2. r \in Nat /\ s = r + Len(w)
    <3> PICK u : u = ChainFrom(p)
      OBVIOUS
    <3>1. u \in Seq(AnyChars) /\ ChainFrom(p)' = u \o w
      BY <1>0, <1>2, Unfold DEF Grown
    <3>2. Len(u \o w) = Len(u) + Len(w) /\ Len(u) \in Nat
      BY <3>1
    <3> QED
      BY <3>1, <3>2
  <2>3. y - s = x - r
    BY <1>1, <2>2
  <2>4. /\ pc[t] = "lin"   => 0 <= len[t] /\ len[t] <= x - r
        /\ pc[t] = "lout"  => out[p] <= len[t] /\ len[t] <= x - r + in[p]
        /\ pc[t] = "lnext" => 0 <= len[t] /\ len[t] <= x - r + in[p] - out[p]
        /\ pc[t] = "lret"  => 0 <= len[t] /\ len[t] <= x
    BY DEF Measured
  <2>5. /\ pc[t] = "lin"   => 0 <= len[t] /\ len[t] <= y - s
        /\ pc[t] = "lout"  => out'[p] <= len[t] /\ len[t] <= y - s + in'[p]
        /\ pc[t] = "lnext" => 0 <= len[t] /\ len[t] <= y - s + in'[p] - out'[p]
        /\ pc[t] = "lret"  => 0 <= len[t] /\ len[t] <= y
    <3> PICK i, j, k : i = in[p] /\ j = in'[p] /\ k = out[p]
      OBVIOUS
    <3> PICK l : l = len[t]
      OBVIOUS
    <3> PICK d : d = x - r
      OBVIOUS
    <3>0. /\ d \in Int /\ l \in Int /\ i \in Int /\ j \in Int /\ k \in Int
          /\ i <= j
      BY <1>1, <2>1, <2>2
    <3>1. l <= d + i => l <= d + j
      BY <3>0, Later
    <3>2. l <= d + i - k => l <= d + j - k
      BY <3>0, Later
    <3>3. l <= x => l <= y
      BY <1>1
    <3> QED
      BY <2>1, <2>3, <2>4, <3>1, <3>2, <3>3
  <2> QED
    BY <2>1, <2>5 DEF Measured, SameMeasure
<1>3. CASE p \notin Linked(c)
  <2>1. pc[t] \notin {"lin", "lout", "lnext"} /\ (pc[t] = "lret" => 0 <= len[t] /\ len[t] <= x)
    BY <1>3 DEF Measured
  <2>2. pc[t] = "lret" => 0 <= len[t] /\ len[t] <= y
    BY <1>1, <2>1
  <2> QED
    BY <2>1, <2>2 DEF Measured, SameMeasure
<1> QED
  BY <1>2, <1>3

(* The four reads of dque_GetLen, each at one block.                        *)
LEMMA MeasureKeepsMeasured ==
  ASSUME CInv, CInv', LenInv, IsrChannels = {}, NEW t \in Threads, Measure(t), Outside,
         NEW c \in Channels, NEW q \in Blocks \union {NULL},
         arg'[t] = c, cur'[t] = q, SoleReader(t, c)
  PROVE  Measured(t, c, q)'
<1>0. /\ IInv /\ IInv' /\ TypeOK /\ CallType /\ t \in Actors /\ len[t] \in Int
      /\ cur[t] \in Blocks \union {NULL} /\ UNCHANGED <<next, chl, in, out, data>>
  BY DEF CInv, IInv, TypeOK, CallType, Actors, Outside
<1>1. CASE LenReturn(t)
  BY <1>0, <1>1 DEF LenReturn, Return, CallType, Measured
<1> SUFFICES ASSUME LenFirst(t) \/ LenIn(t) \/ LenOut(t) \/ LenNext(t)
             PROVE  Measured(t, c, q)'
  BY <1>1 DEF Measure
<1>2. arg[t] = c /\ Runs(t, pc[t])
  BY DEF LenFirst, LenIn, LenOut, LenNext, local, Runs
<1>3. /\ Holding(c) \in Seq(AnyChars) /\ Holding(c)' = Holding(c)
      /\ \A b \in Linked(c) \union {NULL} : /\ ChainFrom(b)' = ChainFrom(b)
                                            /\ ChainFrom(b) \in Seq(AnyChars)
      /\ \A b \in Linked(c) : b \in Linked(c)' /\ b \in Blocks
  <2>1. Kept(c)
    BY OutsideKept
  <2> QED
    BY <1>0, <2>1, KeptIsGrown, HoldingIs, Unfold, UnfoldNext DEF Kept, Linked
<1> PICK x : x = Len(Holding(c))
  OBVIOUS
<1>4. x = Len(Holding(c))' /\ x \in Nat
  BY <1>3
<1> PICK p : p = cur[t]
  OBVIOUS
<1>5. Measured(t, c, p)
  BY <1>0, <1>2 DEF LenInv
<1>6. CASE LenFirst(t)
  <2>1. /\ IsFirst(q, c) /\ len'[t] = 0
        /\ pc'[t] = IF q = NULL THEN "lret" ELSE "lin"
    BY <1>0, <1>2, <1>6 DEF LenFirst, CallType
  <2>2. q = Start(c)
    <3>1. ASSUME NEW s \in Actors, Inside(s), arg[s] = c PROVE ~ Moving(s)
      <4>1. op[s] = "push"
        <5> SUFFICES ASSUME op[s] # "push" PROVE FALSE
          OBVIOUS
        <5>1. s \in Threads /\ <<op[s], c>> \in Uses[s] /\ op[s] \in Ops \ {"len"}
          BY <3>1, Facts DEF CInv, IInv, CallInv, UsesInv, Inside, InCS, Actors, Entry, Ops
        <5>2. s # t
          BY <1>6, <3>1 DEF LenFirst, Runs, Inside, InCS
        <5> QED
          BY <5>1, <5>2 DEF SoleReader
      <4> QED
        BY <3>1, <4>1 DEF CInv, IInv, CallInv, Moving, Clearing, ReleasingHead, HeadTakenAway
    <3>2. Start(c) \in Blocks \union {NULL} /\ IsFirst(Start(c), c)
      BY <1>0, <3>1, StartIs
    <3> QED
      BY <2>1, <3>2, FirstUnique
  <2>3. q \in Linked(c) \union {NULL} /\ Len(ChainFrom(q)) = x
    BY <1>0, <2>2, LinkedIs DEF Holding
  <2>4. Len(ChainFrom(q))' = x /\ x - x = 0
    BY <1>3, <1>4, <2>3
  <2>5. pc'[t] = "lin" => q \in Linked(c)'
    BY <1>3, <2>1, <2>3
  <2> QED
    BY <1>4, <2>1, <2>4, <2>5 DEF Measured
<1> SUFFICES ASSUME LenIn(t) \/ LenOut(t) \/ LenNext(t)
             PROVE  Measured(t, c, q)'
  BY <1>6
<1>7. p \in Linked(c) /\ p \in Blocks /\ Used(p) /\ Own(p) = c
  BY <1>5 DEF LenIn, LenOut, LenNext, Runs, Measured, Linked
<1>8. /\ in[p] \in Nat /\ out[p] \in Nat /\ out[p] <= in[p]
      /\ next[p] \in Linked(c) \union {NULL}
  <2>1. in[p] \in Nat /\ out[p] \in Nat
    BY <1>0, <1>7, DQueueAssumption DEF TypeOK, PoolType, DQueueAssumption
  <2> QED
    BY <1>0, <1>7, <2>1, ChainFacts, LinkedIs
<1> PICK s : s = Len(ChainFrom(p))
  OBVIOUS
<1>9. s \in Nat /\ s = Len(ChainFrom(p))'
  BY <1>3, <1>7
<1>10. CASE LenIn(t)
  <2>1. /\ pc[t] = "lin" /\ pc'[t] = "lout" /\ len'[t] = len[t] + in[p] /\ q = p
    BY <1>0, <1>10 DEF LenIn, Runs, CallType
  <2>2. 0 <= len[t] /\ len[t] <= x - s
    BY <1>5, <2>1 DEF Measured
  <2>3. out[p] <= len'[t] /\ len'[t] <= x - s + in[p]
    BY <1>0, <1>4, <1>8, <1>9, <2>1, <2>2
  <2> QED
    BY <1>0, <1>3, <1>4, <1>7, <1>9, <2>1, <2>3 DEF Measured
<1>11. CASE LenOut(t)
  <2>1. /\ pc[t] = "lout" /\ pc'[t] = "lnext" /\ len'[t] = len[t] - out[p] /\ q = p
    BY <1>0, <1>11 DEF LenOut, Runs, CallType
  <2>2. out[p] <= len[t] /\ len[t] <= x - s + in[p]
    BY <1>5, <2>1 DEF Measured
  <2>3. 0 <= len'[t] /\ len'[t] <= x - s + in[p] - out[p]
    BY <1>0, <1>4, <1>8, <1>9, <2>1, <2>2
  <2> QED
    BY <1>0, <1>3, <1>4, <1>7, <1>9, <2>1, <2>3 DEF Measured
<1>12. CASE LenNext(t)
  <2>1. /\ pc[t] = "lnext" /\ q = next[p] /\ len'[t] = len[t]
        /\ pc'[t] = IF q = NULL THEN "lret" ELSE "lin"
    BY <1>0, <1>12 DEF LenNext, Runs, CallType
  <2>2. 0 <= len[t] /\ len[t] <= x - s + in[p] - out[p]
    BY <1>5, <2>1 DEF Measured
  <2> PICK r : r = Len(ChainFrom(q))
    OBVIOUS
  <2>3. s = in[p] - out[p] + r /\ r \in Nat /\ (q = NULL => r = 0)
    <3> PICK u, v : u = Unread(p) /\ v = ChainFrom(q)
      OBVIOUS
    <3>1. ChainFrom(p) = u \o v
      BY <1>0, <1>7, <2>1, Unfold
    <3>2. u \in Seq(AnyChars) /\ Len(u) = in[p] - out[p]
      BY <1>0, <1>7, <1>8, UnreadIs DEF TypeOK
    <3>3. v \in Seq(AnyChars) /\ (q = NULL => v = <<>>)
      BY <1>0, Unfold
    <3>4. Len(u \o v) = Len(u) + Len(v) /\ Len(v) \in Nat
      BY <3>2, <3>3
    <3> QED
      BY <3>1, <3>2, <3>3, <3>4
  <2>4. len[t] <= x - r /\ (q = NULL => len[t] <= x)
    BY <1>0, <1>4, <1>8, <2>2, <2>3
  <2>5. r = Len(ChainFrom(q))' /\ (q # NULL => q \in Linked(c)')
    BY <1>3, <1>8, <2>1
  <2> QED
    BY <1>4, <2>1, <2>2, <2>4, <2>5 DEF Measured
<1> QED
  BY <1>10, <1>11, <1>12

LEMMA LenInvStep ==
  ASSUME CInv, CInv', LenInv, [Next]_vars, IsrChannels = {}
  PROVE  LenInv'
<1> SUFFICES ASSUME NEW t \in Threads, NEW c \in Channels, NEW p \in Blocks \union {NULL},
                    arg'[t] = c, cur'[t] = p, SoleReader(t, c)
             PROVE  Measured(t, c, p)'
  BY DEF LenInv, SoleReader
<1> USE DEF pool, locks, posts, local
<1>0. IInv /\ IInv' /\ TypeOK /\ CallType /\ t \in Actors /\ <<>> \in Seq(AnyChars)
  BY EmptySeq DEF CInv, IInv, TypeOK, Actors
<1>1. CASE pc'[t] \notin Measuring
  BY <1>1 DEF Measured, Measuring
<1> SUFFICES ASSUME pc'[t] \in Measuring
             PROVE  Measured(t, c, p)'
  BY <1>1
<1>2. SameMeasure(t) => Measured(t, c, p)
  BY DEF SameMeasure, LenInv
<1>3. ASSUME SameMeasure(t), Outside PROVE Measured(t, c, p)'
  <2>1. Grown(c, <<>>)
    BY <1>0, <1>3, OutsideKept, KeptIsGrown
  <2> QED
    BY <1>0, <1>2, <1>3, <2>1, GrownKeepsMeasured
<1>4. ASSUME NEW a \in Actors, Inside(a), Inner(a) PROVE Measured(t, c, p)'
  <2>1. a # t /\ SameMeasure(t)
    <3>1. pc'[a] \in InCS /\ \A s \in Actors \ {a} : pc'[s] = pc[s] /\ cur'[s] = cur[s]
      BY <1>0, <1>4, InnerStays DEF IInv
    <3>2. a # t
      BY <3>1 DEF InCS, Measuring
    <3>3. len' = len /\ arg' = arg
      BY <1>4 DEF Inner, First, TakeSome, TakeNone, RenameNext, Rehead, ReleaseIn, ReleaseOut,
         Clear, PushWalk, PushAppend, PushFull, PushAlloc, FillBlock, PushLink
    <3> QED
      BY <1>0, <3>1, <3>2, <3>3 DEF SameMeasure
  <2>2. \E w \in Seq(AnyChars) : Grown(c, w)
    <3>1. CASE arg[a] # c
      BY <1>0, <1>4, <3>1, OthersKept, KeptIsGrown
    <3>2. CASE arg[a] = c
      <4>1. op[a] = "push"
        <5> SUFFICES ASSUME op[a] # "push" PROVE FALSE
          OBVIOUS
        <5>1. a \in Threads /\ <<op[a], c>> \in Uses[a] /\ op[a] \in Ops \ {"len"}
          BY <1>4, <3>2, ReaderIs DEF Ops
        <5> QED
          BY <2>1, <5>1 DEF SoleReader
      <4>2. Grown(c, <<>>) \/ Grown(c, <<ch>>)
        BY <1>4, <3>2, <4>1, PushGrows
      <4>3. <<ch>> \in Seq(AnyChars)
        BY <1>0, <4>1, StoredIs DEF IInv, CallInv
      <4> QED
        BY <1>0, <4>2, <4>3
    <3> QED
      BY <3>1, <3>2
  <2> QED
    BY <1>2, <2>1, <2>2, GrownKeepsMeasured
<1>5. ASSUME ~ \E a \in Actors : Inside(a) /\ Inner(a) PROVE Measured(t, c, p)'
  <2>1. Outside
    BY <1>5, NextCases
  <2>2. Measure(t) \/ SameMeasure(t)
    <3>1. CASE UNCHANGED vars
      BY <3>1 DEF vars, SameMeasure
    <3>2. ASSUME NEW d \in Channels, Post(d) PROVE SameMeasure(t)
      BY <3>2 DEF Post, SameMeasure
    <3>3. CASE IoRecv
      BY <1>0, <3>3, DQueueAssumption DEF IoRecv, SameMeasure, CallType, DQueueAssumption
    <3>4. ASSUME NEW u \in Threads, NEW o \in Ops, NEW d \in Channels, NEW n \in 0 .. MaxLen,
                 Call(u, o, d, n)
          PROVE  SameMeasure(t)
      <4>1. pc'[u] \notin Measuring
        BY <1>0, <3>4 DEF Call, CallType, Measuring, Actors
      <4> QED
        BY <1>0, <3>4, <4>1 DEF Call, CallType, SameMeasure, Actors
    <3>5. ASSUME NEW u \in Actors, Lock(u) \/ Unlock(u) PROVE SameMeasure(t)
      <4>1. pc'[u] \notin Measuring
        BY <1>0, <3>5 DEF Lock, Unlock, Return, CallType, Measuring
      <4> QED
        BY <1>0, <3>5, <4>1 DEF Lock, Unlock, Return, CallType, SameMeasure
    <3>6. ASSUME NEW u \in Actors, Measure(u) PROVE Measure(t) \/ SameMeasure(t)
      <4>1. CASE u = t
        BY <3>6, <4>1
      <4>2. CASE u # t
        BY <1>0, <3>6, <4>2 DEF Measure, LenFirst, LenIn, LenOut, LenNext, LenReturn, Return,
           CallType, SameMeasure
      <4> QED
        BY <4>1, <4>2
    <3>7. \A u \in Actors : ~ Inner(u)
      BY <1>0, <1>5, InnerStays DEF Inside, IInv
    <3> QED
      BY <1>0, <3>1, <3>2, <3>3, <3>4, <3>5, <3>6, <3>7
      DEF Next, Step, IsrPopChar, TxEnable, TypeOK, QueueType
  <2> QED
    BY <1>3, <2>1, <2>2, MeasureKeepsMeasured
<1> QED
  BY <1>4, <1>5

LEMMA LengthFits == CInv /\ LenInv => LengthIsThere
<1> SUFFICES ASSUME CInv, LenInv, NEW t \in Threads, pc[t] = "lret", SoleReader(t, arg[t])
             PROVE  0 <= len[t] /\ len[t] <= Len(ChainFrom(Start(arg[t])))
  BY DEF LengthIsThere
<1>1. arg[t] \in Channels /\ cur[t] \in Blocks \union {NULL}
  <2>1. <<op[t], arg[t]>> \in Ops \X Channels
    BY DQueueAssumption DEF DQueueAssumption, CInv, UsesInv
  <2> QED
    BY <2>1 DEF CInv, IInv, TypeOK, CallType, Actors
<1>2. Measured(t, arg[t], cur[t])
  BY <1>1 DEF LenInv
<1> QED
  BY <1>2 DEF Measured, Holding

(* A length that dque_GetLen, which takes no lock, reports to the only      *)
(* reader of a channel is not negative and not more than what the reader    *)
(* can pop, whatever DqueIo and the readers of other channels did to the    *)
(* pool between any two of its reads.                                       *)
THEOREM LengthHolds ==
  ASSUME IsrChannels = {}
  PROVE  Spec => []LengthIsThere
<1>1. CInv /\ LenInv /\ [Next]_vars => CInv' /\ LenInv'
  BY CInvStep, LenInvStep
<1>2. Spec => [](CInv /\ LenInv)
  BY CInvInit, LenInvInit, <1>1, PTL DEF Spec
<1> QED
  BY <1>2, LengthFits, PTL
=============================================================================
