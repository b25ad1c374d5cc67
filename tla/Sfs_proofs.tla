----------------------------- MODULE Sfs_proofs -----------------------------
(***************************************************************************)
(* Proofs about the record store for every number and size of blocks, all  *)
(* identities, contents and sizes of records: what it writes stays inside  *)
(* its block and, under CleanRestarts, what it keeps is the table KvStore. *)
(***************************************************************************)
EXTENDS SfsInv, SequenceTheorems, FiniteSetTheorems, WellFoundedInduction, TLAPS

(* A set of numbers has a least one, for the two choices of Sfs.            *)
LEMMA NatMin ==
  ASSUME NEW T \in SUBSET Nat, T # {}
  PROVE  \E x \in T : \A y \in T : x <= y
<1>1. IsWellFoundedOn(OpToRel(<, Nat), Nat)
  BY NatLessThanWellFounded
<1>2. PICK x \in T : \A y \in T : ~ (<<y, x>> \in OpToRel(<, Nat))
  BY <1>1, WFMin
<1>3. ASSUME NEW y \in T, y < x PROVE FALSE
  <2>1. <<y, x>> \in Nat \X Nat
    OBVIOUS
  <2>2. <<y, x>> \in OpToRel(<, Nat)
    BY <1>3, <2>1 DEF OpToRel
  <2> QED
    BY <1>2, <2>2
<1>4. \A y \in T : x <= y
  BY <1>3
<1> QED
  BY <1>4

-----------------------------------------------------------------------------
LEMMA Bounds == N \in Nat /\ N > 1 /\ CAP \in Nat /\ CAP > 0 /\ HDR = 1
  BY SfsAssumption DEF SfsAssumption, HDR

LEMMA SizeNat == ASSUME NEW v \in Vals PROVE SizeOf[v] \in Nat /\ SizeOf[v] > 0
  BY SfsAssumption DEF SfsAssumption

LEMMA NoneIsNoVal == None \notin Vals \union {Blank} /\ Blank \notin Vals
  BY SfsAssumption DEF SfsAssumption

LEMMA CallsDiffer ==
  /\ NoReq # Format
  /\ NoReq \notin [id : Ids, val : Vals \union {None}]
  /\ Format \notin [id : Ids, val : Vals \union {None}]
  BY SfsAssumption DEF SfsAssumption

(* The ring.                                                                *)
LEMMA NextIs ==
  ASSUME NEW b \in Blocks
  PROVE  NextBlk(b) = IF b = N - 1 THEN 0 ELSE b + 1
<1>1. b \in Nat /\ b < N
  BY Bounds DEF Blocks
<1>2. CASE b = N - 1
  <2>1. N % N = 0
    BY Bounds
  <2> QED
    BY <1>2, <2>1, Bounds DEF NextBlk
<1>3. CASE b # N - 1
  <2>1. b + 1 \in Nat /\ b + 1 < N
    BY <1>1, <1>3, Bounds
  <2>2. (b + 1) % N = b + 1
    BY <2>1, Bounds
  <2> QED
    BY <1>3, <2>2 DEF NextBlk
<1> QED
  BY <1>2, <1>3

LEMMA NextInRing ==
  ASSUME NEW b \in Blocks
  PROVE  NextBlk(b) \in Blocks /\ NextBlk(b) # b
  BY NextIs, Bounds DEF Blocks

LEMMA RingOfThree ==
  ASSUME N > 2, NEW b \in Blocks
  PROVE  NextBlk(NextBlk(b)) # b
  BY NextIs, NextInRing, Bounds DEF Blocks

LEMMA RingOfWrite ==
  ASSUME act \in Blocks
  PROVE  /\ Target \in Blocks /\ Source \in Blocks
         /\ Target # act /\ Source # Target
  BY NextInRing DEF Target, Source

-----------------------------------------------------------------------------
(* The records of a block.                                                  *)
LEMMA LogFacts ==
  ASSUME FlashType, NEW b \in Blocks
  PROVE  /\ log[b] \in Seq(Record_) /\ Len(log[b]) \in Nat
         /\ DOMAIN log[b] = 1 .. Len(log[b])
         /\ \A k \in DOMAIN log[b] : log[b][k] \in Record_ /\ k \in Nat \ {0}
         /\ log[b] = <<>> <=> Len(log[b]) = 0
<1>1. log[b] \in Seq(Record_)
  BY DEF FlashType
<1>2. Len(log[b]) \in Nat /\ DOMAIN log[b] = 1 .. Len(log[b])
  BY <1>1, LenProperties
<1>3. \A k \in 1 .. Len(log[b]) : log[b][k] \in Record_
  BY <1>1, ElementOfSeq
<1>4. log[b] = <<>> <=> Len(log[b]) = 0
  BY <1>1, EmptySeq
<1> QED
  BY <1>1, <1>2, <1>3, <1>4

LEMMA RecordFacts ==
  ASSUME NEW r \in Record_
  PROVE  /\ r.ste \in {"valid", "invalid"}
         /\ r.id \in Ids \union {NoId} /\ r.val \in Vals \union {Blank}
         /\ r.at \in Nat /\ r.at < CAP /\ r.size \in Nat /\ r.size > 0 /\ r.size <= CAP
  BY Bounds DEF Record_

LEMMA AndMore ==
  \A x, y, a, z \in Nat : x + y <= a => x + y <= a + z
  OBVIOUS

(* All records of a block end where the last one ends, or before.           *)
LEMMA EndFacts ==
  ASSUME FlashType, Layout, NEW b \in Blocks
  PROVE  /\ EndOf(b) \in Nat /\ EndOf(b) <= CAP /\ Len(log[b]) <= EndOf(b)
         /\ \A k \in DOMAIN log[b] :
               /\ k <= CAP
               /\ log[b][k].at + log[b][k].size <= EndOf(b)
<1>1. CASE log[b] = <<>>
  BY <1>1, LogFacts, Bounds DEF EndOf
<1>2. CASE log[b] # <<>>
  <2> DEFINE n == Len(log[b])
  <2>1. n \in DOMAIN log[b] /\ n \in Nat /\ DOMAIN log[b] = 1 .. n
    BY <1>2, LogFacts
  <2>2. EndOf(b) = log[b][n].at + log[b][n].size
    BY <1>2 DEF EndOf
  <2>3. \A k \in DOMAIN log[b] : log[b][k] \in Record_
    BY LogFacts
  <2>4. log[b][n].at + log[b][n].size <= CAP /\ n <= log[b][n].at + 1
    BY <2>1 DEF Layout
  <2>5. ASSUME NEW k \in DOMAIN log[b], k # n
        PROVE  log[b][k].at + log[b][k].size <= log[b][n].at
    <3>1. k \in 1 .. n - 1
      BY <2>1, <2>5
    <3> QED
      BY <2>1, <3>1 DEF Layout
  <2>6. \A k \in DOMAIN log[b] : log[b][k].at \in Nat /\ log[b][k].size \in Nat \ {0}
    BY <2>3, RecordFacts
  <2>7. EndOf(b) \in Nat /\ EndOf(b) <= CAP /\ n <= EndOf(b)
    BY <2>1, <2>2, <2>4, <2>6, Bounds
  <2>8. ASSUME NEW k \in DOMAIN log[b]
        PROVE  k <= CAP /\ log[b][k].at + log[b][k].size <= EndOf(b)
    <3>1. k \in Nat /\ k <= n
      BY <2>1, <2>8
    <3>2. k <= CAP
      BY <2>1, <2>7, <3>1, Bounds
    <3>3. log[b][k].at + log[b][k].size <= EndOf(b)
      <4> PICK e : e = EndOf(b)
        OBVIOUS
      <4> PICK a, z : a = log[b][n].at /\ z = log[b][n].size
        OBVIOUS
      <4>1. e = a + z /\ a \in Nat /\ z \in Nat
        BY <2>1, <2>2, <2>6
      <4>2. CASE k = n
        <5>1. EndOf(b) = log[b][k].at + log[b][k].size /\ EndOf(b) \in Nat
          BY <2>2, <2>7, <4>2
        <5> QED
          BY <5>1
      <4>3. CASE k # n
        <5> PICK x, y : x = log[b][k].at /\ y = log[b][k].size
          OBVIOUS
        <5>1. x + y <= a /\ x \in Nat /\ y \in Nat
          BY <2>5, <2>6, <2>8, <4>3
        <5>2. x + y <= a + z
          BY <4>1, <5>1, AndMore
        <5> QED
          BY <4>1, <5>2
      <4> QED
        BY <4>2, <4>3
    <3> QED
      BY <3>2, <3>3
  <2> QED
    BY <2>7, <2>8
<1> QED
  BY <1>1, <1>2

(* A record behind the end.                                                 *)
LEMMA NewRecord ==
  ASSUME FlashType, Layout, NEW b \in Blocks, NEW i \in Ids \union {NoId},
         NEW v \in Vals \union {Blank}, NEW n \in Nat \ {0}, EndOf(b) + n <= CAP
  PROVE  /\ Record(b, i, v, n) \in Record_
         /\ Record(b, i, v, n).at = EndOf(b) /\ Record(b, i, v, n).size = n
         /\ Record(b, i, v, n).ste = "valid"
         /\ Record(b, i, v, n).id = i /\ Record(b, i, v, n).val = v
  BY EndFacts, Bounds DEF Record, Record_

-----------------------------------------------------------------------------
(* What the operations on the flash leave.                                  *)
LEMMA MarkFacts ==
  ASSUME FlashType, NEW b \in Blocks, NEW s \in {"active", "full"}, MarkAs(b, s)
  PROVE  /\ FlashType' /\ log' = log /\ ste'[b] = s
         /\ \A c \in Blocks \ {b} : ste'[c] = ste[c]
  BY DEF MarkAs, FlashType

LEMMA EraseFacts ==
  ASSUME FlashType, NEW b \in Blocks, Erase(b)
  PROVE  /\ FlashType' /\ ste'[b] = "idle" /\ log'[b] = <<>>
         /\ \A c \in Blocks \ {b} : ste'[c] = ste[c] /\ log'[c] = log[c]
  BY EmptySeq DEF Erase, FlashType

LEMMA PutFacts ==
  ASSUME FlashType, NEW b \in Blocks, NEW r \in Record_, Put(b, r)
  PROVE  /\ FlashType' /\ ste' = ste
         /\ \A c \in Blocks \ {b} : log'[c] = log[c]
         /\ Len(log'[b]) = Len(log[b]) + 1
         /\ DOMAIN log'[b] = 1 .. Len(log[b]) + 1
         /\ \A k \in DOMAIN log[b] : log'[b][k] = log[b][k]
         /\ log'[b][Len(log[b]) + 1] = r
         /\ log'[b] # <<>>
<1>1. log[b] \in Seq(Record_) /\ Len(log[b]) \in Nat
  BY LogFacts
<1>2. log'[b] = Append(log[b], r) /\ ste' = ste /\ \A c \in Blocks \ {b} : log'[c] = log[c]
  BY DEF Put, FlashType
<1>3. /\ Append(log[b], r) \in Seq(Record_)
      /\ Len(Append(log[b], r)) = Len(log[b]) + 1
      /\ \A k \in 1 .. Len(log[b]) : Append(log[b], r)[k] = log[b][k]
      /\ Append(log[b], r)[Len(log[b]) + 1] = r
  BY <1>1, AppendProperties
<1>4. FlashType'
  BY <1>3 DEF Put, FlashType
<1>5. DOMAIN log'[b] = 1 .. Len(log[b]) + 1 /\ log'[b] # <<>>
  BY <1>1, <1>2, <1>3, LenProperties, EmptySeq
<1> QED
  BY <1>1, <1>2, <1>3, <1>4, <1>5, LogFacts

(* Programming over a record changes it where it lies.                      *)
Over(b, k, r) == log' = [log EXCEPT ![b][k] = r] /\ ste' = ste

LEMMA OverFacts ==
  ASSUME FlashType, NEW b \in Blocks, NEW k \in DOMAIN log[b], NEW r \in Record_,
         Over(b, k, r)
  PROVE  /\ FlashType'
         /\ \A c \in Blocks \ {b} : log'[c] = log[c]
         /\ Len(log'[b]) = Len(log[b]) /\ DOMAIN log'[b] = DOMAIN log[b]
         /\ \A j \in DOMAIN log[b] \ {k} : log'[b][j] = log[b][j]
         /\ log'[b][k] = r
<1>1. log[b] \in Seq(Record_) /\ Len(log[b]) \in Nat /\ k \in 1 .. Len(log[b])
      /\ DOMAIN log[b] = 1 .. Len(log[b])
  BY LogFacts
<1>2. log'[b] = [log[b] EXCEPT ![k] = r] /\ \A c \in Blocks \ {b} : log'[c] = log[c]
  BY DEF FlashType, Over
<1>3. /\ [log[b] EXCEPT ![k] = r] \in Seq(Record_)
      /\ Len([log[b] EXCEPT ![k] = r]) = Len(log[b])
  BY <1>1, ExceptSeq
<1>4. FlashType'
  BY <1>3 DEF FlashType, Over
<1> QED
  BY <1>1, <1>2, <1>3, <1>4, LenProperties

-----------------------------------------------------------------------------
(* The search: the hits are the valid records of the identity, and the      *)
(* first of them is one of them.                                            *)
LEMMA HitFacts ==
  ASSUME FlashType, Layout, NEW i
  PROVE  /\ \A b \in Blocks : \A k \in DOMAIN log[b] :
               Valid(b, k) /\ log[b][k].id = i => <<b, k>> \in Hits(i)
         /\ \A x \in Hits(i) : /\ x[1] \in Blocks /\ x[2] \in DOMAIN log[x[1]]
                               /\ Valid(x[1], x[2]) /\ log[x[1]][x[2]].id = i
                               /\ x = <<x[1], x[2]>>
<1>1. ASSUME NEW b \in Blocks, NEW k \in DOMAIN log[b], Valid(b, k), log[b][k].id = i
      PROVE  <<b, k>> \in Hits(i)
  <2>1. k \in Nat \ {0} /\ k <= CAP
    BY EndFacts, LogFacts
  <2>2. <<b, k>> \in Blocks \X (1 .. CAP)
    BY <2>1, Bounds
  <2>3. ste[b] # "idle"
    BY <1>1, LogFacts DEF Layout
  <2>4. IsHit(b, k, i)
    BY <1>1, <2>3 DEF IsHit, Valid
  <2> QED
    BY <2>2, <2>4 DEF Hits
<1>2. \A x \in Hits(i) : /\ x[1] \in Blocks /\ x[2] \in DOMAIN log[x[1]]
                         /\ Valid(x[1], x[2]) /\ log[x[1]][x[2]].id = i
                         /\ x = <<x[1], x[2]>>
  BY DEF Hits, IsHit, Valid
<1> QED
  BY <1>1, <1>2

LEMMA FoundIsHit ==
  ASSUME NEW i, Hits(i) # {}
  PROVE  Found(i) \in Hits(i)
<1> DEFINE S == {x[1] : x \in Hits(i)}
<1>1. Hits(i) \subseteq Blocks \X (1 .. CAP)
  BY DEF Hits
<1>2. \A x \in Hits(i) : x[1] \in Nat /\ x[2] \in Nat /\ x = <<x[1], x[2]>>
  BY <1>1, Bounds DEF Blocks
<1>3. PICK b \in S : \A a \in S : b <= a
  <2>1. S \subseteq Nat /\ S # {}
    BY <1>2
  <2> QED
    BY <2>1, NatMin
<1> DEFINE T == {k \in 1 .. CAP : <<b, k>> \in Hits(i)}
<1>4. T \subseteq Nat /\ T # {}
  <2>1. PICK x \in Hits(i) : b = x[1]
    BY <1>3
  <2>2. x[2] \in 1 .. CAP /\ x = <<b, x[2]>>
    BY <1>1, <1>2, <2>1
  <2> QED
    BY <2>1, <2>2
<1>5. PICK k \in T : \A j \in T : k <= j
  BY <1>4, NatMin
<1>6. <<b, k>> \in Hits(i)
  BY <1>5
<1>7. ASSUME NEW y \in Hits(i) PROVE Precedes(<<b, k>>, y)
  <2>1. y[1] \in S /\ b <= y[1]
    BY <1>3
  <2>2. b \in Nat /\ y[1] \in Nat /\ y[2] \in 1 .. CAP /\ y = <<y[1], y[2]>>
    BY <1>1, <1>2, <1>3
  <2>3. y[1] = b => k <= y[2]
    BY <1>5, <2>2
  <2> QED
    BY <2>1, <2>2, <2>3 DEF Precedes
<1> QED
  BY <1>6, <1>7 DEF Found

LEMMA AdrFacts ==
  ASSUME FlashType, Layout, NEW i
  PROVE  /\ AdrOf(i) \in (Blocks \X (0 .. CAP - 1)) \union {NoAdr}
         /\ AdrOf(i) = NoAdr => Hits(i) = {}
         /\ Hits(i) = {} => AdrOf(i) = NoAdr
         /\ AdrOf(i) # NoAdr =>
               /\ AdrOf(i)[1] \in Blocks
               /\ \E k \in DOMAIN log[AdrOf(i)[1]] :
                     /\ Valid(AdrOf(i)[1], k)
                     /\ log[AdrOf(i)[1]][k].at = AdrOf(i)[2]
                     /\ log[AdrOf(i)[1]][k].id = i
<1>1. CASE Hits(i) = {}
  BY <1>1 DEF AdrOf
<1>2. CASE Hits(i) # {}
  <2> DEFINE x == Found(i)
  <2>1. /\ x[1] \in Blocks /\ x[2] \in DOMAIN log[x[1]]
        /\ Valid(x[1], x[2]) /\ log[x[1]][x[2]].id = i
    BY <1>2, FoundIsHit, HitFacts
  <2> HIDE DEF x
  <2>2. AdrOf(i) = <<x[1], log[x[1]][x[2]].at>>
    BY <1>2 DEF AdrOf, Adr, x
  <2>3. log[x[1]][x[2]] \in Record_
    BY <2>1, LogFacts
  <2>4. log[x[1]][x[2]].at \in 0 .. CAP - 1
    BY <2>3, RecordFacts, Bounds
  <2>5. x[1] # NoBlk
    BY <2>1, Bounds DEF Blocks, NoBlk
  <2> QED
    BY <1>2, <2>1, <2>2, <2>4, <2>5 DEF NoAdr
<1> QED
  BY <1>1, <1>2

LEMMA ReadFacts ==
  ASSUME FlashType, Layout, NEW i
  PROVE  /\ Hits(i) = {} => Read(i) = None
         /\ Hits(i) # {} =>
               \E b \in Blocks : \E k \in DOMAIN log[b] :
                  Valid(b, k) /\ log[b][k].id = i /\ Read(i) = log[b][k].val
         /\ Read(i) \in Vals \union {None, Blank}
<1>1. CASE Hits(i) = {}
  BY <1>1 DEF Read
<1>2. CASE Hits(i) # {}
  <2> DEFINE x == Found(i)
  <2>1. /\ x[1] \in Blocks /\ x[2] \in DOMAIN log[x[1]]
        /\ Valid(x[1], x[2]) /\ log[x[1]][x[2]].id = i
    BY <1>2, FoundIsHit, HitFacts
  <2> HIDE DEF x
  <2>2. Read(i) = log[x[1]][x[2]].val
    BY <1>2 DEF Read, x
  <2>3. log[x[1]][x[2]] \in Record_
    BY <2>1, LogFacts
  <2> QED
    BY <1>2, <2>1, <2>2, <2>3, RecordFacts
<1> QED
  BY <1>1, <1>2

LEMMA ViewType ==
  ASSUME FlashType, Layout
  PROVE  View \in [Ids -> Vals \union {None, Blank}]
  BY ReadFacts DEF View

LEMMA ShowsRead ==
  ASSUME FlashType, Layout, NEW i, NEW v, Shows(i, v)
  PROVE  Read(i) = v
<1>1. CASE Hits(i) = {}
  BY <1>1, ReadFacts, HitFacts DEF Shows
<1>2. CASE Hits(i) # {}
  BY <1>2, ReadFacts DEF Shows, Agrees
<1> QED
  BY <1>1, <1>2

LEMMA AgreesRead ==
  ASSUME FlashType, Layout, NEW i, NEW v, Agrees(i, v)
  PROVE  Read(i) \in {v, None}
  BY ReadFacts DEF Agrees

LEMMA AloneShows ==
  ASSUME FlashType, Layout, Alone(Blocks), NEW i
  PROVE  Shows(i, Read(i))
<1>1. CASE Hits(i) = {}
  BY <1>1, ReadFacts, HitFacts DEF Shows, Agrees
<1>2. CASE Hits(i) # {}
  <2>1. PICK b \in Blocks : \E k \in DOMAIN log[b] :
           Valid(b, k) /\ log[b][k].id = i /\ Read(i) = log[b][k].val
    BY <1>2, ReadFacts
  <2>2. PICK k \in DOMAIN log[b] :
           Valid(b, k) /\ log[b][k].id = i /\ Read(i) = log[b][k].val
    BY <2>1
  <2> QED
    BY <2>2 DEF Shows, Agrees, Alone
<1> QED
  BY <1>1, <1>2

LEMMA ActiveFacts ==
  /\ Active \subseteq Blocks
  /\ Active = {} => ActiveBlock = NoBlk
  /\ Active # {} => ActiveBlock \in Active
  /\ Active # {} /\ ~ ({0, N - 1} \subseteq Active) => \A a \in Active : ActiveBlock <= a
<1>1. Active \subseteq Blocks /\ Blocks \subseteq Nat
  BY Bounds DEF Active, Blocks
<1>2. Active = {} => ActiveBlock = NoBlk
  BY DEF ActiveBlock
<1>3. ASSUME Active # {}
      PROVE  /\ ActiveBlock \in Active
             /\ ~ ({0, N - 1} \subseteq Active) => \A a \in Active : ActiveBlock <= a
  <2>1. CASE {0, N - 1} \subseteq Active
    BY <2>1 DEF ActiveBlock
  <2>2. CASE ~ ({0, N - 1} \subseteq Active)
    <3>1. \E b \in Active : \A a \in Active : b <= a
      BY <1>1, <1>3, NatMin
    <3>2. ActiveBlock = CHOOSE b \in Active : \A a \in Active : b <= a
      BY <1>3, <2>2 DEF ActiveBlock
    <3> QED
      BY <3>1, <3>2
  <2> QED
    BY <2>1, <2>2
<1> QED
  BY <1>1, <1>2, <1>3

-----------------------------------------------------------------------------
(* The layout, after each operation on the flash.                           *)
LEMMA LayoutMark ==
  ASSUME FlashType, Layout, NEW b \in Blocks, NEW s \in {"active", "full"}, MarkAs(b, s)
  PROVE  Layout'
  BY MarkFacts DEF Layout

LEMMA LayoutErase ==
  ASSUME FlashType, Layout, NEW b \in Blocks, Erase(b)
  PROVE  Layout'
<1> SUFFICES ASSUME NEW c \in Blocks
             PROVE  /\ ste'[c] = "idle" => log'[c] = <<>>
                    /\ \A k \in DOMAIN log'[c] :
                          /\ k <= log'[c][k].at + 1
                          /\ log'[c][k].at + log'[c][k].size <= CAP
                          /\ \A j \in 1 .. k - 1 :
                                log'[c][j].at + log'[c][j].size <= log'[c][k].at
  BY DEF Layout
<1>1. CASE c = b
  <2>1. FlashType' /\ log'[b] = <<>>
    BY EraseFacts
  <2>2. DOMAIN log'[b] = {}
    BY <2>1
  <2> QED
    BY <1>1, <2>1, <2>2
<1>2. CASE c # b
  <2>1. log'[c] = log[c] /\ ste'[c] = ste[c]
    BY <1>2, EraseFacts
  <2> QED
    BY <2>1 DEF Layout
<1> QED
  BY <1>1, <1>2

LEMMA LayoutPut ==
  ASSUME FlashType, Layout, NEW b \in Blocks, NEW r \in Record_, Put(b, r),
         ste[b] # "idle", r.at = EndOf(b), EndOf(b) + r.size <= CAP
  PROVE  Layout'
<1> SUFFICES ASSUME NEW c \in Blocks
             PROVE  /\ ste'[c] = "idle" => log'[c] = <<>>
                    /\ \A k \in DOMAIN log'[c] :
                          /\ k <= log'[c][k].at + 1
                          /\ log'[c][k].at + log'[c][k].size <= CAP
                          /\ \A j \in 1 .. k - 1 :
                                log'[c][j].at + log'[c][j].size <= log'[c][k].at
  BY DEF Layout
<1>1. CASE c = b
  <2> DEFINE n == Len(log[b])
  <2>1. /\ n \in Nat /\ DOMAIN log[b] = 1 .. n
        /\ DOMAIN log'[b] = 1 .. n + 1 /\ ste' = ste
        /\ log'[b][n + 1] = r /\ \A k \in 1 .. n : log'[b][k] = log[b][k]
    BY LogFacts, PutFacts
  <2>2. n <= EndOf(b) /\ \A k \in 1 .. n : log[b][k].at + log[b][k].size <= EndOf(b)
    BY <2>1, EndFacts
  <2> HIDE DEF n
  <2>3. ASSUME NEW k \in 1 .. n + 1
        PROVE  /\ k <= log'[b][k].at + 1
               /\ log'[b][k].at + log'[b][k].size <= CAP
               /\ \A j \in 1 .. k - 1 :
                     log'[b][j].at + log'[b][j].size <= log'[b][k].at
    <3>1. CASE k = n + 1
      <4>1. log'[b][k].at = EndOf(b) /\ log'[b][k].size = r.size
        BY <2>1, <3>1
      <4>2. k <= EndOf(b) + 1
        BY <2>1, <2>2, <3>1, EndFacts
      <4>3. \A j \in 1 .. k - 1 : log'[b][j].at + log'[b][j].size <= EndOf(b)
        BY <2>1, <2>2, <3>1
      <4> QED
        BY <4>1, <4>2, <4>3
    <3>2. CASE k # n + 1
      <4>1. k \in DOMAIN log[b] /\ k \in 1 .. n
        BY <2>1, <3>2
      <4>2. \A j \in 1 .. k - 1 : j \in 1 .. n
        BY <2>1, <4>1
      <4>3. /\ k <= log[b][k].at + 1
            /\ log[b][k].at + log[b][k].size <= CAP
            /\ \A j \in 1 .. k - 1 : log[b][j].at + log[b][j].size <= log[b][k].at
        BY <4>1 DEF Layout
      <4> QED
        BY <2>1, <4>1, <4>2, <4>3
    <3> QED
      BY <3>1, <3>2
  <2> QED
    BY <1>1, <2>1, <2>3
<1>2. CASE c # b
  <2>1. log'[c] = log[c] /\ ste'[c] = ste[c]
    BY <1>2, PutFacts
  <2> QED
    BY <2>1 DEF Layout
<1> QED
  BY <1>1, <1>2

LEMMA LayoutOver ==
  ASSUME FlashType, Layout, NEW b \in Blocks, NEW k \in DOMAIN log[b], NEW r \in Record_,
         Over(b, k, r),
         r.at = log[b][k].at, r.size = log[b][k].size
  PROVE  Layout'
<1> SUFFICES ASSUME NEW c \in Blocks
             PROVE  /\ ste'[c] = "idle" => log'[c] = <<>>
                    /\ \A m \in DOMAIN log'[c] :
                          /\ m <= log'[c][m].at + 1
                          /\ log'[c][m].at + log'[c][m].size <= CAP
                          /\ \A j \in 1 .. m - 1 :
                                log'[c][j].at + log'[c][j].size <= log'[c][m].at
  BY DEF Layout
<1>1. CASE c = b
  <2>1. DOMAIN log'[b] = DOMAIN log[b] /\ ste' = ste
    BY OverFacts DEF Over
  <2>2. \A j \in DOMAIN log[b] : log'[b][j].at = log[b][j].at /\ log'[b][j].size = log[b][j].size
    BY OverFacts
  <2>3. log[b] # <<>> /\ ste[b] # "idle"
    BY LogFacts DEF Layout
  <2>4. \A m \in DOMAIN log[b] : \A j \in 1 .. m - 1 : j \in DOMAIN log[b]
    BY LogFacts
  <2> QED
    BY <1>1, <2>1, <2>2, <2>3, <2>4 DEF Layout
<1>2. CASE c # b
  <2>1. log'[c] = log[c] /\ ste'[c] = ste[c]
    BY <1>2, OverFacts DEF Over
  <2> QED
    BY <2>1 DEF Layout
<1> QED
  BY <1>1, <1>2

-----------------------------------------------------------------------------
(* Each step keeps the types and PlaceInv.                                  *)
LEMMA SfsInit == Init => TypeOK /\ PlaceInv
<1> SUFFICES ASSUME Init PROVE TypeOK /\ PlaceInv
  OBVIOUS
<1>1. 0 \in Blocks /\ <<>> \in Seq(Record_)
  BY Bounds, EmptySeq DEF Blocks
<1>2. FlashType
  BY <1>1 DEF Init, FlashType
<1>3. CallType
  <2>1. cut \in BOOLEAN
    BY Zenon DEF Init
  <2> QED
    BY <2>1, Bounds DEF Init, CallType
<1>4. Layout
  BY DEF Init, Layout
<1>5. CallInv /\ MarkInv /\ RoomInv
  BY CallsDiffer DEF Init, CallInv, MarkInv, RoomInv, Fresh, InWrite, InCopy
<1> QED
  BY <1>2, <1>3, <1>4, <1>5 DEF TypeOK, PlaceInv

LEMMA ReturnPlace ==
  ASSUME NEW r \in {"ok", "full", "failed"}, Return(r), FlashType', Layout', cut' \in BOOLEAN
  PROVE  TypeOK' /\ PlaceInv'
<1>1. CallType'
  BY Bounds DEF Return, CallType
<1>2. CallInv' /\ MarkInv' /\ RoomInv'
  BY CallsDiffer DEF Return, CallInv, MarkInv, RoomInv, Fresh, InWrite, InCopy
<1> QED
  BY <1>1, <1>2 DEF TypeOK, PlaceInv

LEMMA WritePlace ==
  ASSUME TypeOK, PlaceInv, NEW i \in Ids, NEW v \in Vals, Write(i, v)
  PROVE  TypeOK' /\ PlaceInv'
<1> USE DEF TypeOK, PlaceInv
<1>1. log' = log /\ ste' = ste
  BY DEF Write, flash
<1>2. FlashType' /\ Layout'
  BY <1>1 DEF FlashType, Layout
<1>3. act' = ActiveBlock /\ req' = [id |-> i, val |-> v] /\ before' = View
      /\ old' = AdrOf(i) /\ qty' = N - 1 /\ UNCHANGED <<src, res, cut>>
  BY DEF Write
<1>4. req' \in [id : Ids, val : Vals \union {None}] /\ req'.val = v /\ req' # NoReq /\ req' # Format
  BY <1>3, CallsDiffer
<1>5. \/ act' = NoBlk /\ pc' = "erase0"
      \/ act' \in Active /\ ~ Room(act', v) /\ pc' = "next"
      \/ act' \in Active /\ Room(act', v) /\ pc' = Store(old')
  BY <1>3, ActiveFacts DEF Write
<1>6. act' \in Blocks \union {NoBlk}
  BY <1>5, ActiveFacts
<1>7. CallType'
  <2>1. old' \in (Blocks \X (0 .. CAP - 1)) \union {NoAdr}
    BY <1>3, AdrFacts
  <2>2. before' \in [Ids -> Vals \union {None, Blank}]
    BY <1>3, ViewType
  <2>3. pc' \in {"erase0", "next", "head", "inval"}
    BY <1>5 DEF Store
  <2>4. qty' \in 1 .. N - 1
    BY <1>3, Bounds
  <2>5. qty' \in (IF req' \in {NoReq, Format} \/ pc' = "del" THEN {0} ELSE 1 .. N - 1)
    BY <1>4, <2>3, <2>4
  <2> QED
    BY <1>3, <1>4, <1>6, <2>1, <2>2, <2>3, <2>5 DEF CallType, Steps
<1>8. CallInv'
  BY <1>4, <1>5, ActiveFacts DEF CallInv, Store, Fresh, InWrite
<1>9. MarkInv'
  BY <1>1, <1>5 DEF MarkInv, Active, Store, InWrite, InCopy
<1>10. RoomInv'
  BY <1>1, <1>3, <1>4, <1>5 DEF RoomInv, Room, EndOf, Store
<1> QED
  BY <1>2, <1>7, <1>8, <1>9, <1>10

LEMMA FirstPlace ==
  ASSUME TypeOK, PlaceInv, EraseFirst \/ MarkFirst
  PROVE  TypeOK' /\ PlaceInv'
<1> USE DEF TypeOK, PlaceInv
<1>1. 0 \in Blocks
  BY Bounds DEF Blocks
<1>2. CASE EraseFirst
  <2>1. FlashType' /\ Layout' /\ ste'[0] = "idle"
    BY <1>1, <1>2, EraseFacts, LayoutErase DEF EraseFirst
  <2>2. pc = "erase0" /\ pc' = "mark0" /\ UNCHANGED <<req, src, qty, res, before, cut, old, act>>
    BY <1>2 DEF EraseFirst, Goto
  <2>3. CallType'
    BY <2>2 DEF CallType, Steps
  <2>4. CallInv' /\ MarkInv' /\ RoomInv'
    BY <2>1, <2>2 DEF CallInv, MarkInv, RoomInv, Fresh, InWrite, InCopy
  <2> QED
    BY <2>1, <2>3, <2>4
<1>3. CASE MarkFirst
  <2>1. FlashType' /\ Layout' /\ ste'[0] = "active" /\ log' = log
    BY <1>1, <1>3, MarkFacts, LayoutMark DEF MarkFirst
  <2>2. /\ pc = "mark0" /\ UNCHANGED <<req, src, qty, res, before, cut, old>> /\ act' = 0
        /\ \/ Room(0, req.val) /\ pc' = Store(old)
           \/ pc' = "next"
    BY <1>3 DEF MarkFirst, Goto
  <2>3. CallType'
    BY <1>1, <2>2 DEF CallType, Steps, Store
  <2>4. CallInv' /\ MarkInv'
    BY <1>1, <2>1, <2>2 DEF CallInv, MarkInv, Fresh, InWrite, InCopy, Store
  <2>5. RoomInv'
    BY <2>1, <2>2 DEF RoomInv, Room, EndOf, Store
  <2> QED
    BY <2>1, <2>3, <2>4, <2>5
<1> QED
  BY <1>2, <1>3

LEMMA TurnPlace ==
  ASSUME TypeOK, PlaceInv, EraseNext \/ MarkNext
  PROVE  TypeOK' /\ PlaceInv'
<1> USE DEF TypeOK, PlaceInv
<1>1. act \in Blocks /\ ste[act] = "active"
  BY DEF EraseNext, MarkNext, CallInv, MarkInv, InWrite
<1>2. Target \in Blocks /\ Source \in Blocks /\ Target # act /\ Source # Target
  BY <1>1, RingOfWrite
<1>3. CASE EraseNext
  <2>1. FlashType' /\ Layout' /\ ste'[Target] = "idle" /\ ste'[act] = ste[act]
    BY <1>1, <1>2, <1>3, EraseFacts, LayoutErase DEF EraseNext
  <2>2. pc = "next" /\ pc' = "mark" /\ UNCHANGED <<req, src, qty, res, before, cut, old, act>>
    BY <1>3 DEF EraseNext, Goto
  <2>3. CallType'
    BY <2>2 DEF CallType, Steps
  <2>4. CallInv' /\ MarkInv' /\ RoomInv'
    BY <1>1, <2>1, <2>2 DEF CallInv, MarkInv, RoomInv, Fresh, InWrite, InCopy, Target
  <2> QED
    BY <2>1, <2>3, <2>4
<1>4. CASE MarkNext
  <2>1. FlashType' /\ Layout' /\ ste'[Target] = "active" /\ ste'[act] = ste[act] /\ log' = log
    BY <1>1, <1>2, <1>4, MarkFacts, LayoutMark DEF MarkNext
  <2>2. pc \in {"mark", "next"} /\ pc' = "copy" /\ src' = 1
        /\ UNCHANGED <<req, qty, res, before, cut, old, act>>
    BY <1>4 DEF MarkNext
  <2>3. CallType'
    BY <2>2, Bounds DEF CallType, Steps
  <2>4. CallInv' /\ MarkInv'
    BY <1>1, <2>1, <2>2 DEF CallInv, MarkInv, Fresh, InWrite, InCopy, Target
  <2>5. ste[Target] = "idle"
    BY <1>4 DEF MarkNext, MarkInv
  <2>6. EndOf(Target)' = 0
    BY <1>2, <2>1, <2>2, <2>5 DEF EndOf, Layout, Target
  <2>7. \A k \in DOMAIN log'[Source] : log'[Source][k].at >= 0
    BY <1>2, <2>1, LogFacts, RecordFacts
  <2>8. Source' = Source
    BY <2>2 DEF Source
  <2>9. RoomInv'
    BY <2>2, <2>6, <2>7, <2>8 DEF RoomInv
  <2> QED
    BY <2>1, <2>3, <2>4, <2>9
<1> QED
  BY <1>3, <1>4

(* A copy goes below the end of its original.                               *)
LEMMA CopyRoom ==
  ASSUME TypeOK, PlaceInv, pc = "copy", NEW k \in Copyable
  PROVE  /\ act \in Blocks /\ k \in DOMAIN log[Source] /\ src <= k /\ Valid(Source, k)
         /\ log[Source][k] \in Record_ /\ ste[Target] = "active"
         /\ k \in Nat /\ k <= CAP
         /\ EndOf(Target) <= log[Source][k].at
         /\ EndOf(Target) + log[Source][k].size <= CAP
<1> USE DEF TypeOK, PlaceInv
<1>1. act \in Blocks /\ ste[Target] = "active"
  BY DEF CallInv, MarkInv, InWrite, InCopy
<1>2. k \in DOMAIN log[Source] /\ src <= k /\ Valid(Source, k)
  BY DEF Copyable, Valid
<1>3. Source \in Blocks /\ Target \in Blocks
  BY <1>1, RingOfWrite
<1>4. log[Source][k] \in Record_ /\ k \in Nat /\ k <= CAP
  BY <1>2, <1>3, LogFacts, EndFacts
<1>5. EndOf(Target) <= log[Source][k].at
  BY <1>2 DEF RoomInv
<1>6. log[Source][k].at + log[Source][k].size <= CAP
  BY <1>2, <1>3 DEF Layout
<1> QED
  BY <1>1, <1>2, <1>3, <1>4, <1>5, <1>6, EndFacts, RecordFacts, Bounds

LEMMA CopyPut ==
  ASSUME TypeOK, PlaceInv, pc = "copy", NEW k \in Copyable, NEW v \in Vals \union {Blank},
         Put(Target, Record(Target, log[Source][k].id, v, log[Source][k].size))
  PROVE  /\ FlashType' /\ Layout' /\ ste' = ste
         /\ \A c \in Blocks \ {Target} : log'[c] = log[c]
         /\ DOMAIN log'[Target] = 1 .. Len(log[Target]) + 1
         /\ Len(log'[Target]) = Len(log[Target]) + 1 /\ log'[Target] # <<>>
         /\ \A j \in DOMAIN log[Target] : log'[Target][j] = log[Target][j]
         /\ log'[Target][Len(log[Target]) + 1]
               = Record(Target, log[Source][k].id, v, log[Source][k].size)
<1> USE DEF TypeOK, PlaceInv
<1> DEFINE r == log[Source][k]
           c == Record(Target, r.id, v, r.size)
<1>1. /\ Target \in Blocks /\ r \in Record_
      /\ ste[Target] = "active" /\ EndOf(Target) + r.size <= CAP
  BY CopyRoom, RingOfWrite
<1>2. r.size \in Nat \ {0} /\ r.id \in Ids \union {NoId}
  BY <1>1, RecordFacts
<1>3. c \in Record_ /\ c.at = EndOf(Target) /\ c.size = r.size
  BY <1>1, <1>2, NewRecord
<1> HIDE DEF c
<1>4. Put(Target, c)
  BY DEF c
<1>5. Layout'
  BY <1>1, <1>3, <1>4, LayoutPut
<1>6. /\ FlashType' /\ ste' = ste
      /\ \A b \in Blocks \ {Target} : log'[b] = log[b]
      /\ DOMAIN log'[Target] = 1 .. Len(log[Target]) + 1
      /\ Len(log'[Target]) = Len(log[Target]) + 1 /\ log'[Target] # <<>>
      /\ \A j \in DOMAIN log[Target] : log'[Target][j] = log[Target][j]
      /\ log'[Target][Len(log[Target]) + 1] = c
  BY <1>1, <1>3, <1>4, PutFacts
<1> QED
  BY <1>5, <1>6 DEF c

LEMMA CopyPlace ==
  ASSUME TypeOK, PlaceInv, Copy
  PROVE  TypeOK' /\ PlaceInv'
<1> USE DEF TypeOK, PlaceInv
<1>1. pc = "copy" /\ UNCHANGED <<pc, req, act, qty, res, before, cut>>
  BY DEF Copy
<1>2. PICK k \in Copyable :
        /\ IsNextCopy(k) /\ src' = k + 1
        /\ \/ old' = NoAdr /\ UNCHANGED flash
           \/ old' = old /\ Put(Target, Record(Target, log[Source][k].id, log[Source][k].val,
                                               log[Source][k].size))
  BY DEF Copy
<1>3. /\ act \in Blocks /\ k \in DOMAIN log[Source] /\ src <= k /\ ste[Target] = "active"
      /\ log[Source][k] \in Record_ /\ EndOf(Target) + log[Source][k].size <= CAP
      /\ EndOf(Target) <= log[Source][k].at /\ k \in Nat /\ k <= CAP
  BY <1>1, CopyRoom
<1>4. Target \in Blocks /\ Source \in Blocks /\ Target # act /\ Source # Target
  BY <1>3, RingOfWrite
<1>5. Target' = Target /\ Source' = Source
  BY <1>1 DEF Target, Source
<1>6. src' \in 0 .. CAP + 1 /\ src' \in Nat \ {0}
  BY <1>2, <1>3, LogFacts, <1>4, Bounds
<1>7. CallType'
  BY <1>1, <1>2, <1>6 DEF CallType
<1>8. CallInv'
  BY <1>1, <1>3, <1>6 DEF CallInv, Fresh, InWrite
<1>9. \A j \in DOMAIN log[Source] : src' <= j =>
          /\ log[Source][j].at \in Nat
          /\ log[Source][k].at + log[Source][k].size <= log[Source][j].at
  <2> SUFFICES ASSUME NEW j \in DOMAIN log[Source], src' <= j
               PROVE  /\ log[Source][j].at \in Nat
                      /\ log[Source][k].at + log[Source][k].size <= log[Source][j].at
    OBVIOUS
  <2>1. j \in Nat /\ k \in 1 .. j - 1
    BY <1>2, <1>3, <1>4, LogFacts
  <2> QED
    BY <1>4, <2>1, LogFacts, RecordFacts DEF Layout
<1>10. EndOf(Target) \in Nat /\ log[Source][k].size \in Nat
       /\ log[Source][k].at \in Nat
  BY <1>3, <1>4, EndFacts, RecordFacts
<1>11. CASE old' = NoAdr /\ UNCHANGED flash
  <2>1. FlashType' /\ Layout'
    BY <1>11 DEF flash, FlashType, Layout
  <2>2. MarkInv'
    BY <1>1, <1>5, <1>11 DEF MarkInv, flash
  <2>3. EndOf(Target)' = EndOf(Target)
    BY <1>5, <1>11 DEF EndOf, flash
  <2>4. RoomInv'
    BY <1>1, <1>5, <1>9, <1>10, <1>3, <1>11, <2>3 DEF RoomInv, flash
  <2> QED
    BY <1>7, <1>8, <2>1, <2>2, <2>4
<1>12. CASE Put(Target, Record(Target, log[Source][k].id, log[Source][k].val, log[Source][k].size))
  <2>1. log[Source][k].val \in Vals \union {Blank} /\ log[Source][k].id \in Ids \union {NoId}
    BY <1>3, RecordFacts
  <2>2. /\ FlashType' /\ Layout' /\ ste' = ste /\ log'[Source] = log[Source]
        /\ Len(log'[Target]) = Len(log[Target]) + 1 /\ log'[Target] # <<>>
        /\ log'[Target][Len(log[Target]) + 1]
              = Record(Target, log[Source][k].id, log[Source][k].val, log[Source][k].size)
    BY <1>1, <1>4, <1>12, <2>1, CopyPut
  <2>3. MarkInv'
    BY <1>1, <1>5, <2>2 DEF MarkInv
  <2>4. EndOf(Target)' = EndOf(Target) + log[Source][k].size
    <3>1. EndOf(Target)' = log'[Target][Len(log'[Target])].at + log'[Target][Len(log'[Target])].size
      BY <1>5, <2>2 DEF EndOf
    <3> QED
      BY <2>2, <3>1 DEF Record
  <2>5. RoomInv'
    BY <1>1, <1>3, <1>5, <1>9, <1>10, <2>2, <2>4 DEF RoomInv
  <2> QED
    BY <1>7, <1>8, <2>2, <2>3, <2>5
<1> QED
  BY <1>2, <1>11, <1>12

LEMMA OldPlace ==
  ASSUME TypeOK, PlaceInv, MarkFull \/ EraseOld
  PROVE  TypeOK' /\ PlaceInv'
<1> USE DEF TypeOK, PlaceInv
<1>1. act \in Blocks /\ ste[Target] = "active" /\ req \notin {NoReq, Format} /\ req.val \in Vals
  BY CallsDiffer DEF MarkFull, EraseOld, CallInv, MarkInv, InWrite, InCopy
<1>2. Target \in Blocks /\ Source \in Blocks /\ Target # act /\ Source # Target
  BY <1>1, RingOfWrite
<1>3. CASE MarkFull
  <2>1. FlashType' /\ Layout' /\ ste'[Target] = "active" /\ log' = log
    BY <1>1, <1>2, <1>3, MarkFacts, LayoutMark DEF MarkFull
  <2>2. pc = "copy" /\ pc' = "eraseold" /\ UNCHANGED <<req, src, qty, res, before, cut, old, act>>
    BY <1>3 DEF MarkFull, Goto
  <2>3. CallType'
    BY <2>2 DEF CallType, Steps
  <2>4. CallInv' /\ MarkInv' /\ RoomInv'
    BY <1>1, <2>1, <2>2 DEF CallInv, MarkInv, RoomInv, Fresh, InWrite, InCopy, Target
  <2> QED
    BY <2>1, <2>3, <2>4
<1>4. CASE EraseOld
  <2>1. FlashType' /\ Layout' /\ ste'[Target] = "active" /\ log'[Target] = log[Target]
    BY <1>1, <1>2, <1>4, EraseFacts, LayoutErase DEF EraseOld
  <2>2. CASE Return("full") /\ cut' = cut
    <3>1. cut' \in BOOLEAN
      BY <2>2 DEF CallType
    <3> QED
      BY <2>1, <2>2, <3>1, ReturnPlace
  <2>3. CASE /\ qty > 1 /\ qty' = qty - 1 /\ act' = Target
             /\ pc' = IF Room(Target, req.val) THEN Store(old) ELSE "next"
             /\ src' = 0 /\ UNCHANGED <<req, old, res, before, cut>>
    <3>1. pc = "eraseold"
      BY <1>4 DEF EraseOld
    <3>2. \/ Room(Target, req.val) /\ pc' = Store(old)
          \/ pc' = "next"
      BY <2>3
    <3>3. pc' \in {"head", "inval", "next"} /\ (pc' = "inval" => old # NoAdr)
      BY <3>2 DEF Store
    <3>4. qty' \in 1 .. N - 1
      BY <1>1, <2>3, <3>1, Bounds DEF CallType
    <3>5. CallType'
      <4>1. qty' \in (IF req' \in {NoReq, Format} \/ pc' = "del" THEN {0} ELSE 1 .. N - 1)
        BY <1>1, <2>3, <3>3, <3>4
      <4> QED
        BY <1>2, <2>3, <3>3, <4>1, Bounds DEF CallType, Steps
    <3>6. CallInv'
      BY <1>1, <1>2, <2>3, <3>1, <3>3 DEF CallInv, Fresh, InWrite
    <3>7. MarkInv'
      BY <2>1, <2>3, <3>3 DEF MarkInv, InWrite, InCopy
    <3>8. RoomInv'
      BY <2>1, <2>3, <3>2, <3>3 DEF RoomInv, Room, EndOf
    <3> QED
      BY <2>1, <3>5, <3>6, <3>7, <3>8
  <2> QED
    BY <1>4, <2>2, <2>3 DEF EraseOld
<1> QED
  BY <1>3, <1>4

LEMMA Spoilt ==
  ASSUME NEW r \in Record_
  PROVE  /\ Invalid(r) \in Record_ /\ Invalid(r).at = r.at /\ Invalid(r).size = r.size
         /\ Invalid(r).ste = "invalid"
         /\ \A v \in Vals \union {Blank} :
               /\ [r EXCEPT !.val = v] \in Record_
               /\ [r EXCEPT !.val = v].at = r.at /\ [r EXCEPT !.val = v].size = r.size
               /\ [r EXCEPT !.val = v].ste = r.ste /\ [r EXCEPT !.val = v].id = r.id
               /\ [r EXCEPT !.val = v].val = v
  BY DEF Invalid, Record_

(* Programming over a record moves no end.                                  *)
LEMMA OverEnds ==
  ASSUME FlashType, Layout, NEW b \in Blocks, NEW k \in DOMAIN log[b], NEW r \in Record_,
         Over(b, k, r),
         r.at = log[b][k].at, r.size = log[b][k].size
  PROVE  \A c \in Blocks : EndOf(c)' = EndOf(c)
<1> SUFFICES ASSUME NEW c \in Blocks
             PROVE  (IF log'[c] = <<>> THEN 0
                     ELSE log'[c][Len(log'[c])].at + log'[c][Len(log'[c])].size)
                    = IF log[c] = <<>> THEN 0
                      ELSE log[c][Len(log[c])].at + log[c][Len(log[c])].size
  BY DEF EndOf
<1>1. CASE c # b
  BY <1>1, OverFacts
<1>2. CASE c = b
  <2>1. Len(log'[b]) = Len(log[b]) /\ FlashType'
    BY OverFacts
  <2>2. log[b] # <<>> /\ Len(log[b]) \in DOMAIN log[b]
    BY LogFacts
  <2>3. log'[b] # <<>>
    BY <2>1, <2>2, LogFacts
  <2>4. \A j \in DOMAIN log[b] : log'[b][j].at = log[b][j].at /\ log'[b][j].size = log[b][j].size
    BY OverFacts
  <2> QED
    BY <1>2, <2>1, <2>2, <2>3, <2>4
<1> QED
  BY <1>1, <1>2

LEMMA InvalidatePlace ==
  ASSUME TypeOK, PlaceInv, Invalidate
  PROVE  TypeOK' /\ PlaceInv'
<1> USE DEF TypeOK, PlaceInv
<1>1. pc = "inval" /\ pc' = "head" /\ UNCHANGED <<req, src, qty, res, before, cut, ste, old, act>>
  BY DEF Invalidate, Goto
<1>2. act \in Blocks /\ old[1] \in Blocks /\ ste[act] = "active"
  BY <1>1 DEF CallType, CallInv, MarkInv, InWrite, InCopy
<1>3. PICK k \in DOMAIN log[old[1]] :
        log' = [log EXCEPT ![old[1]][k] =
                   IF log[old[1]][k].at = old[2] THEN Invalid(log[old[1]][k])
                   ELSE [log[old[1]][k] EXCEPT !.val = Blank]]
  BY DEF Invalidate
<1> DEFINE r == log[old[1]][k]
           n == IF r.at = old[2] THEN Invalid(r) ELSE [r EXCEPT !.val = Blank]
<1>4. r \in Record_
  BY <1>2, LogFacts
<1>5. n \in Record_ /\ n.at = r.at /\ n.size = r.size
  BY <1>4, Spoilt
<1>6. Over(old[1], k, n)
  BY <1>1, <1>3 DEF Over
<1> HIDE DEF n
<1>7. FlashType' /\ Layout' /\ \A c \in Blocks : EndOf(c)' = EndOf(c)
  <2>1. FlashType'
    BY <1>1, <1>2, <1>5, <1>6, OverFacts
  <2>2. Layout'
    BY <1>1, <1>2, <1>5, <1>6, LayoutOver
  <2>3. \A c \in Blocks : EndOf(c)' = EndOf(c)
    BY <1>1, <1>2, <1>5, <1>6, OverEnds
  <2> QED
    BY <2>1, <2>2, <2>3
<1>8. CallType'
  BY <1>1 DEF CallType, Steps
<1>9. CallInv' /\ MarkInv'
  BY <1>1, <1>2 DEF CallInv, MarkInv, Fresh, InWrite, InCopy
<1>10. RoomInv'
  <2>1. EndOf(act)' = EndOf(act)
    <3>1. \A c \in Blocks : act' = c => EndOf(act)' = EndOf(c)'
      BY DEF EndOf
    <3> QED
      BY <1>1, <1>2, <1>7, <3>1
  <2> QED
    BY <1>1, <2>1 DEF RoomInv, Room
<1> QED
  BY <1>7, <1>8, <1>9, <1>10

LEMMA HeaderPut ==
  ASSUME TypeOK, PlaceInv, Header
  PROVE  /\ FlashType' /\ Layout' /\ act \in Blocks /\ req.id \in Ids
         /\ ste' = ste /\ ste[act] = "active"
         /\ \A c \in Blocks \ {act} : log'[c] = log[c]
         /\ DOMAIN log'[act] = 1 .. Len(log[act]) + 1
         /\ Len(log'[act]) = Len(log[act]) + 1 /\ log'[act] # <<>>
         /\ \A j \in DOMAIN log[act] : log'[act][j] = log[act][j]
         /\ log'[act][Len(log[act]) + 1] = Record(act, req.id, Blank, SizeOf[req.val])
<1> USE DEF TypeOK, PlaceInv
<1>1. /\ act \in Blocks /\ ste[act] = "active"
      /\ req \in [id : Ids, val : Vals \union {None}] /\ req.val \in Vals
      /\ Room(act, req.val)
  BY CallsDiffer DEF Header, CallType, CallInv, MarkInv, RoomInv, InWrite, InCopy
<1> DEFINE n == SizeOf[req.val]
           r == Record(act, req.id, Blank, n)
<1>2. n \in Nat \ {0} /\ EndOf(act) \in Nat /\ EndOf(act) + n <= CAP
  BY <1>1, SizeNat, EndFacts, Bounds DEF Room
<1>3. r \in Record_ /\ r.at = EndOf(act) /\ r.size = n
  BY <1>1, <1>2, NewRecord
<1>4. Put(act, r)
  BY DEF Header
<1> HIDE DEF r, n
<1>5. Layout'
  BY <1>1, <1>2, <1>3, <1>4, LayoutPut
<1>6. /\ FlashType' /\ ste' = ste
      /\ \A c \in Blocks \ {act} : log'[c] = log[c]
      /\ DOMAIN log'[act] = 1 .. Len(log[act]) + 1
      /\ Len(log'[act]) = Len(log[act]) + 1 /\ log'[act] # <<>>
      /\ \A j \in DOMAIN log[act] : log'[act][j] = log[act][j]
      /\ log'[act][Len(log[act]) + 1] = r
  BY <1>1, <1>3, <1>4, PutFacts
<1> QED
  BY <1>1, <1>5, <1>6 DEF r, n

LEMMA HeaderPlace ==
  ASSUME TypeOK, PlaceInv, Header
  PROVE  TypeOK' /\ PlaceInv'
<1> USE DEF TypeOK, PlaceInv
<1>1. pc = "head" /\ pc' = "data" /\ UNCHANGED <<req, src, qty, res, before, cut, old, act>>
  BY DEF Header, Goto
<1>2. FlashType' /\ Layout' /\ act \in Blocks /\ ste' = ste /\ ste[act] = "active" /\ log'[act] # <<>>
  BY HeaderPut
<1>3. CallType'
  BY <1>1 DEF CallType, Steps
<1>4. CallInv' /\ MarkInv' /\ RoomInv'
  BY <1>1, <1>2 DEF CallInv, MarkInv, RoomInv, Fresh, InWrite, InCopy
<1> QED
  BY <1>2, <1>3, <1>4

(* What the last step of a write and that of a delete leave in the log.     *)
LEMMA DataOver ==
  ASSUME TypeOK, PlaceInv, Data
  PROVE  /\ FlashType' /\ Layout' /\ act \in Blocks /\ ste' = ste
         /\ req \in [id : Ids, val : Vals \union {None}] /\ req.val \in Vals
         /\ Len(log[act]) \in DOMAIN log[act]
         /\ \A c \in Blocks : DOMAIN log'[c] = DOMAIN log[c]
         /\ \A c \in Blocks : \A j \in DOMAIN log[c] :
               c # act \/ j # Len(log[act]) => log'[c][j] = log[c][j]
         /\ log'[act][Len(log[act])] = [log[act][Len(log[act])] EXCEPT !.val = req.val]
<1> USE DEF TypeOK, PlaceInv
<1>1. pc = "data" /\ ste' = ste /\ log' = [log EXCEPT ![act][Len(log[act])].val = req.val]
  BY DEF Data
<1>2. /\ act \in Blocks /\ req \in [id : Ids, val : Vals \union {None}] /\ req.val \in Vals
      /\ log[act] # <<>>
  BY <1>1, CallsDiffer DEF CallType, CallInv, RoomInv, InWrite
<1> DEFINE n == Len(log[act])
           r == [log[act][n] EXCEPT !.val = req.val]
<1>3. n \in DOMAIN log[act] /\ log[act][n] \in Record_
  BY <1>2, LogFacts
<1>4. r \in Record_ /\ r.at = log[act][n].at /\ r.size = log[act][n].size
  BY <1>2, <1>3, Spoilt
<1>5. Over(act, n, r)
  BY <1>1 DEF Over
<1> HIDE DEF r, n
<1>6. /\ FlashType'
      /\ \A c \in Blocks \ {act} : log'[c] = log[c]
      /\ DOMAIN log'[act] = DOMAIN log[act]
      /\ \A j \in DOMAIN log[act] \ {n} : log'[act][j] = log[act][j]
      /\ log'[act][n] = r
  BY <1>1, <1>2, <1>3, <1>4, <1>5, OverFacts
<1>7. Layout'
  BY <1>1, <1>2, <1>3, <1>4, <1>5, LayoutOver
<1> QED
  BY <1>1, <1>2, <1>3, <1>6, <1>7 DEF r, n

LEMMA RemoveOver ==
  ASSUME TypeOK, PlaceInv, Remove
  PROVE  /\ FlashType' /\ Layout' /\ ste' = ste /\ old[1] \in Blocks
         /\ \A c \in Blocks : DOMAIN log'[c] = DOMAIN log[c]
         /\ \E k \in DOMAIN log[old[1]] :
               /\ log[old[1]][k].at = old[2]
               /\ \A c \in Blocks : \A j \in DOMAIN log[c] :
                     c # old[1] \/ j # k => log'[c][j] = log[c][j]
               /\ log'[old[1]][k].ste = "invalid"
<1> USE DEF TypeOK, PlaceInv
<1>1. pc = "del" /\ ste' = ste
  BY DEF Remove
<1>2. PICK k \in DOMAIN log[old[1]] :
        log[old[1]][k].at = old[2] /\ log' = [log EXCEPT ![old[1]][k] = Invalid(@)]
  BY DEF Remove
<1>3. old[1] \in Blocks
  BY <1>1 DEF CallType, CallInv
<1> DEFINE r == Invalid(log[old[1]][k])
<1>4. log[old[1]][k] \in Record_
  BY <1>3, LogFacts
<1>5. r \in Record_ /\ r.at = log[old[1]][k].at /\ r.size = log[old[1]][k].size /\ r.ste = "invalid"
  BY <1>4, Spoilt
<1>6. Over(old[1], k, r)
  BY <1>1, <1>2 DEF Over
<1> HIDE DEF r
<1>7. /\ FlashType'
      /\ \A c \in Blocks \ {old[1]} : log'[c] = log[c]
      /\ DOMAIN log'[old[1]] = DOMAIN log[old[1]]
      /\ \A j \in DOMAIN log[old[1]] \ {k} : log'[old[1]][j] = log[old[1]][j]
      /\ log'[old[1]][k] = r
  BY <1>1, <1>3, <1>5, <1>6, OverFacts
<1>8. Layout'
  BY <1>1, <1>3, <1>5, <1>6, LayoutOver
<1> QED
  BY <1>1, <1>2, <1>3, <1>5, <1>7, <1>8

LEMMA EndPlace ==
  ASSUME TypeOK, PlaceInv, Data \/ Remove
  PROVE  TypeOK' /\ PlaceInv'
<1>1. FlashType' /\ Layout'
  BY DataOver, RemoveOver
<1>2. Return("ok") /\ cut' \in BOOLEAN
  BY DEF Data, Remove, TypeOK, CallType
<1> QED
  BY <1>1, <1>2, ReturnPlace

LEMMA BeginPlace ==
  ASSUME TypeOK, PlaceInv, BeginFormat \/ \E i \in Ids : Delete(i)
  PROVE  TypeOK' /\ PlaceInv'
<1> USE DEF TypeOK, PlaceInv
<1>1. /\ log' = log /\ ste' = ste /\ before' = View
      /\ UNCHANGED <<act, qty, res, cut>> /\ qty = 0
  BY DEF BeginFormat, Delete, flash, MayWrite, CallType, CallInv
<1>2. FlashType' /\ Layout'
  BY <1>1 DEF FlashType, Layout
<1>3. before' \in [Ids -> Vals \union {None, Blank}]
  BY <1>1, ViewType
<1>4. CASE BeginFormat
  <2>1. pc' = "fmt" /\ req' = Format /\ src' = 0 /\ old' = old /\ 0 \in Blocks
    BY <1>4, Bounds DEF BeginFormat, Blocks
  <2>2. CallType'
    BY <1>1, <1>3, <2>1, Bounds DEF CallType, Steps
  <2>3. CallInv' /\ MarkInv' /\ RoomInv'
    BY <2>1, CallsDiffer DEF CallInv, MarkInv, RoomInv, Fresh, InWrite, InCopy
  <2> QED
    BY <1>2, <2>2, <2>3
<1>5. ASSUME NEW i \in Ids, Delete(i) PROVE TypeOK' /\ PlaceInv'
  <2>1. /\ Hits(i) # {} /\ pc' = "del" /\ req' = [id |-> i, val |-> None]
        /\ old' = AdrOf(i) /\ src' = src
    BY <1>5 DEF Delete
  <2>2. old' \in (Blocks \X (0 .. CAP - 1)) \union {NoAdr} /\ old' # NoAdr
    BY <2>1, AdrFacts
  <2>3. req' \in [id : Ids, val : Vals \union {None}] /\ req' # NoReq /\ req' # Format
        /\ req'.val = None
    BY <2>1, CallsDiffer
  <2>4. CallType'
    BY <1>1, <1>3, <2>1, <2>2, <2>3 DEF CallType, Steps
  <2>5. CallInv' /\ MarkInv' /\ RoomInv'
    BY <2>1, <2>2, <2>3 DEF CallInv, MarkInv, RoomInv, Fresh, InWrite, InCopy
  <2> QED
    BY <1>2, <2>4, <2>5
<1> QED
  BY <1>4, <1>5

LEMMA FormatPlace ==
  ASSUME TypeOK, PlaceInv, FormatErase \/ FormatMark
  PROVE  TypeOK' /\ PlaceInv'
<1> USE DEF TypeOK, PlaceInv
<1>1. CASE FormatErase
  <2>1. /\ pc = "fmt" /\ src \in Blocks /\ req = Format
        /\ src' = src + 1 /\ UNCHANGED <<req, old, act, qty, res, before, cut>>
        /\ \/ src + 1 = N /\ pc' = "fmtmark"
           \/ src + 1 # N /\ pc' = "fmt"
    BY <1>1 DEF FormatErase, CallInv
  <2>2. FlashType' /\ Layout'
    BY <1>1, <2>1, EraseFacts, LayoutErase DEF FormatErase
  <2>3. src' \in 0 .. N /\ (pc' = "fmt" => src' \in Blocks)
    BY <2>1, Bounds DEF Blocks
  <2>4. CallType'
    BY <2>1, <2>3 DEF CallType, Steps
  <2>5. CallInv' /\ MarkInv' /\ RoomInv'
    BY <2>1, <2>3, CallsDiffer DEF CallInv, MarkInv, RoomInv, Fresh, InWrite, InCopy
  <2> QED
    BY <2>2, <2>4, <2>5
<1>2. CASE FormatMark
  <2>1. FlashType' /\ Layout'
    <3>1. 0 \in Blocks
      BY Bounds DEF Blocks
    <3> QED
      BY <1>2, <3>1, MarkFacts, LayoutMark DEF FormatMark
  <2>2. Return("ok") /\ cut' \in BOOLEAN
    BY <1>2 DEF FormatMark, CallType
  <2> QED
    BY <2>1, <2>2, ReturnPlace
<1> QED
  BY <1>1, <1>2

LEMMA CutPlace ==
  ASSUME TypeOK, PlaceInv, Cut
  PROVE  TypeOK' /\ PlaceInv'
<1> USE DEF TypeOK, PlaceInv
<1>1. FlashType' /\ Layout'
  <2>1. CASE UNCHANGED flash
    BY <2>1 DEF flash, FlashType, Layout
  <2>2. ASSUME pc = "copy", NEW k \in Copyable,
               Put(Target, Record(Target, log[Source][k].id, Blank, log[Source][k].size))
        PROVE  FlashType' /\ Layout'
    BY <2>2, CopyPut
  <2> QED
    BY <2>1, <2>2 DEF Cut
<1>2. Return("failed") /\ cut' \in BOOLEAN
  BY DEF Cut, CallType
<1> QED
  BY <1>1, <1>2, ReturnPlace

LEMMA PlaceStep == TypeOK /\ PlaceInv /\ [Next]_vars => TypeOK' /\ PlaceInv'
<1> SUFFICES ASSUME TypeOK, PlaceInv, [Next]_vars PROVE TypeOK' /\ PlaceInv'
  OBVIOUS
<1>1. CASE \E i \in Ids, v \in Vals : Write(i, v)
  BY <1>1, WritePlace
<1>2. CASE EraseFirst \/ MarkFirst
  BY <1>2, FirstPlace
<1>3. CASE EraseNext \/ MarkNext
  BY <1>3, TurnPlace
<1>4. CASE Copy
  BY <1>4, CopyPlace
<1>5. CASE MarkFull \/ EraseOld
  BY <1>5, OldPlace
<1>6. CASE Invalidate
  BY <1>6, InvalidatePlace
<1>7. CASE Header
  BY <1>7, HeaderPlace
<1>8. CASE Data \/ Remove
  BY <1>8, EndPlace
<1>9. CASE BeginFormat \/ \E i \in Ids : Delete(i)
  BY <1>9, BeginPlace
<1>10. CASE FormatErase \/ FormatMark
  BY <1>10, FormatPlace
<1>11. CASE Cut
  BY <1>11, CutPlace
<1>12. CASE UNCHANGED vars
  <2>1. TypeOK'
    BY <1>12 DEF vars, TypeOK, FlashType, CallType
  <2>2. Layout' /\ CallInv' /\ MarkInv' /\ RoomInv'
    BY <1>12 DEF vars, PlaceInv, Layout, CallInv, MarkInv, RoomInv, Target, Source, Room, EndOf
  <2> QED
    BY <2>1, <2>2 DEF PlaceInv
<1> QED
  BY <1>1, <1>2, <1>3, <1>4, <1>5, <1>6, <1>7, <1>8, <1>9, <1>10, <1>11, <1>12 DEF Next

LEMMA Placed == Spec => [](TypeOK /\ PlaceInv)
  BY SfsInit, PlaceStep, PTL DEF Spec

(* Every variable keeps its type, whatever fails and is torn, and a write   *)
(* in progress has a round of the ring left.                                *)
THEOREM SfsTyped == Spec => []TypeOK
  BY Placed, PTL

(* No record that is written or copied, in a ring of two blocks or more,    *)
(* of any size and with any failures, reaches past the end of its block.    *)
THEOREM SfsFits == Spec => []Fits
<1>1. TypeOK /\ PlaceInv => Fits
  BY EndFacts DEF TypeOK, PlaceInv, Layout, Fits
<1> QED
  BY <1>1, Placed, PTL

-----------------------------------------------------------------------------
(* Under CleanRestarts: who is active.                                      *)
LEMMA ActiveNext ==
  ASSUME FlashType, NEW b \in Blocks
  PROVE  /\ MarkAs(b, "active") => Active' = Active \union {b}
         /\ MarkAs(b, "full") => Active' = Active \ {b}
         /\ Erase(b) => Active' = Active \ {b}
         /\ ste' = ste => Active' = Active
<1>1. ASSUME MarkAs(b, "active") PROVE Active' = Active \union {b}
  BY <1>1, MarkFacts DEF Active
<1>2. ASSUME MarkAs(b, "full") PROVE Active' = Active \ {b}
  BY <1>2, MarkFacts DEF Active
<1>3. ASSUME Erase(b) PROVE Active' = Active \ {b}
  BY <1>3, EraseFacts DEF Active
<1> QED
  BY <1>1, <1>2, <1>3 DEF Active

(* The search finds the block that leads, also where the turn to the next   *)
(* was cut before the first copy.                                           *)
LEMMA LeadsActive ==
  ASSUME N > 2, NEW a \in Blocks, Leads(a)
  PROVE  ActiveBlock = a
<1>1. /\ a \in Active /\ Active \subseteq {a, NextBlk(a)}
      /\ NextBlk(a) = (IF a = N - 1 THEN 0 ELSE a + 1) /\ a \in Nat
  BY NextIs, Bounds DEF Leads, Blocks
<1>2. CASE {0, N - 1} \subseteq Active
  <2>1. ActiveBlock = N - 1
    BY <1>2 DEF ActiveBlock
  <2>2. a = N - 1
    BY <1>1, <1>2, Bounds
  <2> QED
    BY <2>1, <2>2
<1>3. CASE ~ ({0, N - 1} \subseteq Active)
  <2>1. ActiveBlock \in Active /\ ActiveBlock <= a
    BY <1>1, <1>3, ActiveFacts
  <2>2. CASE ActiveBlock = NextBlk(a)
    <3>1. a = N - 1 => {0, N - 1} \subseteq Active
      BY <1>1, <2>1, <2>2
    <3>2. NextBlk(a) = a + 1
      BY <1>1, <1>3, <3>1
    <3> QED
      BY <1>1, <2>1, <2>2, <3>2
  <2> QED
    BY <1>1, <2>1, <2>2
<1> QED
  BY <1>2, <1>3

LEMMA EraseEmpty ==
  ASSUME FlashType, NEW b \in Blocks, Erase(b), log[b] = <<>>
  PROVE  log' = log
  BY DEF Erase, FlashType

LEMMA StillEmpty ==
  ASSUME FlashType, FlashType', NEW b \in Blocks, DOMAIN log'[b] = DOMAIN log[b]
  PROVE  log'[b] = <<>> <=> log[b] = <<>>
<1>1. log[b] \in Seq(Record_) /\ log'[b] \in Seq(Record_)
  BY DEF FlashType
<1>2. \A s \in Seq(Record_) : s = <<>> <=> DOMAIN s = {}
  BY EmptySeq, LenProperties
<1> QED
  BY <1>1, <1>2

(* Two records of a block do not overlap.                                   *)
LEMMA Apart ==
  ASSUME FlashType, Layout, NEW b \in Blocks, NEW j \in DOMAIN log[b], NEW k \in DOMAIN log[b],
         log[b][k].at <= log[b][j].at, log[b][j].at < log[b][k].at + log[b][k].size
  PROVE  j = k
<1>1. /\ j \in Nat /\ k \in Nat /\ j > 0 /\ k > 0
      /\ log[b][j].at \in Nat /\ log[b][k].at \in Nat
      /\ log[b][j].size \in Nat /\ log[b][j].size > 0
  BY LogFacts, RecordFacts
<1>2. CASE j < k
  <2>1. j \in 1 .. k - 1
    BY <1>1, <1>2
  <2>2. log[b][j].at + log[b][j].size <= log[b][k].at
    BY <2>1 DEF Layout
  <2> QED
    BY <1>1, <2>2
<1>3. CASE k < j
  <2>1. k \in 1 .. j - 1
    BY <1>1, <1>3
  <2>2. log[b][k].at + log[b][k].size <= log[b][j].at
    BY <2>1 DEF Layout
  <2>3. log[b][k].size \in Nat
    BY LogFacts, RecordFacts
  <2> QED
    BY <1>1, <2>2, <2>3
<1> QED
  BY <1>1, <1>2, <1>3

LEMMA SameAt ==
  ASSUME FlashType, Layout, NEW b \in Blocks, NEW j \in DOMAIN log[b], NEW k \in DOMAIN log[b],
         log[b][k].at = log[b][j].at
  PROVE  j = k
<1>1. log[b][k].at \in Nat /\ log[b][k].size \in Nat /\ log[b][k].size > 0
  BY LogFacts, RecordFacts
<1> QED
  BY <1>1, Apart

-----------------------------------------------------------------------------
(* What a step leaves of the valid records: all of them, or some.           *)
LEMMA SameLog ==
  ASSUME log' = log
  PROVE  /\ \A S : Alone(S) => Alone(S)'
         /\ \A i, v : Agrees(i, v) => Agrees(i, v)'
         /\ \A i, v : Shows(i, v) => Shows(i, v)'
         /\ Empty => Empty'
<1>1. \A S : Alone(S) => Alone(S)'
  BY DEF Alone, Valid
<1>2. \A i, v : Agrees(i, v) => Agrees(i, v)'
  BY DEF Agrees, Valid
<1>3. \A i, v : Shows(i, v) => Shows(i, v)'
  BY <1>2 DEF Shows, Valid
<1> QED
  BY <1>1, <1>2, <1>3 DEF Empty

Shrinks ==
    \A b \in Blocks : \A k \in DOMAIN log'[b] : Valid(b, k)' =>
        /\ Valid(b, k)
        /\ log'[b][k].id = log[b][k].id /\ log'[b][k].val = log[b][k].val

LEMMA ShrinksTo ==
  ASSUME Shrinks
  PROVE  /\ Alone(Blocks) => Alone(Blocks)'
         /\ \A i, v : Agrees(i, v) => Agrees(i, v)'
<1>1. Alone(Blocks) => Alone(Blocks)'
  BY DEF Shrinks, Alone, Valid
<1>2. \A i, v : Agrees(i, v) => Agrees(i, v)'
  BY DEF Shrinks, Agrees, Valid
<1> QED
  BY <1>1, <1>2

LEMMA EraseShrinks ==
  ASSUME FlashType, NEW b \in Blocks, Erase(b)
  PROVE  Shrinks
<1> SUFFICES ASSUME NEW c \in Blocks, NEW k \in DOMAIN log'[c], Valid(c, k)'
             PROVE  /\ Valid(c, k)
                    /\ log'[c][k].id = log[c][k].id /\ log'[c][k].val = log[c][k].val
  BY DEF Shrinks
<1>1. c # b
  BY EraseFacts
<1> QED
  BY <1>1, EraseFacts DEF Valid

-----------------------------------------------------------------------------
(* Each step keeps StoreInv.                                                *)
LEMMA StoreInit == Init => StoreInv
<1> SUFFICES ASSUME Init PROVE StoreInv
  OBVIOUS
<1>1. pc = "idle" /\ Empty /\ cut = FALSE
  BY DEF Init, Empty
<1>2. RingInv
  <2>1. 0 \in Blocks /\ Active = {0}
    BY Bounds DEF Init, Active, Blocks
  <2>2. Leads(0)
    BY <1>1, <2>1, NextInRing DEF Leads, Empty
  <2> QED
    BY <1>1, <2>1, <2>2 DEF RingInv, Fresh, InWrite, InCopy
<1>3. OnceInv
  BY <1>1 DEF OnceInv, InCopy, Alone, Empty
<1>4. OldInv /\ KeptInv
  BY <1>1 DEF OldInv, KeptInv, Fresh, InWrite, InCopy
<1> QED
  BY <1>2, <1>3, <1>4 DEF StoreInv

(* The end of a call, and of one that failed.                               *)
LEMMA ReturnStore ==
  ASSUME NEW r, Return(r), cut' \in BOOLEAN,
         ~ cut' => Alone(Blocks)' /\ (NoneActive' \/ \E a \in Blocks : Leads(a)')
  PROVE  StoreInv'
<1>1. pc' = "idle"
  BY DEF Return
<1>2. RingInv' /\ OnceInv'
  BY <1>1 DEF RingInv, OnceInv, Fresh, InWrite, InCopy
<1>3. OldInv' /\ KeptInv'
  BY <1>1 DEF OldInv, KeptInv, Fresh, InWrite, InCopy
<1> QED
  BY <1>2, <1>3 DEF StoreInv

LEMMA EmptyShows ==
  ASSUME Empty
  PROVE  /\ Alone(Blocks)
         /\ \A i, v : Agrees(i, v)
         /\ \A i, v : Shows(i, v) => v = None
         /\ \A i : Shows(i, None)
  BY DEF Empty, Alone, Agrees, Shows

LEMMA WriteStore ==
  ASSUME CleanRestarts, TypeOK, PlaceInv, StoreInv, NEW i \in Ids, NEW v \in Vals, Write(i, v)
  PROVE  StoreInv'
<1> USE DEF TypeOK, PlaceInv, StoreInv
<1>1. /\ pc = "idle" /\ cut = FALSE /\ log' = log /\ ste' = ste
      /\ req'.id = i /\ before' = View /\ old' = AdrOf(i) /\ act' = ActiveBlock
      /\ cut' = cut
  BY DEF Write, MayWrite, flash, CallType
<1>2. \/ Active = {} /\ pc' = "erase0"
      \/ Active # {} /\ pc' = "next"
      \/ Active # {} /\ pc' = Store(old')
  <2>1. act' = NoBlk <=> Active = {}
    BY <1>1, ActiveFacts, Bounds DEF Blocks, NoBlk
  <2> QED
    BY <2>1 DEF Write
<1>3. pc' \in {"erase0", "next", "inval", "head"}
      /\ (pc' = "head" => old' = NoAdr)
  BY <1>2 DEF Store
<1>4. Alone(Blocks) /\ Alone(Blocks)'
  BY <1>1, SameLog DEF OnceInv
<1>5. Active' = Active
  BY <1>1 DEF Active
<1>6. RingInv'
  <2>1. CASE Active = {}
    <3>1. Empty
      BY <1>1, <2>1 DEF RingInv, NoneActive, Leads
    <3> QED
      BY <1>1, <1>2, <1>3, <1>5, <2>1, <3>1, SameLog
      DEF RingInv, NoneActive, Fresh, InWrite, InCopy, Store
  <2>2. CASE Active # {}
    <3>1. PICK a \in Blocks : Leads(a)
      BY <1>1, <2>2 DEF RingInv, NoneActive
    <3>2. act' = a
      BY <1>1, <3>1, LeadsActive DEF CleanRestarts
    <3>3. Leads(act)'
      BY <1>1, <1>5, <3>1, <3>2 DEF Leads
    <3> QED
      BY <1>1, <1>2, <1>3, <2>2, <3>3 DEF RingInv, Fresh, InWrite, InCopy, Store
  <2> QED
    BY <2>1, <2>2
<1>7. OnceInv'
  BY <1>3, <1>4 DEF OnceInv, InCopy
<1>8. OldInv'
  <2>1. old' # NoAdr => \E k \in DOMAIN log'[old'[1]] : OldAt(old[1], k)'
    BY <1>1, AdrFacts DEF OldAt, Valid
  <2>2. old' = NoAdr => \A b \in Blocks : \A k \in DOMAIN log[b] :
                            Valid(b, k) => log[b][k].id # i
    BY <1>1, AdrFacts, HitFacts
  <2>3. pc' \in Fresh => old' = NoAdr
    <3>1. Active = {} => Empty
      BY <1>1 DEF RingInv, NoneActive, Leads
    <3>2. Active = {} => Hits(i) = {}
      BY <3>1, HitFacts DEF Empty
    <3> QED
      BY <1>1, <1>2, <1>3, <3>2, AdrFacts DEF Fresh, Store
  <2> QED
    BY <1>1, <1>3, <2>1, <2>2, <2>3 DEF OldInv, InCopy, Fresh, Valid
<1>9. KeptInv'
  <2>1. \A j \in Ids : Shows(j, before'[j])
    BY <1>1, <1>4, AloneShows DEF View
  <2>2. \A j \in Ids : Shows(j, before[j])'
    <3> SUFFICES ASSUME NEW j \in Ids PROVE Shows(j, before[j])'
      OBVIOUS
    <3>1. Shows(j, before'[j])
      BY <2>1
    <3> QED
      BY <1>1, <3>1 DEF Shows, Agrees, Valid
  <2>3. Agrees(i, before[i])'
    BY <2>2 DEF Shows
  <2> QED
    BY <1>1, <1>3, <2>2, <2>3 DEF KeptInv, Fresh, InWrite
<1> QED
  BY <1>6, <1>7, <1>8, <1>9

(* A step that only marks or erases what is empty leaves all that is said   *)
(* of the records.                                                          *)
LEMMA KeptSame ==
  ASSUME KeptInv, log' = log, before' = before, req' = req,
         pc \in (Fresh \union InWrite) \ {"data"}, pc' \in (Fresh \union InWrite) \ {"data"}
  PROVE  KeptInv'
<1>1. \A i : Shows(i, before[i]) => Shows(i, before[i])'
  BY SameLog DEF Shows, Agrees, Valid
<1>2. Agrees(req.id, before[req.id]) => Agrees(req.id, before[req.id])'
  BY DEF Agrees, Valid
<1> QED
  BY <1>1, <1>2 DEF KeptInv, Fresh, InWrite

LEMMA FirstStore ==
  ASSUME CleanRestarts, TypeOK, PlaceInv, StoreInv, EraseFirst \/ MarkFirst
  PROVE  StoreInv'
<1> USE DEF TypeOK, PlaceInv, StoreInv
<1>1. /\ 0 \in Blocks /\ pc \in Fresh /\ NoneActive /\ old = NoAdr /\ ~ cut
      /\ UNCHANGED <<req, before, cut, old>>
  BY Bounds DEF EraseFirst, MarkFirst, Goto, Fresh, Blocks, RingInv, OldInv
<1>2. log' = log
  BY <1>1, EraseEmpty DEF EraseFirst, MarkFirst, MarkAs, NoneActive, Empty
<1>3. Empty' /\ Alone(Blocks)'
  <2>1. Alone(Blocks)
    BY <1>1, EmptyShows DEF NoneActive
  <2> QED
    BY <1>1, <1>2, <2>1, SameLog DEF NoneActive
<1>4. pc' \in {"mark0", "next", "head"}
  BY <1>1 DEF EraseFirst, MarkFirst, Goto, Store
<1>5. KeptInv'
  BY <1>1, <1>2, <1>4, KeptSame DEF Fresh, InWrite
<1>6. OnceInv' /\ OldInv'
  BY <1>1, <1>3, <1>4 DEF OnceInv, OldInv, InCopy, Fresh, Empty
<1>7. CASE EraseFirst
  <2>1. Active' = {} /\ pc' = "mark0"
    BY <1>1, <1>7, ActiveNext DEF EraseFirst, Goto, NoneActive
  <2>2. RingInv'
    BY <1>1, <1>3, <2>1 DEF RingInv, NoneActive, Fresh, InWrite, InCopy
  <2> QED
    BY <1>5, <1>6, <2>2
<1>8. CASE MarkFirst
  <2>1. Active' = {0} /\ act' = 0 /\ pc' \in {"next", "head"}
    BY <1>1, <1>8, ActiveNext DEF MarkFirst, Goto, NoneActive, Store
  <2>2. Leads(act)'
    <3>1. Leads(0)'
      BY <1>1, <1>3, <2>1, NextInRing DEF Leads, Empty
    <3> QED
      BY <2>1, <3>1 DEF Leads
  <2>3. RingInv'
    BY <1>1, <2>1, <2>2 DEF RingInv, Fresh, InWrite, InCopy
  <2> QED
    BY <1>5, <1>6, <2>3
<1> QED
  BY <1>7, <1>8

LEMMA TurnStore ==
  ASSUME CleanRestarts, TypeOK, PlaceInv, StoreInv, EraseNext \/ MarkNext
  PROVE  StoreInv'
<1> USE DEF TypeOK, PlaceInv, StoreInv
<1>1. /\ pc \in {"next", "mark"} /\ act \in Blocks /\ Leads(act) /\ ~ cut
      /\ UNCHANGED <<req, before, cut, old, act>>
  BY DEF EraseNext, MarkNext, Goto, CallInv, RingInv, InWrite, InCopy
<1>2. /\ Target \in Blocks /\ Source \in Blocks /\ Target # act /\ Source # Target
      /\ Target' = Target /\ Source' = Source
  BY <1>1, RingOfWrite DEF Target, Source
<1>3. /\ act \in Active /\ Active \subseteq {act, Target} /\ log[Target] = <<>>
  BY <1>1 DEF Leads, Target
<1>4. log' = log
  BY <1>2, <1>3, EraseEmpty DEF EraseNext, MarkNext, MarkAs
<1>5. Alone(Blocks) /\ Alone(Blocks)'
  BY <1>1, <1>4, SameLog DEF OnceInv, InCopy
<1>6. pc' \in {"mark", "copy"}
  BY DEF EraseNext, MarkNext, Goto
<1>7. KeptInv'
  BY <1>1, <1>4, <1>6, KeptSame DEF Fresh, InWrite
<1>8. CASE EraseNext
  <2>1. Active' = Active \ {Target} /\ pc' = "mark"
    BY <1>2, <1>8, ActiveNext DEF EraseNext, Goto
  <2>2. Leads(act)'
    BY <1>1, <1>2, <1>3, <1>4, <2>1 DEF Leads, Target
  <2>3. RingInv'
    BY <1>1, <2>1, <2>2 DEF RingInv, Fresh, InWrite, InCopy
  <2>4. OnceInv'
    BY <1>5, <2>1 DEF OnceInv, InCopy
  <2>5. OldInv'
    BY <1>1, <1>2, <1>4, <2>1 DEF OldInv, OldAt, Valid, InCopy, Fresh
  <2> QED
    BY <1>7, <2>3, <2>4, <2>5
<1>9. CASE MarkNext
  <2>1. Active' = Active \union {Target} /\ pc' = "copy" /\ src' = 1
    BY <1>2, <1>9, ActiveNext DEF MarkNext
  <2>2. RingInv'
    BY <1>1, <1>2, <1>3, <1>4, <2>1 DEF RingInv, Fresh, InWrite, InCopy
  <2>3. \A k \in DOMAIN log[Source] : k \in Nat \ {0}
    BY <1>2, LogFacts
  <2>4. CopyInv'
    <3>1. Alone(Blocks \ {Target})' /\ Alone({Target})'
      BY <1>2, <1>5 DEF Alone
    <3>2. DOMAIN log'[Target] = {}
      BY <1>3, <1>4
    <3>3. \A k \in DOMAIN log'[Source] : ~ (k < src')
      BY <1>4, <2>1, <2>3
    <3>4. pc' # "eraseold"
      BY <2>1
    <3> QED
      BY <1>2, <3>1, <3>2, <3>3, <3>4 DEF CopyInv
  <2>5. OnceInv'
    BY <2>1, <2>4 DEF OnceInv, InCopy
  <2>6. OldInv'
    <3>1. old' # NoAdr => \E k \in DOMAIN log'[old'[1]] :
             OldAt(old[1], k)' /\ (old'[1] = Source' => src' <= k)
      <4> SUFFICES ASSUME old # NoAdr
                   PROVE  \E k \in DOMAIN log'[old'[1]] :
                             OldAt(old[1], k)' /\ (old'[1] = Source' => src' <= k)
        BY <1>1
      <4>1. PICK k \in DOMAIN log[old[1]] : OldAt(old[1], k)
        BY <1>1 DEF OldInv
      <4>2. OldAt(old[1], k)'
        BY <1>1, <1>4, <4>1 DEF OldAt, Valid
      <4>3. old'[1] = Source' => src' <= k
        BY <1>1, <1>2, <2>1, <2>3, <4>1
      <4> QED
        BY <1>1, <1>4, <4>1, <4>2, <4>3
    <3>2. old' = NoAdr => \A b \in Blocks : \A k \in DOMAIN log'[b] :
             ~ (Valid(b, k)' /\ log'[b][k].id = req'.id)
      BY <1>1, <1>4 DEF OldInv, Valid, InCopy
    <3> QED
      BY <2>1, <3>1, <3>2 DEF OldInv, InCopy, Fresh
  <2> QED
    BY <1>7, <2>2, <2>5, <2>6
<1> QED
  BY <1>8, <1>9

(* The record next to copy, and that only the old record has its address.   *)
LEMMA NextCopy ==
  ASSUME CleanRestarts, TypeOK, PlaceInv, StoreInv, pc = "copy",
         NEW k \in Copyable, IsNextCopy(k)
  PROVE  /\ act \in Blocks /\ Target \in Blocks /\ Source \in Blocks
         /\ Target # act /\ Source # Target
         /\ k \in DOMAIN log[Source] /\ src <= k /\ Valid(Source, k) /\ k \in Nat /\ src \in Nat
         /\ \A m \in DOMAIN log[Source] : Valid(Source, m) /\ src <= m => k <= m
         /\ CopyInv
         /\ old = Adr(<<Source, k>>) => old # NoAdr /\ log[Source][k].id = req.id
         /\ old # Adr(<<Source, k>>) => log[Source][k].id # req.id
<1> USE DEF TypeOK, PlaceInv, StoreInv
<1>1. /\ act \in Blocks /\ k \in DOMAIN log[Source] /\ src <= k /\ Valid(Source, k) /\ k \in Nat
  BY CopyRoom
<1>2. Target \in Blocks /\ Source \in Blocks /\ Target # act /\ Source # Target /\ src \in Nat
  BY <1>1, RingOfWrite DEF CallInv
<1>3. CopyInv
  BY DEF OnceInv, InCopy
<1>4. \A m \in DOMAIN log[Source] : Valid(Source, m) /\ src <= m => k <= m
  <2>1. ste[Source] # "idle"
    BY <1>1, <1>2, LogFacts DEF Layout
  <2> QED
    BY <2>1 DEF IsNextCopy, Copyable, Valid
<1>5. Adr(<<Source, k>>) = <<Source, log[Source][k].at>>
  BY DEF Adr
<1>6. Source # NoBlk
  BY <1>2, Bounds DEF Blocks, NoBlk
<1>7. ASSUME old # NoAdr
      PROVE  \E m \in DOMAIN log[old[1]] :
                /\ OldAt(old[1], m) /\ (old[1] = Source => src <= m)
                /\ old[1] \in Blocks \ {Target} /\ old = <<old[1], old[2]>>
  <2>1. PICK m \in DOMAIN log[old[1]] : OldAt(old[1], m) /\ (old[1] = Source => src <= m)
    BY <1>7 DEF OldInv, InCopy
  <2>2. old[1] \in Blocks /\ old = <<old[1], old[2]>>
    BY <1>7 DEF CallType
  <2>3. old[1] # Target
    BY <1>3, <2>1 DEF CopyInv, OldAt
  <2> QED
    BY <2>1, <2>2, <2>3
<1>8. ASSUME old = Adr(<<Source, k>>)
      PROVE  old # NoAdr /\ log[Source][k].id = req.id
  <2>1. old # NoAdr /\ old[1] = Source /\ old[2] = log[Source][k].at
    BY <1>5, <1>6, <1>8 DEF NoAdr
  <2>2. PICK m \in DOMAIN log[Source] : OldAt(Source, m)
    BY <1>7, <2>1
  <2>3. m = k
    BY <1>1, <1>2, <2>1, <2>2, SameAt DEF OldAt
  <2> QED
    BY <2>1, <2>2, <2>3 DEF OldAt
<1>9. ASSUME old # Adr(<<Source, k>>), log[Source][k].id = req.id
      PROVE  FALSE
  <2>1. CASE old # NoAdr
    <3>1. PICK m \in DOMAIN log[old[1]] :
            OldAt(old[1], m) /\ old[1] \in Blocks \ {Target} /\ old = <<old[1], old[2]>>
      BY <1>7, <2>1
    <3>2. old[1] = Source /\ m = k
      BY <1>1, <1>2, <1>3, <1>9, <3>1 DEF CopyInv, Alone, OldAt
    <3> QED
      BY <1>5, <1>9, <3>1, <3>2 DEF OldAt
  <2>2. CASE old = NoAdr
    <3>1. k < src
      BY <1>1, <1>2, <1>9, <2>2 DEF OldInv
    <3> QED
      BY <1>1, <1>2, <3>1
  <2> QED
    BY <2>1, <2>2
<1> QED
  BY <1>1, <1>2, <1>3, <1>4, <1>8, <1>9

LEMMA SkipStore ==
  ASSUME CleanRestarts, TypeOK, PlaceInv, StoreInv, pc = "copy",
         NEW k \in Copyable, IsNextCopy(k), old = Adr(<<Source, k>>), old' = NoAdr,
         UNCHANGED <<flash, pc, req, act, qty, res, before, cut>>, src' = k + 1
  PROVE  StoreInv'
<1> USE DEF StoreInv
<1>1. /\ act \in Blocks /\ Target \in Blocks /\ Source \in Blocks /\ Source # Target
      /\ k \in DOMAIN log[Source] /\ src <= k /\ Valid(Source, k) /\ k \in Nat /\ src \in Nat
      /\ \A m \in DOMAIN log[Source] : Valid(Source, m) /\ src <= m => k <= m
      /\ CopyInv /\ old # NoAdr /\ log[Source][k].id = req.id
  BY NextCopy
<1>2. log' = log /\ ste' = ste /\ Target' = Target /\ Source' = Source /\ Active' = Active
  BY DEF flash, Target, Source, Active
<1>3. \A m \in DOMAIN log[Source] : m \in Nat /\ (Valid(Source, m) => (m < src' <=> m < src \/ m = k))
  BY <1>1, LogFacts DEF TypeOK
<1>4. RingInv'
  <2>1. src' # 1 /\ cut = FALSE
    BY <1>1, LogFacts DEF TypeOK, CallType, RingInv
  <2> QED
    BY <1>1, <1>2, <2>1 DEF RingInv, Fresh, InWrite, InCopy
<1>5. CopyInv'
  <2>1. Alone(Blocks \ {Target})' /\ Alone({Target})'
    BY <1>1, <1>2 DEF CopyInv, Alone, Valid
  <2>2. \A j \in DOMAIN log'[Target'] : Valid(Target, j)' =>
          /\ log'[Target'][j].id # req'.id
          /\ \E m \in DOMAIN log'[Source'] : m < src' /\ Valid(Source, m)' /\ IsCopyOf(j, m)'
    BY <1>1, <1>2, <1>3 DEF CopyInv, Valid, IsCopyOf
  <2>3. \A m \in DOMAIN log'[Source'] : m < src' /\ Valid(Source, m)' =>
          \/ log'[Source'][m].id = req'.id /\ old' = NoAdr
          \/ \E j \in DOMAIN log'[Target'] : Valid(Target, j)' /\ IsCopyOf(j, m)'
    BY <1>1, <1>2, <1>3 DEF CopyInv, Valid, IsCopyOf
  <2> QED
    BY <2>1, <2>2, <2>3 DEF CopyInv
<1>6. OnceInv'
  BY <1>5 DEF OnceInv, InCopy
<1>7. OldInv'
  <2>1. ASSUME NEW b \in Blocks, NEW m \in DOMAIN log[b], Valid(b, m), log[b][m].id = req.id
        PROVE  b = Source /\ m = k
    <3>1. b # Target
      BY <1>1, <2>1 DEF CopyInv
    <3> QED
      BY <1>1, <2>1, <3>1 DEF CopyInv, Alone
  <2> QED
    BY <1>1, <1>2, <2>1 DEF OldInv, InCopy, Fresh, Valid
<1>8. KeptInv'
  BY <1>2, KeptSame DEF Fresh, InWrite
<1> QED
  BY <1>4, <1>6, <1>7, <1>8

LEMMA CopyStore ==
  ASSUME CleanRestarts, TypeOK, PlaceInv, StoreInv, pc = "copy",
         NEW k \in Copyable, IsNextCopy(k), old # Adr(<<Source, k>>), old' = old,
         Put(Target, Record(Target, log[Source][k].id, log[Source][k].val, log[Source][k].size)),
         UNCHANGED <<pc, req, act, qty, res, before, cut>>, src' = k + 1
  PROVE  StoreInv'
<1> USE DEF StoreInv
<1>1. /\ act \in Blocks /\ Target \in Blocks /\ Source \in Blocks
      /\ Target # act /\ Source # Target
      /\ k \in DOMAIN log[Source] /\ src <= k /\ Valid(Source, k) /\ k \in Nat /\ src \in Nat
      /\ \A m \in DOMAIN log[Source] : Valid(Source, m) /\ src <= m => k <= m
      /\ CopyInv /\ log[Source][k].id # req.id
  BY NextCopy
<1> DEFINE n == Len(log[Target]) + 1
           v == log[Source][k].val
           i == log[Source][k].id
<1>2. v \in Vals \union {Blank}
  BY <1>1, LogFacts, RecordFacts DEF TypeOK
<1>3. /\ ste' = ste /\ \A c \in Blocks \ {Target} : log'[c] = log[c]
      /\ DOMAIN log'[Target] = 1 .. n
      /\ \A j \in DOMAIN log[Target] : log'[Target][j] = log[Target][j]
      /\ log'[Target][n] = Record(Target, i, v, log[Source][k].size)
  BY <1>2, CopyPut
<1>4. log'[Target][n].ste = "valid" /\ log'[Target][n].id = i /\ log'[Target][n].val = v
  BY <1>3 DEF Record
<1>5. DOMAIN log[Target] = 1 .. n - 1 /\ n \in Nat \ {0} /\ log'[Source] = log[Source]
      /\ DOMAIN log'[Target] = DOMAIN log[Target] \union {n}
  BY <1>1, <1>3, LogFacts DEF TypeOK
<1> HIDE DEF n, v
<1>6. Target' = Target /\ Source' = Source /\ Active' = Active
  BY <1>3 DEF Target, Source, Active
<1>7. \A m \in DOMAIN log[Source] : m \in Nat /\ (Valid(Source, m) => (m < src' <=> m < src \/ m = k))
  <2> SUFFICES ASSUME NEW m \in DOMAIN log[Source]
               PROVE  m \in Nat /\ (Valid(Source, m) => (m < src' <=> m < src \/ m = k))
    OBVIOUS
  <2>1. m \in Nat
    BY <1>1, LogFacts DEF TypeOK
  <2>2. Valid(Source, m) /\ src <= m => k <= m
    BY <1>1
  <2> QED
    BY <1>1, <2>1, <2>2
<1>8. \A j \in DOMAIN log[Target] : Valid(Target, j) => log[Target][j].id # i
  <2> SUFFICES ASSUME NEW j \in DOMAIN log[Target], Valid(Target, j), log[Target][j].id = i
               PROVE  FALSE
    OBVIOUS
  <2>1. PICK m \in DOMAIN log[Source] : m < src /\ Valid(Source, m) /\ log[Source][m].id = i
    BY <1>1 DEF CopyInv, IsCopyOf
  <2>2. m = k
    BY <1>1, <2>1 DEF CopyInv, Alone
  <2> QED
    BY <1>1, <2>1, <2>2
<1>9. RingInv'
  <2>1. src' # 1 /\ cut = FALSE
    BY <1>1, LogFacts DEF TypeOK, CallType, RingInv
  <2> QED
    BY <1>1, <1>6, <2>1 DEF RingInv, Fresh, InWrite, InCopy
<1>10. CopyInv'
  <2>1. Alone(Blocks \ {Target})'
    BY <1>1, <1>3, <1>6 DEF CopyInv, Alone, Valid
  <2>2. Alone({Target})'
    <3> SUFFICES ASSUME NEW j \in DOMAIN log'[Target], NEW m \in DOMAIN log'[Target],
                        log'[Target][j].ste = "valid", log'[Target][m].ste = "valid",
                        log'[Target][j].id = log'[Target][m].id
                 PROVE  j = m
      BY <1>6 DEF Alone, Valid
    <3>1. CASE j # n /\ m # n
      <4>1. Alone({Target})
        BY <1>1 DEF CopyInv
      <4> QED
        BY <1>3, <1>5, <3>1, <4>1 DEF Alone, Valid
    <3>2. CASE j = n \/ m = n
      BY <1>3, <1>4, <1>5, <1>8, <3>2 DEF Valid
    <3> QED
      BY <3>1, <3>2
  <2>3. \A j \in DOMAIN log'[Target'] : Valid(Target, j)' =>
          /\ log'[Target'][j].id # req'.id
          /\ \E m \in DOMAIN log'[Source'] : m < src' /\ Valid(Source, m)' /\ IsCopyOf(j, m)'
    <3> SUFFICES ASSUME NEW j \in DOMAIN log'[Target], log'[Target][j].ste = "valid"
                 PROVE  /\ log'[Target][j].id # req.id
                        /\ \E m \in DOMAIN log[Source] :
                              /\ m < src' /\ Valid(Source, m)
                              /\ log'[Target][j].id = log[Source][m].id
                              /\ log'[Target][j].val = log[Source][m].val
      BY <1>5, <1>6 DEF Valid, IsCopyOf
    <3>1. CASE j = n
      BY <1>1, <1>4, <1>7, <3>1 DEF v
    <3>2. CASE j # n
      <4>1. j \in DOMAIN log[Target] /\ Valid(Target, j) /\ log'[Target][j] = log[Target][j]
        BY <1>3, <1>5, <3>2 DEF Valid
      <4> QED
        BY <1>1, <1>7, <4>1 DEF CopyInv, IsCopyOf
    <3> QED
      BY <3>1, <3>2
  <2>4. \A m \in DOMAIN log'[Source'] : m < src' /\ Valid(Source, m)' =>
          \/ log'[Source'][m].id = req'.id /\ old' = NoAdr
          \/ \E j \in DOMAIN log'[Target'] : Valid(Target, j)' /\ IsCopyOf(j, m)'
    <3> SUFFICES ASSUME NEW m \in DOMAIN log[Source], m < src', Valid(Source, m)
                 PROVE  \/ log[Source][m].id = req.id /\ old = NoAdr
                        \/ \E j \in DOMAIN log'[Target] :
                              /\ log'[Target][j].ste = "valid"
                              /\ log'[Target][j].id = log[Source][m].id
                              /\ log'[Target][j].val = log[Source][m].val
      BY <1>5, <1>6 DEF Valid, IsCopyOf
    <3>1. CASE m = k
      BY <1>4, <1>5, <3>1 DEF v
    <3>2. CASE m # k
      <4>1. \/ log[Source][m].id = req.id /\ old = NoAdr
            \/ \E j \in DOMAIN log[Target] : Valid(Target, j) /\ IsCopyOf(j, m)
        BY <1>1, <1>7, <3>2 DEF CopyInv
      <4>2. CASE \E j \in DOMAIN log[Target] : Valid(Target, j) /\ IsCopyOf(j, m)
        <5>1. PICK j \in DOMAIN log[Target] : Valid(Target, j) /\ IsCopyOf(j, m)
          BY <4>2
        <5>2. j \in DOMAIN log'[Target] /\ log'[Target][j] = log[Target][j]
          BY <1>3, <1>5
        <5> QED
          BY <5>1, <5>2 DEF Valid, IsCopyOf
      <4> QED
        BY <4>1, <4>2
    <3> QED
      BY <3>1, <3>2
  <2> QED
    BY <2>1, <2>2, <2>3, <2>4 DEF CopyInv
<1>11. OnceInv'
  BY <1>10 DEF OnceInv, InCopy
<1>12. OldInv'
  <2>1. ASSUME old # NoAdr
        PROVE  \E m \in DOMAIN log'[old[1]] :
                  OldAt(old[1], m)' /\ (old[1] = Source => src' <= m)
    <3>1. PICK m \in DOMAIN log[old[1]] : OldAt(old[1], m) /\ (old[1] = Source => src <= m)
      BY <2>1 DEF OldInv, InCopy
    <3>2. old[1] \in Blocks /\ old[1] # Target /\ old = <<old[1], old[2]>>
      BY <1>1, <2>1, <3>1 DEF CopyInv, OldAt, TypeOK, CallType
    <3>3. log'[old[1]] = log[old[1]]
      BY <1>3, <3>2
    <3>4. OldAt(old[1], m)'
      BY <3>1, <3>3 DEF OldAt, Valid
    <3>5. old[1] = Source => src' <= m
      BY <1>1, <1>7, <3>1, <3>2 DEF OldAt, Adr
    <3> QED
      BY <3>1, <3>3, <3>4, <3>5
  <2>2. ASSUME old = NoAdr, NEW b \in Blocks, NEW m \in DOMAIN log'[b],
               log'[b][m].ste = "valid", log'[b][m].id = req.id
        PROVE  b = Source /\ m < src'
    <3>1. m \in DOMAIN log[b] /\ log'[b][m] = log[b][m]
      BY <1>1, <1>3, <1>4, <1>5, <2>2
    <3>2. b = Source /\ m < src
      BY <2>2, <3>1 DEF OldInv, Valid
    <3> QED
      BY <1>7, <2>2, <3>1, <3>2 DEF Valid
  <2> QED
    BY <1>6, <2>1, <2>2 DEF OldInv, InCopy, Fresh, Valid
<1>13. KeptInv'
  <2>1. ASSUME NEW b \in Blocks, NEW m \in DOMAIN log'[b], log'[b][m].ste = "valid"
        PROVE  \E c \in Blocks : \E j \in DOMAIN log[c] :
                  Valid(c, j) /\ log'[b][m].id = log[c][j].id /\ log'[b][m].val = log[c][j].val
    <3>1. CASE b = Target /\ m = n
      BY <1>1, <1>4, <3>1 DEF v
    <3>2. CASE ~ (b = Target /\ m = n)
      BY <1>3, <1>5, <2>1, <3>2 DEF Valid
    <3> QED
      BY <3>1, <3>2
  <2>2. \A j, w : Agrees(j, w) => Agrees(j, w)'
    BY <2>1 DEF Agrees, Valid
  <2>3. \A b \in Blocks : \A m \in DOMAIN log[b] : m \in DOMAIN log'[b] /\ log'[b][m] = log[b][m]
    BY <1>3, <1>5
  <2>4. \A j, w : Shows(j, w) => Shows(j, w)'
    BY <2>2, <2>3 DEF Shows, Valid
  <2>5. \A j \in Ids \ {req.id} : Shows(j, before[j])'
    <3> SUFFICES ASSUME NEW j \in Ids \ {req.id} PROVE Shows(j, before[j])'
      OBVIOUS
    <3>1. Shows(j, before[j]) => Shows(j, before[j])'
      BY <2>1, <2>3 DEF Shows, Agrees, Valid
    <3> QED
      BY <3>1 DEF KeptInv, InWrite
  <2>6. Agrees(req.id, before[req.id])'
    <3>1. Agrees(req.id, before[req.id]) => Agrees(req.id, before[req.id])'
      BY <2>1 DEF Agrees, Valid
    <3> QED
      BY <3>1 DEF KeptInv, InWrite
  <2> QED
    BY <2>5, <2>6 DEF KeptInv, Fresh, InWrite
<1> QED
  BY <1>9, <1>11, <1>12, <1>13

LEMMA CopyTurn ==
  ASSUME CleanRestarts, TypeOK, PlaceInv, StoreInv, Copy
  PROVE  StoreInv'
<1>1. pc = "copy" /\ UNCHANGED <<pc, req, act, qty, res, before, cut>>
  BY DEF Copy
<1>2. PICK k \in Copyable :
        /\ IsNextCopy(k) /\ src' = k + 1
        /\ \/ old = Adr(<<Source, k>>) /\ old' = NoAdr /\ UNCHANGED flash
           \/ /\ old # Adr(<<Source, k>>) /\ old' = old
              /\ Put(Target, Record(Target, log[Source][k].id, log[Source][k].val,
                                    log[Source][k].size))
  BY DEF Copy
<1>3. CASE old = Adr(<<Source, k>>)
  BY <1>1, <1>2, <1>3, SkipStore
<1>4. CASE old # Adr(<<Source, k>>)
  BY <1>1, <1>2, <1>4, CopyStore
<1> QED
  BY <1>3, <1>4

(* All of the block to clear has been passed, and the old active block is   *)
(* marked full.                                                             *)
LEMMA FullStore ==
  ASSUME CleanRestarts, TypeOK, PlaceInv, StoreInv, MarkFull
  PROVE  StoreInv'
<1> USE DEF TypeOK, PlaceInv, StoreInv
<1>1. /\ pc = "copy" /\ pc' = "eraseold" /\ Copyable = {} /\ log' = log
      /\ UNCHANGED <<req, old, act, src, qty, res, before, cut>>
  BY DEF MarkFull, Goto, MarkAs
<1>2. act \in Blocks /\ Target \in Blocks /\ Source \in Blocks /\ Target # act
  BY <1>1, RingOfWrite DEF CallInv, InWrite
<1>3. Target' = Target /\ Source' = Source
  BY <1>1 DEF Target, Source
<1>4. Active' = {Target}
  <2>1. Active' = Active \ {act}
    BY <1>2, ActiveNext DEF MarkFull
  <2> QED
    BY <1>1, <1>2, <2>1 DEF RingInv
<1>5. RingInv'
  BY <1>1, <1>3, <1>4 DEF RingInv, Fresh, InWrite, InCopy
<1>6. \A k \in DOMAIN log[Source] : Valid(Source, k) => k < src
  <2> SUFFICES ASSUME NEW k \in DOMAIN log[Source], Valid(Source, k)
               PROVE  k < src
    OBVIOUS
  <2>1. ste[Source] # "idle"
    BY <1>2, LogFacts DEF Layout
  <2>2. ~ (k >= src)
    BY <1>1, <2>1 DEF Copyable, Valid
  <2>3. k \in Nat /\ src \in Nat
    BY <1>1, <1>2, LogFacts DEF CallInv
  <2> QED
    BY <2>2, <2>3
<1>7. CopyInv'
  <2>1. CopyInv
    BY <1>1 DEF OnceInv, InCopy
  <2>2. Alone(Blocks \ {Target})' /\ Alone({Target})'
    BY <1>1, <1>3, <2>1 DEF CopyInv, Alone, Valid
  <2>3. \A j \in DOMAIN log'[Target'] : Valid(Target, j)' =>
          /\ log'[Target'][j].id # req'.id
          /\ \E k \in DOMAIN log'[Source'] : k < src' /\ Valid(Source, k)' /\ IsCopyOf(j, k)'
    BY <1>1, <1>3, <2>1 DEF CopyInv, Valid, IsCopyOf
  <2>4. \A k \in DOMAIN log'[Source'] : k < src' /\ Valid(Source, k)' =>
          \/ log'[Source'][k].id = req'.id /\ old' = NoAdr
          \/ \E j \in DOMAIN log'[Target'] : Valid(Target, j)' /\ IsCopyOf(j, k)'
    BY <1>1, <1>3, <2>1 DEF CopyInv, Valid, IsCopyOf
  <2>5. \A k \in DOMAIN log'[Source'] : Valid(Source, k)' => k < src'
    BY <1>1, <1>3, <1>6 DEF Valid
  <2> QED
    BY <2>2, <2>3, <2>4, <2>5 DEF CopyInv
<1>8. OnceInv'
  BY <1>1, <1>7 DEF OnceInv, InCopy
<1>9. OldInv'
  BY <1>1, <1>3 DEF OldInv, OldAt, Valid, InCopy, Fresh
<1>10. KeptInv'
  BY <1>1, KeptSame DEF Fresh, InWrite
<1> QED
  BY <1>5, <1>8, <1>9, <1>10

(* The block to clear is erased: what it held has a copy, but for the       *)
(* record to replace, and that has no address any more.                     *)
LEMMA ClearKeeps ==
  ASSUME CleanRestarts, TypeOK, PlaceInv, StoreInv, EraseOld
  PROVE  /\ act \in Blocks /\ Target \in Blocks /\ Source \in Blocks /\ Target # Source
         /\ FlashType' /\ log'[Source] = <<>> /\ Shrinks
         /\ \A b \in Blocks \ {Source} : log'[b] = log[b]
         /\ \A b \in Blocks : \A k \in DOMAIN log[b] : Valid(b, k) /\ log[b][k].id # req.id =>
               \E c \in Blocks : \E j \in DOMAIN log'[c] :
                  log'[c][j].ste = "valid" /\ log'[c][j].id = log[b][k].id
<1> USE DEF TypeOK, PlaceInv, StoreInv
<1>1. pc = "eraseold" /\ Erase(Source) /\ CopyInv
  BY DEF EraseOld, OnceInv, InCopy
<1>2. act \in Blocks /\ Target \in Blocks /\ Source \in Blocks /\ Target # Source
  BY <1>1, RingOfWrite DEF CallInv, InWrite
<1>3. /\ FlashType' /\ log'[Source] = <<>> /\ Shrinks
      /\ \A b \in Blocks \ {Source} : log'[b] = log[b]
  BY <1>1, <1>2, EraseFacts, EraseShrinks
<1>4. ASSUME NEW b \in Blocks, NEW k \in DOMAIN log[b], Valid(b, k), log[b][k].id # req.id
      PROVE  \E c \in Blocks : \E j \in DOMAIN log'[c] :
                log'[c][j].ste = "valid" /\ log'[c][j].id = log[b][k].id
  <2>1. CASE b # Source
    BY <1>3, <1>4, <2>1 DEF Valid
  <2>2. CASE b = Source
    <3>1. PICK j \in DOMAIN log[Target] : Valid(Target, j) /\ IsCopyOf(j, k)
      BY <1>1, <1>4, <2>2 DEF CopyInv
    <3>2. log'[Target] = log[Target]
      BY <1>2, <1>3
    <3> QED
      BY <1>2, <1>4, <2>2, <3>1, <3>2 DEF Valid, IsCopyOf
  <2> QED
    BY <2>1, <2>2
<1> QED
  BY <1>2, <1>3, <1>4

LEMMA ClearStore ==
  ASSUME CleanRestarts, TypeOK, PlaceInv, StoreInv, EraseOld
  PROVE  StoreInv'
<1> USE DEF TypeOK, PlaceInv, StoreInv
<1>1. /\ pc = "eraseold" /\ Erase(Source) /\ CopyInv /\ cut = FALSE
      /\ \/ Return("full") /\ cut' = cut
         \/ /\ act' = Target /\ UNCHANGED <<req, old, before, cut>>
            /\ pc' = "next" \/ pc' = Store(old)
  BY DEF EraseOld, OnceInv, InCopy, RingInv, CallType
<1>2. act \in Blocks /\ Target \in Blocks /\ Source \in Blocks /\ Target # Source
  BY ClearKeeps
<1>3. /\ FlashType' /\ log'[Source] = <<>> /\ Shrinks
      /\ \A b \in Blocks \ {Source} : log'[b] = log[b]
  BY ClearKeeps
<1>4. \A b \in Blocks : \A k \in DOMAIN log'[b] :
         b # Source /\ log'[b] = log[b] /\ k \in DOMAIN log[b]
  BY <1>3
<1>5. \A b \in Blocks : \A k \in DOMAIN log[b] : Valid(b, k) /\ log[b][k].id # req.id =>
         \E c \in Blocks : \E j \in DOMAIN log'[c] :
            log'[c][j].ste = "valid" /\ log'[c][j].id = log[b][k].id
  BY ClearKeeps
<1>6. Alone(Blocks)'
  <2> SUFFICES ASSUME NEW a \in Blocks, NEW b \in Blocks,
                      NEW j \in DOMAIN log'[a], NEW k \in DOMAIN log'[b],
                      log'[a][j].ste = "valid", log'[b][k].ste = "valid",
                      log'[a][j].id = log'[b][k].id
               PROVE  a = b /\ j = k
    BY DEF Alone, Valid
  <2>1. /\ a # Source /\ j \in DOMAIN log[a] /\ log'[a][j] = log[a][j] /\ Valid(a, j)
        /\ b # Source /\ k \in DOMAIN log[b] /\ log'[b][k] = log[b][k] /\ Valid(b, k)
        /\ log[a][j].id = log[b][k].id
    BY <1>4 DEF Valid
  <2>2. ASSUME NEW c \in Blocks \ {Target, Source}, NEW m \in DOMAIN log[c], Valid(c, m),
               NEW n \in DOMAIN log[Target], Valid(Target, n),
               log[Target][n].id = log[c][m].id
        PROVE  FALSE
    <3>1. PICK s \in DOMAIN log[Source] : Valid(Source, s) /\ IsCopyOf(n, s)
      BY <1>1, <2>2 DEF CopyInv
    <3>2. c = Source
      <4>1. c \in Blocks \ {Target} /\ Source \in Blocks \ {Target}
        BY <1>2, <2>2
      <4>2. log[Source][s].id = log[c][m].id
        BY <2>2, <3>1 DEF IsCopyOf
      <4>3. Alone(Blocks \ {Target})
        BY <1>1 DEF CopyInv
      <4> QED
        BY <2>2, <3>1, <4>1, <4>2, <4>3 DEF Alone
    <3> QED
      BY <2>2, <3>2
  <2>3. a = Target <=> b = Target
    BY <2>1, <2>2
  <2> QED
    BY <1>1, <2>1, <2>3 DEF CopyInv, Alone
<1>7. \A t \in Blocks : t = Target => Leads(t)'
  <2>1. Active' = {Target}
    <3>1. Active' = Active \ {Source}
      BY <1>1, <1>2, ActiveNext
    <3> QED
      BY <1>1, <1>2, <3>1 DEF RingInv
  <2>2. NextBlk(Target) = Source
    BY DEF Source, Target
  <2> QED
    BY <1>2, <1>3, <2>1, <2>2 DEF Leads
<1>8. CASE Return("full") /\ cut' = cut
  <2>1. \E a \in Blocks : Leads(a)'
    BY <1>2, <1>7
  <2> QED
    BY <1>1, <1>6, <1>8, <2>1, ReturnStore
<1>9. CASE /\ act' = Target /\ UNCHANGED <<req, old, before, cut>>
           /\ pc' = "next" \/ pc' = Store(old)
  <2>1. pc' \in {"next", "inval", "head"} /\ (pc' = "head" => old = NoAdr)
        /\ (pc' = "inval" => old # NoAdr)
    BY <1>9 DEF Store
  <2>2. RingInv'
    <3>1. Leads(act)'
      BY <1>2, <1>7, <1>9 DEF Leads
    <3> QED
      BY <1>1, <1>9, <2>1, <3>1 DEF RingInv, Fresh, InWrite, InCopy
  <2>3. OnceInv'
    BY <1>6, <2>1 DEF OnceInv, InCopy
  <2>4. OldInv'
    <3>1. ASSUME old # NoAdr
          PROVE  \E k \in DOMAIN log'[old[1]] : OldAt(old[1], k)'
      <4>1. PICK k \in DOMAIN log[old[1]] : OldAt(old[1], k) /\ (old[1] = Source => src <= k)
        BY <1>1, <3>1 DEF OldInv, InCopy
      <4>2. old[1] \in Blocks
        BY <3>1 DEF CallType
      <4>3. old[1] # Source
        <5>1. ASSUME old[1] = Source PROVE k < src /\ src <= k /\ k \in Nat
          BY <1>1, <1>2, <4>1, <5>1, LogFacts DEF CopyInv, OldAt
        <5>2. src \in Int
          BY Bounds DEF CallType
        <5> QED
          BY <5>1, <5>2
      <4>4. log'[old[1]] = log[old[1]]
        BY <1>3, <4>2, <4>3
      <4>5. OldAt(old[1], k)'
        BY <1>9, <4>1, <4>4 DEF OldAt, Valid
      <4> QED
        BY <4>1, <4>4, <4>5
    <3>2. ASSUME old = NoAdr, NEW b \in Blocks, NEW k \in DOMAIN log'[b],
                 log'[b][k].ste = "valid"
          PROVE  log'[b][k].id # req.id
      BY <1>1, <1>4, <3>2 DEF OldInv, Valid
    <3> QED
      BY <1>9, <2>1, <3>1, <3>2 DEF OldInv, Fresh, InCopy, Valid
  <2>5. KeptInv'
    <3>1. Agrees(req.id, before[req.id])'
      <4>1. Agrees(req.id, before[req.id])
        BY <1>1 DEF KeptInv, InWrite
      <4> QED
        BY <1>3, <1>9, <4>1 DEF Shrinks, Agrees, Valid
    <3>2. \A i \in Ids \ {req.id} : Shows(i, before[i])'
      <4> SUFFICES ASSUME NEW i \in Ids \ {req.id} PROVE Shows(i, before[i])'
        OBVIOUS
      <4>1. Shows(i, before[i])
        BY <1>1 DEF KeptInv, InWrite
      <4>2. Agrees(i, before[i])'
        BY <1>3, <1>9, <4>1 DEF Shows, Shrinks, Agrees, Valid
      <4>3. before[i] # None => \E c \in Blocks : \E j \in DOMAIN log'[c] :
                                   log'[c][j].ste = "valid" /\ log'[c][j].id = i
        BY <1>5, <4>1 DEF Shows
      <4> QED
        BY <1>9, <4>2, <4>3 DEF Shows, Valid
    <3> QED
      BY <1>9, <2>1, <3>1, <3>2 DEF KeptInv, Fresh, InWrite
  <2> QED
    BY <2>2, <2>3, <2>4, <2>5
<1> QED
  BY <1>1, <1>8, <1>9

(* The record to replace or delete becomes invalid: it was the last of its  *)
(* identity, and no other is touched.                                       *)
LEMMA Dropped ==
  ASSUME FlashType, FlashType', Alone(Blocks), NEW b \in Blocks, NEW k \in DOMAIN log[b],
         OldAt(b, k),
         \A c \in Blocks : DOMAIN log'[c] = DOMAIN log[c],
         \A c \in Blocks : \A j \in DOMAIN log[c] : c # b \/ j # k => log'[c][j] = log[c][j],
         log'[b][k].ste = "invalid"
  PROVE  /\ Shrinks /\ Alone(Blocks)'
         /\ \A c \in Blocks : \A j \in DOMAIN log'[c] :
               log'[c][j].ste = "valid" => log'[c][j].id # req.id
         /\ \A c \in Blocks : \A j \in DOMAIN log[c] : Valid(c, j) /\ log[c][j].id # req.id =>
               j \in DOMAIN log'[c] /\ log'[c][j] = log[c][j]
         /\ \A c \in Blocks : log[c] = <<>> => log'[c] = <<>>
<1>1. ASSUME NEW c \in Blocks, NEW j \in DOMAIN log'[c], log'[c][j].ste = "valid"
      PROVE  j \in DOMAIN log[c] /\ Valid(c, j) /\ log'[c][j] = log[c][j] /\ (c # b \/ j # k)
  BY <1>1 DEF Valid
<1>2. Shrinks
  BY <1>1 DEF Shrinks, Valid
<1>3. Alone(Blocks)'
  BY <1>2, ShrinksTo
<1>4. \A c \in Blocks : \A j \in DOMAIN log'[c] :
         log'[c][j].ste = "valid" => log'[c][j].id # req.id
  BY <1>1 DEF Alone, OldAt
<1>5. \A c \in Blocks : \A j \in DOMAIN log[c] : Valid(c, j) /\ log[c][j].id # req.id =>
         j \in DOMAIN log'[c] /\ log'[c][j] = log[c][j]
  BY DEF OldAt
<1>6. \A c \in Blocks : log[c] = <<>> => log'[c] = <<>>
  BY StillEmpty
<1> QED
  BY <1>2, <1>3, <1>4, <1>5, <1>6

LEMMA InvalidateStore ==
  ASSUME CleanRestarts, TypeOK, PlaceInv, StoreInv, Invalidate
  PROVE  StoreInv'
<1> USE DEF TypeOK, PlaceInv, StoreInv
<1>1. /\ pc = "inval" /\ pc' = "head" /\ UNCHANGED <<req, before, cut, ste, old, act>>
      /\ Alone(Blocks) /\ Leads(act) /\ cut = FALSE
  BY DEF Invalidate, Goto, OnceInv, InCopy, RingInv, InWrite, CallType
<1>2. act \in Blocks /\ old # NoAdr /\ old[1] \in Blocks /\ NextBlk(act) \in Blocks
  BY <1>1, NextInRing DEF CallType, CallInv, InWrite
<1>3. PICK k \in DOMAIN log[old[1]] :
        /\ log[old[1]][k].at <= old[2] /\ old[2] < log[old[1]][k].at + log[old[1]][k].size
        /\ log' = [log EXCEPT ![old[1]][k] =
                      IF log[old[1]][k].at = old[2] THEN Invalid(log[old[1]][k])
                      ELSE [log[old[1]][k] EXCEPT !.val = Blank]]
  BY DEF Invalidate
<1>4. OldAt(old[1], k)
  <2>1. PICK j \in DOMAIN log[old[1]] : OldAt(old[1], j)
    BY <1>1, <1>2 DEF OldInv
  <2>2. j = k
    BY <1>2, <1>3, <2>1, Apart DEF OldAt
  <2> QED
    BY <2>1, <2>2
<1> DEFINE b == old[1]
           r == Invalid(log[b][k])
<1>5. r \in Record_ /\ r.ste = "invalid"
  BY <1>2, LogFacts, Spoilt
<1>6. Over(b, k, r)
  BY <1>1, <1>3, <1>4 DEF Over, OldAt
<1> HIDE DEF r
<1>7. /\ FlashType' /\ log'[b][k] = r
      /\ \A c \in Blocks \ {b} : log'[c] = log[c]
      /\ DOMAIN log'[b] = DOMAIN log[b]
      /\ \A j \in DOMAIN log[b] \ {k} : log'[b][j] = log[b][j]
  BY <1>2, <1>5, <1>6, OverFacts
<1>8. /\ Shrinks /\ Alone(Blocks)'
      /\ \A c \in Blocks : \A j \in DOMAIN log'[c] :
            log'[c][j].ste = "valid" => log'[c][j].id # req.id
      /\ \A c \in Blocks : \A j \in DOMAIN log[c] : Valid(c, j) /\ log[c][j].id # req.id =>
            j \in DOMAIN log'[c] /\ log'[c][j] = log[c][j]
      /\ \A c \in Blocks : log[c] = <<>> => log'[c] = <<>>
  <2>1. \A c \in Blocks : DOMAIN log'[c] = DOMAIN log[c]
    BY <1>7
  <2>2. \A c \in Blocks : \A j \in DOMAIN log[c] : c # b \/ j # k => log'[c][j] = log[c][j]
    BY <1>7
  <2>3. log'[b][k].ste = "invalid" /\ OldAt(b, k)
    BY <1>4, <1>5, <1>7
  <2> HIDE DEF b
  <2>4. b \in Blocks
    BY <1>2 DEF b
  <2>5. k \in DOMAIN log[b]
    BY <1>3 DEF b
  <2> QED
    BY <1>1, <1>7, <2>1, <2>2, <2>3, <2>4, <2>5, Dropped
<1>9. RingInv'
  <2>1. Active' = Active
    BY <1>1 DEF Active
  <2>2. Leads(act)'
    BY <1>1, <1>2, <1>8, <2>1 DEF Leads
  <2> QED
    BY <1>1, <2>2 DEF RingInv, Fresh, InWrite, InCopy
<1>10. OnceInv'
  BY <1>1, <1>8 DEF OnceInv, InCopy
<1>11. OldInv'
  BY <1>1, <1>8 DEF OldInv, Fresh, InCopy, Valid
<1>12. KeptInv'
  <2>1. Agrees(req.id, before[req.id])'
    <3>1. Agrees(req.id, before[req.id])
      BY <1>1 DEF KeptInv, InWrite
    <3> QED
      BY <1>1, <1>8, <3>1 DEF Shrinks, Agrees, Valid
  <2>2. \A i \in Ids \ {req.id} : Shows(i, before[i])'
    <3> SUFFICES ASSUME NEW i \in Ids \ {req.id} PROVE Shows(i, before[i])'
      OBVIOUS
    <3>1. Shows(i, before[i])
      BY <1>1 DEF KeptInv, InWrite
    <3>2. Agrees(i, before[i])'
      BY <1>1, <1>8, <3>1 DEF Shows, Shrinks, Agrees, Valid
    <3> QED
      BY <1>1, <1>8, <3>1, <3>2 DEF Shows, Valid
  <2> QED
    BY <1>1, <2>1, <2>2 DEF KeptInv, Fresh, InWrite
<1> QED
  BY <1>9, <1>10, <1>11, <1>12

LEMMA RemoveKeeps ==
  ASSUME CleanRestarts, TypeOK, PlaceInv, StoreInv, Remove
  PROVE  /\ ~ Empty /\ Shrinks /\ Alone(Blocks)' /\ ste' = ste
         /\ \A c \in Blocks : \A j \in DOMAIN log'[c] :
               log'[c][j].ste = "valid" => log'[c][j].id # req.id
         /\ \A c \in Blocks : \A j \in DOMAIN log[c] : Valid(c, j) /\ log[c][j].id # req.id =>
               j \in DOMAIN log'[c] /\ log'[c][j] = log[c][j]
         /\ \A c \in Blocks : log[c] = <<>> => log'[c] = <<>>
<1> USE DEF TypeOK, PlaceInv, StoreInv
<1>1. pc = "del" /\ Alone(Blocks) /\ old # NoAdr
  BY DEF Remove, OnceInv, InCopy, CallInv
<1>2. /\ FlashType' /\ ste' = ste /\ old[1] \in Blocks
      /\ \A c \in Blocks : DOMAIN log'[c] = DOMAIN log[c]
  BY RemoveOver
<1>3. PICK k \in DOMAIN log[old[1]] :
        /\ log[old[1]][k].at = old[2]
        /\ \A c \in Blocks : \A j \in DOMAIN log[c] : c # old[1] \/ j # k => log'[c][j] = log[c][j]
        /\ log'[old[1]][k].ste = "invalid"
  BY RemoveOver
<1>4. OldAt(old[1], k)
  <2>1. PICK j \in DOMAIN log[old[1]] : OldAt(old[1], j)
    BY <1>1 DEF OldInv
  <2>2. j = k
    BY <1>2, <1>3, <2>1, SameAt DEF OldAt
  <2> QED
    BY <2>1, <2>2
<1>5. ~ Empty
  BY <1>2, <1>3 DEF Empty
<1> QED
  BY <1>1, <1>2, <1>3, <1>4, <1>5, Dropped

LEMMA RemoveStore ==
  ASSUME CleanRestarts, TypeOK, PlaceInv, StoreInv, Remove
  PROVE  StoreInv'
<1>1. pc = "del" /\ cut = FALSE /\ cut' = cut /\ Return("ok")
  BY DEF Remove, StoreInv, RingInv, TypeOK, CallType
<1>2. ~ Empty /\ Alone(Blocks)' /\ ste' = ste /\ \A c \in Blocks : log[c] = <<>> => log'[c] = <<>>
  BY RemoveKeeps
<1>3. PICK a \in Blocks : Leads(a)
  BY <1>1, <1>2 DEF StoreInv, RingInv, NoneActive
<1>4. Leads(a)'
  BY <1>2, <1>3, NextInRing DEF Leads, Active
<1> QED
  BY <1>1, <1>2, <1>4, ReturnStore

(* The new record: without data it already has its identity alone.          *)
LEMMA HeaderStore ==
  ASSUME CleanRestarts, TypeOK, PlaceInv, StoreInv, Header
  PROVE  StoreInv'
<1> USE DEF TypeOK, PlaceInv, StoreInv
<1>1. /\ pc = "head" /\ pc' = "data" /\ UNCHANGED <<req, before, cut, act, old>>
      /\ Alone(Blocks) /\ Leads(act) /\ cut = FALSE
  BY DEF Header, Goto, OnceInv, InCopy, RingInv, InWrite, CallType
<1> DEFINE n == Len(log[act]) + 1
<1>2. /\ FlashType' /\ act \in Blocks /\ req.id \in Ids /\ ste' = ste
      /\ \A c \in Blocks \ {act} : log'[c] = log[c]
      /\ DOMAIN log'[act] = 1 .. n /\ Len(log'[act]) = n
      /\ \A j \in DOMAIN log[act] : log'[act][j] = log[act][j]
      /\ log'[act][n] = Record(act, req.id, Blank, SizeOf[req.val])
  BY HeaderPut
<1>3. /\ log'[act][n].ste = "valid" /\ log'[act][n].id = req.id /\ log'[act][n].val = Blank
  BY <1>2 DEF Record
<1>4. DOMAIN log'[act] = DOMAIN log[act] \union {n} /\ n \in DOMAIN log'[act] /\ n \notin DOMAIN log[act]
  BY <1>2, LogFacts
<1> HIDE DEF n
<1>5. ASSUME NEW c \in Blocks, NEW j \in DOMAIN log'[c], c # act \/ j # n
      PROVE  j \in DOMAIN log[c] /\ log'[c][j] = log[c][j]
  BY <1>2, <1>4, <1>5
<1>6. \A c \in Blocks : \A j \in DOMAIN log[c] : j \in DOMAIN log'[c] /\ log'[c][j] = log[c][j]
  BY <1>2, <1>4
<1>7. \A c \in Blocks : \A j \in DOMAIN log[c] : Valid(c, j) => log[c][j].id # req.id
  BY <1>1 DEF OldInv
<1>8. Alone(Blocks)'
  <2> SUFFICES ASSUME NEW a \in Blocks, NEW b \in Blocks,
                      NEW j \in DOMAIN log'[a], NEW k \in DOMAIN log'[b],
                      log'[a][j].ste = "valid", log'[b][k].ste = "valid",
                      log'[a][j].id = log'[b][k].id
               PROVE  a = b /\ j = k
    BY DEF Alone, Valid
  <2>1. CASE (a # act \/ j # n) /\ (b # act \/ k # n)
    BY <1>1, <1>5, <2>1 DEF Alone, Valid
  <2>2. CASE ~ (a # act \/ j # n) /\ (b # act \/ k # n)
    BY <1>3, <1>5, <1>7, <2>2 DEF Valid
  <2>3. CASE (a # act \/ j # n) /\ ~ (b # act \/ k # n)
    BY <1>3, <1>5, <1>7, <2>3 DEF Valid
  <2>4. CASE ~ (a # act \/ j # n) /\ ~ (b # act \/ k # n)
    BY <2>4
  <2> QED
    BY <2>1, <2>2, <2>3, <2>4
<1>9. RingInv'
  <2>1. Leads(act)'
    BY <1>1, <1>2, NextInRing DEF Leads, Active
  <2> QED
    BY <1>1, <2>1 DEF RingInv, Fresh, InWrite, InCopy
<1>10. OnceInv' /\ OldInv'
  BY <1>1, <1>8 DEF OnceInv, OldInv, Fresh, InCopy
<1>11. \A i \in Ids \ {req.id} : Shows(i, before[i])'
  <2> SUFFICES ASSUME NEW i \in Ids \ {req.id} PROVE Shows(i, before[i])'
    OBVIOUS
  <2>1. Shows(i, before[i])
    BY <1>1 DEF KeptInv, InWrite
  <2>2. ASSUME NEW c \in Blocks, NEW j \in DOMAIN log'[c], log'[c][j].ste = "valid",
               log'[c][j].id = i
        PROVE  log'[c][j].val = before[i]
    <3>1. c # act \/ j # n
      BY <1>3, <2>2
    <3>2. j \in DOMAIN log[c] /\ log'[c][j] = log[c][j]
      BY <1>5, <3>1
    <3> QED
      BY <2>1, <2>2, <3>2 DEF Shows, Agrees, Valid
  <2>3. before[i] # None => \E c \in Blocks : \E j \in DOMAIN log'[c] :
                               log'[c][j].ste = "valid" /\ log'[c][j].id = i
    BY <1>6, <2>1 DEF Shows, Valid
  <2> QED
    BY <1>1, <2>2, <2>3 DEF Shows, Agrees, Valid
<1>12. KeptInv'
  BY <1>1, <1>2, <1>3, <1>4, <1>11 DEF KeptInv, Fresh, InWrite, Valid
<1> QED
  BY <1>9, <1>10, <1>12

LEMMA DataStore ==
  ASSUME CleanRestarts, TypeOK, PlaceInv, StoreInv, Data
  PROVE  StoreInv'
<1> USE DEF TypeOK, PlaceInv, StoreInv
<1>1. /\ pc = "data" /\ cut = FALSE /\ cut' = cut /\ Return("ok")
      /\ Alone(Blocks) /\ Leads(act)
  BY DEF Data, RingInv, OnceInv, InCopy, InWrite, CallType
<1>2. /\ FlashType' /\ act \in Blocks /\ ste' = ste
      /\ \A c \in Blocks : DOMAIN log'[c] = DOMAIN log[c]
      /\ \A c \in Blocks : \A j \in DOMAIN log[c] :
            c # act \/ j # Len(log[act]) => log'[c][j] = log[c][j]
      /\ log'[act][Len(log[act])] = [log[act][Len(log[act])] EXCEPT !.val = req.val]
      /\ Len(log[act]) \in DOMAIN log[act] /\ req.val \in Vals
  BY DataOver
<1>3. \A c \in Blocks : \A j \in DOMAIN log[c] :
         log'[c][j].ste = log[c][j].ste /\ log'[c][j].id = log[c][j].id
  <2>1. log[act][Len(log[act])] \in Record_
    BY <1>2, LogFacts
  <2>2. /\ log'[act][Len(log[act])].ste = log[act][Len(log[act])].ste
        /\ log'[act][Len(log[act])].id = log[act][Len(log[act])].id
    BY <1>2, <2>1, Spoilt
  <2> QED
    BY <1>2, <2>2
<1>4. Alone(Blocks)'
  BY <1>1, <1>2, <1>3 DEF Alone, Valid
<1>5. \A c \in Blocks : log[c] = <<>> => log'[c] = <<>>
  BY <1>2, StillEmpty
<1>6. \E a \in Blocks : Leads(a)'
  <2>1. \A a \in Blocks : a = act => Leads(a)'
    BY <1>1, <1>2, <1>5, NextInRing DEF Leads, Active
  <2> QED
    BY <1>2, <2>1
<1> QED
  BY <1>1, <1>4, <1>6, ReturnStore

LEMMA BeginStore ==
  ASSUME CleanRestarts, TypeOK, PlaceInv, StoreInv, BeginFormat \/ \E i \in Ids : Delete(i)
  PROVE  StoreInv'
<1> USE DEF TypeOK, PlaceInv, StoreInv
<1>1. /\ pc = "idle" /\ cut = FALSE /\ log' = log /\ ste' = ste /\ before' = View
      /\ UNCHANGED <<act, cut>>
  BY DEF BeginFormat, Delete, MayWrite, flash, CallType
<1>2. Alone(Blocks) /\ Alone(Blocks)' /\ Active' = Active
  BY <1>1, SameLog DEF OnceInv, Active
<1>3. \A j \in Ids : Shows(j, before[j])'
  <2> SUFFICES ASSUME NEW j \in Ids PROVE Shows(j, before[j])'
    OBVIOUS
  <2>1. Shows(j, before'[j])
    BY <1>1, <1>2, AloneShows DEF View
  <2> QED
    BY <1>1, <2>1 DEF Shows, Agrees, Valid
<1>4. CASE BeginFormat
  <2>1. pc' = "fmt" /\ src' = 0
    BY <1>4 DEF BeginFormat
  <2>2. \A b \in 0 .. src' - 1 : FALSE
    BY <2>1
  <2>3. RingInv'
    BY <1>1, <2>1, <2>2 DEF RingInv, Fresh, InWrite, InCopy
  <2>4. OnceInv' /\ OldInv'
    BY <1>2, <2>1 DEF OnceInv, OldInv, Fresh, InCopy
  <2>5. \A j \in Ids : Agrees(j, before[j])'
    BY <1>3 DEF Shows
  <2>6. KeptInv'
    BY <2>1, <2>5 DEF KeptInv, Fresh, InWrite
  <2> QED
    BY <2>3, <2>4, <2>6
<1>5. ASSUME NEW i \in Ids, Delete(i) PROVE StoreInv'
  <2>1. pc' = "del" /\ req'.id = i /\ old' = AdrOf(i) /\ Hits(i) # {}
    BY <1>5 DEF Delete
  <2>2. RingInv'
    <3>1. NoneActive' \/ \E a \in Blocks : Leads(a)'
      BY <1>1, <1>2 DEF RingInv, NoneActive, Empty, Leads
    <3> QED
      BY <1>1, <2>1, <3>1 DEF RingInv, Fresh, InWrite, InCopy
  <2>3. OnceInv'
    BY <1>2, <2>1 DEF OnceInv, InCopy
  <2>4. OldInv'
    <3>1. \E k \in DOMAIN log'[old'[1]] : OldAt(old[1], k)'
      BY <1>1, <2>1, AdrFacts DEF OldAt, Valid
    <3> QED
      BY <2>1, <3>1 DEF OldInv, InCopy, Fresh
  <2>5. KeptInv'
    <3>1. req'.id \in Ids
      BY <2>1
    <3> QED
      BY <1>3, <2>1, <3>1 DEF KeptInv, Fresh, InWrite
  <2> QED
    BY <2>2, <2>3, <2>4, <2>5
<1> QED
  BY <1>4, <1>5

LEMMA FormatStore ==
  ASSUME CleanRestarts, TypeOK, PlaceInv, StoreInv, TypeOK', PlaceInv', FormatErase
  PROVE  StoreInv'
<1> USE DEF TypeOK, PlaceInv, StoreInv
<1>1. /\ pc = "fmt" /\ Erase(src) /\ src' = src + 1 /\ cut = FALSE
      /\ UNCHANGED <<req, old, act, before, cut>>
      /\ pc' = "fmt" \/ (pc' = "fmtmark" /\ src + 1 = N)
  BY DEF FormatErase, RingInv, CallType
<1>2. src \in Blocks
  BY <1>1 DEF CallInv
<1>3. Shrinks /\ Alone(Blocks)'
  BY <1>1, <1>2, EraseShrinks, ShrinksTo DEF OnceInv, InCopy
<1>4. \A b \in 0 .. src' - 1 : ste'[b] = "idle"
  <2> SUFFICES ASSUME NEW b \in 0 .. src' - 1 PROVE ste'[b] = "idle"
    OBVIOUS
  <2>1. src \in Nat /\ src < N /\ b \in Blocks /\ (b # src => b \in 0 .. src - 1)
    BY <1>1, <1>2, Bounds DEF Blocks
  <2>2. CASE b = src
    BY <1>1, <1>2, <2>2, EraseFacts
  <2>3. CASE b # src
    <3>1. ste[b] = "idle"
      BY <1>1, <2>1, <2>3 DEF RingInv
    <3> QED
      BY <1>1, <1>2, <2>1, <2>3, <3>1, EraseFacts
  <2> QED
    BY <2>2, <2>3
<1>5. RingInv'
  <2>1. pc' = "fmtmark" => NoneActive'
    <3> SUFFICES ASSUME pc' = "fmtmark" PROVE NoneActive'
      OBVIOUS
    <3>1. \A b \in Blocks : ste'[b] = "idle"
      BY <1>1, <1>4 DEF Blocks
    <3>2. \A b \in Blocks : log'[b] = <<>>
      BY <3>1 DEF Layout
    <3> QED
      BY <3>1, <3>2 DEF NoneActive, Active, Empty
  <2> QED
    BY <1>1, <1>4, <2>1 DEF RingInv, Fresh, InWrite, InCopy
<1>6. OnceInv' /\ OldInv'
  BY <1>1, <1>3 DEF OnceInv, OldInv, Fresh, InCopy
<1>7. KeptInv'
  <2>1. \A i \in Ids : Agrees(i, before[i])'
    BY <1>1, <1>3 DEF KeptInv, Shrinks, Agrees, Valid
  <2> QED
    BY <1>1, <2>1 DEF KeptInv, Fresh, InWrite
<1> QED
  BY <1>5, <1>6, <1>7

LEMMA FormatMarkStore ==
  ASSUME CleanRestarts, TypeOK, PlaceInv, StoreInv, FormatMark
  PROVE  StoreInv' /\ Empty'
<1> USE DEF TypeOK, PlaceInv, StoreInv
<1>1. /\ pc = "fmtmark" /\ MarkAs(0, "active") /\ Return("ok") /\ cut' \in BOOLEAN
      /\ NoneActive
  BY DEF FormatMark, RingInv, CallType
<1>2. 0 \in Blocks /\ log' = log
  BY <1>1, Bounds DEF Blocks, MarkAs
<1>3. Empty'
  BY <1>1, <1>2 DEF NoneActive, Empty
<1>4. Alone(Blocks)'
  BY <1>3 DEF Alone, Empty
<1>5. Active' = {0}
  BY <1>1, <1>2, ActiveNext DEF NoneActive
<1>6. Leads(0)'
  BY <1>2, <1>3, <1>5, NextInRing DEF Leads, Empty
<1> QED
  BY <1>1, <1>2, <1>3, <1>4, <1>6, ReturnStore

(* A failure outside of WriteAfter sets cut; any other leaves a ring that a *)
(* later call goes on with.                                                 *)
LEMMA CutStore ==
  ASSUME CleanRestarts, TypeOK, PlaceInv, StoreInv, Cut
  PROVE  StoreInv'
<1> USE DEF TypeOK, PlaceInv, StoreInv
<1>1. /\ Place \in CutAt /\ log' = log /\ ste' = ste /\ Return("failed")
      /\ cut' = (cut \/ Place \notin WriteAfter)
  BY DEF Cut, CleanRestarts, flash
<1>2. cut' \in BOOLEAN
  BY <1>1
<1>3. Active' = Active
  BY <1>1 DEF Active
<1>4. Place \in Steps /\ pc \in Steps \ {"start"}
  BY <1>1, SfsAssumption DEF SfsAssumption, Steps, CallType, Place
<1>5. ASSUME ~ cut'
      PROVE  Alone(Blocks)' /\ (NoneActive' \/ \E a \in Blocks : Leads(a)')
  <2>1. ~ cut /\ Place \notin {"copy", "eraseold", "fmt"}
    BY <1>1, <1>5 DEF CleanRestarts
  <2>2. CASE pc = "copy" /\ src = 1
    <3>1. act \in Blocks /\ Active = {act, Target} /\ log[Target] = <<>> /\ CopyInv
      BY <2>2 DEF CallInv, InWrite, RingInv, OnceInv, InCopy
    <3>2. Alone(Blocks)
      BY <3>1 DEF CopyInv, Alone
    <3>3. Alone(Blocks)'
      BY <1>1, <3>2, SameLog
    <3>4. Leads(act)
      BY <3>1 DEF Leads, Target
    <3>5. \E a \in Blocks : Leads(a)
      BY <3>1, <3>4
    <3> QED
      BY <1>1, <1>3, <3>3, <3>5 DEF Leads
  <2>3. CASE ~ (pc = "copy" /\ src = 1)
    <3>1. pc \notin {"copy", "eraseold", "fmt", "idle"}
      BY <1>4, <2>1, <2>3 DEF Place, Steps
    <3>2. Alone(Blocks)
      BY <3>1 DEF OnceInv, InCopy
    <3>3. Alone(Blocks)'
      BY <1>1, <3>2, SameLog
    <3>4. NoneActive \/ \E a \in Blocks : Leads(a)
      <4>1. CASE pc \in Fresh \union {"del", "fmtmark"}
        BY <2>1, <4>1 DEF RingInv
      <4>2. CASE pc \in InWrite \ InCopy
        BY <4>2 DEF RingInv, CallInv
      <4> QED
        BY <1>4, <3>1, <4>1, <4>2 DEF Fresh, InWrite, InCopy, Steps
    <3> QED
      BY <1>1, <1>3, <3>3, <3>4 DEF Leads, NoneActive, Empty
  <2> QED
    BY <2>2, <2>3
<1> QED
  BY <1>1, <1>2, <1>5, ReturnStore

LEMMA StoreStep ==
  ASSUME CleanRestarts, TypeOK, PlaceInv, StoreInv, TypeOK', PlaceInv', [Next]_vars
  PROVE  StoreInv'
<1>1. CASE \E i \in Ids, v \in Vals : Write(i, v)
  BY <1>1, WriteStore
<1>2. CASE EraseFirst \/ MarkFirst
  BY <1>2, FirstStore
<1>3. CASE EraseNext \/ MarkNext
  BY <1>3, TurnStore
<1>4. CASE Copy
  BY <1>4, CopyTurn
<1>5. CASE MarkFull
  BY <1>5, FullStore
<1>6. CASE EraseOld
  BY <1>6, ClearStore
<1>7. CASE Invalidate
  BY <1>7, InvalidateStore
<1>8. CASE Header
  BY <1>8, HeaderStore
<1>9. CASE Data
  BY <1>9, DataStore
<1>10. CASE Remove
  BY <1>10, RemoveStore
<1>11. CASE BeginFormat \/ \E i \in Ids : Delete(i)
  BY <1>11, BeginStore
<1>12. CASE FormatErase
  BY <1>12, FormatStore
<1>13. CASE FormatMark
  BY <1>13, FormatMarkStore
<1>14. CASE Cut
  BY <1>14, CutStore
<1>15. CASE UNCHANGED vars
  <2>1. RingInv'
    BY <1>15 DEF vars, StoreInv, RingInv, NoneActive, Empty, Leads, Active, Target
  <2>2. OnceInv'
    BY <1>15 DEF vars, StoreInv, OnceInv, CopyInv, Alone, Valid, IsCopyOf, Target, Source
  <2>3. OldInv'
    BY <1>15 DEF vars, StoreInv, OldInv, OldAt, Valid, Source
  <2>4. KeptInv'
    BY <1>15 DEF vars, StoreInv, KeptInv, Shows, Agrees, Valid
  <2> QED
    BY <2>1, <2>2, <2>3, <2>4 DEF StoreInv
<1> QED
  BY <1>1, <1>2, <1>3, <1>4, <1>5, <1>6, <1>7, <1>8, <1>9, <1>10, <1>11, <1>12, <1>13,
     <1>14, <1>15 DEF Next

LEMMA StoreHolds ==
  ASSUME CleanRestarts
  PROVE  Spec => [](TypeOK /\ PlaceInv /\ StoreInv)
<1>1. Init => TypeOK /\ PlaceInv /\ StoreInv
  BY SfsInit, StoreInit
<1>2. TypeOK /\ PlaceInv /\ StoreInv /\ [Next]_vars => (TypeOK /\ PlaceInv /\ StoreInv)'
  BY PlaceStep, StoreStep
<1> QED
  BY <1>1, <1>2, PTL DEF Spec

(* Wherever the ring has gone since the search of sfs_Write, and however    *)
(* often it was interrupted before: the address of the old record is that   *)
(* of a valid record of the identity when the ring skips it and when        *)
(* INVALID is programmed there.                                             *)
THEOREM SfsOldIsThere ==
  ASSUME CleanRestarts
  PROVE  Spec => []OldIsThere
<1>1. StoreInv => OldIsThere
  <2> SUFFICES ASSUME StoreInv, pc \in {"next", "mark", "copy", "eraseold", "inval", "del"},
                      old # NoAdr
               PROVE  \E k \in DOMAIN log[old[1]] :
                         /\ log[old[1]][k].at = old[2] /\ log[old[1]][k].ste = "valid"
                         /\ log[old[1]][k].id = req.id
    BY DEF OldIsThere
  <2>1. PICK k \in DOMAIN log[old[1]] : OldAt(old[1], k)
    BY DEF StoreInv, OldInv
  <2> QED
    BY <2>1 DEF OldAt, Valid
<1> QED
  BY <1>1, StoreHolds, PTL

(* Between two calls no identity has two valid records, however many turns  *)
(* the ring has made and wherever, outside of the copies, calls have failed. *)
THEOREM SfsOneValid ==
  ASSUME CleanRestarts
  PROVE  Spec => []OneValid
<1>1. TypeOK /\ PlaceInv /\ StoreInv => OneValid
  <2> SUFFICES ASSUME TypeOK, PlaceInv, StoreInv, pc = "idle", ~ cut, NEW i \in Ids
               PROVE  Cardinality(Hits(i)) <= 1
    BY DEF OneValid
  <2>1. Alone(Blocks)
    BY DEF StoreInv, OnceInv
  <2>2. \A x, y \in Hits(i) : x = y
    BY <2>1, HitFacts DEF Alone, TypeOK, PlaceInv
  <2>3. CASE Hits(i) = {}
    BY <2>3, FS_EmptySet
  <2>4. CASE Hits(i) # {}
    <3>1. PICK x \in Hits(i) : TRUE
      BY <2>4
    <3>2. Hits(i) = {x}
      BY <2>2, <3>1
    <3>3. Cardinality({x}) = 1
      BY FS_Singleton
    <3> QED
      BY <3>2, <3>3
  <2> QED
    BY <2>3, <2>4
<1> QED
  BY <1>1, StoreHolds, PTL

-----------------------------------------------------------------------------
(* The table.  What holds of the records says what is read, in this state   *)
(* and in the next.                                                         *)
LEMMA Reads ==
  TypeOK /\ PlaceInv => \A i \in Ids : \A v :
      /\ Shows(i, v) => Read(i) = v
      /\ Agrees(i, v) => Read(i) \in {v, None}
  BY ShowsRead, AgreesRead DEF TypeOK, PlaceInv

LEMMA ReadsNext ==
  (TypeOK /\ PlaceInv => \A i \in Ids : \A v :
      /\ Shows(i, v) => Read(i) = v
      /\ Agrees(i, v) => Read(i) \in {v, None})'
  BY Reads, PTL

LEMMA ViewIs ==
  ASSUME NEW w, before \in [Ids -> Vals \union {None, Blank}],
         \A i \in Ids : Read(i)' = IF i = req.id THEN w ELSE before[i]
  PROVE  View' = [before EXCEPT ![req.id] = w]
<1>1. View' = [i \in Ids |-> Read(i)']
  BY DEF View
<1> QED
  BY <1>1

(* What Kv calls its store.                                                 *)
Table == IF pc = "idle" THEN View ELSE before

LEMMA KvInit == Init => Kv!Init
<1> SUFFICES ASSUME Init PROVE Kv!Init
  OBVIOUS
<1>1. TypeOK /\ PlaceInv /\ Empty
  BY SfsInit DEF Init, Empty
<1>2. \A i \in Ids : Read(i) = None
  BY <1>1, ShowsRead, EmptyShows DEF TypeOK, PlaceInv
<1>3. View = [i \in Ids |-> None]
  BY <1>2 DEF View
<1> QED
  BY <1>3 DEF Init, Kv!Init

(* The steps on the way: what is read between two of them is in no call's   *)
(* way, for a call holds the lock.                                          *)
LEMMA KvInner ==
  ASSUME pc # "idle", pc' # "idle", UNCHANGED <<req, res, before>>
  PROVE  UNCHANGED <<Table, req, res>>
  BY DEF Table

LEMMA KvBegin ==
  ASSUME TypeOK, PlaceInv,
         BeginFormat \/ (\E i \in Ids : Delete(i)) \/ \E i \in Ids, v \in Vals : Write(i, v)
  PROVE  Kv!Next
<1>1. /\ pc = "idle" /\ pc' # "idle" /\ before' = View /\ res' = res
      /\ req' \in [id : Ids, val : Vals \union {None}] \union {Format}
  <2>1. CASE BeginFormat
    BY <2>1 DEF BeginFormat, MayWrite
  <2>2. CASE \E i \in Ids : Delete(i)
    BY <2>2 DEF Delete, MayWrite
  <2>3. ASSUME NEW i \in Ids, NEW v \in Vals, Write(i, v)
        PROVE  /\ pc = "idle" /\ pc' # "idle" /\ before' = View /\ res' = res
               /\ req' \in [id : Ids, val : Vals \union {None}]
    <3>1. pc' \in {"erase0", "next", "head", "inval"}
      BY <2>3 DEF Write, Store
    <3> QED
      BY <2>3, <3>1 DEF Write, MayWrite
  <2> QED
    BY <2>1, <2>2, <2>3
<1>2. req = NoReq
  BY <1>1 DEF PlaceInv, CallInv
<1> QED
  BY <1>1, <1>2 DEF Kv!Next, Kv!Begin, Kv!Writes

(* What a call that ends finds at its begin and leaves.                     *)
LEMMA KvEnd ==
  ASSUME TypeOK, PlaceInv, pc # "idle", NEW r, Return(r)
  PROVE  /\ Table = before /\ Table' = View' /\ Kv!End(r) /\ req # NoReq
         /\ before \in [Ids -> Vals \union {None, Blank}]
         /\ req = Format \/ req \in Kv!Writes
  BY DEF Return, Table, Kv!End, Kv!Writes, PlaceInv, CallInv, TypeOK, CallType

LEMMA DataShows ==
  ASSUME CleanRestarts, TypeOK, PlaceInv, StoreInv, Data, NEW i \in Ids,
         NEW v, v = IF i = req.id THEN req.val ELSE before[i]
  PROVE  Shows(i, v)'
<1> USE DEF TypeOK, PlaceInv, StoreInv
<1> DEFINE n == Len(log[act])
<1>1. /\ act \in Blocks /\ Alone(Blocks) /\ n \in DOMAIN log[act] /\ pc = "data"
      /\ \A c \in Blocks : DOMAIN log'[c] = DOMAIN log[c]
      /\ \A c \in Blocks : \A j \in DOMAIN log[c] :
            c # act \/ j # n => log'[c][j] = log[c][j]
      /\ log'[act][n] = [log[act][n] EXCEPT !.val = req.val] /\ req.val \in Vals
  BY DataOver DEF Data, OnceInv, InCopy
<1>2. /\ Valid(act, n) /\ log[act][n].id = req.id
      /\ log'[act][n].ste = "valid" /\ log'[act][n].id = req.id /\ log'[act][n].val = req.val
  <2>1. Valid(act, n) /\ log[act][n].id = req.id /\ log[act][n] \in Record_
    BY <1>1, LogFacts DEF KeptInv
  <2> QED
    BY <1>1, <2>1, Spoilt DEF Valid
<1> HIDE DEF n
<1>3. CASE i = req.id
  <2>1. ASSUME NEW c \in Blocks, NEW j \in DOMAIN log'[c], log'[c][j].ste = "valid",
               log'[c][j].id = i
        PROVE  log'[c][j].val = v
    <3>1. CASE c = act /\ j = n
      BY <1>2, <1>3, <3>1
    <3>2. CASE ~ (c = act /\ j = n)
      <4>1. j \in DOMAIN log[c] /\ log'[c][j] = log[c][j]
        BY <1>1, <3>2
      <4>2. Valid(c, j) /\ log[c][j].id = log[act][n].id
        BY <1>2, <1>3, <2>1, <4>1 DEF Valid
      <4> QED
        BY <1>1, <1>2, <3>2, <4>1, <4>2 DEF Alone
    <3> QED
      BY <3>1, <3>2
  <2>2. \E c \in Blocks : \E j \in DOMAIN log'[c] : log'[c][j].ste = "valid" /\ log'[c][j].id = i
    BY <1>1, <1>2, <1>3
  <2> QED
    BY <2>1, <2>2 DEF Shows, Agrees, Valid
<1>4. CASE i # req.id
  <2>1. Shows(i, v)
    BY <1>1, <1>4 DEF KeptInv, InWrite
  <2>2. \A c \in Blocks : \A j \in DOMAIN log[c] :
           /\ log'[c][j].id = i => c # act \/ j # n
           /\ log[c][j].id = i => c # act \/ j # n
    BY <1>2, <1>4
  <2> QED
    BY <1>1, <2>1, <2>2 DEF Shows, Agrees, Valid
<1> QED
  BY <1>3, <1>4

LEMMA RemoveShows ==
  ASSUME CleanRestarts, TypeOK, PlaceInv, StoreInv, Remove, NEW i \in Ids,
         NEW v, v = IF i = req.id THEN req.val ELSE before[i]
  PROVE  Shows(i, v)'
<1>1. /\ Shrinks
      /\ \A c \in Blocks : \A j \in DOMAIN log'[c] :
            log'[c][j].ste = "valid" => log'[c][j].id # req.id
      /\ \A c \in Blocks : \A j \in DOMAIN log[c] : Valid(c, j) /\ log[c][j].id # req.id =>
            j \in DOMAIN log'[c] /\ log'[c][j] = log[c][j]
  BY RemoveKeeps
<1>2. pc = "del" /\ req.val = None
  BY DEF Remove, PlaceInv, CallInv
<1>3. CASE i = req.id
  BY <1>1, <1>2, <1>3 DEF Shows, Agrees, Valid
<1>4. CASE i # req.id
  <2>1. Shows(i, v)
    BY <1>2, <1>4 DEF StoreInv, KeptInv
  <2>2. Agrees(i, v)'
    BY <1>1, <2>1, ShrinksTo DEF Shows
  <2> QED
    BY <1>1, <1>4, <2>1, <2>2 DEF Shows, Valid
<1> QED
  BY <1>3, <1>4

LEMMA KvWritten ==
  ASSUME CleanRestarts, TypeOK, PlaceInv, StoreInv, TypeOK', PlaceInv', Data \/ Remove
  PROVE  Kv!Next
<1>1. Return("ok") /\ pc \in {"data", "del"}
  BY DEF Data, Remove
<1>2. /\ Table = before /\ Table' = View' /\ Kv!End("ok")
      /\ before \in [Ids -> Vals \union {None, Blank}]
      /\ req \in Kv!Writes
  BY <1>1, KvEnd DEF PlaceInv, CallInv
<1>3. \A i \in Ids : Read(i)' = IF i = req.id THEN req.val ELSE before[i]
  <2> SUFFICES ASSUME NEW i \in Ids, NEW v, v = IF i = req.id THEN req.val ELSE before[i]
               PROVE  Shows(i, v)'
    BY ReadsNext
  <2> QED
    BY DataShows, RemoveShows
<1>4. View' = [before EXCEPT ![req.id] = req.val]
  BY <1>2, <1>3, ViewIs
<1> QED
  BY <1>2, <1>4 DEF Kv!Next, Kv!Written, Table

(* SYS_R_FULL: the record to replace is still there, or it was in the block *)
(* that has just been erased.                                               *)
LEMMA KvRefused ==
  ASSUME CleanRestarts, TypeOK, PlaceInv, StoreInv, TypeOK', PlaceInv', EraseOld, Return("full")
  PROVE  Kv!Next
<1>1. pc = "eraseold"
  BY DEF EraseOld
<1>2. /\ Table = before /\ Table' = View' /\ Kv!End("full")
      /\ before \in [Ids -> Vals \union {None, Blank}]
      /\ req \in Kv!Writes /\ req.val # None /\ req.id \in Ids
  BY <1>1, KvEnd, NoneIsNoVal DEF PlaceInv, CallInv, InWrite, Kv!Writes
<1>3. /\ Shrinks
      /\ \A b \in Blocks : \A k \in DOMAIN log[b] : Valid(b, k) /\ log[b][k].id # req.id =>
            \E c \in Blocks : \E j \in DOMAIN log'[c] :
               log'[c][j].ste = "valid" /\ log'[c][j].id = log[b][k].id
  BY ClearKeeps
<1>4. ASSUME NEW i \in Ids, NEW v, v = before[i] PROVE Agrees(i, v)'
  <2>1. Agrees(i, v)
    BY <1>1, <1>4 DEF StoreInv, KeptInv, InWrite, Shows
  <2> QED
    BY <1>3, <2>1, ShrinksTo
<1>5. ASSUME NEW i \in Ids \ {req.id}, NEW v, v = before[i] PROVE Shows(i, v)'
  <2>1. Shows(i, v)
    BY <1>1, <1>5 DEF StoreInv, KeptInv, InWrite
  <2> QED
    BY <1>3, <1>4, <1>5, <2>1 DEF Shows, Valid
<1>6. \A i \in Ids : Read(i)' \in {before[i], None}
  BY <1>4, ReadsNext
<1>7. \A i \in Ids \ {req.id} : Read(i)' = before[i]
  BY <1>5, ReadsNext
<1>8. PICK w \in {before[req.id], None} :
        \A i \in Ids : Read(i)' = IF i = req.id THEN w ELSE before[i]
  BY <1>2, <1>6, <1>7
<1>9. View' = [before EXCEPT ![req.id] = w]
  BY <1>2, <1>8, ViewIs
<1> QED
  BY <1>2, <1>8, <1>9 DEF Kv!Next, Kv!Refused, Table

LEMMA KvFormatted ==
  ASSUME CleanRestarts, TypeOK, PlaceInv, StoreInv, TypeOK', PlaceInv', FormatMark
  PROVE  Kv!Next
<1>1. pc = "fmtmark" /\ Return("ok") /\ Empty'
  BY FormatMarkStore DEF FormatMark
<1>2. Table' = View' /\ Kv!End("ok") /\ req = Format
  BY <1>1, KvEnd DEF PlaceInv, CallInv
<1>3. \A i \in Ids : \A v : v = None => Shows(i, v)'
  BY <1>1 DEF Empty, Shows, Agrees
<1>4. \A i \in Ids : Read(i)' = None
  BY <1>3, ReadsNext
<1>5. View' = [i \in Ids |-> Read(i)']
  BY DEF View
<1> QED
  BY <1>2, <1>4, <1>5 DEF Kv!Next, Kv!Formatted, Table

(* A failure leaves on the flash what the step before it has left there:    *)
(* for the record that is written, its old content, nothing, or a header    *)
(* without data.                                                            *)
LEMMA CutWrites ==
  ASSUME TypeOK, PlaceInv, StoreInv, pc \in Fresh \union InWrite \union {"del"}
  PROVE  \E w \in {before[req.id], None, Blank} :
            \A i \in Ids : Read(i) = IF i = req.id THEN w ELSE before[i]
<1> USE DEF TypeOK, PlaceInv, StoreInv
<1>1. \A i \in Ids \ {req.id} : Read(i) = before[i]
  BY Reads DEF KeptInv
<1>2. req.id \in Ids
  BY DEF CallInv, CallType, Fresh, InWrite
<1>3. Read(req.id) \in {before[req.id], None, Blank}
  <2>1. CASE pc = "data"
    <3>1. /\ Valid(act, Len(log[act])) /\ log[act][Len(log[act])].id = req.id
          /\ log[act][Len(log[act])].val = Blank /\ act \in Blocks /\ Alone(Blocks)
      BY <2>1 DEF KeptInv, CallInv, InWrite, OnceInv, InCopy
    <3>2. Shows(req.id, Blank)
      BY <3>1 DEF Shows, Agrees, Alone, Valid
    <3> QED
      BY <1>2, <3>2, Reads
  <2>2. CASE pc = "del"
    BY <1>2, <2>2, Reads DEF KeptInv
  <2>3. CASE pc \in (Fresh \union InWrite) \ {"data"}
    BY <1>2, <2>3, Reads DEF KeptInv
  <2> QED
    BY <2>1, <2>2, <2>3
<1> QED
  BY <1>1, <1>2, <1>3

LEMMA KvCut ==
  ASSUME CleanRestarts, TypeOK, PlaceInv, StoreInv, Cut
  PROVE  Kv!Next
<1>1. Place \in CutAt /\ log' = log /\ ste' = ste /\ Return("failed")
  BY DEF Cut, CleanRestarts, flash
<1>2. pc \in Steps \ {"start"}
  BY <1>1, SfsAssumption DEF SfsAssumption, Steps, TypeOK, CallType, Place
<1>3. /\ Table = before /\ Table' = View' /\ Kv!End("failed") /\ req # NoReq
      /\ before \in [Ids -> Vals \union {None, Blank}]
      /\ req = Format \/ req \in Kv!Writes
  BY <1>1, <1>2, KvEnd DEF Steps
<1>4. View' = [i \in Ids |-> Read(i)]
  BY <1>1 DEF View, Read, Hits, IsHit, Found, Precedes
<1>5. CASE pc \in Fresh \union InWrite \union {"del"}
  <2>1. req \in Kv!Writes
    BY <1>3, <1>5 DEF PlaceInv, CallInv, Fresh, InWrite
  <2>2. PICK w \in {before[req.id], None, Blank} :
          \A i \in Ids : Read(i) = IF i = req.id THEN w ELSE before[i]
    BY <1>5, CutWrites
  <2>3. View' = [before EXCEPT ![req.id] = w]
    BY <1>3, <1>4, <2>2
  <2> QED
    BY <1>3, <2>1, <2>2, <2>3 DEF Kv!Next, Kv!Cut, Table
<1>6. CASE pc \in {"fmt", "fmtmark"}
  <2> DEFINE gone == {i \in Ids : Read(i) = None}
  <2>1. \A i \in Ids : Read(i) \in {before[i], None}
    BY <1>6, Reads DEF StoreInv, KeptInv
  <2>2. View' = [i \in Ids |-> IF i \in gone THEN None ELSE before[i]]
    BY <1>4, <2>1
  <2>3. req = Format /\ gone \in SUBSET Ids
    BY <1>6 DEF PlaceInv, CallInv
  <2> HIDE DEF gone
  <2> QED
    BY <1>3, <2>2, <2>3 DEF Kv!Next, Kv!Cut, Table
<1> QED
  BY <1>2, <1>5, <1>6 DEF Steps, Fresh, InWrite

(* The records in flash are a table: every call of sfs_Write, sfs_Delete    *)
(* and sfs_Init is one change of the table, made in its last step, whatever *)
(* the ring has moved on the way; and a call that fails leaves no record in *)
(* doubt but its own.                                                       *)
THEOREM SfsIsKv ==
  ASSUME CleanRestarts
  PROVE  Spec => ImplementsKv
<1> DEFINE Inv == TypeOK /\ PlaceInv /\ StoreInv
<1>1. Inv /\ Inv' /\ [Next]_vars => [Kv!Next]_<<Table, req, res>>
  <2> SUFFICES ASSUME TypeOK, PlaceInv, StoreInv, TypeOK', PlaceInv', [Next]_vars
               PROVE  Kv!Next \/ UNCHANGED <<Table, req, res>>
    OBVIOUS
  <2>1. CASE BeginFormat \/ (\E i \in Ids : Delete(i)) \/ \E i \in Ids, v \in Vals : Write(i, v)
    BY <2>1, KvBegin
  <2>2. CASE EraseFirst \/ MarkFirst \/ EraseNext \/ MarkNext \/ MarkFull
    <3>1. pc \in Fresh \union InWrite /\ UNCHANGED <<req, res, before>> /\ pc' # "idle"
      BY <2>2 DEF EraseFirst, MarkFirst, EraseNext, MarkNext, MarkFull, Goto, Store, Fresh, InWrite
    <3> QED
      BY <3>1, KvInner DEF Fresh, InWrite
  <2>3. CASE Copy
    BY <2>3, KvInner DEF Copy
  <2>4. CASE EraseOld
    <3>1. CASE Return("full")
      BY <2>4, <3>1, KvRefused
    <3>2. CASE ~ Return("full")
      <4>1. pc = "eraseold" /\ UNCHANGED <<req, res, before>> /\ pc' # "idle"
        BY <2>4, <3>2 DEF EraseOld, Store
      <4> QED
        BY <4>1, KvInner
    <3> QED
      BY <3>1, <3>2
  <2>5. CASE Invalidate \/ Header \/ FormatErase
    <3>1. pc \in {"inval", "head", "fmt"} /\ UNCHANGED <<req, res, before>> /\ pc' # "idle"
      BY <2>5 DEF Invalidate, Header, FormatErase, Goto
    <3> QED
      BY <3>1, KvInner
  <2>6. CASE Data \/ Remove
    BY <2>6, KvWritten
  <2>7. CASE FormatMark
    BY <2>7, KvFormatted
  <2>8. CASE Cut
    BY <2>8, KvCut
  <2>9. CASE UNCHANGED vars
    <3>1. View' = View
      BY <2>9 DEF vars, View, Read, Hits, IsHit, Found, Precedes
    <3> QED
      BY <2>9, <3>1 DEF vars, Table
  <2> QED
    BY <2>1, <2>2, <2>3, <2>4, <2>5, <2>6, <2>7, <2>8, <2>9 DEF Next
<1> QED
  BY <1>1, KvInit, StoreHolds, PTL DEF Spec, ImplementsKv, Kv!Spec, Table
=============================================================================
