----------------------------- MODULE Log_proofs -----------------------------
(***************************************************************************)
(* Proofs about Log for a ring of any size: the entries that the index     *)
(* counts are held through power failures, and log_Read delivers the next; *)
(* and what both do when the record of the index or of the mark is lost.   *)
(***************************************************************************)
EXTENDS LogSafe, TLAPS

(* The records a call has yet to write: the entry and the index that counts *)
(* it, the first index of log_Init, the mark.                               *)
Entry == [id |-> nIdx % QTY, val |-> count]
Index == [id |-> INDEX, val |-> (nIdx + 1) % MOD]
First == [id |-> INDEX, val |-> 0]
Mark  == [id |-> READ, val |-> next]

Types ==
    /\ store \in [Slots \union {INDEX, READ} -> Words \union {None, Blank}]
    /\ pc \in {"off", "init", "idle"}
    /\ count \in 0 .. MaxWrites
    /\ entries \in Seq(Nat \union {None}) /\ Len(entries) <= count
    /\ next \in Words /\ lost \in BOOLEAN /\ refused \in BOOLEAN

Nothing  == plan = <<>> /\ busy = NoReq
Founding ==
    \/ plan = <<Format, First>> /\ busy = NoReq
    \/ plan = <<First>> /\ busy \in {Format, NoReq}
    \/ plan = <<>> /\ busy = First
Marking  == (plan = <<Mark>> /\ busy = NoReq) \/ (plan = <<>> /\ busy = Mark)
Entering ==
    \/ plan = <<Entry, Index>> /\ busy = NoReq
    \/ plan = <<Index>> /\ busy = Entry
Counting == (plan = <<Index>> /\ busy = NoReq) \/ (plan = <<>> /\ busy = Index)

(* Where a call stands.  A mark being set does not lie beyond the index.    *)
PlanInv ==
    \/ Nothing /\ next = nRead
    \/ pc = "init" /\ Founding /\ next = nRead /\ store[INDEX] = None
    \/ pc = "idle" /\ Marking /\ next <= nIdx
    \/ /\ pc = "idle" /\ (Entering \/ Counting)
       /\ Len(entries) < count /\ next = nRead

(* What the index counts: nothing, when its record is lost.                 *)
IndexHeld ==
    \/ store[INDEX] = Len(entries)
    \/ store[INDEX] = None /\ entries = <<>>
    \/ store[INDEX] = Blank /\ entries = <<>> /\ lost

RingHeld == \A k \in 1 .. Len(entries) :
    k > Len(entries) - (QTY - 1) /\ entries[k] # None => store[(k - 1) % QTY] = entries[k]

(* The mark is beyond the index only when one of them was lost.             *)
MarkHeld == lost \/ store[READ] = Blank \/ nRead <= nIdx

(* The entry is in its record before it is counted.                         *)
EntryHeld == pc = "idle" /\ Counting => refused \/ store[nIdx % QTY] = count

StoreInv == IndexHeld /\ RingHeld /\ MarkHeld /\ EntryHeld

Inv == Types /\ PlanInv /\ StoreInv

-----------------------------------------------------------------------------
LEMMA Sizes ==
    /\ QTY \in Nat /\ MOD \in Nat /\ MaxWrites \in Nat /\ 1 < QTY /\ MaxWrites < MOD
    /\ INDEX \notin Slots /\ READ \notin Slots /\ INDEX # READ
    /\ 0 \in Words /\ MOD - 1 \in Words /\ Words \subseteq Nat
    /\ None \notin Words /\ Blank \notin Words /\ None # Blank
<1>1. QTY \in Nat /\ MOD \in Nat /\ MaxWrites \in Nat /\ 1 < QTY /\ MaxWrites < MOD
  BY LogAssumption DEF LogAssumption
<1>2. None \notin Words /\ Blank \notin Words /\ None # Blank
  BY LogAssumption DEF LogAssumption
<1> QED
  BY <1>1, <1>2 DEF INDEX, READ, Slots, Words

LEMMA Requests ==
    /\ NoReq # Format
    /\ \A i \in Slots \union {INDEX, READ}, v \in Nat :
          [id |-> i, val |-> v] # NoReq /\ [id |-> i, val |-> v] # Format
    /\ Format \notin Kv!Writes /\ NoReq \notin Kv!Writes
<1>1. /\ NoReq # Format
      /\ {NoReq, Format} \intersect [id : Slots \union {INDEX, READ}, val : Nat \union {None}] = {}
  BY LogAssumption DEF LogAssumption
<1>2. Kv!Writes \subseteq [id : Slots \union {INDEX, READ}, val : Nat \union {None}]
  BY Sizes DEF Kv!Writes
<1> QED
  BY <1>1, <1>2

(* Entries less than a round apart are in different records.                *)
LEMMA Apart ==
  ASSUME NEW a \in Nat, NEW b \in Nat, a < b, b - a < QTY
  PROVE  a % QTY # b % QTY
<1> DEFINE q == a \div QTY
           r == b \div QTY
<1>1. QTY \in Nat /\ QTY > 0
  BY Sizes
<1>2. q \in Int /\ r \in Int /\ a = (QTY * q) + (a % QTY) /\ b = (QTY * r) + (b % QTY)
  BY <1>1
<1>3. ASSUME a % QTY = b % QTY PROVE FALSE
  <2>1. b - a = QTY * (r - q)
    BY <1>1, <1>2, <1>3
  <2>2. CASE r - q <= 0
    BY <1>1, <1>2, <2>1, <2>2
  <2>3. CASE r - q >= 1
    <3>1. QTY * (r - q) >= QTY
      BY <1>1, <1>2, <2>3
    <3> QED
      BY <3>1, <2>1, <1>1
  <2> QED
    BY <1>2, <2>2, <2>3
<1> QED
  BY <1>3

LEMMA SlotOf ==
  ASSUME NEW a \in Nat
  PROVE  a % QTY \in Slots
  BY Sizes DEF Slots

LEMMA Modulo ==
  ASSUME NEW a \in Nat
  PROVE  a % MOD \in Words /\ (a < MOD => a % MOD = a) /\ (a = MOD => a % MOD = 0)
  BY Sizes DEF Words

LEMMA ValueType ==
  ASSUME Types
  PROVE  nIdx \in Words /\ nRead \in Words
<1>1. store[INDEX] \in Words \union {None, Blank} /\ store[READ] \in Words \union {None, Blank}
  BY DEF Types
<1> QED
  BY <1>1, Sizes DEF nIdx, nRead, Value

(* The same after a step.                                                   *)
LEMMA ValueTypeNext ==
  ASSUME Types'
  PROVE  nIdx' \in Words /\ nRead' \in Words
<1>1. store'[INDEX] \in Words \union {None, Blank} /\ store'[READ] \in Words \union {None, Blank}
  BY DEF Types
<1> QED
  BY <1>1, Sizes DEF nIdx, nRead, Value

LEMMA CountType ==
  ASSUME Types
  PROVE  Len(entries) \in Words /\ Len(entries) \in Nat /\ count \in Words /\ count \in Nat
  BY Sizes DEF Types, Words

(* What the index reads as, by what it counts.                              *)
LEMMA IndexValue ==
  ASSUME Types, IndexHeld
  PROVE  /\ store[INDEX] # Blank => nIdx = Len(entries)
         /\ store[INDEX] = Blank => nIdx = MOD - 1 /\ entries = <<>> /\ lost
<1>1. Len(entries) \in Words /\ Len(entries) # None /\ Len(entries) # Blank
  BY CountType, Sizes
<1>2. CASE store[INDEX] = Len(entries)
  BY <1>1, <1>2 DEF nIdx, Value
<1>3. CASE store[INDEX] = None /\ entries = <<>>
  BY <1>1, <1>3, Sizes DEF nIdx, Value
<1>4. CASE store[INDEX] = Blank /\ entries = <<>> /\ lost
  <2>1. nIdx = MOD - 1
    BY <1>4, Sizes DEF nIdx, Value
  <2> QED
    BY <1>4, <2>1
<1> QED
  BY <1>2, <1>3, <1>4 DEF IndexHeld

LEMMA PutInWords ==
  ASSUME NEW v \in Words, NEW i
  PROVE  Put(i, v) = [id |-> i, val |-> v]
<1>1. v % MOD = v
  BY Sizes DEF Words
<1> QED
  BY <1>1 DEF Put

(* The records named in PlanInv are requests of the store.                  *)
LEMMA PlanType ==
  ASSUME Types
  PROVE  /\ {First, Mark, Entry, Index} \subseteq Kv!Writes
         /\ {NoReq, Format} \intersect {First, Mark, Entry, Index} = {}
         /\ Entry.id \in Slots /\ Index.val \in Words
<1>1. nIdx \in Nat /\ nIdx % QTY \in Slots /\ (nIdx + 1) % MOD \in Words
  <2>1. nIdx \in Nat
    BY ValueType, Sizes
  <2>2. nIdx % QTY \in Slots
    BY <2>1, SlotOf
  <2>3. nIdx + 1 \in Nat
    BY <2>1
  <2>4. (nIdx + 1) % MOD \in Words
    BY <2>3, Modulo
  <2> QED
    BY <2>1, <2>2, <2>4
<1>2. 0 \in Words /\ next \in Words /\ count \in Words
  BY CountType, Sizes DEF Types
<1>3. /\ {First, Mark, Entry, Index} \subseteq Kv!Writes
      /\ Entry.id \in Slots /\ Index.val \in Words
  BY <1>1, <1>2, Sizes DEF Kv!Writes, First, Mark, Entry, Index
<1> QED
  BY <1>3, Requests

(* The same after a step.                                                   *)
LEMMA PlanTypeNext ==
  ASSUME Types'
  PROVE  {NoReq, Format} \intersect {First', Mark', Entry', Index'} = {}
<1>1. nIdx' \in Nat /\ nIdx' % QTY \in Slots /\ (nIdx' + 1) % MOD \in Words
  <2>1. nIdx' \in Nat
    BY ValueTypeNext, Sizes
  <2>2. nIdx' % QTY \in Slots
    BY <2>1, SlotOf
  <2>4. (nIdx' + 1) % MOD \in Words
    <3>1. \A a \in Nat : (a + 1) % MOD \in Words
      BY Modulo
    <3> QED
      BY <2>1, <3>1
  <2> QED
    BY <2>1, <2>2, <2>4
<1>2. 0 \in Words /\ next' \in Words /\ count' \in Words
  BY Sizes DEF Types, Words
<1> QED
  BY <1>1, <1>2, Sizes, Requests DEF First, Mark, Entry, Index

(* The calls differ in the records they write.                              *)
LEMMA Distinct == First # Mark /\ Index # Mark /\ Entry.id = nIdx % QTY /\ Mark.id = READ
                  /\ Index.id = INDEX /\ First.id = INDEX /\ Mark.val = next /\ First.val = 0
  BY Sizes DEF First, Mark, Index, Entry

-----------------------------------------------------------------------------
LEMMA InvInit == Init => Inv
<1> SUFFICES ASSUME Init PROVE Inv
  OBVIOUS
<1> USE DEF Init, Kv!Init
<1>1. Types
  <2>1. store \in [Slots \union {INDEX, READ} -> Words \union {None, Blank}]
    OBVIOUS
  <2>2. entries \in Seq(Nat \union {None}) /\ Len(entries) = 0 /\ count = 0 /\ next = 0
    OBVIOUS
  <2>3. pc \in {"off", "init", "idle"}
    OBVIOUS
  <2>4. count \in 0 .. MaxWrites /\ Len(entries) <= count /\ next \in Words
    BY <2>2, Sizes
  <2>5. lost \in BOOLEAN /\ refused \in BOOLEAN
    BY Zenon
  <2> QED
    BY <2>1, <2>2, <2>3, <2>4, <2>5 DEF Types
<1>2. nRead = 0 /\ nIdx = 0
  BY Sizes DEF nRead, nIdx, Value
<1>3. PlanInv
  BY <1>2 DEF PlanInv, Nothing
<1>4. IndexHeld /\ RingHeld /\ MarkHeld /\ EntryHeld
  BY <1>2, Sizes DEF IndexHeld, RingHeld, MarkHeld, EntryHeld
<1> QED
  BY <1>1, <1>3, <1>4 DEF Inv, StoreInv

(* What is held does not change while the store and the index do not.       *)
LEMMA Untouched ==
  ASSUME UNCHANGED <<store, entries, lost>>
  PROVE  /\ IndexHeld' = IndexHeld /\ RingHeld' = RingHeld /\ MarkHeld' = MarkHeld
         /\ nIdx' = nIdx /\ nRead' = nRead
  BY DEF IndexHeld, RingHeld, MarkHeld, nRead, nIdx, Value

(* A call begins: the store is as it was, and the plan is made.             *)
LEMMA InitIndexStep ==
  ASSUME Inv, InitIndex
  PROVE  Inv'
<1>1. /\ plan = <<>> /\ busy = NoReq /\ busy' = NoReq /\ pc' = "init"
      /\ plan' = IF store[INDEX] = None THEN <<Format, Put(INDEX, 0)>> ELSE <<>>
      /\ UNCHANGED <<store, count, refused, entries, lost, next>>
  BY DEF InitIndex, Ready, kv, hist
<1>2. Put(INDEX, 0) = First
  BY PutInWords, Sizes DEF First
<1>3. Types'
  BY <1>1 DEF Inv, Types
<1>4. next = nRead
  BY <1>1, PlanType DEF Inv, PlanInv, Founding, Marking, Entering, Counting
<1>5. PlanInv'
  BY <1>1, <1>2, <1>4, Untouched DEF PlanInv, Nothing, Founding, First
<1>6. StoreInv'
  BY <1>1, Untouched DEF Inv, StoreInv, EntryHeld
<1> QED
  BY <1>3, <1>5, <1>6 DEF Inv

(* log_Init and the reading calls set the mark, or do nothing.              *)
LEMMA MarkBegins ==
  ASSUME Inv, busy = NoReq, UNCHANGED <<store, busy, count, refused, entries, lost>>,
         pc' = "idle", next' \in Words, next' <= nIdx,
         (plan' = <<>> /\ next' = nRead) \/ plan' = <<Put(READ, next')>>
  PROVE  Inv'
<1>1. Put(READ, next') = Mark'
  BY PutInWords DEF Mark
<1>2. Types'
  BY DEF Inv, Types
<1>3. nIdx' = nIdx /\ nRead' = nRead
  BY Untouched
<1>4. PlanInv'
  BY <1>1, <1>3 DEF PlanInv, Nothing, Marking
<1>5. ~ Counting'
  <2>1. NoReq # Index'
    BY <1>2, PlanTypeNext
  <2>2. Mark' # Index'
    BY Sizes DEF Mark, Index
  <2>3. plan' # <<Index'>>
    <3>1. \A x, y : <<x>> = <<y>> => x = y
      OBVIOUS
    <3> QED
      BY <1>1, <2>2, <3>1, Zenon
  <2> QED
    BY <2>1, <2>3 DEF Counting
<1>6. StoreInv'
  BY <1>5, Untouched DEF Inv, StoreInv, EntryHeld
<1> QED
  BY <1>2, <1>4, <1>6 DEF Inv

(* At rest reading goes on where the mark says.                             *)
LEMMA AtRest ==
  ASSUME Inv, plan = <<>>, busy = NoReq
  PROVE  next = nRead
  BY PlanType DEF Inv, PlanInv, Founding, Marking, Entering, Counting

LEMMA InitMarkStep ==
  ASSUME Inv, InitMark
  PROVE  Inv'
<1>1. /\ busy = NoReq /\ plan = <<>> /\ pc' = "idle"
      /\ plan' = IF store[READ] = None THEN <<Put(READ, 0)>> ELSE <<>>
      /\ UNCHANGED <<store, busy, count, refused, entries, lost, next>>
  BY DEF InitMark, Ready, kv, hist
<1>2. next = nRead /\ nIdx \in Words /\ nRead \in Words /\ next \in Words
  BY <1>1, AtRest, ValueType DEF Inv
<1>3. CASE store[READ] = None
  <2>1. next' = 0 /\ plan' = <<Put(READ, next')>>
    BY <1>1, <1>2, <1>3 DEF nRead, Value
  <2>2. next' <= nIdx
    BY <1>2, <2>1, Sizes DEF Words
  <2> QED
    BY <1>1, <1>2, <2>1, <2>2, MarkBegins
<1>4. CASE store[READ] # None
  <2>1. Types' /\ PlanInv'
    BY <1>1, <1>2, <1>4, Untouched DEF Inv, Types, PlanInv, Nothing
  <2>2. ~ Counting'
    BY <1>1, <1>4, <2>1, PlanTypeNext DEF Counting
  <2> QED
    BY <1>1, <2>1, <2>2, Untouched DEF Inv, StoreInv, EntryHeld
<1> QED
  BY <1>3, <1>4

LEMMA SetMarkStep ==
  ASSUME Inv, NEW v \in 0 .. nIdx, SetMark(v)
  PROVE  Inv'
<1>1. /\ busy = NoReq /\ pc' = "idle" /\ next' = v
      /\ plan' = <<Put(READ, next')>>
      /\ UNCHANGED <<store, busy, count, refused, entries, lost>>
  BY DEF SetMark, Idle, Ready, kv
<1>2. v \in Words /\ v <= nIdx
  BY ValueType, Sizes DEF Inv, Words
<1> QED
  BY <1>1, <1>2, MarkBegins

(* The reading calls name an entry that is there, or the next to come.      *)
LEMMA ReadingStep ==
  ASSUME Inv, Read \/ ReadBeyond \/ Read2Start \/ Read2End \/ Read2Day0
  PROVE  Inv'
<1> DEFINE n == nIdx
<1>1. n \in Nat /\ nRead \in Nat /\ QTY \in Nat /\ 1 < QTY
  BY ValueType, Sizes DEF Inv
<1>2. nIdx = n
  OBVIOUS
<1> HIDE DEF n
<1>3. CASE Read
  <2>1. Start(nIdx, nRead) + 1 \in 0 .. n
    BY <1>1, <1>2, <1>3 DEF Read, Start, Oldest
  <2> QED
    BY <1>2, <1>3, <2>1, SetMarkStep DEF Read
<1>4. CASE ReadBeyond
  BY <1>1, <1>2, <1>4, SetMarkStep DEF ReadBeyond
<1>5. CASE Read2Start
  <2>1. (IF nIdx >= QTY THEN Oldest(nIdx) ELSE 0) \in 0 .. n
    BY <1>1, <1>2 DEF Oldest
  <2> QED
    BY <1>2, <1>5, <2>1, SetMarkStep DEF Read2Start
<1>6. CASE Read2End
  BY <1>1, <1>2, <1>6, SetMarkStep DEF Read2End
<1>7. CASE Read2Day0
  <2>1. PICK k \in Nat : k \in 0 .. n /\ SetMark(k)
    <3> DEFINE from == IF nRead > nIdx THEN nIdx ELSE Start(nIdx, nRead)
    <3>1. from \in 0 .. n
      BY <1>1, <1>2 DEF Start, Oldest
    <3>2. \E k \in (from .. nIdx - 1) \union {nIdx} : SetMark(k)
      BY <1>7 DEF Read2Day0
    <3> HIDE DEF from
    <3> QED
      BY <1>1, <1>2, <3>1, <3>2
  <2> QED
    BY <1>2, <2>1, SetMarkStep
<1> QED
  BY <1>3, <1>4, <1>5, <1>6, <1>7

LEMMA WriteStep ==
  ASSUME Inv, Write
  PROVE  Inv'
<1>1. /\ pc = "idle" /\ plan = <<>> /\ busy = NoReq /\ count < MaxWrites
      /\ count' = count + 1 /\ plan' = <<Put(nIdx % QTY, count + 1), Put(INDEX, nIdx + 1)>>
      /\ UNCHANGED <<store, busy, pc, refused, entries, lost, next>>
  BY DEF Write, WriteBy, Idle, Ready, kv
<1>2. /\ Len(entries) \in Nat /\ Len(entries) <= count /\ count \in Nat
      /\ nIdx \in Nat /\ next = nRead
  BY <1>1, CountType, ValueType, AtRest, Sizes DEF Inv, Types
<1>3. count + 1 \in Words /\ count' \in 0 .. MaxWrites
  BY <1>1, <1>2, Sizes DEF Words
<1>4. nIdx' = nIdx /\ nRead' = nRead
  BY <1>1, Untouched
<1>5. plan' = <<Entry, Index>>'
  BY <1>1, <1>3, <1>4, PutInWords DEF Entry, Index, Put
<1>6. Types'
  BY <1>1, <1>2, <1>3 DEF Inv, Types
<1>7. PlanInv'
  BY <1>1, <1>2, <1>4, <1>5 DEF PlanInv, Entering
<1>8. ~ Counting'
  BY <1>1, <1>5 DEF Counting
<1>9. StoreInv'
  BY <1>1, <1>8, Untouched DEF Inv, StoreInv, EntryHeld
<1> QED
  BY <1>6, <1>7, <1>9 DEF Inv

-----------------------------------------------------------------------------
LEMMA HeadTail ==
  ASSUME NEW x, NEW y
  PROVE  /\ Head(<<x>>) = x /\ Tail(<<x>>) = <<>>
         /\ Head(<<x, y>>) = x /\ Tail(<<x, y>>) = <<y>>
  OBVIOUS

(* The record store takes the next write.                                   *)
LEMMA IssueStep ==
  ASSUME Inv, Issue
  PROVE  Inv'
<1>1. /\ plan # <<>> /\ plan' = Tail(plan) /\ busy = NoReq /\ busy' = Head(plan)
      /\ UNCHANGED <<store, pc, count, refused, entries, lost, next>>
  BY DEF Issue, Kv!Begin, hist
<1>2. nIdx' = nIdx /\ nRead' = nRead
  BY <1>1, Untouched
<1>3. /\ First' = First /\ Mark' = Mark /\ Entry' = Entry /\ Index' = Index
  BY <1>1, <1>2 DEF First, Mark, Entry, Index
<1>4. Types'
  BY <1>1 DEF Inv, Types
<1>5. ~ Nothing
  BY <1>1 DEF Nothing
<1>6. /\ NoReq # Format /\ First # NoReq /\ Mark # NoReq /\ Entry # NoReq /\ Index # NoReq
  BY PlanType, Requests DEF Inv
<1>7. ASSUME pc = "init" /\ Founding /\ next = nRead /\ store[INDEX] = None PROVE PlanInv'
  <2>1. (plan = <<Format, First>>) \/ (plan = <<First>>)
    BY <1>1, <1>6, <1>7 DEF Founding
  <2>2. (plan' = <<First>> /\ busy' = Format) \/ (plan' = <<>> /\ busy' = First)
    <3>1. CASE plan = <<Format, First>>
      BY <1>1, <3>1, HeadTail, Zenon
    <3>2. CASE plan = <<First>>
      BY <1>1, <3>2, HeadTail, Zenon
    <3> QED
      BY <2>1, <3>1, <3>2
  <2> QED
    BY <1>1, <1>2, <1>3, <1>7, <2>2 DEF PlanInv, Founding
<1>8. ASSUME pc = "idle" /\ Marking /\ next <= nIdx PROVE PlanInv'
  <2>1. plan = <<Mark>>
    BY <1>1, <1>8 DEF Marking
  <2>2. plan' = <<>> /\ busy' = Mark
    BY <1>1, <2>1, HeadTail
  <2> QED
    BY <1>1, <1>2, <1>3, <1>8, <2>2 DEF PlanInv, Marking
<1>9. ASSUME pc = "idle" /\ (Entering \/ Counting) /\ Len(entries) < count /\ next = nRead
      PROVE  PlanInv'
  <2>1. plan = <<Entry, Index>> \/ plan = <<Index>>
    BY <1>1, <1>6, <1>9 DEF Entering, Counting
  <2>2. (plan' = <<Index>> /\ busy' = Entry) \/ (plan' = <<>> /\ busy' = Index)
    <3>1. CASE plan = <<Entry, Index>>
      BY <1>1, <3>1, HeadTail, Zenon
    <3>2. CASE plan = <<Index>>
      BY <1>1, <3>2, HeadTail, Zenon
    <3> QED
      BY <2>1, <3>1, <3>2
  <2> QED
    BY <1>1, <1>2, <1>3, <1>9, <2>2 DEF PlanInv, Entering, Counting
<1>10. PlanInv'
  BY <1>5, <1>7, <1>8, <1>9 DEF Inv, PlanInv
<1>11. pc' = "idle" /\ Counting' => Counting
  <2> SUFFICES ASSUME pc = "idle", Counting' PROVE Counting
    BY <1>1
  <2>1. busy' # NoReq
    <3>1. CASE Marking
      BY <1>1, <1>6, <3>1 DEF Marking
    <3>2. CASE Entering \/ Counting
      BY <1>1, <1>6, <3>2 DEF Entering, Counting
    <3> QED
      BY <1>5, <3>1, <3>2 DEF Inv, PlanInv
  <2>2. Tail(plan) = <<>> /\ Head(plan) = Index
    BY <1>1, <1>3, <2>1 DEF Counting
  <2>3. ~ Marking
    <3> SUFFICES ASSUME Marking PROVE FALSE
      OBVIOUS
    <3>1. Head(plan) = Mark
      BY <1>1 DEF Marking
    <3> QED
      BY <2>2, <3>1, Sizes DEF Mark, Index
  <2>4. plan # <<Entry, Index>>
    BY <2>2, HeadTail
  <2>5. Entering => busy # Entry
    BY <1>1, <1>6
  <2> QED
    BY <1>5, <2>3, <2>4, <2>5 DEF Inv, PlanInv, Entering
<1>12. IndexHeld' = IndexHeld /\ RingHeld' = RingHeld /\ MarkHeld' = MarkHeld
  BY <1>1, Untouched
<1>13. StoreInv'
  BY <1>1, <1>2, <1>11, <1>12 DEF Inv, StoreInv, EntryHeld
<1> QED
  BY <1>4, <1>10, <1>13 DEF Inv

(* A write ends: its record is as it was, written, gone or without data.    *)
EndsWith(v) ==
    /\ store' = [store EXCEPT ![busy.id] = v]
    /\ v \in {store[busy.id], busy.val, None, Blank}
    /\ busy.id \in Slots \union {INDEX, READ}
    /\ busy' = NoReq /\ count' = count
    /\ (pc' = pc /\ plan' = plan) \/ (pc' = "off" /\ plan' = <<>>)

(* What that means for the entry, the index and the mark.                   *)
EntryWith(v) == (refused' \/ v = busy.val) /\ refused' \in BOOLEAN /\ UNCHANGED <<entries, lost, next>>

IndexWith(v) ==
    /\ UNCHANGED <<refused, next>> /\ lost' \in BOOLEAN
    /\ lost \/ v \notin {store[INDEX], busy.val} => lost'
    /\ entries' = IF v = busy.val
                  THEN IF busy.val = 0 THEN <<>> ELSE Append(entries, IF refused THEN None ELSE count)
                  ELSE IF v # store[INDEX] THEN <<>> ELSE entries

MarkWith(v) ==
    /\ UNCHANGED <<refused, entries>>
    /\ \/ v = busy.val /\ next' = next /\ lost' = (store[INDEX] = Blank)
       \/ next' = nRead' /\ lost' = lost

LEMMA WriteEnds ==
  ASSUME Inv, busy # NoReq, busy # Format, Stored \/ Fails \/ PowerFails
  PROVE  \E v : /\ EndsWith(v)
                /\ busy.id \in Slots => EntryWith(v)
                /\ busy.id = INDEX => IndexWith(v)
                /\ busy.id = READ => MarkWith(v)
<1> DEFINE i == busy.id
<1>1. Kv!Written \/ Kv!Refused \/ Kv!Cut
  BY DEF Stored, Fails, PowerFails, Kv!Formatted
<1>2. Account /\ ((pc' = pc /\ plan' = plan) \/ (pc' = "off" /\ plan' = <<>>))
  BY DEF Stored, Fails, PowerFails
<1>3. DOMAIN store = Slots \union {INDEX, READ}
  BY DEF Inv, Types
<1>4. PICK v \in {store[i], busy.val, None, Blank} :
                /\ busy \in Kv!Writes /\ busy' = NoReq
                /\ store' = [store EXCEPT ![i] = v]
                /\ res' = "ok" => v = busy.val
  BY <1>1 DEF Kv!Written, Kv!Refused, Kv!Cut, Kv!End
<1>5. i \in Slots \union {INDEX, READ} /\ store'[i] = v
  BY <1>3, <1>4 DEF Kv!Writes
<1>6. EndsWith(v)
  BY <1>2, <1>4, <1>5 DEF EndsWith, Account
<1>7. ASSUME i \in Slots PROVE EntryWith(v)
  <2>1. refused' = (store'[i] # busy.val) /\ UNCHANGED <<entries, lost, next>>
    BY <1>2, <1>7, Sizes DEF Account
  <2>2. refused' \in BOOLEAN /\ (refused' \/ v = busy.val)
    BY <1>5, <2>1, Zenon
  <2> QED
    BY <2>1, <2>2 DEF EntryWith
<1>8. ASSUME i = INDEX PROVE IndexWith(v)
  <2>1. entries' = Counted /\ lost' = (lost \/ Gone) /\ UNCHANGED <<refused, next>>
    BY <1>2, <1>8, Sizes DEF Account
  <2>2. Gone <=> v \notin {store[INDEX], busy.val}
    BY <1>5, <1>8 DEF Gone
  <2>3. lost' \in BOOLEAN /\ (lost \/ v \notin {store[INDEX], busy.val} => lost')
    BY <2>1, <2>2, Zenon
  <2>4. entries' = IF v = busy.val
                   THEN IF busy.val = 0 THEN <<>> ELSE Append(entries, IF refused THEN None ELSE count)
                   ELSE IF v # store[INDEX] THEN <<>> ELSE entries
    BY <1>5, <1>8, <2>1, <2>2 DEF Counted
  <2> QED
    BY <2>1, <2>3, <2>4 DEF IndexWith
<1>9. ASSUME i = READ PROVE MarkWith(v)
  <2>1. /\ lost' = IF res' = "ok" THEN store[INDEX] = Blank ELSE lost
        /\ next' = IF res' = "ok" THEN next ELSE nRead'
        /\ UNCHANGED <<refused, entries>>
    BY <1>2, <1>9, Sizes DEF Account
  <2>2. CASE res' = "ok"
    <3>1. lost' = (store[INDEX] = Blank) /\ next' = next
      BY <2>1, <2>2, Zenon
    <3> QED
      BY <1>4, <2>1, <2>2, <3>1, Zenon DEF MarkWith
  <2>3. CASE res' # "ok"
    <3>1. lost' = lost /\ next' = nRead'
      BY <2>1, <2>3, Zenon
    <3> QED
      BY <2>1, <3>1, Zenon DEF MarkWith
  <2> QED
    BY <2>2, <2>3
<1> QED
  BY <1>6, <1>7, <1>8, <1>9

(* The entry ends: it lies in the record that Held does not speak of.       *)
LEMMA EntryEnds ==
  ASSUME Inv, NEW v, EndsWith(v), EntryWith(v), pc = "idle", plan = <<Index>>, busy = Entry,
         Len(entries) < count, next = nRead
  PROVE  Inv'
<1> DEFINE n == Len(entries)
           i == nIdx % QTY
<1>1. /\ busy.id = i /\ i \in Slots /\ i # INDEX /\ i # READ /\ busy.val = count
      /\ n \in Nat /\ count \in Words
  BY PlanType, CountType, Sizes DEF Inv, Entry
<1>2. /\ store' = [store EXCEPT ![i] = v] /\ v \in Words \union {None, Blank}
      /\ busy' = NoReq /\ UNCHANGED <<count, entries, lost, next>>
      /\ (pc' = pc /\ plan' = plan) \/ (pc' = "off" /\ plan' = <<>>)
      /\ refused' \/ v = count
  <2>1. store[i] \in Words \union {None, Blank}
    BY <1>1 DEF Inv, Types
  <2> QED
    BY <1>1, <2>1 DEF EndsWith, EntryWith
<1>3. /\ store'[INDEX] = store[INDEX] /\ store'[READ] = store[READ]
      /\ \A j \in Slots : store'[j] = IF j = i THEN v ELSE store[j]
  BY <1>1, <1>2, Sizes DEF Inv, Types
<1>4. nIdx' = nIdx /\ nRead' = nRead
  BY <1>3 DEF nIdx, nRead, Value
<1>5. Index' = Index
  BY <1>4 DEF Index
<1>6. Types'
  BY <1>1, <1>2 DEF Inv, Types, EntryWith
<1>7. PlanInv'
  BY <1>2, <1>4, <1>5 DEF PlanInv, Nothing, Counting
<1>8. IndexHeld' /\ MarkHeld'
  BY <1>2, <1>3, <1>4 DEF Inv, StoreInv, IndexHeld, MarkHeld
<1>9. RingHeld'
  <2> SUFFICES ASSUME NEW k \in 1 .. n, k > n - (QTY - 1), entries[k] # None
               PROVE  store'[(k - 1) % QTY] = entries[k]
    BY <1>2 DEF RingHeld
  <2>1. nIdx = n
    <3>1. store[INDEX] # Blank \/ n = 0
      BY IndexValue DEF Inv, StoreInv
    <3> QED
      BY <1>1, <3>1, IndexValue DEF Inv, StoreInv
  <2>2. k - 1 \in Nat /\ k - 1 < n /\ n - (k - 1) < QTY
    BY <1>1, Sizes
  <2>3. (k - 1) % QTY # i /\ (k - 1) % QTY \in Slots
    BY <1>1, <2>1, <2>2, Apart, SlotOf
  <2> QED
    BY <1>3, <2>3 DEF Inv, StoreInv, RingHeld
<1>10. EntryHeld'
  BY <1>1, <1>2, <1>3, <1>4 DEF EntryHeld
<1> QED
  BY <1>6, <1>7, <1>8, <1>9, <1>10 DEF Inv, StoreInv

(* The index that counts one more is not 0, unless it was lost before.      *)
LEMMA IndexNext ==
  ASSUME Types, IndexHeld, Len(entries) < count
  PROVE  /\ store[INDEX] = Blank => Index.val = 0
         /\ store[INDEX] # Blank => /\ Index.val = Len(entries) + 1 /\ Index.val # 0
                                    /\ Len(entries) + 1 \in Words
<1>1. Len(entries) \in Nat /\ count \in Nat /\ Len(entries) + 1 <= count /\ count < MOD
  BY CountType, Sizes DEF Words
<1>2. CASE store[INDEX] = Blank
  <2>1. nIdx = MOD - 1 /\ MOD \in Nat
    BY <1>2, IndexValue, Sizes
  <2>2. nIdx + 1 = MOD
    BY <2>1
  <2> QED
    BY <1>2, <2>1, <2>2, Modulo DEF Index
<1>3. CASE store[INDEX] # Blank
  <2>1. nIdx = Len(entries)
    BY <1>3, IndexValue
  <2>2. Len(entries) + 1 \in Nat /\ Len(entries) + 1 < MOD /\ MOD \in Nat
    BY <1>1, Sizes
  <2>3. Len(entries) + 1 \in Words /\ (Len(entries) + 1) % MOD = Len(entries) + 1
    BY <2>2, Modulo DEF Words
  <2> QED
    BY <1>1, <1>3, <2>1, <2>3 DEF Index
<1> QED
  BY <1>2, <1>3

(* What the index counts once it was written, or not.                       *)
LEMMA CountsOn ==
  ASSUME NEW es \in Seq(Nat \union {None}), NEW c \in Nat \union {None}
  PROVE  /\ Append(es, c) \in Seq(Nat \union {None}) /\ Len(Append(es, c)) = Len(es) + 1
         /\ Append(es, c)[Len(es) + 1] = c
         /\ \A k \in 1 .. Len(es) : Append(es, c)[k] = es[k]
  OBVIOUS

(* The index ends: the entry before it is counted, or is not, or none is.   *)
LEMMA IndexEnds ==
  ASSUME Inv, NEW v, EndsWith(v), IndexWith(v), pc = "idle", plan = <<>>, busy = Index,
         Len(entries) < count, next = nRead
  PROVE  Inv'
<1> DEFINE n == Len(entries)
           w == Index.val
           x == IF refused THEN None ELSE count
<1>1. /\ busy.id = INDEX /\ busy.val = w /\ w \in Words /\ w # None /\ w # Blank
      /\ n \in Nat /\ count \in Nat /\ entries \in Seq(Nat \union {None})
      /\ x \in Nat \union {None} /\ n + 1 <= count /\ QTY \in Nat
  BY PlanType, CountType, Distinct, Sizes DEF Inv, Types
<1>2. /\ store' = [store EXCEPT ![INDEX] = v] /\ v \in {store[INDEX], w, None, Blank}
      /\ busy' = NoReq /\ plan' = <<>> /\ pc' \in {"idle", "off"}
      /\ UNCHANGED <<count, refused, next>> /\ lost' \in BOOLEAN
      /\ lost \/ v \notin {store[INDEX], w} => lost'
      /\ entries' = IF v = w THEN IF w = 0 THEN <<>> ELSE Append(entries, x)
                    ELSE IF v # store[INDEX] THEN <<>> ELSE entries
  BY <1>1 DEF EndsWith, IndexWith
<1>3. /\ store'[INDEX] = v /\ store'[READ] = store[READ]
      /\ \A j \in Slots : store'[j] = store[j]
  BY <1>2, Sizes DEF Inv, Types
<1>4. Inv => Types /\ IndexHeld /\ RingHeld /\ MarkHeld /\ EntryHeld
  BY DEF Inv, StoreInv
<1>5. v \in Words \union {None, Blank} /\ nRead' = nRead
  <2>1. store[INDEX] \in Words \union {None, Blank}
    BY DEF Inv, Types
  <2> QED
    BY <1>1, <1>2, <1>3, <2>1 DEF nRead, Value
(* Counted: the ring has one more.                                          *)
<1>6. ASSUME v = w, w # 0
      PROVE  /\ entries' = Append(entries, x) /\ Len(entries') = n + 1 /\ v = n + 1 /\ nIdx = n
             /\ entries' \in Seq(Nat \union {None})
             /\ entries'[n + 1] = x /\ \A k \in 1 .. n : entries'[k] = entries[k]
  <2>1. entries' = Append(entries, x)
    BY <1>2, <1>6
  <2>2. store[INDEX] # Blank /\ w = n + 1
    BY <1>4, <1>6, IndexNext
  <2>3. nIdx = n
    BY <1>4, <2>2, IndexValue
  <2> HIDE DEF x
  <2> QED
    BY <1>1, <1>6, <2>1, <2>2, <2>3, CountsOn
<1>7. ASSUME ~ (v = w /\ w # 0) PROVE entries' = <<>> \/ (entries' = entries /\ v = store[INDEX])
  BY <1>2, <1>7
<1>8. entries' \in Seq(Nat \union {None}) /\ Len(entries') <= count
  <2>1. CASE entries' = <<>>
    BY <1>1, <2>1
  <2>2. CASE entries' = entries
    BY <1>1, <2>2
  <2>3. CASE v = w /\ w # 0
    BY <1>1, <1>6, <2>3
  <2> QED
    BY <1>7, <2>1, <2>2, <2>3
<1>9. Types'
  BY <1>2, <1>5, <1>8 DEF Inv, Types
<1>10. PlanInv'
  BY <1>2, <1>5 DEF PlanInv, Nothing
<1>11. IndexHeld'
  <2>1. CASE v = w /\ w # 0
    BY <1>3, <1>6, <2>1 DEF IndexHeld
  <2>2. CASE v = w /\ w = 0
    <3>1. entries' = <<>> /\ Len(entries') = 0
      BY <1>2, <2>2
    <3> QED
      BY <1>3, <2>2, <3>1 DEF IndexHeld
  <2>3. CASE v # w /\ v = store[INDEX]
    BY <1>2, <1>3, <1>4, <2>3 DEF IndexHeld
  <2>4. CASE v # w /\ v # store[INDEX]
    BY <1>2, <1>3, <2>4 DEF IndexHeld
  <2> QED
    BY <2>1, <2>2, <2>3, <2>4
<1>12. MarkHeld'
  <2>1. lost' => MarkHeld'
    BY DEF MarkHeld
  <2>2. store[READ] = Blank => MarkHeld'
    BY <1>3 DEF MarkHeld
  <2>3. ASSUME ~ lost', nRead <= nIdx PROVE nRead' <= nIdx'
    <3>1. ~ lost /\ v \in {store[INDEX], w}
      BY <1>2, <2>3
    <3>2. store[INDEX] # Blank
      BY <1>4, <3>1, IndexValue
    <3>3. CASE v = store[INDEX]
      BY <1>3, <1>5, <2>3, <3>3 DEF nIdx, Value
    <3>4. CASE v = w
      <4>1. w = n + 1 /\ nIdx = n
        BY <1>4, <3>2, IndexNext, IndexValue
      <4>2. nIdx' = n + 1
        BY <1>1, <1>3, <3>4, <4>1 DEF nIdx, Value
      <4>3. nRead \in Nat
        BY <1>4, ValueType, Sizes
      <4> QED
        BY <1>1, <1>5, <2>3, <4>1, <4>2, <4>3
    <3> QED
      BY <3>1, <3>3, <3>4
  <2>4. nRead' <= nIdx' => MarkHeld'
    BY DEF MarkHeld
  <2>5. lost \/ store[READ] = Blank \/ nRead <= nIdx
    BY <1>4 DEF MarkHeld
  <2>6. lost => lost'
    BY <1>2, Zenon
  <2> QED
    BY <2>1, <2>2, <2>3, <2>4, <2>5, <2>6, Zenon
<1>13. RingHeld'
  <2> SUFFICES ASSUME NEW k \in 1 .. Len(entries'), k > Len(entries') - (QTY - 1), entries'[k] # None
               PROVE  store'[(k - 1) % QTY] = entries'[k]
    BY DEF RingHeld
  <2>1. CASE v = w /\ w # 0
    <3>1. k \in 1 .. n + 1 /\ k > (n + 1) - (QTY - 1)
      BY <1>6, <2>1
    <3>2. (k - 1) % QTY \in Slots
      <4>1. k - 1 \in Nat
        BY <1>1, <3>1
      <4> QED
        BY <4>1, SlotOf
    <3>3. CASE k \in 1 .. n
      <4>1. k > n - (QTY - 1)
        BY <1>1, <3>1, <3>3
      <4>2. entries'[k] = entries[k]
        BY <1>6, <2>1, <3>3
      <4> QED
        BY <1>3, <1>4, <3>2, <3>3, <4>1, <4>2 DEF RingHeld
    <3>4. CASE k = n + 1
      <4>1. entries'[k] = count /\ ~ refused
        BY <1>6, <2>1, <3>4
      <4>2. store[nIdx % QTY] = count
        BY <1>4, <4>1 DEF EntryHeld, Counting
      <4>3. k - 1 = nIdx
        BY <1>1, <1>6, <2>1, <3>4
      <4> QED
        BY <1>3, <3>2, <4>1, <4>2, <4>3
    <3> QED
      BY <1>1, <3>1, <3>3, <3>4
  <2>2. CASE ~ (v = w /\ w # 0)
    <3>1. entries' = entries
      <4>1. entries' # <<>>
        BY <1>1
      <4> QED
        BY <1>7, <2>2, <4>1
    <3>2. (k - 1) % QTY \in Slots
      <4>1. k - 1 \in Nat
        BY <1>1, <3>1
      <4> QED
        BY <4>1, SlotOf
    <3> QED
      BY <1>3, <1>4, <3>1, <3>2 DEF RingHeld
  <2> QED
    BY <2>1, <2>2
<1>14. EntryHeld'
  <2>1. Index' # NoReq
    BY <1>9, PlanTypeNext
  <2> QED
    BY <1>2, <2>1 DEF EntryHeld, Counting
<1> QED
  BY <1>9, <1>10, <1>11, <1>12, <1>13, <1>14 DEF Inv, StoreInv

(* The index of an emptied log ends.                                        *)
LEMMA FirstEnds ==
  ASSUME Inv, NEW v, EndsWith(v), IndexWith(v), pc = "init", plan = <<>>, busy = First,
         next = nRead, store[INDEX] = None
  PROVE  Inv'
<1>1. busy.id = INDEX /\ busy.val = 0 /\ 0 \in Words /\ Len(entries) # None /\ None # Blank
  BY CountType, Sizes DEF Inv, First
<1>2. entries = <<>>
  BY <1>1 DEF Inv, StoreInv, IndexHeld
<1>3. /\ store' = [store EXCEPT ![INDEX] = v] /\ v \in {None, 0, Blank}
      /\ busy' = NoReq /\ plan' = <<>> /\ pc' \in {"init", "off"}
      /\ UNCHANGED <<count, refused, next>> /\ lost' \in BOOLEAN
      /\ lost \/ v \notin {None, 0} => lost'
  BY <1>1, <1>2 DEF EndsWith, IndexWith
<1>4. /\ store'[INDEX] = v /\ store'[READ] = store[READ]
  BY <1>3, Sizes DEF Inv, Types
<1>5. nIdx = 0 /\ nRead' = nRead /\ (v # Blank => nIdx' = 0)
  BY <1>3, <1>4, Sizes DEF nIdx, nRead, Value
<1>6. entries' = <<>>
  BY <1>1, <1>2, <1>3 DEF IndexWith
<1>7. entries' \in Seq(Nat \union {None}) /\ Len(entries') = 0 /\ Len(entries') <= count
  BY <1>6, CountType, Sizes DEF Inv
<1>8. Types'
  BY <1>1, <1>3, <1>7 DEF Inv, Types
<1>9. PlanInv'
  BY <1>3, <1>5 DEF PlanInv, Nothing
<1>10. IndexHeld'
  BY <1>1, <1>3, <1>4, <1>6, <1>7 DEF IndexHeld
<1>11. MarkHeld'
  <2>1. lost' \/ store'[READ] = Blank \/ nRead' <= nIdx' => MarkHeld'
    BY Zenon DEF MarkHeld
  <2>2. lost \/ store[READ] = Blank \/ nRead <= nIdx
    BY DEF Inv, StoreInv, MarkHeld
  <2>3. v = Blank => lost'
    BY <1>1, <1>3, Sizes, Zenon
  <2>4. v # Blank => nRead' = nRead /\ nIdx' = nIdx
    BY <1>5
  <2>5. lost => lost'
    BY <1>3, Zenon
  <2> QED
    BY <1>4, <2>1, <2>2, <2>3, <2>4, <2>5, Zenon
<1>12. RingHeld'
  BY <1>6 DEF RingHeld
<1>13. EntryHeld'
  BY <1>3 DEF EntryHeld
<1> QED
  BY <1>8, <1>9, <1>10, <1>11, <1>12, <1>13 DEF Inv, StoreInv

(* The mark ends: it is the new one, the old one, 0 or all ones.            *)
LEMMA MarkEnds ==
  ASSUME Inv, NEW v, EndsWith(v), MarkWith(v), pc = "idle", plan = <<>>, busy = Mark,
         next <= nIdx
  PROVE  Inv'
<1>1. /\ busy.id = READ /\ busy.val = next /\ next \in Words /\ READ # INDEX
      /\ next # None /\ next # Blank /\ None # Blank
  BY Sizes DEF Inv, Types, Mark
<1>2. /\ store' = [store EXCEPT ![READ] = v] /\ v \in {store[READ], next, None, Blank}
      /\ busy' = NoReq /\ plan' = <<>> /\ pc' \in {"idle", "off"}
      /\ UNCHANGED <<count, refused, entries>>
      /\ \/ v = next /\ next' = next /\ lost' = (store[INDEX] = Blank)
         \/ next' = nRead' /\ lost' = lost
  BY <1>1 DEF EndsWith, MarkWith
<1>3. v \in Words \union {None, Blank}
  <2>1. store[READ] \in Words \union {None, Blank}
    BY DEF Inv, Types
  <2> QED
    BY <1>1, <1>2, <2>1
<1>4. /\ store'[INDEX] = store[INDEX] /\ store'[READ] = v
      /\ \A j \in Slots : store'[j] = store[j]
  BY <1>2, Sizes DEF Inv, Types
<1>5. /\ nIdx' = nIdx /\ nIdx \in Words
      /\ nRead' = IF v = None THEN 0 ELSE IF v = Blank THEN MOD - 1 ELSE v
  BY <1>4, ValueType DEF Inv, nIdx, nRead, Value
<1>6. nRead' \in Words /\ (v = next => nRead' = next)
  BY <1>1, <1>3, <1>5, Sizes
<1>7. next' = nRead' /\ next' \in Words
  BY <1>2, <1>6
<1>8. lost' \in BOOLEAN
  <2>1. lost \in BOOLEAN
    BY DEF Inv, Types
  <2> QED
    BY <1>2, <2>1, Zenon
<1>9. Types'
  BY <1>2, <1>3, <1>7, <1>8 DEF Inv, Types
<1>10. PlanInv'
  BY <1>2, <1>7 DEF PlanInv, Nothing
<1>11. IndexHeld'
  <2>1. (store[INDEX] = Blank => lost) /\ IndexHeld
    BY IndexValue DEF Inv, StoreInv
  <2>2. store[INDEX] = Blank => lost'
    BY <1>2, <2>1, Zenon
  <2> QED
    BY <1>2, <1>4, <2>1, <2>2 DEF IndexHeld
<1>12. RingHeld'
  <2> SUFFICES ASSUME NEW k \in 1 .. Len(entries), k > Len(entries) - (QTY - 1), entries[k] # None
               PROVE  store'[(k - 1) % QTY] = entries[k]
    BY <1>2 DEF RingHeld
  <2>1. k - 1 \in Nat
    BY CountType DEF Inv
  <2>2. (k - 1) % QTY \in Slots
    BY <2>1, SlotOf
  <2> QED
    BY <1>4, <2>2 DEF Inv, StoreInv, RingHeld
<1>13. MarkHeld'
  <2>1. lost' \/ v = Blank \/ nRead' <= nIdx' => MarkHeld'
    BY <1>4, Zenon DEF MarkHeld
  <2>2. CASE v = next
    BY <1>5, <1>6, <2>1, <2>2
  <2>3. CASE v = None
    <3>1. nRead' <= nIdx'
      BY <1>5, <2>3, Sizes DEF Words
    <3> QED
      BY <2>1, <3>1
  <2>4. CASE v = Blank
    BY <2>1, <2>4
  <2>5. CASE v = store[READ] /\ v # next
    <3>1. lost' = lost
      BY <1>2, <2>5, Zenon
    <3>2. nRead' = nRead
      BY <1>5, <2>5 DEF nRead, Value
    <3>3. lost \/ store[READ] = Blank \/ nRead <= nIdx
      BY DEF Inv, StoreInv, MarkHeld
    <3> QED
      BY <1>5, <2>1, <2>5, <3>1, <3>2, <3>3, Zenon
  <2> QED
    BY <1>2, <2>2, <2>3, <2>4, <2>5
<1>14. EntryHeld'
  <2>1. Index' # NoReq
    BY <1>9, PlanTypeNext
  <2> QED
    BY <1>2, <2>1 DEF EntryHeld, Counting
<1> QED
  BY <1>9, <1>10, <1>11, <1>12, <1>13, <1>14 DEF Inv, StoreInv

(* The emptying of the store ends, or power fails in it.                    *)
LEMMA FormatEnds ==
  ASSUME Inv, busy = Format, Stored \/ Fails \/ PowerFails
  PROVE  Inv'
<1> DEFINE I == Slots \union {INDEX, READ}
<1>1. busy \notin Kv!Writes
  BY Requests
<1>2. /\ DOMAIN store = I /\ INDEX \in I /\ READ \in I
      /\ Len(entries) # None /\ None # Blank
  BY CountType, Sizes DEF Inv, Types
<1>3. /\ Kv!Formatted \/ Kv!Cut
      /\ UNCHANGED <<count, refused, entries>>
      /\ lost' = (lost /\ res' # "ok") /\ next' = nRead'
  BY <1>1, Requests DEF Stored, Fails, PowerFails, Kv!Written, Kv!Refused, Account
<1>4. /\ store' \in [I -> Words \union {None, Blank}] /\ busy' = NoReq
      /\ \A i \in I : store'[i] \in {store[i], None}
      /\ \/ res' = "ok" /\ \A i \in I : store'[i] = None
         \/ res' # "ok"
  <2>1. CASE Kv!Formatted
    BY <2>1 DEF Kv!Formatted, Kv!End
  <2>2. CASE Kv!Cut
    <3>1. PICK gone \in SUBSET I : store' = [i \in I |-> IF i \in gone THEN None ELSE store[i]]
      BY <1>1, <2>2 DEF Kv!Cut
    <3> QED
      BY <2>2, <3>1 DEF Inv, Types, Kv!Cut, Kv!End
  <2> QED
    BY <1>3, <2>1, <2>2
<1>5. pc = "init" /\ plan = <<First>> /\ store[INDEX] = None
  BY PlanType, Requests DEF Inv, PlanInv, Nothing, Founding, Marking, Entering, Counting
<1>6. (pc' = "init" /\ plan' = <<First>>) \/ (pc' = "off" /\ plan' = <<>>)
  BY <1>5, Requests DEF Stored, Fails, PowerFails
<1>7. entries = <<>> /\ entries' = <<>> /\ store'[INDEX] = None
  BY <1>2, <1>3, <1>4, <1>5 DEF Inv, StoreInv, IndexHeld
<1>8. nIdx = 0 /\ nIdx' = 0 /\ (store'[READ] = None \/ store'[READ] = store[READ])
  BY <1>2, <1>4, <1>5, <1>7 DEF nIdx, Value
<1>9. (store'[READ] = None => nRead' = 0) /\ (store'[READ] = store[READ] => nRead' = nRead)
  BY DEF nRead, Value
<1>10. nRead' \in Words
  BY <1>8, <1>9, ValueType, Sizes DEF Inv
<1>11. lost' \in BOOLEAN
  BY <1>3, Zenon
<1>12. Types'
  BY <1>3, <1>4, <1>6, <1>10, <1>11 DEF Inv, Types
<1>13. PlanInv'
  BY <1>3, <1>4, <1>6, <1>7 DEF PlanInv, Nothing, Founding, First
<1>14. MarkHeld'
  <2>1. lost' \/ store'[READ] = Blank \/ nRead' <= nIdx' => MarkHeld'
    BY Zenon DEF MarkHeld
  <2>2. CASE store'[READ] = None
    <3>1. nRead' <= nIdx'
      BY <1>8, <1>9, <2>2
    <3> QED
      BY <2>1, <3>1
  <2>3. CASE store'[READ] # None
    <3>1. res' # "ok" /\ store'[READ] = store[READ] /\ nRead' = nRead
      BY <1>2, <1>4, <1>8, <1>9, <2>3
    <3>2. lost' = lost
      <4>1. lost \in BOOLEAN
        BY DEF Inv, Types
      <4> QED
        BY <1>3, <3>1, <4>1, Zenon
    <3>3. lost \/ store[READ] = Blank \/ nRead <= nIdx
      BY DEF Inv, StoreInv, MarkHeld
    <3> QED
      BY <1>8, <2>1, <3>1, <3>2, <3>3, Zenon
  <2> QED
    BY <2>2, <2>3
<1>15. IndexHeld' /\ RingHeld'
  BY <1>7 DEF IndexHeld, RingHeld
<1>16. EntryHeld'
  BY <1>6 DEF EntryHeld
<1> QED
  BY <1>12, <1>13, <1>14, <1>15, <1>16 DEF Inv, StoreInv

(* Power fails between two writes.                                          *)
LEMMA RestStep ==
  ASSUME Inv, busy = NoReq, PowerFails
  PROVE  Inv'
<1>1. ~ Kv!Cut
  BY DEF Kv!Cut
<1>2. /\ pc' = "off" /\ plan' = <<>> /\ next' = nRead
      /\ UNCHANGED <<store, busy, count, refused, entries, lost>>
  BY <1>1 DEF PowerFails, kv
<1>3. nRead' = nRead /\ nRead \in Words
  BY <1>2, ValueType, Untouched DEF Inv
<1>4. Types' /\ PlanInv'
  BY <1>2, <1>3 DEF Inv, Types, PlanInv, Nothing
<1>5. IndexHeld' = IndexHeld /\ RingHeld' = RingHeld /\ MarkHeld' = MarkHeld
  BY <1>2, Untouched
<1>6. StoreInv'
  BY <1>2, <1>5 DEF Inv, StoreInv, EntryHeld
<1> QED
  BY <1>4, <1>6 DEF Inv

LEMMA EndStep ==
  ASSUME Inv, Stored \/ Fails \/ PowerFails
  PROVE  Inv'
<1>1. CASE busy = NoReq
  <2>1. PowerFails
    BY <1>1, Requests DEF Stored, Fails, Kv!Written, Kv!Formatted, Kv!Refused, Kv!Cut
  <2> QED
    BY <1>1, <2>1, RestStep
<1>2. CASE busy = Format
  BY <1>2, FormatEnds
<1>3. CASE busy # NoReq /\ busy # Format
  <2>1. PICK v : /\ EndsWith(v)
                 /\ busy.id \in Slots => EntryWith(v)
                 /\ busy.id = INDEX => IndexWith(v)
                 /\ busy.id = READ => MarkWith(v)
    BY <1>3, WriteEnds
  <2>2. \/ pc = "init" /\ plan = <<>> /\ busy = First /\ next = nRead /\ store[INDEX] = None
        \/ pc = "idle" /\ plan = <<>> /\ busy = Mark /\ next <= nIdx
        \/ pc = "idle" /\ plan = <<Index>> /\ busy = Entry /\ Len(entries) < count /\ next = nRead
        \/ pc = "idle" /\ plan = <<>> /\ busy = Index /\ Len(entries) < count /\ next = nRead
    BY <1>3 DEF Inv, PlanInv, Nothing, Founding, Marking, Entering, Counting
  <2>3. Entry.id \in Slots /\ Index.id = INDEX /\ First.id = INDEX /\ Mark.id = READ
    BY PlanType, Distinct DEF Inv
  <2> QED
    BY <2>1, <2>2, <2>3, FirstEnds, MarkEnds, EntryEnds, IndexEnds
<1> QED
  BY <1>1, <1>2, <1>3

LEMMA InvStep == Inv /\ [Next]_vars => Inv'
<1> SUFFICES ASSUME Inv, [Next]_vars PROVE Inv'
  OBVIOUS
<1>1. CASE InitIndex
  BY <1>1, InitIndexStep
<1>2. CASE InitMark
  BY <1>2, InitMarkStep
<1>3. CASE Write
  BY <1>3, WriteStep
<1>4. CASE Read \/ ReadBeyond \/ Read2Start \/ Read2End \/ Read2Day0
  BY <1>4, ReadingStep
<1>5. CASE Issue
  BY <1>5, IssueStep
<1>6. CASE Stored \/ Fails \/ PowerFails
  BY <1>6, EndStep
<1>7. CASE UNCHANGED vars
  <2>1. UNCHANGED <<store, busy, pc, plan, count, refused, entries, lost, next>>
    BY <1>7 DEF vars
  <2>2. nIdx' = nIdx /\ nRead' = nRead /\ IndexHeld' = IndexHeld /\ RingHeld' = RingHeld
        /\ MarkHeld' = MarkHeld
    BY <2>1, Untouched
  <2>3. First' = First /\ Mark' = Mark /\ Entry' = Entry /\ Index' = Index
    BY <2>1, <2>2 DEF First, Mark, Entry, Index
  <2>4. Types' /\ PlanInv'
    BY <2>1, <2>2, <2>3 DEF Inv, Types, PlanInv, Nothing, Founding, Marking, Entering, Counting
  <2>5. StoreInv'
    BY <2>1, <2>2, <2>3 DEF Inv, StoreInv, EntryHeld, Counting
  <2> QED
    BY <2>4, <2>5 DEF Inv
<1> QED
  BY <1>1, <1>2, <1>3, <1>4, <1>5, <1>6, <1>7 DEF Next

THEOREM Invariant == Spec => []Inv
  BY InvInit, InvStep, PTL DEF Spec

-----------------------------------------------------------------------------
(* The log, its indices and the plans of its calls keep their types: no     *)
(* index leaves its width, though reading starts at a difference of two.    *)
THEOREM LogTyped == Spec => []TypeOK
<1>1. Inv => TypeOK
  <2> SUFFICES ASSUME Inv PROVE TypeOK
    OBVIOUS
  <2>1. \/ plan = <<>> \/ plan = <<First>> \/ plan = <<Mark>> \/ plan = <<Index>>
        \/ plan = <<Format, First>> \/ plan = <<Entry, Index>>
    BY DEF Inv, PlanInv, Nothing, Founding, Marking, Entering, Counting
  <2>2. \A x, y : Len(<<x>>) = 1 /\ Len(<<x, y>>) = 2
    OBVIOUS
  <2> DEFINE m == Len(plan)
  <2>3. m \in 0 .. 2
    <3>1. CASE plan = <<>>
      BY <3>1
    <3>2. CASE plan = <<First>> \/ plan = <<Mark>> \/ plan = <<Index>>
      <4>1. m = 1
        BY <2>2, <3>2, Zenon
      <4> HIDE DEF m
      <4> QED
        BY <4>1
    <3>3. CASE plan = <<Format, First>> \/ plan = <<Entry, Index>>
      <4>1. m = 2
        BY <2>2, <3>3, Zenon
      <4> HIDE DEF m
      <4> QED
        BY <4>1
    <3> QED
      BY <2>1, <3>1, <3>2, <3>3
  <2> HIDE DEF m
  <2>4. m <= 2
    BY <2>3
  <2> QED
    BY <2>4 DEF m, Inv, Types, TypeOK
<1> QED
  BY <1>1, Invariant, PTL

(* The entries the index counts are in their records, but for the oldest of *)
(* a full ring, when power fails anywhere (log_Write: the entry, then the   *)
(* index); it counts none when its own record is left without its data,     *)
(* or without a value (log.c:91-96).                                        *)
THEOREM LogHeld == Spec => []Held
<1>1. Inv => Held
  <2> SUFFICES ASSUME Inv PROVE Held
    OBVIOUS
  <2>1. /\ store[INDEX] # Blank => nIdx = Len(entries)
        /\ store[INDEX] = Blank => entries = <<>>
    BY IndexValue DEF Inv, StoreInv
  <2>2. DOMAIN entries = 1 .. Len(entries)
    BY DEF Inv, Types
  <2> QED
    BY <2>1, <2>2 DEF Inv, StoreInv, RingHeld, Held
<1> QED
  BY <1>1, Invariant, PTL

(* What log_Read delivers, as long as the index can be read.                *)
LEMMA Delivers ==
  ASSUME Inv, Read, store[INDEX] # Blank, NEW k, k = next' - 1
  PROVE  /\ k = Later(next, Len(entries) - (QTY - 1))
         /\ entries[k + 1] \in {None, store[k % QTY]}
<1> DEFINE n == Len(entries)
<1>1. nRead < nIdx /\ next' = Start(nIdx, nRead) + 1 /\ next = nRead
  BY AtRest DEF Read, SetMark, Idle, Ready
<1>2. nIdx = n /\ n \in Nat /\ nRead \in Nat /\ QTY \in Nat /\ 1 < QTY
  BY IndexValue, ValueType, CountType, Sizes DEF Inv, StoreInv
<1> HIDE DEF n
<1>3. /\ k \in 0 .. n - 1 /\ k > n - (QTY - 1) - 1
      /\ k = Later(nRead, n - (QTY - 1))
  BY <1>1, <1>2 DEF Start, Oldest, Later
<1>4. k + 1 \in 1 .. n /\ k + 1 > n - (QTY - 1) /\ (k + 1) - 1 = k
  BY <1>2, <1>3
<1>5. entries[k + 1] \in {None, store[k % QTY]}
  BY <1>4 DEF Inv, StoreInv, RingHeld, n
<1> QED
  BY <1>1, <1>3, <1>5 DEF n

(* What is left of the mark when a call fails.                              *)
LEMMA MarkLeft ==
  ASSUME Inv, Fails \/ PowerFails
  PROVE  next' \in {next, nRead, 0, MOD - 1}
<1>1. CASE busy = NoReq
  BY <1>1, Requests DEF Fails, PowerFails, Kv!Refused, Kv!Cut
<1>2. CASE busy = Format
  <2>1. Kv!Cut /\ Account /\ busy \notin Kv!Writes
    BY <1>2, Requests DEF Fails, PowerFails, Kv!Refused
  <2>2. PICK gone \in SUBSET (Slots \union {INDEX, READ}) :
          store' = [i \in Slots \union {INDEX, READ} |-> IF i \in gone THEN None ELSE store[i]]
    BY <2>1 DEF Kv!Cut
  <2>3. store'[READ] \in {store[READ], None}
    BY <2>2
  <2>4. nRead' \in {nRead, 0}
    BY <2>3 DEF nRead, Value
  <2>5. next' = nRead'
    BY <1>2, <2>1 DEF Account
  <2> QED
    BY <2>4, <2>5
<1>3. CASE busy # NoReq /\ busy # Format
  <2>1. PICK v : /\ EndsWith(v)
                 /\ busy.id \in Slots => EntryWith(v)
                 /\ busy.id = INDEX => IndexWith(v)
                 /\ busy.id = READ => MarkWith(v)
    BY <1>3, WriteEnds
  <2>2. CASE busy.id # READ
    BY <2>1, <2>2 DEF EndsWith, EntryWith, IndexWith
  <2>3. CASE busy.id = READ
    <3>1. busy.val = next /\ next \in Words /\ next # None /\ next # Blank
      <4>1. Entry.id # READ /\ Index.id # READ /\ First.id # READ /\ Mark.val = next
        BY PlanType, Distinct, Sizes DEF Inv
      <4> QED
        BY <1>3, <2>3, <4>1, Sizes DEF Inv, Types, PlanInv, Nothing, Founding, Marking, Entering, Counting
    <3>2. store'[READ] = v /\ v \in {store[READ], next, None, Blank}
      BY <2>1, <2>3, <3>1 DEF EndsWith, Inv, Types
    <3>3. nRead' \in {next, nRead, 0, MOD - 1}
      BY <3>1, <3>2 DEF nRead, Value
    <3> QED
      BY <2>1, <2>3, <3>3 DEF MarkWith
  <2> QED
    BY <2>2, <2>3
<1> QED
  BY <1>1, <1>2, <1>3

(* log_Read delivers the entry behind the last one delivered, or the oldest *)
(* that is held; a reader is sent to the end only when the record of the    *)
(* mark is left without its data, or that of the index was lost.            *)
THEOREM LogReadsNext == Spec => RightEntry
<1>1. ASSUME Inv, Read, store[INDEX] # Blank
      PROVE  LET k == next' - 1 IN
             /\ k = Later(next, Len(entries) - (QTY - 1))
             /\ entries[k + 1] \in {None, store[k % QTY]}
  BY <1>1, Delivers
<1>2. ASSUME Inv, ReadBeyond PROVE store[READ] = Blank \/ lost
  <2>1. nRead > nIdx /\ nRead \in Nat /\ nIdx \in Nat
    BY <1>2, ValueType, Sizes DEF Inv, ReadBeyond
  <2>2. ~ (nRead <= nIdx)
    BY <2>1
  <2> QED
    BY <1>2, <2>2, Zenon DEF Inv, StoreInv, MarkHeld
<1>3. ASSUME Inv, Fails \/ PowerFails PROVE next' \in {next, nRead, 0, MOD - 1}
  BY <1>3, MarkLeft
<1>4. Inv /\ [Next]_vars =>
        [/\ Read /\ store[INDEX] # Blank =>
               LET k == next' - 1 IN
               /\ k = Later(next, Len(entries) - (QTY - 1))
               /\ entries[k + 1] \in {None, store[k % QTY]}
         /\ ReadBeyond => store[READ] = Blank \/ lost
         /\ Fails \/ PowerFails => next' \in {next, nRead, 0, MOD - 1}]_vars
  BY <1>1, <1>2, <1>3
<1> QED
  BY <1>4, Invariant, PTL DEF Spec, RightEntry
=============================================================================
