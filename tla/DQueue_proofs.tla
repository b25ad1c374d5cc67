--------------------------- MODULE DQueue_proofs ---------------------------
(***************************************************************************)
(* Proofs about DQueue for every pool size, block size, set of channels    *)
(* and set of threads: the semaphore excludes, the pool stays a set of     *)
(* disjoint ordered chains, and readers receive what was posted in order.  *)
(***************************************************************************)
EXTENDS DQueueInv, TLAPS, FiniteSetTheorems

LEMMA TypeInit == Init => TypeOK
  BY DQueueAssumption DEF Init, TypeOK, PoolType, LockType, CallType, QueueType, Blocks, NULL, Actors, Chars, AnyChars, InCS, InLen, Ops, DQueueAssumption

(* Whoever is behind dque_Lock, the semaphore is taken or somebody waits.   *)
Guarded == \A t \in Actors : pc[t] \in InCS => sem = 0 \/ waitq # <<>>

LEMMA LockGuards == TypeOK /\ LockInv => Guarded
  BY DEF TypeOK, LockType, LockInv, Guarded

LEMMA TypeStep ==
  ASSUME TypeOK, Guarded, CallInv, [Next]_vars
  PROVE  TypeOK'
<1> USE DEF TypeOK, pool, locks, posts, local
<1>a. Io \in Actors /\ Threads \subseteq Actors /\ NULL \notin Blocks
  BY DQueueAssumption DEF DQueueAssumption, Actors, Blocks, NULL
<1>b. BLK \in Nat \ {0} /\ 0 \in 0 .. BLK /\ 1 \in 0 .. BLK
  BY DQueueAssumption DEF DQueueAssumption
<1>1. ASSUME NEW c \in Channels, Post(c) PROVE TypeOK'
  <2>1. PoolType' /\ LockType' /\ CallType'
    BY <1>1 DEF Post, PoolType, LockType, CallType
  <2>2. QueueType'
    <3>1. posted' \in [Channels -> Nat] /\ mb' \in Seq(Chars)
      <4>1. <<c, posted[c] + 1>> \in Chars
        BY DEF QueueType, Chars
      <4> QED
        BY <1>1, <4>1 DEF Post, QueueType
    <3>2. txie' \subseteq IsrChannels /\ rcvd' = rcvd
      BY <1>1 DEF Post, QueueType
    <3> QED
      BY <3>1, <3>2 DEF QueueType
  <2> QED BY <2>1, <2>2
<1>2. CASE IoRecv
  <2>1. PoolType' /\ LockType'
    BY <1>2 DEF IoRecv, PoolType, LockType
  <2>2. CallType' 
    <3>1. Head(mb) \in Chars
      BY <1>2 DEF IoRecv, QueueType
    <3>2. Head(mb)[1] \in Channels /\ Head(mb) \in AnyChars
      BY <3>1 DEF Chars, AnyChars
    <3> QED
      BY <1>2, <1>a, <3>2 DEF IoRecv, CallType
  <2>3. QueueType'
    BY <1>2 DEF IoRecv, QueueType
  <2> QED BY <2>1, <2>2, <2>3
<1>3. ASSUME NEW t \in Threads, NEW o \in Ops, NEW c \in Channels, NEW n \in 0 .. MaxLen, Call(t, o, c, n)
      PROVE  TypeOK'
  <2>1. PoolType' /\ LockType' /\ QueueType'
    BY <1>3 DEF Call, PoolType, LockType, QueueType
  <2>2. CallType' 
    BY <1>3, <1>a DEF Call, CallType, InLen
  <2> QED BY <2>1, <2>2
<1>4. ASSUME NEW t \in Actors, Step(t) PROVE TypeOK'
  <2>1. CASE Lock(t) 
    <3>1. LockType'
      BY <2>1 DEF Lock, LockType
    <3>2. CallType'
      BY <2>1 DEF Lock, CallType, InCS
    <3>3. PoolType' /\ QueueType'
      BY <2>1 DEF Lock, PoolType, QueueType
    <3> QED
      BY <3>1, <3>2, <3>3
  <2>2. CASE First(t)
    BY <2>2 DEF First, Runs, InCS, CallInv, Entry, LockType, PoolType, CallType, QueueType
  <2>3. CASE TakeSome(t)
    <3> DEFINE p == cur[t]
               have == in[p] - out[p]
               n == Wanted(t, have)
               chars == [i \in 1 .. n |-> data[p][out[p] + i - 1]]
    <3>1. p \in Blocks /\ in[p] \in 0 .. BLK /\ out[p] \in 0 .. BLK /\ have \in Nat \ {0}
      BY <2>3, <1>b DEF TakeSome, CallType, PoolType
    <3>2. n \in 1 .. have /\ (op[t] = "pop" => n <= lim[t])
      BY <2>3, <3>1 DEF TakeSome, Wanted, CallType
    <3>3. PoolType'
      <4>1. out[p] + n \in 0 .. BLK
        BY <3>1, <3>2, <1>b
      <4>2. out' = [out EXCEPT ![p] = out[p] + n] /\ UNCHANGED <<next, chl, in, data>>
        BY <2>3 DEF TakeSome
      <4> HIDE DEF n
      <4> QED
        BY <4>1, <4>2 DEF PoolType
    <3>4. LockType'
      BY <2>3 DEF TakeSome, LockType
    <3>5. CallType'
      <4>1. lim[t] - n \in Nat \/ op[t] # "pop"
        BY <3>1, <3>2 DEF CallType
      <4>2. next[p] \in Blocks \union {NULL}
        BY <3>1 DEF PoolType
      <4> QED
        BY <2>3, <4>1, <4>2 DEF TakeSome, CallType, InCS
    <3>6. QueueType'
      <4>1. \A i \in 1 .. n : data[p][out[p] + i - 1] \in AnyChars
        <5> SUFFICES ASSUME NEW i \in 1 .. n
                     PROVE  data[p][out[p] + i - 1] \in AnyChars
          OBVIOUS
        <5>1. data[p] \in [0 .. BLK - 1 -> AnyChars]
          BY <3>1, <3>2 DEF PoolType
        <5>2. out[p] \in 0 .. BLK /\ in[p] \in 0 .. BLK
          BY <3>1, <3>2 DEF PoolType
        <5>3. out[p] + i - 1 \in 0 .. BLK - 1
          BY <3>1, <3>2, <5>2, <1>b
        <5> QED
          BY <5>1, <5>3
      <4>2. chars \in Seq(AnyChars)
        BY <3>1, <3>2, <4>1
      <4> QED
        BY <2>3, <4>2 DEF TakeSome, Delivered, QueueType
    <3> QED
      BY <3>3, <3>4, <3>5, <3>6
  <2>4. CASE TakeNone(t)
    BY <2>4 DEF TakeNone, Runs, InCS, LockType, PoolType, CallType, QueueType
  <2>5. CASE RenameNext(t)
    BY <2>5 DEF RenameNext, Runs, InCS, CallInv, LockType, PoolType, CallType, QueueType
  <2>6. CASE Rehead(t)
    BY <2>6 DEF Rehead, Runs, InCS, CallInv, LockType, PoolType, CallType, QueueType
  <2>7. CASE ReleaseIn(t)
    <3>1. PoolType'
      BY <2>7, <1>b DEF ReleaseIn, PoolType
    <3>2. CallType'
      BY <2>7 DEF ReleaseIn, CallType, InCS
    <3>3. LockType' /\ QueueType'
      BY <2>7 DEF ReleaseIn, LockType, QueueType
    <3> QED
      BY <3>1, <3>2, <3>3
  <2>8. CASE ReleaseOut(t)
    <3>1. PoolType'
      BY <2>8, <1>b DEF ReleaseOut, PoolType
    <3>2. CallType'
      BY <2>8 DEF ReleaseOut, CallType, InCS
    <3>3. LockType' /\ QueueType'
      BY <2>8 DEF ReleaseOut, LockType, QueueType
    <3> QED
      BY <3>1, <3>2, <3>3
  <2>9. CASE Clear(t)
    BY <2>9 DEF Clear, Runs, InCS, LockType, PoolType, CallType, QueueType
  <2>10. CASE PushWalk(t)
    BY <2>10 DEF PushWalk, Runs, InCS, LockType, PoolType, CallType, QueueType
  <2>11. CASE PushAppend(t)
    <3>1. PoolType'
      BY <2>11, <1>b DEF PushAppend, PoolType, CallType
    <3>2. CallType'
      BY <2>11 DEF PushAppend, CallType, InCS
    <3>3. LockType' /\ QueueType'
      BY <2>11 DEF PushAppend, LockType, QueueType
    <3> QED
      BY <3>1, <3>2, <3>3
  <2>12. CASE PushFull(t)
    BY <2>12 DEF PushFull, Runs, InCS, LockType, PoolType, CallType, QueueType
  <2>13. CASE PushAlloc(t)
    <3>1. PoolType'
      BY <2>13, <1>b DEF PushAlloc, FillBlock, PoolType, CallType
    <3>2. CallType'
      BY <2>13 DEF PushAlloc, FillBlock, CallType, InCS
    <3>3. LockType' /\ QueueType'
      BY <2>13 DEF PushAlloc, FillBlock, LockType, QueueType
    <3> QED
      BY <3>1, <3>2, <3>3
  <2>14. CASE PushLink(t)
    BY <2>14 DEF PushLink, Runs, InCS, CallInv, LockType, PoolType, CallType, QueueType
  <2>15. CASE Unlock(t)
    <3>1. LockType'
      BY <2>15 DEF Unlock, Runs, LockType, Guarded, InCS
    <3>2. CallType'
      BY <2>15 DEF Unlock, Return, CallType, AnyChars
    <3>3. PoolType' /\ QueueType'
      BY <2>15 DEF Unlock, PoolType, QueueType
    <3> QED
      BY <3>1, <3>2, <3>3
  <2>16. CASE Measure(t)
    <3>1. PoolType' /\ LockType' /\ QueueType'
      BY <2>16 DEF Measure, LenFirst, LenIn, LenOut, LenNext, LenReturn, PoolType, LockType, QueueType
    <3>2. CASE LenFirst(t)
      BY <3>1, <3>2 DEF LenFirst, CallType, InLen
    <3>3. CASE LenIn(t) \/ LenOut(t)
      <4>1. in[cur[t]] \in Int /\ out[cur[t]] \in Int
        BY <3>3, <1>b DEF LenIn, LenOut, Runs, CallInv, CallType, PoolType
      <4> QED
        BY <3>1, <3>3, <4>1 DEF LenIn, LenOut, CallType, InLen
    <3>4. CASE LenNext(t)
      BY <3>1, <3>4 DEF LenNext, Runs, CallInv, CallType, PoolType, InLen
    <3>5. CASE LenReturn(t)
      BY <3>1, <3>5 DEF LenReturn, Return, CallType, AnyChars
    <3> QED
      BY <2>16, <3>2, <3>3, <3>4, <3>5 DEF Measure
  <2> QED
    BY <1>4, <2>1, <2>2, <2>3, <2>4, <2>5, <2>6, <2>7, <2>8, <2>9, <2>10, <2>11,
       <2>12, <2>13, <2>14, <2>15, <2>16 DEF Step, Inner
<1>5. CASE UNCHANGED vars
  BY <1>5 DEF vars, LockType, PoolType, CallType, QueueType
<1>6. ASSUME NEW c \in Channels, IsrPopChar(c) PROVE TypeOK'
  <2>1. LockType'
    <3>1. ASSUME NEW a \in Actors PROVE Tail(Append(waitq, a)) \in Seq(Actors)
      BY DEF LockType
    <3> QED
      BY <1>6, <3>1 DEF IsrPopChar, LockType
  <2>2. CallType'
    BY <1>6 DEF IsrPopChar, CallType
  <2>3. PoolType'
    <3>1. PICK p \in Blocks \union {NULL} :
             \/ UNCHANGED <<next, chl, in, out>>
             \/ /\ p # NULL /\ in[p] > out[p] /\ out' = [out EXCEPT ![p] = @ + 1]
                /\ UNCHANGED <<next, chl, in>>
             \/ /\ out' = [out EXCEPT ![p] = 0] /\ in' = [in EXCEPT ![p] = 0]
                /\ next' = [next EXCEPT ![p] = NULL]
                /\ chl' = [b \in Blocks |-> IF b = p THEN NoChl
                                            ELSE IF b = next[p] THEN c ELSE chl[b]]
      BY <1>6 DEF IsrPopChar
    <3>2. data' = data
      BY <1>6 DEF IsrPopChar
    <3>3. CASE UNCHANGED <<next, chl, in, out>>
      BY <3>2, <3>3 DEF PoolType
    <3>4. CASE /\ p # NULL /\ in[p] > out[p] /\ out' = [out EXCEPT ![p] = @ + 1]
               /\ UNCHANGED <<next, chl, in>>
      <4>1. p \in Blocks /\ out[p] + 1 \in 0 .. BLK
        BY <1>b, <3>4 DEF PoolType
      <4> QED
        BY <3>2, <3>4, <4>1 DEF PoolType
    <3>5. CASE /\ out' = [out EXCEPT ![p] = 0] /\ in' = [in EXCEPT ![p] = 0]
               /\ next' = [next EXCEPT ![p] = NULL]
               /\ chl' = [b \in Blocks |-> IF b = p THEN NoChl
                                           ELSE IF b = next[p] THEN c ELSE chl[b]]
      BY <1>b, <3>2, <3>5 DEF PoolType
    <3> QED
      BY <3>1, <3>3, <3>4, <3>5
  <2>4. QueueType'
    <3>1. ASSUME NEW p \in Blocks, in[p] > out[p] PROVE <<data[p][out[p]]>> \in Seq(AnyChars)
      <4>1. out[p] \in 0 .. BLK - 1
        BY <1>b, <3>1 DEF PoolType
      <4>2. data[p][out[p]] \in AnyChars
        BY <4>1 DEF PoolType
      <4> QED
        BY <4>2
    <3>2. rcvd' \in [Channels -> Seq(AnyChars)]
      BY <1>6, <3>1 DEF IsrPopChar, QueueType
    <3> QED
      BY <1>6, <3>2 DEF IsrPopChar, QueueType
  <2> QED
    BY <2>1, <2>2, <2>3, <2>4
<1>7. ASSUME NEW c \in Channels, TxEnable(c) PROVE TypeOK'
  BY <1>7 DEF TxEnable, LockType, PoolType, CallType, QueueType
<1> QED
  BY <1>1, <1>2, <1>3, <1>4, <1>5, <1>6, <1>7 DEF Next

-----------------------------------------------------------------------------
(* An actor that is not suspended and stays inside or outside the locked    *)
(* operations disturbs neither the semaphore nor who is inside.             *)
LEMMA KeepsLock ==
  ASSUME TypeOK, LockInv, NEW t \in Actors, t \notin Suspended,
         waitq' = waitq, sem' = sem,
         \A s \in Actors \ {t} : pc'[s] = pc[s],
         pc'[t] \in InCS <=> pc[t] \in InCS
  PROVE  LockInv' /\ \A s \in Actors : Inside(s)' <=> Inside(s)
<1>1. Suspended' = Suspended /\ \A i \in 1 .. Len(waitq) : waitq[i] \in Actors \ {t}
  BY DEF Suspended, TypeOK, LockType
<1>2. \A s \in Actors : pc'[s] \in InCS <=> pc[s] \in InCS
  OBVIOUS
<1>3. \A s \in Actors : Inside(s)' <=> Inside(s)
  BY <1>1, <1>2 DEF Inside
<1> QED
  BY <1>1, <1>2, <1>3 DEF LockInv, MutualExclusion

LEMMA InnerStays ==
  ASSUME TypeOK, CallInv, NEW t \in Actors, Inner(t)
  PROVE  /\ t \notin Suspended /\ waitq' = waitq /\ sem' = sem
         /\ \A s \in Actors \ {t} : pc'[s] = pc[s] /\ cur'[s] = cur[s] /\ aux'[s] = aux[s]
         /\ pc[t] \in InCS /\ pc'[t] \in InCS
         /\ op' = op /\ arg' = arg /\ mb' = mb /\ ch' = ch /\ posted' = posted /\ txie' = txie
<1> USE DEF Runs, TypeOK, CallType, InCS, pool, locks, posts, local
<1>1. CASE First(t)
  BY <1>1 DEF First, CallInv, Entry
<1>2. CASE TakeSome(t) \/ TakeNone(t) \/ RenameNext(t) \/ Rehead(t)
  BY <1>2 DEF TakeSome, TakeNone, RenameNext, Rehead
<1>3. CASE ReleaseIn(t) \/ ReleaseOut(t) \/ Clear(t)
  BY <1>3 DEF ReleaseIn, ReleaseOut, Clear
<1>4. CASE PushWalk(t) \/ PushAppend(t) \/ PushFull(t) \/ PushAlloc(t) \/ PushLink(t)
  BY <1>4 DEF PushWalk, PushAppend, PushFull, PushAlloc, FillBlock, PushLink
<1> QED
  BY <1>1, <1>2, <1>3, <1>4 DEF Inner

LEMMA MeasureStays ==
  ASSUME TypeOK, NEW t \in Actors, Measure(t)
  PROVE  /\ t \notin Suspended /\ waitq' = waitq /\ sem' = sem
         /\ \A s \in Actors \ {t} : pc'[s] = pc[s] /\ cur'[s] = cur[s]
         /\ pc[t] \notin InCS /\ pc'[t] \notin InCS
         /\ UNCHANGED <<next, chl, in, out, data, mb, posted, rcvd>>
  BY DEF Measure, LenFirst, LenIn, LenOut, LenNext, LenReturn, Return, Runs, TypeOK,
         CallType, InCS, pool, locks, posts, local

LEMMA LockStep ==
  ASSUME TypeOK, LockInv, CallInv, [Next]_vars, IsrChannels = {}
  PROVE  LockInv'
<1> USE DEF pool, locks, posts, local
<1>1. ASSUME NEW c \in Channels, Post(c) PROVE LockInv'
  BY <1>1 DEF Post, LockInv, MutualExclusion, Inside, Suspended
<1>2. CASE IoRecv
  <2>1. Io \in Actors
    BY DEF Actors
  <2> QED
    BY <1>2, <2>1, KeepsLock DEF IoRecv, Runs, InCS, TypeOK, CallType
<1>3. ASSUME NEW t \in Threads, NEW o \in Ops, NEW c \in Channels, NEW n \in 0 .. MaxLen, Call(t, o, c, n)
      PROVE  LockInv'
  <2>1. t \in Actors
    BY DEF Actors
  <2> QED
    BY <1>3, <2>1, KeepsLock DEF Call, Runs, InCS, TypeOK, CallType
<1>4. ASSUME NEW t \in Actors, Lock(t) PROVE LockInv'
  <2>1. /\ t \notin Suspended /\ pc[t] = "lock" /\ pc'[t] = "first"
        /\ \A s \in Actors \ {t} : pc'[s] = pc[s]
    BY <1>4 DEF Lock, Runs, TypeOK, CallType
  <2>2. CASE sem > 0
    <3>1. sem = 1 /\ sem' = 0 /\ waitq' = <<>> /\ \A s \in Actors : pc[s] \notin InCS
      BY <1>4, <2>2 DEF Lock, LockInv, TypeOK, LockType
    <3>2. \A s \in Actors : Inside(s)' => s = t
      BY <2>1, <3>1 DEF Inside
    <3> QED
      BY <2>1, <3>1, <3>2 DEF LockInv, MutualExclusion
  <2>3. CASE sem = 0
    <3>1. sem' = 0 /\ waitq' = Append(waitq, t)
      BY <1>4, <2>3 DEF Lock
    <3>2. /\ Len(waitq') = Len(waitq) + 1 /\ waitq'[Len(waitq) + 1] = t
          /\ \A i \in 1 .. Len(waitq) : waitq'[i] = waitq[i] /\ waitq[i] \in Actors \ {t}
      BY <2>1, <3>1 DEF TypeOK, LockType, Suspended
    <3>3. Suspended' = Suspended \union {t}
      BY <3>2 DEF Suspended, TypeOK, LockType
    <3>4. \A s \in Actors : Inside(s)' <=> Inside(s)
      BY <2>1, <3>3 DEF Inside, InCS
    <3>5. MutualExclusion'
      BY <3>4 DEF LockInv, MutualExclusion
    <3>6. /\ \A i, j \in 1 .. Len(waitq') : waitq'[i] = waitq'[j] => i = j
          /\ \A i \in 1 .. Len(waitq') : pc'[waitq'[i]] = "first"
      BY <2>1, <3>2 DEF LockInv, TypeOK, LockType
    <3> QED
      BY <3>1, <3>5, <3>6 DEF LockInv
  <2> QED
    BY <1>4, <2>2, <2>3 DEF Lock
<1>5. ASSUME NEW t \in Actors, Unlock(t) PROVE LockInv'
  <2>1. /\ t \notin Suspended /\ Inside(t) /\ pc'[t] = "idle"
        /\ \A s \in Actors \ {t} : pc'[s] = pc[s]
    BY <1>5 DEF Unlock, Return, Runs, Inside, InCS, TypeOK, CallType
  <2>2. CASE waitq = <<>>
    BY <1>5, <2>2 DEF Unlock, Return, Runs, TypeOK, LockType, CallType, LockInv, MutualExclusion, Inside, Suspended, InCS
  <2>3. CASE waitq # <<>>
    <3>1. sem' = 0 /\ waitq' = Tail(waitq)
      BY <1>5, <2>1, <2>3 DEF Unlock, LockInv, TypeOK, LockType
    <3>2. /\ Len(waitq') = Len(waitq) - 1 /\ Len(waitq) \in Nat \ {0}
          /\ \A i \in 1 .. Len(waitq') : waitq'[i] = waitq[i + 1]
      BY <2>3, <3>1 DEF TypeOK, LockType
    <3>3. \A i \in 1 .. Len(waitq) : waitq[i] \in Actors \ {t} /\ pc'[waitq[i]] = "first"
      BY <2>1 DEF TypeOK, LockType, Suspended, LockInv
    <3>4. Suspended' = Suspended \ {waitq[1]}
      <4>1. \A j \in 2 .. Len(waitq) : /\ j - 1 \in 1 .. Len(waitq') /\ waitq'[j - 1] = waitq[j]
                                      /\ waitq[j] # waitq[1]
        BY <3>2 DEF LockInv
      <4>2. \A i \in 1 .. Len(waitq') : i + 1 \in 2 .. Len(waitq) /\ waitq'[i] = waitq[i + 1]
        BY <3>2
      <4>3. 1 .. Len(waitq) = {1} \union 2 .. Len(waitq)
        BY <3>2
      <4> QED
        BY <4>1, <4>2, <4>3 DEF Suspended
    <3>5. \A s \in Actors : Inside(s)' => s = waitq[1]
      BY <2>1, <3>4 DEF Inside, LockInv, MutualExclusion, InCS
    <3> QED
      BY <3>1, <3>2, <3>3, <3>5 DEF LockInv, MutualExclusion
  <2> QED
    BY <1>5, <2>2, <2>3
<1>6. ASSUME NEW t \in Actors, Inner(t) PROVE LockInv'
  BY <1>6, InnerStays, KeepsLock
<1>7. ASSUME NEW t \in Actors, Measure(t) PROVE LockInv'
  BY <1>7, MeasureStays, KeepsLock
<1>8. CASE UNCHANGED vars
  BY <1>8 DEF vars, LockInv, MutualExclusion, Inside, Suspended
<1> QED
  BY <1>1, <1>2, <1>3, <1>4, <1>5, <1>6, <1>7, <1>8 DEF Next, Step, IsrPopChar, TxEnable, TypeOK, QueueType

-----------------------------------------------------------------------------
LEMMA CallStep ==
  ASSUME TypeOK, CallInv, [Next]_vars
  PROVE  CallInv'
<1> USE DEF pool, locks, posts, local, Entry
<1>1. ASSUME NEW c \in Channels, Post(c) PROVE CallInv'
  BY <1>1 DEF Post, CallInv
<1>2. CASE IoRecv
  <2>1. Io \in Actors /\ Head(mb)[1] \in Channels
    BY <1>2 DEF Actors, IoRecv, TypeOK, QueueType, Chars
  <2> QED
    BY <1>2, <2>1 DEF IoRecv, Runs, CallInv, TypeOK, CallType, InCS
<1>3. ASSUME NEW t \in Threads, NEW o \in Ops, NEW c \in Channels, NEW n \in 0 .. MaxLen, Call(t, o, c, n)
      PROVE  CallInv'
  <2>1. t \in Actors /\ t # Io
    BY DQueueAssumption DEF Actors, DQueueAssumption
  <2> QED
    BY <1>3, <2>1 DEF Call, Runs, CallInv, TypeOK, CallType, InCS, Ops
<1>4. ASSUME NEW t \in Actors, Lock(t) PROVE CallInv'
  BY <1>4 DEF Lock, Runs, CallInv, TypeOK, CallType, InCS
<1>5. ASSUME NEW t \in Actors, Unlock(t) PROVE CallInv'
  BY <1>5 DEF Unlock, Return, Runs, CallInv, TypeOK, CallType, InCS
<1>6. ASSUME NEW t \in Actors, Inner(t) PROVE CallInv'
  <2>1. /\ op' = op /\ arg' = arg /\ ch' = ch
        /\ \A s \in Actors \ {t} : pc'[s] = pc[s] /\ cur'[s] = cur[s]
    BY <1>6, InnerStays
  <2>2. /\ arg[t] \in Channels /\ op[t] \in DOMAIN Entry
        /\ pc'[t] \in {"take", "rehead", "rehead1"} => op[t] \in {"pop", "pop2buf", "popchar"}
        /\ pc'[t] = "rehead1" => op[t] = "popchar"
        /\ pc'[t] = "rehead"  => op[t] # "popchar"
        /\ pc'[t] \in {"rel1", "rel2"} => op[t] # "push"
        /\ pc'[t] = "clr" => op[t] = "clear"
        /\ pc'[t] \in {"tail", "alloc", "link"} => op[t] = "push"
    <3> USE DEF Runs, CallInv, TypeOK, CallType, InCS
    <3>1. CASE First(t) \/ PushWalk(t) \/ PushAppend(t) \/ PushFull(t) \/ PushAlloc(t) \/ PushLink(t)
      BY <3>1 DEF First, PushWalk, PushAppend, PushFull, PushAlloc, FillBlock, PushLink
    <3>2. CASE TakeSome(t) \/ TakeNone(t) \/ RenameNext(t) \/ Rehead(t)
      BY <3>2 DEF TakeSome, TakeNone, RenameNext, Rehead
    <3>3. CASE ReleaseIn(t) \/ ReleaseOut(t) \/ Clear(t)
      BY <3>3 DEF ReleaseIn, ReleaseOut, Clear
    <3> QED
      BY <1>6, <3>1, <3>2, <3>3 DEF Inner
  <2> QED
    BY <1>6, <2>1, <2>2, InnerStays DEF CallInv, InCS
<1>7. ASSUME NEW t \in Actors, Measure(t) PROVE CallInv'
  BY <1>7 DEF Measure, LenFirst, LenIn, LenOut, LenNext, LenReturn, Return, Runs, CallInv, TypeOK, CallType, InCS
<1>8. CASE UNCHANGED vars
  BY <1>8 DEF vars, CallInv
<1>9. ASSUME NEW c \in Channels, IsrPopChar(c) \/ TxEnable(c) PROVE CallInv'
  BY <1>9 DEF IsrPopChar, TxEnable, CallInv
<1> QED
  BY <1>1, <1>2, <1>3, <1>4, <1>5, <1>6, <1>7, <1>8, <1>9 DEF Next, Step

-----------------------------------------------------------------------------
LEMMA LockInit == Init => LockInv /\ CallInv
  BY DEF Init, LockInv, MutualExclusion, Inside, Suspended, CallInv, InCS

-----------------------------------------------------------------------------
(* The count of the semaphore, with a transmit interrupt or without.        *)
SemInv == IsFiniteSet(Entered) /\ SemaphoreKept

LEMMA SemGuards == TypeOK /\ SemInv => Guarded
<1> SUFFICES ASSUME TypeOK, SemInv, NEW t \in Actors, pc[t] \in InCS, waitq = <<>>
             PROVE  sem = 0
  BY DEF Guarded
<1>1. t \in Entered /\ IsFiniteSet(Entered) /\ Cardinality(Entered) = 1 - sem
  <2>1. Len(waitq) = 0 /\ sem \in {0, 1}
    BY DEF TypeOK, LockType
  <2>2. Cardinality(Entered) = 1 - sem + Len(waitq) /\ IsFiniteSet(Entered)
    BY DEF SemInv, SemaphoreKept
  <2>3. t \in Entered
    BY DEF Entered
  <2> QED
    BY <2>1, <2>2, <2>3
<1>2. Cardinality(Entered) \in Nat /\ Cardinality(Entered) # 0
  BY <1>1, FS_CardinalityType, FS_EmptySet
<1> QED
  BY <1>1, <1>2 DEF TypeOK, LockType

LEMMA SemFrame ==
  ASSUME SemInv, sem' = sem, Len(waitq') = Len(waitq),
         \A t \in Actors : pc'[t] \in InCS <=> pc[t] \in InCS
  PROVE  SemInv'
<1>1. Entered' = Entered
  BY DEF Entered
<1> QED
  BY <1>1 DEF SemInv, SemaphoreKept

LEMMA SemStep ==
  ASSUME TypeOK, CallInv, SemInv, [Next]_vars
  PROVE  SemInv'
<1> USE DEF pool, locks, posts, local
<1>1. CASE UNCHANGED <<sem, waitq, pc>>
  BY <1>1, SemFrame
<1>2. ASSUME NEW c \in Channels, IsrPopChar(c) PROVE SemInv'
  <2>1. ASSUME NEW a \in Actors PROVE Len(Tail(Append(waitq, a))) = Len(waitq)
    BY DEF TypeOK, LockType
  <2>2. sem' = sem /\ pc' = pc
    BY <1>2 DEF IsrPopChar
  <2>3. waitq' = waitq \/ \E a \in Actors : waitq' = Tail(Append(waitq, a))
    BY <1>2 DEF IsrPopChar
  <2> QED
    BY <2>1, <2>2, <2>3, SemFrame
<1>3. CASE IoRecv
  BY <1>3, SemFrame DEF IoRecv, Runs, InCS, TypeOK, CallType
<1>4. ASSUME NEW t \in Threads, NEW o \in Ops, NEW c \in Channels, NEW n \in 0 .. MaxLen, Call(t, o, c, n)
      PROVE  SemInv'
  BY <1>4, SemFrame DEF Call, Runs, InCS, TypeOK, CallType
<1>5. ASSUME NEW t \in Actors, Inner(t) \/ Measure(t) PROVE SemInv'
  BY <1>5, InnerStays, MeasureStays, SemFrame
<1>6. ASSUME NEW t \in Actors, Lock(t) PROVE SemInv'
  <2>1. Entered' = Entered \union {t} /\ t \notin Entered
    BY <1>6 DEF Lock, Runs, InCS, TypeOK, CallType, Entered
  <2>2. /\ IsFiniteSet(Entered') /\ Cardinality(Entered') = Cardinality(Entered) + 1
        /\ Cardinality(Entered) \in Nat
    BY <2>1, FS_AddElement, FS_CardinalityType DEF SemInv
  <2>3. 1 - sem' + Len(waitq') = 1 - sem + Len(waitq) + 1
    <3>1. /\ sem \in {0, 1} /\ Len(waitq) \in Nat
          /\ Len(Append(waitq, t)) = Len(waitq) + 1
      BY DEF TypeOK, LockType
    <3> QED
      BY <1>6, <3>1 DEF Lock
  <2>4. Cardinality(Entered) = 1 - sem + Len(waitq)
    BY DEF SemInv, SemaphoreKept
  <2>5. Cardinality(Entered') = 1 - sem' + Len(waitq')
    BY <2>2, <2>3, <2>4
  <2> QED
    BY <2>2, <2>5 DEF SemInv, SemaphoreKept
<1>7. ASSUME NEW t \in Actors, Unlock(t) PROVE SemInv'
  <2>1. Entered' = Entered \ {t} /\ t \in Entered
    BY <1>7 DEF Unlock, Return, Runs, InCS, TypeOK, CallType, Entered
  <2>2. /\ IsFiniteSet(Entered') /\ Cardinality(Entered') = Cardinality(Entered) - 1
        /\ Cardinality(Entered) \in Nat
    BY <2>1, FS_RemoveElement, FS_CardinalityType DEF SemInv
  <2>3. 1 - sem' + Len(waitq') = 1 - sem + Len(waitq) - 1
    <3>1. sem \in {0, 1} /\ Len(waitq) \in Nat
      BY DEF TypeOK, LockType
    <3>2. CASE waitq # <<>>
      <4>1. Len(Tail(waitq)) = Len(waitq) - 1
        BY <3>2 DEF TypeOK, LockType
      <4>2. waitq' = Tail(waitq) /\ sem' = sem
        BY <1>7, <3>2 DEF Unlock
      <4> QED
        BY <3>1, <4>1, <4>2
    <3>3. CASE waitq = <<>>
      BY <1>7, <3>1, <3>3 DEF Unlock
    <3> QED
      BY <3>2, <3>3
  <2>4. Cardinality(Entered) = 1 - sem + Len(waitq)
    BY DEF SemInv, SemaphoreKept
  <2>5. Cardinality(Entered') = 1 - sem' + Len(waitq')
    <3>1. sem \in {0, 1} /\ Len(waitq) \in Nat
      BY DEF TypeOK, LockType
    <3>2. Cardinality(Entered') = 1 - sem + Len(waitq) - 1
      BY <2>2, <2>4, <3>1
    <3> QED
      BY <2>3, <3>2
  <2> QED
    BY <2>2, <2>5 DEF SemInv, SemaphoreKept
<1> QED
  BY <1>1, <1>2, <1>3, <1>4, <1>5, <1>6, <1>7 DEF Next, Step, Post, TxEnable, vars

LEMMA SemInit == Init => SemInv
<1> SUFFICES ASSUME Init PROVE SemInv
  OBVIOUS
<1>1. Entered = {} /\ sem = 1 /\ Len(waitq) = 0
  BY DEF Init, Entered, InCS
<1> QED
  BY <1>1, FS_EmptySet DEF SemInv, SemaphoreKept

LEMMA SharedInv ==
  Spec => [](TypeOK /\ CallInv /\ SemInv)
<1>1. Init => TypeOK /\ CallInv /\ SemInv
  BY TypeInit, LockInit, SemInit
<1>2. (TypeOK /\ CallInv /\ SemInv) /\ [Next]_vars => (TypeOK /\ CallInv /\ SemInv)'
  BY SemGuards, TypeStep, CallStep, SemStep
<1> QED
  BY <1>1, <1>2, PTL DEF Spec

(* Every variable keeps its type; above all, the indices of a block stay    *)
(* within the block in every interleaving, though no statement of           *)
(* lib/dqueue.c checks out against in, and a transmit interrupt pops        *)
(* whoever is inside the locked operations.                                 *)
THEOREM TypeCorrect == Spec => []TypeOK
  BY SharedInv, PTL

(* The semaphore is neither lost nor doubled, whatever transmit interrupts  *)
(* do to the list of suspended threads.                                     *)
THEOREM SemaphoreCounts == Spec => []SemaphoreKept
<1>1. SemInv => SemaphoreKept
  BY DEF SemInv
<1> QED
  BY <1>1, SharedInv, PTL

(* dq_sem lets one actor at a time into the locked operations, whoever is   *)
(* suspended on it and however often it is handed on.                       *)
THEOREM Exclusion ==
  ASSUME IsrChannels = {}
  PROVE  Spec => []MutualExclusion
<1>1. Init => TypeOK /\ LockInv /\ CallInv
  BY TypeInit, LockInit
<1>2. (TypeOK /\ LockInv /\ CallInv) /\ [Next]_vars
      => (TypeOK /\ LockInv /\ CallInv)'
  BY LockGuards, TypeStep, LockStep, CallStep
<1>3. LockInv => MutualExclusion
  BY DEF LockInv
<1> QED
  BY <1>1, <1>2, <1>3, PTL DEF Spec

-----------------------------------------------------------------------------
(* Every statement between dque_Lock and dque_Unlock keeps the pool whole,  *)
(* up to the blocks it has in hand: one lemma per statement of lib/dqueue.c.*)
LEMMA Facts == /\ NULL \notin Blocks /\ NoChl \notin Channels
               /\ BLK \in Nat \ {0} /\ Io \in Actors
  BY DQueueAssumption DEF DQueueAssumption, Blocks, NULL, Actors

(* Two blocks that hold characters do not precede each other.               *)
LEMMA Antisymmetric ==
  ASSUME PoolType, NEW a \in Blocks, NEW b \in Blocks, Used(a), Used(b), Before(a, b)
  PROVE  ~ Before(b, a)
<1>1. 0 \in 0 .. in[a] - 1 /\ 0 \in 0 .. in[b] - 1 /\ in[a] \in Nat /\ in[b] \in Nat
  BY Facts DEF PoolType, Used
<1>2. 0 \in 0 .. BLK - 1 
  BY Facts
<1>3. Ser(a, 0) \in Nat /\ Ser(b, 0) \in Nat
  BY <1>2 DEF PoolType, Ser, AnyChars
<1> QED
  BY <1>1, <1>3 DEF Before

(* CharsOK and OrderOK do not speak of chl and out.                         *)
LEMMA SameChars ==
  ASSUME UNCHANGED <<next, in, data, posted>>, CharsOK, OrderOK
  PROVE  CharsOK' /\ OrderOK'
<1>1. CharsOK'
  BY DEF CharsOK, Used, Own, Ser
<1>2. OrderOK'
  BY DEF OrderOK, Used, Own, Before, Ser
<1> QED
  BY <1>1, <1>2

(* Statements that leave the pool alone.                                    *)
LEMMA TakeNoneKeepsPool ==
  ASSUME TypeOK, CallInv, NEW t \in Actors, PoolAt(t), CharsOK, OrderOK, TakeNone(t)
  PROVE  PoolAt(t)' /\ CharsOK' /\ OrderOK'
<1> USE DEF pool, locks, posts, local
<1>1. pc[t] = "take" /\ pc'[t] = "unlock" /\ UNCHANGED <<next, chl, in, out, data, posted>>
  BY DEF TakeNone, Runs, TypeOK, CallType
<1>2. PoolOK(NULL, NULL, NULL, NoChl)
  BY <1>1 DEF PoolAt, Victim, Gutted, Fresh, Headless
<1>3. PoolOK(NULL, NULL, NULL, NoChl)'
  BY <1>1, <1>2 DEF PoolOK, FreeOK, ReadOK, LinkOK, HeadOK, TailOK, ReachOK, Used, Own, Before, Ser
<1>4. PoolAt(t)'
  BY <1>1, <1>3 DEF PoolAt, Victim, Gutted, Fresh, Headless, Holds
<1> QED
  BY <1>1, <1>4 DEF CharsOK, OrderOK, Used, Own, Before, Ser

LEMMA FirstKeepsPool ==
  ASSUME TypeOK, CallInv, NEW t \in Actors, PoolAt(t), CharsOK, OrderOK, First(t)
  PROVE  PoolAt(t)' /\ CharsOK' /\ OrderOK'
<1> USE DEF pool, locks, posts, local
<1> PICK p : p = cur'[t]
  OBVIOUS
<1> PICK c : c = arg[t]
  OBVIOUS
<1>1. /\ pc[t] = "first" /\ pc'[t] \in {"take", "clr", "tail"} /\ UNCHANGED <<next, chl, in, out, data, posted, arg, op>>
      /\ c \in Channels /\ (pc'[t] = "clr" <=> op[t] = "clear")
      /\ p \in Blocks \union {NULL} /\ IsFirst(p, c)
  BY DEF First, Runs, TypeOK, CallType, CallInv, InCS, Entry
<1>2. PoolOK(NULL, NULL, NULL, NoChl)
  BY <1>1 DEF PoolAt, Victim, Gutted, Fresh, Headless
<1>3. PoolOK(NULL, NULL, NULL, NoChl)'
  BY <1>1, <1>2 DEF PoolOK, FreeOK, ReadOK, LinkOK, HeadOK, TailOK, ReachOK, Used, Own, Before, Ser
<1>4. p # NULL => p \in Blocks /\ chl[p] = c /\ Used(p) /\ Own(p) = c
  BY <1>1, <1>2, Facts DEF IsFirst, PoolOK, FreeOK, HeadOK
<1>5. p = NULL => \A b \in Blocks : chl[b] # c /\ (Used(b) => Own(b) # c)
  BY <1>1, <1>2, Facts DEF IsFirst, PoolOK, ReachOK
<1>6. IsLeast(p, c)
  BY <1>1, <1>2, <1>4, <1>5, Facts DEF IsLeast, PoolOK, HeadOK
<1>7. NoOtherHead(p, c)
  BY <1>1, <1>2, <1>4, <1>5, Facts, Antisymmetric DEF NoOtherHead, PoolOK, HeadOK, FreeOK, TypeOK
<1>8. PoolOK(NULL, NULL, NULL, c)'
  BY <1>1, <1>2 DEF PoolOK, FreeOK, ReadOK, LinkOK, HeadOK, TailOK, ReachOK, Used, Own, Before, Ser
<1>9. IsLeast(p, c)' /\ NoOtherHead(p, c)'
  BY <1>1, <1>6, <1>7 DEF IsLeast, NoOtherHead, Used, Own, Before, Ser
<1>10. PoolAt(t)'
  BY <1>1, <1>3, <1>4, <1>5, <1>8, <1>9 DEF PoolAt, Victim, Gutted, Fresh, Headless, Holds, Used, Own
<1> QED
  BY <1>1, <1>10 DEF CharsOK, OrderOK, Used, Own, Before, Ser

LEMMA PushWalkKeepsPool ==
  ASSUME TypeOK, CallInv, NEW t \in Actors, PoolAt(t), CharsOK, OrderOK, PushWalk(t)
  PROVE  PoolAt(t)' /\ CharsOK' /\ OrderOK'
<1> USE DEF pool, locks, posts, local
<1>1. /\ pc[t] = "tail" /\ pc' = pc /\ arg' = arg /\ cur[t] \in Blocks /\ next[cur[t]] # NULL
      /\ cur'[t] = next[cur[t]] /\ UNCHANGED <<next, chl, in, out, data, posted>>
  BY DEF PushWalk, Runs, TypeOK, CallType
<1>2. PoolOK(NULL, NULL, NULL, NoChl) /\ Holds(t)
  BY <1>1 DEF PoolAt, Victim, Gutted, Fresh, Headless
<1>3. PoolOK(NULL, NULL, NULL, NoChl)'
  BY <1>1, <1>2 DEF PoolOK, FreeOK, ReadOK, LinkOK, HeadOK, TailOK, ReachOK, Used, Own, Before, Ser
<1>4. Used(next[cur[t]]) /\ Own(next[cur[t]]) = arg[t]
  <2>1. Own(cur[t]) = arg[t]
    BY <1>1, <1>2, Facts DEF Holds
  <2> QED
    BY <1>1, <1>2, <2>1 DEF PoolOK, LinkOK
<1>5. PoolAt(t)'
  BY <1>1, <1>3, <1>4 DEF PoolAt, Victim, Gutted, Fresh, Headless, Holds, Used, Own
<1> QED
  BY <1>1, <1>5 DEF CharsOK, OrderOK, Used, Own, Before, Ser

LEMMA PushFullKeepsPool ==
  ASSUME TypeOK, CallInv, NEW t \in Actors, PoolAt(t), CharsOK, OrderOK, PushFull(t)
  PROVE  PoolAt(t)' /\ CharsOK' /\ OrderOK'
<1> USE DEF pool, locks, posts, local
<1>1. /\ pc[t] = "tail" /\ pc'[t] = "alloc" /\ arg' = arg /\ aux'[t] = cur[t]
      /\ cur[t] # NULL => next[cur[t]] = NULL /\ in[cur[t]] >= BLK
      /\ cur[t] \in Blocks \union {NULL} /\ UNCHANGED <<next, chl, in, out, data, posted>>
  BY DEF PushFull, Runs, TypeOK, CallType
<1>2. PoolOK(NULL, NULL, NULL, NoChl) /\ Holds(t)
  BY <1>1 DEF PoolAt, Victim, Gutted, Fresh, Headless
<1>3. PoolOK(NULL, NULL, NULL, NoChl)'
  BY <1>1, <1>2 DEF PoolOK, FreeOK, ReadOK, LinkOK, HeadOK, TailOK, ReachOK, Used, Own, Before, Ser
<1>4. cur[t] # NULL => in[cur[t]] = BLK
  BY <1>1, Facts DEF TypeOK, PoolType
<1>5. PoolAt(t)'
  BY <1>1, <1>2, <1>3, <1>4 DEF PoolAt, Victim, Gutted, Fresh, Headless, Holds, Used, Own
<1> QED
  BY <1>1, <1>5 DEF CharsOK, OrderOK, Used, Own, Before, Ser

LEMMA ClearKeepsPool ==
  ASSUME TypeOK, CallInv, NEW t \in Actors, PoolAt(t), CharsOK, OrderOK, Clear(t)
  PROVE  PoolAt(t)' /\ CharsOK' /\ OrderOK'
<1> USE DEF pool, locks, posts, local
<1> PICK p : p = cur[t]
  OBVIOUS
<1> PICK c : c = arg[t]
  OBVIOUS
<1>1. /\ pc[t] = "clr" /\ pc'[t] = (IF p = NULL THEN "unlock" ELSE "rel1")
      /\ arg' = arg /\ op' = op /\ op[t] = "clear" /\ cur' = cur
      /\ aux'[t] = (IF p = NULL THEN NULL ELSE next[p])
      /\ p \in Blocks \union {NULL} /\ c \in Channels
      /\ UNCHANGED <<next, chl, in, out, data, posted>>
  BY DEF Clear, Runs, TypeOK, CallType, CallInv, InCS
<1>2. PoolOK(NULL, NULL, NULL, c) /\ IsLeast(p, c) /\ NoOtherHead(p, c)
  BY <1>1 DEF PoolAt, Victim, Gutted, Fresh, Headless, Holds
<1>3. PoolOK(NULL, NULL, NULL, c)' /\ IsLeast(p, c)' /\ NoOtherHead(p, c)'
  BY <1>1, <1>2 DEF PoolOK, FreeOK, ReadOK, LinkOK, HeadOK, TailOK, ReachOK, IsLeast, NoOtherHead, Used, Own, Before, Ser
<1>4. CASE p = NULL
  <2>1. PoolOK(NULL, NULL, NULL, NoChl)'
    BY <1>1, <1>2, <1>4 DEF PoolOK, FreeOK, ReadOK, LinkOK, HeadOK, TailOK, ReachOK, IsLeast, Used, Own, Before, Ser
  <2> QED
    BY <1>1, <1>4, <2>1 DEF PoolAt, Victim, Gutted, Fresh, Headless, Holds, CharsOK, OrderOK, Used, Own, Before, Ser
<1>5. CASE p # NULL
  <2>1. PoolOK(p, NULL, NULL, c)
    BY <1>2, Facts DEF PoolOK, ReadOK, HeadOK
  <2>4. PoolOK(p, NULL, NULL, c)'
    BY <1>1, <2>1 DEF PoolOK, FreeOK, ReadOK, LinkOK, HeadOK, TailOK, ReachOK, Used, Own, Before, Ser
  <2>2. Used(p)' /\ Own(p)' = c
    BY <1>3, <1>5 DEF IsLeast
  <2>3. PoolAt(t)'
    BY <1>1, <1>3, <1>5, <2>4, <2>2 DEF PoolAt, Victim, Gutted, Fresh, Headless, Holds
  <2> QED
    BY <1>1, <2>3 DEF CharsOK, OrderOK, Used, Own, Before, Ser
<1> QED
  BY <1>4, <1>5

-----------------------------------------------------------------------------
(* Statements that move the head of the channel.                            *)
LEMMA RenameNextKeepsPool ==
  ASSUME TypeOK, CallInv, NEW t \in Actors, PoolAt(t), CharsOK, OrderOK, RenameNext(t)
  PROVE  PoolAt(t)' /\ CharsOK' /\ OrderOK'
<1> USE DEF pool, locks, posts, local
<1> PICK p : p = cur[t]
  OBVIOUS
<1> PICK n : n = aux[t]
  OBVIOUS
<1> PICK c : c = arg[t]
  OBVIOUS
<1>1. /\ pc[t] = "rehead1" /\ pc'[t] = "rel1" /\ op[t] = "popchar" /\ c \in Channels
      /\ p \in Blocks \union {NULL} /\ n \in Blocks \union {NULL}
      /\ chl \in [Blocks -> Channels \union {NoChl}]
      /\ next \in [Blocks -> Blocks \union {NULL}]
      /\ chl' = (IF n # NULL THEN [chl EXCEPT ![n] = c] ELSE chl)
      /\ UNCHANGED <<next, in, out, data, posted, cur, aux, arg, op>>
  BY DEF RenameNext, Runs, TypeOK, CallType, PoolType, CallInv, InCS
<1>2. /\ PoolOK(p, NULL, NULL, NoChl)
      /\ p \in Blocks /\ chl[p] = c /\ n = next[p] /\ out[p] = BLK
  BY <1>1 DEF PoolAt, Victim, Gutted, Fresh, Headless, Holds
<1>3. Used(p) /\ Own(p) = c
  BY <1>1, <1>2, Facts DEF PoolOK, FreeOK, HeadOK
<1>4. \A a, b \in Blocks : /\ Used(a)' = Used(a) /\ Own(a)' = Own(a)
                           /\ Before(a, b)' = Before(a, b)
  BY <1>1 DEF Used, Own, Before, Ser
<1>5. CharsOK' /\ OrderOK'
  BY <1>1, SameChars
<1>6. CASE n = NULL
  <2>1. PoolOK(p, NULL, NULL, NoChl)'
    <3>1. UNCHANGED <<next, chl, in, out, data>>
      BY <1>1, <1>6
    <3> QED
      BY <1>2, <3>1 DEF PoolOK, FreeOK, ReadOK, LinkOK, HeadOK, TailOK, ReachOK, Used, Own, Before, Ser
  <2> QED
    BY <1>1, <1>2, <1>3, <1>4, <1>5, <1>6, <2>1, Facts DEF PoolAt, Victim, Gutted, Fresh, Headless, Holds
<1>7. CASE n # NULL
  <2>1. /\ n \in Blocks /\ Used(n) /\ Own(n) = c
        /\ \A b \in Blocks : next[b] = n => b = p
    BY <1>1, <1>2, <1>3, <1>7 DEF PoolOK, LinkOK
  <2>2. chl'[n] = c /\ \A b \in Blocks \ {n} : chl'[b] = chl[b]
    BY <1>1, <1>7, <2>1
  <2>3. \A a \in Blocks \ {n, p} : Used(a) /\ Own(a) = c => Before(n, a)
    <3> SUFFICES ASSUME NEW a \in Blocks \ {n, p}, Used(a), Own(a) = c
                 PROVE  Before(n, a)
      OBVIOUS
    <3>1. Before(p, a)
      BY <1>1, <1>2, <1>3, Facts DEF PoolOK, HeadOK
    <3>2. Before(a, p) \/ Before(n, a)
      BY <1>2, <1>3, <1>7 DEF OrderOK
    <3> QED
      BY <1>2, <1>3, <3>1, <3>2, Antisymmetric DEF TypeOK
  <2>4. FreeOK(NULL)' /\ ReadOK(p)' /\ TailOK(NULL)' /\ ReachOK(NoChl)'
    <3>1. FreeOK(NULL)'
      BY <1>1, <1>2, <1>4, <2>1, <2>2 DEF PoolOK, FreeOK
    <3>2. ReadOK(p)' /\ TailOK(NULL)'
      BY <1>1, <1>2, <1>4 DEF PoolOK, ReadOK, TailOK
    <3>3. ReachOK(NoChl)'
      <4> SUFFICES ASSUME NEW b \in Blocks, Used(b)
                   PROVE  \E a \in Blocks : chl'[a] = Own(b)
        BY <1>4 DEF ReachOK
      <4>1. CASE Own(b) = c
        BY <2>1, <2>2, <4>1
      <4>2. CASE Own(b) # c
        <5>1. PICK a \in Blocks : chl[a] = Own(b)
          BY <1>2, <4>2, Facts DEF CharsOK, PoolOK, ReachOK
        <5>2. a # n
          BY <1>2, <5>1, <4>2, <2>1, <2>2, Facts DEF CharsOK, PoolOK, HeadOK, IsLeast
        <5> QED
          BY <2>1, <2>2, <5>1, <5>2
      <4> QED
        BY <4>1, <4>2
    <3> QED
      BY <3>1, <3>2, <3>3
  <2>5. LinkOK(NULL)'
    BY <1>1, <1>2, <1>4, <2>1, <2>2, Facts DEF PoolOK, LinkOK
  <2>6. HeadOK(p)'
    BY <1>1, <1>2, <1>4, <2>1, <2>2, <2>3 DEF PoolOK, HeadOK
  <2>7. chl'[p] = c
    BY <1>2, <2>2
  <2> QED
    BY <1>1, <1>2, <1>3, <1>4, <1>5, <2>2, <2>4, <2>5, <2>6, <2>7, Facts DEF PoolAt, PoolOK, Victim, Gutted, Fresh, Headless, Holds
<1> QED
  BY <1>6, <1>7

LEMMA ReheadKeepsPool ==
  ASSUME TypeOK, CallInv, NEW t \in Actors, PoolAt(t), CharsOK, OrderOK, Rehead(t)
  PROVE  PoolAt(t)' /\ CharsOK' /\ OrderOK'
<1> USE DEF pool, locks, posts, local
<1> PICK n : n = aux[t]
  OBVIOUS
<1> PICK c : c = arg[t]
  OBVIOUS
<1>1. /\ pc[t] = "rehead" /\ pc'[t] = "take" /\ op[t] # "popchar" /\ c \in Channels
      /\ n \in Blocks \union {NULL} /\ cur'[t] = n
      /\ chl \in [Blocks -> Channels \union {NoChl}]
      /\ next \in [Blocks -> Blocks \union {NULL}]
      /\ chl' = (IF n # NULL THEN [chl EXCEPT ![n] = c] ELSE chl)
      /\ UNCHANGED <<next, in, out, data, posted, arg, op>>
  BY DEF Rehead, Runs, TypeOK, CallType, PoolType, CallInv, InCS
<1>2. /\ PoolOK(NULL, NULL, NULL, c) /\ IsLeast(n, c) /\ NoOtherHead(NULL, c)
      /\ n # NULL => \A b \in Blocks : next[b] # n
  BY <1>1 DEF PoolAt, Victim, Gutted, Fresh, Headless, Holds
<1>4. \A a, b \in Blocks : /\ Used(a)' = Used(a) /\ Own(a)' = Own(a)
                           /\ Before(a, b)' = Before(a, b)
  BY <1>1 DEF Used, Own, Before, Ser
<1>5. CharsOK' /\ OrderOK'
  BY <1>1, <1>4 DEF CharsOK, OrderOK, Ser, Own, Used, Before
<1>6. CASE n = NULL
  <2>1. PoolOK(NULL, NULL, NULL, NoChl)'
    <3>1. UNCHANGED <<next, chl, in, out, data>>
      BY <1>1, <1>6
    <3>2. PoolOK(NULL, NULL, NULL, NoChl)
      BY <1>2, <1>6 DEF PoolOK, ReachOK, IsLeast
    <3> QED
      BY <3>1, <3>2 DEF PoolOK, FreeOK, ReadOK, LinkOK, HeadOK, TailOK, ReachOK, Used, Own, Before, Ser
  <2> QED
    BY <1>1, <1>5, <1>6, <2>1 DEF PoolAt, Victim, Gutted, Fresh, Headless, Holds
<1>7. CASE n # NULL
  <2>2. n \in Blocks /\ chl'[n] = c /\ \A b \in Blocks \ {n} : chl'[b] = chl[b]
    BY <1>1, <1>7
  <2>4. FreeOK(NULL)' /\ ReadOK(NULL)' /\ TailOK(NULL)'
    BY <1>1, <1>2, <1>4, <1>7, <2>2 DEF PoolOK, FreeOK, ReadOK, TailOK, Used, IsLeast
  <2>5. LinkOK(NULL)'
    BY <1>1, <1>2, <1>4, <1>7, <2>2 DEF PoolOK, LinkOK
  <2>6. HeadOK(NULL)'
    BY <1>1, <1>2, <1>4, <1>7, <2>2 DEF PoolOK, HeadOK, IsLeast
  <2>7. ReachOK(NoChl)'
    <3> SUFFICES ASSUME NEW b \in Blocks, Used(b)
                 PROVE  \E a \in Blocks : chl'[a] = Own(b)
      BY <1>4 DEF ReachOK
    <3>1. CASE Own(b) = c
      BY <1>7, <2>2, <3>1
    <3>2. CASE Own(b) # c
      <4>1. PICK a \in Blocks : chl[a] = Own(b)
        BY <1>2, <3>2, Facts DEF CharsOK, PoolOK, ReachOK
      <4>2. a # n
        BY <1>2, <4>1, <3>2, <1>7, <2>2, Facts DEF CharsOK, PoolOK, HeadOK, IsLeast
      <4> QED
        BY <1>7, <2>2, <4>1, <4>2
    <3> QED
      BY <3>1, <3>2
  <2> QED
    BY <1>1, <1>5, <2>2, <2>4, <2>5, <2>6, <2>7 DEF PoolAt, PoolOK, Victim, Gutted, Fresh, Headless, Holds
<1> QED
  BY <1>6, <1>7

-----------------------------------------------------------------------------
(* dque_Release.  The block released is the first of its channel and        *)
(* nobody's next, so that the block after it becomes the first.             *)
LEMMA ReleaseInKeepsPool ==
  ASSUME TypeOK, CallInv, NEW t \in Actors, PoolAt(t), CharsOK, OrderOK, ReleaseIn(t)
  PROVE  PoolAt(t)' /\ CharsOK' /\ OrderOK'
<1> USE DEF pool, locks, posts, local
<1> PICK p : p = cur[t]
  OBVIOUS
<1> PICK n : n = aux[t]
  OBVIOUS
<1> PICK c : c = arg[t]
  OBVIOUS
<1> PICK f : f = Headless(t)
  OBVIOUS
<1>1. /\ pc[t] = "rel1" /\ pc'[t] = "rel2" /\ op[t] # "push" /\ c \in Channels
      /\ p \in Blocks \union {NULL} /\ n \in Blocks \union {NULL}
      /\ chl \in [Blocks -> Channels \union {NoChl}]
      /\ next \in [Blocks -> Blocks \union {NULL}]
      /\ in \in [Blocks -> 0 .. BLK]
      /\ chl' = [chl EXCEPT ![p] = NoChl]
      /\ in'  = [in  EXCEPT ![p] = 0]
      /\ UNCHANGED <<next, out, data, posted, cur, aux, arg, op>>
  BY DEF ReleaseIn, Runs, TypeOK, CallType, PoolType, CallInv, InCS
<1>2. /\ PoolOK(p, NULL, NULL, f) /\ f = (IF op[t] = "clear" THEN c ELSE NoChl)
      /\ p \in Blocks /\ Used(p) /\ Own(p) = c /\ n = next[p]
      /\ op[t] # "clear" => chl[p] = c
      /\ op[t] = "popchar" /\ n # NULL => chl[n] = c
      /\ op[t] # "popchar" => NoOtherHead(p, c)
      /\ op[t] = "clear" => IsLeast(p, c)
  BY <1>1 DEF PoolAt, Victim, Gutted, Fresh, Headless, Holds
<1>3. \A b \in Blocks \ {p} : Used(b) /\ Own(b) = c => Before(p, b)
  BY <1>1, <1>2, Facts DEF PoolOK, HeadOK, IsLeast
<1>4. \A b \in Blocks : next[b] # p
  <2> SUFFICES ASSUME NEW b \in Blocks, next[b] = p PROVE FALSE
    OBVIOUS
  <2>1. /\ in[b] = BLK /\ Before(b, p) /\ Own(b) = c
        /\ chl[p] = NoChl \/ out[b] >= BLK
    BY <1>1, <1>2, Facts DEF PoolOK, LinkOK
  <2>2. Used(b)
    BY <2>1, Facts DEF Used
  <2>3. b # p
    BY <1>2, <2>1, Antisymmetric DEF TypeOK
  <2> QED
    BY <1>2, <1>3, <2>1, <2>2, <2>3, Antisymmetric DEF TypeOK
<1>5. /\ chl'[p] = NoChl /\ in'[p] = 0 /\ ~ Used(p)'
      /\ \A b \in Blocks \ {p} : chl'[b] = chl[b] /\ in'[b] = in[b] /\ Used(b)' = Used(b)
      /\ \A b \in Blocks : Own(b)' = Own(b)
  BY <1>1, <1>2 DEF Used, Own
<1>6. \A a, b \in Blocks \ {p} : Before(a, b)' = Before(a, b)
  BY <1>1, <1>5 DEF Before, Ser
<1>7. CharsOK'
  BY <1>1, <1>2, <1>5 DEF CharsOK, Ser, Own, Used
<1>8. OrderOK'
  <2>1. \A a, b \in Blocks : a # b /\ Used(a)' /\ Used(b)' /\ Own(a) = Own(b) =>
           Before(a, b)' \/ Before(b, a)'
    BY <1>5, <1>6 DEF OrderOK
  <2>2. \A a, b \in Blocks :
           /\ Used(a)' /\ next[a] # NULL
           /\ Used(b)' /\ Own(a) = Own(b) /\ b # a /\ b # next[a]
           => Before(b, a)' \/ Before(next[a], b)'
    BY <1>1, <1>4, <1>5, <1>6 DEF OrderOK
  <2> QED
    BY <1>1, <1>5, <2>1, <2>2 DEF OrderOK
<1>9. FreeOK(p)' /\ ReadOK(NULL)'
  BY <1>1, <1>2, <1>5, Facts DEF PoolOK, FreeOK, ReadOK
<1>10. LinkOK(p)'
  BY <1>1, <1>2, <1>4, <1>5, <1>6, Facts DEF PoolOK, LinkOK
<1>11. HeadOK(NULL)'
  BY <1>1, <1>2, <1>5, <1>6 DEF PoolOK, HeadOK
<1>12. TailOK(NULL)'
  BY <1>1, <1>2, <1>5, <1>6 DEF PoolOK, TailOK
<1>13. ReachOK(c)'
  BY <1>1, <1>2, <1>5, Facts DEF PoolOK, ReachOK, HeadOK, CharsOK
<1>14. IsLeast(n, c)'
  <2>1. CASE n = NULL
    <3>1. \A b \in Blocks \ {p} : Used(b) => Own(b) # c
      BY <1>2, <1>3, <2>1, Facts, Antisymmetric DEF PoolOK, TailOK, TypeOK
    <3> QED
      BY <2>1, <1>5, <3>1 DEF IsLeast
  <2>2. CASE n # NULL
    <3>1. n \in Blocks \ {p} /\ Used(n) /\ Own(n) = c
      BY <1>1, <1>2, <1>4, <2>2 DEF PoolOK, LinkOK
    <3>2. \A b \in Blocks \ {p, n} : Used(b) /\ Own(b) = c => Before(n, b)
      BY <1>2, <1>3, <2>2, Antisymmetric DEF OrderOK, TypeOK
    <3> QED
      BY <1>5, <1>6, <2>2, <3>1, <3>2 DEF IsLeast
  <2> QED
    BY <2>1, <2>2
<1>15. op[t] # "popchar" => NoOtherHead(NULL, c)'
  BY <1>2, <1>5, Facts, <1>1 DEF NoOtherHead
<1>16. op[t] = "popchar" /\ n # NULL => chl'[n] = c
  BY <1>1, <1>2, <1>4, <1>5
<1> QED
  BY <1>1, <1>2, <1>5, <1>7, <1>8, <1>9, <1>10, <1>11, <1>12, <1>13, <1>14, <1>15, <1>16, Facts
  DEF PoolAt, PoolOK, Victim, Gutted, Fresh, Headless, Holds

LEMMA ReleaseOutKeepsPool ==
  ASSUME TypeOK, CallInv, NEW t \in Actors, PoolAt(t), CharsOK, OrderOK, ReleaseOut(t)
  PROVE  PoolAt(t)' /\ CharsOK' /\ OrderOK'
<1> USE DEF pool, locks, posts, local
<1> PICK p : p = cur[t]
  OBVIOUS
<1> PICK n : n = aux[t]
  OBVIOUS
<1> PICK c : c = arg[t]
  OBVIOUS
<1>1. /\ pc[t] = "rel2" /\ c \in Channels
      /\ p \in Blocks \union {NULL} /\ n \in Blocks \union {NULL}
      /\ next \in [Blocks -> Blocks \union {NULL}]
      /\ out \in [Blocks -> 0 .. BLK]
      /\ out'  = [out  EXCEPT ![p] = 0]
      /\ next' = [next EXCEPT ![p] = NULL]
      /\ UNCHANGED <<chl, in, data, posted, aux, arg, op>>
      /\ op[t] = "clear"   => pc'[t] = "clr" /\ cur'[t] = n
      /\ op[t] = "popchar" => pc'[t] = "unlock"
      /\ op[t] \notin {"clear", "popchar"} => pc'[t] = "rehead"
  BY DEF ReleaseOut, Runs, TypeOK, CallType, PoolType, CallInv, InCS
<1>2. /\ PoolOK(NULL, p, NULL, c)
      /\ p \in Blocks /\ ~ Used(p) /\ n = next[p] /\ IsLeast(n, c)
      /\ op[t] = "popchar" /\ n # NULL => chl[n] = c
      /\ op[t] # "popchar" => NoOtherHead(NULL, c)
  BY <1>1 DEF PoolAt, Victim, Gutted, Fresh, Headless, Holds
<1>3. \A a, b \in Blocks : /\ Used(a)' = Used(a) /\ Own(a)' = Own(a)
                           /\ Before(a, b)' = Before(a, b)
  BY <1>1 DEF Used, Own, Before, Ser
<1>4. /\ next'[p] = NULL /\ out'[p] = 0
      /\ \A b \in Blocks \ {p} : next'[b] = next[b] /\ out'[b] = out[b]
  BY <1>1, <1>2
<1>5. CharsOK'
  BY <1>1, <1>3 DEF CharsOK, Ser, Own
<1>6. OrderOK'
  BY <1>1, <1>2, <1>3, <1>4 DEF OrderOK
<1>7. FreeOK(NULL)' /\ ReadOK(NULL)'
  BY <1>1, <1>2, <1>3, <1>4 DEF PoolOK, FreeOK, ReadOK
<1>8. LinkOK(NULL)'
  BY <1>1, <1>2, <1>3, <1>4 DEF PoolOK, LinkOK
<1>9. HeadOK(NULL)' /\ TailOK(NULL)'
  BY <1>1, <1>2, <1>3, <1>4 DEF PoolOK, HeadOK, TailOK
<1>10. ReachOK(c)' /\ IsLeast(n, c)'
  BY <1>1, <1>2, <1>3 DEF PoolOK, ReachOK, IsLeast
<1>11. op[t] # "popchar" => NoOtherHead(NULL, c)' /\ NoOtherHead(n, c)'
  BY <1>1, <1>2, Facts DEF NoOtherHead
<1>12. n # NULL => \A b \in Blocks : next'[b] # n
  BY <1>1, <1>2, <1>4 DEF PoolOK, LinkOK
<1>13. CASE op[t] = "popchar"
  <2>1. ReachOK(NoChl)'
    BY <1>1, <1>2, <1>3, <1>13 DEF PoolOK, ReachOK, IsLeast
  <2> QED
    BY <1>1, <1>5, <1>6, <1>7, <1>8, <1>9, <1>13, <2>1 DEF PoolAt, PoolOK, Victim, Gutted, Fresh, Headless, Holds
<1>14. CASE op[t] = "clear"
  BY <1>1, <1>5, <1>6, <1>7, <1>8, <1>9, <1>10, <1>11, <1>14 DEF PoolAt, PoolOK, Victim, Gutted, Fresh, Headless, Holds
<1>15. CASE op[t] \notin {"clear", "popchar"}
  BY <1>1, <1>5, <1>6, <1>7, <1>8, <1>9, <1>10, <1>11, <1>12, <1>15 DEF PoolAt, PoolOK, Victim, Gutted, Fresh, Headless, Holds
<1> QED
  BY <1>13, <1>14, <1>15

-----------------------------------------------------------------------------
(* One round of the loop of a pop.                                          *)
LEMMA TakeSomeCounts ==
  ASSUME TypeOK, NEW t \in Actors, TakeSome(t)
  PROVE  /\ cur[t] \in Blocks /\ out[cur[t]] < in[cur[t]]
         /\ Wanted(t, in[cur[t]] - out[cur[t]]) \in 1 .. in[cur[t]] - out[cur[t]]
<1>1. /\ cur[t] \in Blocks /\ in[cur[t]] \in 0 .. BLK /\ out[cur[t]] \in 0 .. BLK
      /\ in[cur[t]] - out[cur[t]] > 0 /\ lim[t] \in Nat
      /\ op[t] = "pop" => lim[t] > 0
  BY Facts DEF TakeSome, TypeOK, CallType, PoolType
<1> QED
  BY <1>1, Facts DEF Wanted

LEMMA TakeSomeKeepsPool ==
  ASSUME TypeOK, CallInv, NEW t \in Actors, PoolAt(t), CharsOK, OrderOK, TakeSome(t)
  PROVE  PoolAt(t)' /\ CharsOK' /\ OrderOK'
<1> USE DEF pool, locks, posts, local
<1> PICK p : p = cur[t]
  OBVIOUS
<1> PICK c : c = arg[t]
  OBVIOUS
<1> PICK q : q = out[p] + Wanted(t, in[p] - out[p])
  OBVIOUS
<1>1. /\ pc[t] = "take" /\ c \in Channels /\ op[t] \in {"pop", "pop2buf", "popchar"}
      /\ p \in Blocks /\ out[p] < q /\ q <= in[p] /\ q \in Nat
      /\ in \in [Blocks -> 0 .. BLK] /\ out \in [Blocks -> 0 .. BLK]
      /\ out' = [out EXCEPT ![p] = q]
      /\ UNCHANGED <<next, chl, in, data, posted, cur, arg, op>>
      /\ q >= BLK => aux'[t] = next[p] /\ pc'[t] = (IF op[t] = "popchar" THEN "rehead1" ELSE "rel1")
      /\ q < BLK => pc'[t] = (IF op[t] = "popchar" THEN "unlock" ELSE "take")
  <2>1. p \in Blocks /\ out[p] \in 0 .. BLK /\ in[p] \in 0 .. BLK
    BY TakeSomeCounts DEF TypeOK, PoolType
  <2>2. out[p] < q /\ q <= in[p] /\ q \in Nat
    BY <2>1, TakeSomeCounts, Facts
  <2> QED
    BY <2>1, <2>2, Facts DEF TakeSome, Runs, TypeOK, CallType, PoolType, CallInv, InCS
<1>2. PoolOK(NULL, NULL, NULL, NoChl) /\ chl[p] = c
  BY <1>1, Facts DEF PoolAt, Victim, Gutted, Fresh, Headless, Holds
<1>3. Used(p) /\ Own(p) = c
  BY <1>1, <1>2, Facts DEF PoolOK, FreeOK, HeadOK
<1>4. \A a, b \in Blocks : /\ Used(a)' = Used(a) /\ Own(a)' = Own(a)
                           /\ Before(a, b)' = Before(a, b)
  BY <1>1 DEF Used, Own, Before, Ser
<1>5. CharsOK' /\ OrderOK'
  BY <1>1, SameChars
<1>6. out'[p] = q /\ (\A b \in Blocks \ {p} : out'[b] = out[b]) /\ out[p] \in Nat
  BY <1>1
<1>7. FreeOK(NULL)'
  BY <1>1, <1>2, <1>3, <1>4, <1>6 DEF PoolOK, FreeOK
<1>8. LinkOK(NULL)'
  <2>1. \A b \in Blocks : out[b] >= BLK => out'[b] >= BLK
    BY <1>1, <1>6, Facts
  <2>2. next \in [Blocks -> Blocks \union {NULL}]
    BY DEF TypeOK, PoolType
  <2>3. LinkOK(NULL)
    BY <1>2 DEF PoolOK
  <2>4. \A b \in Blocks : next[b] # NULL =>
          /\ Used(next[b])' /\ Own(next[b])' = Own(b)' /\ Before(b, next[b])' = Before(b, next[b])
          /\ chl[next[b]] = NoChl \/ in[b] = 0 \/ out'[b] >= BLK
    <3> SUFFICES ASSUME NEW b \in Blocks, next[b] # NULL
                 PROVE  /\ Used(next[b])' /\ Own(next[b])' = Own(b)' /\ Before(b, next[b])' = Before(b, next[b])
                        /\ chl[next[b]] = NoChl \/ in[b] = 0 \/ out'[b] >= BLK
      OBVIOUS
    <3> PICK n \in Blocks : n = next[b]
      BY <2>2
    <3>1. Used(n) /\ Own(n) = Own(b) /\ (chl[n] = NoChl \/ in[b] = 0 \/ out[b] >= BLK)
      BY <2>3 DEF LinkOK
    <3>2. Used(n)' /\ Own(n)' = Own(b)' /\ Before(b, n)' = Before(b, n) /\ n = next'[b]
      BY <1>1, <1>4, <3>1
    <3>3. next' = next
      BY <1>1
    <3> QED
      BY <2>1, <3>1, <3>2, <3>3 DEF Used, Own, Before, Ser
  <2> QED
    BY <1>1, <2>3, <2>4 DEF LinkOK
<1>9. TailOK(NULL)' /\ ReachOK(NoChl)'
  BY <1>1, <1>2, <1>4 DEF PoolOK, TailOK, ReachOK
<1>10. NoOtherHead(p, c)'
  <2>1. \A b \in Blocks \ {p} : chl[b] # c
    BY <1>1, <1>2, <1>3, Facts, Antisymmetric DEF PoolOK, HeadOK, FreeOK, TypeOK
  <2> QED
    BY <1>1, <2>1 DEF NoOtherHead
<1>11. CASE q >= BLK
  <2>1. q = BLK
    BY <1>1, <1>11, Facts
  <2>2. ReadOK(p)'
    BY <1>1, <1>2, <1>4, <1>6, Facts DEF PoolOK, ReadOK
  <2>3. HeadOK(p)'
    BY <1>1, <1>2, <1>4, Facts DEF PoolOK, HeadOK
  <2>4. (PoolOK(p, NULL, NULL, NoChl))'
    BY <1>7, <1>8, <1>9, <2>2, <2>3 DEF PoolOK
  <2>5. Used(p)' /\ Own(p)' = c
    BY <1>1, <1>3, <1>4
  <2> QED
    BY <1>1, <1>2, <1>5, <1>6, <1>10, <1>11, <2>1, <2>4, <2>5, Facts DEF PoolAt, Victim, Gutted, Fresh, Headless, Holds
<1>12. CASE q < BLK
  <2>1. ReadOK(NULL)'
    BY <1>1, <1>2, <1>4, <1>6, <1>12, Facts DEF PoolOK, ReadOK
  <2>2. HeadOK(NULL)'
    BY <1>1, <1>2, <1>4, Facts DEF PoolOK, HeadOK
  <2>3. (PoolOK(NULL, NULL, NULL, NoChl))'
    BY <1>7, <1>8, <1>9, <2>1, <2>2 DEF PoolOK
  <2> QED
    BY <1>1, <1>2, <1>5, <1>12, <2>3, Facts DEF PoolAt, Victim, Gutted, Fresh, Headless, Holds
<1> QED
  BY <1>1, <1>11, <1>12, Facts

-----------------------------------------------------------------------------
(* The character DqueIo is storing was posted after all those of its        *)
(* channel that are in a block.                                             *)
LEMMA Latest ==
  ASSUME TypeOK, CallInv, SerialInv, NEW t \in Actors, pc[t] \in {"tail", "alloc"}
  PROVE  /\ t = Io /\ ch[1] = arg[t] /\ arg[t] \in Channels
         /\ ch[2] \in Nat /\ ch[2] <= posted[arg[t]]
         /\ \A b \in Blocks : \A k \in 0 .. in[b] - 1 : Own(b) = arg[t] => Ser(b, k) < ch[2]
<1>1. op[t] = "push" /\ t = Io /\ arg[t] = ch[1] /\ arg[t] \in Channels
  BY DEF CallInv, InCS
<1>2. Pending
  BY <1>1 DEF Pending
<1>3. ch[2] \in Nat
  BY DEF TypeOK, CallType, AnyChars
<1>4. ch[2] <= posted[arg[t]]
  BY <1>1 DEF SerialInv, HandOK
<1>5. \A b \in Blocks : \A k \in 0 .. in[b] - 1 : Own(b) = arg[t] => Ser(b, k) < ch[2]
  BY <1>1, <1>2 DEF SerialInv, StoredOK, Earlier
<1> QED
  BY <1>1, <1>3, <1>4, <1>5

LEMMA PushAppendKeepsPool ==
  ASSUME TypeOK, CallInv, SerialInv, NEW t \in Actors, PoolAt(t), CharsOK, OrderOK, PushAppend(t)
  PROVE  PoolAt(t)' /\ CharsOK' /\ OrderOK'
<1> USE DEF pool, locks, posts, local
<1> PICK p : p = cur[t]
  OBVIOUS
<1> PICK c : c = arg[t]
  OBVIOUS
<1> PICK m : m = in[p]
  OBVIOUS
<1> PICK x : x = ch
  OBVIOUS
<1>1. /\ pc[t] = "tail" /\ pc'[t] = "unlock" /\ c \in Channels
      /\ p \in Blocks /\ next[p] = NULL /\ m \in 0 .. BLK - 1
      /\ next \in [Blocks -> Blocks \union {NULL}]
      /\ in \in [Blocks -> 0 .. BLK] /\ data \in [Blocks -> [0 .. BLK - 1 -> AnyChars]]
      /\ in' = [in EXCEPT ![p] = m + 1]
      /\ data' = [data EXCEPT ![p][m] = x]
      /\ UNCHANGED <<next, chl, out, posted, arg>>
  BY SMTT(40), Facts, Latest DEF PushAppend, Runs, TypeOK, CallType, PoolType
<1>2. /\ PoolOK(NULL, NULL, NULL, NoChl) /\ Used(p) /\ Own(p) = c
  BY <1>1, Facts DEF PoolAt, Victim, Gutted, Fresh, Headless, Holds
<1>3. /\ x[1] = c /\ x[2] \in Nat /\ x[2] <= posted[c]
      /\ \A b \in Blocks : \A k \in 0 .. in[b] - 1 : Own(b) = c => Ser(b, k) < x[2]
  BY <1>1, Latest
<1>4. /\ in'[p] = m + 1 /\ data'[p][m] = x
      /\ \A k \in 0 .. m - 1 : data'[p][k] = data[p][k]
      /\ \A b \in Blocks \ {p} : in'[b] = in[b] /\ data'[b] = data[b]
      /\ m \in Nat /\ m > 0 /\ m < BLK
  BY <1>1, <1>2, Facts DEF Used
<1>5. /\ \A b \in Blocks : Used(b)' = Used(b) /\ Own(b)' = Own(b)
      /\ \A b \in Blocks : \A k \in 0 .. in[b] - 1 : Ser(b, k)' = Ser(b, k)
      /\ Ser(p, m)' = x[2]
  BY <1>2, <1>4 DEF Used, Own, Ser
<1>6. \A a, b \in Blocks \ {p} : Before(a, b)' = Before(a, b)
  BY <1>4 DEF Before, Ser
<1>7. \A b \in Blocks \ {p} : Used(b) /\ Own(b) = c => ~ Before(p, b) /\ Before(b, p)'
  <2> SUFFICES ASSUME NEW b \in Blocks \ {p}, Used(b), Own(b) = c
               PROVE  ~ Before(p, b) /\ Before(b, p)'
    OBVIOUS
  <2>1. Before(b, p)
    BY <1>1, <1>2, Facts DEF PoolOK, TailOK
  <2>2. ~ Before(p, b)
    BY <1>1, <1>2, <2>1, Antisymmetric DEF TypeOK
  <2>3. Before(b, p)'
    <3> SUFFICES ASSUME NEW k \in 0 .. in[b] - 1, NEW l \in 0 .. m
                 PROVE  Ser(b, k)' < Ser(p, l)'
      BY <1>4 DEF Before
    <3>1. Ser(b, k)' = Ser(b, k)
      BY <1>5
    <3>2. CASE l = m
      BY <1>3, <1>5, <3>1, <3>2
    <3>3. CASE l # m
      <4>1. l \in 0 .. in[p] - 1
        BY <1>4, <3>3
      <4>2. Ser(b, k) < Ser(p, l)
        BY <2>1, <4>1 DEF Before
      <4>3. Ser(p, l)' = Ser(p, l)
        BY <1>1, <1>5, <4>1
      <4> QED
        BY <3>1, <4>2, <4>3
    <3> QED
      BY <3>2, <3>3
  <2> QED
    BY <2>2, <2>3
<1>8. CharsOK'
  <2> SUFFICES ASSUME NEW b \in Blocks, Used(b)
               PROVE  /\ Own(b) \in Channels
                      /\ \A k \in 0 .. in'[b] - 1 : data'[b][k][1] = Own(b) /\ Ser(b, k)' <= posted[Own(b)]
                      /\ \A k, l \in 0 .. in'[b] - 1 : k < l => Ser(b, k)' < Ser(b, l)'
    BY <1>1, <1>5 DEF CharsOK
  <2>1. CASE b # p
    BY <1>4, <2>1 DEF CharsOK, Ser
  <2>2. CASE b = p
    <3>1. \A k \in 0 .. m : data'[p][k][1] = c /\ Ser(p, k)' <= posted[c]
      <4> SUFFICES ASSUME NEW k \in 0 .. m
                   PROVE  data'[p][k][1] = c /\ Ser(p, k)' <= posted[c]
        OBVIOUS
      <4>1. CASE k = m
        BY <1>3, <1>4, <1>5, <4>1
      <4>2. CASE k # m
        <5>1. k \in 0 .. in[p] - 1 /\ data'[p][k] = data[p][k]
          BY <1>4, <4>2
        <5>2. data[p][k][1] = c /\ Ser(p, k) <= posted[c] /\ Ser(p, k)' = Ser(p, k)
          BY <1>1, <1>2, <1>5, <5>1 DEF CharsOK
        <5> QED
          BY <5>1, <5>2
      <4> QED
        BY <4>1, <4>2
    <3>2. \A k, l \in 0 .. m : k < l => Ser(p, k)' < Ser(p, l)'
      <4> SUFFICES ASSUME NEW k \in 0 .. m, NEW l \in 0 .. m, k < l
                   PROVE  Ser(p, k)' < Ser(p, l)'
        OBVIOUS
      <4>1. k \in 0 .. m - 1 /\ Ser(p, k)' = Ser(p, k)
        <5>1. k \in 0 .. in[p] - 1 /\ k \in 0 .. m - 1
          BY <1>4
        <5> QED
          BY <1>1, <1>5, <5>1
      <4>2. CASE l = m
        BY <1>1, <1>2, <1>3, <1>5, <4>1, <4>2
      <4>3. CASE l # m
        BY <1>1, <1>2, <1>4, <1>5, <4>1, <4>3 DEF CharsOK
      <4> QED
        BY <4>2, <4>3
    <3> QED
      BY <1>1, <1>2, <1>4, <2>2, <3>1, <3>2
  <2> QED
    BY <2>1, <2>2
<1>9. OrderOK'
  <2>1. \A a, b \in Blocks : a # b /\ Used(a) /\ Used(b) /\ Own(a) = Own(b) =>
           Before(a, b)' \/ Before(b, a)'
    BY <1>2, <1>6, <1>7 DEF OrderOK
  <2>2. \A a, b \in Blocks :
           /\ Used(a) /\ next[a] # NULL
           /\ Used(b) /\ Own(a) = Own(b) /\ b # a /\ b # next[a]
           => Before(b, a)' \/ Before(next[a], b)'
    <3> SUFFICES ASSUME NEW a \in Blocks, NEW b \in Blocks, Used(a), next[a] # NULL,
                        Used(b), Own(a) = Own(b), b # a, b # next[a]
                 PROVE  Before(b, a)' \/ Before(next[a], b)'
      OBVIOUS
    <3> PICK n \in Blocks : n = next[a]
      BY <1>1
    <3>1. a # p /\ Used(n) /\ Own(n) = Own(a) /\ (Before(b, a) \/ Before(n, b))
      BY <1>1, <1>2 DEF PoolOK, LinkOK, OrderOK
    <3>2. Before(b, a)' \/ Before(n, b)'
      BY <1>2, <1>6, <1>7, <3>1
    <3> QED
      BY <1>1, <3>2 DEF Before, Ser
  <2>3. next' = next
    BY <1>1
  <2> QED
    BY <1>5, <2>1, <2>2, <2>3 DEF OrderOK
<1>10. FreeOK(NULL)' /\ ReadOK(NULL)' /\ ReachOK(NoChl)'
  <2>1. FreeOK(NULL)' /\ ReachOK(NoChl)'
    BY SMTT(40), <1>1, <1>2, <1>5 DEF PoolOK, FreeOK, ReachOK
  <2>2. \A b \in Blocks : in'[b] >= in[b]
    BY <1>1, <1>4
  <2>3. out \in [Blocks -> 0 .. BLK]
    BY DEF TypeOK, PoolType
  <2> QED
    <3>1. ReadOK(NULL)
      BY <1>2 DEF PoolOK
    <3>2. \A b \in Blocks : Used(b) => out[b] <= in'[b] /\ (b # NULL => out[b] < BLK)
      <4> SUFFICES ASSUME NEW b \in Blocks, Used(b)
                   PROVE  out[b] <= in'[b] /\ (b # NULL => out[b] < BLK)
        OBVIOUS
      <4>1. /\ out[b] \in Nat /\ in[b] \in Nat /\ in'[b] \in Nat /\ in'[b] >= in[b]
            /\ out[b] <= in[b] /\ (b # NULL => out[b] < BLK)
        <5>1. out[b] \in Nat /\ in[b] \in Nat /\ in'[b] \in Nat
          <6>1. out[b] \in 0 .. BLK /\ in[b] \in 0 .. BLK
            BY <1>1, <2>3
          <6>2. in'[b] = in[b] \/ in'[b] = m + 1
            BY <1>4
          <6> QED
            BY <1>4, <6>1, <6>2, Facts
        <5>2. out[b] <= in[b] /\ (b # NULL => out[b] < BLK)
          BY <3>1 DEF ReadOK
        <5> QED
          BY <2>2, <5>1, <5>2
      <4> QED
        BY <4>1
    <3>3. ReadOK(NULL)'
      BY <1>1, <1>5, <3>2 DEF ReadOK
    <3> QED
      BY <2>1, <3>3
<1>11. LinkOK(NULL)'
  <2> SUFFICES ASSUME NEW b \in Blocks, next[b] # NULL
               PROVE  /\ Used(next[b])' /\ Own(next[b])' = Own(b)'
                      /\ chl[next[b]] = NoChl \/ in'[b] = 0 \/ out[b] >= BLK
                      /\ in'[b] = BLK /\ Before(b, next[b])'
    BY <1>1, <1>2 DEF PoolOK, LinkOK
  <2> PICK n \in Blocks : n = next[b]
    BY <1>1
  <2>1. b # p /\ Used(n) /\ Own(n) = Own(b) /\ in[b] = BLK /\ Before(b, n)
        /\ (chl[n] = NoChl \/ in[b] = 0 \/ out[b] >= BLK)
    BY <1>1, <1>2, Facts DEF PoolOK, LinkOK
  <2>2. Used(b)
    BY <2>1, Facts DEF Used
  <2>3. Before(b, n)'
    BY <1>2, <1>6, <1>7, <2>1, <2>2
  <2>4. Used(n)' /\ Own(n)' = Own(b)' /\ in'[b] = in[b] /\ n = next'[b]
    BY <1>1, <1>4, <1>5, <2>1
  <2> QED
    BY <2>1, <2>3, <2>4 DEF Used, Own, Before, Ser
<1>12. HeadOK(NULL)'
  <2> SUFFICES ASSUME NEW b \in Blocks, chl[b] # NoChl
               PROVE  /\ Own(b) = chl[b]
                      /\ \A a \in Blocks \ {b} : Used(a) /\ Own(a) = Own(b) => Before(b, a)'
    BY <1>1, <1>5 DEF HeadOK
  <2>1. Own(b) = chl[b] /\ Used(b)
    BY <1>2 DEF PoolOK, HeadOK, FreeOK
  <2>2. \A a \in Blocks \ {b} : Used(a) /\ Own(a) = Own(b) => Before(b, a)
    BY <1>2, Facts DEF PoolOK, HeadOK
  <2> QED
    BY <1>2, <1>6, <1>7, <2>1, <2>2
<1>13. TailOK(NULL)'
  <2> SUFFICES ASSUME NEW a \in Blocks, NEW b \in Blocks, a # b, Used(a)', Used(b)',
                      Own(a)' = Own(b)', next[a] = NULL
               PROVE  Before(b, a)'
    BY <1>1 DEF TailOK
  <2>1. Used(a) /\ Used(b) /\ Own(a) = Own(b)
    BY <1>5
  <2>2. CASE a = p
    BY <1>2, <1>7, <2>1, <2>2
  <2>3. CASE a # p
    <3>1. Before(b, a)
      <4>1. TailOK(NULL)
        BY <1>2 DEF PoolOK
      <4> QED
        BY <2>1, <2>3, <4>1, Facts DEF TailOK
    <3>2. b # p
      BY <1>2, <1>7, <2>1, <2>3, <3>1
    <3> QED
      BY <1>6, <2>3, <3>1, <3>2
  <2> QED
    BY <2>2, <2>3
<1> QED
  BY <1>1, <1>8, <1>9, <1>10, <1>11, <1>12, <1>13 DEF PoolAt, PoolOK, Victim, Gutted, Fresh, Headless, Holds

(* A free block is in no chain, so that filling it touches nobody else's.   *)
LEMMA PushAllocKeepsPool ==
  ASSUME TypeOK, CallInv, SerialInv, NEW t \in Actors, PoolAt(t), CharsOK, OrderOK, PushAlloc(t)
  PROVE  PoolAt(t)' /\ CharsOK' /\ OrderOK'
<1> USE DEF pool, locks, posts, local
<1> PICK q : q = cur'[t]
  OBVIOUS
<1> PICK n : n = aux[t]
  OBVIOUS
<1> PICK c : c = arg[t]
  OBVIOUS
<1> PICK x : x = ch
  OBVIOUS
<1> PICK f : f = IF n = NULL THEN c ELSE NoChl
  OBVIOUS
<1>1. /\ pc[t] = "alloc" /\ pc'[t] = (IF q = NULL THEN "unlock" ELSE "link") /\ c \in Channels
      /\ q \in Blocks \union {NULL} /\ IsUnused(q) /\ n \in Blocks \union {NULL}
      /\ next \in [Blocks -> Blocks \union {NULL}] /\ out \in [Blocks -> 0 .. BLK]
      /\ in \in [Blocks -> 0 .. BLK] /\ data \in [Blocks -> [0 .. BLK - 1 -> AnyChars]]
      /\ in' = (IF q = NULL THEN in ELSE [in EXCEPT ![q] = 1])
      /\ data' = (IF q = NULL THEN data ELSE [data EXCEPT ![q][0] = x])
      /\ UNCHANGED <<next, chl, out, posted, arg, aux>>
  BY Facts, Latest DEF PushAlloc, FillBlock, Runs, TypeOK, CallType, PoolType
<1>2. /\ PoolOK(NULL, NULL, NULL, NoChl)
      /\ n # NULL => Used(n) /\ Own(n) = c /\ next[n] = NULL /\ in[n] = BLK
      /\ n = NULL => \A b \in Blocks : Used(b) => Own(b) # c
  BY <1>1, Facts DEF PoolAt, Victim, Gutted, Fresh, Headless, Holds
<1>3. CASE q = NULL
  <2>1. UNCHANGED <<next, chl, in, out, data, posted>>
    BY <1>1, <1>3
  <2>2. PoolOK(NULL, NULL, NULL, NoChl)'
    BY <1>2, <2>1 DEF PoolOK, FreeOK, ReadOK, LinkOK, HeadOK, TailOK, ReachOK, Used, Own, Before, Ser
  <2>3. CharsOK' /\ OrderOK'
    BY <2>1 DEF CharsOK, OrderOK, Used, Own, Before, Ser
  <2> QED
    BY <1>1, <1>3, <2>2, <2>3 DEF PoolAt, Victim, Gutted, Fresh, Headless, Holds
<1>4. CASE q # NULL
  <2>1. /\ q \in Blocks /\ in[q] = 0 /\ ~ Used(q) /\ in'[q] = 1 /\ data'[q][0] = x
        /\ \A b \in Blocks \ {q} : in'[b] = in[b] /\ data'[b] = data[b]
    BY <1>1, <1>4, Facts DEF IsUnused, Used
  <2>2. /\ x[1] = c /\ x[2] \in Nat /\ x[2] <= posted[c]
        /\ \A b \in Blocks : \A k \in 0 .. in[b] - 1 : Own(b) = c => Ser(b, k) < x[2]
    BY <1>1, Latest
  <2>3. /\ Used(q)' /\ Own(q)' = c /\ Ser(q, 0)' = x[2]
        /\ \A b \in Blocks \ {q} : Used(b)' = Used(b) /\ Own(b)' = Own(b)
    BY <2>1, <2>2 DEF Used, Own, Ser
  <2>4. \A a, b \in Blocks \ {q} : Before(a, b)' = Before(a, b)
    BY <2>1 DEF Before, Ser
  <2>5. \A b \in Blocks \ {q} : Own(b) = c => Before(b, q)'
    <3> SUFFICES ASSUME NEW b \in Blocks \ {q}, Own(b) = c, NEW k \in 0 .. in[b] - 1
                 PROVE  Ser(b, k)' < Ser(q, 0)'
      BY <2>1 DEF Before
    <3>1. Ser(b, k)' = Ser(b, k) /\ Ser(b, k) < x[2]
      BY <2>1, <2>2 DEF Ser
    <3> QED
      BY <2>3, <3>1
  <2>6. next[q] = NULL /\ chl[q] = NoChl /\ out[q] = 0 /\ \A b \in Blocks : next[b] # q
    BY <1>1, <1>2, <1>4, <2>1, Facts DEF PoolOK, FreeOK, LinkOK
  <2>7. CharsOK'
    <3> SUFFICES ASSUME NEW b \in Blocks, Used(b)'
                 PROVE  /\ Own(b)' \in Channels
                        /\ \A k \in 0 .. in'[b] - 1 : data'[b][k][1] = Own(b)' /\ Ser(b, k)' <= posted[Own(b)']
                        /\ \A k, l \in 0 .. in'[b] - 1 : k < l => Ser(b, k)' < Ser(b, l)'
      BY <1>1 DEF CharsOK
    <3>1. CASE b = q
      BY <1>1, <2>1, <2>2, <2>3, <3>1
    <3>2. CASE b # q
      BY <2>1, <2>3, <3>2 DEF CharsOK, Ser
    <3> QED
      BY <3>1, <3>2
  <2>8. OrderOK'
    <3>1. \A a, b \in Blocks : a # b /\ Used(a)' /\ Used(b)' /\ Own(a)' = Own(b)' =>
             Before(a, b)' \/ Before(b, a)'
      BY <2>3, <2>4, <2>5 DEF OrderOK
    <3>2. \A a, b \in Blocks :
             /\ Used(a)' /\ next[a] # NULL
             /\ Used(b)' /\ Own(a)' = Own(b)' /\ b # a /\ b # next[a]
             => Before(b, a)' \/ Before(next[a], b)'
      <4> SUFFICES ASSUME NEW a \in Blocks, NEW b \in Blocks, Used(a)', next[a] # NULL,
                          Used(b)', Own(a)' = Own(b)', b # a, b # next[a]
                   PROVE  Before(b, a)' \/ Before(next[a], b)'
        OBVIOUS
      <4> PICK m \in Blocks : m = next[a]
        BY <1>1
      <4>1. a # q /\ m # q /\ Used(a) /\ Used(m) /\ Own(m) = Own(a)
        BY <1>2, <2>3, <2>6 DEF PoolOK, LinkOK
      <4>2. CASE b = q
        <5>1. Before(m, q)'
          BY <2>3, <2>5, <4>1, <4>2
        <5>2. m = next'[a]
          BY <1>1
        <5> QED
          BY <4>2, <5>1, <5>2 DEF Before, Ser
      <4>3. CASE b # q
        <5>1. Before(b, a) \/ Before(m, b)
          BY <2>3, <4>1, <4>3 DEF OrderOK
        <5>2. Before(b, a)' \/ Before(m, b)'
          BY <2>4, <4>1, <4>3, <5>1
        <5> QED
          <6>1. m = next'[a]
            BY <1>1
          <6> QED
            BY <5>2, <6>1 DEF Before, Ser
      <4> QED
        BY <4>2, <4>3
    <3>3. next' = next
      BY <1>1
    <3> QED
      BY <3>1, <3>2, <3>3 DEF OrderOK
  <2>9. FreeOK(NULL)'
    BY <1>1, <1>2, <2>3 DEF PoolOK, FreeOK
  <2>10. ReadOK(NULL)'
    BY <1>1, <1>2, <2>1, <2>3, <2>6, Facts DEF PoolOK, ReadOK
  <2>11. LinkOK(NULL)'
    <3>1. \A b \in Blocks : next[b] # NULL => b # q /\ next[b] \in Blocks \ {q}
      BY <1>1, <2>6
    <3>2. LinkOK(NULL)
      BY <1>2 DEF PoolOK
    <3> QED
      BY <1>1, <2>1, <2>3, <2>4, <3>1, <3>2 DEF LinkOK
  <2>12. HeadOK(NULL)'
    BY SMTT(40), <1>1, <1>2, <2>3, <2>4, <2>5, <2>6, Facts DEF PoolOK, HeadOK
  <2>13. TailOK(q)'
    <3> SUFFICES ASSUME NEW a \in Blocks, NEW b \in Blocks, a # b, Used(a)', Used(b)',
                        Own(a)' = Own(b)', next[a] = NULL, b # q
                 PROVE  Before(b, a)'
      BY <1>1 DEF TailOK
    <3>1. CASE a = q
      BY <2>3, <2>5, <3>1
    <3>2. CASE a # q
      BY <1>2, <2>3, <2>4, <3>2, Facts DEF PoolOK, TailOK
    <3> QED
      BY <3>1, <3>2
  <2>14. ReachOK(f)'
    <3>1. \A b \in Blocks \ {q} : Used(b) => Own(b) = f \/ \E a \in Blocks : chl[a] = Own(b)
      BY <1>2, Facts DEF PoolOK, ReachOK, CharsOK
    <3>2. c = f \/ \E a \in Blocks : chl[a] = c
      BY <1>1, <1>2, Facts DEF PoolOK, ReachOK
    <3> QED
      BY <1>1, <2>3, <3>1, <3>2 DEF ReachOK
  <2>15. (PoolOK(NULL, NULL, q, f))'
    BY <2>9, <2>10, <2>11, <2>12, <2>13, <2>14 DEF PoolOK
  <2>16. /\ n # NULL => n # q /\ Used(n)' /\ Own(n)' = c /\ next'[n] = NULL /\ in'[n] = BLK
         /\ n = NULL => \A b \in Blocks \ {q} : Used(b)' => Own(b)' # c
    BY <1>1, <1>2, <2>1, <2>3
  <2> QED
    BY <1>1, <1>4, <2>1, <2>3, <2>6, <2>7, <2>8, <2>15, <2>16, Facts
    DEF PoolAt, Victim, Gutted, Fresh, Headless, Holds
<1> QED
  BY <1>3, <1>4

LEMMA PushLinkKeepsPool ==
  ASSUME TypeOK, CallInv, NEW t \in Actors, PoolAt(t), CharsOK, OrderOK, PushLink(t)
  PROVE  PoolAt(t)' /\ CharsOK' /\ OrderOK'
<1> USE DEF pool, locks, posts, local
<1> PICK p : p = cur[t]
  OBVIOUS
<1> PICK n : n = aux[t]
  OBVIOUS
<1> PICK c : c = arg[t]
  OBVIOUS
<1>1. /\ pc[t] = "link" /\ pc'[t] = "unlock" /\ c \in Channels
      /\ p \in Blocks \union {NULL} /\ n \in Blocks \union {NULL}
      /\ next \in [Blocks -> Blocks \union {NULL}]
      /\ chl \in [Blocks -> Channels \union {NoChl}]
      /\ next' = (IF n # NULL THEN [next EXCEPT ![n] = p] ELSE next)
      /\ chl'  = (IF n = NULL THEN [chl  EXCEPT ![p] = c] ELSE chl)
      /\ UNCHANGED <<in, out, data, posted, arg>>
  BY DEF PushLink, Runs, TypeOK, CallType, PoolType, CallInv, InCS
<1>2. /\ PoolOK(NULL, NULL, p, IF n = NULL THEN c ELSE NoChl)
      /\ p \in Blocks /\ p # n /\ in[p] = 1 /\ out[p] = 0 /\ Own(p) = c
      /\ next[p] = NULL /\ chl[p] = NoChl /\ \A b \in Blocks : next[b] # p
      /\ n # NULL => Used(n) /\ Own(n) = c /\ next[n] = NULL /\ in[n] = BLK
      /\ n = NULL => \A b \in Blocks \ {p} : Used(b) => Own(b) # c
  BY <1>1, Facts DEF PoolAt, Victim, Gutted, Fresh, Headless, Holds
<1>3. /\ Used(p)
      /\ \A a, b \in Blocks : /\ Used(a)' = Used(a) /\ Own(a)' = Own(a)
                              /\ Before(a, b)' = Before(a, b)
  BY <1>1, <1>2 DEF Used, Own, Before, Ser
<1>4. CharsOK' /\ ReadOK(NULL)'
  BY <1>1, <1>2 DEF CharsOK, PoolOK, ReadOK, Ser, Own, Used
<1>5. CASE n = NULL
  <2>1. chl'[p] = c /\ (\A b \in Blocks \ {p} : chl'[b] = chl[b]) /\ next' = next
    BY <1>1, <1>2, <1>5
  <2>2. OrderOK'
    BY <2>1, <1>1 DEF OrderOK, Used, Own, Before, Ser
  <2>3. FreeOK(NULL)' /\ ReachOK(NoChl)'
    BY <1>1, <1>2, <1>3, <1>5, <2>1 DEF PoolOK, FreeOK, ReachOK
  <2>4. LinkOK(NULL)'
    BY <1>1, <1>2, <1>3, <2>1 DEF PoolOK, LinkOK
  <2>5. HeadOK(NULL)'
    BY <1>1, <1>2, <1>3, <1>5, <2>1 DEF PoolOK, HeadOK
  <2>6. TailOK(NULL)'
    BY <1>2, <1>3, <1>5, <2>1 DEF PoolOK, TailOK
  <2> QED
    BY <1>1, <1>4, <2>2, <2>3, <2>4, <2>5, <2>6 DEF PoolAt, PoolOK, Victim, Gutted, Fresh, Headless, Holds
<1>6. CASE n # NULL
  <2>1. /\ n \in Blocks /\ next'[n] = p /\ (\A b \in Blocks \ {n} : next'[b] = next[b])
        /\ chl' = chl /\ Used(n)
    BY <1>1, <1>2, <1>6
  <2>2. /\ \A b \in Blocks \ {n, p} : Used(b) /\ Own(b) = c => Before(b, n)
        /\ \A b \in Blocks \ {p} : Used(b) /\ Own(b) = c => Before(b, p)
    BY <1>2, <1>3, <2>1 DEF PoolOK, TailOK
  <2>3. \A a \in Blocks \ {n, p} : Used(a) /\ Own(a) = c => next[a] # NULL
    <3> SUFFICES ASSUME NEW a \in Blocks \ {n, p}, Used(a), Own(a) = c, next[a] = NULL
                 PROVE  FALSE
      OBVIOUS
    <3>1. Before(n, a)
      BY <1>2, <2>1 DEF PoolOK, TailOK
    <3> QED
      BY <2>1, <2>2, <3>1, Antisymmetric DEF TypeOK
  <2>4. OrderOK'
    <3>1. \A a, b \in Blocks : a # b /\ Used(a) /\ Used(b) /\ Own(a) = Own(b) =>
             Before(a, b)' \/ Before(b, a)'
      BY <1>3 DEF OrderOK
    <3>2. \A a, b \in Blocks :
             /\ Used(a) /\ next'[a] # NULL
             /\ Used(b) /\ Own(a) = Own(b) /\ b # a /\ b # next'[a]
             => Before(b, a)' \/ Before(next[a], b)' \/ a = n
      BY <1>1, <1>3, <2>1 DEF OrderOK, Used, Own, Before, Ser
    <3>3. \A b \in Blocks \ {n, p} : Used(b) /\ Own(b) = c => Before(b, n)'
      BY <1>3, <2>1, <2>2
    <3> QED
      BY <1>1, <1>2, <1>3, <2>1, <3>1, <3>2, <3>3 DEF OrderOK, Used, Own, Before, Ser
  <2>5. FreeOK(NULL)' /\ ReachOK(NoChl)' /\ HeadOK(NULL)'
    BY <1>1, <1>2, <1>3, <1>6, <2>1 DEF PoolOK, FreeOK, ReachOK, HeadOK
  <2>6. LinkOK(NULL)'
    <3>1. \A b \in Blocks \ {n} : next[b] # NULL =>
             /\ next[b] \in Blocks
             /\ Used(next[b]) /\ Own(next[b]) = Own(b)
             /\ chl[next[b]] = NoChl \/ in[b] = 0 \/ out[b] >= BLK
             /\ in[b] = BLK /\ Before(b, next[b])
      BY <1>1, <1>2, Facts DEF PoolOK, LinkOK
    <3>2. /\ Used(p) /\ Own(p) = Own(n) /\ chl[p] = NoChl /\ in[n] = BLK /\ Before(n, p)
      BY <1>2, <1>3, <1>6, <2>1, <2>2
    <3>3. \A a, b \in Blocks : next'[a] = next'[b] /\ next'[a] # NULL => a = b
      BY <1>2, <2>1 DEF PoolOK, LinkOK
    <3> QED
      BY <1>1, <1>3, <2>1, <3>1, <3>2, <3>3 DEF LinkOK, Used, Own, Before, Ser
  <2>7. TailOK(NULL)'
    BY <1>2, <1>3, <2>1, <2>2, <2>3, Facts DEF PoolOK, TailOK
  <2> QED
    BY <1>1, <1>4, <2>4, <2>5, <2>6, <2>7 DEF PoolAt, PoolOK, Victim, Gutted, Fresh, Headless, Holds
<1> QED
  BY <1>5, <1>6
=============================================================================
