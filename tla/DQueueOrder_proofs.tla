------------------------ MODULE DQueueOrder_proofs ------------------------
(***************************************************************************)
(* The pool stays whole and the characters of a channel keep their order   *)
(* from dque_Push through mailbox, blocks and reader: IInv is inductive,    *)
(* and InOrder follows from it.                                            *)
(***************************************************************************)
EXTENDS DQueue_proofs

(* Steps outside the locked operations: whoever is inside afterwards was    *)
(* there before, or has come in to a whole pool.                            *)
LEMMA PoolFrame ==
  ASSUME PoolInv, UNCHANGED <<next, chl, in, out, data>>,
         posted \in [Channels -> Nat], posted' \in [Channels -> Nat],
         \A c \in Channels : posted[c] <= posted'[c],
         TypeOK,
         \A s \in Actors : Inside(s)' =>
            \/ /\ Inside(s) /\ pc'[s] = pc[s] /\ cur'[s] = cur[s] /\ aux'[s] = aux[s]
               /\ arg'[s] = arg[s] /\ op'[s] = op[s]
            \/ /\ pc'[s] = "first" /\ PoolOK(NULL, NULL, NULL, NoChl),
         (\A s \in Actors : ~ Inside(s)') => PoolOK(NULL, NULL, NULL, NoChl)
  PROVE  PoolInv'
<1>1. OrderOK'
  BY DEF PoolInv, OrderOK, Used, Own, Before, Ser
<1>2. CharsOK'
  <2> SUFFICES ASSUME NEW b \in Blocks, Used(b)
               PROVE  /\ Own(b) \in Channels
                      /\ \A k \in 0 .. in[b] - 1 : data[b][k][1] = Own(b) /\ Ser(b, k) <= posted'[Own(b)]
                      /\ \A k, l \in 0 .. in[b] - 1 : k < l => Ser(b, k) < Ser(b, l)
    BY DEF CharsOK, Used, Own, Ser
  <2>1. \A k \in 0 .. in[b] - 1 : Ser(b, k) \in Nat
    BY Facts DEF TypeOK, PoolType, AnyChars, Ser
  <2>2. posted[Own(b)] <= posted'[Own(b)] /\ posted[Own(b)] \in Nat /\ posted'[Own(b)] \in Nat
    BY DEF PoolInv, CharsOK
  <2> QED
    BY <2>1, <2>2 DEF PoolInv, CharsOK
<1>3. PoolOK(NULL, NULL, NULL, NoChl) => PoolOK(NULL, NULL, NULL, NoChl)'
  BY DEF PoolOK, FreeOK, ReadOK, LinkOK, HeadOK, TailOK, ReachOK, Used, Own, Before, Ser
<1>4. ASSUME NEW s \in Actors, Inside(s)' PROVE PoolAt(s)'
  <2>1. CASE pc'[s] = "first" /\ PoolOK(NULL, NULL, NULL, NoChl)
    BY <1>3, <2>1 DEF PoolAt, Victim, Gutted, Fresh, Headless, Holds
  <2>2. CASE /\ Inside(s) /\ pc'[s] = pc[s] /\ cur'[s] = cur[s] /\ aux'[s] = aux[s]
             /\ arg'[s] = arg[s] /\ op'[s] = op[s]
    <3>1. PICK v, g, f, h : v = Victim(s) /\ g = Gutted(s) /\ f = Fresh(s) /\ h = Headless(s)
      OBVIOUS
    <3>2. PoolOK(v, g, f, h) /\ Holds(s)
      BY <2>2, <3>1 DEF PoolInv, PoolAt
    <3>3. (PoolOK(v, g, f, h))'
      BY <3>2 DEF PoolOK, FreeOK, ReadOK, LinkOK, HeadOK, TailOK, ReachOK, Used, Own, Before, Ser
    <3>4. v = Victim(s)' /\ g = Gutted(s)' /\ f = Fresh(s)' /\ h = Headless(s)'
      BY <2>2, <3>1 DEF Victim, Gutted, Fresh, Headless
    <3>5. Holds(s)'
      BY <2>2, <3>2 DEF Holds, IsLeast, NoOtherHead, Used, Own, Before, Ser
    <3> QED
      BY <3>3, <3>4, <3>5 DEF PoolAt
  <2> QED
    BY <1>4, <2>1, <2>2
<1> QED
  BY <1>1, <1>2, <1>3, <1>4 DEF PoolInv

(* The statements of an insider, one by one.                                *)
LEMMA InnerKeepsPool ==
  ASSUME TypeOK, CallInv, SerialInv, NEW t \in Actors, PoolAt(t), CharsOK, OrderOK, Inner(t)
  PROVE  PoolAt(t)' /\ CharsOK' /\ OrderOK'
  BY TakeNoneKeepsPool, FirstKeepsPool, PushWalkKeepsPool, PushFullKeepsPool, ClearKeepsPool,
     RenameNextKeepsPool, ReheadKeepsPool, ReleaseInKeepsPool, ReleaseOutKeepsPool,
     TakeSomeKeepsPool, PushAppendKeepsPool, PushAllocKeepsPool, PushLinkKeepsPool DEF Inner

LEMMA PoolStep ==
  ASSUME IInv, [Next]_vars, IsrChannels = {}
  PROVE  PoolInv'
<1> USE DEF IInv, pool, locks, posts, local
<1>0. posted \in [Channels -> Nat]
  BY DEF TypeOK, QueueType
<1>1. ASSUME NEW c \in Channels, Post(c) PROVE PoolInv'
  <2>1. posted' \in [Channels -> Nat] /\ \A d \in Channels : posted[d] <= posted'[d]
    BY <1>0, <1>1 DEF Post
  <2>2. UNCHANGED <<next, chl, in, out, data, pc, cur, aux, arg, op, waitq>>
    BY <1>1 DEF Post
  <2>3. \A s \in Actors : Inside(s)' <=> Inside(s)
    BY <2>2 DEF Inside, Suspended
  <2> QED
    BY <1>0, <2>1, <2>2, <2>3, PoolFrame DEF PoolInv
<1>2. ASSUME NEW t \in Actors, pc[t] \notin InCS, pc'[t] \notin InCS,
             \A s \in Actors \ {t} : /\ pc'[s] = pc[s] /\ cur'[s] = cur[s] /\ aux'[s] = aux[s]
                                     /\ arg'[s] = arg[s] /\ op'[s] = op[s],
             UNCHANGED <<next, chl, in, out, data, posted, waitq>>
      PROVE  PoolInv'
  <2>1. ~ Inside(t) /\ ~ Inside(t)' /\ \A s \in Actors \ {t} : Inside(s)' <=> Inside(s)
    BY <1>2 DEF Inside, Suspended
  <2> QED
    BY <1>0, <1>2, <2>1, PoolFrame DEF PoolInv
<1>3. CASE IoRecv
  BY <1>2, <1>3, Facts DEF IoRecv, Runs, InCS, TypeOK, CallType
<1>4. ASSUME NEW t \in Threads, NEW o \in Ops, NEW c \in Channels, NEW n \in 0 .. MaxLen, Call(t, o, c, n)
      PROVE  PoolInv'
  <2>1. t \in Actors
    BY DEF Actors
  <2> QED
    BY <1>2, <1>4, <2>1 DEF Call, Runs, InCS, TypeOK, CallType
<1>5. ASSUME NEW t \in Actors, Measure(t) PROVE PoolInv'
  BY <1>2, <1>5 DEF Measure, LenFirst, LenIn, LenOut, LenNext, LenReturn, Return, Runs, InCS, TypeOK, CallType
<1>6. ASSUME NEW t \in Actors, Lock(t) PROVE PoolInv'
  <2>1. /\ t \notin Suspended /\ pc[t] = "lock" /\ pc'[t] = "first"
        /\ \A s \in Actors \ {t} : pc'[s] = pc[s]
        /\ UNCHANGED <<next, chl, in, out, data, posted, cur, aux, arg, op>>
    BY <1>6 DEF Lock, Runs, TypeOK, CallType
  <2>2. CASE sem > 0
    <3>1. sem = 1 /\ waitq' = <<>> /\ \A s \in Actors : pc[s] \notin InCS
      BY <1>6, <2>2 DEF Lock, LockInv, TypeOK, LockType
    <3>2. PoolOK(NULL, NULL, NULL, NoChl)
      BY <3>1 DEF PoolInv, Inside
    <3>3. \A s \in Actors : Inside(s)' => s = t
      BY <2>1, <3>1 DEF Inside
    <3> QED
      BY <1>0, <2>1, <3>2, <3>3, PoolFrame
  <2>3. CASE sem = 0
    <3>1. waitq' = Append(waitq, t)
      BY <1>6, <2>3 DEF Lock
    <3>2. /\ Len(waitq') = Len(waitq) + 1 /\ waitq'[Len(waitq) + 1] = t
          /\ \A i \in 1 .. Len(waitq) : waitq'[i] = waitq[i]
          /\ Len(waitq) \in Nat
      BY <3>1 DEF TypeOK, LockType
    <3>3. Suspended' = Suspended \union {t}
      BY <3>2 DEF Suspended
    <3>4. ~ Inside(t) /\ ~ Inside(t)' /\ \A s \in Actors \ {t} : Inside(s)' <=> Inside(s)
      BY <2>1, <3>3 DEF Inside, InCS
    <3> QED
      BY <1>0, <2>1, <3>4, PoolFrame DEF PoolInv
  <2> QED
    BY <1>6, <2>2, <2>3 DEF Lock
<1>7. ASSUME NEW t \in Actors, Unlock(t) PROVE PoolInv'
  <2>1. /\ t \notin Suspended /\ Inside(t) /\ pc[t] = "unlock" /\ pc'[t] = "idle"
        /\ \A s \in Actors \ {t} : pc'[s] = pc[s]
        /\ UNCHANGED <<next, chl, in, out, data, posted>>
    BY <1>7 DEF Unlock, Return, Runs, Inside, InCS, TypeOK, CallType
  <2>2. PoolOK(NULL, NULL, NULL, NoChl)
    BY <2>1 DEF PoolInv, PoolAt, Victim, Gutted, Fresh, Headless
  <2>3. \A s \in Actors : Inside(s)' => pc'[s] = "first"
    <3> SUFFICES ASSUME NEW s \in Actors, Inside(s)' PROVE pc'[s] = "first"
      OBVIOUS
    <3>1. s # t /\ pc[s] \in InCS
      BY <2>1 DEF Inside, InCS
    <3>2. s \in Suspended
      BY <2>1, <3>1 DEF Inside, LockInv, MutualExclusion
    <3>3. pc[s] = "first"
      BY <3>2 DEF Suspended, LockInv
    <3> QED
      BY <2>1, <3>1, <3>3
  <2> QED
    BY <1>0, <2>1, <2>2, <2>3, PoolFrame
<1>8. ASSUME NEW t \in Actors, Inner(t) PROVE PoolInv'
  <2>1. /\ t \notin Suspended /\ waitq' = waitq /\ Inside(t)
        /\ \A s \in Actors \ {t} : pc'[s] = pc[s]
        /\ pc'[t] \in InCS
    BY <1>8, InnerStays DEF Inside
  <2>2. PoolAt(t)' /\ CharsOK' /\ OrderOK'
    BY <1>8, <2>1, InnerKeepsPool DEF PoolInv
  <2>3. Inside(t)' /\ \A s \in Actors \ {t} : ~ Inside(s)'
    BY <2>1 DEF Inside, Suspended, LockInv, MutualExclusion
  <2> QED
    BY <2>2, <2>3 DEF PoolInv
<1>9. CASE UNCHANGED vars
  <2>1. \A s \in Actors : Inside(s)' <=> Inside(s)
    BY <1>9 DEF vars, Inside, Suspended
  <2> QED
    BY <1>0, <1>9, <2>1, PoolFrame DEF PoolInv, vars
<1> QED
  BY <1>1, <1>3, <1>4, <1>5, <1>6, <1>7, <1>8, <1>9 DEF Next, Step, IsrPopChar, TxEnable, TypeOK, QueueType

-----------------------------------------------------------------------------
(* Serial numbers: most statements store, read and receive nothing.         *)
LEMMA SerialFrame ==
  ASSUME SerialInv, UNCHANGED <<mb, posted, rcvd, data>>,
         in \in [Blocks -> 0 .. BLK], in' \in [Blocks -> 0 .. BLK],
         out \in [Blocks -> 0 .. BLK], out' \in [Blocks -> 0 .. BLK],
         \A b \in Blocks : /\ in'[b] <= in[b]
                           /\ in'[b] > 0 => out'[b] >= out[b],
         op'[Io] = "push" => op[Io] = "push" /\ ch' = ch,
         Pending' => Pending
  PROVE  SerialInv'
<1>1. MailOK' /\ HandOK'
  BY DEF SerialInv, MailOK, HandOK
<1>2. \A s, c : Earlier(s, c) => Earlier(s, c)'
  BY DEF Earlier, Pending
<1>3. \A b \in Blocks : /\ 0 .. in'[b] - 1 \subseteq 0 .. in[b] - 1
                        /\ Used(b)' => Used(b) /\ out'[b] .. in'[b] - 1 \subseteq out[b] .. in[b] - 1
  BY Facts DEF Used
<1>4. \A b \in Blocks : Own(b)' = Own(b) /\ \A k : Ser(b, k)' = Ser(b, k)
  BY DEF Own, Ser
<1>5. StoredOK'
  BY <1>2, <1>3, <1>4 DEF SerialInv, StoredOK
<1>6. RcvdOK'
  <2> SUFFICES ASSUME NEW c \in Channels, NEW j \in 1 .. Len(rcvd[c])
               PROVE  /\ Earlier(rcvd[c][j][2], c)'
                      /\ \A b \in Blocks : Used(b)' /\ Own(b)' = c =>
                            \A k \in out'[b] .. in'[b] - 1 : rcvd[c][j][2] < Ser(b, k)'
    BY DEF RcvdOK
  <2>1. Earlier(rcvd[c][j][2], c)'
    BY <1>2 DEF SerialInv, RcvdOK, Earlier
  <2>2. ASSUME NEW b \in Blocks, Used(b)', Own(b)' = c, NEW k \in out'[b] .. in'[b] - 1
        PROVE  rcvd[c][j][2] < Ser(b, k)'
    <3>1. Used(b) /\ Own(b) = c /\ k \in out[b] .. in[b] - 1
      BY <1>3, <1>4, <2>2
    <3>2. rcvd[c][j][2] < Ser(b, k)
      BY <3>1 DEF SerialInv, RcvdOK
    <3> QED
      BY <1>4, <3>2
  <2> QED
    BY <2>1, <2>2
<1> QED
  BY <1>1, <1>5, <1>6 DEF SerialInv

LEMMA PostKeepsSerial ==
  ASSUME TypeOK, CharsOK, SerialInv, NEW c \in Channels, Post(c)
  PROVE  SerialInv'
<1> USE DEF pool, locks
<1>1. /\ posted \in [Channels -> Nat] /\ posted' = [posted EXCEPT ![c] = @ + 1]
      /\ UNCHANGED <<next, chl, in, out, data, rcvd, op, pc, ch>>
  BY DEF Post, TypeOK, QueueType
<1>2. /\ \A d \in Channels : posted[d] <= posted'[d]
      /\ posted[c] < posted'[c] /\ posted' \in [Channels -> Nat]
  BY <1>1
<1>3. \/ mb' = mb
      \/ /\ Len(mb') = Len(mb) + 1 /\ mb'[Len(mb) + 1] = <<c, posted'[c]>>
         /\ \A i \in 1 .. Len(mb) : mb'[i] = mb[i]
  BY <1>1 DEF Post, TypeOK, QueueType
<1>4. Len(mb) \in Nat /\ \A i \in 1 .. Len(mb) : mb[i][1] \in Channels /\ mb[i][2] \in Nat
  BY DEF TypeOK, QueueType, Chars
<1>5. \A i \in 1 .. Len(mb') : \/ i \in 1 .. Len(mb) /\ mb'[i] = mb[i]
                               \/ i = Len(mb) + 1 /\ mb'[i] = <<c, posted'[c]>>
  BY <1>3, <1>4
<1>6. \A s \in Nat, d \in Channels : Earlier(s, d) => Earlier(s, d)'
  <2> SUFFICES ASSUME NEW s \in Nat, NEW d \in Channels, Earlier(s, d)
               PROVE  Earlier(s, d)'
    OBVIOUS
  <2>1. s <= posted'[d] /\ s <= posted[d]
    BY <1>1, <1>2 DEF Earlier
  <2>2. \A i \in 1 .. Len(mb') : mb'[i][1] = d => s < mb'[i][2]
    BY <1>1, <1>2, <1>5, <2>1 DEF Earlier
  <2>3. (Pending /\ ch[1] = d)' => s < ch'[2]
    BY <1>1 DEF Earlier, Pending
  <2> QED
    BY <2>1, <2>2, <2>3 DEF Earlier
<1>7. MailOK'
  <2>1. \A i \in 1 .. Len(mb') : mb'[i][1] \in Channels /\ mb'[i][2] <= posted'[mb'[i][1]]
    BY SMTT(40), <1>1, <1>2, <1>4, <1>5 DEF SerialInv, MailOK
  <2>2. \A i, j \in 1 .. Len(mb') : i < j /\ mb'[i][1] = mb'[j][1] => mb'[i][2] < mb'[j][2]
    <3> SUFFICES ASSUME NEW i \in 1 .. Len(mb'), NEW j \in 1 .. Len(mb'), i < j, mb'[i][1] = mb'[j][1]
                 PROVE  mb'[i][2] < mb'[j][2]
      OBVIOUS
    <3>1. i \in 1 .. Len(mb) /\ mb'[i] = mb[i]
      BY <1>3, <1>4, <1>5
    <3>2. CASE j \in 1 .. Len(mb) /\ mb'[j] = mb[j]
      BY <3>1, <3>2 DEF SerialInv, MailOK
    <3>3. CASE mb'[j] = <<c, posted'[c]>>
      <4>1. mb[i][1] = c /\ mb[i][2] <= posted[c] /\ mb[i][2] \in Nat
        BY <1>4, <3>1, <3>3 DEF SerialInv, MailOK
      <4> QED
        BY <1>1, <1>2, <3>1, <3>3, <4>1
    <3> QED
      BY <1>5, <3>2, <3>3
  <2> QED
    BY <2>1, <2>2 DEF MailOK
<1>8. HandOK'
  <2> SUFFICES ASSUME op[Io] = "push"
               PROVE  /\ ch[1] \in Channels /\ ch[2] <= posted'[ch[1]]
                      /\ \A i \in 1 .. Len(mb') : mb'[i][1] = ch[1] => ch[2] < mb'[i][2]
    BY <1>1 DEF HandOK
  <2>1. ch[1] \in Channels /\ ch[2] <= posted[ch[1]] /\ ch[2] \in Nat
    BY DEF SerialInv, HandOK, TypeOK, CallType, AnyChars
  <2>2. ch[2] <= posted'[ch[1]]
    BY <1>1, <1>2, <2>1
  <2>3. \A i \in 1 .. Len(mb') : mb'[i][1] = ch[1] => ch[2] < mb'[i][2]
    <3> SUFFICES ASSUME NEW i \in 1 .. Len(mb'), mb'[i][1] = ch[1]
                 PROVE  ch[2] < mb'[i][2]
      OBVIOUS
    <3>1. CASE i \in 1 .. Len(mb) /\ mb'[i] = mb[i]
      BY <3>1 DEF SerialInv, HandOK
    <3>2. CASE i = Len(mb) + 1 /\ mb'[i] = <<c, posted'[c]>>
      BY <1>1, <1>2, <2>1, <3>2
    <3> QED
      BY <1>5, <3>1, <3>2
  <2> QED
    BY <2>1, <2>2, <2>3
<1>9. \A b \in Blocks : \A k \in 0 .. in[b] - 1 : Ser(b, k) \in Nat /\ Own(b) \in Channels
  BY Facts DEF TypeOK, PoolType, AnyChars, Ser, CharsOK, Used
<1>10. StoredOK'
  BY <1>1, <1>6, <1>9 DEF SerialInv, StoredOK, Ser, Own
<1>11. \A d \in Channels : \A j \in 1 .. Len(rcvd[d]) : rcvd[d][j][2] \in Nat
  BY DEF TypeOK, QueueType, AnyChars
<1>12. RcvdOK'
  BY <1>1, <1>6, <1>11 DEF SerialInv, RcvdOK, Used, Ser, Own
<1> QED
  BY <1>7, <1>8, <1>10, <1>12 DEF SerialInv

LEMMA RecvKeepsSerial ==
  ASSUME TypeOK, CharsOK, SerialInv, IoRecv
  PROVE  SerialInv'
<1> USE DEF pool, locks, posts
<1>1. /\ mb # <<>> /\ ch' = mb[1] /\ mb' = Tail(mb)
      /\ op'[Io] = "push" /\ UNCHANGED <<in, out, data, posted, rcvd>>
  BY Facts DEF IoRecv, TypeOK, CallType
<1>2. /\ Len(mb) \in Nat /\ 1 \in 1 .. Len(mb)
      /\ \A i \in 1 .. Len(mb') : i + 1 \in 1 .. Len(mb) /\ 1 < i + 1 /\ mb'[i] = mb[i + 1]
  BY <1>1 DEF TypeOK, QueueType
<1>3. MailOK'
  BY <1>1, <1>2 DEF SerialInv, MailOK
<1>4. HandOK'
  BY <1>1, <1>2 DEF SerialInv, MailOK, HandOK
<1>5. \A s, c : Earlier(s, c) => Earlier(s, c)'
  BY <1>1, <1>2 DEF Earlier
<1>6. StoredOK'
  BY <1>1, <1>5 DEF SerialInv, StoredOK, Ser, Own
<1>7. RcvdOK'
  BY <1>1, <1>5 DEF SerialInv, RcvdOK, Used, Ser, Own
<1> QED
  BY <1>3, <1>4, <1>6, <1>7 DEF SerialInv

(* A pop takes from the first block of the channel, in order.               *)
LEMMA TakesInOrder ==
  ASSUME TypeOK, CallInv, NEW t \in Actors, PoolAt(t), CharsOK, SerialInv, TakeSome(t)
  PROVE  LET p == cur[t]
             c == arg[t]
             n == Wanted(t, in[p] - out[p]) IN
         /\ c \in Channels /\ p \in Blocks /\ Used(p) /\ Own(p) = c /\ n \in 1 .. in[p] - out[p]
         /\ out' = [out EXCEPT ![p] = out[p] + n]
         /\ \/ rcvd' = rcvd
            \/ rcvd' = [rcvd EXCEPT ![c] = [i \in 1 .. n |-> data[p][out[p] + i - 1]]]
         /\ \A i \in 1 .. n : out[p] + i - 1 \in 0 .. in[p] - 1
         /\ \A i \in 1 .. n : \A b \in Blocks \ {p} : Used(b) /\ Own(b) = c =>
               \A k \in 0 .. in[b] - 1 : Ser(p, out[p] + i - 1) < Ser(b, k)
<1> PICK p : p = cur[t]
  OBVIOUS
<1> PICK c : c = arg[t]
  OBVIOUS
<1> PICK n : n = Wanted(t, in[p] - out[p])
  OBVIOUS
<1>1. /\ p \in Blocks /\ n \in 1 .. in[p] - out[p] /\ out[p] \in 0 .. BLK /\ in[p] \in 0 .. BLK
  BY TakeSomeCounts DEF TypeOK, PoolType
<1>2. /\ c \in Channels /\ pc[t] = "take"
      /\ out' = [out EXCEPT ![p] = out[p] + n]
      /\ \/ rcvd' = rcvd
         \/ rcvd' = [rcvd EXCEPT ![c] = [i \in 1 .. n |-> data[p][out[p] + i - 1]]]
  BY DEF TakeSome, Delivered, Runs, CallInv, InCS
<1>3. PoolOK(NULL, NULL, NULL, NoChl) /\ chl[p] = c
  BY <1>1, <1>2, Facts DEF PoolAt, Victim, Gutted, Fresh, Headless, Holds
<1>4. Used(p) /\ Own(p) = c /\ \A b \in Blocks \ {p} : Used(b) /\ Own(b) = c => Before(p, b)
  BY <1>1, <1>2, <1>3, Facts DEF PoolOK, FreeOK, HeadOK
<1>5. \A i \in 1 .. n : out[p] + i - 1 \in 0 .. in[p] - 1
  BY <1>1, Facts
<1> QED
  BY <1>1, <1>2, <1>4, <1>5 DEF Before

LEMMA TakeKeepsSerial ==
  ASSUME TypeOK, CallInv, NEW t \in Actors, PoolAt(t), CharsOK, SerialInv, TakeSome(t)
  PROVE  SerialInv'
<1> USE DEF pool, locks, posts, local
<1> PICK p : p = cur[t]
  OBVIOUS
<1> PICK c : c = arg[t]
  OBVIOUS
<1> PICK n : n = Wanted(t, in[p] - out[p])
  OBVIOUS
<1> DEFINE got == [i \in 1 .. n |-> data[p][out[p] + i - 1]]
<1>1. /\ c \in Channels /\ p \in Blocks /\ Used(p) /\ Own(p) = c /\ n \in 1 .. in[p] - out[p]
      /\ out' = [out EXCEPT ![p] = out[p] + n]
      /\ rcvd' = rcvd \/ rcvd' = [rcvd EXCEPT ![c] = got]
      /\ \A i \in 1 .. n : out[p] + i - 1 \in 0 .. in[p] - 1
      /\ \A i \in 1 .. n : \A b \in Blocks \ {p} : Used(b) /\ Own(b) = c =>
            \A k \in 0 .. in[b] - 1 : Ser(p, out[p] + i - 1) < Ser(b, k)
  BY TakesInOrder
<1>2. /\ UNCHANGED <<next, chl, in, data, mb, op, ch, posted>>
      /\ pc' = [pc EXCEPT ![t] = IF out[p] + n >= BLK
                     THEN IF op[t] = "popchar" THEN "rehead1" ELSE "rel1"
                     ELSE IF op[t] = "popchar" THEN "unlock" ELSE "take"]
  BY DEF TakeSome
<1>3. Pending' => Pending
  BY <1>2 DEF Pending, TypeOK, CallType
<1>4. /\ in \in [Blocks -> 0 .. BLK] /\ out \in [Blocks -> 0 .. BLK]
      /\ \A b \in Blocks : out'[b] >= out[b] /\ (b # p => out'[b] = out[b])
      /\ out'[p] = out[p] + n /\ out[p] \in Nat /\ in[p] \in Nat /\ n \in Nat
  BY <1>1, Facts DEF TypeOK, PoolType
<1>5. \A s, d : Earlier(s, d) => Earlier(s, d)'
  BY <1>2, <1>3 DEF Earlier
<1>6. MailOK' /\ HandOK' /\ StoredOK'
  BY <1>2, <1>5 DEF SerialInv, MailOK, HandOK, StoredOK, Ser, Own
<1>7. \A d \in Channels : \A j \in 1 .. Len(rcvd[d]) :
        /\ Earlier(rcvd[d][j][2], d)
        /\ \A b \in Blocks : Used(b) /\ Own(b) = d =>
              \A k \in out'[b] .. in[b] - 1 : rcvd[d][j][2] < Ser(b, k)
  <2>1. \A b \in Blocks : \A k \in out'[b] .. in[b] - 1 : k \in out[b] .. in[b] - 1
    <3> SUFFICES ASSUME NEW b \in Blocks, NEW k \in out'[b] .. in[b] - 1
                 PROVE  k \in out[b] .. in[b] - 1
      OBVIOUS
    <3>1. out[b] \in Nat /\ in[b] \in Nat /\ out'[b] \in Nat /\ out'[b] >= out[b]
      BY <1>4, Facts
    <3> QED
      BY <3>1
  <2> QED
    BY <2>1 DEF SerialInv, RcvdOK
<1>8. \A j \in 1 .. n :
        /\ Earlier(Ser(p, out[p] + j - 1), c)
        /\ \A b \in Blocks : Used(b) /\ Own(b) = c =>
              \A k \in out'[b] .. in[b] - 1 : Ser(p, out[p] + j - 1) < Ser(b, k)
  <2> SUFFICES ASSUME NEW j \in 1 .. n
               PROVE  /\ Earlier(Ser(p, out[p] + j - 1), c)
                      /\ \A b \in Blocks : Used(b) /\ Own(b) = c =>
                            \A k \in out'[b] .. in[b] - 1 : Ser(p, out[p] + j - 1) < Ser(b, k)
    OBVIOUS
  <2> PICK x : x = out[p] + j - 1
    OBVIOUS
  <2>1. x \in 0 .. in[p] - 1
    BY <1>1
  <2>2. Earlier(Ser(p, x), c)
    BY <1>1, <2>1 DEF SerialInv, StoredOK
  <2>4. \A k \in out'[p] .. in[p] - 1 : Ser(p, x) < Ser(p, k)
    <3> SUFFICES ASSUME NEW k \in out'[p] .. in[p] - 1
                 PROVE  Ser(p, x) < Ser(p, k)
      OBVIOUS
    <3>1. k \in 0 .. in[p] - 1 /\ x < k
      BY <1>4
    <3> QED
      BY <1>1, <2>1, <3>1 DEF CharsOK
  <2>5. \A b \in Blocks \ {p} : \A k \in out'[b] .. in[b] - 1 : k \in 0 .. in[b] - 1
    BY <1>4, Facts
  <2>6. \A b \in Blocks \ {p} : Used(b) /\ Own(b) = c =>
          \A k \in 0 .. in[b] - 1 : Ser(p, x) < Ser(b, k)
    BY <1>1
  <2>7. \A b \in Blocks : Used(b) /\ Own(b) = c =>
          \A k \in out'[b] .. in[b] - 1 : Ser(p, x) < Ser(b, k)
    BY <2>4, <2>5, <2>6
  <2> QED
    BY <2>2, <2>7
<1>9. RcvdOK'
  <2>1. CASE rcvd' = rcvd
    BY <1>2, <1>3, <1>7, <2>1 DEF RcvdOK, Used, Own, Ser, Earlier
  <2>2. CASE rcvd' = [rcvd EXCEPT ![c] = got]
    <3>1. /\ rcvd'[c] = got /\ Len(rcvd'[c]) = n /\ \A d \in Channels \ {c} : rcvd'[d] = rcvd[d]
      BY <1>1, <1>4, <2>2 DEF TypeOK, QueueType
    <3>2. \A j \in 1 .. n : rcvd'[c][j][2] = Ser(p, out[p] + j - 1)
      BY <3>1 DEF Ser
    <3> SUFFICES ASSUME NEW d \in Channels, NEW j \in 1 .. Len(rcvd'[d])
                 PROVE  /\ Earlier(rcvd'[d][j][2], d)
                        /\ \A b \in Blocks : Used(b) /\ Own(b) = d =>
                              \A k \in out'[b] .. in[b] - 1 : rcvd'[d][j][2] < Ser(b, k)
      BY <1>2, <1>3 DEF RcvdOK, Used, Own, Ser, Earlier
    <3>3. CASE d = c
      <4> PICK s : s = Ser(p, out[p] + j - 1)
        OBVIOUS
      <4>1. j \in 1 .. n /\ rcvd'[d][j][2] = s
        BY <3>1, <3>2, <3>3
      <4>2. /\ Earlier(s, c)
            /\ \A b \in Blocks : Used(b) /\ Own(b) = c => \A k \in out'[b] .. in[b] - 1 : s < Ser(b, k)
        BY <1>8, <4>1
      <4> QED
        BY <3>3, <4>1, <4>2
    <3>4. CASE d # c
      BY <1>7, <3>1, <3>4
    <3> QED
      BY <3>3, <3>4
  <2> QED
    BY <1>1, <2>1, <2>2
<1> QED
  BY <1>6, <1>9 DEF SerialInv

(* A character comes into a block after all others of its channel, and      *)
(* DqueIo has none in hand then.                                            *)
LEMMA StoreKeepsSerial ==
  ASSUME TypeOK, CallInv, SerialInv, CharsOK,
         NEW p \in Blocks, NEW m \in 0 .. BLK - 1, m = in[p],
         pc[Io] \in {"tail", "alloc"}, pc'[Io] \notin {"lock", "first", "tail", "alloc"},
         m > 0 => Own(p) = arg[Io],
         in' = [in EXCEPT ![p] = m + 1], data' = [data EXCEPT ![p][m] = ch],
         UNCHANGED <<out, mb, posted, rcvd, op, ch>>
  PROVE  SerialInv'
<1> PICK c : c = arg[Io]
  OBVIOUS
<1> PICK x : x = ch
  OBVIOUS
<1>1. /\ in \in [Blocks -> 0 .. BLK] /\ data \in [Blocks -> [0 .. BLK - 1 -> AnyChars]]
      /\ out \in [Blocks -> 0 .. BLK]
  BY DEF TypeOK, PoolType
<1>2. /\ op[Io] = "push" /\ x[1] = c /\ c \in Channels /\ x[2] \in Nat /\ Pending
  BY Facts, Latest DEF CallInv, InCS, Pending
<1>3. ~ Pending'
  BY DEF Pending
<1>4. Earlier(x[2], c)'
  BY <1>2, <1>3 DEF SerialInv, HandOK, Earlier
<1>5. \A s, d : Earlier(s, d) => Earlier(s, d)'
  BY <1>3 DEF Earlier
<1>6. /\ in'[p] = m + 1 /\ data'[p][m] = x /\ m \in Nat
      /\ \A k \in 0 .. m - 1 : data'[p][k] = data[p][k]
      /\ \A b \in Blocks \ {p} : in'[b] = in[b] /\ data'[b] = data[b]
  BY <1>1, Facts
<1>7. /\ Own(p)' = c /\ \A b \in Blocks \ {p} : Own(b)' = Own(b)
      /\ Ser(p, m)' = x[2]
      /\ \A b \in Blocks : \A k \in 0 .. in[b] - 1 : Ser(b, k)' = Ser(b, k)
      /\ \A b \in Blocks \ {p} : Used(b)' = Used(b)
  BY <1>2, <1>6 DEF Own, Ser, Used
<1>8. \A k \in 0 .. m : (k \in 0 .. in[p] - 1 /\ Used(p) /\ Own(p) = c) \/ k = m
  BY <1>6 DEF Used
<1>9. MailOK' /\ HandOK'
  BY DEF SerialInv, MailOK, HandOK
<1>10. StoredOK'
  <2> SUFFICES ASSUME NEW b \in Blocks, NEW k \in 0 .. in'[b] - 1
               PROVE  Earlier(Ser(b, k), Own(b))'
    BY DEF StoredOK
  <2>1. CASE b = p /\ k = m
    BY <1>4, <1>7, <2>1 DEF Earlier
  <2>2. CASE b # p \/ k # m
    <3>1. k \in 0 .. in[b] - 1 /\ Own(b)' = Own(b) /\ Ser(b, k)' = Ser(b, k)
      BY <1>6, <1>7, <1>8, <2>2
    <3>2. Earlier(Ser(b, k), Own(b))
      BY <3>1 DEF SerialInv, StoredOK
    <3> QED
      BY <1>5, <3>1, <3>2 DEF Earlier
  <2> QED
    BY <2>1, <2>2
<1>11. RcvdOK'
  <2> SUFFICES ASSUME NEW d \in Channels, NEW j \in 1 .. Len(rcvd[d])
               PROVE  /\ Earlier(rcvd[d][j][2], d)'
                      /\ \A b \in Blocks : Used(b)' /\ Own(b)' = d =>
                            \A k \in out[b] .. in'[b] - 1 : rcvd[d][j][2] < Ser(b, k)'
    BY DEF RcvdOK
  <2>1. Earlier(rcvd[d][j][2], d)
    BY DEF SerialInv, RcvdOK
  <2>2. Earlier(rcvd[d][j][2], d)'
    BY <1>3, <2>1 DEF Earlier
  <2>3. ASSUME NEW b \in Blocks, Used(b)', Own(b)' = d, NEW k \in out[b] .. in'[b] - 1
        PROVE  rcvd[d][j][2] < Ser(b, k)'
    <3>1. CASE b = p /\ k = m
      BY <1>2, <1>7, <2>1, <2>3, <3>1 DEF Earlier
    <3>2. CASE b # p \/ k # m
      <4>1. k \in out[b] .. in[b] - 1 /\ k \in 0 .. in[b] - 1 /\ Used(b) /\ Own(b) = d
        BY <1>1, <1>6, <1>7, <1>8, <2>3, <3>2, Facts
      <4> QED
        BY <1>7, <4>1 DEF SerialInv, RcvdOK
    <3> QED
      BY <3>1, <3>2
  <2> QED
    BY <2>2, <2>3
<1> QED
  BY <1>9, <1>10, <1>11 DEF SerialInv

-----------------------------------------------------------------------------
LEMMA InnerKeepsSerial ==
  ASSUME TypeOK, CallInv, SerialInv, NEW t \in Actors, PoolAt(t), CharsOK, TypeOK', Inner(t)
  PROVE  SerialInv'
<1> USE DEF pool, locks, posts, local
<1>1. /\ in \in [Blocks -> 0 .. BLK] /\ in' \in [Blocks -> 0 .. BLK]
      /\ out \in [Blocks -> 0 .. BLK] /\ out' \in [Blocks -> 0 .. BLK]
      /\ data \in [Blocks -> [0 .. BLK - 1 -> AnyChars]]
  BY DEF TypeOK, PoolType
<1>2. /\ op' = op /\ ch' = ch /\ mb' = mb /\ posted' = posted
      /\ \A s \in Actors \ {t} : pc'[s] = pc[s]
  BY InnerStays
<1>3. ASSUME UNCHANGED <<rcvd, data, in, out>>,
             pc'[t] \in {"lock", "first", "tail", "alloc"} /\ op[t] = "push" =>
                pc[t] \in {"lock", "first", "tail", "alloc"}
      PROVE  SerialInv'
  <2>1. Pending' => Pending
    BY <1>2, <1>3, Facts DEF Pending
  <2>2. \A b \in Blocks : in'[b] <= in[b] /\ (in'[b] > 0 => out'[b] >= out[b])
    BY <1>1, <1>3, Facts
  <2> QED
    BY <1>1, <1>2, <1>3, <2>1, <2>2, SerialFrame
<1>4. CASE First(t)
  BY <1>3, <1>4 DEF First, Runs
<1>5. CASE TakeNone(t) \/ RenameNext(t) \/ Rehead(t) \/ Clear(t)
  BY <1>3, <1>5 DEF TakeNone, RenameNext, Rehead, Clear, Runs, TypeOK, CallType, CallInv
<1>6. CASE PushWalk(t) \/ PushFull(t) \/ PushLink(t)
  BY <1>3, <1>6 DEF PushWalk, PushFull, PushLink, Runs, TypeOK, CallType
<1>7. CASE TakeSome(t)
  BY <1>7, TakeKeepsSerial
<1>8. CASE ReleaseIn(t) \/ ReleaseOut(t)
  <2>1. /\ UNCHANGED <<rcvd, data>> /\ pc'[t] \notin {"lock", "first", "tail", "alloc"}
        /\ in' = in \/ (in' = [in EXCEPT ![cur[t]] = 0] /\ out' = out)
    BY <1>8 DEF ReleaseIn, ReleaseOut, TypeOK, CallType
  <2>2. in' = in => /\ out' = [out EXCEPT ![cur[t]] = 0] \/ out' = out
                    /\ out' # out => ~ Used(cur[t])
    BY <1>8 DEF ReleaseIn, ReleaseOut, Runs, PoolAt, Holds
  <2>3. \A b \in Blocks : in'[b] <= in[b] /\ (in'[b] > 0 => out'[b] >= out[b])
    <3> SUFFICES ASSUME NEW b \in Blocks
                 PROVE  in'[b] <= in[b] /\ (in'[b] > 0 => out'[b] >= out[b])
      OBVIOUS
    <3>1. in[b] \in 0 .. BLK /\ out[b] \in 0 .. BLK
      BY <1>1
    <3>2. CASE in' = in
      <4>1. CASE out' = out
        BY <3>1, <3>2, <4>1
      <4>2. CASE out' # out
        <5>1. /\ out' = [out EXCEPT ![cur[t]] = 0] /\ ~ Used(cur[t])
          BY <2>2, <3>2, <4>2
        <5>2. CASE b = cur[t]
          BY <3>1, <3>2, <5>1, <5>2 DEF Used
        <5>3. CASE b # cur[t]
          BY <1>1, <3>1, <3>2, <5>1, <5>3
        <5> QED
          BY <5>2, <5>3
      <4> QED
        BY <4>1, <4>2
    <3>3. CASE in' # in
      BY SMTT(40), <1>1, <2>1, <3>1, <3>3, Facts
    <3> QED
      BY <3>2, <3>3
  <2>4. Pending' => Pending
    BY <1>2, <2>1, Facts DEF Pending
  <2> QED
    BY <1>1, <1>2, <2>1, <2>3, <2>4, SerialFrame
<1>9. CASE PushAppend(t)
  <2> PICK p : p = cur[t]
    OBVIOUS
  <2>1. /\ pc[t] = "tail" /\ pc'[t] = "unlock" /\ t = Io
        /\ p \in Blocks /\ in[p] \in 0 .. BLK - 1
        /\ in' = [in EXCEPT ![p] = in[p] + 1] /\ data' = [data EXCEPT ![p][in[p]] = ch]
        /\ UNCHANGED <<out, rcvd>>
    BY <1>1, <1>9, Latest, Facts DEF PushAppend, Runs, TypeOK, CallType
  <2>2. Own(p) = arg[t]
    BY <2>1, Facts DEF PoolAt, Holds
  <2> QED
    BY <1>2, <2>1, <2>2, StoreKeepsSerial
<1>10. CASE PushAlloc(t)
  <2> PICK p : p = cur'[t]
    OBVIOUS
  <2>1. /\ pc[t] = "alloc" /\ t = Io
        /\ p \in Blocks \union {NULL} /\ IsUnused(p)
        /\ in' = (IF p = NULL THEN in ELSE [in EXCEPT ![p] = 1])
        /\ data' = (IF p = NULL THEN data ELSE [data EXCEPT ![p][0] = ch])
        /\ pc'[t] \in {"unlock", "link"} /\ UNCHANGED <<out, rcvd>>
    BY <1>10, Latest DEF PushAlloc, FillBlock, Runs, TypeOK, CallType
  <2>2. CASE p = NULL
    BY <1>3, <2>1, <2>2
  <2>3. CASE p # NULL
    <3> PICK m \in 0 .. BLK - 1 : m = 0
      BY Facts
    <3>1. /\ p \in Blocks /\ m = in[p] /\ in' = [in EXCEPT ![p] = m + 1]
          /\ data' = [data EXCEPT ![p][m] = ch]
      BY <2>1, <2>3, Facts DEF IsUnused
    <3>2. pc[Io] \in {"tail", "alloc"} /\ pc'[Io] \notin {"lock", "first", "tail", "alloc"} /\ ~ (m > 0)
      BY <2>1
    <3> HIDE DEF pool, locks, posts, local
    <3> QED
      BY <1>2, <2>1, <3>1, <3>2, StoreKeepsSerial
  <2> QED
    BY <2>2, <2>3
<1> QED
  BY <1>4, <1>5, <1>6, <1>7, <1>8, <1>9, <1>10 DEF Inner

LEMMA SerialStep ==
  ASSUME IInv, [Next]_vars, IsrChannels = {}
  PROVE  SerialInv'
<1> USE DEF IInv, pool, locks, posts, local
<1>0. TypeOK'
  BY LockGuards, TypeStep
<1>1. /\ in \in [Blocks -> 0 .. BLK] /\ in' \in [Blocks -> 0 .. BLK]
      /\ out \in [Blocks -> 0 .. BLK] /\ out' \in [Blocks -> 0 .. BLK]
  BY <1>0 DEF TypeOK, PoolType
<1>2. ASSUME UNCHANGED <<mb, posted, rcvd, data, in, out>>,
             op'[Io] = "push" => op[Io] = "push" /\ ch' = ch,
             op[Io] = "push" /\ pc'[Io] \in {"lock", "first", "tail", "alloc"} =>
                pc[Io] \in {"lock", "first", "tail", "alloc"}
      PROVE  SerialInv'
  <2>1. Pending' => Pending
    BY <1>2 DEF Pending
  <2>2. \A b \in Blocks : in'[b] <= in[b] /\ (in'[b] > 0 => out'[b] >= out[b])
    BY <1>1, <1>2, Facts
  <2> QED
    BY <1>1, <1>2, <2>1, <2>2, SerialFrame
<1>3. ASSUME NEW c \in Channels, Post(c) PROVE SerialInv'
  BY <1>3, PostKeepsSerial DEF PoolInv
<1>4. CASE IoRecv
  BY <1>4, RecvKeepsSerial DEF PoolInv
<1>5. ASSUME NEW t \in Threads, NEW o \in Ops, NEW c \in Channels, NEW n \in 0 .. MaxLen, Call(t, o, c, n)
      PROVE  SerialInv'
  <2>1. t # Io
    BY DQueueAssumption DEF DQueueAssumption
  <2> QED
    BY <1>2, <1>5, <2>1, Facts DEF Call, TypeOK, CallType
<1>6. ASSUME NEW t \in Actors, Lock(t) PROVE SerialInv'
  BY <1>2, <1>6, Facts DEF Lock, Runs, TypeOK, CallType
<1>7. ASSUME NEW t \in Actors, Unlock(t) PROVE SerialInv'
  BY <1>2, <1>7, Facts DEF Unlock, Return, TypeOK, CallType
<1>8. ASSUME NEW t \in Actors, Measure(t) PROVE SerialInv'
  BY <1>2, <1>8, Facts DEF Measure, LenFirst, LenIn, LenOut, LenNext, LenReturn, Return, TypeOK, CallType
<1>9. ASSUME NEW t \in Actors, Inner(t) PROVE SerialInv'
  <2>1. Inside(t)
    BY <1>9, InnerStays DEF Inside
  <2> QED
    BY <1>0, <1>9, <2>1, InnerKeepsSerial DEF PoolInv
<1>10. CASE UNCHANGED vars
  BY <1>2, <1>10 DEF vars
<1> QED
  BY <1>3, <1>4, <1>5, <1>6, <1>7, <1>8, <1>9, <1>10 DEF Next, Step, IsrPopChar, TxEnable, TypeOK, QueueType

-----------------------------------------------------------------------------
LEMMA IInvInit == Init => IInv
<1> SUFFICES ASSUME Init PROVE IInv
  OBVIOUS
<1>1. /\ \A b \in Blocks : next[b] = NULL /\ chl[b] = NoChl /\ in[b] = 0 /\ out[b] = 0
      /\ mb = <<>> /\ op[Io] # "push" /\ \A t \in Actors : pc[t] = "idle"
      /\ \A c \in Channels : rcvd[c] = <<>>
  BY Facts DEF Init
<1>2. \A b \in Blocks : ~ Used(b)
  BY <1>1 DEF Used
<1>3. CharsOK /\ OrderOK /\ PoolOK(NULL, NULL, NULL, NoChl)
  BY <1>1, <1>2, Facts DEF CharsOK, OrderOK, PoolOK, FreeOK, ReadOK, LinkOK, HeadOK, TailOK, ReachOK
<1>4. \A t \in Actors : ~ Inside(t)
  BY <1>1 DEF Inside, InCS
<1>5. SerialInv
  BY <1>1, Facts DEF SerialInv, MailOK, HandOK, StoredOK, RcvdOK
<1> QED
  BY <1>3, <1>4, <1>5, TypeInit, LockInit DEF IInv, PoolInv

LEMMA IInvStep ==
  ASSUME IInv, [Next]_vars, IsrChannels = {}
  PROVE  IInv'
  BY LockGuards, TypeStep, LockStep, CallStep, PoolStep, SerialStep DEF IInv

(* Between two locked operations the pool is whole, whatever the calls      *)
(* before and however often DqueIo, readers and clears took turns.          *)
THEOREM ChainsWhole ==
  ASSUME IsrChannels = {}
  PROVE  Spec => []WholePool
<1>1. IInv /\ [Next]_vars => IInv'
  BY IInvStep
<1>2. IInv => WholePool
  BY DEF IInv, PoolInv, WholePool
<1> QED
  BY <1>1, <1>2, IInvInit, PTL DEF Spec

(* What a step hands to a reader continues what the reader had.             *)
LEMMA TakeInOrder ==
  ASSUME IInv, NEW t \in Actors, Inside(t), TakeSome(t)
  PROVE  \A c \in Channels : rcvd'[c] # rcvd[c] =>
          /\ \A i \in 1 .. Len(rcvd'[c]) : rcvd'[c][i][1] = c
          /\ \A i, j \in 1 .. Len(rcvd'[c]) : i < j => rcvd'[c][i][2] < rcvd'[c][j][2]
          /\ \A i \in 1 .. Len(rcvd[c]), j \in 1 .. Len(rcvd'[c]) :
                rcvd[c][i][2] < rcvd'[c][j][2]
<1> USE DEF IInv
<1> PICK p : p = cur[t]
  OBVIOUS
<1> PICK c : c = arg[t]
  OBVIOUS
<1> PICK n : n = Wanted(t, in[p] - out[p])
  OBVIOUS
<1> DEFINE got == [i \in 1 .. n |-> data[p][out[p] + i - 1]]
<1>1. /\ c \in Channels /\ p \in Blocks /\ Used(p) /\ Own(p) = c /\ n \in 1 .. in[p] - out[p]
      /\ rcvd' = rcvd \/ rcvd' = [rcvd EXCEPT ![c] = got]
      /\ \A i \in 1 .. n : out[p] + i - 1 \in 0 .. in[p] - 1
  BY TakesInOrder DEF PoolInv
<1>2. in[p] \in Nat /\ out[p] \in Nat /\ n \in Nat
  BY <1>1, Facts DEF TypeOK, PoolType
<1>3. CASE rcvd' = rcvd
  BY <1>3
<1>4. CASE rcvd' = [rcvd EXCEPT ![c] = got]
  <2>1. /\ rcvd'[c] = got /\ Len(rcvd'[c]) = n /\ \A d \in Channels \ {c} : rcvd'[d] = rcvd[d]
    BY <1>1, <1>2, <1>4 DEF TypeOK, QueueType
  <2>2. \A i \in 1 .. n : /\ out[p] + i - 1 \in out[p] .. in[p] - 1
                          /\ rcvd'[c][i][1] = data[p][out[p] + i - 1][1]
                          /\ rcvd'[c][i][2] = Ser(p, out[p] + i - 1)
    BY SMTT(40), <1>1, <1>2, <2>1 DEF Ser
  <2>3. \A i \in 1 .. n : rcvd'[c][i][1] = c
    BY <1>1, <2>2 DEF PoolInv, CharsOK
  <2>4. \A i, j \in 1 .. n : i < j => rcvd'[c][i][2] < rcvd'[c][j][2]
    <3> SUFFICES ASSUME NEW i \in 1 .. n, NEW j \in 1 .. n, i < j
                 PROVE  rcvd'[c][i][2] < rcvd'[c][j][2]
      OBVIOUS
    <3>1. out[p] + i - 1 < out[p] + j - 1
      BY <1>2
    <3>2. Ser(p, out[p] + i - 1) < Ser(p, out[p] + j - 1)
      BY <1>1, <3>1 DEF PoolInv, CharsOK
    <3> QED
      BY <2>2, <3>2
  <2>5. \A i \in 1 .. Len(rcvd[c]), j \in 1 .. n : rcvd[c][i][2] < rcvd'[c][j][2]
    BY <1>1, <2>2 DEF SerialInv, RcvdOK
  <2> QED
    BY <2>1, <2>3, <2>4, <2>5
<1> QED
  BY <1>1, <1>3, <1>4

(* Readers get the characters of a channel in the order they were posted    *)
(* in, none of another channel and none twice.                              *)
THEOREM ReadersInOrder ==
  ASSUME IsrChannels = {}
  PROVE  Spec => InOrder
<1>1. ASSUME IInv, [Next]_vars
      PROVE  [\A c \in Channels : rcvd'[c] # rcvd[c] =>
                /\ \A i \in 1 .. Len(rcvd'[c]) : rcvd'[c][i][1] = c
                /\ \A i, j \in 1 .. Len(rcvd'[c]) : i < j => rcvd'[c][i][2] < rcvd'[c][j][2]
                /\ \A i \in 1 .. Len(rcvd[c]), j \in 1 .. Len(rcvd'[c]) :
                      rcvd[c][i][2] < rcvd'[c][j][2]
              ]_vars
  <2> USE DEF pool, locks, posts, local
  <2>1. CASE \E t \in Actors : TakeSome(t)
    <3> PICK t \in Actors : TakeSome(t)
      BY <2>1
    <3>1. Inside(t)
      BY DEF TakeSome, Runs, Inside, InCS
    <3> QED
      BY <1>1, <3>1, TakeInOrder
  <2>2. CASE ~ \E t \in Actors : TakeSome(t)
    <3>1. rcvd' = rcvd
      <4>1. ASSUME NEW t \in Actors, Step(t) PROVE rcvd' = rcvd
        BY <2>2, <4>1 DEF Step, Inner, Measure, Lock, Unlock, First, TakeNone, RenameNext, Rehead,
           ReleaseIn, ReleaseOut, Clear, PushWalk, PushAppend, PushFull, PushAlloc, FillBlock,
           PushLink, LenFirst, LenIn, LenOut, LenNext, LenReturn
      <4> QED
        BY <1>1, <4>1 DEF Next, Post, IoRecv, Call, IsrPopChar, TxEnable, vars, IInv, TypeOK, QueueType
    <3> QED
      BY <3>1
  <2> QED
    BY <2>1, <2>2
<1>2. IInv /\ [Next]_vars => IInv'
  BY IInvStep
<1> QED
  BY <1>1, <1>2, IInvInit, PTL DEF Spec, InOrder
=============================================================================
