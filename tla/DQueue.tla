------------------------------- MODULE DQueue -------------------------------
(***************************************************************************)
(* lib/dqueue.c in its "all in one" build: every character queue of the    *)
(* program (one per UART/I2C direction, named by a channel number) lives   *)
(* in one shared pool of DQUEUE_QTY blocks of DQUE_BLK_SIZE characters.    *)
(*                                                                         *)
(* A channel is a chain of blocks.  Only the first block of a chain        *)
(* carries the channel number; a block is free iff its `in' index is 0.    *)
(* Interrupt handlers post <<channel, character>> to a mailbox; the DqueIo *)
(* thread stores the posted characters in the blocks; reader threads pop,  *)
(* clear and measure channels, and a transmit interrupt pops one character *)
(* at a time.  A binary semaphore serialises everybody except dque_GetLen, *)
(* which takes no lock, and the transmit interrupt, which rt_sem_take does *)
(* not stop (see IsrPopChar).                                              *)
(*                                                                         *)
(* A character is modelled by <<channel it was posted to, serial number>>, *)
(* so that order and ownership can be stated.                              *)
(***************************************************************************)
EXTENDS Integers, Sequences, FiniteSets

CONSTANTS
    QTY,            \* DQUEUE_QTY: number of blocks in the pool
    BLK,            \* DQUE_BLK_SIZE: characters per block
    MBQTY,          \* mailbox slots (DQUEUE_QTY * 4 in the code)
    Channels,       \* channel numbers in use (none is 0: "not 0", uart.h)
    Threads,        \* threads that read channels
    Io,             \* the DqueIo thread
    Uses,           \* Uses[t]: the <<call, channel>> pairs thread t makes
    IsrChannels,    \* channels popped by a transmit interrupt
    MaxLen,         \* longest length a reader asks of dque_Pop
    Quota,          \* bound: Quota[c] characters are posted to channel c
    NoChl           \* the channel number 0 of a block that heads no chain

Ops    == {"pop", "pop2buf", "popchar", "clear", "len"}

ASSUME DQueueAssumption ==
    /\ QTY \in Nat \ {0} /\ BLK \in Nat \ {0} /\ MBQTY \in Nat \ {0}
    /\ MaxLen \in Nat \ {0} /\ Quota \in [Channels -> Nat]
    /\ NoChl \notin Channels /\ Io \notin Threads
    /\ Uses \in [Threads -> SUBSET (Ops \X Channels)]
    /\ IsrChannels \subseteq Channels

Blocks == 1 .. QTY
NULL   == 0
Actors == Threads \union {Io}
Chars  == Channels \X Nat
AnyChars == (Channels \union {NoChl}) \X Nat

VARIABLES
    next, chl, in, out, data,   \* the pool, struct dque_mb, one entry per block
    sem, waitq,                 \* dq_sem: value, threads suspended on it (FIFO)
    mb,                         \* dq_mb: posted characters
    pc, op, arg, lim,           \* per actor: place in the code, call, channel, bytes wanted
    cur, aux,                   \* per actor: p, and pn (pop, clear) or last (push)
    ch,                         \* the character DqueIo is storing
    len,                        \* per actor: what dque_GetLen has added up
    posted,                     \* per channel: serial number of the last post
    txie,                       \* channels whose transmit interrupt is enabled
    rcvd                        \* per channel: what readers received last

pool  == <<next, chl, in, out, data>>
locks == <<sem, waitq>>
posts == <<posted, txie>>
local == <<op, arg, lim, ch, posts>>    \* unchanged inside a call but for lim
vars  == <<next, chl, in, out, data, sem, waitq, mb, pc, op, arg, lim,
           cur, aux, ch, len, posted, txie, rcvd>>

InCS == {"first", "take", "rehead1", "rel1", "rel2", "rehead", "clr",
         "tail", "alloc", "link", "unlock"}
InLen == {"lfirst", "lin", "lout", "lnext"}

Suspended == {waitq[i] : i \in 1 .. Len(waitq)}
Runs(t, where) == pc[t] = where /\ t \notin Suspended

-----------------------------------------------------------------------------
Init ==
    /\ next = [b \in Blocks |-> NULL]
    /\ chl  = [b \in Blocks |-> NoChl]
    /\ in   = [b \in Blocks |-> 0]
    /\ out  = [b \in Blocks |-> 0]
    /\ data \in {[b \in Blocks |-> [k \in 0 .. BLK - 1 |-> <<NoChl, 0>>]]}
    /\ sem = 1 /\ waitq = <<>> /\ mb = <<>>
    /\ pc  = [t \in Actors |-> "idle"]
    /\ op  = [t \in Actors |-> "none"]
    /\ arg = [t \in Actors |-> NoChl]
    /\ lim = [t \in Actors |-> 0]
    /\ cur = [t \in Actors |-> NULL]
    /\ aux = [t \in Actors |-> NULL]
    /\ ch  = <<NoChl, 0>>
    /\ len = [t \in Actors |-> 0]
    /\ posted = [c \in Channels |-> 0]
    /\ txie   = {}
    /\ rcvd   = [c \in Channels |-> <<>>]

(* dque_First: the lowest block that carries the channel number.           *)
IsFirst(p, c) ==
    \/ /\ p \in Blocks /\ chl[p] = c
       /\ \A b \in 1 .. p - 1 : chl[b] # c
    \/ /\ p = NULL
       /\ \A b \in Blocks : chl[b] # c

(* The first free block in pool order, or NULL.                            *)
IsUnused(p) ==
    \/ /\ p \in Blocks /\ in[p] = 0
       /\ \A b \in 1 .. p - 1 : in[b] # 0
    \/ /\ p = NULL
       /\ \A b \in Blocks : in[b] # 0

-----------------------------------------------------------------------------
(* dque_Push(chl, c), called from interrupts and threads: os_mb_send, which *)
(* fails at once when the mailbox is full; the result is ignored.  After    *)
(* its last character uart_Send enables the transmit interrupt.             *)
Post(c) ==
    /\ posted[c] < Quota[c]
    /\ posted' = [posted EXCEPT ![c] = @ + 1]
    /\ txie' \in {txie, txie \union ({c} \cap IsrChannels)}
    /\ mb' = IF Len(mb) < MBQTY THEN Append(mb, <<c, posted[c] + 1>>) ELSE mb
    /\ UNCHANGED <<pool, locks, pc, op, arg, lim, cur, aux, ch, len, rcvd>>

(* dque_Wait: DqueIo receives one message and calls _dque_Push with it.    *)
IoRecv ==
    /\ Runs(Io, "idle") /\ mb # <<>>
    /\ ch'  = Head(mb)
    /\ mb'  = Tail(mb)
    /\ op'  = [op  EXCEPT ![Io] = "push"]
    /\ arg' = [arg EXCEPT ![Io] = Head(mb)[1]]
    /\ pc'  = [pc  EXCEPT ![Io] = "lock"]
    /\ UNCHANGED <<pool, locks, lim, cur, aux, len, posts, rcvd>>

(* A reader thread enters one of the calls.                                 *)
Call(t, o, c, n) ==
    /\ Runs(t, "idle") /\ <<o, c>> \in Uses[t]
    /\ n \in (IF o = "pop" THEN 1 .. MaxLen ELSE {0})
    /\ op'  = [op  EXCEPT ![t] = o]
    /\ arg' = [arg EXCEPT ![t] = c]
    /\ lim' = [lim EXCEPT ![t] = n]
    /\ pc'  = [pc  EXCEPT ![t] = IF o = "len" THEN "lfirst" ELSE "lock"]
    /\ UNCHANGED <<pool, locks, mb, cur, aux, ch, len, posts, rcvd>>

(* The local variables of a call go with it.                                *)
Return(t) ==
    /\ pc'  = [pc  EXCEPT ![t] = "idle"]
    /\ op'  = [op  EXCEPT ![t] = "none"]
    /\ arg' = [arg EXCEPT ![t] = NoChl]
    /\ lim' = [lim EXCEPT ![t] = 0]
    /\ cur' = [cur EXCEPT ![t] = NULL]
    /\ aux' = [aux EXCEPT ![t] = NULL]
    /\ len' = [len EXCEPT ![t] = 0]
    /\ ch'  = IF t = Io THEN <<NoChl, 0>> ELSE ch

-----------------------------------------------------------------------------
(* os_sem_wait(&dq_sem): take it, or be suspended at the end of the list;   *)
(* a suspended thread continues right behind the call when it is resumed.   *)
Lock(t) ==
    /\ Runs(t, "lock")
    /\ pc' = [pc EXCEPT ![t] = "first"]
    /\ \/ sem > 0 /\ sem' = sem - 1 /\ waitq' = waitq
       \/ sem = 0 /\ sem' = sem     /\ waitq' = Append(waitq, t)
    /\ UNCHANGED <<pool, mb, op, arg, lim, cur, aux, ch, len, posts, rcvd>>

(* Mutants of Unlock: count up besides resuming, or resume nobody.          *)
UnlockAndCount(t) ==
    /\ Runs(t, "unlock") /\ Return(t)
    /\ sem' = 1 /\ waitq' = IF waitq = <<>> THEN waitq ELSE Tail(waitq)
    /\ UNCHANGED <<pool, mb, posts, rcvd>>

UnlockResumesNobody(t) ==
    /\ Runs(t, "unlock") /\ Return(t)
    /\ sem' = 1 /\ waitq' = waitq
    /\ UNCHANGED <<pool, mb, posts, rcvd>>

(* os_sem_signal(&dq_sem): resume the first suspended thread, or count up.  *)
Unlock(t) ==
    /\ Runs(t, "unlock")
    /\ Return(t)
    /\ \/ waitq # <<>> /\ waitq' = Tail(waitq) /\ sem' = sem
       \/ waitq = <<>> /\ waitq' = waitq       /\ sem' = sem + 1
    /\ UNCHANGED <<pool, mb, posts, rcvd>>

(* p = dque_First(dq, chl), the first statement of every locked operation.  *)
Entry == [pop |-> "take", pop2buf |-> "take", popchar |-> "take",
          clear |-> "clr", push |-> "tail"]

First(t) ==
    /\ Runs(t, "first")
    /\ \E p \in Blocks \union {NULL} :
          /\ IsFirst(p, arg[t])
          /\ cur' = [cur EXCEPT ![t] = p]
    /\ aux' = [aux EXCEPT ![t] = NULL]
    /\ pc'  = [pc  EXCEPT ![t] = Entry[op[t]]]
    /\ UNCHANGED <<pool, locks, mb, len, local, rcvd>>

-----------------------------------------------------------------------------
(* _dque_Pop, _dque_Pop2Buf, _dque_PopChar: one round of the loop.  Pop     *)
(* takes at most `lim' characters, PopChar one, Pop2Buf everything.         *)
Wanted(t, have) ==
    CASE op[t] = "pop"     -> IF have < lim[t] THEN have ELSE lim[t]
      [] op[t] = "popchar" -> 1
      [] OTHER             -> have

(* Pop2Buf ignores a failing buf_Push: the characters are then gone.        *)
Delivered(t, chars) ==
    \/ rcvd' = [rcvd EXCEPT ![arg[t]] = chars]
    \/ op[t] = "pop2buf" /\ rcvd' = rcvd

TakeSome(t) ==
    LET p    == cur[t]
        have == in[p] - out[p]
        n    == Wanted(t, have)
    IN  /\ Runs(t, "take") /\ p # NULL
        /\ have > 0
        /\ op[t] = "pop" => lim[t] > 0
        /\ Delivered(t, [i \in 1 .. n |-> data[p][out[p] + i - 1]])
        /\ out' = [out EXCEPT ![p] = @ + n]
        /\ lim' = [lim EXCEPT ![t] = IF op[t] = "pop" THEN @ - n ELSE @]
        /\ aux' = [aux EXCEPT ![t] = IF out[p] + n >= BLK THEN next[p] ELSE NULL]
        /\ pc'  = [pc  EXCEPT ![t] =
                     IF out[p] + n >= BLK
                     THEN IF op[t] = "popchar" THEN "rehead1" ELSE "rel1"
                     ELSE IF op[t] = "popchar" THEN "unlock" ELSE "take"]
        /\ UNCHANGED <<next, chl, in, data, locks, mb, op, arg, cur, ch, len, posts>>

TakeNone(t) ==
    LET p == cur[t] IN
    /\ Runs(t, "take")
    /\ \/ p = NULL
       \/ p # NULL /\ in[p] - out[p] <= 0
       \/ op[t] = "pop" /\ lim[t] = 0
    /\ pc' = [pc EXCEPT ![t] = "unlock"]
    /\ UNCHANGED <<pool, locks, mb, cur, aux, len, local, rcvd>>

(* Mutant of RenameNext: the next block is not made the head.               *)
RenameNothing(t) ==
    /\ Runs(t, "rehead1")
    /\ pc'  = [pc EXCEPT ![t] = "rel1"]
    /\ UNCHANGED <<pool, locks, mb, cur, aux, len, local, rcvd>>

(* PopChar names the next block the head before it releases the old one ... *)
RenameNext(t) ==
    /\ Runs(t, "rehead1")
    /\ chl' = IF aux[t] # NULL THEN [chl EXCEPT ![aux[t]] = arg[t]] ELSE chl
    /\ pc'  = [pc EXCEPT ![t] = "rel1"]
    /\ UNCHANGED <<next, in, out, data, locks, mb, cur, aux, len, local, rcvd>>

(* ... Pop and Pop2Buf after it, and go round the loop with that block.     *)
Rehead(t) ==
    /\ Runs(t, "rehead")
    /\ chl' = IF aux[t] # NULL THEN [chl EXCEPT ![aux[t]] = arg[t]] ELSE chl
    /\ cur' = [cur EXCEPT ![t] = aux[t]]
    /\ aux' = [aux EXCEPT ![t] = NULL]
    /\ pc'  = [pc EXCEPT ![t] = "take"]
    /\ UNCHANGED <<next, in, out, data, locks, mb, len, local, rcvd>>

(* Mutant of ReleaseOut: dque_Release forgets to reset next.                *)
ReleaseKeepsNext(t) ==
    LET p == cur[t] IN
    /\ Runs(t, "rel2")
    /\ out'  = [out  EXCEPT ![p] = 0]
    /\ cur'  = [cur  EXCEPT ![t] = IF op[t] = "clear" THEN aux[t] ELSE NULL]
    /\ pc'   = [pc   EXCEPT ![t] = CASE op[t] = "clear"   -> "clr"
                                     [] op[t] = "popchar" -> "unlock"
                                     [] OTHER             -> "rehead"]
    /\ UNCHANGED <<next, chl, in, data, locks, mb, aux, len, local, rcvd>>

(* Mutant of ReleaseIn: the free block keeps the channel number.            *)
ReleaseKeepsChl(t) ==
    /\ Runs(t, "rel1")
    /\ in' = [in EXCEPT ![cur[t]] = 0]
    /\ pc' = [pc EXCEPT ![t] = "rel2"]
    /\ UNCHANGED <<next, chl, out, data, locks, mb, cur, aux, len, local, rcvd>>

(* dque_Release stores chl and in first, out and next after; dque_GetLen    *)
(* may look in between.                                                     *)
ReleaseIn(t) ==
    LET p == cur[t] IN
    /\ Runs(t, "rel1")
    /\ chl' = [chl EXCEPT ![p] = NoChl]
    /\ in'  = [in  EXCEPT ![p] = 0]
    /\ pc'  = [pc  EXCEPT ![t] = "rel2"]
    /\ UNCHANGED <<next, out, data, locks, mb, cur, aux, len, local, rcvd>>

ReleaseOut(t) ==
    LET p == cur[t] IN
    /\ Runs(t, "rel2")
    /\ out'  = [out  EXCEPT ![p] = 0]
    /\ next' = [next EXCEPT ![p] = NULL]
    /\ cur'  = [cur  EXCEPT ![t] = IF op[t] = "clear" THEN aux[t] ELSE NULL]
    /\ pc'   = [pc   EXCEPT ![t] = CASE op[t] = "clear"   -> "clr"
                                     [] op[t] = "popchar" -> "unlock"
                                     [] OTHER             -> "rehead"]
    /\ UNCHANGED <<chl, in, data, locks, mb, aux, len, local, rcvd>>

(* _dque_Clear: release block after block.                                  *)
Clear(t) ==
    LET p == cur[t] IN
    /\ Runs(t, "clr")
    /\ aux' = [aux EXCEPT ![t] = IF p = NULL THEN NULL ELSE next[p]]
    /\ pc'  = [pc  EXCEPT ![t] = IF p = NULL THEN "unlock" ELSE "rel1"]
    /\ UNCHANGED <<pool, locks, mb, cur, len, local, rcvd>>

-----------------------------------------------------------------------------
(* _dque_Push: walk to the last block of the chain ...                      *)
PushWalk(t) ==
    LET p == cur[t] IN
    /\ Runs(t, "tail") /\ p # NULL /\ next[p] # NULL
    /\ cur' = [cur EXCEPT ![t] = next[p]]
    /\ UNCHANGED <<pool, locks, mb, pc, aux, len, local, rcvd>>

(* Mutant of PushAppend: one character too many for the block.              *)
PushAppendPastEnd(t) ==
    LET p == cur[t] IN
    /\ Runs(t, "tail") /\ p # NULL /\ next[p] = NULL /\ in[p] <= BLK
    /\ data' = [data EXCEPT ![p][in[p]] = ch]
    /\ in'   = [in   EXCEPT ![p] = @ + 1]
    /\ pc'   = [pc   EXCEPT ![t] = "unlock"]
    /\ UNCHANGED <<next, chl, out, locks, mb, cur, aux, len, local, rcvd>>

(* ... and store the character there while it has room ...                  *)
PushAppend(t) ==
    LET p == cur[t] IN
    /\ Runs(t, "tail") /\ p # NULL /\ next[p] = NULL /\ in[p] < BLK
    /\ data' = [data EXCEPT ![p][in[p]] = ch]
    /\ in'   = [in   EXCEPT ![p] = @ + 1]
    /\ pc'   = [pc   EXCEPT ![t] = "unlock"]
    /\ UNCHANGED <<next, chl, out, locks, mb, cur, aux, len, local, rcvd>>

(* ... or remember it and look for a free block.                            *)
PushFull(t) ==
    LET p == cur[t] IN
    /\ Runs(t, "tail")
    /\ p # NULL => next[p] = NULL /\ in[p] >= BLK
    /\ aux' = [aux EXCEPT ![t] = p]
    /\ pc'  = [pc  EXCEPT ![t] = "alloc"]
    /\ UNCHANGED <<pool, locks, mb, cur, len, local, rcvd>>

FillBlock(t) ==
    /\ \E p \in Blocks \union {NULL} :
          /\ IsUnused(p)
          /\ cur' = [cur EXCEPT ![t] = p]
          /\ data' = IF p = NULL THEN data ELSE [data EXCEPT ![p][0] = ch]
          /\ in'   = IF p = NULL THEN in   ELSE [in   EXCEPT ![p] = 1]
          /\ pc'   = [pc EXCEPT ![t] = IF p = NULL THEN "unlock" ELSE "link"]
    /\ UNCHANGED <<next, chl, out, locks, mb, aux, len, local, rcvd>>

(* The first free block takes the character; without one it is dropped.     *)
PushAlloc(t) == Runs(t, "alloc") /\ FillBlock(t)

(* last->next = p, or p->chl = chl for a chain of its own.                  *)
PushLink(t) ==
    LET p == cur[t] IN
    /\ Runs(t, "link")
    /\ next' = IF aux[t] # NULL THEN [next EXCEPT ![aux[t]] = p] ELSE next
    /\ chl'  = IF aux[t] = NULL THEN [chl  EXCEPT ![p] = arg[t]] ELSE chl
    /\ pc'   = [pc EXCEPT ![t] = "unlock"]
    /\ UNCHANGED <<in, out, data, locks, mb, cur, aux, len, local, rcvd>>

-----------------------------------------------------------------------------
(* _dque_GetLen takes no lock: each of its reads may see the pool between   *)
(* two statements of the others.  dque_First reads the blocks one by one,   *)
(* but a scan that races with the move of a head to another block finds     *)
(* nothing, as one that runs between ReleaseIn and Rehead does.             *)
LenFirst(t) ==
    /\ Runs(t, "lfirst")
    /\ \E p \in Blocks \union {NULL} :
          /\ IsFirst(p, arg[t])
          /\ cur' = [cur EXCEPT ![t] = p]
          /\ pc'  = [pc EXCEPT ![t] = IF p = NULL THEN "lret" ELSE "lin"]
    /\ len' = [len EXCEPT ![t] = 0]
    /\ UNCHANGED <<pool, locks, mb, aux, local, rcvd>>

LenIn(t) ==
    /\ Runs(t, "lin")
    /\ len' = [len EXCEPT ![t] = @ + in[cur[t]]]
    /\ pc'  = [pc  EXCEPT ![t] = "lout"]
    /\ UNCHANGED <<pool, locks, mb, cur, aux, local, rcvd>>

(* Mutant of LenOut: what has been read already is counted too.             *)
LenOutIgnored(t) ==
    /\ Runs(t, "lout")
    /\ pc'  = [pc  EXCEPT ![t] = "lnext"]
    /\ UNCHANGED <<pool, locks, mb, cur, aux, len, local, rcvd>>

LenOut(t) ==
    /\ Runs(t, "lout")
    /\ len' = [len EXCEPT ![t] = @ - out[cur[t]]]
    /\ pc'  = [pc  EXCEPT ![t] = "lnext"]
    /\ UNCHANGED <<pool, locks, mb, cur, aux, local, rcvd>>

LenNext(t) ==
    /\ Runs(t, "lnext")
    /\ cur' = [cur EXCEPT ![t] = next[cur[t]]]
    /\ pc'  = [pc  EXCEPT ![t] = IF next[cur[t]] = NULL THEN "lret" ELSE "lin"]
    /\ UNCHANGED <<pool, locks, mb, aux, len, local, rcvd>>

LenReturn(t) ==
    /\ Runs(t, "lret")
    /\ Return(t)
    /\ UNCHANGED <<pool, locks, mb, posts, rcvd>>

-----------------------------------------------------------------------------
(* dque_PopChar from a transmit interrupt.  No thread runs meanwhile, so it *)
(* is one step.  rt_sem_take finds the semaphore taken, suspends the        *)
(* INTERRUPTED thread r and, as rt_schedule only pends a switch inside an   *)
(* interrupt, returns RT_EOK: the pop goes ahead.  Its own rt_sem_release   *)
(* then resumes whoever is first in the list.  An empty queue disables the  *)
(* interrupt.                                                               *)
IsrPopChar(c) ==
    /\ c \in txie
    /\ \E p \in Blocks \union {NULL} :
          /\ IsFirst(p, c)
          /\ \/ /\ p # NULL => in[p] <= out[p]
                /\ txie' = txie \ {c}
                /\ UNCHANGED <<next, chl, in, out, rcvd>>
             \/ /\ p # NULL /\ in[p] > out[p] /\ out[p] + 1 < BLK /\ txie' = txie
                /\ rcvd' = [rcvd EXCEPT ![c] = <<data[p][out[p]]>>]
                /\ out'  = [out EXCEPT ![p] = @ + 1]
                /\ UNCHANGED <<next, chl, in>>
             \/ /\ p # NULL /\ in[p] > out[p] /\ out[p] + 1 >= BLK /\ txie' = txie
                /\ rcvd' = [rcvd EXCEPT ![c] = <<data[p][out[p]]>>]
                /\ out'  = [out  EXCEPT ![p] = 0]
                /\ in'   = [in   EXCEPT ![p] = 0]
                /\ next' = [next EXCEPT ![p] = NULL]
                /\ chl'  = [b \in Blocks |-> IF b = p THEN NoChl
                                             ELSE IF b = next[p] THEN c ELSE chl[b]]
    /\ \/ sem > 0 /\ UNCHANGED waitq
       \/ sem = 0 /\ \E r \in Actors \ Suspended : waitq' = Tail(Append(waitq, r))
    /\ UNCHANGED <<data, sem, mb, pc, op, arg, lim, cur, aux, ch, len, posted>>

(* Mutant of TxEnable: one character is not worth it.                       *)
TxEnableForTwo(c) ==
    /\ c \in IsrChannels \ txie
    /\ \E p \in Blocks : chl[p] = c /\ in[p] > out[p] + 1
    /\ txie' = txie \union {c}
    /\ UNCHANGED <<pool, locks, mb, pc, op, arg, lim, cur, aux, ch, len, posted, rcvd>>

(* uart_Maintian enables it again while the queue is not empty.             *)
TxEnable(c) ==
    /\ c \in IsrChannels \ txie
    /\ \E p \in Blocks : chl[p] = c /\ in[p] > out[p]
    /\ txie' = txie \union {c}
    /\ UNCHANGED <<pool, locks, mb, pc, op, arg, lim, cur, aux, ch, len, posted, rcvd>>

-----------------------------------------------------------------------------
(* The statements between dque_Lock and dque_Unlock, those of dque_GetLen,  *)
(* and all that an actor goes on with once it is inside a call.             *)
Inner(t) ==
    \/ First(t) \/ TakeSome(t) \/ TakeNone(t) \/ RenameNext(t) \/ Rehead(t)
    \/ ReleaseIn(t) \/ ReleaseOut(t) \/ Clear(t) \/ PushWalk(t) \/ PushAppend(t)
    \/ PushFull(t) \/ PushAlloc(t) \/ PushLink(t)

Measure(t) == LenFirst(t) \/ LenIn(t) \/ LenOut(t) \/ LenNext(t) \/ LenReturn(t)

Step(t) == Lock(t) \/ Inner(t) \/ Unlock(t) \/ Measure(t)

Next ==
    \/ \E c \in Channels : Post(c) \/ IsrPopChar(c) \/ TxEnable(c)
    \/ IoRecv
    \/ \E t \in Threads, o \in Ops, c \in Channels, n \in 0 .. MaxLen : Call(t, o, c, n)
    \/ \E t \in Actors : Step(t)

Spec == Init /\ [][Next]_vars

(* Every thread is scheduled again and again (round robin inside a          *)
(* priority, and each loop of a reader sleeps); nobody has to call.  An     *)
(* enabled interrupt is served, and uart_Maintian runs again and again.     *)
Fairness ==
    /\ WF_vars(IoRecv) /\ \A t \in Actors : WF_vars(Step(t))
    /\ \A c \in IsrChannels : WF_vars(IsrPopChar(c)) /\ WF_vars(TxEnable(c))

FairSpec == Spec /\ Fairness

-----------------------------------------------------------------------------
PoolType ==
    /\ next \in [Blocks -> Blocks \union {NULL}]
    /\ chl  \in [Blocks -> Channels \union {NoChl}]
    /\ in   \in [Blocks -> 0 .. BLK]
    /\ out  \in [Blocks -> 0 .. BLK]
    /\ data \in [Blocks -> [0 .. BLK - 1 -> AnyChars]]

LockType ==
    /\ sem  \in {0, 1}
    /\ waitq \in Seq(Actors)

CallType ==
    /\ pc   \in [Actors -> InCS \union InLen \union {"idle", "lock", "lret"}]
    /\ op   \in [Actors -> Ops \union {"none", "push"}]
    /\ arg  \in [Actors -> Channels \union {NoChl}]
    /\ lim  \in [Actors -> Nat]
    /\ cur  \in [Actors -> Blocks \union {NULL}]
    /\ aux  \in [Actors -> Blocks \union {NULL}]
    /\ len  \in [Actors -> Int]
    /\ ch   \in AnyChars

QueueType ==
    /\ mb   \in Seq(Chars)
    /\ posted \in [Channels -> Nat]
    /\ txie \subseteq IsrChannels
    /\ rcvd \in [Channels -> Seq(AnyChars)]

(* Every variable keeps its type; in particular the indices in and out stay *)
(* within a block although no operation checks them against each other.     *)
TypeOK == PoolType /\ LockType /\ CallType /\ QueueType

(* The semaphore lets one thread at a time into the locked operations.      *)
Inside(t) == pc[t] \in InCS /\ t \notin Suspended

MutualExclusion == \A s, t \in Actors : Inside(s) /\ Inside(t) => s = t

(* Those behind the call of dque_Lock, suspended or not.                    *)
Entered == {t \in Actors : pc[t] \in InCS}

(* The semaphore is neither lost nor doubled: as many are behind dque_Lock  *)
(* as hold it or stand in its list, although a transmit interrupt suspends  *)
(* a thread that did not ask for it and hands over what it did not take.    *)
SemaphoreKept == Cardinality(Entered) = 1 - sem + Len(waitq)

(* While the semaphore is taken, the pool is written by the actor inside.   *)
OnlyInsiderWrites ==
    [][sem = 0 /\ pool' # pool => \E t \in Actors : Inside(t) /\ Inner(t)]_vars

(* What readers get of a channel was posted to that channel, in the order   *)
(* it was posted in, and nothing twice, although the blocks move between    *)
(* channels: lib/dqueue.c has no check that would notice a block in two     *)
(* chains or a head lost and found again.                                   *)
InOrder ==
    [][\A c \in Channels : rcvd'[c] # rcvd[c] =>
          /\ \A i \in 1 .. Len(rcvd'[c]) : rcvd'[c][i][1] = c
          /\ \A i, j \in 1 .. Len(rcvd'[c]) : i < j => rcvd'[c][i][2] < rcvd'[c][j][2]
          /\ \A i \in 1 .. Len(rcvd[c]), j \in 1 .. Len(rcvd'[c]) :
                rcvd[c][i][2] < rcvd'[c][j][2]
      ]_vars

(* Blocks reachable through next from a set of blocks.                      *)
Reach(S) ==
    LET f[n \in Nat] == IF n = 0 THEN S
                        ELSE f[n - 1] \union {next[b] : b \in f[n - 1] \ {NULL}}
    IN  f[QTY] \ {NULL}

(* No block is lost: as long as nobody is inside a locked operation, a      *)
(* block holds characters iff it can be reached from the head of a channel, *)
(* and then from one only.                                                  *)
NoLeak ==
    (\A t \in Actors : ~ Inside(t)) =>
        LET heads == {b \in Blocks : chl[b] # NoChl} IN
        /\ {b \in Blocks : in[b] > 0} = Reach(heads)
        /\ \A a, b \in heads : a # b => chl[a] # chl[b] /\ Reach({a}) \cap Reach({b}) = {}

(* Every call comes back: the loops over the chain end and the semaphore is *)
(* passed on.                                                               *)
CallsReturn == \A t \in Actors : (pc[t] # "idle" ~> pc[t] = "idle")

(* What uart_Send has posted and DqueIo has stored is sent: the interrupt   *)
(* that uart_Send enables may find the queue empty and be disabled before   *)
(* the characters are there, and then uart_Maintian alone enables it.       *)
Unsent(c) == \E p \in Blocks : chl[p] = c /\ in[p] > out[p]

SentLeaves == \A c \in IsrChannels : Unsent(c) ~> ~ Unsent(c)

(* The mailbox is emptied: no posted character waits in it for ever.        *)
MailboxDrains == mb # <<>> ~> mb = <<>>
=============================================================================
