-------------------------------- MODULE Log --------------------------------
(***************************************************************************)
(* dbg/log.c: a ring of log entries in a record store of fs/sfs, which is  *)
(* taken for what KvStore promises of it.  (Sfs keeps KvStore as long as   *)
(* power does not fail while it copies records, see SfsKv.)  One record    *)
(* counts the entries ever written, another is the mark up to which they   *)
(* have been read; the entry number k is in record k % QTY.                *)
(*                                                                         *)
(* log_Lock admits one call at a time.  A call reads what it needs and     *)
(* then makes some sfs_Write, the plan; it ignores their results.  Power   *)
(* may fail inside and between them, a flash operation may fail inside.    *)
(*                                                                         *)
(* An entry is the number of the log_Write that wrote it.                  *)
(***************************************************************************)
EXTENDS Integers, Sequences

CONSTANTS
    QTY,            \* DEBUG_LOG_QTY
    MOD,            \* 2^32: the indices are u32
    MaxWrites,      \* bound: calls of log_Write
    None, Blank, NoReq, Format      \* see KvStore

Slots == 0 .. QTY - 1
INDEX == QTY            \* LOG_CODE_INDEX
READ  == QTY + 1        \* LOG_CODE_READ
Words == 0 .. MOD - 1

(* The index does not come round in the life of the flash; one record is    *)
(* always being replaced, so there are others.                              *)
ASSUME LogAssumption ==
    /\ {QTY, MOD, MaxWrites} \subseteq Nat /\ 1 < QTY /\ MaxWrites < MOD
    /\ {None, Blank} \intersect Words = {} /\ None # Blank
    /\ NoReq # Format
    /\ {NoReq, Format} \intersect [id : Slots \union {INDEX, READ}, val : Nat \union {None}] = {}

VARIABLES
    store, busy, res,   \* the record store, see KvStore
    pc,                 \* off, init (log_Init has the index), idle, or a call
    plan,               \* the records that the call has yet to write
    count,              \* history: calls of log_Write
    refused,            \* history: the store did not take the entry written last
    entries,            \* history: what the index counts: entries by number, None
                        \* for one the store did not take; none are left when the
                        \* record of the index is lost
    lost,               \* history: that happened, and the mark was not set since
    next                \* history: the number of the entry to be read next

kv   == <<store, busy, res>>
hist == <<count, refused, entries, lost, next>>
vars == <<store, busy, res, pc, plan, count, refused, entries, lost, next>>

Kv == INSTANCE KvStore WITH Ids <- Slots \union {INDEX, READ}, Vals <- Words

(* sfs_Read of an index into a variable that is 0.  The data of a torn      *)
(* record is erased flash.                                                  *)
Value(i) == IF store[i] = None THEN 0 ELSE IF store[i] = Blank THEN MOD - 1 ELSE store[i]

nIdx  == Value(INDEX)
nRead == Value(READ)

Put(i, v) == [id |-> i, val |-> v % MOD]

(* Mutant of Oldest: all QTY records, also the one that is written next.    *)
OldestOfAll(idx) == idx - QTY

(* The oldest entry to read: the record of the one before is written next.  *)
Oldest(idx) == idx - (QTY - 1)

(* Where reading starts, for u32 with nRead <= nIdx.                        *)
Start(idx, read) == IF idx - read >= QTY THEN Oldest(idx) ELSE read

-----------------------------------------------------------------------------
Init ==
    /\ Kv!Init
    /\ pc = "off" /\ plan = <<>>
    /\ count = 0 /\ refused = FALSE /\ entries = <<>> /\ lost = FALSE /\ next = 0

Ready(p) == pc = p /\ plan = <<>> /\ busy = NoReq

Idle == Ready("idle")

(* log_Init: without an index the store is emptied; then the mark.          *)
InitIndex ==
    /\ Ready("off") /\ pc' = "init"
    /\ plan' = IF store[INDEX] = None THEN <<Format, Put(INDEX, 0)>> ELSE <<>>
    /\ UNCHANGED <<kv, hist>>

InitMark ==
    /\ Ready("init") /\ pc' = "idle"
    /\ plan' = IF store[READ] = None THEN <<Put(READ, 0)>> ELSE <<>>
    /\ UNCHANGED <<kv, hist>>

WriteBy(p) ==
    /\ Idle /\ count < MaxWrites /\ count' = count + 1
    /\ plan' = p
    /\ UNCHANGED <<kv, pc, refused, entries, lost, next>>

(* Mutant of Write: the entry is counted before it is written.              *)
WriteIndexFirst == WriteBy(<<Put(INDEX, nIdx + 1), Put(nIdx % QTY, count + 1)>>)

(* log_Write.                                                               *)
Write == WriteBy(<<Put(nIdx % QTY, count + 1), Put(INDEX, nIdx + 1)>>)

(* A call whose only sfs_Write sets the mark.                               *)
SetMark(v) ==
    /\ Idle /\ plan' = <<Put(READ, v)>> /\ next' = v
    /\ UNCHANGED <<kv, pc, count, refused, entries, lost>>

(* log_Read: one entry goes to the caller, if there is one to read.  A mark *)
(* beyond the index is corrected.                                           *)
Read == nRead < nIdx /\ SetMark(Start(nIdx, nRead) + 1)

ReadBeyond == nRead > nIdx /\ SetMark(nIdx)

(* Mutant of Read2Start: nIdx is not compared first.                        *)
Read2StartAlways == SetMark(Oldest(nIdx))

Read2Start == SetMark(IF nIdx >= QTY THEN Oldest(nIdx) ELSE 0)

Read2End == SetMark(nIdx)

(* log_Read2Day0: to the first unread entry of today.  In place of a record *)
(* that is missing, what was read before is looked at.                      *)
Read2Day0 ==
    \E today \in SUBSET (1 .. count), stale \in BOOLEAN :
        LET from  == IF nRead > nIdx THEN nIdx ELSE Start(nIdx, nRead)
            found == {k \in from .. nIdx - 1 :
                        \/ store[k % QTY] \in today
                        \/ stale /\ k = from /\ store[k % QTY] \in {None, Blank}}
        IN \E k \in found \union {nIdx} : (\A j \in found : k <= j) /\ SetMark(k)

-----------------------------------------------------------------------------
(* The record store.                                                        *)
Issue ==
    /\ plan # <<>> /\ plan' = Tail(plan) /\ Kv!Begin(Head(plan))
    /\ UNCHANGED <<pc, hist>>

(* The write has left neither the old nor the new record.                   *)
Gone == store'[busy.id] \notin {store[busy.id], busy.val}

(* What the index counts once it was written, or not.  It starts anew at 0, *)
(* in log_Init or behind 0xFFFFFFFF.                                        *)
Counted ==
    IF store'[INDEX] = busy.val
    THEN IF busy.val = 0 THEN <<>> ELSE Append(entries, IF refused THEN None ELSE count)
    ELSE IF Gone THEN <<>> ELSE entries

(* What became of the records, for the history variables.                   *)
Account ==
    /\ UNCHANGED count
    /\ \/ /\ busy = Format
          /\ lost' = (lost /\ res' # "ok") /\ next' = nRead'
          /\ UNCHANGED <<refused, entries>>
       \/ /\ busy # Format /\ busy.id \in Slots
          /\ refused' = (store'[busy.id] # busy.val)
          /\ UNCHANGED <<entries, lost, next>>
       \/ /\ busy # Format /\ busy.id = INDEX
          /\ entries' = Counted /\ lost' = (lost \/ Gone)
          /\ UNCHANGED <<refused, next>>
       \/ /\ busy # Format /\ busy.id = READ
          /\ lost' = IF res' = "ok" THEN store[INDEX] = Blank ELSE lost
          /\ next' = IF res' = "ok" THEN next ELSE nRead'
          /\ UNCHANGED <<refused, entries>>

Stored == (Kv!Written \/ Kv!Formatted) /\ Account /\ UNCHANGED <<pc, plan>>

(* A write fails and log.c goes on.                                         *)
Fails == (Kv!Refused \/ Kv!Cut) /\ Account /\ UNCHANGED <<pc, plan>>

(* Power fails inside a write, or between two.                              *)
PowerFails ==
    /\ pc' = "off" /\ plan' = <<>>
    /\ \/ Kv!Cut /\ Account
       \/ busy = NoReq /\ next' = nRead /\ UNCHANGED <<kv, count, refused, entries, lost>>

Next ==
    \/ InitIndex \/ InitMark
    \/ Write \/ Read \/ ReadBeyond \/ Read2Start \/ Read2End \/ Read2Day0
    \/ Issue \/ Stored \/ Fails \/ PowerFails

Spec == Init /\ [][Next]_vars
=============================================================================
