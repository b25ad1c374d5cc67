------------------------------ MODULE LogSafe ------------------------------
(***************************************************************************)
(* What is expected of dbg/log.c over a record store that keeps KvStore.   *)
(***************************************************************************)
EXTENDS Log

TypeOK ==
    /\ DOMAIN store = Slots \union {INDEX, READ}
    /\ \A i \in DOMAIN store : store[i] \in Words \union {None, Blank}
    /\ pc \in {"off", "init", "idle"} /\ Len(plan) <= 2
    /\ count \in 0 .. MaxWrites /\ Len(entries) <= count
    /\ next \in Words /\ lost \in BOOLEAN /\ refused \in BOOLEAN

(* The last QTY - 1 entries that the index counts are in their records,     *)
(* although entry and count are two writes and the entry overwrites the     *)
(* oldest record: at any time, and after power failed anywhere but inside   *)
(* the write of the index.  When that leaves the index without its data, or *)
(* without a record, all entries are lost: log_Init empties the store, or   *)
(* counting goes on behind 0xFFFFFFFF (log.c:91-96, 118).  An entry that    *)
(* the store did not take is counted all the same.                          *)
Held ==
    /\ store[INDEX] # Blank => nIdx = Len(entries)
    /\ store[INDEX] = Blank => entries = <<>>
    /\ \A k \in DOMAIN entries :
          k > Len(entries) - (QTY - 1) /\ entries[k] # None => store[(k - 1) % QTY] = entries[k]

Later(a, b) == IF a > b THEN a ELSE b

(* log_Read delivers the entry behind the one it delivered before or where  *)
(* the reader was sent, or the oldest that is held, whichever is later.     *)
(* When the mark is not written or power fails inside the write, reading    *)
(* goes on at the old mark, at the new one, at 0, or, when the record is    *)
(* left without its data, at the end: what was not read then is skipped.    *)
(* The same happens after a loss of the index, which leaves the mark where  *)
(* it was in a log that starts anew (lost), and at no other time.  While    *)
(* the index itself reads 0xFFFFFFFF, old records are delivered, and        *)
(* nothing is said of them here.                                            *)
RightEntry ==
    [][/\ Read /\ store[INDEX] # Blank =>
              LET k == next' - 1 IN
              /\ k = Later(next, Len(entries) - (QTY - 1))
              /\ entries[k + 1] \in {None, store[k % QTY]}
       /\ ReadBeyond => store[READ] = Blank \/ lost
       /\ Fails \/ PowerFails => next' \in {next, nRead, 0, MOD - 1}]_vars
=============================================================================
