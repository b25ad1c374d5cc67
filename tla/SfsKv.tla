------------------------------- MODULE SfsKv -------------------------------
(***************************************************************************)
(* What is expected of fs/sfs/sfs.c, and its refinement of KvStore.        *)
(***************************************************************************)
EXTENDS Sfs

Kv == INSTANCE KvStore WITH
        store <- IF pc = "idle" THEN View ELSE before,
        busy  <- req

(* The records on the flash are a table: what sfs_Read finds through the    *)
(* search in block order is what the last sfs_Write of that identity left   *)
(* there, whatever was moved around the ring since, and a call that fails   *)
(* half way puts no record in doubt but its own.                            *)
ImplementsKv == Kv!Spec

Record_ == [ste : {"valid", "invalid"}, id : Ids \union {NoId}, val : Vals \union {Blank},
            at : 0 .. CAP - 1, size : 1 .. CAP]

FlashType ==
    /\ ste \in [Blocks -> {"idle", "active", "full"}]
    /\ log \in [Blocks -> Seq(Record_)]

CallType ==
    /\ pc \in (Steps \ {"start"}) \union {"idle"}
    /\ req \in [id : Ids, val : Vals \union {None}] \union {NoReq, Format}
    /\ old \in (Blocks \X (0 .. CAP - 1)) \union {NoAdr}
    /\ act \in Blocks \union {NoBlk}
    /\ src \in (0 .. CAP + 1) \union (0 .. N)
    /\ qty \in (IF req \in {NoReq, Format} \/ pc = "del" THEN {0} ELSE 1 .. N - 1)
    /\ before \in [Ids -> Vals \union {None, Blank}]
    /\ res \in {"ok", "full", "failed"} /\ cut \in BOOLEAN

(* The type invariant.  A write in progress always has a round left: nQty   *)
(* is zero only on the way to SYS_R_FULL.                                   *)
TypeOK == FlashType /\ CallType

(* No record, written or copied by the ring, reaches past the end of its    *)
(* block into the state word of the next one, and an erased block is empty. *)
Fits ==
    \A b \in Blocks : EndOf(b) <= CAP /\ (ste[b] = "idle" => log[b] = <<>>)

(* nAdrOld, an address taken before the ring turns, still is the address of *)
(* the valid record to replace when it is used.                             *)
OldIsThere ==
    pc \in {"next", "mark", "copy", "eraseold", "inval", "del"} /\ old # NoAdr
        => \E k \in DOMAIN log[old[1]] :
              LET r == log[old[1]][k] IN
              r.at = old[2] /\ r.ste = "valid" /\ r.id = req.id

(* Between two calls each identity has at most one valid record, so that    *)
(* the order of the search does not matter and sfs_Delete deletes it.  (A   *)
(* failure among the copies, the steps not in WriteAfter, may leave two.)   *)
OneValid == pc = "idle" /\ ~ cut => \A i \in Ids : Cardinality(Hits(i)) <= 1
=============================================================================
