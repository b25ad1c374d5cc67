------------------------------ MODULE KvStore ------------------------------
(***************************************************************************)
(* What fs/sfs promises its users (dbg/log.c, cp/gdfts.c, mtd/flash.c): a  *)
(* table of records by identity.  A write replaces one record and touches  *)
(* no other; when power fails or the flash reports an error inside a call, *)
(* only the record that call was about is in doubt.                        *)
(***************************************************************************)
CONSTANTS Ids, Vals,
          None,         \* what is read where there is no record
          Blank,        \* a record of which no data has been programmed
          NoReq,        \* no call in progress
          Format        \* the call that empties the table

VARIABLES store,        \* what sfs_Read returns for each identity
          busy,         \* the call in progress
          res           \* what the last call returned

Writes   == [id : Ids, val : Vals \union {None}]       \* None: delete it
Readable == Vals \union {None, Blank}

Init == store = [i \in Ids |-> None] /\ busy = NoReq /\ res = "ok"

Begin(r) == busy = NoReq /\ busy' = r /\ UNCHANGED <<store, res>>

End(r) == busy' = NoReq /\ res' = r

Written ==
    /\ busy \in Writes /\ End("ok")
    /\ store' = [store EXCEPT ![busy.id] = busy.val]

(* SYS_R_FULL of a write: the old record may be gone already.               *)
Refused ==
    /\ busy \in Writes /\ busy.val # None /\ End("full")
    /\ \E v \in {store[busy.id], None} : store' = [store EXCEPT ![busy.id] = v]

Formatted == busy = Format /\ End("ok") /\ store' = [i \in Ids |-> None]

Cut ==
    /\ busy # NoReq /\ End("failed")
    /\ \/ /\ busy \in Writes
          /\ \E v \in {store[busy.id], busy.val, None, Blank} :
                store' = [store EXCEPT ![busy.id] = v]
       \/ /\ busy = Format
          /\ \E gone \in SUBSET Ids : store' = [i \in Ids |-> IF i \in gone THEN None ELSE store[i]]

Next == (\E r \in Writes \union {Format} : Begin(r)) \/ Written \/ Refused \/ Formatted \/ Cut

Spec == Init /\ [][Next]_<<store, busy, res>>
=============================================================================
