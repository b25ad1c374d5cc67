------------------------------- MODULE SfsInv -------------------------------
(***************************************************************************)
(* The inductive invariants behind the theorems of Sfs_proofs: what the    *)
(* ring looks like at each place of a call, and what became of the records *)
(* that were readable when the call began.                                 *)
(***************************************************************************)
EXTENDS SfsKv

(* A ring of three or more blocks, on which a call writes only after a      *)
(* failure that left no copy beside its original.  (With two blocks the     *)
(* search for the active block takes the wrong one after a failure between  *)
(* MarkNext and the first copy; for the rest see the run sfs_recover.)      *)
CleanRestarts ==
    /\ N > 2 /\ Tears = FALSE
    /\ WriteAfter \cap {"copy", "eraseold", "fmt"} = {}

InCopy  == {"copy", "eraseold"}
InWrite == {"next", "mark", "copy", "eraseold", "inval", "head", "data"}
Fresh   == {"erase0", "mark0"}      \* writing, without an active block

Valid(b, k) == k \in DOMAIN log[b] /\ log[b][k].ste = "valid"

Empty == \A b \in Blocks : log[b] = <<>>

-----------------------------------------------------------------------------
(* For every ring, and any failures: where records lie and who is active.   *)
Layout ==
    \A b \in Blocks :
        /\ ste[b] = "idle" => log[b] = <<>>
        /\ \A k \in DOMAIN log[b] :
              /\ k <= log[b][k].at + 1
              /\ log[b][k].at + log[b][k].size <= CAP
              /\ \A j \in 1 .. k - 1 : log[b][j].at + log[b][j].size <= log[b][k].at

(* Which call goes with which place in the code.                            *)
CallInv ==
    /\ pc = "idle" <=> req = NoReq
    /\ pc \in {"fmt", "fmtmark"} <=> req = Format
    /\ pc \in Fresh \union InWrite => req.val \in Vals
    /\ pc = "del" => req.val = None
    /\ pc \in {"inval", "del"} => old # NoAdr
    /\ pc \in InWrite => act \in Blocks
    /\ pc = "fmt" => src \in Blocks
    /\ pc = "copy" => src \in Nat \ {0}

MarkInv ==
    /\ pc \in InWrite \ {"eraseold"} => ste[act] = "active"
    /\ pc \in InCopy => ste[Target] = "active"
    /\ pc = "mark" => ste[Target] = "idle"
    /\ pc = "mark0" => ste[0] = "idle"

(* Room is kept for what is still to be written: for the rest of the copies *)
(* because each goes to where it was or below, for the new record since     *)
(* Room was asked.                                                          *)
RoomInv ==
    /\ pc = "copy" => \A k \in DOMAIN log[Source] : src <= k => EndOf(Target) <= log[Source][k].at
    /\ pc \in {"inval", "head"} => Room(act, req.val)
    /\ pc = "data" => log[act] # <<>>

PlaceInv == Layout /\ CallInv /\ MarkInv /\ RoomInv

-----------------------------------------------------------------------------
(* Under CleanRestarts.  The active block is followed by an empty one; only *)
(* that may be active too, of a turn that was cut before its first copy.    *)
Leads(a) == a \in Active /\ Active \subseteq {a, NextBlk(a)} /\ log[NextBlk(a)] = <<>>

NoneActive == Active = {} /\ Empty

RingInv ==
    /\ cut => pc = "idle"
    /\ pc \in {"idle", "del"} /\ ~ cut => NoneActive \/ \E a \in Blocks : Leads(a)
    /\ pc \in Fresh \union {"fmtmark"} => NoneActive
    /\ pc \in InWrite \ InCopy => Leads(act)
    /\ pc = "copy" => Active = {act, Target} /\ (src = 1 => log[Target] = <<>>)
    /\ pc = "eraseold" => Active = {Target}
    /\ pc = "fmt" => \A b \in 0 .. src - 1 : ste[b] = "idle"

(* No two valid records of these blocks have the same identity.             *)
Alone(S) ==
    \A a, b \in S : \A j \in DOMAIN log[a], k \in DOMAIN log[b] :
        Valid(a, j) /\ Valid(b, k) /\ log[a][j].id = log[b][k].id => a = b /\ j = k

(* While the ring turns the block to fill holds copies of what has been     *)
(* passed in the block to clear: of all of it but the record to replace.    *)
IsCopyOf(j, k) ==
    /\ log[Target][j].id = log[Source][k].id /\ log[Target][j].val = log[Source][k].val

CopyInv ==
    /\ Alone(Blocks \ {Target}) /\ Alone({Target})
    /\ \A j \in DOMAIN log[Target] : Valid(Target, j) =>
          /\ log[Target][j].id # req.id
          /\ \E k \in DOMAIN log[Source] : k < src /\ Valid(Source, k) /\ IsCopyOf(j, k)
    /\ \A k \in DOMAIN log[Source] : k < src /\ Valid(Source, k) =>
          \/ log[Source][k].id = req.id /\ old = NoAdr
          \/ \E j \in DOMAIN log[Target] : Valid(Target, j) /\ IsCopyOf(j, k)
    /\ pc = "eraseold" => \A k \in DOMAIN log[Source] : Valid(Source, k) => k < src

OnceInv ==
    /\ pc = "idle" /\ ~ cut => Alone(Blocks)
    /\ pc \notin InCopy \union {"idle"} => Alone(Blocks)
    /\ pc \in InCopy => CopyInv

(* The record to replace is where it was found; without an address no other *)
(* is left than one that has been passed and will be erased.                *)
OldAt(b, k) == Valid(b, k) /\ log[b][k].at = old[2] /\ log[b][k].id = req.id

OldInv ==
    /\ pc \in {"next", "mark", "copy", "eraseold", "inval", "del"} /\ old # NoAdr =>
          \E k \in DOMAIN log[old[1]] :
             OldAt(old[1], k) /\ (pc \in InCopy /\ old[1] = Source => src <= k)
    /\ pc \in Fresh => old = NoAdr
    /\ pc \in {"next", "mark", "copy", "eraseold"} /\ old = NoAdr =>
          \A b \in Blocks : \A k \in DOMAIN log[b] : Valid(b, k) /\ log[b][k].id = req.id =>
             pc \in InCopy /\ b = Source /\ k < src
    /\ pc = "head" => \A b \in Blocks : \A k \in DOMAIN log[b] : Valid(b, k) => log[b][k].id # req.id

-----------------------------------------------------------------------------
(* All valid records of an identity hold v; there is one, unless v is None. *)
Agrees(i, v) ==
    \A b \in Blocks : \A k \in DOMAIN log[b] :
        Valid(b, k) /\ log[b][k].id = i => log[b][k].val = v

Shows(i, v) ==
    /\ Agrees(i, v)
    /\ v # None => \E b \in Blocks : \E k \in DOMAIN log[b] : Valid(b, k) /\ log[b][k].id = i

(* What became of the table that was readable when the call began.          *)
KeptInv ==
    /\ pc \in Fresh \union InWrite \union {"del"} => \A i \in Ids \ {req.id} : Shows(i, before[i])
    /\ pc \in (Fresh \union InWrite) \ {"data"} => Agrees(req.id, before[req.id])
    /\ pc = "del" => Shows(req.id, before[req.id])
    /\ pc = "data" => /\ Valid(act, Len(log[act]))
                      /\ log[act][Len(log[act])].id = req.id
                      /\ log[act][Len(log[act])].val = Blank
    /\ pc \in {"fmt", "fmtmark"} => \A i \in Ids : Agrees(i, before[i])

StoreInv == RingInv /\ OnceInv /\ OldInv /\ KeptInv
=============================================================================
