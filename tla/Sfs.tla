-------------------------------- MODULE Sfs --------------------------------
(***************************************************************************)
(* fs/sfs/sfs.c: records by identity in N flash blocks, written as a ring  *)
(* of logs.                                                                *)
(*                                                                         *)
(* A block is erased (idle), ACTIVE or FULL; its records lie one behind    *)
(* the other and each is VALID or INVALID.  New records go to the active   *)
(* block.  When it has no room, the next block of the ring becomes active, *)
(* the valid records of the block after that are copied there, the old     *)
(* active block is marked FULL and the copied block erased.                *)
(*                                                                         *)
(* sfs_Lock admits one call at a time, so a call is a sequence of steps of *)
(* one thread; what interleaves with it is a power failure or a failing    *)
(* flash operation (Cut), between any two operations on the flash.         *)
(* Positions and sizes are in units of one record header.                  *)
(***************************************************************************)
EXTENDS Integers, Sequences, FiniteSets

CONSTANTS
    N,              \* p->blk: number of flash blocks
    CAP,            \* room for records in a block
    Ids, Vals,      \* identities and contents of records
    SizeOf,         \* SizeOf[v]: header and data of a record with content v
    None, Blank, NoReq, Format,     \* see KvStore
    CutAt,          \* the steps at which power may fail
    Tears,          \* whether a failure may cut the copy of a record in two
    WriteAfter      \* bound: the steps whose failure is followed by calls that write

HDR == 1

Steps == {"erase0", "mark0", "next", "mark", "start", "copy", "eraseold",
          "inval", "head", "data", "del", "fmt", "fmtmark"}

ASSUME SfsAssumption ==
    /\ N \in Nat \ {0, 1} /\ CAP \in Nat \ {0}
    /\ SizeOf \in [Vals -> Nat \ {0}]
    /\ CutAt \subseteq Steps /\ WriteAfter \subseteq Steps /\ Tears \in BOOLEAN
    /\ None \notin Vals \union {Blank} /\ Blank \notin Vals
    /\ NoReq # Format /\ {NoReq, Format} \cap [id : Ids, val : Vals \union {None}] = {}

Blocks == 0 .. N - 1
NoBlk  == N
NoAdr  == <<NoBlk, 0>>
NoId   == "none"

VARIABLES
    ste,            \* the state word of each block
    log,            \* the records of each block, in order
    pc, req,        \* place in the code, the call in progress
    old,            \* nAdrOld: address <<block, offset>> of the record to replace
    act,            \* nAct
    src,            \* index of the next record to copy; block to format next
    qty,            \* nQty
    res,            \* what the last call returned
    before,         \* history: what was readable when the call began
    cut             \* history: power has failed, at a step not in WriteAfter

flash == <<ste, log>>
vars  == <<ste, log, pc, req, old, act, src, qty, res, before, cut>>

-----------------------------------------------------------------------------
EndOf(b) == IF log[b] = <<>> THEN 0
            ELSE log[b][Len(log[b])].at + log[b][Len(log[b])].size

(* Mutant of Room: the header alone must fit.                               *)
RoomForHeader(b, v) == EndOf(b) + HDR <= CAP

(* _sfs_Free: what lies behind the header at the end must hold header and   *)
(* data, so that one header more than needed stays free.                    *)
Room(b, v) == EndOf(b) + HDR + SizeOf[v] <= CAP

Record(b, i, v, n) == [ste |-> "valid", id |-> i, val |-> v, at |-> EndOf(b), size |-> n]

(* An invalid record is skipped whatever it holds.                          *)
Invalid(r) == [r EXCEPT !.ste = "invalid", !.id = NoId, !.val = Blank]

(* _sfs_Find and the search in _sfs_Write: the first valid record with the  *)
(* identity, in the order of the blocks, not of their age.                  *)
IsHit(b, k, i) == /\ ste[b] # "idle" /\ k \in DOMAIN log[b]
                  /\ log[b][k].ste = "valid" /\ log[b][k].id = i

Hits(i) == {x \in Blocks \X (1 .. CAP) : IsHit(x[1], x[2], i)}

Precedes(x, y) == x[1] < y[1] \/ (x[1] = y[1] /\ x[2] <= y[2])

Found(i) == CHOOSE x \in Hits(i) : \A y \in Hits(i) : Precedes(x, y)

Adr(x) == <<x[1], log[x[1]][x[2]].at>>

AdrOf(i) == IF Hits(i) = {} THEN NoAdr ELSE Adr(Found(i))

(* sfs_Read.                                                                *)
Read(i) == IF Hits(i) = {} THEN None ELSE log[Found(i)[1]][Found(i)[2]].val

View == [i \in Ids |-> Read(i)]

Active == {b \in Blocks : ste[b] = "active"}

(* The first active block, but the last block when both ends of the ring    *)
(* are active: then the step from the last to the first was cut.            *)
ActiveBlock ==
    IF {0, N - 1} \subseteq Active THEN N - 1
    ELSE IF Active = {} THEN NoBlk
    ELSE CHOOSE b \in Active : \A a \in Active : b <= a

NextBlk(b) == (b + 1) % N
Target == NextBlk(act)              \* nBEnd

(* Mutant of Source: one block short of the one to clear.                   *)
SourceIsNext == NextBlk(act)

Source == NextBlk(NextBlk(act))     \* nBlk

-----------------------------------------------------------------------------
Init ==
    /\ ste = [b \in Blocks |-> IF b = 0 THEN "active" ELSE "idle"]
    /\ log = [b \in Blocks |-> <<>>]
    /\ pc = "idle" /\ req = NoReq /\ old = NoAdr /\ act = NoBlk
    /\ src = 0 /\ qty = 0 /\ res = "ok"
    /\ before = [i \in Ids |-> None] /\ cut = FALSE

(* The end of a call, in whatever way; its local variables are gone.        *)
Return(r) ==
    /\ res' = r
    /\ pc' = "idle" /\ req' = NoReq /\ old' = NoAdr /\ act' = NoBlk
    /\ src' = 0 /\ qty' = 0 /\ before' = [i \in Ids |-> None]

Goto(l) == pc' = l /\ UNCHANGED <<req, src, qty, res, before, cut>>

Erase(b) == ste' = [ste EXCEPT ![b] = "idle"] /\ log' = [log EXCEPT ![b] = <<>>]

MarkAs(b, s) == ste' = [ste EXCEPT ![b] = s] /\ UNCHANGED log

Put(b, r) == log' = [log EXCEPT ![b] = Append(@, r)] /\ UNCHANGED ste

(* Mutant of Store: the old record is left valid.                           *)
StoreBeside(o) == "head"

(* With room for the record: first invalidate the old one, if any.          *)
Store(o) == IF o = NoAdr THEN "head" ELSE "inval"

MayWrite == pc = "idle" /\ ~ cut

-----------------------------------------------------------------------------
(* sfs_Write: search the old record and the active block.                   *)
Write(i, v) ==
    /\ MayWrite
    /\ req' = [id |-> i, val |-> v]
    /\ before' = View
    /\ old' = AdrOf(i)
    /\ act' = ActiveBlock
    /\ qty' = N - 1
    /\ pc'  = IF act' = NoBlk THEN "erase0"
              ELSE IF ~ Room(act', v) THEN "next"
              ELSE Store(old')
    /\ UNCHANGED <<flash, src, res, cut>>

(* No active block: start over with block 0.                                *)
EraseFirst == pc = "erase0" /\ Erase(0) /\ Goto("mark0") /\ UNCHANGED <<old, act>>

MarkFirst ==
    /\ pc = "mark0" /\ MarkAs(0, "active") /\ act' = 0
    /\ Goto(IF Room(0, req.val) THEN Store(old) ELSE "next") /\ UNCHANGED old

(* One round of the ring ...                                                *)
EraseNext ==
    /\ pc = "next" /\ ste[Target] # "idle"
    /\ Erase(Target) /\ Goto("mark") /\ UNCHANGED <<old, act>>

MarkNext ==
    /\ pc = "mark" \/ (pc = "next" /\ ste[Target] = "idle")
    /\ MarkAs(Target, "active")
    /\ pc' = "copy" /\ src' = 1 /\ UNCHANGED <<req, old, act, qty, res, before, cut>>

Copyable == {k \in DOMAIN log[Source] : k >= src /\ ste[Source] # "idle" /\ log[Source][k].ste = "valid"}

IsNextCopy(k) == k \in Copyable /\ \A j \in Copyable : k <= j

(* Mutants of Copy: the address of a record left behind is kept; the copy   *)
(* ends with the record that is replaced.                                   *)
CopyKeepsOld ==
    /\ pc = "copy"
    /\ \E k \in Copyable :
          LET r == log[Source][k] IN
          /\ IsNextCopy(k)
          /\ \/ old = Adr(<<Source, k>>) /\ UNCHANGED flash
             \/ old # Adr(<<Source, k>>) /\ Put(Target, Record(Target, r.id, r.val, r.size))
          /\ src' = k + 1
    /\ UNCHANGED <<pc, req, old, act, qty, res, before, cut>>

CopyUpToOld ==
    /\ pc = "copy"
    /\ \E k \in Copyable :
          LET r == log[Source][k] IN
          /\ IsNextCopy(k)
          /\ \/ old = Adr(<<Source, k>>) /\ old' = NoAdr /\ src' = CAP + 1 /\ UNCHANGED flash
             \/ /\ old # Adr(<<Source, k>>) /\ old' = old /\ src' = k + 1
                /\ Put(Target, Record(Target, r.id, r.val, r.size))
    /\ UNCHANGED <<pc, req, act, qty, res, before, cut>>

(* ... copy the valid records but the one that is replaced ...              *)
Copy ==
    /\ pc = "copy"
    /\ \E k \in Copyable :
          LET r == log[Source][k] IN
          /\ IsNextCopy(k)
          /\ \/ /\ old = Adr(<<Source, k>>) /\ old' = NoAdr /\ UNCHANGED flash
             \/ /\ old # Adr(<<Source, k>>) /\ old' = old
                /\ Put(Target, Record(Target, r.id, r.val, r.size))
          /\ src' = k + 1
    /\ UNCHANGED <<pc, req, act, qty, res, before, cut>>

MarkFull ==
    /\ pc = "copy" /\ Copyable = {}
    /\ MarkAs(act, "full") /\ Goto("eraseold") /\ UNCHANGED <<old, act>>

(* Mutant of EraseOld: the ring turns until there is room.                  *)
EraseOldOnAndOn ==
    /\ pc = "eraseold"
    /\ Erase(Source)
    /\ qty' = qty - 1 /\ act' = Target
    /\ pc' = IF Room(Target, req.val) THEN Store(old) ELSE "next"
    /\ src' = 0 /\ UNCHANGED <<req, old, res, before, cut>>

(* ... and see whether there is room now.  The last of the N - 1 rounds     *)
(* answers SYS_R_FULL even then.                                            *)
EraseOld ==
    /\ pc = "eraseold"
    /\ Erase(Source)
    /\ \/ /\ qty = 1 /\ Return("full") /\ cut' = cut
       \/ /\ qty > 1 /\ qty' = qty - 1 /\ act' = Target
          /\ pc' = IF Room(Target, req.val) THEN Store(old) ELSE "next"
          /\ src' = 0 /\ UNCHANGED <<req, old, res, before, cut>>

(* Program INVALID over the state of the record at the old address, or,     *)
(* where the block has been rewritten since, over what lies there now: a    *)
(* part of the data of a record.  What it spoils in the erased rest of such *)
(* a block is outside the model.                                            *)
Invalidate ==
    /\ pc = "inval"
    /\ \E k \in DOMAIN log[old[1]] :
          LET r == log[old[1]][k] IN
          /\ r.at <= old[2] /\ old[2] < r.at + r.size
          /\ log' = [log EXCEPT ![old[1]][k] =
                        IF r.at = old[2] THEN Invalid(r) ELSE [r EXCEPT !.val = Blank]]
    /\ Goto("head") /\ UNCHANGED <<ste, old, act>>

Header ==
    /\ pc = "head"
    /\ Put(act, Record(act, req.id, Blank, SizeOf[req.val]))
    /\ Goto("data") /\ UNCHANGED <<old, act>>

Data ==
    /\ pc = "data"
    /\ log' = [log EXCEPT ![act][Len(log[act])].val = req.val]
    /\ Return("ok") /\ UNCHANGED <<ste, cut>>

-----------------------------------------------------------------------------
(* sfs_Delete: find the record, then program INVALID over its state.        *)
Delete(i) ==
    /\ MayWrite /\ Hits(i) # {}
    /\ req' = [id |-> i, val |-> None] /\ before' = View /\ old' = AdrOf(i) /\ pc' = "del"
    /\ UNCHANGED <<flash, act, src, qty, res, cut>>

Remove ==
    /\ pc = "del"
    /\ \E k \in DOMAIN log[old[1]] :
          /\ log[old[1]][k].at = old[2]
          /\ log' = [log EXCEPT ![old[1]][k] = Invalid(@)]
    /\ Return("ok") /\ UNCHANGED <<ste, cut>>

(* sfs_Init: erase all blocks, then activate the first.                     *)
BeginFormat ==
    /\ MayWrite /\ pc' = "fmt" /\ req' = Format /\ src' = 0 /\ before' = View
    /\ UNCHANGED <<flash, old, act, qty, res, cut>>

FormatErase ==
    /\ pc = "fmt" /\ Erase(src)
    /\ src' = src + 1 /\ pc' = IF src + 1 = N THEN "fmtmark" ELSE "fmt"
    /\ UNCHANGED <<req, old, act, qty, res, before, cut>>

FormatMark == pc = "fmtmark" /\ MarkAs(0, "active") /\ Return("ok") /\ cut' = cut

(* The start of the copy, when nothing is duplicated yet, is told apart.     *)
Place == IF pc = "copy" /\ src = 1 THEN "start" ELSE pc

(* Power fails, or an operation on the flash returns an error and the call  *)
(* with it.  A program operation may be cut between header and data.        *)
Cut ==
    /\ Place \in CutAt
    /\ \/ UNCHANGED flash
       \/ /\ Tears /\ pc = "copy"
          /\ \E k \in Copyable :
                /\ IsNextCopy(k) /\ old # Adr(<<Source, k>>)
                /\ Put(Target, Record(Target, log[Source][k].id, Blank, log[Source][k].size))
    /\ Return("failed") /\ cut' = (cut \/ Place \notin WriteAfter)

Next ==
    \/ \E i \in Ids, v \in Vals : Write(i, v)
    \/ EraseFirst \/ MarkFirst \/ EraseNext \/ MarkNext \/ Copy \/ MarkFull \/ EraseOld
    \/ Invalidate \/ Header \/ Data
    \/ (\E i \in Ids : Delete(i)) \/ Remove
    \/ BeginFormat \/ FormatErase \/ FormatMark
    \/ Cut

Spec == Init /\ [][Next]_vars
=============================================================================
