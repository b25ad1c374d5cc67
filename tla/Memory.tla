------------------------------- MODULE Memory -------------------------------
(***************************************************************************)
(* What mtd/flash.c keeps: a memory of sectors that is read as it was last *)
(* written.  One sector at a time is open, written but not yet in the      *)
(* flash; a power failure may spoil that one and a sector that is being    *)
(* erased, and no other.                                                   *)
(*                                                                         *)
(* It is a memory that may lose.  A sector whose saving failed, or which   *)
(* looked saved when it was written, is lost when another takes its place  *)
(* in the cache, not before.  A sector that seems blank is erased at once, *)
(* and the erase may fail or take its last word.  Which of these happens   *)
(* is up to the flash, the clock and the caller; FlashSafe!ReadsAsWritten  *)
(* is the memory that loses nothing.                                       *)
(***************************************************************************)
EXTENDS Naturals, Sequences

CONSTANTS Secs, Words, Vals,
          FF,           \* what an erased word reads as
          Junk          \* what a failed or cut operation leaves

VARIABLES mem,          \* what is read from each sector
          todo,         \* the pieces that the call in progress has yet to write
          open,         \* sectors that are written or erased and not saved
          spoiled,      \* sectors whose saving failed
          missed        \* sectors that were written and look saved

Images == [Words -> Vals \union {FF, Junk}]
Blank  == [w \in Words |-> FF]
Broken == [w \in Words |-> Junk]

(* A piece: new values of some words of a sector.                           *)
Pieces == [sec : Secs, img : UNION {[W -> Vals \union {FF}] : W \in (SUBSET Words) \ {{}}}]

Put(image, img) == [w \in Words |-> IF w \in DOMAIN img THEN img[w] ELSE image[w]]

Init ==
    /\ mem \in [Secs -> Images] /\ todo = <<>>
    /\ open = {} /\ spoiled = {} /\ missed = {}

Differs(S) == \A s \in Secs \ S : mem'[s] = mem[s]

Ask == todo = <<>> /\ todo' \in Seq(Pieces) /\ UNCHANGED <<mem, open, spoiled, missed>>

(* The sector that was open before has been saved, or its saving failed.    *)
(* The new one is open, or is missed (the clock shows 0).                   *)
Write ==
    /\ todo # <<>> /\ todo' = Tail(todo)
    /\ LET s == Head(todo).sec IN
       /\ open \subseteq {s}
       /\ mem'[s] = Put(mem[s], Head(todo).img) /\ Differs(spoiled \union missed \union {s})
       /\ spoiled' = spoiled \intersect {s}
       /\ \/ open' = {s} /\ missed' = {}
          \/ open' = {} /\ missed' = {s}

(* A call may save the open sector; the flash may refuse to.                *)
Save == \E s \in open :
    open' = open \ {s} /\ spoiled' \in {spoiled, {s}} /\ UNCHANGED <<mem, todo, missed>>

Attempt == \E s \in open : spoiled' \in {{}, {s}} /\ UNCHANGED <<mem, todo, open, missed>>

(* A sector that is blank, or all but its last word, is not written but     *)
(* erased at once.                                                          *)
LooksBlank(img) == \E w \in Words : \A x \in Words \ {w} : x < w /\ x \in DOMAIN img /\ img[x] = FF

Erase == \E p \in Pieces :
    /\ todo = <<>> /\ todo' = <<p>> /\ LooksBlank(p.img)
    /\ p.sec \notin open /\ open' = open \union {p.sec}
    /\ UNCHANGED <<mem, spoiled, missed>>

Erased ==
    /\ todo # <<>> /\ todo' = Tail(todo)
    /\ LET s == Head(todo).sec IN
       /\ s \in open /\ open' = open \ {s}
       /\ \E image \in {Blank, mem[s], Broken} : mem' = [mem EXCEPT ![s] = image]
       /\ UNCHANGED <<spoiled, missed>>

PowerFails ==
    /\ todo' = <<>> /\ open' = {} /\ spoiled' = {} /\ missed' = {}
    /\ DOMAIN mem' = Secs /\ Differs(open \union spoiled \union missed)

Next == Ask \/ Write \/ Save \/ Attempt \/ Erase \/ Erased \/ PowerFails

Spec == Init /\ [][Next]_<<mem, todo, open, spoiled, missed>>
=============================================================================
