----------------------------- MODULE FlashSafe -----------------------------
(***************************************************************************)
(* What is expected of mtd/flash.c, and its refinement of Memory.          *)
(***************************************************************************)
EXTENDS FlashBuf

(* intf_Read, spif_Read, spif_SecRead: from the buffer what is in it.       *)
Reading(s) == IF s = sec THEN fbuf ELSE flash[s]

memory == [s \in Secs |-> Reading(s)]
opened == {s \in Secs : (s = sec /\ dirty) \/ (pc = "erasing" /\ s = todo[1].sec)}

Mem == INSTANCE Memory WITH mem <- memory, open <- opened, missed <- unstamped

(* The two flashes behind their buffer are a memory: a piece is read as it  *)
(* was written and changes no other word, reading through the buffer is     *)
(* reading the flash, and a power failure harms the one open sector, or the *)
(* one being erased, only.  What Memory allows the flash to lose beyond     *)
(* that is what the code loses: another sector's coming into the buffer     *)
(* harms the one whose saving has failed or which was written while the     *)
(* clock showed 0, and an erase at once may fail or hit a last word that is *)
(* set.                                                                     *)
ImplementsMemory == Mem!Spec

(* What a step makes of reading a sector: only a piece that is written      *)
(* changes it, and to what the piece says.                                  *)
Asked(s) == IF todo # <<>> /\ todo' = Tail(todo) /\ s = Head(todo).sec
            THEN Mem!Put(Reading(s), Head(todo).img)
            ELSE Reading(s)

(* Until power fails, every sector reads as it was last written.  The code  *)
(* keeps this only without Mishaps: a time of 0 makes a sector look saved   *)
(* (flash.c:179), results of operations are not looked at (224, 395), and   *)
(* the last word of a sector is not (383).                                  *)
ReadsAsWritten == [][Restart \/ \A s \in Secs : Reading(s)' = Asked(s)]_vars

(* What a mishap takes: the sector that leaves the buffer, when it was      *)
(* written while the clock showed 0 or its saving failed; one that is       *)
(* erased at once, when that fails or its last word was to be set.          *)
Lost(s) ==
    \/ s \in spoiled \union unstamped /\ s # sec'
    \/ /\ pc = "erasing" /\ s = todo[1].sec
       /\ SecEraseFails \/ todo[1].img[LAST] # FF

(* ... and with mishaps every other sector still does, at every step: a     *)
(* mishap is not passed on to the next sector in the buffer, and loses      *)
(* nothing before the one it hit leaves the buffer.                         *)
OnlyMishapsLose == [][Restart \/ \A s \in Secs : Reading(s)' = Asked(s) \/ Lost(s)]_vars

DataType ==
    /\ flash \in [Secs -> Mem!Images] /\ fbuf \in Mem!Images
    /\ sec \in Secs \union {NoSec} /\ spoiled \subseteq {sec}
    /\ unstamped \subseteq {sec} /\ (dirty => unstamped = {})

TimeType ==
    /\ dirty => sec \in Secs
    /\ age \in -AHEAD .. DELAY /\ look \in 0 .. PERIOD
    /\ quiet \in 0 .. DELAY + 2 * PERIOD

FlagType == dirty \in BOOLEAN /\ zero \in BOOLEAN /\ reset \in BOOLEAN

CallType ==
    /\ pc \in {"idle", "write", "erasing", "erase", "program"}
    /\ pc \in {"write", "erasing"} => todo # <<>>
    /\ pc = "idle" => todo = <<>>
    /\ pc \in {"erase", "program"} => dirty

TypeOK == DataType /\ TimeType /\ FlagType /\ CallType

(* What is written is in the flash after flash_Flush's delay and two        *)
(* periods of the thread that calls it, wherever the clock was set in       *)
(* between, as long as nobody writes or sets the clock again.  It never     *)
(* gets there if the clock showed 0 when it was written (unstamped), nor if *)
(* the flash failed to take it (spoiled).                                   *)
InTime ==
    \A s \in Secs \ (spoiled \union unstamped) :
        Reading(s) # flash[s] => quiet < DELAY + 2 * PERIOD

(* When sys_Reset goes on to reset the processor, every sector is in the    *)
(* flash as it was written, but for one that was written while the clock    *)
(* showed 0 and one that the flash did not take: sys_Reset loses both.      *)
(* What other threads write after the flush is lost as well.                *)
FlushedForReset ==
    reset /\ pc = "idle" =>
        \A s \in Secs \ (spoiled \union unstamped) : Reading(s) = flash[s]
=============================================================================
