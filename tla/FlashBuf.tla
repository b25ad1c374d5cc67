------------------------------ MODULE FlashBuf ------------------------------
(***************************************************************************)
(* mtd/flash.c: the buffer of one sector through which intf_Write,         *)
(* spif_Write and spif_SecWrite reach the internal and the serial flash,   *)
(* and the periodic thread and sys_Reset that flush it.                    *)
(*                                                                         *)
(* flash_Lock admits one call at a time, so a call is a sequence of steps  *)
(* of one thread; what comes between them is a failing flash operation or  *)
(* a power failure.  A sector is written in two operations, erase and      *)
(* program; a call that writes elsewhere first saves the sector in the     *)
(* buffer.  spif_Fill is a sequence of calls of spif_Write.                *)
(*                                                                         *)
(* Time is in ticks.  Only the distance of the clock to p->dirty matters,  *)
(* and whether the clock shows 0, which p->dirty takes for "clean".        *)
(***************************************************************************)
EXTENDS Integers, Sequences, FiniteSets

CONSTANTS
    Secs,           \* sectors: of the internal and of the serial flash
    SpiSecs,        \* those of the serial flash, which have spif_SecWrite
    NextSec,        \* NextSec[s]: the sector behind s, or s
    LAST,           \* the last word of a sector
    Vals, FF, Junk, \* see Memory
    NoSec,          \* FLASH_BLOCK_INVALID
    DELAY,          \* the 60 seconds of flash_Flush(60)
    PERIOD,         \* ticks between two calls of it
    AHEAD,          \* bound: how far the clock is set back
    Mishaps         \* what may happen: "failure" of a flash operation, a clock
                    \* that shows 0 ("clock0"), an image of which the last word
                    \* alone is set ("lastword")

ASSUME FlashAssumption ==
    /\ SpiSecs \subseteq Secs /\ NextSec \in [Secs -> Secs] /\ NoSec \notin Secs
    /\ {LAST, DELAY, PERIOD, AHEAD} \subseteq Nat \ {0}
    /\ Junk \notin Vals \union {FF}
    /\ Mishaps \subseteq {"failure", "clock0", "lastword"}

Words == 1 .. LAST

VARIABLES
    flash,          \* the sectors of the flash
    sec, fbuf,      \* flash_buf: which sector is in the buffer, its contents
    dirty,          \* p->dirty # 0
    age,            \* when dirty: the clock less p->dirty, negative when it was set back
    zero,           \* the clock shows 0
    pc, todo,       \* place in the code; the pieces yet to write
    look,           \* ticks since the periodic thread called flash_Flush
    reset,          \* sys_Reset has flushed, and nobody has written since
    spoiled,        \* history: the sector in the buffer, when saving it has failed
    unstamped,      \* history: that sector, when written while the clock showed 0
    quiet           \* history, when dirty: ticks since the buffer or the clock was written

buffer == <<sec, fbuf, dirty, age>>
clock  == <<age, zero, look, quiet>>
vars   == <<flash, sec, fbuf, dirty, age, zero, pc, todo, look, reset, spoiled,
          unstamped, quiet>>

Blank  == [w \in Words |-> FF]
Broken == [w \in Words |-> Junk]

Least(a, b) == IF a < b THEN a ELSE b

(* Whether the clock may show 0.                                            *)
Zero == IF "clock0" \in Mishaps THEN BOOLEAN ELSE {FALSE}

-----------------------------------------------------------------------------
Init ==
    /\ flash = [s \in Secs |-> Blank]
    /\ sec = NoSec /\ fbuf = Blank /\ dirty = FALSE /\ age = 0 /\ zero \in Zero
    /\ pc = "idle" /\ todo = <<>>
    /\ look = 0 /\ reset = FALSE /\ spoiled = {} /\ unstamped = {} /\ quiet = 0

(* A call of intf_Write or spif_Write: a word, or the last word of a sector *)
(* and the first one of the next.                                           *)
Write ==
    /\ pc = "idle" /\ pc' = "write"
    /\ \E s \in Secs, w \in Words, v \in Vals \union {FF} :
          \/ todo' = << [sec |-> s, img |-> [x \in {w} |-> v]] >>
          \/ /\ w = LAST /\ NextSec[s] # s
             /\ todo' = << [sec |-> s, img |-> [x \in {w} |-> v]],
                           [sec |-> NextSec[s], img |-> [x \in {1} |-> v]] >>
    /\ reset' = FALSE
    /\ UNCHANGED <<flash, buffer, zero, look, spoiled, unstamped, quiet>>

(* The loop over the words of an image ends early at a word that is not     *)
(* blank, but at the last word it has ended anyhow: the test behind it does *)
(* not see what that word is.                                               *)
LooksBlank(img) == \A w \in Words \ {LAST} : img[w] = FF

(* spif_SecWrite: a sector that is not in the buffer and looks blank is     *)
(* erased at once, another replaces what is in the buffer.                  *)
SecWrite ==
    /\ pc = "idle"
    /\ \E s \in SpiSecs, img \in [Words -> Vals \union {FF}] :
          /\ todo' = << [sec |-> s, img |-> img] >>
          /\ LooksBlank(img) /\ img[LAST] # FF => "lastword" \in Mishaps
          /\ pc' = IF s # sec /\ LooksBlank(img) THEN "erasing" ELSE "write"
    /\ reset' = FALSE
    /\ UNCHANGED <<flash, buffer, zero, look, spoiled, unstamped, quiet>>

(* spif_SecErase of a sector that looks blank, past the buffer.  Its result *)
(* is ignored.                                                              *)
SecEraseTo(image) ==
    /\ pc = "erasing" /\ pc' = "idle" /\ todo' = <<>>
    /\ flash' = [flash EXCEPT ![todo[1].sec] = image]
    /\ UNCHANGED <<buffer, zero, look, reset, spoiled, unstamped, quiet>>

SecErase == SecEraseTo(Blank)

SecEraseFails ==
    /\ pc = "erasing" /\ "failure" \in Mishaps
    /\ \E image \in {flash[todo[1].sec], Broken} : SecEraseTo(image)

(* Mutant of Evict: without looking at p->dirty.                            *)
EvictClean ==
    /\ pc = "write" /\ Head(todo).sec # sec /\ sec # NoSec /\ pc' = "erase"
    /\ UNCHANGED <<flash, buffer, zero, todo, look, reset, spoiled, unstamped, quiet>>

(* Another sector is in the buffer and dirty: _flash_Flush(0).              *)
Evict ==
    /\ pc = "write" /\ Head(todo).sec # sec /\ dirty /\ pc' = "erase"
    /\ UNCHANGED <<flash, buffer, zero, todo, look, reset, spoiled, unstamped, quiet>>

PutPiece ==
    LET s == Head(todo).sec  img == Head(todo).img IN
    /\ pc = "write"
    /\ sec' = s
    /\ fbuf' = [w \in Words |-> IF w \in DOMAIN img THEN img[w]
                                ELSE IF s = sec THEN fbuf[w] ELSE flash[s][w]]
    /\ dirty' = ~ zero /\ age' = 0 /\ quiet' = 0
    /\ unstamped' = IF zero THEN {s} ELSE {}
    /\ spoiled' = spoiled \intersect {s}
    /\ todo' = Tail(todo) /\ pc' = IF Len(todo) = 1 THEN "idle" ELSE "write"
    /\ UNCHANGED <<flash, zero, look, reset>>

(* Mutant of Copy: what is in the buffer is replaced without being saved.   *)
CopyOver == PutPiece

(* The piece goes to the buffer, which takes the rest of its sector from    *)
(* the flash; the time is noted, and a time of 0 says that nothing needs to *)
(* be saved.                                                                *)
Copy == PutPiece /\ (Head(todo).sec = sec \/ ~ dirty)

(* Mutant of Due: a time in the future is not one to act upon.              *)
DueByAge(delay) == dirty /\ age >= delay

(* flash_Flush(nDelay): a sector is saved when it has been dirty for nDelay *)
(* or appears to have been written in the future.                           *)
Due(delay) == dirty /\ (age < 0 \/ age >= delay)

Flush(delay) ==
    /\ pc = "idle" /\ pc' = IF Due(delay) THEN "erase" ELSE "idle"
    /\ UNCHANGED <<flash, buffer, zero, todo, spoiled, unstamped, quiet>>

(* sys_Maintian, every 32 seconds.                                          *)
Maintian == Flush(DELAY) /\ look' = 0 /\ UNCHANGED reset

(* Mutant of ResetCall: the delay of the periodic thread.                   *)
ResetCallWaits == ~ reset /\ Flush(DELAY) /\ reset' = TRUE /\ UNCHANGED look

(* sys_Reset: other threads run on until arch_Reset, a Restart.             *)
ResetCall == ~ reset /\ Flush(0) /\ reset' = TRUE /\ UNCHANGED look

(* The two operations of _flash_Flush.  Their results are ignored.          *)
EraseTo(image) ==
    /\ pc = "erase" /\ pc' = "program"
    /\ flash' = [flash EXCEPT ![sec] = image]
    /\ UNCHANGED <<buffer, zero, todo, look, reset, unstamped, quiet>>

Erase      == EraseTo(Blank) /\ spoiled' = spoiled \ {sec}
EraseFails ==
    /\ pc = "erase" /\ "failure" \in Mishaps /\ \E image \in {flash[sec], Broken} : EraseTo(image)
    /\ spoiled' = {sec}

ProgramTo(image) ==
    /\ pc = "program" /\ pc' = IF todo = <<>> THEN "idle" ELSE "write"
    /\ flash' = [flash EXCEPT ![sec] = image]
    /\ dirty' = FALSE /\ age' = 0 /\ quiet' = 0
    /\ UNCHANGED <<sec, fbuf, zero, todo, look, reset, unstamped>>

(* Programming reaches erased words only.                                   *)
Over(old, new) == [w \in Words |-> IF old[w] \in {FF, new[w]} THEN new[w] ELSE Junk]

Program      == ProgramTo(Over(flash[sec], fbuf)) /\ UNCHANGED spoiled
ProgramFails == "failure" \in Mishaps /\ ProgramTo(Broken) /\ spoiled' = {sec}

-----------------------------------------------------------------------------
(* Time passes between calls; the periodic thread is not late.              *)
Tick ==
    /\ pc = "idle" /\ look < PERIOD /\ look' = look + 1
    /\ zero' = FALSE
    /\ IF dirty THEN /\ age' = Least(age + 1, DELAY)
                    /\ quiet' = Least(quiet + 1, DELAY + 2 * PERIOD)
                ELSE UNCHANGED <<age, quiet>>
    /\ UNCHANGED <<flash, sec, fbuf, dirty, pc, todo, reset, spoiled, unstamped>>

(* rtc_SetTimet, forwards or back, to 0 at the worst.                       *)
SetClock ==
    /\ pc = "idle" /\ quiet' = 0
    /\ age' \in (IF dirty THEN {-AHEAD, 0, DELAY} ELSE {0})
    /\ zero' \in Zero /\ (zero' => age' <= 0)
    /\ UNCHANGED <<flash, sec, fbuf, dirty, pc, todo, look, reset, spoiled, unstamped>>

(* Power fails or the processor is reset, and flash_Init starts with an     *)
(* empty buffer.  An operation on the flash may be cut.                     *)
Restart ==
    /\ LET s == IF pc = "erasing" THEN todo[1].sec ELSE sec IN
       \/ UNCHANGED flash
       \/ pc \in {"erase", "program", "erasing"} /\ flash' = [flash EXCEPT ![s] = Broken]
    /\ sec' = NoSec /\ fbuf' = Blank /\ dirty' = FALSE /\ age' = 0 /\ zero' \in Zero
    /\ pc' = "idle" /\ todo' = <<>> /\ look' = 0 /\ reset' = FALSE
    /\ spoiled' = {} /\ unstamped' = {} /\ quiet' = 0

Next ==
    \/ Write \/ SecWrite \/ SecErase \/ SecEraseFails \/ Evict \/ Copy
    \/ Maintian \/ ResetCall \/ Erase \/ EraseFails \/ Program \/ ProgramFails
    \/ Tick \/ SetClock \/ Restart

Spec == Init /\ [][Next]_vars
=============================================================================
