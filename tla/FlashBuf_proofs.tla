-------------------------- MODULE FlashBuf_proofs --------------------------
(***************************************************************************)
(* Proofs about FlashBuf for every number and size of sectors, every delay *)
(* and period and every setting of the clock: what is written is saved in  *)
(* time and before a reset, but for a sector written while the clock       *)
(* showed 0 and one the flash did not take, and the two flashes behind     *)
(* their buffer are a memory; without such mishaps it loses nothing.       *)
(***************************************************************************)
EXTENDS FlashSafe, SequenceTheorems, TLAPS

(* What the sectors hold that are neither spoiled nor unstamped: a sector   *)
(* is blank between its erase and its program, and a clean buffer is a copy *)
(* of its sector.                                                           *)
Copied ==
    /\ pc = "program" /\ sec \notin spoiled => flash[sec] = Blank
    /\ ~ dirty /\ sec \in Secs \ (spoiled \union unstamped) => fbuf = flash[sec]

(* The pieces of a call, and that a sector erased at once is not buffered.  *)
PieceInv ==
    /\ todo \in Seq(Mem!Pieces)
    /\ pc = "erasing" => Len(todo) = 1 /\ todo[1].sec # sec

(* Between the flush of sys_Reset and the next write nothing is dirty.      *)
ResetInv ==
    reset => /\ pc \in {"idle", "erase", "program"} /\ todo = <<>>
             /\ pc = "idle" => ~ dirty

(* How long a dirty sector has been left alone: since before the periodic   *)
(* thread looked last if it seems written in the future, for little longer  *)
(* than its age while that is below the delay, and not past the next look   *)
(* once it is not.                                                          *)
TimeInv ==
    /\ dirty => quiet < DELAY + 2 * PERIOD
    /\ dirty /\ pc \in {"idle", "write", "erasing"} =>
          \/ age < 0 /\ quiet <= look
          \/ 0 <= age /\ age < DELAY /\ quiet <= age + PERIOD
          \/ age = DELAY /\ quiet < DELAY + PERIOD + look

Inv == TypeOK /\ Copied /\ PieceInv /\ ResetInv /\ TimeInv

-----------------------------------------------------------------------------
LEMMA Delays == DELAY \in Nat \ {0} /\ PERIOD \in Nat \ {0} /\ AHEAD \in Nat \ {0}
  BY FlashAssumption DEF FlashAssumption

LEMMA Sectors == NoSec \notin Secs /\ NextSec \in [Secs -> Secs] /\ SpiSecs \subseteq Secs /\ 1 \in Words
  BY FlashAssumption DEF FlashAssumption, Words

LEMMA ZeroIsFlag == \A z \in Zero : z \in BOOLEAN
<1>1. CASE "clock0" \in Mishaps
  BY <1>1, Zenon DEF Zero
<1>2. CASE "clock0" \notin Mishaps
  BY <1>2, Zenon DEF Zero
<1> QED
  BY <1>1, <1>2

LEMMA BlankImages == Blank \in Mem!Images /\ Broken \in Mem!Images
  BY DEF Blank, Broken, Mem!Images

LEMMA PieceFacts ==
  ASSUME NEW p \in Mem!Pieces
  PROVE  /\ p.sec \in Secs /\ DOMAIN p.img \subseteq Words
         /\ \A w \in DOMAIN p.img : p.img[w] \in Vals \union {FF}
  BY DEF Mem!Pieces

LEMMA OnePiece ==
  ASSUME NEW s \in Secs, NEW W \in SUBSET Words, W # {}, NEW img \in [W -> Vals \union {FF}]
  PROVE  [sec |-> s, img |-> img] \in Mem!Pieces
<1>1. img \in UNION {[V -> Vals \union {FF}] : V \in (SUBSET Words) \ {{}}}
  OBVIOUS
<1> QED
  BY <1>1 DEF Mem!Pieces

LEMMA NextPiece ==
  ASSUME PieceInv, todo # <<>>
  PROVE  /\ Head(todo) \in Mem!Pieces /\ Head(todo) = todo[1]
         /\ Tail(todo) \in Seq(Mem!Pieces)
         /\ Tail(todo) = <<>> <=> Len(todo) = 1
<1>1. todo \in Seq(Mem!Pieces)
  BY DEF PieceInv
<1>2. /\ Head(todo) \in Mem!Pieces /\ Tail(todo) \in Seq(Mem!Pieces)
      /\ Len(Tail(todo)) = Len(todo) - 1 /\ Len(todo) \in Nat \ {0}
  BY <1>1, HeadTailProperties, EmptySeq
<1>3. Tail(todo) = <<>> <=> Len(Tail(todo)) = 0
  BY <1>2, EmptySeq
<1> QED
  BY <1>1, <1>2, <1>3

(* A call that has pieces to write does not lose one by standing still.     *)
LEMMA Unshortened ==
  ASSUME PieceInv, todo' = todo
  PROVE  todo = <<>> \/ todo' # Tail(todo)
<1> SUFFICES ASSUME todo # <<>> PROVE Tail(todo) # todo
  OBVIOUS
<1>1. todo \in Seq(Mem!Pieces)
  BY DEF PieceInv
<1>2. Len(Tail(todo)) = Len(todo) - 1 /\ Len(todo) \in Nat
  BY <1>1, HeadTailProperties
<1>3. \A n \in Nat : n - 1 # n
  OBVIOUS
<1>4. Len(Tail(todo)) # Len(todo)
  BY <1>2, <1>3, Zenon
<1> QED
  BY <1>4, Zenon

LEMMA InvInit == Init => Inv
<1> SUFFICES ASSUME Init PROVE Inv
  OBVIOUS
<1>1. DataType
  BY BlankImages DEF Init, DataType
<1>2. TimeType
  BY Delays DEF Init, TimeType
<1>3. FlagType /\ CallType
  <2>1. FlagType
    BY ZeroIsFlag, Zenon DEF Init, FlagType
  <2>2. CallType
    BY DEF Init, CallType
  <2> QED BY <2>1, <2>2
<1>4. Copied /\ PieceInv /\ ResetInv
  BY Sectors DEF Init, Copied, PieceInv, ResetInv
<1>5. TimeInv
  BY Delays DEF Init, TimeInv
<1> QED
  BY <1>1, <1>2, <1>3, <1>4, <1>5 DEF Inv, TypeOK

-----------------------------------------------------------------------------
(* A piece put into an image gives an image.                                *)
LEMMA PutImage ==
  ASSUME NEW p \in Mem!Pieces, NEW image \in Mem!Images
  PROVE  [w \in Words |-> IF w \in DOMAIN p.img THEN p.img[w] ELSE image[w]] \in Mem!Images
  BY PieceFacts DEF Mem!Images

LEMMA OverImage ==
  ASSUME NEW old \in Mem!Images, NEW new \in Mem!Images
  PROVE  Over(old, new) \in Mem!Images
  BY DEF Over, Mem!Images

LEMMA DataStep ==
  ASSUME Inv, [Next]_vars
  PROVE  DataType'
<1> USE DEF Inv, TypeOK
<1>1. CASE SecErase \/ SecEraseFails
  <2>1. PICK image : SecEraseTo(image) /\ image \in {Blank, flash[todo[1].sec], Broken}
    BY <1>1 DEF SecErase, SecEraseFails
  <2>2. pc = "erasing" /\ todo[1].sec \in Secs
    BY <2>1, NextPiece, PieceFacts DEF SecEraseTo, CallType
  <2>3. image \in Mem!Images
    BY <2>1, <2>2, BlankImages DEF DataType
  <2> QED
    BY <2>1, <2>3 DEF SecEraseTo, buffer, DataType
<1>2. CASE Copy
  <2> DEFINE p == Head(todo)
             old == IF p.sec = sec THEN fbuf ELSE flash[p.sec]
  <2>1. p \in Mem!Pieces /\ p.sec \in Secs
    BY <1>2, NextPiece, PieceFacts DEF Copy, PutPiece, CallType
  <2>2. old \in Mem!Images
    BY <2>1 DEF DataType
  <2>3. [w \in Words |-> IF w \in DOMAIN p.img THEN p.img[w] ELSE old[w]] \in Mem!Images
    BY <2>1, <2>2, PutImage
  <2>4. fbuf' = [w \in Words |-> IF w \in DOMAIN p.img THEN p.img[w] ELSE old[w]]
    BY <1>2 DEF Copy, PutPiece
  <2>5. sec' \in Secs /\ spoiled' \subseteq {sec'} /\ flash' = flash
    BY <1>2, <2>1 DEF Copy, PutPiece
  <2>6. unstamped' \subseteq {sec'} /\ (dirty' => unstamped' = {})
    BY <1>2, Zenon DEF Copy, PutPiece
  <2> QED
    BY <2>3, <2>4, <2>5, <2>6 DEF DataType
<1>3. CASE Erase \/ EraseFails
  <2>1. sec \in Secs
    BY <1>3 DEF Erase, EraseFails, EraseTo, CallType, TimeType
  <2>2. PICK image : EraseTo(image) /\ image \in {Blank, flash[sec], Broken}
    BY <1>3 DEF Erase, EraseFails
  <2>3. image \in Mem!Images
    BY <2>1, <2>2, BlankImages DEF DataType
  <2>4. spoiled' \subseteq {sec}
    BY <1>3 DEF Erase, EraseFails, DataType
  <2> QED
    BY <2>1, <2>2, <2>3, <2>4 DEF EraseTo, buffer, DataType
<1>4. CASE Program \/ ProgramFails
  <2>1. sec \in Secs
    BY <1>4 DEF Program, ProgramFails, ProgramTo, CallType, TimeType
  <2>2. Over(flash[sec], fbuf) \in Mem!Images /\ Broken \in Mem!Images
    BY <2>1, BlankImages, OverImage DEF DataType
  <2> QED
    BY <1>4, <2>1, <2>2 DEF Program, ProgramFails, ProgramTo, DataType
<1>5. CASE Restart
  BY <1>5, BlankImages DEF Restart, DataType
<1>6. CASE Write \/ SecWrite \/ Evict \/ Maintian \/ ResetCall \/ Tick \/ SetClock \/ UNCHANGED vars
  BY <1>6 DEF Write, SecWrite, Evict, Maintian, ResetCall, Flush, Tick, SetClock, vars, buffer, DataType
<1> QED
  BY <1>1, <1>2, <1>3, <1>4, <1>5, <1>6 DEF Next

(* What a call has to write.                                                *)
LEMMA Asks ==
  ASSUME Write \/ SecWrite
  PROVE  /\ todo' \in Seq(Mem!Pieces) /\ todo' # <<>>
         /\ pc' = "erasing" => Len(todo') = 1 /\ todo'[1].sec # sec'
<1>1. \A s \in Secs, w \in Words, v \in Vals \union {FF} :
        [sec |-> s, img |-> [x \in {w} |-> v]] \in Mem!Pieces
  BY OnePiece
<1>2. NextSec \in [Secs -> Secs] /\ SpiSecs \subseteq Secs /\ 1 \in Words
  BY Sectors
<1>3. CASE Write
  <2>1. PICK s \in Secs, w \in Words, v \in Vals \union {FF} :
          \/ todo' = << [sec |-> s, img |-> [x \in {w} |-> v]] >>
          \/ todo' = << [sec |-> s, img |-> [x \in {w} |-> v]],
                        [sec |-> NextSec[s], img |-> [x \in {1} |-> v]] >>
    BY <1>3 DEF Write
  <2> DEFINE a == [sec |-> s, img |-> [x \in {w} |-> v]]
             b == [sec |-> NextSec[s], img |-> [x \in {1} |-> v]]
  <2>2. a \in Mem!Pieces /\ b \in Mem!Pieces
    BY <1>1, <1>2
  <2> HIDE DEF a, b
  <2>3. todo' = <<a>> \/ todo' = <<a, b>>
    BY <2>1 DEF a, b
  <2>4. pc' = "write"
    BY <1>3 DEF Write
  <2>5. <<a>> \in Seq(Mem!Pieces) /\ <<a, b>> \in Seq(Mem!Pieces)
    BY <2>2
  <2>6. Len(todo') # 0
    BY <2>3
  <2> QED
    BY <2>3, <2>4, <2>5, <2>6, EmptySeq
<1>4. CASE SecWrite
  <2>1. PICK s \in SpiSecs, img \in [Words -> Vals \union {FF}] :
          /\ todo' = << [sec |-> s, img |-> img] >>
          /\ pc' = "erasing" => s # sec
    BY <1>4 DEF SecWrite
  <2> DEFINE a == [sec |-> s, img |-> img]
  <2>2. a \in Mem!Pieces
    BY <1>2, OnePiece
  <2>3. a.sec = s /\ sec' = sec
    BY <1>4 DEF SecWrite, buffer
  <2> HIDE DEF a
  <2>4. todo' = <<a>>
    BY <2>1 DEF a
  <2> QED
    BY <2>1, <2>2, <2>3, <2>4
<1> QED
  BY <1>3, <1>4

(* Boolean values need no arithmetic.                                       *)
LEMMA FlagStep ==
  ASSUME Inv, [Next]_vars
  PROVE  FlagType'
<1> USE DEF Inv, TypeOK, FlagType
<1>1. CASE Write \/ SecWrite \/ SecErase \/ SecEraseFails \/ Evict \/ UNCHANGED vars
  BY <1>1, Zenon DEF Write, SecWrite, SecErase, SecEraseFails, SecEraseTo, Evict, buffer, vars
<1>2. CASE Copy
  BY <1>2, Zenon DEF Copy, PutPiece
<1>3. CASE Maintian \/ ResetCall
  BY <1>3, Zenon DEF Maintian, ResetCall, Flush, buffer
<1>4. CASE Erase \/ EraseFails \/ Program \/ ProgramFails
  BY <1>4, Zenon DEF Erase, EraseFails, EraseTo, Program, ProgramFails, ProgramTo, buffer
<1>5. CASE Tick
  BY <1>5, Zenon DEF Tick
<1>6. CASE SetClock \/ Restart
  BY <1>6, ZeroIsFlag, Zenon DEF SetClock, Restart
<1> QED
  BY <1>1, <1>2, <1>3, <1>4, <1>5, <1>6, Zenon DEF Next

LEMMA CallStep ==
  ASSUME Inv, [Next]_vars
  PROVE  CallType'
<1> USE DEF Inv, TypeOK, CallType
<1>1. CASE Write \/ SecWrite
  <2>1. pc' \in {"write", "erasing"}
    BY <1>1 DEF Write, SecWrite
  <2> QED
    BY <1>1, <2>1, Asks
<1>2. CASE SecErase \/ SecEraseFails \/ Restart
  BY <1>2 DEF SecErase, SecEraseFails, SecEraseTo, Restart
<1>3. CASE Copy
  <2>1. Tail(todo) = <<>> <=> Len(todo) = 1
    BY <1>3, NextPiece DEF Copy, PutPiece
  <2> QED
    BY <1>3, <2>1 DEF Copy, PutPiece
<1>4. CASE Evict \/ Maintian \/ ResetCall
  BY <1>4 DEF Evict, Maintian, ResetCall, Flush, Due, buffer
<1>5. CASE Erase \/ EraseFails \/ Program \/ ProgramFails
  BY <1>5 DEF Erase, EraseFails, EraseTo, Program, ProgramFails, ProgramTo, buffer
<1>6. CASE Tick \/ SetClock \/ UNCHANGED vars
  BY <1>6 DEF Tick, SetClock, vars
<1> QED
  BY <1>1, <1>2, <1>3, <1>4, <1>5, <1>6 DEF Next

LEMMA PieceStep ==
  ASSUME Inv, [Next]_vars
  PROVE  PieceInv'
<1> USE DEF Inv, TypeOK, PieceInv
<1>1. CASE Write \/ SecWrite
  BY <1>1, Asks
<1>2. CASE SecErase \/ SecEraseFails \/ Restart
  BY <1>2, EmptySeq DEF SecErase, SecEraseFails, SecEraseTo, Restart
<1>3. CASE Copy
  BY <1>3, NextPiece DEF Copy, PutPiece, CallType
<1>4. CASE Evict \/ Maintian \/ ResetCall
  BY <1>4 DEF Evict, Maintian, ResetCall, Flush, buffer
<1>5. CASE Erase \/ EraseFails \/ Program \/ ProgramFails
  BY <1>5 DEF Erase, EraseFails, EraseTo, Program, ProgramFails, ProgramTo, buffer
<1>6. CASE Tick \/ SetClock \/ UNCHANGED vars
  BY <1>6 DEF Tick, SetClock, vars
<1> QED
  BY <1>1, <1>2, <1>3, <1>4, <1>5, <1>6 DEF Next

-----------------------------------------------------------------------------
(* Programming a blank sector gives what is programmed.                     *)
LEMMA OverBlank ==
  ASSUME NEW new \in Mem!Images
  PROVE  Over(Blank, new) = new
  BY DEF Over, Blank, Mem!Images

LEMMA CopiedStep ==
  ASSUME Inv, [Next]_vars
  PROVE  Copied'
<1> USE DEF Inv, TypeOK, Copied
<1>1. CASE Write \/ SecWrite \/ Evict
  BY <1>1 DEF Write, SecWrite, Evict, buffer
<1>2. CASE SecErase \/ SecEraseFails
  <2>1. PICK image : SecEraseTo(image)
    BY <1>2 DEF SecErase, SecEraseFails
  <2>2. pc = "erasing" /\ todo[1].sec # sec
    BY <2>1 DEF SecEraseTo, PieceInv
  <2>3. sec \in Secs => flash'[sec] = flash[sec]
    BY <2>1, <2>2 DEF SecEraseTo, DataType
  <2> QED
    BY <2>1, <2>3, Zenon DEF SecEraseTo, buffer
<1>3. CASE Copy
  <2>1. pc' # "program"
    BY <1>3 DEF Copy, PutPiece
  <2>2. ~ dirty' => unstamped' = {sec'}
    BY <1>3, Zenon DEF Copy, PutPiece
  <2> QED
    BY <2>1, <2>2
<1>4. CASE Maintian \/ ResetCall
  BY <1>4 DEF Maintian, ResetCall, Flush, buffer
<1>5. CASE Erase \/ EraseFails
  <2>1. pc = "erase" /\ dirty /\ sec \in Secs /\ dirty' = dirty /\ sec' = sec
    BY <1>5 DEF Erase, EraseFails, EraseTo, buffer, CallType, TimeType
  <2>2. CASE Erase
    BY <2>1, <2>2 DEF Erase, EraseTo, DataType
  <2>3. CASE EraseFails
    BY <2>1, <2>3 DEF EraseFails
  <2> QED
    BY <1>5, <2>2, <2>3
<1>6. CASE Program
  <2>1. pc = "program" /\ sec \in Secs
    BY <1>6 DEF Program, ProgramTo, CallType, TimeType
  <2>2. sec \notin spoiled => flash'[sec] = fbuf
    BY <1>6, <2>1, OverBlank DEF Program, ProgramTo, DataType
  <2> QED
    BY <1>6, <2>2 DEF Program, ProgramTo
<1>7. CASE ProgramFails
  BY <1>7 DEF ProgramFails, ProgramTo
<1>8. CASE Tick \/ SetClock \/ UNCHANGED vars
  BY <1>8 DEF Tick, SetClock, vars
<1>9. CASE Restart
  BY <1>9, Sectors DEF Restart
<1> QED
  BY <1>1, <1>2, <1>3, <1>4, <1>5, <1>6, <1>7, <1>8, <1>9 DEF Next

LEMMA ResetStep ==
  ASSUME Inv, [Next]_vars
  PROVE  ResetInv'
<1> USE DEF Inv, TypeOK, ResetInv
<1>1. CASE Write \/ SecWrite \/ Restart
  BY <1>1 DEF Write, SecWrite, Restart
<1>2. CASE SecErase \/ SecEraseFails \/ Copy \/ Evict
  BY <1>2 DEF SecErase, SecEraseFails, SecEraseTo, Copy, PutPiece, Evict, buffer
<1>3. CASE Maintian
  BY <1>3 DEF Maintian, Flush, Due, buffer, CallType
<1>4. CASE ResetCall
  <2>1. todo' = <<>> /\ dirty' = dirty
    BY <1>4 DEF ResetCall, Flush, buffer, CallType
  <2>2. pc' = "erase" \/ (pc' = "idle" /\ ~ dirty)
    <3>1. age < 0 \/ age >= 0
      BY DEF TimeType
    <3>2. CASE dirty
      BY <1>4, <3>1, <3>2 DEF ResetCall, Flush, Due
    <3>3. CASE ~ dirty
      BY <1>4, <3>3 DEF ResetCall, Flush, Due
    <3> QED
      BY <3>2, <3>3
  <2> QED
    BY <2>1, <2>2
<1>5. CASE Erase \/ EraseFails
  BY <1>5 DEF Erase, EraseFails, EraseTo, buffer
<1>6. CASE Program \/ ProgramFails
  BY <1>6 DEF Program, ProgramFails, ProgramTo
<1>7. CASE Tick \/ SetClock \/ UNCHANGED vars
  BY <1>7 DEF Tick, SetClock, vars, CallType
<1> QED
  BY <1>1, <1>2, <1>3, <1>4, <1>5, <1>6, <1>7 DEF Next

-----------------------------------------------------------------------------
LEMMA TimeStep ==
  ASSUME Inv, [Next]_vars
  PROVE  (TimeType /\ TimeInv)'
<1> USE DEF Inv, TypeOK, TimeType, TimeInv
<1> USE Delays
<1>1. CASE Write \/ SecWrite \/ SecErase \/ SecEraseFails \/ Evict
  BY <1>1 DEF Write, SecWrite, SecErase, SecEraseFails, SecEraseTo, Evict, buffer
<1>2. CASE Copy
  <2>1. sec' \in Secs
    BY <1>2, NextPiece, PieceFacts DEF Copy, PutPiece, CallType
  <2> QED
    BY <1>2, <2>1 DEF Copy, PutPiece
<1>3. CASE Maintian
  BY <1>3 DEF Maintian, Flush, Due, buffer
<1>4. CASE ResetCall
  BY <1>4 DEF ResetCall, Flush, Due, buffer
<1>5. CASE Erase \/ EraseFails
  BY <1>5 DEF Erase, EraseFails, EraseTo, buffer
<1>6. CASE Program \/ ProgramFails
  <2>1. ~ dirty'
    BY <1>6 DEF Program, ProgramFails, ProgramTo
  <2> QED
    BY <1>6, <2>1 DEF Program, ProgramFails, ProgramTo
<1>7. CASE Tick
  BY <1>7 DEF Tick, Least
<1>8. CASE SetClock
  <2>1. UNCHANGED <<sec, dirty, pc, look>> /\ quiet' = 0
    BY <1>8 DEF SetClock
  <2>2. PICK a \in {-AHEAD, 0, DELAY} : age' = a
    <3>1. CASE dirty
      BY <1>8, <3>1 DEF SetClock
    <3>2. CASE ~ dirty
      BY <1>8, <3>2 DEF SetClock
    <3> QED
      BY <3>1, <3>2
  <2>3. a \in -AHEAD .. DELAY
    OBVIOUS
  <2>4. TimeType'
    BY <2>1, <2>2, <2>3
  <2>5. TimeInv'
    BY <2>1, <2>2
  <2> QED
    BY <2>4, <2>5
<1>9. CASE Restart
  <2>1. ~ dirty'
    BY <1>9 DEF Restart
  <2> QED
    BY <1>9, <2>1 DEF Restart
<1>10. CASE UNCHANGED vars
  BY <1>10 DEF vars
<1> QED
  BY <1>1, <1>2, <1>3, <1>4, <1>5, <1>6, <1>7, <1>8, <1>9, <1>10 DEF Next

-----------------------------------------------------------------------------
LEMMA InvStep == Inv /\ [Next]_vars => Inv'
  BY DataStep, FlagStep, CallStep, PieceStep, CopiedStep, ResetStep, TimeStep
  DEF Inv, TypeOK

(* The buffer, the clock and the calls keep their types.                    *)
THEOREM FlashTyped == Spec => []TypeOK
<1>1. Inv => TypeOK
  BY DEF Inv
<1> QED
  BY <1>1, InvInit, InvStep, PTL DEF Spec

(* What is written is saved by the second look of the periodic thread after *)
(* flash_Flush's delay, even when the clock is set to the past.  A sector   *)
(* written while the clock showed 0, and one whose saving failed, stays in  *)
(* the buffer only.                                                         *)
THEOREM SavedInTime == Spec => []InTime
<1>1. Inv => InTime
  BY DEF Inv, TypeOK, DataType, TimeInv, Copied, InTime, Reading
<1> QED
  BY <1>1, InvInit, InvStep, PTL DEF Spec

(* sys_Reset leaves nothing behind but a sector written while the clock     *)
(* showed 0 and one that the flash did not take.                            *)
THEOREM SavedForReset == Spec => []FlushedForReset
<1>1. Inv => FlushedForReset
  BY DEF Inv, ResetInv, Copied, FlushedForReset, Reading
<1> QED
  BY <1>1, InvInit, InvStep, PTL DEF Spec

-----------------------------------------------------------------------------
(* A sector is erased at once only when it is to be blank but for its last  *)
(* word.                                                                    *)
Blanked == pc = "erasing" => DOMAIN todo[1].img = Words /\ LooksBlank(todo[1].img)

LEMMA BlankedInit == Init => Blanked
  BY DEF Init, Blanked

LEMMA BlankedStep ==
  ASSUME Blanked, [Next]_vars
  PROVE  Blanked'
<1> SUFFICES ASSUME pc' = "erasing" PROVE DOMAIN todo'[1].img = Words /\ LooksBlank(todo'[1].img)
  BY DEF Blanked, LooksBlank
<1>1. CASE SecWrite
  <2>1. PICK s \in SpiSecs, img \in [Words -> Vals \union {FF}] :
          todo' = << [sec |-> s, img |-> img] >> /\ LooksBlank(img)
    BY <1>1 DEF SecWrite
  <2>2. todo'[1].img = img
    BY <2>1
  <2> QED
    BY <2>1, <2>2
<1>2. CASE Write \/ SecErase \/ SecEraseFails \/ Evict \/ Copy \/ Maintian \/ ResetCall
  BY <1>2 DEF Write, SecErase, SecEraseFails, SecEraseTo, Evict, Copy, PutPiece, Maintian,
              ResetCall, Flush
<1>3. CASE Erase \/ EraseFails \/ Program \/ ProgramFails
  BY <1>3 DEF Erase, EraseFails, EraseTo, Program, ProgramFails, ProgramTo
<1>4. CASE Tick \/ SetClock \/ Restart \/ UNCHANGED vars
  BY <1>4 DEF Tick, SetClock, Restart, vars, Blanked
<1> QED
  BY <1>1, <1>2, <1>3, <1>4 DEF Next

LEMMA ReadStep ==
  ASSUME Inv, Blanked, [Next]_vars
  PROVE  Restart \/ (\A s \in Secs : Reading(s)' = Asked(s) \/ Lost(s)) \/ UNCHANGED vars
<1>1. CASE Copy
  <2> DEFINE p == Head(todo)
  <2>1. todo # <<>> /\ todo' = Tail(todo)
    BY <1>1 DEF Copy, PutPiece, Inv, TypeOK, CallType
  <2>2. p.sec \in Secs /\ DOMAIN p.img \subseteq Words
    BY <2>1, NextPiece, PieceFacts DEF Inv
  <2>3. /\ sec' = p.sec /\ flash' = flash
        /\ fbuf' = [w \in Words |-> IF w \in DOMAIN p.img THEN p.img[w]
                                    ELSE IF p.sec = sec THEN fbuf[w] ELSE flash[p.sec][w]]
        /\ dirty => p.sec = sec
    BY <1>1 DEF Copy, PutPiece
  <2>4. fbuf' = Mem!Put(Reading(p.sec), p.img)
    BY <2>3 DEF Reading, Mem!Put
  <2>5. ASSUME NEW s \in Secs, s # p.sec, ~ Lost(s)
        PROVE  Reading(s)' = Reading(s)
    <3>1. s \notin spoiled \union unstamped
      BY <2>3, <2>5 DEF Lost
    <3>2. s = sec => fbuf = flash[s]
      BY <2>3, <2>5, <3>1 DEF Inv, Copied
    <3> QED
      BY <2>3, <2>5, <3>2 DEF Reading
  <2>6. ASSUME NEW s \in Secs, s = p.sec
        PROVE  Reading(s)' = Mem!Put(Reading(s), p.img)
    BY <2>3, <2>4, <2>6 DEF Reading
  <2> HIDE DEF p
  <2>7. p = Head(todo)
    BY DEF p
  <2>8. ASSUME NEW s \in Secs, ~ Lost(s)
        PROVE  Reading(s)' = Asked(s)
    <3>1. CASE s = p.sec
      BY <2>1, <2>6, <2>7, <3>1 DEF Asked
    <3>2. CASE s # p.sec
      BY <2>1, <2>5, <2>7, <2>8, <3>2 DEF Asked
    <3> QED
      BY <3>1, <3>2
  <2> QED
    BY <2>8
<1>2. CASE SecErase \/ SecEraseFails
  <2> DEFINE p == todo[1]
  <2>1. PICK image : SecEraseTo(image) /\ (image = Blank \/ SecEraseFails)
    <3>1. CASE SecErase
      BY <3>1 DEF SecErase
    <3>2. CASE SecEraseFails
      BY <3>2 DEF SecEraseFails
    <3> QED
      BY <1>2, <3>1, <3>2
  <2>2. /\ pc = "erasing" /\ todo' = <<>> /\ UNCHANGED <<sec, fbuf>>
        /\ flash' = [flash EXCEPT ![p.sec] = image]
    BY <2>1 DEF SecEraseTo, buffer
  <2>3. /\ todo # <<>> /\ Head(todo) = p /\ Tail(todo) = <<>>
        /\ p.sec \in Secs /\ p.sec # sec
    BY <2>2, NextPiece, PieceFacts DEF Inv, TypeOK, CallType, PieceInv
  <2>4. DOMAIN p.img = Words /\ LooksBlank(p.img)
    BY <2>2 DEF Blanked
  <2> HIDE DEF p
  <2>5. ASSUME NEW s \in Secs, s = p.sec, ~ Lost(s)
        PROVE  Reading(s)' = Mem!Put(Reading(s), p.img)
    <3>1. image = Blank /\ p.img[LAST] = FF
      BY <2>1, <2>2, <2>5 DEF Lost, p
    <3>2. Mem!Put(Reading(s), p.img) = Blank
      BY <2>4, <3>1 DEF Mem!Put, Blank, LooksBlank
    <3>3. Reading(s)' = Blank
      BY <2>2, <2>3, <2>5, <3>1 DEF Reading, Inv, TypeOK, DataType
    <3> QED
      BY <3>2, <3>3
  <2>6. ASSUME NEW s \in Secs, s # p.sec
        PROVE  Reading(s)' = Reading(s)
    BY <2>2, <2>3, <2>6 DEF Reading, Inv, TypeOK, DataType
  <2>7. ASSUME NEW s \in Secs, ~ Lost(s)
        PROVE  Reading(s)' = Asked(s)
    <3>1. CASE s = p.sec
      BY <2>2, <2>3, <2>5, <2>7, <3>1 DEF Asked
    <3>2. CASE s # p.sec
      BY <2>2, <2>3, <2>6, <3>2 DEF Asked
    <3> QED
      BY <3>1, <3>2
  <2> QED
    BY <2>7
<1>3. CASE Write \/ SecWrite
  <2>1. UNCHANGED <<flash, sec, fbuf>> /\ pc = "idle"
    BY <1>3 DEF Write, SecWrite, buffer
  <2>2. todo = <<>>
    BY <2>1 DEF Inv, TypeOK, CallType
  <2> QED
    BY <2>1, <2>2 DEF Reading, Asked
<1>4. CASE Erase \/ EraseFails \/ Program \/ ProgramFails
  <2>1. /\ UNCHANGED <<sec, fbuf, todo>> /\ pc \in {"erase", "program"}
        /\ \A s \in Secs \ {sec} : flash'[s] = flash[s]
    BY <1>4 DEF Erase, EraseFails, EraseTo, Program, ProgramFails, ProgramTo, buffer, Inv, TypeOK, DataType
  <2>2. \A s \in Secs : Reading(s)' = Reading(s)
    BY <2>1 DEF Reading
  <2>3. todo = <<>> \/ todo' # Tail(todo)
    BY <2>1, Unshortened DEF Inv
  <2> QED
    BY <2>2, <2>3 DEF Asked
<1>5. CASE Evict \/ Maintian \/ ResetCall \/ Tick \/ SetClock
  <2>1. UNCHANGED <<flash, sec, fbuf, todo>>
    BY <1>5 DEF Evict, Maintian, ResetCall, Flush, Tick, SetClock, buffer
  <2>2. todo = <<>> \/ todo' # Tail(todo)
    BY <2>1, Unshortened DEF Inv
  <2> QED
    BY <2>1, <2>2 DEF Reading, Asked
<1> QED
  BY <1>1, <1>2, <1>3, <1>4, <1>5 DEF Next

(* Until power fails, a sector reads as it was last written, but for what   *)
(* a mishap takes: the one that leaves the buffer, if it was written at     *)
(* clock 0 or its saving failed, and the one that is erased at once.        *)
THEOREM MishapsLose == Spec => OnlyMishapsLose
<1>1. Init => Inv /\ Blanked
  BY InvInit, BlankedInit
<1>2. Inv /\ Blanked /\ [Next]_vars => Inv' /\ Blanked'
  BY InvStep, BlankedStep
<1>3. Inv /\ Blanked /\ [Next]_vars =>
        [Restart \/ \A s \in Secs : Reading(s)' = Asked(s) \/ Lost(s)]_vars
  BY ReadStep
<1> QED
  BY <1>1, <1>2, <1>3, PTL DEF Spec, OnlyMishapsLose

(* Without mishaps every sector is saved, and nothing is read but what was  *)
(* written.                                                                 *)
Kept ==
    /\ spoiled = {} /\ unstamped = {} /\ ~ zero
    /\ pc = "erasing" => DOMAIN todo[1].img = Words /\ todo[1].img = Blank

LEMMA KeptInit == Mishaps = {} /\ Init => Kept
<1> SUFFICES ASSUME Mishaps = {}, Init PROVE Kept
  OBVIOUS
<1>1. ~ zero
  BY Zenon DEF Init, Zero
<1> QED
  BY <1>1 DEF Init, Kept

LEMMA KeptStep ==
  ASSUME Mishaps = {}, Inv, Kept, [Next]_vars
  PROVE  Kept'
<1>1. ~ zero'
  <2>1. CASE SetClock \/ Restart
    BY <2>1, Zenon DEF SetClock, Restart, Zero
  <2>2. CASE Write \/ SecWrite \/ SecErase \/ SecEraseFails \/ Evict \/ Maintian \/ ResetCall
    BY <2>2, Zenon DEF Write, SecWrite, SecErase, SecEraseFails, SecEraseTo, Evict, Maintian,
                       ResetCall, Flush, Kept
  <2>3. CASE Copy \/ Tick \/ UNCHANGED vars
    BY <2>3, Zenon DEF Copy, PutPiece, Tick, vars, Kept
  <2>4. CASE Erase \/ EraseFails \/ Program \/ ProgramFails
    BY <2>4, Zenon DEF Erase, EraseFails, EraseTo, Program, ProgramFails, ProgramTo, Kept
  <2> QED
    BY <2>1, <2>2, <2>3, <2>4 DEF Next
<1>2. spoiled' = {} /\ unstamped' = {}
  <2>1. CASE Write \/ SecWrite \/ SecErase \/ SecEraseFails \/ Evict \/ Maintian \/ ResetCall
    BY <2>1 DEF Write, SecWrite, SecErase, SecEraseFails, SecEraseTo, Evict, Maintian, ResetCall,
                Flush, Kept
  <2>2. CASE Copy
    <3>1. unstamped' = {}
      BY <2>2, Zenon DEF Copy, PutPiece, Kept
    <3> QED
      BY <2>2, <3>1 DEF Copy, PutPiece, Kept
  <2>3. CASE Erase \/ EraseFails \/ Program \/ ProgramFails
    BY <2>3 DEF Erase, EraseFails, EraseTo, Program, ProgramFails, ProgramTo, Kept
  <2>4. CASE Tick \/ SetClock \/ Restart \/ UNCHANGED vars
    BY <2>4 DEF Tick, SetClock, Restart, vars, Kept
  <2> QED
    BY <2>1, <2>2, <2>3, <2>4 DEF Next
<1>3. pc' = "erasing" => DOMAIN todo'[1].img = Words /\ todo'[1].img = Blank
  <2> SUFFICES ASSUME pc' = "erasing" PROVE DOMAIN todo'[1].img = Words /\ todo'[1].img = Blank
    OBVIOUS
  <2>1. CASE SecWrite
    <3>1. PICK s \in SpiSecs, img \in [Words -> Vals \union {FF}] :
            /\ todo' = << [sec |-> s, img |-> img] >>
            /\ LooksBlank(img) /\ img[LAST] # FF => "lastword" \in Mishaps
            /\ LooksBlank(img)
      BY <2>1 DEF SecWrite
    <3>2. \A w \in Words : img[w] = FF
      BY <3>1 DEF LooksBlank
    <3>3. todo'[1].img = img
      BY <3>1
    <3> QED
      BY <3>2, <3>3 DEF Blank
  <2>2. CASE Write \/ SecErase \/ SecEraseFails \/ Evict \/ Copy \/ Maintian \/ ResetCall
    BY <2>2 DEF Write, SecErase, SecEraseFails, SecEraseTo, Evict, Copy, PutPiece, Maintian,
                ResetCall, Flush
  <2>3. CASE Erase \/ EraseFails \/ Program \/ ProgramFails
    BY <2>3 DEF Erase, EraseFails, EraseTo, Program, ProgramFails, ProgramTo
  <2>4. CASE Tick \/ SetClock \/ Restart \/ UNCHANGED vars
    BY <2>4 DEF Tick, SetClock, Restart, vars, Kept
  <2> QED
    BY <2>1, <2>2, <2>3, <2>4 DEF Next
<1> QED
  BY <1>1, <1>2, <1>3 DEF Kept

LEMMA CalmStep ==
  ASSUME Mishaps = {}, Inv, Blanked, Kept, [Next]_vars
  PROVE  Restart \/ (\A s \in Secs : Reading(s)' = Asked(s)) \/ UNCHANGED vars
<1>1. \A s \in Secs : ~ Lost(s)
  <2>1. LAST \in Words
    BY FlashAssumption DEF FlashAssumption, Words
  <2>2. pc = "erasing" => todo[1].img[LAST] = FF
    BY <2>1 DEF Kept, Blank
  <2>3. ~ SecEraseFails
    BY DEF SecEraseFails
  <2> QED
    BY <2>2, <2>3 DEF Lost, Kept
<1> QED
  BY <1>1, ReadStep

(* Until power fails, each sector reads as it was last written, if the      *)
(* flash takes what it is given, the clock never shows 0 and no image has   *)
(* its last word set alone.                                                 *)
THEOREM CalmReads == ASSUME Mishaps = {} PROVE Spec => ReadsAsWritten
<1>1. Init => Inv /\ Blanked /\ Kept
  BY InvInit, BlankedInit, KeptInit
<1>2. Inv /\ Blanked /\ Kept /\ [Next]_vars => Inv' /\ Blanked' /\ Kept'
  BY InvStep, BlankedStep, KeptStep
<1>3. Inv /\ Blanked /\ Kept /\ [Next]_vars =>
        [Restart \/ \A s \in Secs : Reading(s)' = Asked(s)]_vars
  BY CalmStep
<1> QED
  BY <1>1, <1>2, <1>3, PTL DEF Spec, ReadsAsWritten

(* Without mishaps sys_Reset leaves nothing behind.                         *)
THEOREM CalmReset ==
  ASSUME Mishaps = {}
  PROVE  Spec => [](reset /\ pc = "idle" => \A s \in Secs : Reading(s) = flash[s])
<1>1. Init => Inv /\ Kept
  BY InvInit, KeptInit
<1>2. Inv /\ Kept /\ [Next]_vars => Inv' /\ Kept'
  BY InvStep, KeptStep
<1>3. Inv /\ Kept => (reset /\ pc = "idle" => \A s \in Secs : Reading(s) = flash[s])
  BY DEF Inv, ResetInv, Copied, Kept, Reading
<1> QED
  BY <1>1, <1>2, <1>3, PTL DEF Spec

-----------------------------------------------------------------------------
(* What is open: the sector of a dirty buffer, or also one to be erased.    *)
LEMMA Opened ==
  ASSUME Inv
  PROVE  /\ pc # "erasing" => opened = IF dirty THEN {sec} ELSE {}
         /\ pc = "erasing" => /\ todo # <<>> /\ todo[1].sec \in Secs \ {sec}
                              /\ opened = {todo[1].sec} \union IF dirty THEN {sec} ELSE {}
<1> USE DEF Inv, TypeOK
<1>1. dirty => sec \in Secs
  BY DEF TimeType
<1>2. pc = "erasing" => todo # <<>> /\ todo[1].sec \in Secs \ {sec}
  BY NextPiece, PieceFacts DEF CallType, PieceInv
<1> QED
  BY <1>1, <1>2 DEF opened

(* The same after a step: a lemma about a state says nothing of the next.   *)
LEMMA OpenedNext ==
  ASSUME Inv', pc' # "erasing"
  PROVE  opened' = IF dirty' THEN {sec'} ELSE {}
<1>1. dirty' => sec' \in Secs
  BY DEF Inv, TypeOK, TimeType
<1> QED
  BY <1>1 DEF opened

(* A clean sector neither spoiled nor unstamped reads as the flash.         *)
LEMMA ReadsClean ==
  ASSUME Inv, NEW s \in Secs \ (spoiled \union unstamped), s = sec => ~ dirty
  PROVE  memory[s] = flash[s]
  BY DEF Inv, Copied, memory, Reading

LEMMA Stutters ==
  ASSUME UNCHANGED <<flash, sec, fbuf, todo, spoiled, unstamped>>, dirty' = dirty,
         pc # "erasing", pc' # "erasing"
  PROVE  UNCHANGED <<memory, todo, opened, spoiled, unstamped>>
  BY DEF memory, opened, Reading

LEMMA AskStep ==
  ASSUME Inv, Inv', Write \/ SecWrite
  PROVE  Mem!Ask \/ Mem!Erase
<1>1. UNCHANGED <<flash, sec, fbuf, spoiled, unstamped>> /\ dirty' = dirty /\ pc = "idle"
  BY DEF Write, SecWrite, buffer
<1>2. memory' = memory /\ spoiled' = spoiled /\ unstamped' = unstamped
  BY <1>1 DEF memory, Reading
<1>3. todo = <<>> /\ todo' \in Seq(Mem!Pieces)
  BY <1>1, Asks DEF Inv, TypeOK, CallType
<1>4. CASE pc' # "erasing"
  <2>1. opened' = opened
    BY <1>1, <1>4 DEF opened
  <2> QED
    BY <1>2, <1>3, <2>1 DEF Mem!Ask
<1>5. CASE pc' = "erasing"
  <2>1. PICK s \in SpiSecs, img \in [Words -> Vals \union {FF}] :
          todo' = << [sec |-> s, img |-> img] >> /\ s # sec /\ LooksBlank(img)
    BY <1>1, <1>5 DEF SecWrite, Write
  <2> DEFINE p == [sec |-> s, img |-> img]
  <2>2. p \in Mem!Pieces /\ p.sec = s /\ p.img = img
    BY Sectors, OnePiece
  <2>3. Mem!LooksBlank(p.img)
    <3>1. LAST \in Words /\ DOMAIN img = Words /\ \A x \in Words \ {LAST} : x < LAST
      BY FlashAssumption DEF FlashAssumption, Words
    <3>2. \A x \in Words \ {LAST} : x < LAST /\ x \in DOMAIN img /\ img[x] = FF
      BY <2>1, <3>1 DEF LooksBlank
    <3> QED
      BY <2>2, <3>1, <3>2 DEF Mem!LooksBlank
  <2>4. opened = IF dirty THEN {sec} ELSE {}
    BY <1>1, Opened
  <2>5. opened' = {s} \union opened
    <3>1. s \in Secs
      BY Sectors
    <3>2. todo'[1].sec = s
      BY <2>1
    <3> QED
      BY <1>1, <1>5, <3>1, <3>2 DEF opened
  <2>6. p.sec \notin opened /\ todo' = <<p>>
    BY <2>1, <2>4
  <2> HIDE DEF p
  <2> QED
    BY <1>2, <1>3, <2>2, <2>3, <2>5, <2>6 DEF Mem!Erase
<1> QED
  BY <1>4, <1>5

LEMMA EraseStep ==
  ASSUME Inv, Inv', SecErase \/ SecEraseFails
  PROVE  Mem!Erased
<1> DEFINE s == todo[1].sec
<1>0. PICK image : SecEraseTo(image) /\ image \in {Blank, flash[s], Broken}
  BY DEF SecErase, SecEraseFails
<1>1. pc = "erasing" /\ pc' # "erasing" /\ todo' = <<>> /\ flash' = [flash EXCEPT ![s] = image]
  BY <1>0 DEF SecEraseTo
<1>2. UNCHANGED <<sec, fbuf, spoiled, unstamped>> /\ dirty' = dirty
  BY <1>0 DEF SecEraseTo, buffer
<1>3. todo # <<>> /\ s \in Secs \ {sec} /\ opened = {s} \union IF dirty THEN {sec} ELSE {}
  BY <1>1, Opened
<1>4. Head(todo).sec = s /\ Tail(todo) = <<>>
  BY <1>1, <1>3, NextPiece DEF Inv, PieceInv
<1>5. opened' = opened \ {s}
  <2>1. opened' = IF dirty' THEN {sec'} ELSE {}
    BY <1>1, OpenedNext
  <2> QED
    BY <1>2, <1>3, <2>1
<1>6. memory' = [memory EXCEPT ![s] = image]
  BY <1>1, <1>2, <1>3 DEF memory, Reading, Inv, TypeOK, DataType
<1>7. image \in {Mem!Blank, memory[s], Mem!Broken}
  BY <1>0, <1>3 DEF memory, Reading, Mem!Blank, Blank, Mem!Broken, Broken
<1> HIDE DEF s
<1> QED
  BY <1>1, <1>2, <1>3, <1>4, <1>5, <1>6, <1>7 DEF Mem!Erased

LEMMA CopyStep ==
  ASSUME Inv, Inv', Copy
  PROVE  Mem!Write
<1> DEFINE p == Head(todo)
           s == Head(todo).sec
<1>1. pc = "write" /\ pc' # "erasing" /\ todo # <<>> /\ todo' = Tail(todo)
  BY DEF Copy, PutPiece, Inv, TypeOK, CallType
<1>2. s \in Secs /\ DOMAIN p.img \subseteq Words
  BY <1>1, NextPiece, PieceFacts DEF Inv
<1>3. /\ sec' = s /\ flash' = flash
      /\ fbuf' = [w \in Words |-> IF w \in DOMAIN p.img THEN p.img[w]
                                 ELSE IF s = sec THEN fbuf[w] ELSE flash[s][w]]
      /\ dirty => s = sec
  BY DEF Copy, PutPiece
<1>4. opened \subseteq {s}
  BY <1>1, <1>3, Opened
<1>5. memory'[s] = Mem!Put(memory[s], p.img)
  BY <1>2, <1>3 DEF memory, Reading, Mem!Put
<1>6. \A t \in Secs \ (spoiled \union unstamped \union {s}) : memory'[t] = memory[t]
  <2> TAKE t \in Secs \ (spoiled \union unstamped \union {s})
  <2>1. memory'[t] = flash[t]
    BY <1>3 DEF memory, Reading
  <2>2. memory[t] = flash[t]
    BY <1>3, ReadsClean
  <2> QED
    BY <2>1, <2>2
<1>7. /\ spoiled' = spoiled \intersect {s}
      /\ \/ opened' = {s} /\ unstamped' = {}
         \/ opened' = {} /\ unstamped' = {s}
  <2>1. opened' = IF dirty' THEN {s} ELSE {}
    BY <1>1, <1>3, OpenedNext
  <2>2. CASE zero
    BY <2>1, <2>2 DEF Copy, PutPiece
  <2>3. CASE ~ zero
    BY <2>1, <2>3 DEF Copy, PutPiece
  <2> QED
    BY <2>2, <2>3
<1> HIDE DEF p, s
<1>8. Head(todo).sec = s /\ Head(todo).img = p.img
  BY DEF p, s
<1> QED
  BY <1>1, <1>4, <1>5, <1>6, <1>7, <1>8 DEF Mem!Write, Mem!Differs

LEMMA AttemptStep ==
  ASSUME Inv, Inv', Erase \/ EraseFails
  PROVE  Mem!Attempt
<1>1. pc = "erase" /\ pc' = "program" /\ dirty /\ sec \in Secs
  BY DEF Erase, EraseFails, EraseTo, Inv, TypeOK, CallType, TimeType
<1>2. UNCHANGED <<sec, fbuf, todo, unstamped>> /\ dirty' = dirty
  BY DEF Erase, EraseFails, EraseTo, buffer
<1>3. \A t \in Secs \ {sec} : flash'[t] = flash[t]
  BY DEF Erase, EraseFails, EraseTo, Inv, TypeOK, DataType
<1>4. memory' = memory
  BY <1>2, <1>3 DEF memory, Reading
<1>5. opened = {sec} /\ opened' = opened
  BY <1>1, <1>2, Opened DEF opened
<1>6. spoiled' \in {{}, {sec}}
  BY DEF Erase, EraseFails, Inv, TypeOK, DataType
<1> QED
  BY <1>2, <1>4, <1>5, <1>6 DEF Mem!Attempt

LEMMA SaveStep ==
  ASSUME Inv, Inv', Program \/ ProgramFails
  PROVE  Mem!Save
<1>1. pc = "program" /\ pc' # "erasing" /\ dirty /\ ~ dirty' /\ sec \in Secs
  BY DEF Program, ProgramFails, ProgramTo, Inv, TypeOK, CallType, TimeType
<1>2. UNCHANGED <<sec, fbuf, todo, unstamped>>
  BY DEF Program, ProgramFails, ProgramTo
<1>3. \A t \in Secs \ {sec} : flash'[t] = flash[t]
  BY DEF Program, ProgramFails, ProgramTo, Inv, TypeOK, DataType
<1>4. memory' = memory
  BY <1>2, <1>3 DEF memory, Reading
<1>5. opened = {sec} /\ opened' = {}
  BY <1>1, Opened, OpenedNext
<1>6. spoiled' \in {spoiled, {sec}}
  BY DEF Program, ProgramFails
<1> QED
  BY <1>2, <1>4, <1>5, <1>6 DEF Mem!Save

LEMMA PowerStep ==
  ASSUME Inv, Inv', Restart
  PROVE  Mem!PowerFails
<1>1. todo' = <<>> /\ spoiled' = {} /\ unstamped' = {} /\ sec' = NoSec /\ ~ dirty' /\ pc' # "erasing"
  BY DEF Restart
<1>2. opened' = {}
  BY <1>1, OpenedNext
<1>3. \A t \in Secs \ (opened \union spoiled \union unstamped) : memory'[t] = memory[t]
  <2> TAKE t \in Secs \ (opened \union spoiled \union unstamped)
  <2>1. t = sec => ~ dirty
    BY DEF opened
  <2>2. memory[t] = flash[t]
    BY <2>1, ReadsClean
  <2>3. memory'[t] = flash'[t]
    BY <1>1, Sectors DEF memory, Reading
  <2>4. flash'[t] = flash[t]
    <3>1. pc = "erasing" => todo[1].sec # t
      BY DEF opened
    <3>2. pc \in {"erase", "program"} => sec # t
      BY <2>1 DEF Inv, TypeOK, CallType
    <3> QED
      BY <3>1, <3>2 DEF Restart, Inv, TypeOK, DataType
  <2> QED
    BY <2>2, <2>3, <2>4
<1>4. DOMAIN memory' = Secs
  BY DEF memory
<1> QED
  BY <1>1, <1>2, <1>3, <1>4 DEF Mem!PowerFails, Mem!Differs

(* The two flashes behind their buffer are a memory: every call, flush,     *)
(* failing operation and restart is a step of Memory or none.  What Memory  *)
(* says may be lost is the open sector and one being erased when power      *)
(* fails, a sector whose saving failed or that was written while the clock  *)
(* showed 0 when another takes its place, and one that is erased at once.   *)
THEOREM FlashIsMemory == Spec => ImplementsMemory
<1>1. Init => Mem!Init
  <2> SUFFICES ASSUME Init PROVE Mem!Init
    OBVIOUS
  <2>1. Inv
    BY InvInit
  <2>2. memory \in [Secs -> Mem!Images]
    BY <2>1 DEF memory, Reading, Inv, TypeOK, DataType
  <2>3. opened = {}
    BY <2>1, Opened DEF Init
  <2> QED
    BY <2>2, <2>3 DEF Init, Mem!Init
<1>2. Inv /\ Inv' /\ [Next]_vars => [Mem!Next]_<<memory, todo, opened, spoiled, unstamped>>
  <2> SUFFICES ASSUME Inv, Inv', [Next]_vars
               PROVE  Mem!Next \/ UNCHANGED <<memory, todo, opened, spoiled, unstamped>>
    OBVIOUS
  <2>1. CASE Write \/ SecWrite
    BY <2>1, AskStep DEF Mem!Next
  <2>2. CASE SecErase \/ SecEraseFails
    BY <2>2, EraseStep DEF Mem!Next
  <2>3. CASE Copy
    BY <2>3, CopyStep DEF Mem!Next
  <2>4. CASE Erase \/ EraseFails
    BY <2>4, AttemptStep DEF Mem!Next
  <2>5. CASE Program \/ ProgramFails
    BY <2>5, SaveStep DEF Mem!Next
  <2>6. CASE Restart
    BY <2>6, PowerStep DEF Mem!Next
  <2>7. CASE Evict \/ Maintian \/ ResetCall
    BY <2>7, Stutters DEF Evict, Maintian, ResetCall, Flush, buffer
  <2>8. CASE Tick \/ SetClock
    BY <2>8, Stutters DEF Tick, SetClock
  <2>9. CASE UNCHANGED vars
    BY <2>9 DEF vars, memory, opened, Reading
  <2> QED
    BY <2>1, <2>2, <2>3, <2>4, <2>5, <2>6, <2>7, <2>8, <2>9 DEF Next
<1> QED
  BY <1>1, <1>2, InvInit, InvStep, PTL DEF Spec, ImplementsMemory, Mem!Spec
=============================================================================
