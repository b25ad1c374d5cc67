------------------------------ MODULE MCDQueue ------------------------------
(* Small pools for TLC: two or three blocks of two characters shared by two *)
(* channels, so that chains grow, heads move and the pool runs dry.  Each   *)
(* configuration chooses who calls what and how much arrives.               *)
EXTENDS DQueueFifo, DQueueInv

CONSTANTS A, B, t1, t2, io

MCChannels == {A, B}
MCThreads  == {t1, t2}
OneThread  == {t1}

Quota31 == [c \in {A, B} |-> IF c = A THEN 3 ELSE 1]
Quota41 == [c \in {A, B} |-> IF c = A THEN 4 ELSE 1]
Quota32 == [c \in {A, B} |-> IF c = A THEN 3 ELSE 2]

(* A reader that fetches into a buffer or clears (uart_Maintian), and one   *)
(* that takes single characters, of the long channel and of the other.      *)
PoolUses == [t \in {t1, t2} |-> IF t = t1 THEN {"pop2buf", "clear"} \X {A}
                                          ELSE {"popchar"} \X {A, B}]

(* Of one channel nothing is lost, and it is measured before it is read     *)
(* (uart_RecLen); blocks of the other come and go meanwhile.                *)
FifoUses == [t \in {t1, t2} |-> IF t = t1 THEN {"pop", "popchar", "len"} \X {A}
                                          ELSE {"pop2buf", "clear"} \X {B}]

(* The transmit side: A is popped by its interrupt only.                    *)
OneUse   == [t \in {t1} |-> {<<"pop2buf", B>>}]
IsrUses  == [t \in {t1, t2} |-> {<<IF t = t1 THEN "clear" ELSE "pop2buf", B>>}]
=============================================================================
