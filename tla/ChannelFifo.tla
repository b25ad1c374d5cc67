---------------------------- MODULE ChannelFifo ----------------------------
(***************************************************************************)
(* What lib/dqueue.c promises its callers: every channel is a queue of its *)
(* own.  A character goes to the end of its channel or is dropped before   *)
(* it gets in; a reader receives a prefix; clearing empties one channel.   *)
(* No operation on one channel changes what another one holds.             *)
(***************************************************************************)
EXTENDS Sequences, Naturals

CONSTANTS Channels, Chars,
          Lossy       \* channels that are cleared, or read into a buffer

VARIABLES
    fifo,       \* fifo[c]: the characters channel c holds
    rcvd        \* rcvd[c]: what a reader of c received last

Init == /\ fifo = [c \in Channels |-> <<>>]
        /\ rcvd = [c \in Channels |-> <<>>]

Put(c, v) == /\ fifo' = [fifo EXCEPT ![c] = Append(@, v)]
             /\ UNCHANGED rcvd

Take(c, n) == /\ n \in 1 .. Len(fifo[c])
              /\ rcvd' = [rcvd EXCEPT ![c] = SubSeq(fifo[c], 1, n)]
              /\ fifo' = [fifo EXCEPT ![c] = SubSeq(@, n + 1, Len(@))]

(* Clearing, and what becomes of characters a buffer had no memory for.     *)
Drop(c, n) == /\ c \in Lossy /\ n \in 1 .. Len(fifo[c])
              /\ fifo' = [fifo EXCEPT ![c] = SubSeq(@, n + 1, Len(@))]
              /\ UNCHANGED rcvd

Next == \E c \in Channels :
            \/ \E v \in Chars : Put(c, v)
            \/ \E n \in 1 .. Len(fifo[c]) : Take(c, n) \/ Drop(c, n)

Spec == Init /\ [][Next]_<<fifo, rcvd>>
=============================================================================
